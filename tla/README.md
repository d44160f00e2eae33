# Verification of HateBlocker

HateBlocker is an iOS application in which everyone writes to, and reads, one
list of short posts kept in a Firebase Realtime Database. This directory holds
TLA+ modules of the application's logic and of the two libraries under it whose
source is in the repository and whose logic is the hardest: leveldb, in which
the database SDK keeps its data, and nanopb, with which events are encoded.
TLC configurations check the modules on small instances, and TLAPS proofs
establish the safety properties of the feed, of the container, of the compose
screens, of leveldb's write path, log format, skip list and arena for every
instance.

Paths are relative to `src/HateBlocker/HateBlocker/` (the application) or, where
they start with `SDK`, to
`src/HateBlocker/Pods/FirebaseDatabase/Firebase/Database/`. Paths that start with
`db/`, `table/` or `util/` are in `src/HateBlocker/Pods/leveldb-library/`, `pb*.c`
and `pb.h` in `src/HateBlocker/Pods/nanopb/`.

## Inventory

### The application

| Component | State | Operations | Interacts with |
|---|---|---|---|
| `Managers/FirebaseManager.swift` | the database reference | `write`, `listenTo`, `delete` | calls the SDK; its closures are called by the SDK on the main queue |
| `Managers/PostsManager.swift` | `posts`, `delegate` | `sendPost`, `deletePosts`, the three cases of `startObserving`, `managerUpdated` | listens to FirebaseManager; posts refresh blocks for its delegate |
| `Controllers/Posts/PostsController.swift`, `PostsContentViewController.swift` | the embedded controller, the rows | `setup`, `postsManagerDidUpdate`, the two buttons | delegate of PostsManager |
| `Protocols/ContainerControllerProtocol.swift` | `embededController`, children, subviews, layers | `embed` and two timed closures per animated call | used by RootViewController and PostsController |
| `AddPostViewController.swift`, `PostsNavigationController.swift` | the fields, the Done button, `viewControllers` | typing, `doneButtonTapped`, `didTapOnAddPost`, `didCreatePost` | send messages along the responder chain; `sendPost` |
| `Extension/UIResponderExtension.swift`, `ResponderMethods/UIResponder+Events.swift` | `parentController` | `coordinatingResponder`, forwarding | every controller |
| `Controllers/Root`, `Managers/AppDependency.swift`, `Protocols/InjectableProtocol.swift` | dependencies, weak children | launch, `addChildController` | creates everything once |
| `Managers/NLPManager.swift` | none | `hatefulRanges`, `evaluate` | nobody: its two callers are commented out (`TODO: 1`, `TODO: 2`) |
| `Protocols/LayoutSpecifier.swift`, `Extension/UIViewExtension.swift`, `Views/` | none | constraints, labels | the screens |
| SDK: views and events (`FSyncTree`, `FViewProcessor`, `FEventGenerator`, `FEventRaiser`, `FChildEventRegistration`) | the view of `/posts`, the registrations | register, apply local and server changes, raise events | dispatches blocks to the main queue |
| SDK: pending writes (`FWriteTree`, `FCompoundWrite`) | writes without an answer | add, acknowledge, revert | feeds the view |
| SDK: connection and persistence (`FPersistentConnection`, `FRepo`, `FPersistenceManager`) | outstanding puts and listens, the disk | send, resend, restore | the server, leveldb |

### leveldb

| Component | State | Operations | Interacts with |
|---|---|---|---|
| Log format (`db/log_writer.cc`, `db/log_reader.cc`) | the file, `block_offset_`; the reader's buffer and flags | `AddRecord`, `ReadRecord` | write-ahead log and MANIFEST |
| Write path (`DBImpl::Write`, `MakeRoomForWrite`, `BuildBatchGroup`, `db/write_batch.cc`) | `writers_`, `mem_`, `imm_`, the log, `bg_error_` | a write; the background call | log, memtable, background thread |
| Memtable (`db/memtable.cc`, `db/skiplist.h`, `util/arena.cc`) | nodes and their links, `max_height_`, blocks of the arena | `Add`; `Seek`, `Next`, `Prev`, `SeekToFirst`, `SeekToLast` | one writer, readers without a lock |
| Levels (`db/version_set.cc`, `DoCompactionWork`) | files of each level, `compact_pointer_`, snapshots | flush, pick, merge, move, `Get`; `CompactRange` |  background thread against readers and writers |
| Files and recovery (`DBImpl::Recover`, `LogAndApply`, `DeleteObsoleteFiles`, `db/version_edit.cc`, `db/filename.cc`) | logs, tables, manifests, CURRENT; versions and their references | open, replay, install, delete, close; a crash anywhere | all of the above |
| `db/repair.cc` | what it found in the directory | `RepairDB`, file by file | the files a database left |
| Caches (`util/cache.cc`, `db/table_cache.cc`, `Table::BlockReader`, `util/env_posix.cc`) | entries, two lists, references, charges; limiters | find, insert, release, evict, prune | readers and the background thread |
| Tables (`table/*.cc`, `util/bloom.cc`, `db/dbformat.cc`) | blocks, index, filter | build; iterate, look up | read path, compaction |
| Iterators (`db/db_iter.cc`, `table/merger.cc`, `table/two_level_iterator.cc`) | positions and directions | `Seek`, `Next`, `Prev`, ... | tables and memtables |

### nanopb

`pb_decode.c`, `pb_encode.c`, `pb_common.c`, `pb.h`: no state between calls; a
stream and the struct a field descriptor describes. Decoding is driven by what
is on the wire, encoding runs twice over each submessage.

### What is hard here

* **Two queues.** The SDK works on a serial queue of its own. The application
  runs on the main queue, to which the SDK dispatches one block per event, and
  to which PostsManager adds its refreshes. Between any two dispatches of one
  update the main queue may run.
* **Three observers instead of one.** `listenTo` registers for additions,
  changes and removals in three separate tasks; the database may change between
  them. A snapshot that does not decode is printed and dropped.
* **Appending without looking.** An addition is appended whatever the list has.
* **Late closures and transitions.** `embed` leaves half of its work to closures
  that run a tenth of a second later; a push or a pop changes the stack at once
  and the screen later. Calls and taps come in between.
* **Work with the mutex released.** The leader of the write queue logs and
  inserts, and a compaction merges, while everybody else goes on; readers hold no
  lock at all.
* **Crashes and failed calls.** Logs and manifests may be cut off behind their
  last Sync, each call of the environment may fail, and what is on disk after a
  failed append or Sync is unknown. A repair may itself be cut off.
* **Boundaries.** Records at the end of a block, restart points, filter ranges,
  integers at the border of their width, arrays that are full.
* **Changes of direction** of iterators that stand on entries when they go
  forward and between them when they go back.

`PROJECT.json` lists the hazards, each at its line, with the properties that
would catch it.

### What correctness means

* Feed: every post listed once and as the database view has it, apart from the
  posts one of whose events could not be heard; rows that follow the list; an
  order that does not jump.
* Container: whatever the calls and closures do, what was embedded last is what
  is there, alone, and visible.
* Compose: each tap on Done is one `sendPost`; no tap throws away another
  draft; a screen that has sent does not stay.
* leveldb: a write that was acknowledged is read, by everybody, until the next
  one to its key; if it was acknowledged with sync, also after a crash; a
  snapshot does not change; damage is reported and stays where it is; files in
  use are not deleted; every call returns.
* nanopb: a message decodes to what was encoded, never beyond its struct, and
  the announced size is the written one.

## Modules

### PostsFeed

From the observers of `/posts` to the rows of the table.

| Variable | Code |
|---|---|
| `sharedQueue` | blocks the application dispatched to the SDK's queue (`SDK/FIRDatabaseReference.m:145`, `SDK/Api/FIRDatabaseQuery.m:424`) |
| `observers` | the registrations `listenTo` has obtained so far |
| `cache` | the SDK's view of `/posts`, a function from push keys to contents |
| `raising` | events of the running SDK task that `raiseEvents` has not dispatched yet |
| `mainQueue` | blocks waiting for the main queue: events, and the refreshes of `managerUpdated` |
| `posts`, `shown` | `PostsManager.posts`; the posts of the content controller's dependency |
| `launched` | the launch sequence has returned to the run loop, so that blocks run and buttons exist |
| `used` | own push keys already written |
| `unheard` | history: the keys of which an event was not passed on |

The actions on the main thread are `Launch`, `SendPost`, `DeletePosts`; those of
the SDK's queue `Observe`, `LocalSet`, `LocalRemove`, `RemoteChange`, `Revoke`
and, once per event, `Dispatch`; those of the main queue `RunAdded`,
`RunUpdated`, `RunRemoved` (a closure of `listenTo` with the case of
`startObserving` it calls, and `didSet`) and `RunRefresh`. `Relaunch` ends the
process and starts it anew.

Abstractions. A content is a model value, and all the model knows of it is
whether it decodes (`Malformed`). A post is identified with its push key: the id
in a post is a fresh UUID written once, by `sendPost`, under a fresh key, and no
code rewrites it. `RemoteChange` replaces the view by *any* other one, which
covers data from the server, acknowledged and rejected writes alike; keys this
client has yet to generate are the one exception, because nobody else writes to
them. The order of the events of a change is the SDK's (`FEventGenerator.m`):
removals, additions, changes, each by key. The application registers no observer
of moves.

`unheard` says exactly where the feed promises nothing. A key enters it when an
event about it meets no registered observer, when its snapshot does not decode,
and, for all keys, when the listen is revoked. These are losses the code
accepts; everything else is covered by the properties.

### Container

`embed`, for one container. `EmbedFirst`, `EmbedAnimated` and `EmbedAtOnce` are
the three ways through the method; `RemoveView`, `Appear` and `AppearStale` are
its closures. `children` and `subviews` are what UIKit is told, `faded` the
layers with opacity 0, `timers` the waiting closures. They run in any order:
nothing but their deadlines orders them, and the properties do not need it.
Animation curves and constraints are left out. `animatedLast` is a history
variable. In the application each container embeds once; the module is about the
method as it is offered to any caller.

### Compose

The navigation stack and the compose screens. UIKit is external: `Pop`, `Back`
and `TransitionEnds` are what the code relies on. `onScreen` is the controller
whose bar is displayed, which follows `viewControllers` only when a transition
ends, so that the buttons of the screen being left can be tapped again. Whether
a popped screen loses its parent at once or at the end of the transition is left
open. The hate check of the screen is commented out in the source and therefore
not in the model: any non-empty text is sent.

### LevelLog

The writer emits one physical record per step (`EmitPhysicalRecord`). Each of its
appends may fail: of the header and the payload, which `AddRecord` returns, and of
the trailer that fills a block, whose status is dropped (`db/log_writer.cc:53`).
What a failed append leaves in the file is a part of its bytes (`Torn` bounds how
many), and `block_offset_` moves on all the same. Then the file may be cut off at
any byte and bytes be damaged; then the reader runs, one physical record per step.
`rd` is the Reader with its buffer, `resyncing_` and scratch. A byte is a tuple
that says what it was written as, so that a checksum is the comparison of what
stands there with what was written; a damaged length makes the reader compare the
wrong bytes, as in the code. Where a record would end in an intact file is
`Reach`: to the end of its block, and from there on what `Extent` says of the
rest. Only `DamageIsLocal` and `AlarmsExact` speak of it.

### LsmTree

A version's files, level by level, with the memtables above them. `Write`,
`GetSnapshot`, `ReleaseSnapshot`, `SwitchMemTable` and `UpdateStats` are the
callers' operations; `CompactMemTable`, `StartCompaction` (with the trivial move),
`InstallCompactionResults` and, when it fails, `CleanupCompaction` the background
thread's. Each of these may end in `RecordBackgroundError`, after which the thread
does nothing any more. `CompactRange` and `TEST_CompactRange` are not modelled: a
compaction somebody asks for does not keep the levels disjoint (see Observations),
and nothing in the application asks for one. Picking, widening
(`SetupOtherInputs`), merging (`Kept`: which entries survive) and cutting the
outputs are operators, translated one to one. The loops are recursive functions
over the rounds they take: `FindFile` halves its range (`Bisect`), `Outputs` takes
the merged entries one by one (`AfterEntry`). Two loops are given by their results
instead: the restarts of `GetOverlappingInputs` on level 0 by the least set of
files that is closed under them, and the order in which `Version::Get` visits
files by a rank of pairs `<<level, file>>` (`NewestFirst`). Between the start and
the installation of a compaction everything else may happen, the flush of a
memtable included (`DoCompactionWork` does it itself). An entry is `<<key,
sequence, type>>`; sizes are counted in entries.

### WriteQueue

Each client makes one `DBImpl::Write`. `pc` says where it is: queued, waiting,
making room, gathering a group, logging and inserting with the mutex released, or
done. The leader builds the group as the loop of `BuildBatchGroup` does, one call
at a time with the mutex held (`JoinGroup`, `GroupBuilt`), appends, syncs,
inserts, sets the sequence number and wakes the others. `BackgroundCall` flushes
or compacts, and may fail. At most `MaxFaults` calls of the environment fail, any
of them. A log is what a replay is `sure` to find and what it may or may not find
(`unsure`): once an append has failed, and be it only that of a trailer, a part of
its bytes may be in the file, the writer's `block_offset_` need not be the file's
any more, and everything the leaders append to this log from then on is `unsure`.

### VersionEdit, FileName, Coding, Recovery, Repair

`Coding` has the varints, fixed integers and slices, `VersionEdit` the records of
a manifest, `FileName` the names; their round trips, and that they refuse what
they must, are assumptions TLC evaluates in the `recovery` run. `Recovery` has the
files on disk and the life of a database: `Open`, `NewDB`, `Recover`,
`RecoverLogFile` (one log per step), `NewLog`, the manifest's first edit and
CURRENT in their separate steps, then writes, flushes, compactions, iterators,
`DeleteObsoleteFiles`, `Close`, and `Crash` at any point, also of the recovery
itself. A crash loses any suffix of what was appended to a log or manifest after
its last Sync. `SetCurrentFile` may fail, which ends an open and, except in
`NewDB`, removes the manifest it was to name. What `Builder::Apply` and `SaveTo`
make of several edits is a closed form (`AddedFiles`, `DeletedFiles`): the base
with all files that were added, without those in `deleted_files`, which are the
deleted ones that neither the same nor a later edit adds. `Write` does not fail in
`Recovery`: what failed appends do to a log is LevelLog's and WriteQueue's
subject.

`Repair` extends it with `RepairDB`: each file it archives, converts, scans or
writes is a step, and a crash may come after each. So may a failure of any call,
with what the code makes of it: a log that cannot be converted is given up, an
`ArchiveFile` that fails leaves the file where it is, a copy that cannot be opened
leaves the table out, one that cannot be finished or renamed is deleted.
`rep.last` is the greatest `max_sequence` of `tables_`, which is that of the first
reading even where less was copied. Three things are simplified. The copy of a
table is taken to survive a crash as it is, although it is not synced; the model
promises nothing of a table that had to be copied. A table's second reading is
taken to find no more than its first: if an error that goes away made the first
one shorter, `max_sequence` would be too small (`db/repair.cc:302`, `:343`). And
the tables are scanned in the order of their numbers.

### SkipList, Arena, OrderedSet

`SkipList` takes each load and each store of a link as a step of its own.
`op`, `key`, `level` and `at` are the local variables of the search every thread
is in; `Add`, `FoundPlace`, `Raise`, `SetNext` and `Link` the stages of the one
insertion. A read of `max_height_` returns any value it has ever had, because it
has no barrier; a link that was never set is `Wild`. Entries and nodes are
allocated from an `Arena`, whose record has the blocks and what was handed out.
Nodes are aligned to `Align`, the greater of the pointer's size and 8
(`util/arena.cc:42`), so that a node's size need not be a multiple of it.
`OrderedSet` is the abstract specification: an ordered set, and iterators. A call
(`Seek` with its target, `SeekToFirst`, `SeekToLast`, `Next`, `Prev`) is recorded in
`call`, takes effect at one instant, and is answered by the one position the set
gives for it at that instant (`IsAnswer`): the first key not below the target, the
last key before the position, and so on. An insertion is a call as well, after
which the key is in the set at once. The mapping takes `linked[0]` for the set and
`op` and `key` of a thread for its call.

### InternalKey, SSTable, ReadPath, SnapshotCursor

`InternalKey` has keys as sequences of small bytes with their tags, the
comparators and the separators they compute. `SSTable` builds tables as
`TableBuilder` does (restart points, index, filter, meta index) and iterates over
blocks. `ReadPath` puts DBIter over the merging iterator over memtables, a level-0
table and a level of tables; each call of the iterator is a step, writes come in
between, and one block may be unreadable: reading it returns an error. Where the
reason is that its bytes changed, this supposes `ReadOptions::verify_checksums`,
without which `table/format.cc:90` does not compare the checksum, and which is off
by default; what a reader makes of changed bytes it takes for good is not
modelled. `SnapshotCursor` is the abstract specification: a cursor over a fixed
function from keys to values. `Get` takes the other way, through index and filter.

### LRUCache, TableCache

`LRUCache` has the hash table, a shard and the sharded cache as operators on
their state. `TableCache` runs readers that look up, open and insert tables,
look up, read and insert blocks, and delete their iterators, over PosixEnv's
files and limiters, with PosixEnv's thread evicting and removing obsolete files.

### Nanopb

Encoder and decoder over descriptors built with the macros of `pb.h`, byte by
byte, with integers of few bits (`W8`, `W16`, `W32`, `W64` and `WSize` for
`size_t`), all of which wrap around, so that the checks against it
(`pb_decode.c:1275`, `:1310`) are at work. The actions write a message, a frame or
bytes that are not the encoder's onto the wire, and then decode what is there,
frame by frame. What a message means is defined separately, as a merge of contents
field by field, and decoding is compared with it. Built as in this project:
`PB_FIELD_32BIT`, no malloc.

### MC and proof modules

`MCPostsFeed`, `MCContainer`, `MCCompose`, `MCNanopb` and `MCReadPath` give the
constants that a configuration cannot write; the other runs use their module
directly. The theorems are in `PostsFeedProofs`, `ContainerProofs`,
`ComposeProofs`, `LevelLogProofs`, `WriteQueueProofs`, `RecoveryProofs`,
`SkipListProofs` and `LsmTreeProofs`. Each begins with the facts about sequences,
naturals or orders that it needs (what `RemoveAt`, `Append`, `Front` and `SubSeq`
leave of a sequence, that a set of naturals has a least element, what a finite set
in order is).

## Runs

| Run | Instance | Properties |
|---|---|---|
| `feed` | 2 keys, one the client's own, 2 contents that decode and one that does not, 2 calls, 2 blocks, 2 posts | `OnePerPost`, `FeedExact`: every post once and as the view has it; `ShownCatchesUp`, `EventuallyShown`: the rows follow; `OrderStable` |
| `container` | 3 controllers (symmetric), 4 closures | `OneOpaque`, `Replaced`, `NotLeftFaded` |
| `compose` | 3 screens (symmetric), 1 name, 1 text, 4 posts | `SentScreenGone`, `EveryTapSends`, `OnlyDisplayedDismissed` |
| `log` | blocks of 14 bytes, 2 records of 0, 3 or 9 bytes, one damaged byte, one failed append that leaves 0, 3, 7 or 9 of its bytes, readers from offset 0 and 14 | `ReturnsOnlyRecords`: whole records in order, whatever happened to the file; `DamageIsLocal`: all of them, apart from those that were cut off or lie in a damaged block; `AlarmsExact`: losses are reported and nothing else; `ReaderEnds` |
| `lsm` | 3 keys, 4 writes (one a deletion), 1 snapshot, 4 levels, memtables flushed to level 2 at most, one seek compaction, an error of the background thread | `ReadsLatest`, `LevelsDisjoint`, `CompactionSettles` |
| `lsm_split` (violation) | 2 keys, 4 writes, 1 snapshot, outputs of one entry, memtables flushed to level 0 | `NewerAbove`, see Findings |
| `writes` | 4 calls: one sync, one NULL, one of two operations; two failures | `ReadersSeeBatches`, `SequencesUnique`, `NothingUnlogged`, `SyncErrorFinal`, `EveryCallReturns` |
| `recovery` | 2 writes, 2 restarts, 1 failure, 2 repairs | `VersionsSound`, `OneWritePerSequence`, `CanBeOpened`, `RepairedOpens`, `RepairKeepsSynced` |
| `nanopb` | 7 descriptors with every kind of field, values at the borders of their types, 3 items on the wire, all short byte strings over an alphabet of tags and lengths, buffers of 0, 5, 14 and 60 bytes | `MergesInOrder`, `FramesInStep`, `FitsStruct`, `SizesAgree` |
| `tables` | 2 readers, 2 files, caches of 2 entries in 2 shards, 1 mmap, 1 descriptor, 3 reads, 1 failure | `CachesSound`, `LimitsExact`, `RightBlock` |
| `readpath` | 5 histories of 5 writes on 3 keys, 5 layouts, 2 snapshots, one later write, one unreadable block or none | `ReadsAnswer`, `ImplementsCursor` |
| `skiplist` | 3 keys, 3 levels, 1 reader, entries of 3 or 7 bytes, nodes of 2 to 4, alignment 2, blocks of 16 bytes | `ListInv`, `ArenaSound`, `ImplementsOrderedSet` |

**Bounds.** `feed`: `MaxQueue`, `MaxPosts` and `MaxCalls` hold back the SDK and
the user, never a block that is already waiting. Two keys are what order and mixed
batches need: one update can remove one post and add another. Three controllers
allow A, B, A with C in between, and three screens two pushed by impatient taps
and one more later. `log`: 14 bytes are two headers, so that records end in every
place of a block, straddle one, and leave a trailer of every length. A failed
append leaves nothing, a part of the header, the whole header, or a part of the
payload. `lsm`: a trigger of two files, files of four entries and one entry per
level make every kind of compaction happen with four writes. Three keys are needed
for a gap between two inputs, into which a flush might go, and for
`SetupOtherInputs` to widen a compaction by a file that did not overlap the first.
Memtables may skip two levels, as in the code (`kMaxMemCompactLevel`). `lsm_split`
needs outputs of one entry only. `writes`: one call leads, one sync call has to be
refused by a leader that does not sync, and one call forces a new memtable. With
two failures a group can fail behind one that already left the log torn.
`recovery`: two restarts let a recovery be cut off and be repeated; two repairs
likewise. `tables`: two readers race for one file, and two files for one place.
`readpath`: blocks of four entries, which take eight places, and a restart point
every two entries give tables of two blocks; with ranges of four places for the
filters (`kFilterBase`) the second block begins at a range's boundary, and one
range has no block. Five writes spread over four places give every neighbourhood
of deletions, old and new entries. `skiplist`: a node must be able to go before,
between and behind two others, on every level; nodes of three bytes with alignment
2 and blocks of 16 make an allocation fail only for its padding. `nanopb`: with
three items an unknown field can stand between two messages that are merged.
`feed` leaves one thing out: an SDK that acts on an empty main queue of at most
two blocks never has the refreshes of two of its updates waiting together. The
proofs have no bounds.

**Deadlock** is checked in `feed`, `container`, `log` and `skiplist`. The other
models end: screens, writes, restarts, reads or calls are used up.

**Fairness.** `feed`: weak fairness of the launch, of the SDK's queue running what
it was given, of its dispatches, and of the main queue; both are dispatch
queues, which run their blocks. None is assumed of taps, remote changes,
revocation or restarts. `log`: the reader is called until it returns false, as
both of its callers do. `lsm`: the background thread works as long as it has
something to do, because each `BackgroundCall` schedules the next
(`db/db_impl.cc:661`). `writes`: each caller's thread and the background thread go
on when they can; waiting for a condition variable is not being able to.

**Mutants** in `PROJECT.json` change one definition each the way a slip in the
code would: a refresh that is forgotten, a guard that is dropped, a comparison
that is one off, a link published too early. Each is caught by the property it
is listed with.

## Findings

**Entries hop across levels** (`lsm_split`). `DoCompactionWork` closes an output
file when it is full, also between two entries of one user key that a snapshot
keeps apart. `SetupOtherInputs` may then take the file with the newer entry and
not its neighbour with the older, and the newer one ends up on a deeper level.
`Version::Get` relies on the opposite (`db/version_set.cc:346`: "entries never hop
across levels"). The application takes no snapshots, so it does not meet this.
`lsm` is checked with outputs large enough to hold all entries of a key; of a
longer history, or with smaller outputs, `ReadsLatest` is not claimed while a
snapshot is held.

### Observations

Behaviour for which the repository states no expectation to check against, or
which lie outside what the models tell apart:

* **A log goes on behind a failed append.** `EmitPhysicalRecord` advances
  `block_offset_` whether or not its appends succeeded (`db/log_writer.cc:107`),
  and the status of a trailer's append is dropped (`:53`). `DBImpl::Write` returns
  the error to the group it was writing but, unlike that of Sync, does not record
  it in `bg_error_` (`db/db_impl.cc:1218-1240`), so the next group is appended to
  the same log, at an offset the reader does not expect. The reader may then take
  its records for damaged and drop them with the rest of their block. A later
  write can be acknowledged, even with sync, and be lost in a crash. WriteQueue
  therefore promises of what is appended behind a failed append only that it was
  appended (`Kept`), and LevelLog that the reader returns nothing that was not
  written (`ReturnsOnlyRecords`).
* **Manual compactions.** `TEST_CompactRange` (`db/db_impl.cc:584`) may pick
  inputs with a gap between them, and a memtable that `CompactMemTable` flushes
  while they are merged may land in that gap, on the level the output goes to. The
  output then spans it, against the assertion of `MaybeAddFile`
  (`db/version_set.cc:765`). By hand: memtables with key 1 and with key 3 are
  flushed, each to level 2; then again 1 and again 3, each to level 1, because
  level 2 has them. `TEST_CompactRange` of level 1 takes all four files. While it
  merges them a memtable with key 2 is flushed; it overlaps no file, so
  `PickLevelForMemTableOutput` puts it on level 2. The output has 1 and 3 in one
  file. The application asks for no manual compactions, and LsmTree has none: its
  run and its theorems are about the compactions leveldb picks itself.
* After the first fragment of a record, if it lies before the initial offset,
  `ReadPhysicalRecord` returns `kBadRecord` (`db/log_reader.cc:275`), and that ends
  `resyncing_`. If the offset lies in the same block, the rest of the record in the
  next one is then reported as corrupt, although "a run of kMiddleType and kLastType
  records can be silently skipped in this mode" (`db/log_reader.h:77`). TLC shows it
  with `InitialOffsets = {15}`; `ExactAlarms` supposes offsets at which a block
  begins. leveldb opens every log at offset 0.
* Done tapped twice during the pop sends the post twice
  (`PostsNavigationController.swift:24`).
* A controller that faded out and is embedded again *without* animation stays at
  opacity 0 (`ContainerControllerProtocol.swift:53`).
* `parentController` is declared `weak` but stored with `OBJC_ASSOCIATION_ASSIGN`
  (`UIResponderExtension.swift:17-22`); its only value lives as long as the
  application.
* `observe` is called without a cancel block (`FirebaseManager.swift:52`): after a
  revoked listen the list stays as it is. PostsFeed takes the step and treats
  every post as unheard from then on.
* `setValue` only dispatches a task (`FirebaseManager.swift:47`): a process that
  ends before it has run loses the post. `Relaunch` drops such tasks.
* `attachToSafeArea` pins the leading edge for `left` and the right edge for
  `right` (`UIViewExtension.swift:156`, `:179`).
* A NULL batch behind another call in the queue joins its group and is
  acknowledged without a switch of memtables (`db/db_impl.cc:1293`).
* `NewDB` closes the first manifest without Sync (`db/db_impl.cc:196`): a crash of
  the system may leave CURRENT naming an empty one. `CanBeOpened` speaks of
  databases that were opened once.
* `RepairDB` reads logs without checking sums, though the comment above says
  otherwise (`db/repair.cc:193`); it does not sync the copy of a damaged table
  (`:356`); and a repair that was cut off has to be repeated before the database
  is opened, which would delete the tables made of its logs (`:158`). The model
  takes this step, and `RepairKeepsSynced` excludes it by its hypothesis
  `~rep.early`.
* With 32 required fields `pb_decode.c:946` shifts by the width of the type. No
  descriptor of the model has so many.
* `pb_check_proto3_default_value` looks at the value of an optional field and not
  at its `has_` (`pb_encode.c:231`).
* A second `LockFile` of the same name in one process gives the lock of the first
  away (`util/env_posix.cc:471`).

## Proofs

All theorems hold for arbitrary constants under the assumptions named in the
modules: `ConstantsAssumption` (keys are finitely many numbers, the own keys are
among them, no content is `Null`, the bounds are naturals),
`ControllersAssumption` (nil is no controller), `ComposeAssumption` (screens, the
other controllers and nil are different; a text is not empty), `QueueAssumption`
(NULL batches ask for no sync; the triggers of level 0 are in their order),
`LogAssumption` (a block is longer than a header; lengths, offsets and bounds are
naturals), `ArenaAssumption` (block size, pointer size and alignment are positive,
none a multiple of another) and `ListAssumption` (the number of keys is a natural,
there is a level, the writer is no reader, no entry is empty, as `Arena::Allocate`
asserts) and `LsmAssumption` (keys are positive numbers, there are two levels at
least, a memtable is flushed to one of them, triggers and sizes are positive).
What a theorem assumes beyond these it says itself; only `ExactAlarms` and some
about LsmTree do.

**PostsFeed.** `TypeCorrect` and `TableCatchesUp` need nothing beyond the types.
`OnePerPost` and `FeedExact` are not inductive: whether a block may append
depends on what all blocks before it will do. The strengthening is
`FeedTracked`. For each post that was never unheard it asks for a history `h`
along the blocks on their way, first those of the main queue and then those
still being raised: `h[1]` is what PostsManager lists now, each block about the
post can be applied to `h[i]` and leads to `h[i + 1]` (`Moves`: an addition only
where there is nothing, a change or a removal only where there is something),
and the last entry is what the SDK's view holds. `Startup` adds that nothing is
on its way before the observer of additions is registered. The proof extends the
history at its end when the view changes (`UpdateTracks`, from `BatchSpells`: a
batch has at most one event per key), leaves it alone when an event moves from
`raising` to `mainQueue` (`DispatchTracks`), and shortens it at its beginning
when a block runs (`MainTracks`). `NoPostTwice`, `FeedAgrees` and
`OrderIsStable` follow from `FeedIsTracked`.

**Container.** `Replaced` is inductive with the types: the embedded controller
is in or a closure that brings it in waits, and every other view has a closure
that takes it out. `ContainerSettles` is what it says when nothing waits.
`OnlyOneOpaque` and `NeverLeftFaded` are proved in the same way, the latter with
the fact that an unused container has faded nothing.

**SkipList.** `ListInv` is inductive, and is the invariant the run checks. Its
parts: `Chained`, a link leads from a node of a level to the least greater one of
that level; `Nested`, a node of a level is on all below; `OnLevel`, a search
stands on a node of its level, before its target; `Inserting`, what the insertion
under way has found and linked so far; `Positioned`, an iterator stands on a node
of level 0. One lemma per step shows that it is kept (`LinkKeeps` is the longest:
the node becomes reachable on one more level). `ListIsSound` states it for the
specification. `ReadersAreAtomic` is the refinement: with `keys <- linked[0]`,
`pos <- node`, and the search a reader is in, with its target, for `call`, every
step is a step of `OrderedSet` or changes nothing of it. A search begins as a
call, its loads on the way are stutters, and its return has to be *the* answer to
that call at that moment: a wrong key is refused even if it is in the set. Its
core is `ReturnIsAtomic`: when a search returns on level 0, the node it stands on
and the link it has just read enclose the target among the nodes that are linked
*at that moment*.

**Arena.** `ArenaSound`, no two allocations share a byte, is implied by the
inductive `ArenaInv`: every allocation lies in a block of the arena and ends
before `alloc_ptr_` if that is the current one (`Within`), `alloc_ptr_` and
`alloc_bytes_remaining_` are the end of the current block (`Current`), and no two
allocations overlap (`Apart`). An aligned allocation is right because the padding
makes the place a multiple of the alignment (`Padding`) and is counted against the
block, and because a new block begins at such a place.

**Compose.** `Inv` adds to `SentScreenGone` and `EveryTapSends` what they rest on.
`StackSound`: the stack begins with the list, has no screen twice, and its screens
have been made and are in the window. `DisplayedSound`: the displayed screen is on
top of the stack or has left it, so that a tap on it can dismiss only itself.
`SendersMade`: what was sent came from a screen that exists, so that "+" cannot
push it anew. `MessageArrives` shows that the responder chain of a displayed
screen ends at the navigation controller, with or without a parent.
`DraftsAreKept` is the action property that follows.

**WriteQueue.** `Inv` has three parts. `Core` is the protocol: no call is twice in
the queue, whoever leads is at its front, whoever has a result has left it
(`QueueSound`), and the group of the leader is the first calls of the queue, each
of whose batches stands in the group in one piece (`GroupSound`). `Rest` relates
numbers and data: a number above `last_sequence` belongs to the group, a memtable
holds what has been inserted of the group and no more (`Numbers`, `Views`), and
what is about to be inserted is logged, and synced if the leader asked for it
(`Logs`), with the sequence numbers of a log in the order of its records, so that
what lies before its first failed append stays `sure`. `Stopped` says that after a
failed Sync nobody builds a group or ends one well. `SequenceNumbersUnique`,
`BatchesSeenWhole`, `LoggedBeforeApplied` and the action property
`NoWriteAfterSyncError` follow. One lemma per action and part shows that the part
is kept. `LoggedBeforeApplied` says no more than the code does: that a record was
appended, and synced if that was asked for, before it is applied or acknowledged,
to a log that is still there; and that a replay is sure to find it unless an
append to that log failed before (`Kept`). What becomes of the others is in the
first observation above.

**LevelLog.** The reader puts fragments together without looking at what record
they belong to, so `ReturnsOnlyRecords` needs to know how headers can follow each
other. `Inv` says that there is a file `w`, the one on disk before any byte was
damaged, with the writer's `Layout`: headers tell the truth about their records
(`HeadersSound`), no two are closer than a header is long (`HeadersLong`), records
follow each other (`InOrder`), and a fragment that continues a record is the next
one after the fragment it continues (`Continues`). A failed append, of which any
part may have been written, leaves a file with that layout, because a torn header
is none, and so does cutting off the end. For the reader, scratch is what the file
has of one record up to the end of the fragment read last, and from there to the
reader's place it is less than a header (`Gathers`): what a new block skips is too
short to hold the fragment that is missing. `IntactRecord` shows that a physical
record that passes the checks is one that was written at that place, `NextHead`
that the next one continues what was gathered. Damage is unrestricted: any number
of bytes anywhere.

That the reader returns *all* it can is shown for files to which every append has
succeeded (`Exact`; as soon as one failed, `DamageIsLocal` and `AlarmsExact` claim
nothing). Such a file is `Dense`. `Tiled`: every block begins with a header, no
fragment leaves its block, and where the writer goes on behind one (`Onward`)
there is a header. `Linked`: a first or middle fragment fills its block and is
followed by the next of its record. `Truthful`: the bytes of a fragment are what
its header says. `Placed`: a record begins at `start` and ends at `Reach`.
`EmitAppends` shows that one pass of the loop keeps this, by the cases in which a
fragment ends the record or its block (`FragmentReaches`); that `Extent` has its
recursive equation for every length (`ExtentUnfolds`) comes from the
well-foundedness of the naturals. Cutting off the end keeps it too (`DensePart`).
For the reader, `Reads` says that it stands before a header or before less than
one (`Position`), that an unfinished record goes on right there (`Unfinishing`),
and that it is not before the initial offset once it has read a block (`Sought`).
What comes of a physical record is one of four (`PhysicalOutcomes`): it is taken;
it lies before the initial offset; the file ends in it; or a byte of this block is
damaged, and what was skipped is reported if it is a byte of a payload. Then each
record that is wholly in the file, with no damaged byte in any of its blocks,
either was returned or is still to come (`Delivers`). Of a record that is to come
the reader skips nothing: not with a new block, because a record begins nowhere
where a header does not fit (`RefillReceives`, `FirstBlock` with an initial
offset), and not with a damaged one, because that is none of its blocks
(`LostKept`). `LocalDamage` follows for every initial offset. `ExactAlarms` needs
offsets at which blocks begin, see Observations.

**Recovery.** The theorems need no assumption on the constants. `VersionsSound`
and `CanBeOpened` hold because of what is on disk *and* in memory *and* under way,
and `Inv` says how these agree. `DiskSound`: the manifest that CURRENT names is
`Sound`, that is, however many of its edits since the last Sync a crash takes
away, the rest is `Readable`: every number is set, its tables are there and
complete, and the numbers in use are below the next one. `Resting`: what is empty
while nothing is open. `OpeningSound` follows `DB::Open`: the new manifest is
another file than CURRENT's, and once written adds up to the version with the
edit, so that it does not matter on which side of the rename a crash falls.
`RunningSound` is about the open database: the current version is the last, and
reader, compaction and flush hold versions that exist (`VersionsHeld`); the tables
being written are in `pending_outputs_` and in no version and no manifest
(`OutputsHeld`); and unless a write has failed, the manifest adds up to the
current version (`ManifestFollows`). The last is why what `DeleteObsoleteFiles`
removes is not needed any more, on disk either: it looks at the versions in memory
only. After a failed write, when the two may disagree, it removes nothing. The
lemmas on manifests say what appending an edit (`FilesAppend`) and cutting a file
(`FilesCut`) change; one lemma per action shows that it keeps `Inv`.
`DatabaseConsistent` is that invariant, `ReferencedFilesStay` and `OpensAgain`
follow.

`OneWritePerSequence` is about data, and numbers are given twice: those of writes
that a crash took away. What has to be shown is that no trace of these is left,
and so `NumbersInv` speaks of *some* set `K` of writes with numbers of their own
(`Unique`). For every prefix of CURRENT's manifest that a crash may leave there is
such a `K` (`Numbered`): it has the tables the prefix names, none of them with a
number above the prefix's LastSequence, and the records of all logs not older than
its log number (`Covers`); the `K` of two prefixes need not be the same. While the
database is being opened, one `K` has what was read and what is still to be
replayed (`OpeningFrom`), and the new manifest is `Numbered` before it takes
CURRENT's place. While it is open, one `K` has the memtables, every log, every
version and every prefix of the manifest, with LastSequence not behind it
(`RunningOn`), so that the next number is new. `NumbersConsistent` needs
`DatabaseConsistent`, that a new table has a number nobody uses, and that what a
compaction writes is in no manifest (`OutputsApart`). `OneNumberPerWrite` follows.

`SyncedWritesStay` is what WriteOptions::sync promises, for every sequence of
crashes, failed calls, flushes and compactions: `SyncedKept`, which is
`RepairKeepsSynced` without repairs. `SyncedInv` says where such a write is. For
every prefix of CURRENT's manifest that a crash may leave it is in a table this
prefix names or in the synced part of a log not older than the prefix's log number
(`Durable`, `Safe`), and so opening finds it. While the database is being opened
it is in a table that is known or in a log still to be replayed (`OpeningHas`),
and the new manifest is `Safe` before it takes CURRENT's place. While it is open
it is found twice: in memory (`InMemory`), which is what a reader sees, and on
disk or on its way there (`OnDisk`). The two meet in the edit that is under way
(`EditHas`): it adds all that the tables it deletes have; if it gives up logs, it
adds the memtable they held; and its log number is between the version's and the
current log's, so that neither appending it nor `DeleteObsoleteFiles` after it
loses a log that a shorter prefix of the manifest needs. A write that is made
meanwhile is in the current log, which no prefix gives up (`LogsInOrder`). A
compaction's output is in no version and no manifest until it is complete
(`OutputsNew`, `OutputsApart`). After a failed `LogAndApply` the memtable stays,
and the manifest, which may or may not have the edit, is `Safe` either way.

**LsmTree.** What can be read is shown in four steps, each on top of the one before.

`Typed` says that files have numbers of their own and hold entries that were
written, and that a compaction's inputs stay where they are until it is installed.
`Disjointness` and `TypeCorrect` need an invariant about compactions under way,
because while they read, memtables are flushed, perhaps to the very level they
write to: `CompApart`, every file of that level that is not an input lies on one
side of *all* inputs. A flush keeps it because it avoids all files of its level
and of the level above, and because the inputs are `Connected`: between them there
is no gap in which a range of keys could lie unnoticed. `PickChosen` shows that
what the background thread picks is connected. What a caller of `CompactRange`
asks for need not be (see Observations), which is why the module has no such
action. An error of the thread drops the compaction and its outputs, and so keeps
all of this.

`OrderInv` is about sequence numbers: memtables are newer than files (`MemNewer`),
upper files newer than lower ones (`NewerAbove`), the files a compaction does not
read newer than its inputs or about other keys (`CompReads`), and the smallest
snapshot it goes by is not above any that is held (`SnapshotsOK`). `ReadInv` adds
`Content`: of every key, the last write that a reader may see is still there, or
it is a deletion that went together with everything it hid. `Kept` is where
entries go, and `ContentInstall` shows that it drops only hidden entries and
deletions with nothing below, whatever has been flushed meanwhile. That `Get`
finds the entry needs the binary search: `FindFile` is shown to return the first
file that does not end before the target, for lists of any length, along the
rounds (`Rounds`: a loop of any number of rounds runs; in place of induction it
takes the least round at which it would fail). `OutputsAreCut` says in the same
way that `Outputs` are consecutive pieces of what is kept.

`NewerAbove` is kept as long as no user key is spread over two files of a level
(`RangesApart`). So `ReadsWhileApart` says: if that always holds, every read at
every snapshot is right, with any number of snapshots. `lsm_split` shows that it
does not hold by itself when a snapshot keeps two entries of a key, and what
follows from that. `StayApart` says when it does: without snapshots (`MaxSnapshots
= 0`) a compaction keeps one entry of each key (`AllBelow`), and outputs are cut
between keys. This is how the application's database is used: the SDK's
persistence calls neither `GetSnapshot` nor `CompactRange`. `ReadsAlwaysLatest`
puts the two together.

**Only model-checked:**

* liveness (`EventuallyShown`, `ReaderEnds`, `CompactionSettles`,
  `EveryCallReturns`), which is out of the prover's reach;
* Repair, whose steps come in addition to those that Recovery's theorems cover
  (`RepairKeepsSynced` is proved of the steps between repairs only);
* `ReadsLatest` with snapshots. It is proved while `RangesApart` holds and does not
  hold for all instances without that (`lsm_split`); the run `lsm` shows it for the
  instance it checks;
* Nanopb and ReadPath, whose algorithms are recursive (encodings, iterators) and
  about which the prover cannot reason as they stand;
* LRUCache and TableCache, whose shards are pruned by folds over their lists.

## Not modelled

* NLPManager: not called, and computed by a system framework.
* Layout, cells, animation curves: no state that a property depends on.
* `updateChildControllers` and the weak references it prunes: never called.
* AppDelegate: empty callbacks.
* The SDK's pending writes, connection and persistence: planned, see below. The
  feed is checked against any view they may compute.
* leveldb: `CompactRange` and `TEST_CompactRange` in LsmTree, `GetProperty`,
  `GetApproximateSizes`, `DestroyDB`, the C interface, `LockFile`, info logs, the
  in-memory environment, CRC and hash arithmetic (a checksum detects damage, a
  hash is some function of the key). `reuse_logs` and `paranoid_checks` are off,
  as in the application.
* nanopb: allocation of fields (`PB_ENABLE_MALLOC` is not defined), and what a
  failed call leaves in the struct.
* GoogleUtilities, FirebaseCore, FirebaseAnalytics: glue, or shipped in binary
  form.

## Plan

1. `WriteTree` and `SyncTree`: the SDK's pending writes and the view of `/posts`
   computed from them, shown to implement PostsFeed's view.
2. `Connection`: outstanding puts, listens, disconnects, resends and the disk
   against an external server.
3. `HateBlocker`: Compose and PostsFeed together, a tap on Done to a row.
4. Proofs: `LimitsExact` of TableCache; `RepairedOpens` and `RepairKeepsSynced`,
   with Recovery's `Inv` and `SyncedInv` between repairs.
