----------------------------- MODULE TableCache -----------------------------
(***************************************************************************)
(* Readers of table files: the table cache (db/table_cache.cc) and the     *)
(* block cache (Table::BlockReader, table/table.cc), both LRUCaches, over  *)
(* the files of PosixEnv (util/env_posix.cc), whose Limiters bound mmaps   *)
(* and descriptors, and PosixEnv's background thread, which evicts and     *)
(* removes obsolete files.                                                 *)
(*                                                                         *)
(* A reader holds a Version, so the file it reads is not removed           *)
(* meanwhile (see LsmTree and Recovery).  Each call on a cache or on the   *)
(* environment is a step; calls of the system may fail, at most MaxFaults  *)
(* times.  A block's contents are the file and the offset it came from.    *)
(***************************************************************************)
EXTENDS LRUCache

CONSTANTS Readers, Files, Offsets, Entries, BlockCapacity, MaxMmaps,
          MaxOpenFiles, MaxReads, MaxFaults

VARIABLES
    r,              \* the readers' local state
    tables, blocks, \* the two caches: shard -> LRUCache
    last_id,        \* ShardedLRUCache::last_id_ of the block cache
    disk,           \* files in the directory
    live,           \* files of the current version
    mmaps, fds,     \* allowed_ of mmap_limit_ and fd_limit_
    queue, bg,      \* queue_ of PosixEnv, and what BGThread is doing
    reads, faults
vars == <<r, tables, blocks, last_id, disk, live, mmaps, fds, queue, bg, reads, faults>>
env == <<disk, live, queue, bg>>

None == <<>>
Idle == [pc |-> "idle", f |-> NULL, off |-> NULL, file |-> None, th |-> NULL,
         block |-> None, bh |-> NULL]

Init ==
    /\ r = [x \in Readers |-> Idle]
    /\ tables = NewLRUCache(Entries) /\ blocks = NewLRUCache(BlockCapacity)
    /\ last_id = 0 /\ disk = Files /\ live = Files
    /\ mmaps = MaxMmaps /\ fds = MaxOpenFiles
    /\ queue = <<>> /\ bg = [pc |-> "none", f |-> NULL] /\ reads = 0 /\ faults = 0

Fails == faults < MaxFaults /\ faults' = faults + 1
\* A call fails when it must, or as a fault.
CallFails(possible) == IF possible THEN Fails ELSE UNCHANGED faults
Go(x, pc) == r' = [r EXCEPT ![x].pc = pc]

-----------------------------------------------------------------------------
(* Limiter, and the files of PosixEnv.  A file is an mmap, a descriptor,   *)
(* or opened at every read; deleting it gives back what it holds.          *)

Acquire(allowed) == allowed > 0
\* How many files of a kind a set of them gives back.
Released(kind, files) == Cardinality({f \in files : f.kind = kind})

\* PosixMmapReadableFile and PosixRandomAccessFile; `id' is for the table.
MmapReadableFile(f) == [kind |-> "mmap", f |-> f, id |-> 0]
RandomAccessFile(f) == [kind |-> IF Acquire(fds) THEN "fd" ELSE "temporary", f |-> f, id |-> 0]
\* Their destructors, for a set of files.
DeleteMmaps(files) == mmaps' = mmaps + Released("mmap", files)
DeleteFds(files) == fds' = fds + Released("fd", files)
\* DeleteEntry, of the values the table cache drops.
DeleteEntry(files) == DeleteMmaps(files) /\ DeleteFds(files)

\* NewRandomAccessFile: open, then mmap if there is room, else pread.
NewRandomAccessFile(x) ==
    /\ r[x].pc = "open"
    /\ \/ /\ CallFails(r[x].f \in disk)                     \* open()
          /\ Go(x, "failed") /\ UNCHANGED <<mmaps, fds>>
       \/ /\ r[x].f \in disk /\ Acquire(mmaps) /\ UNCHANGED faults
          /\ mmaps' = mmaps - 1 /\ UNCHANGED fds
          /\ Go(x, "map")
       \/ /\ r[x].f \in disk /\ ~Acquire(mmaps) /\ UNCHANGED faults
          /\ fds' = IF Acquire(fds) THEN fds - 1 ELSE fds
          /\ r' = [r EXCEPT ![x].pc = "read_footer",
                     ![x].file = RandomAccessFile(r[x].f)]
          /\ UNCHANGED mmaps
    /\ UNCHANGED <<tables, blocks, last_id, env, reads>>

\* (mutant) The failed mapping keeps its place.
MapFailedKept == UNCHANGED mmaps
\* The place taken for a mapping is given back when it fails.
MapFailed == mmaps' = mmaps + 1

\* GetFileSize and mmap.
Map(x) ==
    /\ r[x].pc = "map"
    /\ \/ /\ r' = [r EXCEPT ![x].pc = "read_footer",
                     ![x].file = MmapReadableFile(r[x].f)]
          /\ UNCHANGED <<mmaps, faults>>
       \/ Fails /\ MapFailed /\ Go(x, "failed")
    /\ UNCHANGED <<tables, blocks, last_id, fds, env, reads>>

\* A temporary descriptor needs the name of the file at every read.
CanRead(file) == file.kind = "temporary" => file.f \in disk

-----------------------------------------------------------------------------
(* TableCache.                                                             *)

TShard(f) == ShardOf(<<f>>)

\* A call that needs a table of the version: Get or an iterator.
Start(x, f, off) ==
    /\ r[x].pc = "idle" /\ f \in live /\ reads < MaxReads
    /\ reads' = reads + 1
    /\ r' = [r EXCEPT ![x] = [Idle EXCEPT !.pc = "find", !.f = f, !.off = off]]
    /\ UNCHANGED <<tables, blocks, last_id, mmaps, fds, env, faults>>

FindTable(x) ==
    /\ r[x].pc = "find"
    /\ LET l == CacheLookup(tables, <<r[x].f>>)
       IN /\ tables' = l.c
          /\ r' = [r EXCEPT ![x].pc = IF l.h = NULL THEN "open" ELSE "block",
                            ![x].th = l.h]
    /\ UNCHANGED <<blocks, last_id, mmaps, fds, env, reads, faults>>

\* Table::Open reads the footer and the index; a new id for the block cache.
TableOpen(x) ==
    /\ r[x].pc = "read_footer"
    /\ \/ /\ CanRead(r[x].file)
          /\ last_id' = NewId(last_id)
          /\ r' = [r EXCEPT ![x].pc = "insert", ![x].file.id = NewId(last_id)]
          /\ UNCHANGED <<mmaps, fds, faults>>
       \/ /\ CallFails(CanRead(r[x].file))
          /\ DeleteEntry({r[x].file})
          /\ r' = [r EXCEPT ![x].pc = "failed", ![x].file = None]
          /\ UNCHANGED last_id
    /\ UNCHANGED <<tables, blocks, env, reads>>

\* The table goes into the cache, where another reader may have put the same
\* one; what the cache drops is deleted with its file (DeleteEntry).
InsertTable(x) ==
    /\ r[x].pc = "insert"
    /\ LET i == CacheInsert(tables, <<r[x].f>>, r[x].file, 1)
       IN /\ tables' = i.c
          /\ DeleteEntry(i.c[TShard(r[x].f)].freed)
          /\ r' = [r EXCEPT ![x].pc = "block", ![x].th = i.h, ![x].file = None]
    /\ UNCHANGED <<blocks, last_id, env, reads, faults>>

-----------------------------------------------------------------------------
(* Table::BlockReader.                                                     *)

TableOf(x) == Value(tables, TShard(r[x].f), r[x].th)
\* (mutant) Blocks of different tables share their keys.
BlockKeyByOffset(x) == <<r[x].off>>
BlockKey(x) == <<TableOf(x).id, r[x].off>>
BShard(x) == ShardOf(BlockKey(x))

LookupBlock(x) ==
    /\ r[x].pc = "block"
    /\ LET l == CacheLookup(blocks, BlockKey(x))
       IN /\ blocks' = l.c
          /\ r' = IF l.h = NULL THEN [r EXCEPT ![x].pc = "read"]
                  ELSE [r EXCEPT ![x].pc = "use", ![x].bh = l.h,
                                 ![x].block = Value(l.c, BShard(x), l.h)]
    /\ UNCHANGED <<tables, last_id, mmaps, fds, env, reads, faults>>

\* ReadBlock; only a block in memory of its own is put into the cache.
Cachable(file) == file.kind # "mmap"
ReadBlock(x) ==
    /\ r[x].pc = "read"
    /\ \/ /\ CanRead(TableOf(x))
          /\ r' = [r EXCEPT ![x].pc = IF Cachable(TableOf(x)) THEN "insert_block" ELSE "use",
                            ![x].block = <<r[x].f, r[x].off>>]
          /\ UNCHANGED faults
       \/ /\ CallFails(CanRead(TableOf(x)))
          /\ Go(x, "unref")
    /\ UNCHANGED <<tables, blocks, last_id, mmaps, fds, env, reads>>

InsertBlock(x) ==
    /\ r[x].pc = "insert_block"
    /\ LET i == CacheInsert(blocks, BlockKey(x), r[x].block, 1)
       IN /\ blocks' = i.c
          /\ r' = [r EXCEPT ![x].pc = "use", ![x].bh = i.h]
    /\ UNCHANGED <<tables, last_id, mmaps, fds, env, reads, faults>>

ReleaseBlock(x) == blocks' = CacheRelease(blocks, BShard(x), r[x].bh)
DeleteBlock(x) == UNCHANGED blocks
\* What BlockReader registers with the iterator over the block.
Cleanup(x) == IF r[x].bh = NULL THEN DeleteBlock(x) ELSE ReleaseBlock(x)

\* ~Iterator runs the cleanup.
DeleteIterator(x) ==
    /\ r[x].pc = "use"
    /\ Cleanup(x)
    /\ r' = [r EXCEPT ![x].pc = "unref", ![x].bh = NULL, ![x].block = None]
    /\ UNCHANGED <<tables, last_id, mmaps, fds, env, reads, faults>>

\* Get's Release, or UnrefEntry when the iterator is deleted.
UnrefEntry(x) ==
    /\ r[x].pc = "unref"
    /\ tables' = CacheRelease(tables, TShard(r[x].f), r[x].th)
    /\ DeleteEntry(tables'[TShard(r[x].f)].freed)
    /\ r' = [r EXCEPT ![x] = Idle]
    /\ UNCHANGED <<blocks, last_id, env, reads, faults>>

\* The old name of a table file (SSTTableFileName) is tried, which no file of
\* this version has; the status is returned, errors are not cached.
Failed(x) ==
    /\ r[x].pc = "failed" /\ r' = [r EXCEPT ![x] = Idle]
    /\ UNCHANGED <<tables, blocks, last_id, mmaps, fds, env, reads, faults>>

-----------------------------------------------------------------------------
(* PosixEnv's background thread.  The work scheduled stands for a          *)
(* compaction that ends with DeleteObsoleteFiles for a file it replaced.   *)

\* Schedule signals when the thread may be waiting, before the item is added.
SignalIfEmpty == queue = <<>>

Schedule(f) ==
    /\ f \in live /\ live' = live \ {f}
    /\ queue' = Append(queue, f)
    /\ bg' = IF bg.pc = "none" \/ (bg.pc = "wait" /\ SignalIfEmpty)
             THEN [bg EXCEPT !.pc = "awake"] ELSE bg
    /\ UNCHANGED <<r, tables, blocks, last_id, disk, mmaps, fds, reads, faults>>

BGThread ==
    /\ bg.pc = "awake"
    /\ \/ /\ queue = <<>> /\ bg' = [bg EXCEPT !.pc = "wait"] /\ UNCHANGED queue
       \/ /\ queue # <<>> /\ bg' = [pc |-> "evict", f |-> Head(queue)]
          /\ queue' = Tail(queue)
    /\ UNCHANGED <<r, tables, blocks, last_id, disk, live, mmaps, fds, reads, faults>>

Pinned == {r[x].f : x \in Readers}

\* DeleteObsoleteFiles, once no version has the file: Evict ...
Evict ==
    /\ bg.pc = "evict" /\ bg.f \notin Pinned
    /\ tables' = CacheErase(tables, <<bg.f>>)
    /\ DeleteEntry(tables'[TShard(bg.f)].freed)
    /\ bg' = [bg EXCEPT !.pc = "remove"]
    /\ UNCHANGED <<r, blocks, last_id, disk, live, queue, reads, faults>>

\* ... and DeleteFile.
DeleteFile ==
    /\ bg.pc = "remove"
    /\ disk' = disk \ {bg.f}
    /\ bg' = [pc |-> "awake", f |-> NULL]
    /\ UNCHANGED <<r, tables, blocks, last_id, live, queue, mmaps, fds, reads, faults>>

\* Cache::Prune of the block cache.
PruneBlocks ==
    /\ \E s \in Shards : blocks[s].lru # <<>>
    /\ blocks' = CachePrune(blocks)
    /\ UNCHANGED <<r, tables, last_id, mmaps, fds, env, reads, faults>>

\* ~TableCache, when no call is left.
Close ==
    /\ reads = MaxReads /\ \A x \in Readers : r[x].pc = "idle"
    /\ queue = <<>> /\ bg.pc \in {"none", "wait"} /\ \E s \in Shards : tables[s].e # <<>>
    /\ tables' = [s \in Shards |-> Destroy(tables[s])]
    /\ DeleteEntry(UNION {tables'[s].freed : s \in Shards})
    /\ UNCHANGED <<r, blocks, last_id, env, reads, faults>>

Step(x) ==
    \/ NewRandomAccessFile(x) \/ Map(x) \/ FindTable(x) \/ TableOpen(x)
    \/ InsertTable(x) \/ LookupBlock(x) \/ ReadBlock(x) \/ InsertBlock(x)
    \/ DeleteIterator(x) \/ UnrefEntry(x) \/ Failed(x)
Next ==
    \/ \E x \in Readers, f \in Files, off \in Offsets : Start(x, f, off)
    \/ \E x \in Readers : Step(x)
    \/ \E f \in Files : Schedule(f)
    \/ BGThread \/ Evict \/ DeleteFile \/ PruneBlocks \/ Close

Spec == Init /\ [][Next]_vars

-----------------------------------------------------------------------------
TableHolders(s, h) == Cardinality({x \in Readers : r[x].th = h /\ TShard(r[x].f) = s})
BlockHolders(s, h) == Cardinality({x \in Readers : r[x].bh = h /\ h # NULL /\ BShard(x) = s})

\* The entry a reader holds is not freed under it, and between calls every
\* entry has exactly the references of the cache and of
\* the readers that hold it, is on the list that belongs to their number, is
\* found under its key, and `usage' is what the cached entries charge
\* (LRUCache's Ref, Unref, Insert and FinishErase, with two readers that
\* insert the same table).
CachesSound ==
    /\ \A x \in Readers : r[x].th # NULL => r[x].th \in DOMAIN tables[TShard(r[x].f)].e
    /\ \A x \in Readers : r[x].bh # NULL => r[x].bh \in DOMAIN blocks[BShard(x)].e
    /\ \A s \in Shards : /\ ShardSound(tables[s], LAMBDA h : TableHolders(s, h))
                         /\ ShardSound(blocks[s], LAMBDA h : BlockHolders(s, h))

\* The files the table cache and the opening readers have open.
OpenFiles == UNION {{<<s, h, tables[s].e[h].value>> : h \in DOMAIN tables[s].e} : s \in Shards}
             \cup {<<x, 0, r[x].file>> : x \in {y \in Readers : r[y].file # None}}
Held(kind) == Cardinality({o \in OpenFiles : o[3].kind = kind})
\* What the files of the table cache and of the opening readers hold, and
\* what the Limiters still allow, add up to the limits: nothing is lost when a
\* call fails, an entry is replaced or evicted, or the cache is destroyed
\* (Limiter and PosixEnv::NewRandomAccessFile, env_posix.cc).
LimitsExact ==
    /\ mmaps + Held("mmap") + Cardinality({x \in Readers : r[x].pc = "map"}) = MaxMmaps
    /\ fds + Held("fd") = MaxOpenFiles
    /\ mmaps >= 0 /\ fds >= 0

\* A reader is given the block it asked for, of the file it asked for, whatever
\* the block cache still has of tables opened before (cache_id of Table).
RightBlock == \A x \in Readers : r[x].block # None => r[x].block = <<r[x].f, r[x].off>>
=============================================================================
