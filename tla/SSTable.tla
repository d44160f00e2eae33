------------------------------ MODULE SSTable ------------------------------
(***************************************************************************)
(* Table files: blocks with shared prefixes and restart points             *)
(* (table/block_builder.cc, block.cc), the table with its index, filter    *)
(* and meta index (table_builder.cc, filter_block.cc, util/bloom.cc,       *)
(* format.cc) as TableBuilder leaves it, and the iterator over a block.    *)
(*                                                                         *)
(* Lengths are counted in entries: an entry of a block, a restart point,   *)
(* the number of restart points and the trailer of a block take one place  *)
(* each.  A file is a function from offsets to the blocks written there.   *)
(* Appends succeed here: a table whose file failed is deleted by its       *)
(* builder and never read (see Recovery).                                  *)
(***************************************************************************)
EXTENDS InternalKey, SequencesExt

CONSTANTS block_size, block_restart_interval,
          kFilterBase,      \* one filter for so many places of the file
          bits_per_key,     \* of the Bloom filter; 0: no filter policy
          MinBits           \* 64: the least size of a filter

Ok == "ok"
Corruption == "corruption"

-----------------------------------------------------------------------------
(* BlockBuilder.                                                           *)

NewBlock == [buffer |-> <<>>, restarts |-> <<0>>, counter |-> 0, last_key |-> <<>>]
CurrentSizeEstimate(b) == Len(b.buffer) + Len(b.restarts) + 1

\* What a key shares with its predecessor; nothing at a restart point.
Shared(b, key, interval) ==
    IF b.counter < interval THEN CommonPrefix(b.last_key, key) ELSE 0

BlockAdd(b, key, value, interval) ==
    LET shared == Shared(b, key, interval)
        more == b.counter < interval
    IN [buffer |-> Append(b.buffer, [shared |-> shared,
                                     delta |-> SubSeq(key, shared + 1, Len(key)),
                                     value |-> value]),
        restarts |-> IF more THEN b.restarts ELSE Append(b.restarts, Len(b.buffer)),
        counter |-> IF more THEN b.counter + 1 ELSE 1,
        last_key |-> key]

BlockFinish(b) == [entries |-> b.buffer, restarts |-> b.restarts]

-----------------------------------------------------------------------------
(* BloomFilterPolicy; words have 8 bits here and 32 there.                 *)

Word == 256
\* Stands for Hash of util/hash.cc.
BloomHash(key) == (37 * FoldLeft(LAMBDA h, x : 5 * h + x + 1, 0, key)) % Word
\* Rotate right by 4 (17 there).
Rotated(h) == (h \div 16) + ((h * 16) % Word)
Probes(key, bits, k) ==
    {((BloomHash(key) + j * Rotated(BloomHash(key))) % Word) % bits : j \in 0..k - 1}

\* The number of probes: bits_per_key times ln 2.
k_ == Min({30, Max({1, (69 * bits_per_key) \div 100})})

UserCreateFilter(keys) ==
    LET n == Len(keys) * bits_per_key
        bits == (((IF n < MinBits THEN MinBits ELSE n) + 7) \div 8) * 8
    IN [bits |-> bits, k |-> k_,
        array |-> UNION {Probes(keys[i], bits, k_) : i \in DOMAIN keys}]

UserMayMatch(key, f) == f.k > 30 \/ Probes(key, f.bits, f.k) \subseteq f.array

\* InternalFilterPolicy: the Bloom filter gets the user keys.
CreateFilter(keys) == UserCreateFilter([i \in DOMAIN keys |-> ExtractUserKey(keys[i])])
PolicyMayMatch(key, f) == UserMayMatch(ExtractUserKey(key), f)

-----------------------------------------------------------------------------
(* FilterBlockBuilder: the filters of consecutive ranges of the file.      *)

NewFilterBlock == [keys |-> <<>>, offsets |-> <<>>, result |-> <<>>]

GenerateFilter(fb) ==
    [keys |-> <<>>, offsets |-> Append(fb.offsets, Len(fb.result)),
     result |-> IF fb.keys = <<>> THEN fb.result
                ELSE Append(fb.result, CreateFilter(fb.keys))]

RECURSIVE StartBlock(_, _)
StartBlock(fb, block_offset) ==
    IF block_offset \div kFilterBase > Len(fb.offsets)
    THEN StartBlock(GenerateFilter(fb), block_offset) ELSE fb

AddKey(fb, key) == [fb EXCEPT !.keys = Append(@, key)]

\* The offsets end with the place of the array of offsets itself.
FilterFinish(fb) ==
    LET g == IF fb.keys = <<>> THEN fb ELSE GenerateFilter(fb)
    IN [result |-> g.result, offsets |-> Append(g.offsets, Len(g.result)),
        num |-> Len(g.offsets)]

\* (mutant) A range begins behind its boundary.
FilterIndexBefore(block_offset) ==
    IF block_offset = 0 THEN 0 ELSE (block_offset - 1) \div kFilterBase
FilterIndex(block_offset) == block_offset \div kFilterBase
\* FilterBlockReader: an empty filter matches nothing, an error everything.
KeyMayMatch(filter, block_offset, key) ==
    LET i == FilterIndex(block_offset)
    IN i < filter.num =>
          /\ filter.offsets[i + 1] < filter.offsets[i + 2]
          /\ PolicyMayMatch(key, filter.result[filter.offsets[i + 1] + 1])

-----------------------------------------------------------------------------
(* TableBuilder.                                                           *)

HasPolicy == bits_per_key > 0
FilterName == <<1>>         \* "filter." and the policy's name
NoHandle == [offset |-> -1, size |-> -1]
kBlockTrailerSize == 1

NewTable ==
    [offset |-> 0, file |-> <<>>, data_block |-> NewBlock, index_block |-> NewBlock,
     last_key |-> <<>>, filter_block |-> StartBlock(NewFilterBlock, 0),
     pending_index_entry |-> FALSE, pending_handle |-> NoHandle]

WriteRawBlock(t, contents, size) ==
    [t EXCEPT !.file = [o \in DOMAIN t.file \cup {t.offset} |->
                           IF o = t.offset THEN contents ELSE t.file[o]],
              !.offset = @ + size + kBlockTrailerSize,
              !.pending_handle = [offset |-> t.offset, size |-> size]]
\* No compression: Snappy is not part of this build.
WriteBlock(t, b) == WriteRawBlock(t, BlockFinish(b), CurrentSizeEstimate(b))

Flush(t) ==
    IF t.data_block.buffer = <<>> THEN t
    ELSE LET w == WriteBlock(t, t.data_block)
         IN [w EXCEPT !.data_block = NewBlock, !.pending_index_entry = TRUE,
                      !.filter_block = IF HasPolicy THEN StartBlock(@, w.offset) ELSE @]

\* The index entry of the block before, under a key of at least its last one.
AddIndexEntry(t, key) ==
    [t EXCEPT !.index_block = BlockAdd(@, key, t.pending_handle, 1),
              !.pending_index_entry = FALSE]

Add(t, key, value) ==
    LET i == IF t.pending_index_entry
             THEN AddIndexEntry(t, FindShortestSeparator(t.last_key, key)) ELSE t
        a == [i EXCEPT !.filter_block = IF HasPolicy THEN AddKey(@, key) ELSE @,
                       !.last_key = key,
                       !.data_block = BlockAdd(@, key, value, block_restart_interval)]
    IN IF CurrentSizeEstimate(a.data_block) >= block_size THEN Flush(a) ELSE a

Finish(t) ==
    LET f == Flush(t)
        filter == IF HasPolicy THEN WriteRawBlock(f, FilterFinish(f.filter_block), 1) ELSE f
        meta == IF HasPolicy THEN BlockAdd(NewBlock, FilterName, filter.pending_handle,
                                           block_restart_interval) ELSE NewBlock
        metaindex == WriteBlock(filter, meta)
        i == IF f.pending_index_entry
             THEN AddIndexEntry(f, FindShortSuccessor(f.last_key)) ELSE f
        index == WriteBlock([metaindex EXCEPT !.index_block = i.index_block], i.index_block)
    IN [file |-> index.file, size |-> index.offset,
        footer |-> [metaindex |-> metaindex.pending_handle, index |-> index.pending_handle]]

\* A table of the given entries, in the order of their keys.
BuildTable(entries) ==
    Finish(FoldLeft(LAMBDA t, e : Add(t, e.key, e.value), NewTable, entries))

-----------------------------------------------------------------------------
(* Block::Iter over block `c': the entry it is at (current_), the one      *)
(* behind it (NextEntryOffset), the restart point and the key so far.      *)

NewBlockIter(c) ==
    [cur |-> Len(c.entries), next |-> Len(c.entries), restart_index |-> Len(c.restarts),
     key |-> <<>>, status |-> Ok]
\* The entry at an offset of the block.
DecodeEntry(c, offset) == c.entries[offset + 1]
BlockValid(c, it) == it.cur < Len(c.entries)
GetRestartPoint(c, i) == c.restarts[i + 1]
SeekToRestartPoint(c, it, i) ==
    [it EXCEPT !.key = <<>>, !.restart_index = i, !.next = GetRestartPoint(c, i)]

BlockEnd(c, it) == [it EXCEPT !.cur = Len(c.entries), !.restart_index = Len(c.restarts)]
CorruptionError(c, it) == [BlockEnd(c, it) EXCEPT !.status = Corruption, !.key = <<>>]

\* The last restart point before `cur', from the one the iterator has.
RestartOf(c, i, cur) ==
    Max({i} \cup {j \in i + 1..Len(c.restarts) - 1 : GetRestartPoint(c, j) < cur})

ParseNextKey(c, it) ==
    LET e == DecodeEntry(c, it.next)
    IN IF it.next >= Len(c.entries) THEN BlockEnd(c, it)
       ELSE IF Len(it.key) < e.shared THEN CorruptionError(c, it)
       ELSE [it EXCEPT !.cur = it.next, !.next = it.next + 1,
                       !.key = SubSeq(it.key, 1, e.shared) \o e.delta,
                       !.restart_index = RestartOf(c, @, it.next)]

BlockNext(c, it) == ParseNextKey(c, it)

\* Entries are parsed up to the one that ends at `limit' ...
RECURSIVE ParseUpTo(_, _, _)
ParseUpTo(c, it, limit) ==
    LET p == ParseNextKey(c, it)
    IN IF BlockValid(c, p) /\ p.next < limit THEN ParseUpTo(c, p, limit) ELSE p

\* ... or to the first with a key of at least `target'.
RECURSIVE ParseFrom(_, _, _)
ParseFrom(c, it, target) ==
    LET p == ParseNextKey(c, it)
    IN IF BlockValid(c, p) /\ Compare(p.key, target) < 0 THEN ParseFrom(c, p, target) ELSE p

Before(c, i, original) == GetRestartPoint(c, i) < original
BlockPrev(c, it) ==
    LET before == {i \in 0..it.restart_index : Before(c, i, it.cur)}
    IN IF before = {} THEN BlockEnd(c, it)
       ELSE ParseUpTo(c, SeekToRestartPoint(c, it, Max(before)), it.cur)

\* Binary search for the last restart point with a key below the target.
RECURSIVE SearchRestarts(_, _, _, _)
SearchRestarts(c, target, left, right) ==
    LET mid == (left + right + 1) \div 2
        e == DecodeEntry(c, GetRestartPoint(c, mid))
    IN IF left >= right THEN left
       ELSE IF e.shared # 0 THEN -1
       ELSE IF Compare(e.delta, target) < 0 THEN SearchRestarts(c, target, mid, right)
       ELSE SearchRestarts(c, target, left, mid - 1)

BlockSeek(c, it, target) ==
    LET left == SearchRestarts(c, target, 0, Len(c.restarts) - 1)
    IN IF left = -1 THEN CorruptionError(c, it)
       ELSE ParseFrom(c, SeekToRestartPoint(c, it, left), target)
BlockSeekToFirst(c, it) == ParseNextKey(c, SeekToRestartPoint(c, it, 0))
BlockSeekToLast(c, it) ==
    ParseUpTo(c, SeekToRestartPoint(c, it, Len(c.restarts) - 1), Len(c.entries))
=============================================================================
