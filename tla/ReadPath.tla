------------------------------ MODULE ReadPath ------------------------------
(***************************************************************************)
(* Reads of a snapshot: DBIter (db/db_iter.cc) over the merging iterator   *)
(* (table/merger.cc) over the memtables, the level-0 tables and the        *)
(* concatenation of the tables of a level (two_level_iterator.cc,          *)
(* LevelFileNumIterator of db/version_set.cc), over blocks (SSTable); and  *)
(* Get through the index and the filter of a table.                        *)
(*                                                                         *)
(* A database is built from a history of writes and three cuts: the first  *)
(* writes are in tables of a level, the next in a level-0 table, then in   *)
(* the immutable memtable, and the rest in the memtable.  One block of a   *)
(* file may be unreadable: reading it gives an error.  Bytes that changed  *)
(* do so only with ReadOptions::verify_checksums, which the model assumes  *)
(* for them; without it ReadBlock hands out what it has read.  A write may *)
(* come while the iterator is in use; it takes effect in one step (see     *)
(* SkipList).  Each call of the iterator is a step.                        *)
(***************************************************************************)
EXTENDS SSTable, FiniteSets

CONSTANTS Histories,    \* a sequence of histories, sequences of [key, type]
          Layouts,      \* a sequence of cuts: <<level, level-0, immutable>>
          Targets,      \* user keys
          Snapshots,    \* sequence numbers an iterator is opened with
          Later, MaxInserts     \* the writes that may come meanwhile

VARIABLES db,           \* the database: its history, files and memtables
          bad,          \* the unreadable block, as <<file, offset>>, if any
          sequence,     \* sequence_ of the iterator
          added,        \* writes after the history
          it,           \* DBIter
          call          \* its last call
vars == <<db, bad, sequence, added, it, call>>

None == <<>>

-----------------------------------------------------------------------------
(* The database.                                                           *)

Entry(w, seq) == [key |-> AppendInternalKey(w.key, seq, w.type),
                  value |-> IF w.type = kTypeValue THEN seq ELSE 0]
EntriesOf(h, first, last) == {Entry(h[i], i) : i \in first..last}
SortedBy(S, Less(_, _)) ==
    [n \in 1..Cardinality(S) |-> CHOOSE x \in S : Cardinality({y \in S : Less(y, x)}) = n - 1]
Sorted(S) == SortedBy(S, LAMBDA a, b : Compare(a.key, b.key) < 0)
UserKeysOf(S) == {ExtractUserKey(e.key) : e \in S}
FileMetaData(S) ==
    [table |-> BuildTable(Sorted(S)), smallest |-> Head(Sorted(S)).key,
     largest |-> Last(Sorted(S)).key]

\* A level has a table for every two user keys.
LevelParts(S) ==
    LET keys == SortedBy(UserKeysOf(S), LAMBDA a, b : UserCompare(a, b) < 0)
    IN [n \in 1..(Len(keys) + 1) \div 2 |->
           {e \in S : \E i \in DOMAIN keys : keys[i] = ExtractUserKey(e.key)
                                              /\ (i + 1) \div 2 = n}]

Build(h, cuts) ==
    LET level == EntriesOf(h, 1, cuts[1])
        level0 == EntriesOf(h, cuts[1] + 1, cuts[2])
        parts == LevelParts(level)
    IN [history |-> h, level |-> [n \in DOMAIN parts |-> FileMetaData(parts[n])],
        level0 |-> IF level0 = {} THEN <<>> ELSE <<FileMetaData(level0)>>,
        imm |-> EntriesOf(h, cuts[2] + 1, cuts[3]),
        mem |-> EntriesOf(h, cuts[3] + 1, Len(h))]

\* Files are numbered: those of the level, then the one of level 0.
history == db.history
level == db.level
level0 == db.level0
File(f) == IF f <= Len(level) THEN level[f] ELSE level0[f - Len(level)]
Files == 1..Len(level) + Len(level0)
mem == db.mem \cup {Entry(added[i], Len(history) + i) : i \in DOMAIN added}
imm == db.imm

-----------------------------------------------------------------------------
(* Iterators.  [k |-> kind, ...]; every call is Do(iterator, call).        *)

EmptyIterator(status) == [k |-> "empty", status |-> status]
NoIter == [k |-> "null"]

\* ReadBlock: the contents, unless they cannot be read: Read fails or returns too
\* little, the type is unknown or, if it is looked at, the checksum is wrong.
CanRead(f, handle) == <<f, handle.offset>> \notin bad
ReadBlock(f, handle) == File(f).table.file[handle.offset]

BlockReader(f, handle) ==
    IF CanRead(f, handle)
    THEN [k |-> "block", f |-> f, handle |-> handle,
          it |-> NewBlockIter(ReadBlock(f, handle))]
    ELSE EmptyIterator(Corruption)

TwoLevelIterator(fn, f, index) ==
    [k |-> "two", fn |-> fn, f |-> f, index |-> index, data |-> NoIter,
     handle |-> None, status |-> Ok]

\* TableCache::NewIterator; Table::Open needs the index block.
NewTableIterator(f) ==
    IF CanRead(f, File(f).table.footer.index)
    THEN TwoLevelIterator("block", f, BlockReader(f, File(f).table.footer.index))
    ELSE EmptyIterator(Corruption)

\* LevelFileNumIterator.
LevelFileNumIterator == [k |-> "files", index |-> Len(level)]
FindFile(target) == Cardinality({f \in 1..Len(level) : Compare(level[f].largest, target) < 0})
FilesDo(i, c) ==
    CASE c[1] = "Seek" -> [i EXCEPT !.index = FindFile(c[2])]
      [] c[1] = "SeekToFirst" -> [i EXCEPT !.index = 0]
      [] c[1] = "SeekToLast" -> [i EXCEPT !.index = IF level = <<>> THEN 0 ELSE Len(level) - 1]
      [] c[1] = "Next" -> [i EXCEPT !.index = @ + 1]
      [] c[1] = "Prev" -> [i EXCEPT !.index = IF @ = 0 THEN Len(level) ELSE @ - 1]

\* MemTableIterator: `at' is the entry of the node.
MemTableIterator(src) == [k |-> "mem", src |-> src, at |-> None]
Table(src) == IF src = "mem" THEN mem ELSE imm
FirstOf(S) == IF S = {} THEN None ELSE CHOOSE e \in S : \A x \in S : Compare(e.key, x.key) <= 0
LastOf(S) == IF S = {} THEN None ELSE CHOOSE e \in S : \A x \in S : Compare(e.key, x.key) >= 0
MemDo(i, c) ==
    LET S == Table(i.src)
    IN [i EXCEPT !.at =
        CASE c[1] = "Seek" -> FirstOf({e \in S : Compare(e.key, c[2]) >= 0})
          [] c[1] = "SeekToFirst" -> FirstOf(S)
          [] c[1] = "SeekToLast" -> LastOf(S)
          [] c[1] = "Next" -> FirstOf({e \in S : Compare(e.key, i.at.key) > 0})
          [] c[1] = "Prev" -> LastOf({e \in S : Compare(e.key, i.at.key) < 0})]

BlockDo(i, c) ==
    LET b == ReadBlock(i.f, i.handle)
    IN [i EXCEPT !.it =
        CASE c[1] = "Seek" -> BlockSeek(b, i.it, c[2])
          [] c[1] = "SeekToFirst" -> BlockSeekToFirst(b, i.it)
          [] c[1] = "SeekToLast" -> BlockSeekToLast(b, i.it)
          [] c[1] = "Next" -> BlockNext(b, i.it)
          [] c[1] = "Prev" -> BlockPrev(b, i.it)]

RECURSIVE Valid(_)
Valid(i) ==
    CASE i.k = "block" -> BlockValid(ReadBlock(i.f, i.handle), i.it)
      [] i.k = "files" -> i.index < Len(level)
      [] i.k = "mem" -> i.at # None
      [] i.k = "two" -> Valid(i.data)
      [] i.k = "merge" -> i.current # 0
      [] OTHER -> FALSE
\* A merging iterator shows what its current child shows.
CurrentChild(i) == i.children[i.current]
RECURSIVE Key(_)
Key(i) ==
    CASE i.k = "block" -> i.it.key
      [] i.k = "mem" -> i.at.key
      [] i.k = "two" -> Key(i.data)
      [] i.k = "merge" -> Key(CurrentChild(i))
RECURSIVE Value(_)
Value(i) ==
    CASE i.k = "block" -> ReadBlock(i.f, i.handle).entries[i.it.cur + 1].value
      [] i.k = "files" -> i.index + 1
      [] i.k = "mem" -> i.at.value
      [] i.k = "two" -> Value(i.data)
      [] i.k = "merge" -> Value(CurrentChild(i))
RECURSIVE Status(_), MergeStatus(_)
\* The first child that is not ok.
MergeStatus(children) ==
    IF children = <<>> THEN Ok
    ELSE IF Status(Head(children)) # Ok THEN Status(Head(children))
    ELSE MergeStatus(Tail(children))
Status(i) ==
    CASE i.k = "block" -> i.it.status
      [] i.k = "two" -> IF Status(i.index) # Ok THEN Status(i.index)
                        ELSE IF Status(i.data) # Ok THEN Status(i.data) ELSE i.status
      [] i.k = "merge" -> MergeStatus(i.children)
      [] i.k = "empty" -> i.status
      [] OTHER -> Ok

RECURSIVE Do(_, _)

-----------------------------------------------------------------------------
(* TwoLevelIterator.                                                       *)

\* SetDataIterator: an error of the block that is left is kept (SaveError).
SetDataIterator(t, data) ==
    [t EXCEPT !.data = data, !.status = IF @ = Ok THEN Status(t.data) ELSE @]

BlockFunction(t, handle) ==
    IF t.fn = "block" THEN BlockReader(t.f, handle) ELSE NewTableIterator(handle)

InitDataBlock(t) ==
    IF ~Valid(t.index) THEN SetDataIterator(t, NoIter)
    ELSE IF t.data # NoIter /\ t.handle = <<Value(t.index)>> THEN t
    ELSE SetDataIterator([t EXCEPT !.handle = <<Value(t.index)>>],
                         BlockFunction(t, Value(t.index)))

\* The data iterator, where there is one, is moved.
MoveData(t, c) == IF t.data = NoIter THEN t ELSE [t EXCEPT !.data = Do(@, c)]
MoveIndex(t, c) == InitDataBlock([t EXCEPT !.index = Do(@, c)])

RECURSIVE SkipEmptyDataBlocks(_, _, _)
SkipEmptyDataBlocks(t, step, from) ==
    IF Valid(t.data) THEN t
    ELSE IF ~Valid(t.index) THEN SetDataIterator(t, NoIter)
    ELSE SkipEmptyDataBlocks(MoveData(MoveIndex(t, step), from), step, from)
SkipEmptyDataBlocksForward(t) == SkipEmptyDataBlocks(t, <<"Next">>, <<"SeekToFirst">>)
SkipEmptyDataBlocksBackward(t) == SkipEmptyDataBlocks(t, <<"Prev">>, <<"SeekToLast">>)

TwoLevelDo(t, c) ==
    CASE c[1] \in {"Seek", "SeekToFirst"} ->
            SkipEmptyDataBlocksForward(MoveData(MoveIndex(t, c), c))
      [] c[1] = "SeekToLast" -> SkipEmptyDataBlocksBackward(MoveData(MoveIndex(t, c), c))
      [] c[1] = "Next" -> SkipEmptyDataBlocksForward(MoveData(t, c))
      [] c[1] = "Prev" -> SkipEmptyDataBlocksBackward(MoveData(t, c))

-----------------------------------------------------------------------------
(* MergingIterator.                                                        *)

MergingIterator(children) ==
    [k |-> "merge", children |-> children, current |-> 0, direction |-> "forward"]
Positioned(i) == {n \in DOMAIN i.children : Valid(i.children[n])}
FindSmallest(i) ==
    [i EXCEPT !.current = IF Positioned(i) = {} THEN 0
                          ELSE CHOOSE n \in Positioned(i) : \A m \in Positioned(i) :
                                  Compare(Key(i.children[n]), Key(i.children[m])) <= 0]
FindLargest(i) ==
    [i EXCEPT !.current = IF Positioned(i) = {} THEN 0
                          ELSE CHOOSE n \in Positioned(i) : \A m \in Positioned(i) :
                                  Compare(Key(i.children[n]), Key(i.children[m])) >= 0]

All(i, c) == [i EXCEPT !.children = [n \in DOMAIN i.children |-> Do(i.children[n], c)]]
Current(i, c) == [i EXCEPT !.children[i.current] = Do(@, c)]

\* The other children are put behind the key, or before it, when the
\* direction changes.
After(child, key) ==
    LET s == Do(child, <<"Seek", key>>)
    IN IF Valid(s) /\ Compare(key, Key(s)) = 0 THEN Do(s, <<"Next">>) ELSE s
\* (mutant) A child that has no later entry is left where it is.
BehindLeft(child, key) ==
    LET s == Do(child, <<"Seek", key>>) IN IF Valid(s) THEN Do(s, <<"Prev">>) ELSE s
Behind(child, key) ==
    LET s == Do(child, <<"Seek", key>>)
    IN IF Valid(s) THEN Do(s, <<"Prev">>) ELSE Do(s, <<"SeekToLast">>)
Turned(i, direction) ==
    IF i.direction = direction THEN i
    ELSE [i EXCEPT !.direction = direction,
                   !.children = [n \in DOMAIN i.children |->
                       IF n = i.current THEN i.children[n]
                       ELSE IF direction = "forward" THEN After(i.children[n], Key(i))
                       ELSE Behind(i.children[n], Key(i))]]

MergeDo(i, c) ==
    CASE c[1] \in {"Seek", "SeekToFirst"} ->
            FindSmallest([All(i, c) EXCEPT !.direction = "forward"])
      [] c[1] = "SeekToLast" -> FindLargest([All(i, c) EXCEPT !.direction = "reverse"])
      [] c[1] = "Next" -> FindSmallest(Current(Turned(i, "forward"), c))
      [] c[1] = "Prev" -> FindLargest(Current(Turned(i, "reverse"), c))

Do(i, c) ==
    CASE i.k = "block" -> BlockDo(i, c)
      [] i.k = "files" -> FilesDo(i, c)
      [] i.k = "mem" -> MemDo(i, c)
      [] i.k = "two" -> TwoLevelDo(i, c)
      [] i.k = "merge" -> MergeDo(i, c)
      [] OTHER -> i

\* NewInternalIterator with AddIterators and NewConcatenatingIterator.
InternalIterators ==
    <<MemTableIterator("mem")>>
        \o (IF imm = {} THEN <<>> ELSE <<MemTableIterator("imm")>>)
        \o [n \in DOMAIN level0 |-> NewTableIterator(Len(level) + n)]
        \o (IF level = <<>> THEN <<>>
            ELSE <<TwoLevelIterator("file", 0, LevelFileNumIterator)>>)
NewInternalIterator ==
    IF Len(InternalIterators) = 1 THEN InternalIterators[1]
    ELSE MergingIterator(InternalIterators)

-----------------------------------------------------------------------------
(* DBIter.                                                                 *)

NewDBIterator ==
    [iter |-> NewInternalIterator, direction |-> "forward", valid |-> FALSE,
     saved_key |-> <<>>, saved_value |-> 0, status |-> Ok]
DBKey(d) == IF d.direction = "forward" THEN ExtractUserKey(Key(d.iter)) ELSE d.saved_key
DBValue(d) == IF d.direction = "forward" THEN Value(d.iter) ELSE d.saved_value
DBStatus(d) == IF d.status = Ok THEN Status(d.iter) ELSE d.status

Move(d, c) == [d EXCEPT !.iter = Do(@, c)]
Invalid(d) == [d EXCEPT !.valid = FALSE, !.saved_key = <<>>]
ParseKey(d) ==
    IF ParseInternalKey(Key(d.iter)) THEN d ELSE [d EXCEPT !.status = Corruption]
Seen(d) == ParseInternalKey(Key(d.iter)) /\ Sequence(Key(d.iter)) <= sequence

\* Forward to the first entry that the snapshot shows; `skip' is the user key
\* whose entries are hidden.
RECURSIVE FindNextUserEntry(_, _, _)
FindNextUserEntry(d, skipping, skip) ==
    LET key == Key(d.iter)
        deletes == Seen(d) /\ ValueType(key) = kTypeDeletion
        hidden == skipping /\ UserCompare(ExtractUserKey(key), skip) <= 0
        next == Move(ParseKey(d), <<"Next">>)
    IN IF Seen(d) /\ ~deletes /\ ~hidden THEN [d EXCEPT !.valid = TRUE, !.saved_key = <<>>]
       ELSE IF ~Valid(next.iter) THEN Invalid(next)
       ELSE FindNextUserEntry(next, skipping \/ deletes,
                              IF deletes THEN ExtractUserKey(key) ELSE skip)

\* Backward through the entries of a user key to the last one that the
\* snapshot shows; a deletion forgets what was saved.
RECURSIVE ScanBackward(_, _)
ScanBackward(d, value_type) ==
    LET key == Key(d.iter)
        user_key == ExtractUserKey(key)
        saved == IF ~Seen(d) THEN ParseKey(d)
                 ELSE IF ValueType(key) = kTypeDeletion
                 THEN [d EXCEPT !.saved_key = <<>>, !.saved_value = 0]
                 ELSE [d EXCEPT !.saved_key = user_key, !.saved_value = Value(d.iter)]
    IN IF ~Valid(d.iter) THEN [d |-> d, type |-> value_type]
       ELSE IF Seen(d) /\ value_type # kTypeDeletion /\ UserCompare(user_key, d.saved_key) < 0
       THEN [d |-> d, type |-> value_type]
       ELSE ScanBackward(Move(saved, <<"Prev">>),
                         IF Seen(d) THEN ValueType(key) ELSE value_type)
FindPrevUserEntry(d) ==
    LET s == ScanBackward(d, kTypeDeletion)
    IN IF s.type = kTypeDeletion
       THEN [Invalid(s.d) EXCEPT !.saved_value = 0, !.direction = "forward"]
       ELSE [s.d EXCEPT !.valid = TRUE]

DBSeek(d, move) ==
    LET m == Move([d EXCEPT !.direction = "forward", !.saved_value = 0], move)
    IN IF Valid(m.iter) THEN FindNextUserEntry(m, FALSE, <<>>)
       ELSE [m EXCEPT !.valid = FALSE]
DBSeekToLast(d) ==
    FindPrevUserEntry(Move([d EXCEPT !.direction = "reverse", !.saved_value = 0],
                           <<"SeekToLast">>))

DBNext(d) ==
    LET t == Move([d EXCEPT !.direction = "forward"],
                  IF Valid(d.iter) THEN <<"Next">> ELSE <<"SeekToFirst">>)
    IN IF d.direction = "forward"
       THEN FindNextUserEntry(d, TRUE, ExtractUserKey(Key(d.iter)))
       ELSE IF Valid(t.iter) THEN FindNextUserEntry(t, TRUE, d.saved_key)
       ELSE Invalid(t)

\* Backward until the user key changes.
RECURSIVE BeforeKey(_, _)
BeforeKey(d, user_key) ==
    LET p == Move(d, <<"Prev">>)
    IN IF Valid(p.iter) /\ UserCompare(ExtractUserKey(Key(p.iter)), user_key) >= 0
       THEN BeforeKey(p, user_key) ELSE p
DBPrev(d) ==
    LET user_key == ExtractUserKey(Key(d.iter))
        b == BeforeKey(d, user_key)
    IN IF d.direction = "reverse" THEN FindPrevUserEntry(d)
       ELSE IF ~Valid(b.iter) THEN [Invalid(b) EXCEPT !.saved_value = 0]
       ELSE FindPrevUserEntry([b EXCEPT !.direction = "reverse", !.saved_key = user_key])

-----------------------------------------------------------------------------
(* Get: the memtables, then the tables.                                    *)

NotFound == [found |-> FALSE, value |-> 0, status |-> Ok]
\* SaveValue and MemTable::Get: an entry of another user key is no answer.
Saved(user_key, key, value) ==
    IF ExtractUserKey(key) # user_key THEN NotFound
    ELSE [found |-> TRUE, status |-> Ok,
          value |-> IF ValueType(key) = kTypeValue THEN value ELSE 0]

MemGet(src, user_key) ==
    LET i == Do(MemTableIterator(src), <<"Seek", LookupKey(user_key, sequence)>>)
    IN IF Valid(i) THEN Saved(user_key, Key(i), Value(i)) ELSE NotFound

\* ReadMeta and ReadFilter: without a readable filter there is none.
FilterOf(f) ==
    LET t == File(f).table
        meta == t.file[t.footer.metaindex.offset]
    IN IF ~HasPolicy \/ ~CanRead(f, t.footer.metaindex) THEN None
       ELSE IF meta.entries = <<>> THEN None
       ELSE IF meta.entries[1].delta # FilterName THEN None
       ELSE IF ~CanRead(f, meta.entries[1].value) THEN None
       ELSE <<t.file[meta.entries[1].value.offset]>>

FoundInBlock(user_key, block) ==
    IF Valid(block) THEN Saved(user_key, Key(block), Value(block))
    ELSE [NotFound EXCEPT !.status = Status(block)]
FoundInIndex(f, user_key, target, index) ==
    IF Status(index) # Ok THEN [NotFound EXCEPT !.status = Status(index)]
    ELSE IF ~Valid(index) THEN NotFound
    ELSE IF FilterOf(f) # None /\ ~KeyMayMatch(FilterOf(f)[1], Value(index).offset, target)
    THEN NotFound
    ELSE FoundInBlock(user_key, Do(BlockReader(f, Value(index)), <<"Seek", target>>))
InternalGet(f, user_key, target) ==
    FoundInIndex(f, user_key, target,
                 Do(BlockReader(f, File(f).table.footer.index), <<"Seek", target>>))

\* Version::Get: the level-0 table if it has the key in its range, then the
\* one table of the level that may have it.
TablesFor(user_key) ==
    LET f == FindFile(LookupKey(user_key, sequence)) + 1
        reaches(g) == UserCompare(user_key, ExtractUserKey(File(g).smallest)) >= 0
        zero(g) == reaches(g) /\ UserCompare(user_key, ExtractUserKey(File(g).largest)) <= 0
    IN SelectSeq([n \in DOMAIN level0 |-> Len(level) + n], zero)
       \o (IF f <= Len(level) /\ reaches(f) THEN <<f>> ELSE <<>>)

\* The first answer, which may be an error.
OrElse(g, next) == IF g.found \/ g.status # Ok THEN g ELSE next

RECURSIVE GetFrom(_, _)
GetFrom(files, user_key) ==
    IF files = <<>> THEN NotFound
    ELSE OrElse(InternalGet(Head(files), user_key, LookupKey(user_key, sequence)),
                GetFrom(Tail(files), user_key))

Get(user_key) ==
    OrElse(MemGet("mem", user_key),
           OrElse(MemGet("imm", user_key), GetFrom(TablesFor(user_key), user_key)))

-----------------------------------------------------------------------------
(* The calls, and writes while the iterator is in use.                     *)

Blocks == UNION {{<<f, o>> : o \in DOMAIN File(f).table.file} : f \in Files}

Init ==
    /\ \E h \in Range(Histories), cuts \in Range(Layouts) : db = Build(h, cuts)
    /\ bad \in {{}} \cup {{b} : b \in Blocks}
    /\ sequence \in Snapshots
    /\ added = <<>>
    /\ it = NewDBIterator
    /\ call = <<"new">>

Called(c, d) == it' = d /\ call' = c /\ UNCHANGED <<db, bad, sequence, added>>

Seek(t) == Called(<<"Seek", t>>, DBSeek(it, <<"Seek", LookupKey(t, sequence)>>))
SeekToFirst == Called(<<"SeekToFirst">>, DBSeek(it, <<"SeekToFirst">>))
SeekToLast == Called(<<"SeekToLast">>, DBSeekToLast(it))
Next == it.valid /\ Called(<<"Next">>, DBNext(it))
Prev == it.valid /\ Called(<<"Prev">>, DBPrev(it))

Write(w) ==
    /\ Len(added) < MaxInserts
    /\ added' = Append(added, w)
    /\ UNCHANGED <<db, bad, sequence, it, call>>

Steps ==
    \/ \E t \in Targets : Seek(t)
    \/ SeekToFirst \/ SeekToLast \/ Next \/ Prev
    \/ \E w \in Later : Write(w)
Spec == Init /\ [][Steps]_vars

-----------------------------------------------------------------------------
KeyBefore(a, b) == UserCompare(a, b) < 0

\* The newest write of each key up to the snapshot, unless it is a deletion.
Newest(key) ==
    LET is == {i \in 1..sequence : history[i].key = key}
    IN IF is = {} THEN 0 ELSE IF history[Max(is)].type = kTypeValue THEN Max(is) ELSE 0
Visible == [key \in {k \in Targets : Newest(k) # 0} |-> Newest(key)]

Cursor == INSTANCE SnapshotCursor WITH
    Before <- KeyBefore, contents <- Visible, ok <- (DBStatus(it) = Ok),
    shown <- IF it.valid THEN <<DBKey(it), DBValue(it)>> ELSE None

\* The iterator implements the cursor over the snapshot: in every sequence of
\* calls, with changes of direction, writes meanwhile, deletions and entries of
\* one key spread over memtables and tables, it shows what the snapshot has, or
\* status() says that a block was not read (DBIter, MergingIterator,
\* TwoLevelIterator, Block::Iter).
ImplementsCursor == Cursor!Spec

Answers(g, value) == g.status = Ok => g.value = value
\* Get answers with what the snapshot has, or with an error: no filter, index
\* separator or restart point hides an entry (Table::InternalGet).
GetShowsSnapshot ==
    call = <<"new">> =>
        \A key \in Targets : Answers(Get(key), Newest(key))

\* What TableBuilder wrote can be read: without an unreadable block no call ends
\* with an error, so every restart point starts a whole key (BlockBuilder::Add
\* against Block::Iter's Seek and ParseNextKey).
IntactIsReadable == bad = {} => DBStatus(it) = Ok

\* Reads answer rightly, and answer at all when every block can be read (DBImpl::Get,
\* DBIter).
ReadsAnswer == GetShowsSnapshot /\ IntactIsReadable
=============================================================================
