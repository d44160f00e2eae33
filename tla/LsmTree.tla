------------------------------ MODULE LsmTree ------------------------------
(***************************************************************************)
(* The levels of leveldb: what a memtable flush and a compaction do to the *)
(* files of a version (db/version_set.cc, db/db_impl.cc), and what Get     *)
(* finds there.                                                            *)
(*                                                                         *)
(* An entry is <<user key, sequence, type>>; the value of a put is its     *)
(* sequence number.  A file is its number with its entries, a file's size  *)
(* the number of its entries.  A compaction reads its inputs while the     *)
(* mutex is free, so writes, snapshots and memtable flushes happen between *)
(* its start and the installation of its outputs.  Any of the background   *)
(* thread's work may fail.  The compactions a caller can ask for           *)
(* (CompactRange) are left out: see the README.                            *)
(***************************************************************************)
EXTENDS Integers, Sequences, SequencesExt, FiniteSets, FiniteSetsExt

CONSTANTS Keys, Types, MaxSeq, MaxDeletions, MaxSnapshots, MaxRequests,
          kNumLevels, kL0_CompactionTrigger, kMaxMemCompactLevel,
          TargetFileSize, BaseBytes, GrandparentFactor, ExpansionFactor

ASSUME LsmAssumption ==
    /\ Keys \subseteq Nat \ {0} /\ Types \subseteq {"value", "deletion"}
    /\ MaxSeq \in Nat /\ MaxDeletions \in Nat /\ MaxSnapshots \in Nat
    /\ kNumLevels \in Nat /\ kNumLevels > 1 /\ kNumLevels > kMaxMemCompactLevel
    /\ kMaxMemCompactLevel \in Nat /\ kL0_CompactionTrigger \in Nat \ {0}
    /\ TargetFileSize \in Nat \ {0} /\ BaseBytes \in Nat \ {0}

VARIABLES
    history,          \* every write, in order: <<key, type>>
    mem, imm,         \* entries of the memtables; imm is {} for NULL
    files,            \* current_->files_, level by level
    next_file,
    compact_pointer,  \* per level, the internal key to go on from, or None
    file_to_compact,  \* <<level, file>> chosen by seeks, or None
    comp,             \* the compaction whose inputs are being merged, or None
    snapshots,        \* sequence numbers of the snapshot list, oldest first
    requests,         \* compactions asked for by seeks
    bg_error          \* whether bg_error_ is set

vars == <<history, mem, imm, files, next_file, compact_pointer,
          file_to_compact, comp, snapshots, requests, bg_error>>

None == <<>>
Levels == 0..(kNumLevels - 1)
LastSequence == Len(history)
Deletions == Cardinality({i \in DOMAIN history : history[i][2] = "deletion"})

MaxGrandParentOverlapBytes == GrandparentFactor * TargetFileSize
ExpandedCompactionByteSizeLimit == ExpansionFactor * TargetFileSize
MaxBytesForLevel[level \in Levels] ==
    IF level > 1 THEN 10 * MaxBytesForLevel[level - 1] ELSE BaseBytes

\* InternalKeyComparator: user keys ascending, sequence numbers descending.
Less(a, b) == a[1] < b[1] \/ (a[1] = b[1] /\ a[2] > b[2])
FirstOf(S) == CHOOSE e \in S : \A o \in S \ {e} : Less(e, o)
LastOf(S) == CHOOSE e \in S : \A o \in S \ {e} : Less(o, e)
smallest(f) == FirstOf(f.entries)
largest(f) == LastOf(f.entries)
TotalFileSize(S) == Cardinality(UNION {{f} \X f.entries : f \in S})

\* BySmallestKey, the order in which a version lists the files of a level.
Precedes(f, g) ==
    Less(smallest(f), smallest(g))
    \/ (~Less(smallest(g), smallest(f)) /\ f.number < g.number)

FirstFile(S) == CHOOSE f \in S : \A g \in S \ {f} : Precedes(f, g)

\* A finite set in the order R gives it: the nth element has n - 1 before it.
InOrder(S, R) ==
    [n \in 1..Cardinality(S) |->
        CHOOSE x \in S : Cardinality({y \in S : <<y, x>> \in R}) = n - 1]
Listed(S) == InOrder(S, {p \in S \X S : Precedes(p[1], p[2])})

-----------------------------------------------------------------------------
(* Searching a level.                                                      *)

\* One round of FindFile's loop: what is left between left and right.
Bisect(list, target, range) ==
    LET mid == (range[1] + range[2]) \div 2
    IN  IF range[1] >= range[2] THEN range
        ELSE IF Less(largest(list[mid + 1]), target) THEN <<mid + 1, range[2]>>
        ELSE <<range[1], mid>>

\* FindFile: binary search for the first file whose largest key is not
\* before the target.  It is over after at most as many rounds as files.
FindFile(list, target) ==
    LET left_right[n \in 0..Len(list)] ==
            IF n = 0 THEN <<0, Len(list)>> ELSE Bisect(list, target, left_right[n - 1])
    IN  left_right[Len(list)][2] + 1

Seek(k, s) == <<k, s, "value">>

AfterFile(k, f) == k > largest(f)[1]
BeforeFile(k, f) == k < smallest(f)[1]

\* SomeFileOverlapsRange, with the binary search where files are disjoint.
OverlapInLevel(level, lo, hi) ==
    IF level = 0
    THEN \E f \in files[0] : ~AfterFile(lo, f) /\ ~BeforeFile(hi, f)
    ELSE LET list == Listed(files[level])
             i == FindFile(list, Seek(lo, MaxSeq + 1))
         IN  i <= Len(list) /\ ~BeforeFile(hi, list[i])

InRange(level, lo, hi) ==
    {f \in files[level] : largest(f)[1] >= lo /\ smallest(f)[1] <= hi}

\* The files of level 0 in the range that lo, hi and the files of S span.
Spanned(S, lo, hi) ==
    {f \in files[0] :
        /\ \E start \in {lo} \cup {smallest(g)[1] : g \in S} : largest(f)[1] >= start
        /\ \E limit \in {hi} \cup {largest(g)[1] : g \in S} : smallest(f)[1] <= limit}

\* GetOverlappingInputs: on level 0 a file that widens the range starts the
\* search over, until the range has all the files it spans, and no more.
GetOverlappingInputs(level, lo, hi) ==
    IF level = 0
    THEN {f \in files[0] :
            \A S \in SUBSET files[0] : Spanned(S, lo, hi) \subseteq S => f \in S}
    ELSE InRange(level, lo, hi)

-----------------------------------------------------------------------------
(* Reading.                                                                *)

Hits(S, k, s) == {e \in S : e[1] = k /\ e[2] <= s}
NotFound == 0

\* SaveValue: the newest entry the table holds for the key.
Saved(S, k, s) ==
    LET e == FirstOf(Hits(S, k, s))
    IN  IF e[3] = "value" THEN e[2] ELSE NotFound

\* The files of a level that are looked into: in level 0 all that cover the
\* key, deeper the one that the search finds.
InLevel(level, k, s) ==
    IF level = 0 THEN {f \in files[0] : ~AfterFile(k, f) /\ ~BeforeFile(k, f)}
    ELSE LET list == Listed(files[level])
             i == FindFile(list, Seek(k, s))
         IN  IF i > Len(list) \/ BeforeFile(k, list[i]) THEN {} ELSE {list[i]}

\* The files ForEachOverlapping and Version::Get visit, each <<level, file>>:
\* level by level, and in level 0 from the newest file to the oldest.
ForEachOverlapping(k, s) == UNION {{level} \X InLevel(level, k, s) : level \in Levels}
NewestFirst(v, u) == v[1] < u[1] \/ (v[1] = u[1] /\ v[2].number > u[2].number)
FirstVisited(V) == CHOOSE v \in V : \A u \in V \ {v} : NewestFirst(v, u)

\* Version::Get: the first file with an entry for the key decides.
VersionGet(k, s) ==
    LET V == {v \in ForEachOverlapping(k, s) : Hits(v[2].entries, k, s) # {}}
    IN  IF V = {} THEN NotFound ELSE Saved(FirstVisited(V)[2].entries, k, s)

\* DBImpl::Get at sequence number s.
Get(k, s) ==
    IF Hits(mem, k, s) # {} THEN Saved(mem, k, s)
    ELSE IF Hits(imm, k, s) # {} THEN Saved(imm, k, s)
    ELSE VersionGet(k, s)

-----------------------------------------------------------------------------
(* Writing, snapshots and the memtable.                                    *)

Init ==
    /\ history = <<>> /\ mem = {} /\ imm = {} /\ next_file = 1
    /\ files = [level \in Levels |-> {}]
    /\ compact_pointer = [level \in Levels |-> None]
    /\ file_to_compact = None /\ comp = None /\ snapshots = <<>> /\ requests = 0
    /\ bg_error = FALSE

\* A bound: a snapshot that is held takes the place of a write.
Room == LastSequence + Len(snapshots) < MaxSeq

\* After a background error MakeRoomForWrite, and with it every write, fails.
Write(k, type) ==
    /\ LastSequence < MaxSeq /\ Room /\ ~bg_error
    /\ type = "deletion" => Deletions < MaxDeletions
    /\ history' = Append(history, <<k, type>>)
    /\ mem' = mem \cup {<<k, LastSequence + 1, type>>}
    /\ UNCHANGED <<imm, files, next_file, compact_pointer, file_to_compact,
                   comp, snapshots, requests, bg_error>>

\* SnapshotList: the list of the snapshots' sequence numbers.
New(list, seq) == Append(list, seq)
Delete(list, i) == RemoveAt(list, i)
oldest(list) == Head(list)

GetSnapshot ==
    /\ Len(snapshots) < MaxSnapshots /\ Room
    /\ snapshots' = New(snapshots, LastSequence)
    /\ UNCHANGED <<history, mem, imm, files, next_file, compact_pointer,
                   file_to_compact, comp, requests, bg_error>>

ReleaseSnapshot(i) ==
    /\ i \in DOMAIN snapshots
    /\ snapshots' = Delete(snapshots, i)
    /\ UNCHANGED <<history, mem, imm, files, next_file, compact_pointer,
                   file_to_compact, comp, requests, bg_error>>

\* MakeRoomForWrite hands the full memtable to the background thread.
SwitchMemTable ==
    /\ mem # {} /\ imm = {} /\ ~bg_error
    /\ imm' = mem /\ mem' = {}
    /\ UNCHANGED <<history, files, next_file, compact_pointer,
                   file_to_compact, comp, snapshots, requests, bg_error>>

\* PickLevelForMemTableOutput goes down while nothing overlaps.
StopsAt(level, lo, hi) ==
    \/ level >= kMaxMemCompactLevel
    \/ OverlapInLevel(level + 1, lo, hi)
    \/ /\ level + 2 < kNumLevels
       /\ TotalFileSize(GetOverlappingInputs(level + 2, lo, hi))
             > MaxGrandParentOverlapBytes

PickLevelForMemTableOutput(lo, hi) ==
    IF OverlapInLevel(0, lo, hi) THEN 0
    ELSE CHOOSE level \in 0..kMaxMemCompactLevel :
            StopsAt(level, lo, hi) /\ \A above \in 0..(level - 1) : ~StopsAt(above, lo, hi)

\* VersionSet::Builder and AppendVersion: the new version has no file chosen
\* by seeks.
LogAndApply(deleted, added) ==
    /\ files' = [level \in Levels |->
                    (files[level] \ {f \in files[level] : <<level, f>> \in deleted})
                        \cup {f \in {a[2] : a \in added} : <<level, f>> \in added}]
    /\ file_to_compact' = None

\* A table or the manifest cannot be written: the version stays as it is.
\* (File numbers that were used up are left out; none is used after the error,
\* except by a flush that is tried again.)
RecordBackgroundError ==
    /\ bg_error' = TRUE
    /\ UNCHANGED <<files, file_to_compact, next_file>>

\* The background thread flushes imm_ first, also in the middle of a
\* compaction, which goes on after a flush that failed, and tries it again.
CompactMemTable ==
    LET f == [number |-> next_file, entries |-> imm]
    IN  /\ imm # {} /\ (comp # None \/ ~bg_error)
        /\ \/ /\ imm' = {} /\ next_file' = next_file + 1
              /\ \E level \in {PickLevelForMemTableOutput(smallest(f)[1], largest(f)[1])} :
                    LogAndApply({}, {<<level, f>>})
              /\ UNCHANGED bg_error
           \/ RecordBackgroundError /\ UNCHANGED imm
        /\ UNCHANGED <<history, mem, compact_pointer, comp, snapshots, requests>>

-----------------------------------------------------------------------------
(* Choosing a compaction.                                                  *)

\* A charge to the first of several files a read had to look into may use up
\* the seeks it was allowed.
UpdateStats(k) ==
    LET V == ForEachOverlapping(k, LastSequence)
    IN  /\ file_to_compact = None /\ requests < MaxRequests /\ Cardinality(V) >= 2
        /\ requests' = requests + 1
        /\ file_to_compact' = FirstVisited(V)
        /\ UNCHANGED <<history, mem, imm, files, next_file, compact_pointer,
                       comp, snapshots, bg_error>>

\* Finalize: the level with the highest score, a fraction here.
Score(level) ==
    IF level = 0 THEN <<Cardinality(files[0]), kL0_CompactionTrigger>>
    ELSE <<TotalFileSize(files[level]), MaxBytesForLevel[level]>>
Higher(a, b) == a[1] * b[2] > b[1] * a[2]
BestLevel(level) ==
    \A o \in 0..(kNumLevels - 2) :
        ~Higher(Score(o), Score(level)) /\ (o < level => Higher(Score(level), Score(o)))
SizeCompaction ==
    \E level \in 0..(kNumLevels - 2) : Score(level)[1] >= Score(level)[2] /\ BestLevel(level)
\* (mutant) Only a file chosen by seeks asks for a compaction.
NeedsOnlySeeks == file_to_compact # None

NeedsCompaction == SizeCompaction \/ file_to_compact # None

\* The file PickCompaction starts with on a level that is too large.
AfterPointer(level) ==
    LET beyond == {f \in files[level] : compact_pointer[level] = None
                               \/ Less(compact_pointer[level], largest(f))}
    IN  FirstFile(IF beyond = {} THEN files[level] ELSE beyond)

UserRange(S) == <<Min({smallest(f)[1] : f \in S}), Max({largest(f)[1] : f \in S})>>

\* A compaction: its level, the inputs of it and of the next, the files below
\* those, and where the next compaction of the level starts.
Compaction(level, in0, in1, grandparents) ==
    [level |-> level, in0 |-> in0, in1 |-> in1, grandparents |-> grandparents,
     largest |-> LastOf(UNION {f.entries : f \in in0})]

\* (mutant) The inputs of the next level are those of the first file only.
SetupWithoutNextLevel(level, in0) == Compaction(level, in0, {}, {})

\* SetupOtherInputs.
SetupOtherInputs(level, in0) ==
    LET r == UserRange(in0)
        in1 == GetOverlappingInputs(level + 1, r[1], r[2])
        all == UserRange(in0 \cup in1)
        more0 == GetOverlappingInputs(level, all[1], all[2])
        more == UserRange(more0)
        more1 == GetOverlappingInputs(level + 1, more[1], more[2])
        expand == /\ in1 # {} /\ Cardinality(more0) > Cardinality(in0)
                  /\ TotalFileSize(in1) + TotalFileSize(more0)
                        < ExpandedCompactionByteSizeLimit
                  /\ Cardinality(more1) = Cardinality(in1)
        in == IF expand THEN <<more0, more1>> ELSE <<in0, in1>>
        range == UserRange(in[1] \cup in[2])
    IN  Compaction(level, in[1], in[2],
                   IF level + 2 < kNumLevels
                   THEN GetOverlappingInputs(level + 2, range[1], range[2]) ELSE {})

\* PickCompaction: a level that is too large goes before a file chosen by seeks.
Picked ==
    IF SizeCompaction
    THEN {<<level, AfterPointer(level)>> : level \in {l \in 0..(kNumLevels - 2) : BestLevel(l)}}
    ELSE {file_to_compact}
PickCompaction(level, f) ==
    LET r == UserRange({f})
    IN  SetupOtherInputs(level,
            IF level = 0 THEN GetOverlappingInputs(0, r[1], r[2]) ELSE {f})

IsTrivialMove(c) ==
    /\ Cardinality(c.in0) = 1 /\ c.in1 = {}
    /\ TotalFileSize(c.grandparents) <= MaxGrandParentOverlapBytes

\* DoCompactionWork looks at the snapshots once, before it gives up the mutex.
SmallestSnapshot == IF snapshots = <<>> THEN LastSequence ELSE oldest(snapshots)
CompactionState(c) ==
    [c |-> c, base |-> files, smallest_snapshot |-> SmallestSnapshot]

\* BackgroundCompaction: a trivial move is done at once; anything else keeps
\* its inputs, the version they belong to and the smallest snapshot.
StartCompaction ==
    /\ comp = None /\ imm = {} /\ ~bg_error /\ NeedsCompaction
    /\ \E c \in {PickCompaction(v[1], v[2]) : v \in Picked} :
          /\ compact_pointer' = [compact_pointer EXCEPT ![c.level] = c.largest]
          /\ \/ /\ IsTrivialMove(c)
                /\ \/ /\ LogAndApply({<<c.level, f>> : f \in c.in0},
                                     {<<c.level + 1, f>> : f \in c.in0})
                      /\ UNCHANGED <<next_file, bg_error>>
                   \/ RecordBackgroundError
                /\ UNCHANGED comp
             \/ /\ ~IsTrivialMove(c)
                /\ comp' = CompactionState(c)
                /\ UNCHANGED <<files, file_to_compact, next_file, bg_error>>
    /\ UNCHANGED <<history, mem, imm, snapshots, requests>>

-----------------------------------------------------------------------------
(* Carrying it out.                                                        *)

\* Nothing below the output level can hold the key.
IsBaseLevelForKey(k) ==
    \A level \in (comp.c.level + 2)..(kNumLevels - 1) :
       \A f \in comp.base[level] : AfterFile(k, f) \/ BeforeFile(k, f)

Inputs == UNION {f.entries : f \in comp.c.in0 \cup comp.c.in1}

\* Rule (A) and the rule for obsolete deletion markers.
Hidden(e) ==
    \E o \in Inputs : o[1] = e[1] /\ o[2] > e[2] /\ o[2] <= comp.smallest_snapshot
Obsolete(e) ==
    e[3] = "deletion" /\ e[2] <= comp.smallest_snapshot /\ IsBaseLevelForKey(e[1])
\* (mutant) A newer entry hides the older ones whatever snapshots there are.
KeptNewest ==
    {e \in Inputs : ~Obsolete(e) /\ ~\E o \in Inputs : o[1] = e[1] /\ o[2] > e[2]}

Kept == {e \in Inputs : ~Hidden(e) /\ ~Obsolete(e)}

\* ShouldStopBefore: bytes of the grandparents passed since the first key.
PassedBytes(from, e) ==
    TotalFileSize({f \in comp.c.grandparents :
                      ~Less(largest(f), from) /\ Less(largest(f), e)})

\* FinishCompactionOutputFile.
Closed(closed, open) == IF open = {} THEN closed ELSE Append(closed, open)

\* One round of the loop: an output that overlaps too much of the grandparents is
\* closed before the entry, a full one after it.
AfterEntry(st, e) ==
    LET stop == PassedBytes(st.from, e) > MaxGrandParentOverlapBytes
        done == IF stop THEN Closed(st.closed, st.open) ELSE st.closed
        now == (IF stop THEN {} ELSE st.open) \cup (Kept \cap {e})
        full == e \in Kept /\ Cardinality(now) >= TargetFileSize
    IN  [closed |-> IF full THEN Closed(done, now) ELSE done,
         open |-> IF full THEN {} ELSE now,
         from |-> IF stop THEN e ELSE st.from]

\* The files the input is cut into.
Outputs ==
    LET entries == InOrder(Inputs, {p \in Inputs \X Inputs : Less(p[1], p[2])})
        state[n \in 0..Len(entries)] ==
            IF n = 0 THEN [closed |-> <<>>, open |-> {}, from |-> FirstOf(Inputs)]
            ELSE AfterEntry(state[n - 1], entries[n])
        end == state[Len(entries)]
    IN  Closed(end.closed, end.open)

AddInputDeletions(c) ==
    {<<c.level, f>> : f \in c.in0} \cup {<<c.level + 1, f>> : f \in c.in1}

InstallCompactionResults ==
    /\ comp # None
    /\ \E out \in {Outputs} :
          LET new == {[number |-> next_file + i - 1, entries |-> out[i]] :
                         i \in 1..Len(out)}
              c == comp.c
          IN  /\ next_file' = next_file + Len(out)
              /\ LogAndApply(AddInputDeletions(c), {<<c.level + 1, f>> : f \in new})
    /\ comp' = None
    /\ UNCHANGED <<history, mem, imm, compact_pointer, snapshots, requests, bg_error>>

\* DoCompactionWork ends with an error, while it reads, writes or installs:
\* its outputs are dropped.
CleanupCompaction ==
    /\ comp # None /\ comp' = None
    /\ RecordBackgroundError
    /\ UNCHANGED <<history, mem, imm, compact_pointer, snapshots, requests>>

Background ==
    CompactMemTable \/ StartCompaction \/ InstallCompactionResults \/ CleanupCompaction

Next ==
    \/ \E k \in Keys, type \in Types : Write(k, type)
    \/ GetSnapshot
    \/ \E i \in DOMAIN snapshots : ReleaseSnapshot(i)
    \/ SwitchMemTable
    \/ \E k \in Keys : UpdateStats(k)
    \/ Background

\* Weak fairness of the background thread, with its enabling condition
\* written out: MaybeScheduleCompaction's test, or a compaction under way.
BackgroundWork == comp # None \/ (~bg_error /\ (imm # {} \/ NeedsCompaction))
Fairness == []<>~BackgroundWork \/ []<><<Background>>_vars

Spec == Init /\ [][Next]_vars /\ Fairness

-----------------------------------------------------------------------------
(* Properties.                                                             *)

\* What a reader at sequence number s must see: the last write to the key.
Latest(k, s) ==
    LET writes == {i \in 1..s : history[i][1] = k}
    IN  IF writes = {} \/ history[Max(writes)][2] = "deletion" THEN NotFound
        ELSE Max(writes)

\* Get returns the last write to the key, now and at every snapshot that is
\* held, whatever is being flushed, moved or merged.
ReadsLatest ==
    \A k \in Keys, s \in ToSet(snapshots) \cup {LastSequence} : Get(k, s) = Latest(k, s)

\* "We can search level-by-level since entries never hop across levels":
\* of one key, what lies on an upper level, or in a newer file of level 0,
\* is newer than what lies below.
NewerAbove ==
    \A a, b \in Levels : \A f \in files[a], g \in files[b] :
       (a < b \/ (a = 0 /\ b = 0 /\ f.number > g.number)) =>
          \A e \in f.entries, o \in g.entries : e[1] = o[1] => e[2] > o[2]

\* "Must not overlap": the files of a level beyond 0 have disjoint ranges,
\* which the binary search of FindFile needs.
LevelsDisjoint ==
    \A level \in Levels \ {0} : \A f, g \in files[level] :
       f = g \/ Less(largest(f), smallest(g)) \/ Less(largest(g), smallest(f))

\* The files of a level beyond 0 have ranges of user keys that do not touch: in
\* particular, no user key has entries in two of them.
RangesApart ==
    \A level \in Levels \ {0} : \A f, g \in files[level] :
       f = g \/ AfterFile(smallest(g)[1], f) \/ AfterFile(smallest(f)[1], g)

\* When nothing is written any more the background thread comes to rest, and
\* unless it met an error the memtable is then flushed and no level is left
\* over its limit.
CompactionSettles == <>[](comp = None /\ (bg_error \/ (imm = {} /\ ~SizeCompaction)))
=============================================================================
