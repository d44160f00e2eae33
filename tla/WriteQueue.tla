----------------------------- MODULE WriteQueue -----------------------------
(***************************************************************************)
(* DBImpl::Write (db/db_impl.cc): writers queue up, the one in front makes *)
(* room in the memtable, gathers the batches behind it, and logs and       *)
(* inserts them with the mutex released; and the background thread that    *)
(* empties the memtable.  Each client makes one call.                      *)
(*                                                                         *)
(* A batch is a sequence of operations, its size their number.  A log file *)
(* is its records up to the first append that failed (sure), and those     *)
(* from it on (unsure): part of a failed record may be in the file and     *)
(* block_offset_ has gone on as if all of it were, so that a replay finds  *)
(* any or none of them.  Calls of the environment may fail, at most        *)
(* MaxFaults times.                                                        *)
(***************************************************************************)
EXTENDS Integers, Sequences, SequencesExt, FiniteSets

CONSTANTS Clients, Syncs, Nulls, Doubles,
          MaxGroup, WriteBufferSize, SlowdownTrigger, StopTrigger,
          CompactionTrigger, MaxFaults

ASSUME QueueAssumption ==
    /\ Syncs \subseteq Clients /\ Nulls \subseteq Clients \ Syncs
    /\ Doubles \subseteq Clients \ Nulls
    /\ CompactionTrigger <= SlowdownTrigger /\ SlowdownTrigger <= StopTrigger

VARIABLES
    pc,             \* where each client's call is
    mutex,          \* the leader that holds it across several steps, or Free
    writers,        \* writers_
    result,         \* the status a call is to return, None before
    room,           \* the leader's [force, allow_delay]
    group,          \* [updates, last, seq, status, inserted] of the leader
    log, old_log,   \* the log file, and the one before
    synced,         \* operations whose record was there when the log was synced
    mem, imm,       \* <<sequence, operation>>; imm is {} for NULL, else one memtable
    tables,         \* what has been flushed
    level0,         \* number of files of level 0
    last_sequence,
    bg_error, bg_scheduled,
    faults

vars == <<pc, mutex, writers, result, room, group, log, old_log, synced, mem,
          imm, tables, level0, last_sequence, bg_error, bg_scheduled, faults>>
disk == <<log, old_log, synced>>
tree == <<mem, imm, tables, level0>>

Free == "free"
None == "none"
Batch(c) == IF c \in Nulls THEN <<>>
            ELSE IF c \in Doubles THEN <<<<c, 1>>, <<c, 2>>>> ELSE <<<<c, 1>>>>
EmptyLog == [sure |-> <<>>, unsure |-> <<>>]
NoGroup == [updates |-> <<>>, last |-> None, seq |-> 0, status |-> "ok", inserted |-> 0]

Init ==
    /\ pc = [c \in Clients |-> "idle"] /\ mutex = Free /\ writers = <<>>
    /\ result = [c \in Clients |-> None]
    /\ room = [force |-> FALSE, allow_delay |-> FALSE] /\ group = NoGroup
    /\ log = EmptyLog /\ old_log = EmptyLog /\ synced = {}
    /\ mem = {} /\ imm = {} /\ tables = {} /\ level0 = 0
    /\ last_sequence = 0 /\ bg_error = "ok" /\ bg_scheduled = FALSE
    /\ faults = 0

Fails == faults < MaxFaults /\ faults' = faults + 1

-----------------------------------------------------------------------------
(* Signals.  A thread in cv.Wait goes on only when it is signalled.        *)

BgWaiting == {"room_wait", "flush_wait"}
\* bg_cv_.SignalAll.
SignalAll(p) ==
    [c \in Clients |-> CASE p[c] = "room_wait" -> "room"
                         [] p[c] = "flush_wait" -> "flush"
                         [] OTHER -> p[c]]

\* RecordBackgroundError: the first error stays.
ErrorAfter(e) == IF bg_error = "ok" THEN e ELSE bg_error

\* MaybeScheduleCompaction, given what it finds.
Schedules(error, i, files) == error = "ok" /\ (i # {} \/ files >= CompactionTrigger)

-----------------------------------------------------------------------------
(* The queue.                                                              *)

\* Write: the caller joins the queue and waits unless it is in front.
Enqueue(c) ==
    /\ pc[c] = "idle" /\ mutex = Free
    /\ writers' = Append(writers, c)
    /\ pc' = [pc EXCEPT ![c] = IF writers = <<>> THEN "lead" ELSE "sleep"]
    /\ UNCHANGED <<mutex, result, room, group, disk, tree, last_sequence,
                   bg_error, bg_scheduled, faults>>

\* Woken up: another writer did the work, or it is this one's turn.
Awake(c) ==
    /\ pc[c] = "awake" /\ mutex = Free
    /\ pc' = [pc EXCEPT ![c] =
                 IF result[c] # None
                 THEN IF c \in Nulls /\ result[c] = "ok" THEN "flush" ELSE "returned"
                 ELSE IF Head(writers) = c THEN "lead" ELSE "sleep"]
    /\ UNCHANGED <<mutex, writers, result, room, group, disk, tree,
                   last_sequence, bg_error, bg_scheduled, faults>>

Lead(c) ==
    /\ pc[c] = "lead" /\ mutex = Free
    /\ mutex' = c /\ pc' = [pc EXCEPT ![c] = "room"]
    /\ room' = [force |-> c \in Nulls, allow_delay |-> c \notin Nulls]
    /\ UNCHANGED <<writers, result, group, disk, tree, last_sequence, bg_error,
                   bg_scheduled, faults>>

-----------------------------------------------------------------------------
(* MakeRoomForWrite, one action per branch of its loop.                    *)

InRoom(c) == pc[c] = "room" /\ mutex \in {Free, c} /\ Head(writers) = c
Delays == room.allow_delay /\ level0 >= SlowdownTrigger
HasRoom == ~room.force /\ Cardinality(mem) <= WriteBufferSize
MustWait == imm # {} \/ level0 >= StopTrigger

RoomError(c) ==
    /\ InRoom(c) /\ bg_error # "ok"
    /\ group' = [NoGroup EXCEPT !.last = c, !.status = bg_error]
    /\ pc' = [pc EXCEPT ![c] = "finish"] /\ mutex' = c
    /\ UNCHANGED <<writers, result, room, disk, tree, last_sequence, bg_error,
                   bg_scheduled, faults>>

\* Sleeps once for a millisecond, with the mutex released.
RoomDelay(c) ==
    /\ InRoom(c) /\ bg_error = "ok" /\ Delays
    /\ room' = [room EXCEPT !.allow_delay = FALSE]
    /\ mutex' = Free
    /\ UNCHANGED <<pc, writers, result, group, disk, tree, last_sequence,
                   bg_error, bg_scheduled, faults>>

RoomWait(c) ==
    /\ InRoom(c) /\ bg_error = "ok" /\ ~Delays /\ ~HasRoom /\ MustWait
    /\ pc' = [pc EXCEPT ![c] = "room_wait"] /\ mutex' = Free
    /\ UNCHANGED <<writers, result, room, group, disk, tree, last_sequence,
                   bg_error, bg_scheduled, faults>>

\* A new log file and a new memtable; the old one goes to the background.
RoomSwitch(c) ==
    /\ InRoom(c) /\ bg_error = "ok" /\ ~Delays /\ ~HasRoom /\ ~MustWait
    /\ \/ /\ old_log' = log /\ log' = EmptyLog /\ UNCHANGED synced
          /\ imm' = {mem} /\ mem' = {}
          /\ room' = [room EXCEPT !.force = FALSE]
          /\ bg_scheduled' = (bg_scheduled \/ Schedules(bg_error, {mem}, level0))
          /\ mutex' = c /\ UNCHANGED <<pc, group, faults>>
       \/ /\ Fails
          /\ group' = [NoGroup EXCEPT !.last = c, !.status = "error"]
          /\ pc' = [pc EXCEPT ![c] = "finish"] /\ mutex' = c
          /\ UNCHANGED <<disk, mem, imm, room, bg_scheduled>>
    /\ UNCHANGED <<writers, result, tables, level0, last_sequence, bg_error>>

-----------------------------------------------------------------------------
(* Logging and inserting the group.                                        *)

\* (mutant) A sync write may ride with a leader that does not sync.
StopsGroupBySize(first, size, w) ==
    w \notin Nulls /\ size + Len(Batch(w)) > MaxGroup

StopsGroup(first, size, w) ==
    \/ w \in Syncs /\ first \notin Syncs
    \/ w \notin Nulls /\ size + Len(Batch(w)) > MaxGroup

\* The position of last_writer in the queue.
LastIndex == CHOOSE i \in 1..Len(writers) : writers[i] = group.last

\* There is room: BuildBatchGroup starts with the leader's own batch.
RoomFound(c) ==
    /\ InRoom(c) /\ bg_error = "ok" /\ ~Delays /\ HasRoom
    /\ group' = [NoGroup EXCEPT !.last = c, !.updates = Batch(c),
                                !.seq = last_sequence + 1]
    /\ pc' = [pc EXCEPT ![c] = IF c \in Nulls THEN "finish" ELSE "gather"]
    /\ mutex' = c
    /\ UNCHANGED <<writers, result, room, disk, tree, last_sequence, bg_error,
                   bg_scheduled, faults>>

\* The writer behind the group may be added to it.
Joins(c, n) == n < Len(writers) /\ ~StopsGroup(c, Len(group.updates), writers[n + 1])

\* BuildBatchGroup, one turn of its loop: the next writer's batch is appended.
JoinGroup(c) ==
    /\ pc[c] = "gather" /\ Joins(c, LastIndex)
    /\ group' = [group EXCEPT !.updates = @ \o Batch(writers[LastIndex + 1]),
                              !.last = writers[LastIndex + 1]]
    /\ UNCHANGED <<pc, mutex, writers, result, room, disk, tree, last_sequence,
                   bg_error, bg_scheduled, faults>>

\* The group is fixed, and the mutex released for logging.
GroupBuilt(c) ==
    /\ pc[c] = "gather" /\ ~Joins(c, LastIndex)
    /\ pc' = [pc EXCEPT ![c] = "log"] /\ mutex' = Free
    /\ UNCHANGED <<writers, result, room, group, disk, tree, last_sequence,
                   bg_error, bg_scheduled, faults>>

\* What records hold, as <<sequence, operation>>.
Recorded(records) ==
    UNION {{<<r[1] + i - 1, r[2][i]>> : i \in 1..Len(r[2])} : r \in ToSet(records)}

\* What a replay of a log may find.
Logged(l) == Recorded(l.sure) \cup Recorded(l.unsure)

\* A record comes behind what is in the file; `whole': no append has failed.
Appended(l, record, whole) ==
    IF whole /\ l.unsure = <<>> THEN [l EXCEPT !.sure = Append(@, record)]
    ELSE [l EXCEPT !.unsure = Append(@, record)]

\* Writer::AddRecord.  An append that fails is returned, but for that of a
\* block's trailer, which nobody looks at; the log is used on in both cases.
AddRecord(c) ==
    /\ pc[c] = "log"
    /\ \/ /\ \/ log' = Appended(log, <<group.seq, group.updates>>, TRUE) /\ UNCHANGED faults
             \/ log' = Appended(log, <<group.seq, group.updates>>, FALSE) /\ Fails
          /\ pc' = [pc EXCEPT ![c] = IF c \in Syncs THEN "sync" ELSE "insert"]
          /\ UNCHANGED group
       \/ /\ Fails
          /\ group' = [group EXCEPT !.status = "error"]
          /\ pc' = [pc EXCEPT ![c] = "finish"]
          /\ log' = Appended(log, <<group.seq, group.updates>>, FALSE)
    /\ UNCHANGED <<mutex, writers, result, room, old_log, synced, tree,
                   last_sequence, bg_error, bg_scheduled>>

Sync(c) ==
    /\ pc[c] = "sync"
    /\ \/ /\ synced' = synced \cup Logged(log)
          /\ pc' = [pc EXCEPT ![c] = "insert"]
          /\ UNCHANGED <<group, faults>>
       \/ /\ Fails
          /\ group' = [group EXCEPT !.status = "sync error"]
          /\ pc' = [pc EXCEPT ![c] = "finish"]
          /\ UNCHANGED synced
    /\ UNCHANGED <<mutex, writers, result, room, log, old_log, tree,
                   last_sequence, bg_error, bg_scheduled>>

\* MemTableInserter: one operation, with the next sequence number.
InsertInto(c) ==
    /\ pc[c] = "insert" /\ group.inserted < Len(group.updates)
    /\ mem' = mem \cup {<<group.seq + group.inserted,
                          group.updates[group.inserted + 1]>>}
    /\ group' = [group EXCEPT !.inserted = @ + 1]
    /\ UNCHANGED <<pc, mutex, writers, result, room, disk, imm, tables, level0,
                   last_sequence, bg_error, bg_scheduled, faults>>

\* (mutant) One operation short.
InsertedShort(c) == pc[c] = "insert" /\ group.inserted + 1 >= Len(group.updates)

Inserted(c) == pc[c] = "insert" /\ group.inserted = Len(group.updates)

\* (mutant) The error of Sync is returned but not recorded.
NewErrorDropped == bg_error

NewError == IF group.status = "sync error" THEN ErrorAfter(group.status) ELSE bg_error

\* (mutant) The numbers of a failed group are given out again.
SequenceIfLogged ==
    IF group.status = "ok" THEN last_sequence + Len(group.updates) ELSE last_sequence

NewLastSequence == last_sequence + Len(group.updates)

\* (mutant) The new head of the queue is not told.
WokenMembers(c, n, p) ==
    [d \in Clients |-> IF \E i \in 1..n : writers[i] = d /\ d # c THEN "awake"
                       ELSE p[d]]

\* The members of the group are signalled, and so is the new head.
Woken(c, n, p) ==
    [d \in Clients |->
        IF (\E i \in 1..n : writers[i] = d /\ d # c)
           \/ (Len(writers) > n /\ writers[n + 1] = d)
        THEN "awake" ELSE p[d]]

\* Back under the mutex: the sequence number is published, the group leaves
\* the queue with the leader's status.
Finish(c) ==
    /\ \/ pc[c] = "finish" /\ mutex \in {Free, c}
       \/ Inserted(c) /\ mutex = Free
    /\ LET n == LastIndex
           p == IF NewError # bg_error THEN SignalAll(pc) ELSE pc
           mine == IF c \in Nulls /\ group.status = "ok" THEN "flush" ELSE "returned"
       IN  /\ result' = [d \in Clients |->
                            IF \E i \in 1..n : writers[i] = d THEN group.status
                            ELSE result[d]]
           /\ writers' = SubSeq(writers, n + 1, Len(writers))
           /\ pc' = [Woken(c, n, p) EXCEPT ![c] = mine]
    /\ last_sequence' = NewLastSequence
    /\ bg_error' = NewError
    /\ group' = NoGroup /\ mutex' = Free
    /\ UNCHANGED <<room, disk, tree, bg_scheduled, faults>>

\* TEST_CompactMemTable: wait until the memtable handed over is flushed.
FlushMemTable(c) ==
    /\ pc[c] = "flush" /\ mutex = Free
    /\ pc' = [pc EXCEPT ![c] =
                 IF imm # {} /\ bg_error = "ok" THEN "flush_wait" ELSE "returned"]
    /\ result' = [result EXCEPT ![c] = IF imm # {} THEN bg_error ELSE @]
    /\ UNCHANGED <<mutex, writers, room, group, disk, tree, last_sequence,
                   bg_error, bg_scheduled, faults>>

-----------------------------------------------------------------------------
(* The background thread.                                                  *)

\* BackgroundCall: the memtable first, then level 0; waiters are woken in
\* every case.
BackgroundCall ==
    /\ bg_scheduled /\ mutex = Free
    /\ \/ /\ bg_error = "ok" /\ imm # {}
          /\ tables' = tables \cup UNION imm /\ imm' = {} /\ level0' = level0 + 1
          /\ old_log' = EmptyLog
          /\ UNCHANGED <<bg_error, faults>>
       \/ /\ bg_error = "ok" /\ imm = {}
          /\ level0' = 0
          /\ UNCHANGED <<tables, imm, old_log, bg_error, faults>>
       \/ /\ bg_error = "ok" /\ Fails
          /\ bg_error' = "background error"
          /\ UNCHANGED <<tables, imm, level0, old_log>>
       \/ /\ bg_error # "ok"
          /\ UNCHANGED <<tables, imm, level0, old_log, bg_error, faults>>
    /\ bg_scheduled' = Schedules(bg_error', imm', level0')
    /\ pc' = SignalAll(pc)
    /\ UNCHANGED <<mutex, writers, result, room, group, log, synced, mem,
                   last_sequence>>

Client(c) ==
    \/ Awake(c) \/ Lead(c) \/ RoomError(c) \/ RoomDelay(c) \/ RoomWait(c)
    \/ RoomSwitch(c) \/ RoomFound(c) \/ JoinGroup(c) \/ GroupBuilt(c)
    \/ AddRecord(c) \/ Sync(c) \/ InsertInto(c) \/ Finish(c) \/ FlushMemTable(c)

Next == (\E c \in Clients : Enqueue(c) \/ Client(c)) \/ BackgroundCall

\* Threads run, and the environment runs the work it was given.
Fairness == (\A c \in Clients : WF_vars(Client(c))) /\ WF_vars(BackgroundCall)
Spec == Init /\ [][Next]_vars /\ Fairness

-----------------------------------------------------------------------------
(* Properties.                                                             *)

Applied == mem \cup (UNION imm) \cup tables
\* A call that returned OK has put its whole batch, in order and without a
\* gap, where every later read sees it.
AcknowledgedVisible ==
    \A c \in Clients : result[c] = "ok" /\ c \notin Nulls =>
       \E s \in 1..last_sequence : \A i \in 1..Len(Batch(c)) :
          s + i - 1 <= last_sequence /\ <<s + i - 1, Batch(c)[i]>> \in Applied

\* No sequence number is ever given to two operations, be it in a log or in
\* the tables: recovery and reads rely on it.
SequencesUnique ==
    \A a, b \in Applied \cup Logged(log) \cup Logged(old_log) : a[1] = b[1] => a = b

\* A reader at last_sequence sees all of a batch or nothing of it.
BatchesAtomic ==
    LET seen == {e[2] : e \in {a \in Applied : a[1] <= last_sequence}}
    IN  \A c \in Clients :
           ToSet(Batch(c)) \subseteq seen \/ ToSet(Batch(c)) \cap seen = {}

\* Readers see whole batches, and the acknowledged ones (BuildBatchGroup,
\* WriteBatchInternal::InsertInto).
ReadersSeeBatches == AcknowledgedVisible /\ BatchesAtomic

\* Its number is below that of the first record an append to the log failed for.
Unharmed(e, l) == l.unsure = <<>> \/ e[1] < l.unsure[1][1]

\* It was appended to the log, and a replay is sure to find it unless an append
\* to the same log had failed by then.
Kept(e, l) == e \in Logged(l) /\ (Unharmed(e, l) => e \in Recorded(l.sure))

\* What a sync write was acknowledged for is in a table, or synced and kept in
\* a log that still exists.
SyncedWritesDurable ==
    \A c \in Syncs : result[c] = "ok" => \A x \in ToSet(Batch(c)) :
       \E e \in tables \cup synced :
          e[2] = x /\ (e \in tables \/ Kept(e, log) \/ Kept(e, old_log))

\* Until it is flushed, what a memtable holds is kept in a log file that has
\* not been deleted.
LogCoversMemory ==
    /\ \A e \in mem : Kept(e, log)
    /\ \A e \in UNION imm : Kept(e, old_log)

\* What was promised to be on disk was written to it and synced, and what is
\* only in memory was logged first (DBImpl::Write, CompactMemTable).  Both are
\* in front of the first append that fails on the log they are in, where
\* recovery is sure to read them, or were written after that append: those
\* log::Writer leaves to chance (log_writer.cc:53 and 107).
NothingUnlogged == SyncedWritesDurable /\ LogCoversMemory

\* "We force the DB into a mode where all future writes fail": once a
\* call has returned the error of Sync, no other call is acknowledged.
SyncErrorFinal ==
    [][(\E d \in Clients : result[d] = "sync error") =>
          \A c \in Clients : result'[c] = "ok" => result[c] = "ok"]_vars

\* Every call returns, whatever fails and whoever waits for whom.
EveryCallReturns == \A c \in Clients : (pc[c] # "idle") ~> (pc[c] = "returned")
=============================================================================
