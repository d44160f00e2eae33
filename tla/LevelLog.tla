------------------------------ MODULE LevelLog ------------------------------
(***************************************************************************)
(* The log format of leveldb (db/log_writer.cc, db/log_reader.cc), used    *)
(* for the write-ahead log and for the MANIFEST.  A logical record is cut  *)
(* into physical records that never straddle a block; the reader puts them *)
(* together again from a file that may be cut off anywhere, hold damaged   *)
(* bytes, or miss bytes whose append failed.                               *)
(*                                                                         *)
(* A byte of the file is a tuple <<kind, id, a, b, c>>: the first byte of  *)
(* a header carries what the seven header bytes say of record id (type,    *)
(* length, and how much of the record precedes it, which the checksum of   *)
(* the payload stands for), a payload byte its place in the record.        *)
(***************************************************************************)
EXTENDS Integers, Sequences, FiniteSets

CONSTANTS kBlockSize, Sizes, MaxRecords, MaxDamage, MaxFailures, Torn,
          InitialOffsets

kHeaderSize == 7

ASSUME LogAssumption ==
    /\ kBlockSize \in Nat /\ kBlockSize > kHeaderSize
    /\ Sizes \subseteq Nat /\ InitialOffsets \subseteq Nat
    /\ MaxRecords \in Nat /\ MaxDamage \in Nat /\ MaxFailures \in Nat

kZeroType == 0
kFullType == 1
kFirstType == 2
kMiddleType == 3
kLastType == 4
kEof == 5
kBadRecord == 6

VARIABLES
    file,          \* the bytes that reached the file
    block_offset,  \* Writer::block_offset_
    size,          \* sizes of the records handed to AddRecord, by id
    start,         \* where the first physical record of each was put
    left,          \* bytes of the current record still to emit
    begin,         \* its first fragment is still to be emitted
    phase,         \* "idle", "emit", "read" or "eof"
    failures,      \* appends that failed
    damage,        \* what the damaged bytes had been
    rd,            \* the Reader
    returned,      \* records ReadRecord has returned
    dropped        \* calls of Reporter::Corruption

vars == <<file, block_offset, size, start, left, begin, phase, failures,
          damage, rd, returned, dropped>>
writerVars == <<block_offset, size, start, left, begin, failures>>
readerVars == <<rd, returned, dropped>>

Zero == <<"Z", 0, 0, 0, 0>>
Garbage == <<"X", 0, 0, 0, 0>>
Header(id, type, len, base) ==
    [i \in 1..kHeaderSize |-> IF i = 1 THEN <<"H", id, type, len, base>>
                                       ELSE <<"h", id, base, i, 0>>]
Payload(id, base, len) == [i \in 1..len |-> <<"P", id, base + i, 0, 0>>]

Init ==
    /\ file = <<>> /\ block_offset = 0 /\ size = <<>> /\ start = <<>>
    /\ left = 0 /\ begin = FALSE /\ phase = "idle" /\ failures = 0
    /\ damage = <<>> /\ returned = <<>> /\ dropped = 0
    /\ rd = [lo |-> 0, hi |-> 0, eof |-> FALSE, initial |-> 0,
             resyncing |-> FALSE, fragmented |-> FALSE, scratch |-> <<>>,
             prospective |-> 0, last |-> 0]

-----------------------------------------------------------------------------
(* Writer.                                                                 *)

AddRecord(n) ==
    /\ phase = "idle" /\ Len(size) < MaxRecords
    /\ size' = Append(size, n)
    /\ start' = Append(start, Len(file))
    /\ left' = n /\ begin' = TRUE /\ phase' = "emit"
    /\ UNCHANGED <<file, block_offset, failures, damage, readerVars>>

\* What is written to skip the rest of a block too short for a header.
Trailer ==
    LET leftover == kBlockSize - block_offset
    IN  IF leftover < kHeaderSize THEN [i \in 1..leftover |-> Zero] ELSE <<>>

BlockStart ==
    IF kBlockSize - block_offset < kHeaderSize THEN 0 ELSE block_offset

FragmentLength ==
    LET avail == kBlockSize - BlockStart - kHeaderSize
    IN  IF left < avail THEN left ELSE avail

FragmentType ==
    LET end == left = FragmentLength
    IN  CASE begin /\ end -> kFullType
          [] begin /\ ~end -> kFirstType
          [] ~begin /\ end -> kLastType
          [] OTHER -> kMiddleType

\* What the first bytes of a header say: nothing, the checksum will not match.
TornHeader(id, base, n) == [i \in 1..n |-> <<"h", id, base, i, 0>>]

\* What reaches the file of a fragment, its header before its payload.
Stored(id, type, len, base, bytes) ==
    IF bytes < kHeaderSize THEN TornHeader(id, base, bytes)
    ELSE Header(id, type, len, base) \o Payload(id, base, bytes - kHeaderSize)

\* One pass of AddRecord's loop with EmitPhysicalRecord.  A call of Append or
\* Flush that fails leaves a part of its bytes in the file: how much, Torn bounds.
\* The status of the trailer is ignored; after another failure the loop ends.
\* Either way block_offset_ has moved as if all had been written.
EmitPhysicalRecord(trailer, bytes, ok) ==
    LET id == Len(size)
        base == size[id] - left
        n == FragmentLength
    IN  /\ phase = "emit"
        /\ trailer \in 0..Len(Trailer) /\ bytes \in 0..(kHeaderSize + n)
        /\ trailer < Len(Trailer) => trailer \in Torn
        /\ IF ok THEN bytes = kHeaderSize + n ELSE bytes \in Torn
        /\ failures' = failures + (IF trailer < Len(Trailer) THEN 1 ELSE 0)
                                + (IF ok THEN 0 ELSE 1)
        /\ failures' <= MaxFailures
        /\ file' = file \o SubSeq(Trailer, 1, trailer)
                        \o Stored(id, FragmentType, n, base, bytes)
        /\ start' = IF begin THEN [start EXCEPT ![id] = Len(file) + trailer]
                             ELSE start
        /\ block_offset' = BlockStart + kHeaderSize + n
        /\ left' = left - n /\ begin' = FALSE
        /\ phase' = IF ok /\ left' > 0 THEN "emit" ELSE "idle"
        /\ UNCHANGED <<size, damage, readerVars>>

\* The process or the machine stops: a file is left of which any number of
\* bytes at the end may be missing, and a new process opens it for reading.
Crash(n, initial) ==
    /\ phase \in {"idle", "emit"}
    /\ file' = SubSeq(file, 1, n)
    /\ phase' = "read"
    /\ rd' = [rd EXCEPT !.initial = initial, !.resyncing = initial > 0]
    /\ UNCHANGED <<writerVars, damage, returned, dropped>>

\* A byte of the file changes on the disk.
Damage(p) ==
    /\ phase = "read" /\ rd.hi = 0 /\ Len(damage) < MaxDamage
    /\ file[p] # Garbage
    /\ file' = [file EXCEPT ![p] = Garbage]
    /\ damage' = Append(damage, file[p][1])
    /\ UNCHANGED <<writerVars, phase, readerVars>>

-----------------------------------------------------------------------------
(* Reader.  buffer_ is file[lo+1..hi], end_of_buffer_offset_ is hi.        *)

SkipToInitialBlock ==
    LET offset_in_block == rd.initial % kBlockSize
        block == rd.initial - offset_in_block
    IN  IF offset_in_block > kBlockSize - 6 THEN block + kBlockSize ELSE block

Buffered == rd.hi - rd.lo

\* ReportDrop counts unless the bytes lie before the initial offset; the
\* subtraction is unsigned, and a negative result is a large one.
ReportDrop(hi, lo, bytes) ==
    IF hi - (hi - lo) - bytes >= rd.initial \/ lo - bytes < 0 THEN 1 ELSE 0

\* (mutant) A short read is not taken for the end of the file.
RefillForever ==
    LET from == IF rd.last < rd.initial /\ rd.hi = 0 THEN SkipToInitialBlock
                                                     ELSE rd.hi
        to == IF from + kBlockSize > Len(file)
              THEN (IF from > Len(file) THEN from ELSE Len(file))
              ELSE from + kBlockSize
    IN  /\ phase = "read" /\ Buffered < kHeaderSize /\ ~rd.eof
        /\ rd' = [rd EXCEPT !.lo = from, !.hi = to]
        /\ UNCHANGED <<writerVars, file, phase, damage, returned, dropped>>

\* Reading the next block into the buffer.
Refill ==
    LET from == IF rd.last < rd.initial /\ rd.hi = 0 THEN SkipToInitialBlock
                                                     ELSE rd.hi
        to == IF from + kBlockSize > Len(file)
              THEN (IF from > Len(file) THEN from ELSE Len(file))
              ELSE from + kBlockSize
    IN  /\ phase = "read" /\ Buffered < kHeaderSize /\ ~rd.eof
        /\ rd' = [rd EXCEPT !.lo = from, !.hi = to,
                            !.eof = to - from < kBlockSize]
        /\ UNCHANGED <<writerVars, file, phase, damage, returned, dropped>>

\* The read fails: reported as a lost block, and the reader is at its end.
RefillFails ==
    /\ phase = "read" /\ Buffered < kHeaderSize /\ ~rd.eof
    /\ failures < MaxFailures /\ failures' = failures + 1
    /\ rd' = [rd EXCEPT !.lo = rd.hi, !.eof = TRUE]
    /\ dropped' = dropped + ReportDrop(rd.hi, rd.hi, kBlockSize)
    /\ UNCHANGED <<file, block_offset, size, start, left, begin, phase,
                   damage, returned>>

At(i) == file[rd.lo + i]

\* The header at the front of the buffer is as it was written.
HeaderIntact ==
    /\ At(1)[1] = "H"
    /\ \A i \in 2..kHeaderSize : At(i) = <<"h", At(1)[2], At(1)[5], i, 0>>

ChecksumOk(n) ==
    \A i \in 1..n : At(kHeaderSize + i) = <<"P", At(1)[2], At(1)[5] + i, 0, 0>>

Outcome(type, data, lo, drops) ==
    [type |-> type, data |-> data, lo |-> lo, drops |-> drops]

\* kBadRecord or, once the last block is in the buffer, kEof, for a length
\* that reaches beyond the buffer.
BadLength ==
    IF rd.eof THEN Outcome(kEof, <<>>, rd.hi, 0)
    ELSE Outcome(kBadRecord, <<>>, rd.hi, ReportDrop(rd.hi, rd.hi, Buffered))

\* (mutant) A checksum that does not match ends the file.
MismatchEnds == Outcome(kEof, <<>>, rd.hi, 1)

\* A checksum that does not match discards the rest of the buffer.
Mismatch ==
    Outcome(kBadRecord, <<>>, rd.hi, ReportDrop(rd.hi, rd.hi, Buffered))

\* A zero header is what preallocated space looks like: skipped silently.
Preallocated == Outcome(kBadRecord, <<>>, rd.hi, 0)

\* What ReadPhysicalRecord can find in a buffer that holds a header.  A
\* damaged header says anything.
Parsed ==
    IF HeaderIntact
    THEN LET len == At(1)[4]
             next == rd.lo + kHeaderSize + len
         IN  IF kHeaderSize + len > Buffered THEN {BadLength}
             ELSE IF ~ChecksumOk(len) THEN {Mismatch}
             ELSE IF rd.lo < rd.initial
                  THEN {Outcome(kBadRecord, <<>>, next, 0)}
             ELSE {Outcome(At(1)[3],
                           SubSeq(file, rd.lo + kHeaderSize + 1, next), next, 0)}
    ELSE IF \A i \in 1..kHeaderSize : At(i) = Zero THEN {Preallocated}
    ELSE {BadLength, Mismatch, Preallocated}

ReadPhysicalRecord ==
    IF Buffered < kHeaderSize THEN {Outcome(kEof, <<>>, rd.hi, 0)} ELSE Parsed

Return(data, offset) ==
    returned' = Append(returned, [data |-> data, offset |-> offset])

\* A fragment that starts a record while another is unfinished.
Unfinished(lo) ==
    IF rd.fragmented /\ rd.scratch # <<>>
    THEN ReportDrop(rd.hi, lo, Len(rd.scratch)) ELSE 0

\* A fragment that continues a record none of which was seen.
MissingStart(lo, n) == IF rd.fragmented THEN 0 ELSE ReportDrop(rd.hi, lo, n)

\* ReadRecord's treatment of one physical record.
ReadFull(o, offset) ==
    /\ o.type = kFullType
    /\ rd' = [rd EXCEPT !.lo = o.lo, !.resyncing = FALSE, !.scratch = <<>>,
                        !.fragmented = FALSE, !.last = offset]
    /\ Return(o.data, offset)
    /\ dropped' = dropped + Unfinished(o.lo) /\ UNCHANGED phase

ReadFirst(o, offset) ==
    /\ o.type = kFirstType
    /\ rd' = [rd EXCEPT !.lo = o.lo, !.resyncing = FALSE, !.scratch = o.data,
                        !.fragmented = TRUE, !.prospective = offset]
    /\ dropped' = dropped + Unfinished(o.lo)
    /\ UNCHANGED <<returned, phase>>

ReadMiddle(o) ==
    /\ o.type = kMiddleType /\ ~rd.resyncing
    /\ rd' = [rd EXCEPT !.lo = o.lo,
                !.scratch = IF rd.fragmented THEN @ \o o.data ELSE @]
    /\ dropped' = dropped + MissingStart(o.lo, Len(o.data))
    /\ UNCHANGED <<returned, phase>>

ReadLast(o) ==
    /\ o.type = kLastType /\ ~rd.resyncing
    /\ rd' = [rd EXCEPT !.lo = o.lo, !.fragmented = FALSE, !.scratch = <<>>,
                        !.last = IF rd.fragmented THEN rd.prospective ELSE @]
    /\ IF rd.fragmented THEN Return(rd.scratch \o o.data, rd.prospective)
                        ELSE UNCHANGED returned
    /\ dropped' = dropped + MissingStart(o.lo, Len(o.data))
    /\ UNCHANGED phase

\* After a seek the rest of the record it fell into is passed over.
ReadResyncing(o) ==
    /\ rd.resyncing /\ o.type \in {kMiddleType, kLastType}
    /\ rd' = [rd EXCEPT !.lo = o.lo, !.resyncing = o.type = kMiddleType]
    /\ UNCHANGED <<returned, dropped, phase>>

\* (mutant) A physical record that cannot be used is not reported.
ReadBadSilently(o) ==
    /\ o.type = kBadRecord
    /\ rd' = [rd EXCEPT !.lo = o.lo, !.resyncing = FALSE,
                        !.fragmented = FALSE, !.scratch = <<>>]
    /\ UNCHANGED <<returned, phase, dropped>>

\* (mutant) The fragments read so far are kept.
ReadBadKeeps(o) ==
    /\ o.type = kBadRecord
    /\ rd' = [rd EXCEPT !.lo = o.lo, !.resyncing = FALSE]
    /\ dropped' = dropped + o.drops
                  + (IF rd.fragmented
                     THEN ReportDrop(rd.hi, o.lo, Len(rd.scratch)) ELSE 0)
    /\ UNCHANGED <<returned, phase>>

ReadBad(o) ==
    /\ o.type = kBadRecord
    /\ rd' = [rd EXCEPT !.lo = o.lo, !.resyncing = FALSE,
                        !.fragmented = FALSE, !.scratch = <<>>]
    /\ dropped' = dropped + o.drops
                  + (IF rd.fragmented
                     THEN ReportDrop(rd.hi, o.lo, Len(rd.scratch)) ELSE 0)
    /\ UNCHANGED <<returned, phase>>

ReadEof(o) ==
    /\ o.type = kEof /\ phase' = "eof"
    /\ rd' = [rd EXCEPT !.lo = o.lo, !.scratch = <<>>]
    /\ UNCHANGED <<returned, dropped>>

ReadRecord ==
    /\ phase = "read" /\ (Buffered >= kHeaderSize \/ rd.eof)
    /\ \E o \in ReadPhysicalRecord :
          LET offset == o.lo - kHeaderSize - Len(o.data)
          IN  \/ ReadFull(o, offset) \/ ReadFirst(o, offset) \/ ReadMiddle(o)
              \/ ReadLast(o) \/ ReadResyncing(o) \/ ReadBad(o) \/ ReadEof(o)
    /\ UNCHANGED <<file, writerVars, damage>>

Stopped == phase = "eof" /\ UNCHANGED vars

Next ==
    \/ \E n \in Sizes : AddRecord(n)
    \/ \E trailer \in 0..(kHeaderSize - 1), bytes \in 0..kBlockSize, ok \in BOOLEAN :
          EmitPhysicalRecord(trailer, bytes, ok)
    \/ \E n \in 0..Len(file), initial \in InitialOffsets : Crash(n, initial)
    \/ \E p \in 1..Len(file) : Damage(p)
    \/ Refill
    \/ RefillFails
    \/ ReadRecord
    \/ Stopped

Spec == Init /\ [][Next]_vars /\ WF_vars(Refill) /\ WF_vars(ReadRecord)

-----------------------------------------------------------------------------
(* Properties.                                                             *)

Whole(id) == Payload(id, 0, size[id])

\* The bytes that n bytes of a record take up from the start of a block.
Extent[n \in Nat] ==
    LET avail == kBlockSize - kHeaderSize
    IN  IF n <= avail THEN kHeaderSize + n ELSE kBlockSize + Extent[n - avail]

\* Where a record of n bytes put at `at' ends in an intact file.
Reach(at, n) ==
    LET offset == at % kBlockSize
        room == kBlockSize - offset - kHeaderSize
        next == at + kBlockSize - offset
    IN  IF room < 0 THEN next + Extent[n]
        ELSE IF n <= room THEN at + kHeaderSize + n
        ELSE next + Extent[n - room]
End(id) == Reach(start[id], size[id])

\* Whatever was cut off, damaged or not written, ReadRecord returns only
\* records that were handed to AddRecord, each one whole and with the offset
\* it has in the file, none from before the initial offset, and never out of
\* order or twice.
ReturnsOnlyRecords ==
    \E ids \in [1..Len(returned) -> 1..Len(size)] :
       /\ \A i \in 1..Len(returned) :
             /\ returned[i].data = Whole(ids[i])
             /\ returned[i].offset = start[ids[i]]
             /\ returned[i].offset >= rd.initial
       /\ \A i, j \in 1..Len(returned) : i < j => ids[i] < ids[j]

Returned(id) == \E i \in 1..Len(returned) : returned[i].offset = start[id]

\* Damage stays where it is: of the records that start at or after the initial
\* offset the reader has at its end returned every one that is wholly in the
\* file and none of whose blocks holds a damaged byte, and none that is cut off.
DamageIsLocal ==
    phase = "eof" /\ failures = 0 =>
       \A id \in 1..Len(size) :
          /\ /\ start[id] >= rd.initial /\ End(id) <= Len(file)
             /\ \A p \in 1..Len(file) : file[p] = Garbage =>
                   \/ (p - 1) \div kBlockSize < start[id] \div kBlockSize
                   \/ (p - 1) \div kBlockSize > (End(id) - 1) \div kBlockSize
             => Returned(id)
          /\ Returned(id) => End(id) <= Len(file)

\* A record that is lost to damaged payload bytes is not lost silently.
LossReported ==
    phase = "eof" /\ failures = 0 /\ dropped = 0
    /\ (\A i \in 1..Len(damage) : damage[i] = "P") =>
       \A id \in 1..Len(size) :
          start[id] >= rd.initial /\ End(id) <= Len(file) => Returned(id)

\* A file that was only cut off raises no alarm: "a run of kMiddleType and
\* kLastType records can be silently skipped" after a seek, and an unfinished
\* record at the end is no corruption.
NoFalseAlarm == damage = <<>> /\ failures = 0 => dropped = 0

\* Reporter::Corruption is called when something is lost, and only then.
AlarmsExact == LossReported /\ NoFalseAlarm

\* The reader comes to an end on any file.
ReaderEnds == phase = "read" ~> phase = "eof"
=============================================================================
