-------------------------- MODULE WriteQueueProofs --------------------------
(***************************************************************************)
(* Theorems about WriteQueue, for any number of calls, any bounds and any  *)
(* failures of the environment.                                            *)
(***************************************************************************)
EXTENDS WriteQueue, SequenceTheorems, TLAPS

-----------------------------------------------------------------------------
(***************************************************************************)
(* Facts about sequences.                                                  *)
(***************************************************************************)

\* No element occurs twice.
Distinct(s) == \A i, j \in 1..Len(s) : s[i] = s[j] => i = j

\* What Append adds to a sequence.
LEMMA AppendFacts ==
  ASSUME NEW S, NEW s \in Seq(S), NEW x \in S, x \notin ToSet(s), Distinct(s)
  PROVE  /\ Append(s, x) \in Seq(S)
         /\ Len(Append(s, x)) = Len(s) + 1
         /\ \A i \in 1..Len(s) : Append(s, x)[i] = s[i]
         /\ Append(s, x)[Len(s) + 1] = x
         /\ ToSet(Append(s, x)) = ToSet(s) \cup {x}
         /\ Distinct(Append(s, x))
  <1> DEFINE a == Append(s, x)
  <1>1. /\ a \in Seq(S) /\ Len(a) = Len(s) + 1 /\ Len(s) \in Nat
        /\ \A i \in 1..Len(s) : a[i] = s[i]
        /\ a[Len(s) + 1] = x
    OBVIOUS
  <1> HIDE DEF a
  <1>2. ToSet(a) = ToSet(s) \cup {x}
    BY <1>1 DEF ToSet
  <1>3. \A i \in 1..Len(s) : s[i] # x
    BY DEF ToSet
  <1>4. Distinct(a)
    BY <1>1, <1>3 DEF Distinct
  <1> QED
    BY <1>1, <1>2, <1>4 DEF a

\* What is left of a sequence without its first n elements.
LEMMA DropFacts ==
  ASSUME NEW S, NEW s \in Seq(S), NEW n \in 1..Len(s)
  PROVE  /\ SubSeq(s, n + 1, Len(s)) \in Seq(S)
         /\ Len(SubSeq(s, n + 1, Len(s))) = Len(s) - n
         /\ \A i \in 1..(Len(s) - n) :
              n + i \in 1..Len(s) /\ SubSeq(s, n + 1, Len(s))[i] = s[n + i]
  <1>1. PICK m \in Int : m = n + 1
    OBVIOUS
  <1>2. PICK k \in Int : k = Len(s)
    OBVIOUS
  <1>3. k \in Nat /\ n \in 1..k /\ \A i \in m..k : s[i] \in S
    BY <1>1, <1>2
  <1>4. PICK v : v = SubSeq(s, m, k)
    OBVIOUS
  <1>5. /\ v \in Seq(S)
        /\ Len(v) = IF m <= k THEN k - m + 1 ELSE 0
        /\ \A i \in 1..(k - m + 1) : v[i] = s[m + i - 1]
    BY <1>3, <1>4, SubSeqProperties
  <1>6. Len(v) = k - n
    BY <1>1, <1>3, <1>5
  <1>7. ASSUME NEW i \in 1..(k - n) PROVE n + i \in 1..k /\ v[i] = s[n + i]
    <2>1. i \in 1..(k - m + 1) /\ m + i - 1 = n + i /\ n + i \in 1..k
      BY <1>1, <1>3
    <2> QED
      BY <1>5, <2>1
  <1> QED
    BY <1>1, <1>2, <1>4, <1>5, <1>6, <1>7

-----------------------------------------------------------------------------
(***************************************************************************)
(* The inductive invariant.  A call goes through the states of Leading     *)
(* once it is in front of the queue, and through those of Working once it  *)
(* has a group.                                                            *)
(***************************************************************************)

Building == {"gather", "log", "sync", "insert"}
Working == Building \cup {"finish"}
Leading == Working \cup {"lead", "room", "room_wait"}
States == Leading \cup {"idle", "sleep", "awake", "flush", "flush_wait", "returned"}
Failures == {"error", "sync error", "background error"}
Statuses == Failures \cup {"ok"}

Ops == Clients \X {1, 2}
Entries == Nat \X Ops
Records == Nat \X Seq(Ops)
LogFiles == [sure: Seq(Records), unsure: Seq(Records)]

TypeOK ==
  /\ pc \in [Clients -> States]
  /\ writers \in Seq(Clients)
  /\ result \in [Clients -> Statuses \cup {None}]
  /\ group \in [updates: Seq(Ops), last: Clients \cup {None}, seq: Nat,
                status: Statuses, inserted: Nat]
  /\ log \in LogFiles
  /\ old_log \in LogFiles
  /\ mem \in SUBSET Entries
  /\ imm \in SUBSET (SUBSET Entries)
  /\ tables \in SUBSET Entries
  /\ last_sequence \in Nat
  /\ bg_error \in Statuses

\* A call waits in the queue once; who leads is in front of it; who has a
\* result has left it.
QueueSound ==
  /\ Distinct(writers)
  /\ \A c \in Clients :
       /\ pc[c] \in Leading => Len(writers) > 0 /\ writers[1] = c
       /\ pc[c] = "awake" /\ result[c] = None => c \in ToSet(writers)
       /\ c \in ToSet(writers) =>
            pc[c] \in Leading \cup {"sleep", "awake"} /\ result[c] = None
       /\ pc[c] = "idle" => result[c] = None
       /\ pc[c] \in {"flush", "flush_wait"} => c \in Nulls

\* The batch of d stands in the group, in one piece.
Holds(d) ==
  \E o \in 0..Len(group.updates) : \A i \in 1..Len(Batch(d)) :
     o + i <= Len(group.updates) /\ group.updates[o + i] = Batch(d)[i]

\* The group that c has gathered is the first n calls of the queue.
GroupIs(c, n) ==
  /\ writers[n] = group.last
  /\ group.updates = <<>> \/ group.seq = last_sequence + 1
  /\ \A k \in 1..Len(group.updates) : \E i \in 1..n :
        group.updates[k] \in ToSet(Batch(writers[i]))
  /\ pc[c] \in Building =>
        /\ group.status = "ok" /\ group.seq = last_sequence + 1
        /\ \A i \in 1..n : Holds(writers[i])
        /\ \A i \in 1..n : writers[i] \in Syncs => c \in Syncs
  /\ pc[c] = "insert" => group.inserted <= Len(group.updates)
  /\ pc[c] # "insert" => group.inserted = 0
  /\ pc[c] = "finish" /\ group.status = "ok" => c \in Nulls /\ n = 1

GroupSound ==
  /\ \A c \in Clients : pc[c] \in Working => \E n \in 1..Len(writers) : GroupIs(c, n)
  /\ (\A c \in Clients : pc[c] \notin Working) => group = NoGroup

\* The numbers the group was given.
GroupEntry(i) == <<group.seq + i - 1, group.updates[i]>>
GroupEntries == {GroupEntry(i) : i \in 1..Len(group.updates)}

\* All that has been logged or applied.
All == Applied \cup Logged(log) \cup Logged(old_log)

\* A number above last_sequence belongs to the group; a memtable holds what
\* has been inserted of it and no more.
NumbersGiven == \A e \in All : e[1] <= last_sequence \/ e \in GroupEntries
NumbersApplied ==
  /\ \A e \in Applied :
        e[1] <= last_sequence \/ \E i \in 1..group.inserted : e = GroupEntry(i)
  /\ \A i \in 1..group.inserted : GroupEntry(i) \in Applied

\* What is about to be inserted is logged, and synced if the leader wants it.
LogFirst ==
  \A c \in Clients :
     /\ pc[c] \in {"sync", "insert"} => GroupEntries \subseteq Logged(log)
     /\ pc[c] = "insert" /\ c \in Syncs => GroupEntries \subseteq synced

\* What is in memory is logged.
MemoryLogged == mem \subseteq Logged(log) /\ UNION imm \subseteq Logged(old_log)

\* The records from the first failed append on have numbers from its own on,
\* which is n + 1 at most.
Ordered(l, n) ==
  l.unsure # <<>> =>
    /\ l.unsure[1][1] <= n + 1
    /\ \A e \in Recorded(l.unsure) : l.unsure[1][1] <= e[1]

\* What was acknowledged to a sync write is synced or flushed, and applied.
SyncedApplied ==
  \A c \in Syncs : result[c] = "ok" => \A i \in 1..Len(Batch(c)) :
     \E e \in Applied : e[2] = Batch(c)[i] /\ (e \in synced \/ e \in tables)

\* After an error of Sync nobody builds a group or ends one well.
Stopped ==
  (bg_error = "sync error" \/ \E d \in Clients : result[d] = "sync error") =>
     /\ bg_error # "ok"
     /\ \A c \in Clients : /\ pc[c] \notin Building
                           /\ pc[c] = "finish" => group.status # "ok"

Core == TypeOK /\ QueueSound /\ GroupSound
Numbers == NumbersGiven /\ SequencesUnique
Views == NumbersApplied /\ SyncedApplied /\ AcknowledgedVisible /\ BatchesAtomic
Logs == LogFirst /\ MemoryLogged /\ Ordered(log, last_sequence) /\ Ordered(old_log, last_sequence)
Rest == Numbers /\ Views /\ Logs

Inv == Core /\ Rest /\ Stopped

-----------------------------------------------------------------------------
(***************************************************************************)
(* Batches and logs.                                                       *)
(***************************************************************************)

\* A batch names its call in every operation; only the NULL batch is empty.
LEMMA BatchFacts ==
  ASSUME NEW c \in Clients
  PROVE  /\ Batch(c) \in Seq(Ops)
         /\ Len(Batch(c)) \in Nat
         /\ c \notin Nulls => Len(Batch(c)) >= 1
         /\ c \in Nulls => Batch(c) = <<>>
         /\ \A i \in 1..Len(Batch(c)) : Batch(c)[i] \in Ops /\ Batch(c)[i][1] = c
         /\ ToSet(Batch(c)) = {Batch(c)[i] : i \in 1..Len(Batch(c))}
  <1>1. CASE c \in Nulls
    BY <1>1 DEF Batch, ToSet, Ops
  <1>2. CASE c \notin Nulls /\ c \in Doubles
    <2>1. Batch(c) = <<<<c, 1>>, <<c, 2>>>>
      BY <1>2 DEF Batch
    <2>2. Len(Batch(c)) = 2 /\ Batch(c)[1] = <<c, 1>> /\ Batch(c)[2] = <<c, 2>>
      BY <2>1
    <2>3. Batch(c) \in Seq(Ops)
      BY <2>1 DEF Ops
    <2>4. ToSet(Batch(c)) = {Batch(c)[i] : i \in 1..Len(Batch(c))}
      BY <2>3 DEF ToSet
    <2>5. \A i \in 1..Len(Batch(c)) : Batch(c)[i] \in Ops /\ Batch(c)[i][1] = c
      BY <2>2 DEF Ops
    <2>6. Len(Batch(c)) \in Nat /\ Len(Batch(c)) >= 1
      BY <2>2
    <2> QED
      BY <1>2, <2>3, <2>4, <2>5, <2>6, Zenon
  <1>3. CASE c \notin Nulls /\ c \notin Doubles
    <2>1. Batch(c) = <<<<c, 1>>>>
      BY <1>3 DEF Batch
    <2>2. Len(Batch(c)) = 1 /\ Batch(c)[1] = <<c, 1>>
      BY <2>1
    <2>3. Batch(c) \in Seq(Ops)
      BY <2>1 DEF Ops
    <2>4. ToSet(Batch(c)) = {Batch(c)[i] : i \in 1..Len(Batch(c))}
      BY <2>3 DEF ToSet
    <2>5. \A i \in 1..Len(Batch(c)) : Batch(c)[i] \in Ops /\ Batch(c)[i][1] = c
      BY <2>2 DEF Ops
    <2>6. Len(Batch(c)) \in Nat /\ Len(Batch(c)) >= 1
      BY <2>2
    <2> QED
      BY <1>3, <2>3, <2>4, <2>5, <2>6, Zenon
  <1> QED
    BY <1>1, <1>2, <1>3

\* The entries of one record.
OfRecord(r) == {<<r[1] + i - 1, r[2][i]>> : i \in 1..Len(r[2])}

LEMMA RecordedIsUnion ==
  ASSUME NEW l \in Seq(Records), NEW e
  PROVE  e \in Recorded(l) <=> \E k \in 1..Len(l) : e \in OfRecord(l[k])
  BY SMTT(30) DEF Recorded, OfRecord, ToSet

LEMMA RecordedAppend ==
  ASSUME NEW l \in Seq(Records), NEW r \in Records
  PROVE  /\ Append(l, r) \in Seq(Records)
         /\ Recorded(Append(l, r)) = Recorded(l) \cup OfRecord(r)
  <1> DEFINE a == Append(l, r)
  <1>1. /\ a \in Seq(Records) /\ Len(l) \in Nat /\ Len(a) = Len(l) + 1
        /\ \A k \in 1..Len(l) : a[k] = l[k]
        /\ a[Len(l) + 1] = r
    OBVIOUS
  <1> HIDE DEF a
  <1>2. ASSUME NEW e PROVE e \in Recorded(a) <=> e \in Recorded(l) \/ e \in OfRecord(r)
    <2>1. e \in Recorded(a) <=> \E k \in 1..(Len(l) + 1) : e \in OfRecord(a[k])
      BY <1>1, RecordedIsUnion
    <2>2. e \in Recorded(l) <=> \E k \in 1..Len(l) : e \in OfRecord(l[k])
      BY RecordedIsUnion
    <2> QED
      BY <1>1, <2>1, <2>2
  <1> QED
    BY <1>1, <1>2 DEF a

LEMMA RecordedNothing == Recorded(<<>>) = {}
  BY DEF Recorded, ToSet

LEMMA EmptyLogFacts == EmptyLog \in LogFiles /\ Logged(EmptyLog) = {} /\ EmptyLog.unsure = <<>>
  BY RecordedNothing DEF EmptyLog, LogFiles, Logged

\* What a record adds to a log.
LEMMA LogAppended ==
  ASSUME NEW l \in LogFiles, NEW r \in Records, NEW w \in BOOLEAN
  PROVE  /\ Appended(l, r, w) \in LogFiles
         /\ Logged(Appended(l, r, w)) = Logged(l) \cup OfRecord(r)
         /\ \/ Appended(l, r, w).unsure = l.unsure
            \/ /\ Appended(l, r, w).unsure[1] = IF l.unsure = <<>> THEN r ELSE l.unsure[1]
               /\ Recorded(Appended(l, r, w).unsure) = Recorded(l.unsure) \cup OfRecord(r)
  <1>1. l.sure \in Seq(Records) /\ l.unsure \in Seq(Records)
    BY DEF LogFiles
  <1>2. /\ Append(l.sure, r) \in Seq(Records) /\ Append(l.unsure, r) \in Seq(Records)
        /\ Recorded(Append(l.sure, r)) = Recorded(l.sure) \cup OfRecord(r)
        /\ Recorded(Append(l.unsure, r)) = Recorded(l.unsure) \cup OfRecord(r)
    BY <1>1, RecordedAppend
  <1>3. Append(l.unsure, r)[1] = IF l.unsure = <<>> THEN r ELSE l.unsure[1]
    BY <1>1
  <1>4. CASE w /\ l.unsure = <<>>
    <2>1. Appended(l, r, w) = [sure |-> Append(l.sure, r), unsure |-> l.unsure]
      BY <1>4 DEF Appended, LogFiles
    <2> QED
      BY <1>1, <1>2, <2>1 DEF Logged, LogFiles
  <1>5. CASE ~(w /\ l.unsure = <<>>)
    <2>1. Appended(l, r, w) = [sure |-> l.sure, unsure |-> Append(l.unsure, r)]
      BY <1>5 DEF Appended, LogFiles
    <2> QED
      BY <1>1, <1>2, <1>3, <2>1 DEF Logged, LogFiles
  <1> QED
    BY <1>4, <1>5

\* In an ordered log, what was appended is kept.
LEMMA OrderedKeeps ==
  ASSUME NEW l \in LogFiles, NEW n, Ordered(l, n), NEW e \in Logged(l), e[1] \in Nat
  PROVE  Kept(e, l)
  <1> SUFFICES ASSUME Unharmed(e, l), e \in Recorded(l.unsure) PROVE FALSE
    BY DEF Kept, Logged
  <1>1. l.unsure # <<>>
    BY RecordedNothing
  <1>2. l.unsure[1] \in Records
    BY <1>1 DEF LogFiles
  <1>3. l.unsure[1][1] \in Nat
    BY <1>2 DEF Records
  <1> QED
    BY <1>1, <1>3 DEF Unharmed, Ordered

-----------------------------------------------------------------------------
(***************************************************************************)
(* The queue.                                                              *)
(***************************************************************************)

\* "&w is currently responsible for logging and protects against concurrent
\* loggers": one call leads at a time.
LEMMA OneLeader ==
  ASSUME QueueSound, NEW c \in Clients, NEW d \in Clients,
         pc[c] \in Leading, pc[d] \in Leading
  PROVE  c = d
  BY DEF QueueSound

\* last_writer is where the group ends.
LEMMA IndexFacts ==
  ASSUME TypeOK, QueueSound, NEW n \in 1..Len(writers), writers[n] = group.last
  PROVE  LastIndex = n
  <1>1. \A i \in 1..Len(writers) : writers[i] = group.last => i = n
    BY DEF QueueSound, Distinct
  <1> QED
    BY <1>1 DEF LastIndex

\* The leader goes on without leaving the queue.
LEMMA LeaderStep ==
  ASSUME TypeOK, QueueSound, NEW c \in Clients, pc[c] \in Leading,
         NEW x \in Leading, pc' = [pc EXCEPT ![c] = x],
         UNCHANGED <<writers, result>>
  PROVE  QueueSound'
  <1>1. pc' \in [Clients -> States] /\ pc'[c] = x
        /\ \A d \in Clients : d # c => pc'[d] = pc[d]
    BY DEF TypeOK, States
  <1>2. x \notin {"awake", "idle", "flush", "flush_wait"}
    BY DEF Leading, Working, Building
  <1> QED
    BY <1>1, <1>2 DEF QueueSound

LEMMA EnqueueQueue ==
  ASSUME TypeOK, QueueSound, NEW c \in Clients, Enqueue(c)
  PROVE  QueueSound'
  <1>1. PICK w \in Seq(Clients) : w = writers
    BY DEF TypeOK
  <1>2. "idle" \notin Leading \cup {"sleep", "awake"}
    BY DEF Leading, Working, Building
  <1>3. c \notin ToSet(w)
    BY <1>1, <1>2 DEF QueueSound, Enqueue
  <1>4. PICK v : v = Append(w, c)
    OBVIOUS
  <1>5. /\ v \in Seq(Clients) /\ Len(w) \in Nat /\ Len(v) = Len(w) + 1
        /\ \A i \in 1..Len(w) : v[i] = w[i]
        /\ v[Len(w) + 1] = c
        /\ ToSet(v) = ToSet(w) \cup {c}
        /\ Distinct(v)
    BY <1>1, <1>3, <1>4, AppendFacts DEF QueueSound
  <1>6. writers' = v /\ result' = result
    BY <1>1, <1>4 DEF Enqueue
  <1>7. /\ pc'[c] = IF w = <<>> THEN "lead" ELSE "sleep"
        /\ \A d \in Clients : d # c => pc'[d] = pc[d]
    BY <1>1 DEF Enqueue, TypeOK
  <1>8. w = <<>> <=> Len(w) = 0
    BY <1>5
  <1>9. ASSUME NEW d \in Clients, d # c
        PROVE  /\ pc'[d] \in Leading => Len(v) > 0 /\ v[1] = d
               /\ pc'[d] = "awake" /\ result[d] = None => d \in ToSet(v)
               /\ d \in ToSet(v) =>
                    pc'[d] \in Leading \cup {"sleep", "awake"} /\ result[d] = None
               /\ pc'[d] = "idle" => result[d] = None
               /\ pc'[d] \in {"flush", "flush_wait"} => d \in Nulls
    BY <1>1, <1>5, <1>7, <1>9 DEF QueueSound
  <1>10. /\ pc'[c] \in Leading => Len(v) > 0 /\ v[1] = c
         /\ c \in ToSet(v)
         /\ pc'[c] \in Leading \cup {"sleep"} /\ result[c] = None
         /\ pc'[c] \notin {"idle", "flush", "flush_wait"}
    BY <1>5, <1>7, <1>8 DEF Leading, Working, Building, QueueSound, Enqueue
  <1> QED
    BY <1>5, <1>6, <1>9, <1>10 DEF QueueSound

LEMMA AwakeQueue ==
  ASSUME TypeOK, QueueSound, NEW c \in Clients, Awake(c)
  PROVE  QueueSound'
  <1>1. /\ UNCHANGED <<writers, result>>
        /\ \A d \in Clients : d # c => pc'[d] = pc[d]
    BY DEF Awake, TypeOK
  <1>2. CASE result[c] # None
    <2>1. /\ pc'[c] \in {"flush", "returned"}
          /\ pc'[c] = "flush" => c \in Nulls
      BY <1>2 DEF Awake, TypeOK
    <2>2. c \notin ToSet(writers)
      BY <1>2 DEF QueueSound
    <2>3. pc'[c] \notin Leading \cup {"awake", "idle"}
      BY <2>1 DEF Leading, Working, Building
    <2> QED
      BY <1>1, <2>1, <2>2, <2>3 DEF QueueSound
  <1>3. CASE result[c] = None
    <2>1. c \in ToSet(writers)
      BY <1>3 DEF QueueSound, Awake
    <2>2. Len(writers) > 0 /\ Head(writers) = writers[1]
      BY <2>1 DEF TypeOK, ToSet
    <2>3. pc'[c] = IF writers[1] = c THEN "lead" ELSE "sleep"
      BY <1>3, <2>2 DEF Awake, TypeOK
    <2>4. /\ pc'[c] \in Leading => writers[1] = c
          /\ pc'[c] \in Leading \cup {"sleep"}
          /\ pc'[c] \notin {"awake", "idle", "flush", "flush_wait"}
      BY <2>3 DEF Leading, Working, Building
    <2> QED
      BY <1>1, <1>3, <2>1, <2>2, <2>4 DEF QueueSound
  <1> QED
    BY <1>2, <1>3

LEMMA FlushQueue ==
  ASSUME TypeOK, QueueSound, NEW c \in Clients, FlushMemTable(c)
  PROVE  QueueSound'
  <1>1. /\ UNCHANGED writers
        /\ \A d \in Clients : d # c => pc'[d] = pc[d] /\ result'[d] = result[d]
        /\ pc'[c] \in {"flush_wait", "returned"}
    BY DEF FlushMemTable, TypeOK
  <1>2. c \in Nulls /\ c \notin ToSet(writers)
    BY DEF FlushMemTable, QueueSound, Leading, Working, Building
  <1>3. pc'[c] \notin Leading \cup {"awake", "idle"}
    BY <1>1 DEF Leading, Working, Building
  <1> QED
    BY <1>1, <1>2, <1>3 DEF QueueSound

\* What bg_cv_.SignalAll does to a call.
LEMMA SignalFacts ==
  ASSUME TypeOK, NEW c \in Clients
  PROVE  /\ SignalAll(pc)[c] \in States
         /\ pc[c] \in Leading <=> SignalAll(pc)[c] \in Leading
         /\ pc[c] \in Working \/ SignalAll(pc)[c] \in Working => SignalAll(pc)[c] = pc[c]
         /\ pc[c] \notin BgWaiting => SignalAll(pc)[c] = pc[c]
         /\ pc[c] \in {"flush", "flush_wait"} <=> SignalAll(pc)[c] \in {"flush", "flush_wait"}
         /\ \A x \in {"awake", "idle", "sleep", "returned"} : pc[c] = x <=> SignalAll(pc)[c] = x
  <1>1. pc[c] \in States
    BY DEF TypeOK
  <1>2. SignalAll(pc)[c] = IF pc[c] = "room_wait" THEN "room"
                          ELSE IF pc[c] = "flush_wait" THEN "flush" ELSE pc[c]
    BY DEF SignalAll
  <1> QED
    BY <1>1, <1>2 DEF States, Leading, Working, Building, BgWaiting

LEMMA BackgroundQueue ==
  ASSUME TypeOK, QueueSound, BackgroundCall
  PROVE  QueueSound'
  <1>1. UNCHANGED <<writers, result>> /\ pc' = SignalAll(pc)
    BY DEF BackgroundCall
  <1>2. ASSUME NEW c \in Clients
        PROVE  /\ pc'[c] \in Leading <=> pc[c] \in Leading
               /\ pc'[c] \in {"flush", "flush_wait"} <=> pc[c] \in {"flush", "flush_wait"}
               /\ \A x \in {"awake", "idle", "sleep"} : pc'[c] = x <=> pc[c] = x
    BY <1>1, SignalFacts
  <1> QED
    BY <1>1, <1>2 DEF QueueSound

\* d is one of the first n calls of the queue.
Member(d, n) == \E i \in 1..n : writers[i] = d

\* The end of a group, read off the action: the first n calls leave with the
\* leader's status, the leader on its way out, the others and the new head awake.
LEMMA FinishFacts ==
  ASSUME TypeOK, QueueSound, GroupSound, NEW c \in Clients, Finish(c)
  PROVE  \E n \in 1..Len(writers) :
           /\ GroupIs(c, n)
           /\ pc[c] \in {"finish", "insert"}
           /\ pc[c] = "insert" => group.inserted = Len(group.updates)
           /\ writers' = SubSeq(writers, n + 1, Len(writers))
           /\ result' \in [Clients -> Statuses \cup {None}]
           /\ \A d \in Clients :
                result'[d] = IF Member(d, n) THEN group.status ELSE result[d]
           /\ pc' \in [Clients -> States]
           /\ pc'[c] \in {"flush", "returned"}
           /\ pc'[c] = "flush" => c \in Nulls
           /\ \A d \in Clients \ {c} :
                IF Member(d, n) \/ (Len(writers) > n /\ writers[n + 1] = d)
                THEN pc'[d] = "awake"
                ELSE pc'[d] = pc[d] \/ (pc[d] = "flush_wait" /\ pc'[d] = "flush")
           /\ \A d \in Clients : pc'[d] \notin Leading
  <1>1. /\ pc[c] \in {"finish", "insert"} /\ pc[c] \in Working /\ pc[c] \in Leading
        /\ pc[c] = "insert" => group.inserted = Len(group.updates)
    BY DEF Finish, Inserted, Working, Building, Leading
  <1>2. PICK n \in 1..Len(writers) : GroupIs(c, n)
    BY <1>1 DEF GroupSound
  <1>3. LastIndex = n
    BY <1>2, IndexFacts DEF GroupIs
  <1>4. PICK p : p = IF NewError # bg_error THEN SignalAll(pc) ELSE pc
    OBVIOUS
  <1>5. /\ result' = [d \in Clients |->
                        IF \E i \in 1..n : writers[i] = d THEN group.status ELSE result[d]]
        /\ writers' = SubSeq(writers, n + 1, Len(writers))
        /\ pc' = [Woken(c, n, p) EXCEPT
                     ![c] = IF c \in Nulls /\ group.status = "ok" THEN "flush" ELSE "returned"]
    BY <1>3, <1>4 DEF Finish
  <1>6. /\ result' \in [Clients -> Statuses \cup {None}]
        /\ \A d \in Clients :
             result'[d] = IF Member(d, n) THEN group.status ELSE result[d]
    BY <1>5 DEF TypeOK, Member
  <1>7. ASSUME NEW d \in Clients
        PROVE  /\ p[d] \in States
               /\ pc[d] \in Leading <=> p[d] \in Leading
               /\ p[d] = pc[d] \/ pc[d] \in Leading \/ (pc[d] = "flush_wait" /\ p[d] = "flush")
    <2>1. p[d] = SignalAll(pc)[d] \/ p[d] = pc[d]
      BY <1>4
    <2>2. pc[d] \in States
      BY DEF TypeOK
    <2>3. pc[d] = "flush_wait" => SignalAll(pc)[d] = "flush"
      BY DEF SignalAll
    <2>4. pc[d] \in BgWaiting => pc[d] = "flush_wait" \/ pc[d] \in Leading
      BY DEF BgWaiting, Leading
    <2> QED
      BY <2>1, <2>2, <2>3, <2>4, SignalFacts
  <1>8. \A d \in Clients \ {c} : pc[d] \notin Leading
    BY <1>1, OneLeader
  <1>9. /\ pc'[c] = IF c \in Nulls /\ group.status = "ok" THEN "flush" ELSE "returned"
        /\ \A d \in Clients \ {c} :
             pc'[d] = IF Member(d, n) \/ (Len(writers) > n /\ writers[n + 1] = d)
                      THEN "awake" ELSE p[d]
        /\ pc' = [d \in Clients |-> pc'[d]]
    BY <1>5 DEF Woken, Member
  <1>10. /\ pc'[c] \in {"flush", "returned"} /\ (pc'[c] = "flush" => c \in Nulls)
         /\ pc'[c] \in States /\ pc'[c] \notin Leading
    BY <1>9 DEF States, Leading, Working, Building
  <1>11. ASSUME NEW d \in Clients \ {c}
         PROVE  /\ pc'[d] \in States /\ pc'[d] \notin Leading
                /\ IF Member(d, n) \/ (Len(writers) > n /\ writers[n + 1] = d)
                   THEN pc'[d] = "awake"
                   ELSE pc'[d] = pc[d] \/ (pc[d] = "flush_wait" /\ pc'[d] = "flush")
    <2>1. "awake" \in States /\ "awake" \notin Leading
      BY DEF States, Leading, Working, Building
    <2> QED
      BY <1>7, <1>8, <1>9, <2>1
  <1>12. pc' \in [Clients -> States]
    BY <1>9, <1>10, <1>11
  <1> QED
    BY <1>1, <1>2, <1>5, <1>6, <1>10, <1>11, <1>12

LEMMA FinishQueue ==
  ASSUME TypeOK, QueueSound, GroupSound, NEW c \in Clients, Finish(c)
  PROVE  QueueSound' /\ writers' \in Seq(Clients)
  <1>1. PICK n \in 1..Len(writers) :
           /\ GroupIs(c, n)
           /\ pc[c] \in {"finish", "insert"}
           /\ writers' = SubSeq(writers, n + 1, Len(writers))
           /\ \A d \in Clients :
                result'[d] = IF Member(d, n) THEN group.status ELSE result[d]
           /\ pc'[c] \in {"flush", "returned"}
           /\ pc'[c] = "flush" => c \in Nulls
           /\ \A d \in Clients \ {c} :
                IF Member(d, n) \/ (Len(writers) > n /\ writers[n + 1] = d)
                THEN pc'[d] = "awake"
                ELSE pc'[d] = pc[d] \/ (pc[d] = "flush_wait" /\ pc'[d] = "flush")
           /\ \A d \in Clients : pc'[d] \notin Leading
    BY FinishFacts
  <1>2. PICK w \in Seq(Clients) : w = writers
    BY DEF TypeOK
  <1>3. PICK v : v = SubSeq(w, n + 1, Len(w))
    OBVIOUS
  <1>4. Len(w) \in Nat /\ n \in 1..Len(w)
    BY <1>2
  <1>5. /\ v \in Seq(Clients)
        /\ Len(v) = Len(w) - n
        /\ \A i \in 1..(Len(w) - n) : n + i \in 1..Len(w) /\ v[i] = w[n + i]
    BY <1>3, <1>4, DropFacts
  <1>6. \A i \in 1..Len(v) : n + i \in 1..Len(w) /\ v[i] = w[n + i]
    BY <1>5
  <1>7. Distinct(w)
    BY <1>2 DEF QueueSound
  <1>8. Distinct(v)
    <2> SUFFICES ASSUME NEW i \in 1..Len(v), NEW j \in 1..Len(v), v[i] = v[j]
                 PROVE  i = j
      BY DEF Distinct
    <2>1. n + i \in 1..Len(w) /\ n + j \in 1..Len(w) /\ w[n + i] = w[n + j]
      BY <1>6
    <2>2. n + i = n + j
      BY <1>7, <2>1 DEF Distinct
    <2> QED
      BY <1>4, <1>5, <2>2
  <1>9. ASSUME NEW d \in ToSet(v)
        PROVE  /\ d \in ToSet(w) /\ ~Member(d, n) /\ d # c /\ d \in Clients
    <2>1. PICK i \in 1..Len(v) : v[i] = d
      BY <1>5 DEF ToSet
    <2>2. n + i \in 1..Len(w) /\ w[n + i] = d /\ d \in Clients
      BY <1>6, <2>1
    <2>3. ~Member(d, n)
      BY <1>2, <1>4, <1>7, <2>1, <2>2 DEF Member, Distinct
    <2>4. w[1] = c
      BY <1>1, <1>2 DEF QueueSound, Leading, Working, Building
    <2>5. d # c
      BY <1>2, <1>4, <2>3, <2>4 DEF Member
    <2> QED
      BY <1>2, <2>2, <2>3, <2>5 DEF ToSet
  <1>10. writers' = v
    BY <1>1, <1>2, <1>3
  <1>11. group.status # None /\ group.status \in Statuses
    BY DEF TypeOK, Statuses, Failures, None
  <1>12. ASSUME NEW d \in Clients
         PROVE  /\ pc'[d] = "awake" /\ result'[d] = None => d \in ToSet(v)
                /\ d \in ToSet(v) => pc'[d] \in {"sleep", "awake"} /\ result'[d] = None
                /\ pc'[d] = "idle" => result'[d] = None
                /\ pc'[d] \in {"flush", "flush_wait"} => d \in Nulls
    <2>1. CASE d = c
      BY <1>1, <1>9, <2>1
    <2>2. CASE d # c /\ Member(d, n)
      BY <1>1, <1>9, <1>11, <2>2
    <2>3. CASE d # c /\ ~Member(d, n) /\ Len(writers) > n /\ writers[n + 1] = d
      <3>1. 1 \in 1..Len(v) /\ v[1] = d
        BY <1>2, <1>4, <1>5, <1>6, <2>3
      <3>2. d \in ToSet(v)
        BY <1>5, <3>1 DEF ToSet
      <3>3. pc'[d] = "awake" /\ result'[d] = result[d]
        BY <1>1, <2>3
      <3>4. result[d] = None
        BY <1>2, <1>9, <3>2 DEF QueueSound
      <3> QED
        BY <3>2, <3>3, <3>4
    <2>4. CASE d # c /\ ~Member(d, n) /\ ~(Len(writers) > n /\ writers[n + 1] = d)
      <3>1. /\ pc'[d] = pc[d] \/ (pc[d] = "flush_wait" /\ pc'[d] = "flush")
            /\ result'[d] = result[d] /\ pc'[d] \notin Leading
        BY <1>1, <2>4
      <3>2. ASSUME d \in ToSet(w) PROVE d \in ToSet(v)
        <4>1. PICK i \in 1..Len(w) : w[i] = d
          BY <1>2, <3>2 DEF ToSet
        <4>2. ~(i <= n)
          BY <1>2, <1>4, <2>4, <4>1 DEF Member
        <4>3. i - n \in 1..Len(v) /\ v[i - n] = d
          BY <1>4, <1>5, <1>6, <4>1, <4>2
        <4> QED
          BY <1>5, <4>3 DEF ToSet
      <3>3. d \in ToSet(v) => pc[d] \in Leading \cup {"sleep", "awake"} /\ result[d] = None
        BY <1>2, <1>9 DEF QueueSound
      <3>4. "flush_wait" \notin Leading \cup {"sleep", "awake"}
        BY DEF Leading, Working, Building
      <3>5. d \in ToSet(v) => pc'[d] \in {"sleep", "awake"} /\ result'[d] = None
        BY <3>1, <3>3, <3>4
      <3>6. pc'[d] = "awake" /\ result'[d] = None => d \in ToSet(v)
        BY <1>2, <3>1, <3>2 DEF QueueSound
      <3>7. /\ pc'[d] = "idle" => result'[d] = None
            /\ pc'[d] \in {"flush", "flush_wait"} => d \in Nulls
        BY <3>1 DEF QueueSound
      <3> QED
        BY <3>5, <3>6, <3>7
    <2> QED
      BY <2>1, <2>2, <2>3, <2>4
  <1> QED
    BY <1>1, <1>5, <1>8, <1>10, <1>12 DEF QueueSound

-----------------------------------------------------------------------------
(***************************************************************************)
(* The group.                                                              *)
(***************************************************************************)

\* Steps that leave the group and the front of the queue alone.
LEMMA GroupKept ==
  ASSUME GroupSound, UNCHANGED <<group, last_sequence>>,
         Len(writers) \in Nat, Len(writers') \in Nat, Len(writers) <= Len(writers'),
         \A i \in 1..Len(writers) : writers'[i] = writers[i],
         \A d \in Clients : pc[d] \in Working \/ pc'[d] \in Working => pc'[d] = pc[d]
  PROVE  GroupSound'
  <1>1. ASSUME NEW c \in Clients, pc'[c] \in Working
        PROVE  \E n \in 1..Len(writers') : GroupIs(c, n)'
    <2>1. pc'[c] = pc[c]
      BY <1>1
    <2>2. PICK n \in 1..Len(writers) : GroupIs(c, n)
      BY <1>1, <2>1 DEF GroupSound
    <2>3. n \in 1..Len(writers') /\ \A i \in 1..n : i \in 1..Len(writers) /\ writers'[i] = writers[i]
      OBVIOUS
    <2>4. n \in 1..n
      OBVIOUS
    <2>5. ASSUME NEW i \in 1..n, Holds(writers[i]) PROVE Holds(writers[i])'
      BY <2>3, <2>5, ZenonT(60) DEF Holds
    <2>6. \A k \in 1..Len(group.updates) : \E i \in 1..n :
             group'.updates[k] \in ToSet(Batch(writers'[i]))
      BY <2>2, <2>3 DEF GroupIs
    <2>7. pc[c] \in Building => \A i \in 1..n : Holds(writers[i])'
      BY <2>2, <2>5 DEF GroupIs
    <2>8. pc[c] \in Building => \A i \in 1..n : writers'[i] \in Syncs => c \in Syncs
      BY <2>2, <2>3 DEF GroupIs
    <2>9. GroupIs(c, n)'
      BY <2>1, <2>2, <2>3, <2>4, <2>6, <2>7, <2>8 DEF GroupIs
    <2> QED
      BY <2>3, <2>9
  <1>2. (\A c \in Clients : pc'[c] \notin Working) => group' = NoGroup
    BY DEF GroupSound
  <1> QED
    BY <1>1, <1>2 DEF GroupSound, NoGroup, None

\* The leader gets a group of its own.
LEMMA GroupMade ==
  ASSUME TypeOK, QueueSound, NEW c \in Clients, pc[c] \in Leading,
         UNCHANGED <<writers, last_sequence>>,
         NEW x \in {"gather", "finish"}, pc' = [pc EXCEPT ![c] = x],
         group'.last = c, group'.inserted = 0,
         \/ x = "finish" /\ group'.updates = <<>> /\ (group'.status = "ok" => c \in Nulls)
         \/ x = "gather" /\ group'.updates = Batch(c) /\ group'.seq = last_sequence + 1
            /\ group'.status = "ok"
  PROVE  GroupSound'
  <1>1. Len(writers) \in Nat /\ Len(writers) > 0 /\ writers[1] = c /\ 1 \in 1..Len(writers)
    BY DEF QueueSound, TypeOK
  <1>2. pc'[c] = x /\ x \in Working
    BY DEF TypeOK, Working, Building
  <1>3. ASSUME NEW d \in Clients, pc'[d] \in Working PROVE d = c
    <2>1. d # c => pc'[d] = pc[d]
      BY DEF TypeOK
    <2>2. Working \subseteq Leading
      BY DEF Leading
    <2> QED
      BY <1>3, <2>1, <2>2, OneLeader
  <1>4. \A k \in 1..Len(group'.updates) : \E i \in 1..1 :
           group'.updates[k] \in ToSet(Batch(writers[i]))
    <2>1. CASE group'.updates = <<>>
      <3>1. Len(group'.updates) = 0
        BY <2>1
      <3> QED
        BY <3>1
    <2>2. CASE group'.updates = Batch(c)
      BY <1>1, <2>2, BatchFacts
    <2> QED
      BY <2>1, <2>2
  <1>5. CASE x = "finish"
    <2>1. x \notin Building /\ x # "insert"
      BY <1>5 DEF Building
    <2>2. group'.updates = <<>> /\ (group'.status = "ok" => c \in Nulls)
      BY <1>5
    <2>3. GroupIs(c, 1)'
      BY <1>1, <1>2, <1>4, <2>1, <2>2 DEF GroupIs
    <2> QED
      BY <1>1, <1>2, <1>3, <2>3 DEF GroupSound
  <1>6. CASE x = "gather"
    <2>1. x # "insert" /\ x # "finish"
      BY <1>6
    <2>2. group'.updates = Batch(c) /\ group'.seq = last_sequence + 1 /\ group'.status = "ok"
      BY <1>6
    <2>3. Holds(writers[1])'
      <3>1. Len(Batch(c)) \in Nat
        BY BatchFacts
      <3>2. \A i \in 1..Len(Batch(c)) : 0 + i <= Len(Batch(c)) /\ Batch(c)[0 + i] = Batch(c)[i]
        BY <3>1
      <3>3. 0 \in 0..Len(Batch(c))
        BY <3>1
      <3> QED
        BY <1>1, <2>2, <3>2, <3>3 DEF Holds
    <2>4. \A i \in 1..1 : i = 1
      OBVIOUS
    <2>5. GroupIs(c, 1)'
      BY <1>1, <1>2, <1>4, <2>1, <2>2, <2>3, <2>4 DEF GroupIs
    <2> QED
      BY <1>1, <1>2, <1>3, <2>5 DEF GroupSound
  <1> QED
    BY <1>5, <1>6

\* The leader works on the group it has.
LEMMA GroupWorked ==
  ASSUME TypeOK, QueueSound, GroupSound, NEW c \in Clients, pc[c] \in Building,
         UNCHANGED <<writers, last_sequence>>,
         NEW x \in Working, pc' = [pc EXCEPT ![c] = x],
         NEW s \in Statuses, NEW k \in Nat,
         group' = [group EXCEPT !.status = s, !.inserted = k],
         x \in Building <=> s = "ok",
         x = "insert" => k <= Len(group.updates),
         x # "insert" => k = 0
  PROVE  GroupSound'
  <1>1. pc[c] \in Working /\ pc[c] \in Leading
    BY DEF Leading, Working
  <1>2. PICK n \in 1..Len(writers) : GroupIs(c, n)
    BY <1>1 DEF GroupSound
  <1>3. pc'[c] = x
    BY DEF TypeOK
  <1>4. ASSUME NEW d \in Clients, pc'[d] \in Working PROVE d = c
    <2>1. d # c => pc'[d] = pc[d]
      BY DEF TypeOK
    <2>2. Working \subseteq Leading
      BY DEF Leading
    <2> QED
      BY <1>1, <1>4, <2>1, <2>2, OneLeader
  <1>5. /\ group'.updates = group.updates /\ group'.last = group.last
        /\ group'.seq = group.seq /\ group'.status = s /\ group'.inserted = k
    BY DEF TypeOK
  <1>6. x = "finish" => s # "ok"
    BY DEF Building
  <1>7. GroupIs(c, n)'
    BY <1>2, <1>3, <1>5, <1>6 DEF GroupIs, Holds
  <1> QED
    BY <1>1, <1>3, <1>4, <1>7 DEF GroupSound

\* A call joins the group (BuildBatchGroup).
LEMMA JoinGroupGroup ==
  ASSUME TypeOK, QueueSound, GroupSound, NEW c \in Clients, JoinGroup(c)
  PROVE  /\ GroupSound'
         /\ group' \in [updates: Seq(Ops), last: Clients \cup {None}, seq: Nat,
                        status: Statuses, inserted: Nat]
         /\ group'.seq = group.seq /\ group.inserted = 0 /\ group'.inserted = 0
         /\ Len(group.updates) \in Nat /\ Len(group.updates) <= Len(group'.updates)
         /\ \A i \in 1..Len(group.updates) : group'.updates[i] = group.updates[i]
  <1>1. pc[c] = "gather" /\ pc[c] \in Working /\ pc[c] \in Leading /\ pc[c] \in Building
    BY DEF JoinGroup, Leading, Working, Building
  <1>2. PICK n \in 1..Len(writers) : GroupIs(c, n)
    BY <1>1 DEF GroupSound
  <1>3. LastIndex = n
    BY <1>2, IndexFacts DEF GroupIs
  <1>4. PICK w \in Seq(Clients) : w = writers
    BY DEF TypeOK
  <1>5. /\ n \in Nat /\ n >= 1 /\ n + 1 \in 1..Len(w)
        /\ ~StopsGroup(c, Len(group.updates), w[n + 1])
        /\ group' = [group EXCEPT !.updates = @ \o Batch(w[n + 1]), !.last = w[n + 1]]
        /\ UNCHANGED <<pc, writers, last_sequence>>
    BY <1>3, <1>4 DEF JoinGroup, Joins
  <1>6. PICK d \in Clients : d = w[n + 1]
    BY <1>5
  <1>7. PICK u \in Seq(Ops) : u = group.updates
    BY DEF TypeOK
  <1>8. PICK b \in Seq(Ops) : b = Batch(d)
    BY BatchFacts
  <1>9. PICK v : v = u \o b
    OBVIOUS
  <1>10. /\ v \in Seq(Ops) /\ Len(u) \in Nat /\ Len(b) \in Nat
         /\ Len(v) = Len(u) + Len(b)
         /\ \A i \in 1..(Len(u) + Len(b)) : v[i] = IF i <= Len(u) THEN u[i] ELSE b[i - Len(u)]
    BY <1>9, ConcatProperties
  <1>11. /\ \A i \in 1..Len(u) : i \in 1..Len(v) /\ v[i] = u[i]
         /\ \A i \in 1..Len(b) : Len(u) + i <= Len(v) /\ v[Len(u) + i] = b[i]
         /\ \A i \in 1..Len(v) : i \in 1..Len(u) \/ (i - Len(u) \in 1..Len(b) /\ v[i] = b[i - Len(u)])
    <2>1. \A i \in 1..Len(u) : i \in 1..Len(v) /\ v[i] = u[i]
      BY <1>10
    <2>2. ASSUME NEW i \in 1..Len(b) PROVE Len(u) + i <= Len(v) /\ v[Len(u) + i] = b[i]
      <3>1. /\ Len(u) + i \in 1..(Len(u) + Len(b)) /\ ~(Len(u) + i <= Len(u))
            /\ (Len(u) + i) - Len(u) = i
        BY <1>10
      <3> QED
        BY <1>10, <3>1
    <2>3. ASSUME NEW i \in 1..Len(v)
          PROVE  i \in 1..Len(u) \/ (i - Len(u) \in 1..Len(b) /\ v[i] = b[i - Len(u)])
      <3>1. i \in 1..Len(u) \/ (i - Len(u) \in 1..Len(b) /\ ~(i <= Len(u)))
        BY <1>10
      <3> QED
        BY <1>10, <3>1
    <2> QED
      BY <2>1, <2>2, <2>3
  <1>12. /\ group'.updates = v /\ group'.last = d /\ group'.seq = group.seq
         /\ group'.status = group.status /\ group'.inserted = group.inserted
         /\ group' \in [updates: Seq(Ops), last: Clients \cup {None}, seq: Nat,
                        status: Statuses, inserted: Nat]
    <2>1. group' = [group EXCEPT !.updates = v, !.last = d]
      BY <1>5, <1>6, <1>7, <1>8, <1>9
    <2> QED
      BY <1>10, <2>1 DEF TypeOK
  <1>13. /\ group.inserted = 0 /\ group.status = "ok" /\ group.seq = last_sequence + 1
         /\ \A i \in 1..n : Holds(w[i])
         /\ \A i \in 1..n : w[i] \in Syncs => c \in Syncs
         /\ \A k \in 1..Len(u) : \E i \in 1..n : u[k] \in ToSet(Batch(w[i]))
    BY <1>1, <1>2, <1>4, <1>7 DEF GroupIs
  <1>14. \A i \in 1..(n + 1) : i \in 1..n \/ i = n + 1
    BY <1>5
  <1>15. ASSUME NEW i \in 1..(n + 1) PROVE Holds(w[i])'
    <2>1. CASE i \in 1..n
      <3>1. PICK o \in 0..Len(u) : \A j \in 1..Len(Batch(w[i])) :
               o + j <= Len(u) /\ u[o + j] = Batch(w[i])[j]
        BY <1>7, <1>13, <2>1 DEF Holds
      <3>2. o \in 0..Len(v) /\ o \in Nat
        BY <1>10
      <3>3. ASSUME NEW j \in 1..Len(Batch(w[i]))
            PROVE  o + j <= Len(v) /\ v[o + j] = Batch(w[i])[j]
        <4>1. o + j \in 1..Len(u) /\ u[o + j] = Batch(w[i])[j]
          BY <1>10, <3>1, <3>2, SMTT(30)
        <4> QED
          BY <1>10, <1>11, <4>1
      <3> QED
        BY <1>4, <1>5, <1>12, <3>2, <3>3 DEF Holds
    <2>2. CASE i = n + 1
      <3>1. Len(u) \in 0..Len(v)
        BY <1>10
      <3>2. w[i] = d /\ writers'[i] = d /\ group'.updates = v
        BY <1>4, <1>5, <1>6, <1>12, <2>2
      <3>3. \A j \in 1..Len(Batch(d)) : Len(u) + j <= Len(v) /\ v[Len(u) + j] = Batch(d)[j]
        BY <1>8, <1>11
      <3>4. Holds(d)'
        BY <3>1, <3>2, <3>3 DEF Holds
      <3> QED
        BY <3>2, <3>4
    <2> QED
      BY <1>14, <2>1, <2>2
  <1>16. \A i \in 1..(n + 1) : w[i] \in Syncs => c \in Syncs
    BY <1>5, <1>13, <1>14 DEF StopsGroup
  <1>17. ASSUME NEW k \in 1..Len(v) PROVE \E i \in 1..(n + 1) : v[k] \in ToSet(Batch(w[i]))
    <2>1. CASE k \in 1..Len(u)
      <3>1. PICK i \in 1..n : u[k] \in ToSet(Batch(w[i]))
        BY <1>13, <2>1
      <3>2. i \in 1..(n + 1)
        BY <1>5
      <3> QED
        BY <1>11, <2>1, <3>1, <3>2
    <2>2. CASE k - Len(u) \in 1..Len(b) /\ v[k] = b[k - Len(u)]
      <3>1. v[k] \in ToSet(Batch(d))
        BY <1>8, <2>2 DEF ToSet
      <3>2. n + 1 \in 1..(n + 1)
        BY <1>5
      <3> QED
        BY <1>6, <3>1, <3>2
    <2> QED
      BY <1>11, <2>1, <2>2
  <1>18. GroupIs(c, n + 1)'
    BY <1>1, <1>4, <1>5, <1>6, <1>12, <1>13, <1>15, <1>16, <1>17, ZenonT(60) DEF GroupIs
  <1>19. \A e \in Clients : pc'[e] \in Working => e = c
    BY <1>1, <1>5, OneLeader DEF Leading
  <1>20. GroupSound'
    BY <1>1, <1>4, <1>5, <1>18, <1>19 DEF GroupSound
  <1> QED
    BY <1>7, <1>10, <1>11, <1>12, <1>13, <1>20

-----------------------------------------------------------------------------
(***************************************************************************)
(* Types.                                                                  *)
(***************************************************************************)

GroupType == [updates: Seq(Ops), last: Clients \cup {None}, seq: Nat,
              status: Statuses, inserted: Nat]

LEMMA NoGroupType == NoGroup \in GroupType
  BY DEF NoGroup, GroupType, Statuses, Failures

LEMMA RoomSwitchType ==
  ASSUME TypeOK, NEW c \in Clients, RoomSwitch(c)
  PROVE  TypeOK'
  <1>1. UNCHANGED <<writers, result, tables, last_sequence, bg_error>>
    BY DEF RoomSwitch
  <1>2. CASE /\ old_log' = log /\ log' = EmptyLog /\ imm' = {mem} /\ mem' = {}
             /\ UNCHANGED <<pc, group>>
    <2>1. old_log' \in LogFiles /\ log' \in LogFiles
      BY <1>2, EmptyLogFacts DEF TypeOK
    <2>2. mem' \in SUBSET Entries /\ imm' \in SUBSET (SUBSET Entries)
      BY <1>2 DEF TypeOK
    <2> QED
      BY <1>1, <1>2, <2>1, <2>2 DEF TypeOK
  <1>3. CASE /\ group' = [NoGroup EXCEPT !.last = c, !.status = "error"]
             /\ pc' = [pc EXCEPT ![c] = "finish"]
             /\ UNCHANGED <<disk, mem, imm>>
    <2>1. group' \in GroupType
      BY <1>3, NoGroupType DEF GroupType, Statuses, Failures
    <2>2. pc' \in [Clients -> States]
      BY <1>3 DEF TypeOK, States, Leading, Working
    <2> QED
      BY <1>1, <1>3, <2>1, <2>2 DEF TypeOK, GroupType, disk
  <1> QED
    BY <1>2, <1>3 DEF RoomSwitch

LEMMA AddRecordType ==
  ASSUME TypeOK, NEW c \in Clients, AddRecord(c)
  PROVE  TypeOK'
  <1>1. UNCHANGED <<writers, result, old_log, mem, imm, tables, last_sequence, bg_error>>
    BY DEF AddRecord, tree
  <1>2. <<group.seq, group.updates>> \in Records
    BY DEF TypeOK, Records
  <1>3. log' \in LogFiles
    <2>1. PICK w \in BOOLEAN : log' = Appended(log, <<group.seq, group.updates>>, w)
      BY DEF AddRecord
    <2>2. log \in LogFiles
      BY DEF TypeOK
    <2> QED
      BY <1>2, <2>1, <2>2, LogAppended
  <1>4. pc' \in [Clients -> States]
    BY DEF TypeOK, AddRecord, States, Leading, Working, Building
  <1>5. group' \in GroupType
    BY DEF TypeOK, AddRecord, GroupType, Statuses, Failures
  <1> QED
    BY <1>1, <1>3, <1>4, <1>5 DEF TypeOK, GroupType

LEMMA InsertIntoType ==
  ASSUME TypeOK, NEW c \in Clients, InsertInto(c)
  PROVE  TypeOK'
  <1>1. UNCHANGED <<pc, writers, result, log, old_log, imm, tables, last_sequence, bg_error>>
    BY DEF InsertInto, disk
  <1>2. group' \in GroupType
    <2>1. group.inserted + 1 \in Nat /\ group \in GroupType
      BY DEF TypeOK, GroupType
    <2>2. group' = [group EXCEPT !.inserted = group.inserted + 1]
      BY DEF InsertInto
    <2> QED
      BY <2>1, <2>2 DEF GroupType
  <1>3. <<group.seq + group.inserted, group.updates[group.inserted + 1]>> \in Entries
    <2>1. PICK u \in Seq(Ops) : u = group.updates
      BY DEF TypeOK
    <2>2. group.inserted + 1 \in 1..Len(u) /\ group.seq + group.inserted \in Nat
      BY <2>1 DEF TypeOK, InsertInto
    <2> QED
      BY <2>1, <2>2 DEF Entries
  <1>4. mem' \in SUBSET Entries
    BY <1>3 DEF TypeOK, InsertInto
  <1> QED
    BY <1>1, <1>2, <1>4 DEF TypeOK, GroupType

LEMMA FinishType ==
  ASSUME TypeOK, QueueSound, GroupSound, NEW c \in Clients, Finish(c)
  PROVE  TypeOK'
  <1>1. UNCHANGED <<log, old_log, mem, imm, tables>> /\ group' = NoGroup
    BY DEF Finish, disk, tree
  <1>2. writers' \in Seq(Clients)
    BY FinishQueue
  <1>3. pc' \in [Clients -> States] /\ result' \in [Clients -> Statuses \cup {None}]
    BY FinishFacts
  <1>4. last_sequence' \in Nat
    <2>1. Len(group.updates) \in Nat
      BY DEF TypeOK
    <2> QED
      BY <2>1 DEF TypeOK, Finish, NewLastSequence
  <1>5. bg_error' \in Statuses
    BY DEF TypeOK, Finish, NewError, ErrorAfter
  <1>6. group' \in GroupType
    BY <1>1, NoGroupType
  <1> QED
    BY <1>1, <1>2, <1>3, <1>4, <1>5, <1>6 DEF TypeOK, GroupType

LEMMA BackgroundType ==
  ASSUME TypeOK, BackgroundCall
  PROVE  TypeOK'
  <1>1. UNCHANGED <<writers, result, group, log, mem, last_sequence>>
    BY DEF BackgroundCall
  <1>2. pc' \in [Clients -> States]
    <2>1. pc' = SignalAll(pc)
      BY DEF BackgroundCall
    <2>2. SignalAll(pc) = [c \in Clients |-> SignalAll(pc)[c]]
      BY DEF SignalAll
    <2>3. \A c \in Clients : SignalAll(pc)[c] \in States
      BY SignalFacts
    <2> QED
      BY <2>1, <2>2, <2>3
  <1>3. old_log' \in LogFiles
    <2>1. old_log' = old_log \/ old_log' = EmptyLog
      BY DEF BackgroundCall
    <2> QED
      BY <2>1, EmptyLogFacts DEF TypeOK
  <1>4. tables' \in SUBSET Entries /\ imm' \in SUBSET (SUBSET Entries)
    <2>1. \/ tables' = tables \cup UNION imm /\ imm' = {}
          \/ UNCHANGED <<tables, imm>>
      BY DEF BackgroundCall
    <2>2. tables \in SUBSET Entries /\ imm \in SUBSET (SUBSET Entries)
      BY DEF TypeOK
    <2> QED
      BY <2>1, <2>2
  <1>5. bg_error' \in Statuses
    BY DEF BackgroundCall, TypeOK, Statuses, Failures
  <1> QED
    BY <1>1, <1>2, <1>3, <1>4, <1>5 DEF TypeOK

\* The actions that change the place of a call, its group or its result, and
\* neither the queue nor the logs nor the memtables.
LEMMA PlainType ==
  ASSUME TypeOK, NEW c \in Clients,
         \/ Awake(c) \/ Lead(c) \/ RoomError(c) \/ RoomDelay(c) \/ RoomWait(c)
         \/ RoomFound(c) \/ GroupBuilt(c) \/ Sync(c) \/ FlushMemTable(c)
  PROVE  TypeOK'
  <1>1. UNCHANGED <<writers, log, old_log, mem, imm, tables, last_sequence, bg_error>>
    BY DEF Awake, Lead, RoomError, RoomDelay, RoomWait, RoomFound, GroupBuilt, Sync,
           FlushMemTable, disk, tree
  <1>2. pc' \in [Clients -> States]
    BY DEF TypeOK, Awake, Lead, RoomError, RoomDelay, RoomWait, RoomFound, GroupBuilt, Sync,
           FlushMemTable, States, Leading, Working, Building
  <1>3. result' \in [Clients -> Statuses \cup {None}]
    BY DEF TypeOK, Awake, Lead, RoomError, RoomDelay, RoomWait, RoomFound, GroupBuilt, Sync,
           FlushMemTable
  <1>4. group' \in GroupType
    <2>1. CASE RoomError(c)
      BY <2>1, NoGroupType DEF TypeOK, RoomError, GroupType
    <2>2. CASE RoomFound(c)
      <3>1. Batch(c) \in Seq(Ops) /\ last_sequence + 1 \in Nat
        BY BatchFacts DEF TypeOK
      <3> QED
        BY <2>2, <3>1, NoGroupType DEF RoomFound, GroupType
    <2>3. CASE Sync(c)
      BY <2>3 DEF TypeOK, Sync, GroupType, Statuses, Failures
    <2>4. CASE UNCHANGED group
      BY <2>4 DEF TypeOK, GroupType
    <2> QED
      BY <2>1, <2>2, <2>3, <2>4 DEF Awake, Lead, RoomDelay, RoomWait, GroupBuilt, FlushMemTable
  <1> QED
    BY <1>1, <1>2, <1>3, <1>4 DEF TypeOK, GroupType

LEMMA EnqueueType ==
  ASSUME TypeOK, NEW c \in Clients, Enqueue(c)
  PROVE  TypeOK'
  <1>1. UNCHANGED <<result, group, log, old_log, mem, imm, tables, last_sequence, bg_error>>
    BY DEF Enqueue, disk, tree
  <1>2. pc' \in [Clients -> States]
    BY DEF TypeOK, Enqueue, States, Leading
  <1>3. writers' \in Seq(Clients)
    BY DEF TypeOK, Enqueue
  <1> QED
    BY <1>1, <1>2, <1>3 DEF TypeOK

-----------------------------------------------------------------------------
(***************************************************************************)
(* Every step keeps the queue and the group sound.                         *)
(***************************************************************************)

\* A step of a call that has no group before it or after it.
LEMMA QuietGroup ==
  ASSUME Core, NEW c \in Clients, pc[c] \notin Working,
         NEW x \in States \ Working, pc' = [pc EXCEPT ![c] = x],
         UNCHANGED <<writers, group, last_sequence>>
  PROVE  GroupSound'
  <1>1. Len(writers) \in Nat
    BY DEF Core, TypeOK
  <1>2. \A d \in Clients : pc[d] \in Working \/ pc'[d] \in Working => pc'[d] = pc[d]
    BY DEF Core, TypeOK
  <1> QED
    BY <1>1, <1>2, GroupKept DEF Core

LEMMA EnqueueCore ==
  ASSUME Core, NEW c \in Clients, Enqueue(c)
  PROVE  Core'
  <1>1. TypeOK' /\ QueueSound'
    BY EnqueueType, EnqueueQueue DEF Core
  <1>2. UNCHANGED <<group, last_sequence>>
    BY DEF Enqueue
  <1>3. PICK w \in Seq(Clients) : w = writers
    BY DEF Core, TypeOK
  <1>4. PICK v : v = Append(w, c)
    OBVIOUS
  <1>5. Len(w) \in Nat /\ Len(v) = Len(w) + 1 /\ \A i \in 1..Len(w) : v[i] = w[i]
    BY <1>4
  <1>6. writers' = v
    BY <1>3, <1>4 DEF Enqueue
  <1>7. \A d \in Clients : pc[d] \in Working \/ pc'[d] \in Working => pc'[d] = pc[d]
    BY DEF Enqueue, Core, TypeOK, Working, Building
  <1>8. Len(writers) \in Nat /\ Len(writers') \in Nat /\ Len(writers) <= Len(writers')
        /\ \A i \in 1..Len(writers) : writers'[i] = writers[i]
    BY <1>3, <1>5, <1>6
  <1>9. GroupSound'
    BY <1>2, <1>7, <1>8, GroupKept DEF Core
  <1> QED
    BY <1>1, <1>9 DEF Core

LEMMA AwakeCore ==
  ASSUME Core, NEW c \in Clients, Awake(c)
  PROVE  Core'
  <1>1. TypeOK' /\ QueueSound'
    BY PlainType, AwakeQueue DEF Core
  <1>2. PICK x \in {"flush", "returned", "lead", "sleep"} : pc' = [pc EXCEPT ![c] = x]
    BY DEF Awake
  <1>3. x \in States \ Working /\ pc[c] \notin Working
    BY <1>2 DEF Awake, States, Leading, Working, Building
  <1>4. GroupSound'
    BY <1>2, <1>3, QuietGroup DEF Awake
  <1> QED
    BY <1>1, <1>4 DEF Core

LEMMA FlushCore ==
  ASSUME Core, NEW c \in Clients, FlushMemTable(c)
  PROVE  Core'
  <1>1. TypeOK' /\ QueueSound'
    BY PlainType, FlushQueue DEF Core
  <1>2. PICK x \in {"flush_wait", "returned"} : pc' = [pc EXCEPT ![c] = x]
    BY DEF FlushMemTable
  <1>3. x \in States \ Working /\ pc[c] \notin Working
    BY <1>2 DEF FlushMemTable, States, Leading, Working, Building
  <1>4. GroupSound'
    BY <1>2, <1>3, QuietGroup DEF FlushMemTable
  <1> QED
    BY <1>1, <1>4 DEF Core

\* In front of the queue, before there is a group.
LEMMA WaitingCore ==
  ASSUME Core, NEW c \in Clients,
         \/ Lead(c) \/ RoomDelay(c) \/ RoomWait(c) \/ (RoomSwitch(c) /\ UNCHANGED <<pc, group>>)
  PROVE  Core'
  <1>1. pc[c] \in {"lead", "room"} /\ UNCHANGED <<writers, result, group, last_sequence>>
    BY DEF Lead, RoomDelay, RoomWait, RoomSwitch, InRoom
  <1>2. PICK x \in {"room", "room_wait"} : pc' = [pc EXCEPT ![c] = x]
    BY DEF Lead, RoomDelay, RoomWait, RoomSwitch, InRoom, Core, TypeOK
  <1>3. x \in States \ Working /\ x \in Leading /\ pc[c] \notin Working /\ pc[c] \in Leading
    BY <1>1, <1>2 DEF States, Leading, Working, Building
  <1>4. TypeOK'
    BY PlainType, RoomSwitchType DEF Core
  <1>5. QueueSound'
    BY <1>1, <1>2, <1>3, LeaderStep DEF Core
  <1>6. GroupSound'
    BY <1>1, <1>2, <1>3, QuietGroup
  <1> QED
    BY <1>4, <1>5, <1>6 DEF Core

\* The leader gets its group.
LEMMA GroupMadeCore ==
  ASSUME Core, NEW c \in Clients,
         \/ RoomError(c) \/ RoomFound(c)
         \/ (RoomSwitch(c) /\ group' = [NoGroup EXCEPT !.last = c, !.status = "error"]
                           /\ pc' = [pc EXCEPT ![c] = "finish"])
  PROVE  /\ Core'
         /\ group'.inserted = 0
         /\ pc[c] = "room" /\ pc' = [pc EXCEPT ![c] = pc'[c]] /\ pc'[c] \in {"gather", "finish"}
  <1>1. pc[c] = "room" /\ UNCHANGED <<writers, result, last_sequence>>
    BY DEF RoomError, RoomFound, RoomSwitch, InRoom
  <1>2. pc[c] \in Leading /\ "gather" \in Leading /\ "finish" \in Leading
    BY <1>1 DEF Leading, Working, Building
  <1>3. TypeOK'
    BY PlainType, RoomSwitchType DEF Core
  <1>4. PICK x \in {"gather", "finish"} :
          /\ pc' = [pc EXCEPT ![c] = x]
          /\ group'.last = c /\ group'.inserted = 0
          /\ \/ x = "finish" /\ group'.updates = <<>> /\ (group'.status = "ok" => c \in Nulls)
             \/ x = "gather" /\ group'.updates = Batch(c) /\ group'.seq = last_sequence + 1
                /\ group'.status = "ok"
    <2>1. CASE RoomError(c)
      BY <2>1 DEF RoomError, NoGroup
    <2>2. CASE RoomFound(c) /\ c \in Nulls
      BY <2>2, BatchFacts DEF RoomFound, NoGroup
    <2>3. CASE RoomFound(c) /\ c \notin Nulls
      BY <2>3 DEF RoomFound, NoGroup
    <2>4. CASE /\ group' = [NoGroup EXCEPT !.last = c, !.status = "error"]
               /\ pc' = [pc EXCEPT ![c] = "finish"]
      BY <2>4 DEF NoGroup
    <2> QED
      BY <2>1, <2>2, <2>3, <2>4
  <1>5. QueueSound'
    BY <1>1, <1>2, <1>4, LeaderStep DEF Core
  <1>6. GroupSound'
    BY <1>1, <1>2, <1>4, GroupMade DEF Core
  <1>7. pc'[c] = x
    BY <1>4 DEF Core, TypeOK
  <1> QED
    BY <1>1, <1>3, <1>4, <1>5, <1>6, <1>7 DEF Core

LEMMA JoinGroupCore ==
  ASSUME Core, NEW c \in Clients, JoinGroup(c)
  PROVE  Core'
  <1>1. /\ UNCHANGED <<pc, writers, result, log, old_log, mem, imm, tables, last_sequence, bg_error>>
        /\ pc[c] = "gather"
    BY DEF JoinGroup, disk, tree
  <1>2. TypeOK'
    BY <1>1, JoinGroupGroup DEF Core, TypeOK
  <1>3. pc[c] \in Leading /\ pc' = [pc EXCEPT ![c] = pc[c]]
    BY <1>1 DEF Leading, Working, Building, Core, TypeOK
  <1>4. QueueSound'
    BY <1>1, <1>3, LeaderStep DEF Core
  <1> QED
    BY <1>2, <1>4, JoinGroupGroup DEF Core

\* The leader logs, syncs and inserts.
LEMMA GroupWorkedCore ==
  ASSUME Core, NEW c \in Clients,
         GroupBuilt(c) \/ AddRecord(c) \/ Sync(c) \/ InsertInto(c)
  PROVE  /\ Core'
         /\ pc[c] \in Building
         /\ group'.updates = group.updates /\ group'.seq = group.seq
         /\ UNCHANGED <<writers, result, last_sequence, bg_error>>
  <1>1. UNCHANGED <<writers, result, last_sequence, bg_error>> /\ pc[c] \in Building
    BY DEF GroupBuilt, AddRecord, Sync, InsertInto, Building
  <1>2. pc[c] \in Working /\ pc[c] \in Leading
    BY <1>1 DEF Leading, Working
  <1>3. PICK n \in 1..Len(writers) : GroupIs(c, n)
    BY <1>2 DEF Core, GroupSound
  <1>4. /\ group.status = "ok" /\ Len(group.updates) \in Nat /\ group.inserted \in Nat
        /\ pc[c] # "insert" => group.inserted = 0
    BY <1>1, <1>3 DEF GroupIs, Core, TypeOK
  <1>5. TypeOK'
    BY PlainType, AddRecordType, InsertIntoType DEF Core
  <1>6. group = [group EXCEPT !.status = "ok", !.inserted = group.inserted]
    BY <1>4 DEF Core, TypeOK
  <1>7. \E x \in Working, s \in Statuses, k \in Nat :
          /\ pc' = [pc EXCEPT ![c] = x]
          /\ group' = [group EXCEPT !.status = s, !.inserted = k]
          /\ x \in Building <=> s = "ok"
          /\ x = "insert" => k <= Len(group.updates)
          /\ x # "insert" => k = 0
    <2>1. CASE pc' = [pc EXCEPT ![c] = "log"] /\ group' = group /\ pc[c] # "insert"
      <3>1. "log" \in Working /\ "log" \in Building /\ "ok" \in Statuses
        BY DEF Working, Building, Statuses
      <3> QED
        BY <1>4, <1>6, <2>1, <3>1
    <2>2. CASE pc' = [pc EXCEPT ![c] = "sync"] /\ group' = group /\ pc[c] # "insert"
      <3>1. "sync" \in Working /\ "sync" \in Building /\ "ok" \in Statuses
        BY DEF Working, Building, Statuses
      <3> QED
        BY <1>4, <1>6, <2>2, <3>1
    <2>3. CASE pc' = [pc EXCEPT ![c] = "insert"] /\ group' = group /\ pc[c] # "insert"
      <3>1. "insert" \in Working /\ "insert" \in Building /\ "ok" \in Statuses
        BY DEF Working, Building, Statuses
      <3>2. group.inserted \in Nat /\ group.inserted <= Len(group.updates)
        BY <1>4, <2>3
      <3>3. group' = [group EXCEPT !.status = "ok", !.inserted = group.inserted]
        BY <1>6, <2>3
      <3> QED
        BY <2>3, <3>1, <3>2, <3>3
    <2>4. ASSUME NEW s \in Failures, pc' = [pc EXCEPT ![c] = "finish"],
                 group' = [group EXCEPT !.status = s], pc[c] # "insert"
          PROVE  <1>7!:
      <3>1. "finish" \in Working /\ "finish" \notin Building /\ s \in Statuses /\ s # "ok"
        BY DEF Working, Building, Statuses, Failures
      <3>2. group' = [group EXCEPT !.status = s, !.inserted = 0]
        BY <1>4, <2>4 DEF Core, TypeOK
      <3> QED
        BY <2>4, <3>1, <3>2
    <2>5. CASE InsertInto(c)
      <3>1. "insert" \in Working /\ "insert" \in Building /\ "ok" \in Statuses
        BY DEF Working, Building, Statuses
      <3>2. pc' = [pc EXCEPT ![c] = "insert"]
        BY <2>5 DEF InsertInto, Core, TypeOK
      <3>3. group' = [group EXCEPT !.status = "ok", !.inserted = group.inserted + 1]
        BY <1>4, <2>5 DEF InsertInto, Core, TypeOK
      <3>4. group.inserted + 1 \in Nat /\ group.inserted + 1 <= Len(group.updates)
        BY <1>4, <2>5 DEF InsertInto
      <3> QED
        BY <3>1, <3>2, <3>3, <3>4
    <2>6. CASE GroupBuilt(c)
      BY <2>1, <2>6 DEF GroupBuilt
    <2>7. CASE AddRecord(c)
      BY <2>2, <2>3, <2>4, <2>7 DEF AddRecord, Failures
    <2>8. CASE Sync(c)
      BY <2>3, <2>4, <2>8 DEF Sync, Failures
    <2> QED
      BY <2>5, <2>6, <2>7, <2>8
  <1>8. PICK x \in Working, s \in Statuses, k \in Nat :
          /\ pc' = [pc EXCEPT ![c] = x]
          /\ group' = [group EXCEPT !.status = s, !.inserted = k]
          /\ x \in Building <=> s = "ok"
          /\ x = "insert" => k <= Len(group.updates)
          /\ x # "insert" => k = 0
    BY <1>7
  <1>9. x \in Leading
    BY DEF Leading
  <1>10. QueueSound'
    BY <1>1, <1>2, <1>8, <1>9, LeaderStep DEF Core
  <1>11. GroupSound'
    BY <1>1, <1>8, GroupWorked DEF Core
  <1>12. group'.updates = group.updates /\ group'.seq = group.seq
    BY <1>8 DEF Core, TypeOK
  <1> QED
    BY <1>1, <1>5, <1>10, <1>11, <1>12 DEF Core

LEMMA FinishCore ==
  ASSUME Core, NEW c \in Clients, Finish(c)
  PROVE  Core'
  <1>1. TypeOK' /\ QueueSound'
    BY FinishType, FinishQueue DEF Core
  <1>2. \A d \in Clients : pc'[d] \notin Working
    <2>1. \A d \in Clients : pc'[d] \notin Leading
      BY FinishFacts DEF Core
    <2> QED
      BY <2>1 DEF Leading
  <1>3. group' = NoGroup
    BY DEF Finish
  <1>4. GroupSound'
    BY <1>2, <1>3 DEF GroupSound, NoGroup, None
  <1> QED
    BY <1>1, <1>4 DEF Core

LEMMA BackgroundCore ==
  ASSUME Core, BackgroundCall
  PROVE  Core'
  <1>1. TypeOK' /\ QueueSound'
    BY BackgroundType, BackgroundQueue DEF Core
  <1>2. UNCHANGED <<writers, group, last_sequence>> /\ pc' = SignalAll(pc)
    BY DEF BackgroundCall
  <1>3. \A d \in Clients : pc[d] \in Working \/ pc'[d] \in Working => pc'[d] = pc[d]
    BY <1>2, SignalFacts DEF Core
  <1>4. Len(writers) \in Nat
    BY DEF Core, TypeOK
  <1>5. GroupSound'
    BY <1>2, <1>3, <1>4, GroupKept DEF Core
  <1> QED
    BY <1>1, <1>5 DEF Core

LEMMA CoreStep ==
  ASSUME Core, [Next]_vars
  PROVE  Core'
  <1>1. CASE UNCHANGED vars
    BY <1>1 DEF vars, Core, TypeOK, QueueSound, GroupSound, GroupIs, Holds
  <1>2. ASSUME NEW c \in Clients, RoomSwitch(c) PROVE Core'
    <2>1. CASE UNCHANGED <<pc, group>>
      BY <1>2, <2>1, WaitingCore
    <2>2. CASE group' = [NoGroup EXCEPT !.last = c, !.status = "error"]
               /\ pc' = [pc EXCEPT ![c] = "finish"]
      BY <1>2, <2>2, GroupMadeCore
    <2> QED
      BY <1>2, <2>1, <2>2 DEF RoomSwitch
  <1>3. ASSUME NEW c \in Clients, Enqueue(c) \/ Awake(c) \/ FlushMemTable(c) PROVE Core'
    BY <1>3, EnqueueCore, AwakeCore, FlushCore
  <1>4. ASSUME NEW c \in Clients, Lead(c) \/ RoomDelay(c) \/ RoomWait(c) PROVE Core'
    BY <1>4, WaitingCore
  <1>5. ASSUME NEW c \in Clients, RoomError(c) \/ RoomFound(c) PROVE Core'
    BY <1>5, GroupMadeCore
  <1>6. ASSUME NEW c \in Clients,
               GroupBuilt(c) \/ AddRecord(c) \/ Sync(c) \/ InsertInto(c)
        PROVE  Core'
    BY <1>6, GroupWorkedCore
  <1>7. ASSUME NEW c \in Clients, JoinGroup(c) \/ Finish(c) PROVE Core'
    BY <1>7, JoinGroupCore, FinishCore
  <1>8. CASE BackgroundCall
    BY <1>8, BackgroundCore
  <1> QED
    BY <1>1, <1>2, <1>3, <1>4, <1>5, <1>6, <1>7, <1>8 DEF Next, Client

-----------------------------------------------------------------------------
(***************************************************************************)
(* An error of Sync ends all writing.                                      *)
(***************************************************************************)

LEMMA StoppedStep ==
  ASSUME Core, Stopped, [Next]_vars
  PROVE  Stopped'
  <1> DEFINE E == bg_error = "sync error" \/ \E d \in Clients : result[d] = "sync error"
  <1>a. E => /\ bg_error # "ok"
             /\ \A c \in Clients : pc[c] \notin Building /\ (pc[c] = "finish" => group.status # "ok")
    BY DEF Stopped
  <1>b. Stopped' <=> (E' => /\ bg_error' # "ok"
             /\ \A c \in Clients : pc'[c] \notin Building /\ (pc'[c] = "finish" => group'.status # "ok"))
    BY DEF Stopped
  <1>c. UNCHANGED <<bg_error, result>> => (E' <=> E)
    OBVIOUS
  <1>d. "finish" \notin Building
    BY DEF Building
  <1> HIDE DEF E
  <1>1. CASE UNCHANGED vars
    BY <1>a, <1>b, <1>c, <1>1 DEF vars
  <1>2. ASSUME NEW c \in Clients,
               Enqueue(c) \/ Awake(c) \/ Lead(c) \/ RoomDelay(c) \/ RoomWait(c)
        PROVE  Stopped'
    <2>1. UNCHANGED <<bg_error, result, group>>
      BY <1>2 DEF Enqueue, Awake, Lead, RoomDelay, RoomWait
    <2>2. \A d \in Clients : pc'[d] = pc[d] \/ pc'[d] \notin Working
      BY <1>2 DEF Enqueue, Awake, Lead, RoomDelay, RoomWait, Core, TypeOK, Working, Building
    <2> QED
      BY <1>a, <1>b, <1>c, <2>1, <2>2 DEF Working
  <1>3. ASSUME NEW c \in Clients, RoomError(c) PROVE Stopped'
    <2>1. UNCHANGED <<bg_error, result>> /\ bg_error # "ok" /\ group'.status = bg_error
      BY <1>3 DEF RoomError, NoGroup
    <2>2. \A d \in Clients : pc'[d] = pc[d] \/ pc'[d] = "finish"
      BY <1>3 DEF RoomError, Core, TypeOK
    <2> QED
      BY <1>a, <1>b, <1>c, <1>d, <2>1, <2>2
  <1>4. ASSUME NEW c \in Clients, RoomSwitch(c) \/ RoomFound(c) PROVE Stopped'
    <2>1. UNCHANGED <<bg_error, result>> /\ bg_error = "ok"
      BY <1>4 DEF RoomSwitch, RoomFound
    <2> QED
      BY <1>a, <1>b, <1>c, <2>1
  <1>5. ASSUME NEW c \in Clients,
               GroupBuilt(c) \/ AddRecord(c) \/ Sync(c) \/ InsertInto(c)
        PROVE  Stopped'
    <2>1. UNCHANGED <<bg_error, result>> /\ pc[c] \in Building
      BY <1>5, GroupWorkedCore
    <2> QED
      BY <1>a, <1>b, <1>c, <2>1
  <1>6. ASSUME NEW c \in Clients, JoinGroup(c) PROVE Stopped'
    <2>1. UNCHANGED <<bg_error, result>> /\ pc[c] \in Building
      BY <1>6 DEF JoinGroup, Building
    <2> QED
      BY <1>a, <1>b, <1>c, <2>1
  <1>7. ASSUME NEW c \in Clients, FlushMemTable(c) PROVE Stopped'
    <2>1. UNCHANGED <<bg_error, group>>
      BY <1>7 DEF FlushMemTable
    <2>2. E' => E
      BY <1>7 DEF E, FlushMemTable, Core, TypeOK
    <2>3. \A d \in Clients : pc'[d] = pc[d] \/ pc'[d] \notin Working
      BY <1>7 DEF FlushMemTable, Core, TypeOK, Working, Building
    <2> QED
      BY <1>a, <1>b, <2>1, <2>2, <2>3 DEF Working
  <1>8. ASSUME NEW c \in Clients, Finish(c) PROVE Stopped'
    <2>1. \A d \in Clients : pc'[d] \notin Working
      <3>1. \A d \in Clients : pc'[d] \notin Leading
        BY <1>8, FinishFacts DEF Core
      <3> QED
        BY <3>1 DEF Leading
    <2>2. \A d \in Clients : result'[d] = group.status \/ result'[d] = result[d]
      BY <1>8, FinishFacts DEF Core
    <2>3. bg_error' = IF group.status = "sync error"
                      THEN IF bg_error = "ok" THEN group.status ELSE bg_error
                      ELSE bg_error
      BY <1>8 DEF Finish, NewError, ErrorAfter
    <2>4. E' => E \/ group.status = "sync error"
      BY <2>2, <2>3 DEF E
    <2>5. E' => bg_error' # "ok"
      BY <1>a, <2>3, <2>4
    <2> QED
      BY <1>b, <2>1, <2>5 DEF Working
  <1>9. CASE BackgroundCall
    <2>1. UNCHANGED <<result, group>> /\ pc' = SignalAll(pc)
          /\ (bg_error' = bg_error \/ (bg_error = "ok" /\ bg_error' = "background error"))
      BY <1>9 DEF BackgroundCall
    <2>2. E' => E
      BY <2>1 DEF E
    <2>3. \A d \in Clients : pc'[d] = pc[d] \/ pc'[d] \notin Working
      BY <2>1, SignalFacts DEF Core
    <2> QED
      BY <1>a, <1>b, <2>1, <2>2, <2>3 DEF Working
  <1> QED
    BY <1>1, <1>2, <1>3, <1>4, <1>5, <1>6, <1>7, <1>8, <1>9 DEF Next, Client

-----------------------------------------------------------------------------
(***************************************************************************)
(* Sequence numbers.                                                       *)
(***************************************************************************)

\* The numbers of a group follow last_sequence, one for each operation.
LEMMA GroupNumbers ==
  ASSUME Core
  PROVE  /\ Len(group.updates) \in Nat
         /\ \A e \in GroupEntries : /\ e[1] \in Nat /\ e[1] > last_sequence
                                    /\ e[1] <= last_sequence + Len(group.updates)
         /\ \A e, f \in GroupEntries : e[1] = f[1] => e = f
  <1>1. Len(group.updates) \in Nat /\ last_sequence \in Nat /\ group.seq \in Nat
    BY DEF Core, TypeOK
  <1>2. group.updates = <<>> \/ group.seq = last_sequence + 1
    <2>1. CASE \E c \in Clients : pc[c] \in Working
      BY <2>1 DEF Core, GroupSound, GroupIs
    <2>2. CASE ~\E c \in Clients : pc[c] \in Working
      BY <2>2 DEF Core, GroupSound, NoGroup
    <2> QED
      BY <2>1, <2>2
  <1>3. CASE group.updates = <<>>
    <2>1. Len(group.updates) = 0
      BY <1>3
    <2>2. GroupEntries = {}
      BY <2>1 DEF GroupEntries
    <2> QED
      BY <1>1, <2>2
  <1>4. CASE group.seq = last_sequence + 1
    <2>1. ASSUME NEW e \in GroupEntries
          PROVE  \E i \in 1..Len(group.updates) : e = GroupEntry(i) /\ e[1] = last_sequence + i
      BY <1>1, <1>4 DEF GroupEntries, GroupEntry
    <2> QED
      BY <1>1, <2>1
  <1> QED
    BY <1>2, <1>3, <1>4

LEMMA LoggedType ==
  ASSUME NEW l \in LogFiles
  PROVE  Logged(l) \subseteq Entries
  <1>1. ASSUME NEW r \in Records PROVE OfRecord(r) \subseteq Entries
    <2>1. r[1] \in Nat /\ r[2] \in Seq(Ops)
      BY DEF Records
    <2>2. ASSUME NEW i \in 1..Len(r[2]) PROVE r[1] + i - 1 \in Nat /\ r[2][i] \in Ops
      BY <2>1
    <2> QED
      BY <2>2 DEF OfRecord, Entries
  <1>2. ASSUME NEW records \in Seq(Records) PROVE Recorded(records) \subseteq Entries
    BY <1>1, RecordedIsUnion
  <1> QED
    BY <1>2 DEF Logged, LogFiles

LEMMA AllType ==
  ASSUME TypeOK
  PROVE  /\ \A e \in All : e[1] \in Nat
         /\ \A e \in Applied : e[1] \in Nat
  <1>1. Applied \subseteq Entries
    <2>1. /\ mem \in SUBSET Entries /\ imm \in SUBSET (SUBSET Entries)
          /\ tables \in SUBSET Entries
      BY DEF TypeOK
    <2>2. UNION imm \subseteq Entries
      <3> SUFFICES ASSUME NEW m \in imm, NEW e \in m PROVE e \in Entries
        OBVIOUS
      <3>1. m \in SUBSET Entries
        BY <2>1
      <3> QED
        BY <3>1
    <2>3. mem \subseteq Entries /\ tables \subseteq Entries
      BY <2>1
    <2> QED
      BY <2>2, <2>3 DEF Applied
  <1>2. Logged(log) \subseteq Entries /\ Logged(old_log) \subseteq Entries
    BY LoggedType DEF TypeOK
  <1> QED
    BY <1>1, <1>2 DEF All, Entries

\* A step that logs or applies nothing but the group.
LEMMA NumbersStep ==
  ASSUME Core, Numbers, All' \subseteq All \cup GroupEntries,
         GroupEntries \subseteq GroupEntries', UNCHANGED last_sequence
  PROVE  Numbers'
  <1>1. NumbersGiven'
    BY DEF Numbers, NumbersGiven
  <1>2. ASSUME NEW a \in All \cup GroupEntries, NEW b \in All \cup GroupEntries, a[1] = b[1]
        PROVE  a = b
    <2>1. CASE a \in All /\ b \in All
      BY <1>2, <2>1 DEF Numbers, SequencesUnique, All
    <2>2. CASE a \in GroupEntries \/ b \in GroupEntries
      <3>1. ~(a[1] <= last_sequence) /\ ~(b[1] <= last_sequence)
        BY <1>2, <2>2, GroupNumbers DEF Core, TypeOK
      <3>2. a \in GroupEntries /\ b \in GroupEntries
        BY <1>2, <3>1 DEF Numbers, NumbersGiven
      <3> QED
        BY <1>2, <3>2, GroupNumbers
    <2> QED
      BY <1>2, <2>1, <2>2
  <1>3. SequencesUnique'
    BY <1>2 DEF SequencesUnique, All
  <1> QED
    BY <1>1, <1>3 DEF Numbers

\* The group's numbers become the last ones in use, whatever its status.
LEMMA NumbersFinish ==
  ASSUME Core, Numbers, NEW c \in Clients, Finish(c)
  PROVE  Numbers' /\ \A e \in All' : e[1] <= last_sequence'
  <1>1. /\ UNCHANGED <<log, old_log, mem, imm, tables>>
        /\ last_sequence' = last_sequence + Len(group.updates)
    BY DEF Finish, disk, tree, NewLastSequence
  <1>2. All' = All
    BY <1>1 DEF All, Applied
  <1>3. last_sequence \in Nat
    BY DEF Core, TypeOK
  <1>4. ASSUME NEW e \in All PROVE e[1] <= last_sequence'
    <2>1. e[1] \in Nat
      BY AllType DEF Core
    <2>2. CASE e[1] <= last_sequence
      BY <1>1, <1>3, <2>1, <2>2, GroupNumbers
    <2>3. CASE e \in GroupEntries
      BY <1>1, <2>3, GroupNumbers
    <2> QED
      BY <2>2, <2>3 DEF Numbers, NumbersGiven
  <1>5. SequencesUnique'
    BY <1>2 DEF Numbers, SequencesUnique, All
  <1> QED
    BY <1>2, <1>4, <1>5 DEF Numbers, NumbersGiven

-----------------------------------------------------------------------------
(***************************************************************************)
(* What readers see.                                                       *)
(***************************************************************************)

\* The operations a reader at last_sequence sees.
Seen == {e[2] : e \in {a \in Applied : a[1] <= last_sequence}}

LEMMA AtomicIsSeen ==
  BatchesAtomic <=> \A c \in Clients : ToSet(Batch(c)) \subseteq Seen
                                      \/ ToSet(Batch(c)) \cap Seen = {}
  BY DEF BatchesAtomic, Seen

\* A step that applies nothing, though it may move what is applied.
LEMMA ViewsKept ==
  ASSUME Views, Applied' = Applied, UNCHANGED last_sequence,
         synced \subseteq synced', tables \subseteq tables',
         \A c \in Clients \ Nulls : result'[c] = result[c],
         (group.inserted = 0 /\ group'.inserted = 0) \/ UNCHANGED group
  PROVE  Views'
  <1>1. NumbersApplied'
    BY DEF Views, NumbersApplied, GroupEntry
  <1>2. SyncedApplied'
    BY QueueAssumption DEF Views, SyncedApplied
  <1>3. AcknowledgedVisible'
    BY DEF Views, AcknowledgedVisible
  <1>4. Seen' = Seen
    BY DEF Seen
  <1>5. BatchesAtomic'
    BY <1>4 DEF Views, BatchesAtomic, Seen
  <1> QED
    BY <1>1, <1>2, <1>3, <1>5 DEF Views

\* An insertion is not seen before last_sequence is advanced.
LEMMA ViewsInsertInto ==
  ASSUME Core, Views, NEW c \in Clients, InsertInto(c)
  PROVE  /\ Views'
         /\ \E e \in GroupEntries : mem' = mem \cup {e} /\ Applied' = Applied \cup {e}
  <1>1. /\ UNCHANGED <<result, synced, imm, tables, last_sequence>>
        /\ group.inserted < Len(group.updates)
        /\ mem' = mem \cup {<<group.seq + group.inserted, group.updates[group.inserted + 1]>>}
        /\ group' = [group EXCEPT !.inserted = group.inserted + 1]
    BY DEF InsertInto, disk
  <1>2. PICK k \in Nat : k = group.inserted
    BY DEF Core, TypeOK
  <1>3. PICK e : e = GroupEntry(k + 1)
    OBVIOUS
  <1>4. group.seq \in Nat /\ Len(group.updates) \in Nat /\ k + 1 \in 1..Len(group.updates)
    BY <1>1, <1>2 DEF Core, TypeOK
  <1>5. e = <<group.seq + k, group.updates[k + 1]>>
    BY <1>3, <1>4 DEF GroupEntry
  <1>6. e \in GroupEntries
    BY <1>3, <1>4 DEF GroupEntries
  <1>7. mem' = mem \cup {e} /\ Applied' = Applied \cup {e}
    BY <1>1, <1>2, <1>5 DEF Applied
  <1>8. /\ group'.inserted = k + 1 /\ \A i : GroupEntry(i)' = GroupEntry(i)
    BY <1>1, <1>2 DEF GroupEntry, Core, TypeOK
  <1>9. NumbersApplied'
    <2>1. \A i \in 1..(k + 1) : i \in 1..k \/ i = k + 1
      OBVIOUS
    <2>2. \A i \in 1..k : i \in 1..(k + 1)
      OBVIOUS
    <2>3. k + 1 \in 1..(k + 1)
      OBVIOUS
    <2>4. /\ \A a \in Applied : a[1] <= last_sequence \/ \E i \in 1..k : a = GroupEntry(i)
          /\ \A i \in 1..k : GroupEntry(i) \in Applied
      BY <1>2 DEF Views, NumbersApplied
    <2>5. \A a \in Applied' : a[1] <= last_sequence' \/ \E i \in 1..(k + 1) : a = GroupEntry(i)
      BY <1>1, <1>3, <1>7, <2>2, <2>3, <2>4
    <2>6. \A i \in 1..(k + 1) : GroupEntry(i) \in Applied'
      BY <1>3, <1>7, <2>1, <2>4
    <2> QED
      BY <1>8, <2>5, <2>6 DEF NumbersApplied
  <1>10. SyncedApplied'
    BY <1>1, <1>7 DEF Views, SyncedApplied
  <1>11. AcknowledgedVisible'
    BY <1>1, <1>7 DEF Views, AcknowledgedVisible
  <1>12. ~(e[1] <= last_sequence)
    BY <1>6, GroupNumbers DEF Core, TypeOK
  <1>13. {a \in Applied' : a[1] <= last_sequence'} = {a \in Applied : a[1] <= last_sequence}
    BY <1>1, <1>7, <1>12
  <1>14. Seen' = Seen
    BY <1>13 DEF Seen
  <1>15. BatchesAtomic'
    BY <1>14 DEF Views, BatchesAtomic, Seen
  <1> QED
    BY <1>6, <1>7, <1>9, <1>10, <1>11, <1>15 DEF Views

\* The operations of a call that stands in the group, once all of the group
\* is inserted.
LEMMA HeldIsApplied ==
  ASSUME Core, NumbersApplied, NEW d \in Clients, Holds(d),
         group.inserted = Len(group.updates), group.seq = last_sequence + 1
  PROVE  \E o \in 0..Len(group.updates) : \A i \in 1..Len(Batch(d)) :
           /\ o + i \in 1..Len(group.updates)
           /\ GroupEntry(o + i) = <<last_sequence + o + i, Batch(d)[i]>>
           /\ GroupEntry(o + i) \in Applied
  <1>1. PICK o \in 0..Len(group.updates) : \A i \in 1..Len(Batch(d)) :
           o + i <= Len(group.updates) /\ group.updates[o + i] = Batch(d)[i]
    BY DEF Holds
  <1>2. Len(group.updates) \in Nat /\ last_sequence \in Nat /\ Len(Batch(d)) \in Nat
    BY BatchFacts DEF Core, TypeOK
  <1>3. ASSUME NEW i \in 1..Len(Batch(d))
        PROVE  /\ o + i \in 1..Len(group.updates)
               /\ GroupEntry(o + i) = <<last_sequence + o + i, Batch(d)[i]>>
               /\ GroupEntry(o + i) \in Applied
    <2>1. o + i \in 1..Len(group.updates) /\ group.updates[o + i] = Batch(d)[i]
      BY <1>1, <1>2
    <2>2. group.seq + (o + i) - 1 = last_sequence + o + i
      BY <1>2
    <2> QED
      BY <2>1, <2>2 DEF NumbersApplied, GroupEntry
  <1> QED
    BY <1>3

\* The end of a group: its calls are acknowledged, and what they wrote is seen,
\* all of it or, after an error, none.
LEMMA ViewsFinish ==
  ASSUME Core, Numbers, Views, LogFirst, NEW c \in Clients, Finish(c)
  PROVE  Views'
  <1>1. PICK n \in 1..Len(writers) :
           /\ GroupIs(c, n)
           /\ pc[c] \in {"finish", "insert"}
           /\ pc[c] = "insert" => group.inserted = Len(group.updates)
           /\ \A d \in Clients :
                result'[d] = IF Member(d, n) THEN group.status ELSE result[d]
    BY FinishFacts DEF Core
  <1>2. /\ UNCHANGED <<log, old_log, synced, mem, imm, tables>> /\ group' = NoGroup
        /\ last_sequence' = last_sequence + Len(group.updates)
    BY DEF Finish, disk, tree, NewLastSequence
  <1>3. Applied' = Applied /\ last_sequence \in Nat /\ Len(group.updates) \in Nat
        /\ last_sequence <= last_sequence'
    BY <1>2 DEF Applied, Core, TypeOK
  <1>4. writers[1] = c /\ n \in Nat /\ n >= 1
    BY <1>1 DEF Core, QueueSound, TypeOK, Leading, Working, Building
  <1>5. \A d \in Clients : Member(d, n) /\ group.status = "ok" /\ d \notin Nulls
                            => pc[c] = "insert"
    BY <1>1, <1>4 DEF GroupIs, Member
  <1>6. ASSUME pc[c] = "insert"
        PROVE  /\ group.seq = last_sequence + 1 /\ group.inserted = Len(group.updates)
               /\ \A d \in Clients : Member(d, n) => Holds(d) /\ (d \in Syncs => c \in Syncs)
    BY <1>1, <1>6 DEF GroupIs, Member, Building
  <1>7. NumbersApplied'
    <2>1. \A e \in All' : e[1] <= last_sequence'
      BY NumbersFinish
    <2>2. group'.inserted = 0
      BY <1>2 DEF NoGroup
    <2> QED
      BY <2>1, <2>2 DEF NumbersApplied, All
  <1>8. SyncedApplied'
    <2> SUFFICES ASSUME NEW d \in Syncs, result'[d] = "ok", NEW i \in 1..Len(Batch(d))
                 PROVE  \E e \in Applied : e[2] = Batch(d)[i] /\ (e \in synced \/ e \in tables)
      BY <1>2, <1>3 DEF SyncedApplied
    <2>1. d \in Clients /\ d \notin Nulls
      BY QueueAssumption
    <2>2. CASE Member(d, n)
      <3>1. group.status = "ok" /\ pc[c] = "insert"
        BY <1>1, <1>5, <2>1, <2>2
      <3>2. c \in Syncs /\ Holds(d)
        BY <1>6, <2>1, <2>2, <3>1
      <3>3. PICK o \in 0..Len(group.updates) :
              /\ o + i \in 1..Len(group.updates)
              /\ GroupEntry(o + i) = <<last_sequence + o + i, Batch(d)[i]>>
              /\ GroupEntry(o + i) \in Applied
        BY <1>6, <2>1, <3>1, <3>2, HeldIsApplied DEF Views
      <3>4. GroupEntry(o + i) \in synced
        BY <3>1, <3>2, <3>3 DEF LogFirst, GroupEntries
      <3> QED
        BY <3>3, <3>4
    <2>3. CASE ~Member(d, n)
      BY <1>1, <2>1, <2>3 DEF Views, SyncedApplied
    <2> QED
      BY <2>2, <2>3
  <1>9. AcknowledgedVisible'
    <2> SUFFICES ASSUME NEW d \in Clients, result'[d] = "ok", d \notin Nulls
                 PROVE  \E s \in 1..last_sequence' : \A i \in 1..Len(Batch(d)) :
                          s + i - 1 <= last_sequence' /\ <<s + i - 1, Batch(d)[i]>> \in Applied
      BY <1>3 DEF AcknowledgedVisible
    <2>1. CASE Member(d, n)
      <3>1. pc[c] = "insert"
        BY <1>1, <1>5, <2>1
      <3>2. PICK o \in 0..Len(group.updates) : \A i \in 1..Len(Batch(d)) :
              /\ o + i \in 1..Len(group.updates)
              /\ GroupEntry(o + i) = <<last_sequence + o + i, Batch(d)[i]>>
              /\ GroupEntry(o + i) \in Applied
        BY <1>6, <2>1, <3>1, HeldIsApplied DEF Views
      <3>3. Len(Batch(d)) \in Nat /\ 1 \in 1..Len(Batch(d))
        BY BatchFacts
      <3>4. PICK s \in Nat : s = last_sequence + o + 1
        BY <1>3
      <3>5. s \in 1..last_sequence'
        BY <1>2, <1>3, <3>2, <3>3, <3>4
      <3>6. ASSUME NEW i \in 1..Len(Batch(d))
            PROVE  s + i - 1 <= last_sequence' /\ <<s + i - 1, Batch(d)[i]>> \in Applied
        <4>1. s + i - 1 = last_sequence + o + i /\ o \in Nat /\ i \in Nat
          BY <1>3, <3>3, <3>4
        <4>2. o + i <= Len(group.updates)
          BY <3>2
        <4>3. s + i - 1 <= last_sequence'
          BY <1>2, <1>3, <4>1, <4>2
        <4> QED
          BY <3>2, <4>1, <4>3
      <3> QED
        BY <3>5, <3>6
    <2>2. CASE ~Member(d, n)
      <3>1. PICK s \in 1..last_sequence : \A i \in 1..Len(Batch(d)) :
               s + i - 1 <= last_sequence /\ <<s + i - 1, Batch(d)[i]>> \in Applied
        BY <1>1, <2>2 DEF Views, AcknowledgedVisible
      <3>2. s \in 1..last_sequence' /\ last_sequence' \in Nat
        BY <1>2, <1>3
      <3>3. ASSUME NEW i \in 1..Len(Batch(d)) PROVE s + i - 1 <= last_sequence'
        <4>1. i \in Nat
          BY BatchFacts
        <4>2. s \in Nat
          BY <1>3
        <4>3. s + i - 1 <= last_sequence
          BY <3>1, Zenon
        <4> QED
          BY <1>3, <3>2, <4>1, <4>2, <4>3
      <3> QED
        BY <3>1, <3>2, <3>3
    <2> QED
      BY <2>1, <2>2
  <1>10. CASE pc[c] = "finish"
    <2>1. group.inserted = 0
      BY <1>1, <1>10 DEF GroupIs
    <2>2. \A e \in Applied : e[1] <= last_sequence
      BY <2>1 DEF Views, NumbersApplied
    <2>3. \A e \in Applied' : e[1] <= last_sequence'
      BY NumbersFinish DEF All
    <2>4. Seen' = Seen
      BY <1>3, <2>2, <2>3 DEF Seen
    <2>5. BatchesAtomic'
      BY <2>4 DEF Views, BatchesAtomic, Seen
    <2> QED
      BY <1>7, <1>8, <1>9, <2>5 DEF Views
  <1>11. CASE pc[c] = "insert"
    <2>1. \A e \in Applied' : e[1] <= last_sequence'
      BY NumbersFinish DEF All
    <2>2. Seen' = {e[2] : e \in Applied}
      BY <1>3, <2>1 DEF Seen
    <2>3. ASSUME NEW d \in Clients, Member(d, n) PROVE ToSet(Batch(d)) \subseteq Seen'
      <3>1. PICK o \in 0..Len(group.updates) : \A i \in 1..Len(Batch(d)) :
              /\ GroupEntry(o + i) = <<last_sequence + o + i, Batch(d)[i]>>
              /\ GroupEntry(o + i) \in Applied
        BY <1>6, <1>11, <2>3, HeldIsApplied DEF Views
      <3>2. \A i \in 1..Len(Batch(d)) : Batch(d)[i] \in Seen'
        BY <2>2, <3>1
      <3> QED
        BY <3>2, BatchFacts
    <2>4. ASSUME NEW d \in Clients, ~Member(d, n), NEW x \in ToSet(Batch(d))
          PROVE  x \in Seen' <=> x \in Seen
      <3>1. x[1] = d
        BY BatchFacts
      <3>2. ASSUME NEW e \in Applied, ~(e[1] <= last_sequence) PROVE e[2] # x
        <4>1. PICK k \in 1..group.inserted : e = GroupEntry(k)
          BY <3>2 DEF Views, NumbersApplied
        <4>2. k \in 1..Len(group.updates) /\ e[2] = group.updates[k]
          BY <1>6, <1>11, <4>1 DEF GroupEntry
        <4>3. PICK i \in 1..n : e[2] \in ToSet(Batch(writers[i]))
          BY <1>1, <4>2 DEF GroupIs
        <4>4. PICK f \in Clients : f = writers[i] /\ f # d
          BY <1>1, <2>4 DEF Member, Core, TypeOK
        <4>5. e[2][1] = f
          BY <4>3, <4>4, BatchFacts
        <4> QED
          BY <3>1, <4>4, <4>5
      <3> QED
        BY <2>2, <3>2 DEF Seen
    <2>5. BatchesAtomic'
      <3>1. ASSUME NEW d \in Clients
            PROVE  ToSet(Batch(d)) \subseteq Seen' \/ ToSet(Batch(d)) \cap Seen' = {}
        <4>1. CASE Member(d, n)
          BY <2>3, <4>1
        <4>2. CASE ~Member(d, n)
          BY <2>4, <4>2, AtomicIsSeen DEF Views
        <4> QED
          BY <4>1, <4>2
      <3> QED
        BY <3>1 DEF BatchesAtomic, Seen
    <2> QED
      BY <1>7, <1>8, <1>9, <2>5 DEF Views
  <1> QED
    BY <1>1, <1>10, <1>11

-----------------------------------------------------------------------------
(***************************************************************************)
(* Logs before memtables.                                                  *)
(***************************************************************************)

\* Numbers only grow.
LEMMA OrderedLater ==
  ASSUME NEW l \in LogFiles, NEW n \in Nat, NEW m \in Nat, Ordered(l, n), n <= m
  PROVE  Ordered(l, m)
  <1>1. CASE l.unsure = <<>>
    BY <1>1 DEF Ordered
  <1>2. CASE l.unsure # <<>>
    <2>1. l.unsure[1] \in Records
      BY <1>2 DEF LogFiles
    <2>2. l.unsure[1][1] \in Nat
      BY <2>1 DEF Records
    <2> QED
      BY <1>2, <2>2 DEF Ordered
  <1> QED
    BY <1>1, <1>2

\* A step of which the logs see nothing.
LEMMA LogsKept ==
  ASSUME Core, Logs, UNCHANGED <<log, old_log, mem, imm>>, synced \subseteq synced',
         last_sequence' \in Nat, last_sequence <= last_sequence',
         \A d \in Clients : pc'[d] \in {"sync", "insert"} =>
            pc[d] = pc'[d] /\ GroupEntries' = GroupEntries
  PROVE  Logs'
  <1>1. LogFirst' /\ MemoryLogged'
    BY DEF Logs, LogFirst, MemoryLogged
  <1>2. Ordered(log, last_sequence)' /\ Ordered(old_log, last_sequence)'
    BY OrderedLater DEF Logs, Core, TypeOK
  <1> QED
    BY <1>1, <1>2 DEF Logs

\* Only the leader logs, syncs or inserts.
LEMMA NobodyElse ==
  ASSUME Core, NEW c \in Clients, pc[c] \in Leading, NEW d \in Clients, d # c
  PROVE  pc[d] \notin Working
  BY OneLeader DEF Core, Leading

\* Steps that change neither the group nor what is logged or applied.
LEMMA RestKept ==
  ASSUME Core, Rest,
         UNCHANGED <<group, log, old_log, synced, mem, imm, tables, last_sequence>>,
         \A c \in Clients \ Nulls : result'[c] = result[c],
         \A d \in Clients : pc'[d] \in {"sync", "insert"} => pc[d] = pc'[d]
  PROVE  Rest'
  <1>1. /\ Applied' = Applied /\ All' = All /\ GroupEntries' = GroupEntries
    BY DEF Applied, All, GroupEntries, GroupEntry
  <1>2. Numbers'
    BY <1>1, NumbersStep DEF Rest
  <1>3. Views'
    BY <1>1, ViewsKept DEF Rest
  <1>4. Logs'
    BY <1>1, LogsKept DEF Rest, Core, TypeOK
  <1> QED
    BY <1>2, <1>3, <1>4 DEF Rest

\* Steps that change only the group, of which nothing is inserted.
LEMMA RestRegrouped ==
  ASSUME Core, Rest, GroupEntries \subseteq GroupEntries',
         group.inserted = 0, group'.inserted = 0,
         UNCHANGED <<result, log, old_log, synced, mem, imm, tables, last_sequence>>,
         \A d \in Clients : pc'[d] \notin {"sync", "insert"}
  PROVE  Rest'
  <1>1. Applied' = Applied /\ All' = All
    BY DEF Applied, All
  <1>2. Numbers'
    BY <1>1, NumbersStep DEF Rest
  <1>3. Views'
    BY <1>1, ViewsKept DEF Rest
  <1>4. Logs'
    BY LogsKept DEF Rest, Core, TypeOK
  <1> QED
    BY <1>2, <1>3, <1>4 DEF Rest

\* The leader gets its group.
LEMMA RestGroupMade ==
  ASSUME Core, Rest, NEW c \in Clients,
         \/ RoomError(c) \/ RoomFound(c)
         \/ (RoomSwitch(c) /\ group' = [NoGroup EXCEPT !.last = c, !.status = "error"]
                           /\ pc' = [pc EXCEPT ![c] = "finish"]
                           /\ UNCHANGED <<disk, mem, imm>>)
  PROVE  Rest'
  <1>1. /\ group'.inserted = 0 /\ pc[c] = "room"
        /\ pc' = [pc EXCEPT ![c] = pc'[c]] /\ pc'[c] \in {"gather", "finish"}
    BY GroupMadeCore
  <1>2. UNCHANGED <<result, log, old_log, synced, mem, imm, tables, last_sequence>>
    BY DEF RoomError, RoomFound, RoomSwitch, disk, tree
  <1>3. pc[c] \in Leading /\ pc[c] \notin Working
    BY <1>1 DEF Leading, Working, Building
  <1>4. \A d \in Clients : pc[d] \notin Working
    BY <1>3, NobodyElse
  <1>5. group = NoGroup
    BY <1>4 DEF Core, GroupSound
  <1>6. group.inserted = 0 /\ GroupEntries = {}
    <2>1. Len(group.updates) = 0 /\ group.inserted = 0
      BY <1>5 DEF NoGroup
    <2> QED
      BY <2>1 DEF GroupEntries
  <1>7. ASSUME NEW d \in Clients PROVE pc'[d] \notin {"sync", "insert"}
    <2>1. d # c => pc'[d] = pc[d]
      BY <1>1 DEF Core, TypeOK
    <2> QED
      BY <1>1, <1>4, <2>1 DEF Working, Building
  <1> QED
    BY <1>1, <1>2, <1>6, <1>7, RestRegrouped

LEMMA RestJoinGroup ==
  ASSUME Core, Rest, NEW c \in Clients, JoinGroup(c)
  PROVE  Rest'
  <1>1. /\ group'.seq = group.seq /\ group.inserted = 0 /\ group'.inserted = 0
        /\ Len(group.updates) \in Nat /\ Len(group.updates) <= Len(group'.updates)
        /\ \A i \in 1..Len(group.updates) : group'.updates[i] = group.updates[i]
    BY JoinGroupGroup DEF Core
  <1>2. /\ UNCHANGED <<pc, result, log, old_log, synced, mem, imm, tables, last_sequence>>
        /\ pc[c] = "gather"
    BY DEF JoinGroup, disk, tree
  <1>3. Len(group'.updates) \in Nat
    BY JoinGroupCore DEF Core, TypeOK
  <1>4. GroupEntries \subseteq GroupEntries'
    <2>1. ASSUME NEW i \in 1..Len(group.updates)
          PROVE  i \in 1..Len(group'.updates) /\ GroupEntry(i) = GroupEntry(i)'
      BY <1>1, <1>3 DEF GroupEntry
    <2> QED
      BY <2>1 DEF GroupEntries
  <1>5. ASSUME NEW d \in Clients PROVE pc'[d] \notin {"sync", "insert"}
    <2>1. pc[c] \in Leading
      BY <1>2 DEF Leading, Working, Building
    <2> QED
      BY <1>2, <2>1, NobodyElse DEF Working, Building
  <1> QED
    BY <1>1, <1>2, <1>4, <1>5, RestRegrouped

\* What the leader's steps do to the places of the calls and to the numbers.
LEMMA WorkFacts ==
  ASSUME Core, NEW c \in Clients, AddRecord(c) \/ Sync(c)
  PROVE  /\ group.inserted = 0 /\ group'.inserted = 0
         /\ GroupEntries' = GroupEntries
         /\ OfRecord(<<group.seq, group.updates>>) = GroupEntries
         /\ \A d \in Clients \ {c} : pc'[d] \notin {"sync", "insert"}
         /\ UNCHANGED <<result, old_log, mem, imm, tables, last_sequence>>
  <1>1. UNCHANGED <<result, old_log, mem, imm, tables, last_sequence>>
    BY DEF AddRecord, Sync, tree
  <1>2. pc[c] \in {"log", "sync"}
    BY DEF AddRecord, Sync
  <1>3. pc[c] \in Working /\ pc[c] \in Leading /\ pc[c] # "insert"
    BY <1>2 DEF Leading, Working, Building
  <1>4. group.inserted = 0
    BY <1>3 DEF Core, GroupSound, GroupIs
  <1>5. group'.inserted = 0
    BY <1>4 DEF AddRecord, Sync, Core, TypeOK
  <1>6. group'.updates = group.updates /\ group'.seq = group.seq
    BY GroupWorkedCore
  <1>7. GroupEntries' = GroupEntries
    BY <1>6 DEF GroupEntries, GroupEntry
  <1>8. OfRecord(<<group.seq, group.updates>>) = GroupEntries
    BY DEF OfRecord, GroupEntries, GroupEntry
  <1>9. ASSUME NEW d \in Clients \ {c} PROVE pc'[d] \notin {"sync", "insert"}
    <2>1. pc'[d] = pc[d]
      BY DEF AddRecord, Sync, Core, TypeOK
    <2> QED
      BY <1>3, <2>1, NobodyElse DEF Working, Building
  <1> QED
    BY <1>1, <1>4, <1>5, <1>7, <1>8, <1>9

LEMMA RestAddRecord ==
  ASSUME Core, Rest, NEW c \in Clients, AddRecord(c)
  PROVE  Rest'
  <1>1. /\ group.inserted = 0 /\ group'.inserted = 0
        /\ GroupEntries' = GroupEntries
        /\ OfRecord(<<group.seq, group.updates>>) = GroupEntries
        /\ \A d \in Clients \ {c} : pc'[d] \notin {"sync", "insert"}
        /\ UNCHANGED <<result, old_log, mem, imm, tables, last_sequence, synced>>
    BY WorkFacts DEF AddRecord
  <1>2. PICK w \in BOOLEAN : log' = Appended(log, <<group.seq, group.updates>>, w)
    BY DEF AddRecord
  <1>3. pc'[c] \in {"sync", "insert", "finish"} /\ (pc'[c] = "insert" => c \notin Syncs)
    BY DEF AddRecord, Core, TypeOK
  <1>4. Rest'
    <2> DEFINE r == <<group.seq, group.updates>>
    <2>1. log \in LogFiles /\ old_log \in LogFiles /\ r \in Records /\ last_sequence \in Nat
      BY DEF Core, TypeOK, Records
    <2>2. /\ Logged(log') = Logged(log) \cup GroupEntries
          /\ \/ log'.unsure = log.unsure
             \/ /\ log'.unsure[1] = IF log.unsure = <<>> THEN r ELSE log.unsure[1]
                /\ Recorded(log'.unsure) = Recorded(log.unsure) \cup GroupEntries
      BY <1>1, <1>2, <2>1, LogAppended
    <2>3. Applied' = Applied /\ All' = All \cup GroupEntries
      BY <1>1, <2>2 DEF Applied, All
    <2>4. Numbers'
      BY <1>1, <2>3, NumbersStep DEF Rest
    <2>5. Views'
      BY <1>1, <2>3, ViewsKept DEF Rest
    <2>6. LogFirst'
      BY <1>1, <1>3, <2>2 DEF LogFirst
    <2>7. MemoryLogged'
      BY <1>1, <2>2 DEF Rest, Logs, MemoryLogged
    <2>8. group.seq = last_sequence + 1
      <3>1. pc[c] = "log"
        BY DEF AddRecord
      <3>2. pc[c] \in Building /\ pc[c] \in Working
        BY <3>1 DEF Working, Building
      <3> QED
        BY <3>2 DEF Core, GroupSound, GroupIs
    <2>9. \A e \in GroupEntries : last_sequence + 1 <= e[1]
      BY <2>1, <2>8 DEF GroupEntries, GroupEntry
    <2>10. Ordered(log, last_sequence)'
      <3>1. Ordered(log, last_sequence)
        BY DEF Rest, Logs
      <3>2. CASE log'.unsure = log.unsure
        BY <1>1, <3>1, <3>2 DEF Ordered
      <3>3. CASE /\ log'.unsure[1] = IF log.unsure = <<>> THEN r ELSE log.unsure[1]
                 /\ Recorded(log'.unsure) = Recorded(log.unsure) \cup GroupEntries
        <4>1. CASE log.unsure = <<>>
          <5>1. log'.unsure[1][1] = last_sequence + 1
            BY <2>8, <3>3, <4>1
          <5>2. Recorded(log'.unsure) = GroupEntries
            BY <3>3, <4>1, RecordedNothing
          <5> QED
            BY <1>1, <2>1, <2>9, <5>1, <5>2 DEF Ordered
        <4>2. CASE log.unsure # <<>>
          <5>1. log'.unsure[1] = log.unsure[1]
            BY <3>3, <4>2
          <5>2. log.unsure[1] \in Records
            BY <2>1, <4>2 DEF LogFiles
          <5>3. log.unsure[1][1] \in Nat
            BY <5>2 DEF Records
          <5>4. \A e \in GroupEntries : log.unsure[1][1] <= e[1]
            <6>1. ASSUME NEW i \in 1..Len(group.updates)
                  PROVE  log.unsure[1][1] <= GroupEntry(i)[1]
              BY <2>1, <2>8, <3>1, <4>2, <5>3 DEF Ordered, GroupEntry
            <6> QED
              BY <6>1 DEF GroupEntries
          <5> QED
            BY <1>1, <3>1, <3>3, <4>2, <5>1, <5>4 DEF Ordered
        <4> QED
          BY <4>1, <4>2
      <3> QED
        BY <2>2, <3>2, <3>3
    <2>11. Ordered(old_log, last_sequence)'
      BY <1>1 DEF Rest, Logs
    <2> QED
      BY <2>4, <2>5, <2>6, <2>7, <2>10, <2>11 DEF Rest, Logs
  <1> QED
    BY <1>4

LEMMA RestSync ==
  ASSUME Core, Rest, NEW c \in Clients, Sync(c)
  PROVE  Rest'
  <1>1. /\ group.inserted = 0 /\ group'.inserted = 0
        /\ GroupEntries' = GroupEntries
        /\ \A d \in Clients \ {c} : pc'[d] \notin {"sync", "insert"}
        /\ UNCHANGED <<result, old_log, mem, imm, tables, last_sequence, log>>
    BY WorkFacts DEF Sync
  <1>2. CASE UNCHANGED synced /\ pc' = [pc EXCEPT ![c] = "finish"]
    <2>1. pc'[c] = "finish"
      BY <1>2 DEF Core, TypeOK
    <2>2. \A d \in Clients : pc'[d] \notin {"sync", "insert"}
      BY <1>1, <2>1
    <2> QED
      BY <1>1, <1>2, <2>2, RestRegrouped
  <1>3. CASE synced' = synced \cup Logged(log) /\ pc' = [pc EXCEPT ![c] = "insert"]
    <2>1. Applied' = Applied /\ All' = All
      BY <1>1 DEF Applied, All
    <2>2. Numbers'
      BY <1>1, <2>1, NumbersStep DEF Rest
    <2>3. Views'
      BY <1>1, <1>3, <2>1, ViewsKept DEF Rest
    <2>4. GroupEntries \subseteq Logged(log)
      BY DEF Sync, Rest, Logs, LogFirst
    <2>5. LogFirst'
      BY <1>1, <1>3, <2>4 DEF LogFirst
    <2>6. MemoryLogged' /\ Ordered(log, last_sequence)' /\ Ordered(old_log, last_sequence)'
      BY <1>1 DEF Rest, Logs, MemoryLogged
    <2> QED
      BY <2>2, <2>3, <2>5, <2>6 DEF Rest, Logs
  <1> QED
    BY <1>2, <1>3 DEF Sync

LEMMA RestInsertInto ==
  ASSUME Core, Rest, NEW c \in Clients, InsertInto(c)
  PROVE  Rest'
  <1>1. PICK e \in GroupEntries : mem' = mem \cup {e} /\ Applied' = Applied \cup {e}
    BY ViewsInsertInto DEF Rest
  <1>2. Views'
    BY ViewsInsertInto DEF Rest
  <1>3. /\ UNCHANGED <<pc, log, old_log, synced, imm, last_sequence>> /\ pc[c] = "insert"
    BY DEF InsertInto, disk
  <1>4. GroupEntries' = GroupEntries
    <2>1. group'.updates = group.updates /\ group'.seq = group.seq
      BY GroupWorkedCore
    <2> QED
      BY <2>1 DEF GroupEntries, GroupEntry
  <1>5. All' = All \cup {e}
    BY <1>1, <1>3 DEF All
  <1>6. Numbers'
    BY <1>3, <1>4, <1>5, NumbersStep DEF Rest
  <1>7. e \in Logged(log)
    BY <1>1, <1>3 DEF Rest, Logs, LogFirst
  <1>8. Logs'
    BY <1>1, <1>3, <1>4, <1>7 DEF Rest, Logs, LogFirst, MemoryLogged
  <1> QED
    BY <1>2, <1>6, <1>8 DEF Rest

LEMMA RestFinish ==
  ASSUME Core, Rest, NEW c \in Clients, Finish(c)
  PROVE  Rest'
  <1>1. Numbers' /\ Views'
    BY NumbersFinish, ViewsFinish DEF Rest, Logs
  <1>2. \A d \in Clients : pc'[d] \notin Leading
    BY FinishFacts DEF Core
  <1>3. \A d \in Clients : pc'[d] \notin {"sync", "insert"}
    BY <1>2 DEF Leading, Working, Building
  <1>4. UNCHANGED <<log, old_log, mem, imm, synced>>
    BY DEF Finish, disk, tree
  <1>5. last_sequence' \in Nat /\ last_sequence <= last_sequence'
    BY DEF Finish, NewLastSequence, Core, TypeOK
  <1>6. Logs'
    BY <1>3, <1>4, <1>5, LogsKept DEF Rest
  <1> QED
    BY <1>1, <1>6 DEF Rest

\* The memtable and its log change hands together.
LEMMA RestSwitch ==
  ASSUME Core, Rest, NEW c \in Clients, RoomSwitch(c),
         old_log' = log, log' = EmptyLog, imm' = {mem}, mem' = {},
         UNCHANGED <<pc, group, synced>>
  PROVE  Rest'
  <1>1. /\ imm = {} /\ pc[c] = "room"
        /\ UNCHANGED <<result, tables, last_sequence>>
    BY DEF RoomSwitch, MustWait, InRoom
  <1>2. Logged(old_log') = Logged(log) /\ Logged(log') = {} /\ log'.unsure = <<>>
    BY EmptyLogFacts
  <1>3. Applied' = Applied
    BY <1>1 DEF Applied
  <1>4. All' \subseteq All
    BY <1>2, <1>3 DEF All
  <1>5. GroupEntries' = GroupEntries
    BY DEF GroupEntries, GroupEntry
  <1>6. Numbers'
    BY <1>1, <1>4, <1>5, NumbersStep DEF Rest
  <1>7. Views'
    BY <1>1, <1>3, ViewsKept DEF Rest
  <1>8. LogFirst'
    <2>1. pc[c] \in Leading /\ pc[c] \notin Working
      BY <1>1 DEF Leading, Working, Building
    <2>2. \A d \in Clients : pc'[d] \notin Working
      BY <2>1, NobodyElse
    <2> QED
      BY <2>2 DEF LogFirst, Working, Building
  <1>9. MemoryLogged' /\ Ordered(log, last_sequence)' /\ Ordered(old_log, last_sequence)'
    BY <1>1, <1>2 DEF Rest, Logs, MemoryLogged, Ordered
  <1> QED
    BY <1>6, <1>7, <1>8, <1>9 DEF Rest, Logs

LEMMA RestBackground ==
  ASSUME Core, Rest, BackgroundCall
  PROVE  Rest'
  <1>1. /\ UNCHANGED <<result, group, log, synced, mem, last_sequence>>
        /\ pc' = SignalAll(pc)
    BY DEF BackgroundCall
  <1>2. \A d \in Clients : pc'[d] \in {"sync", "insert"} => pc[d] = pc'[d]
    BY <1>1, SignalFacts DEF Core, Working, Building
  <1>3. CASE UNCHANGED <<tables, imm, old_log>>
    BY <1>1, <1>2, <1>3, RestKept
  <1>4. CASE tables' = tables \cup UNION imm /\ imm' = {} /\ old_log' = EmptyLog
    <2>1. Applied' = Applied
      BY <1>1, <1>4 DEF Applied
    <2>2. Logged(old_log') = {} /\ old_log'.unsure = <<>>
      BY <1>4, EmptyLogFacts
    <2>3. All' \subseteq All
      BY <1>1, <2>1, <2>2 DEF All
    <2>4. GroupEntries' = GroupEntries
      BY <1>1 DEF GroupEntries, GroupEntry
    <2>5. Numbers'
      BY <1>1, <2>3, <2>4, NumbersStep DEF Rest
    <2>6. Views'
      BY <1>1, <1>4, <2>1, ViewsKept DEF Rest
    <2>7. LogFirst'
      BY <1>1, <1>2, <2>4 DEF Rest, Logs, LogFirst
    <2>8. MemoryLogged' /\ Ordered(log, last_sequence)' /\ Ordered(old_log, last_sequence)'
      BY <1>1, <1>4, <2>2 DEF Rest, Logs, MemoryLogged, Ordered
    <2> QED
      BY <2>5, <2>6, <2>7, <2>8 DEF Rest, Logs
  <1> QED
    BY <1>3, <1>4 DEF BackgroundCall

LEMMA RestStep ==
  ASSUME Core, Rest, [Next]_vars
  PROVE  Rest'
  <1>1. CASE UNCHANGED vars
    BY <1>1, RestKept DEF vars
  <1>2. ASSUME NEW c \in Clients,
               Enqueue(c) \/ Awake(c) \/ Lead(c) \/ RoomDelay(c) \/ RoomWait(c) \/ GroupBuilt(c)
        PROVE  Rest'
    <2>1. UNCHANGED <<group, log, old_log, synced, mem, imm, tables, last_sequence, result>>
      BY <1>2 DEF Enqueue, Awake, Lead, RoomDelay, RoomWait, GroupBuilt, disk, tree
    <2>2. \A d \in Clients : pc'[d] \in {"sync", "insert"} => pc[d] = pc'[d]
      BY <1>2 DEF Enqueue, Awake, Lead, RoomDelay, RoomWait, GroupBuilt, Core, TypeOK
    <2> QED
      BY <2>1, <2>2, RestKept
  <1>3. ASSUME NEW c \in Clients, FlushMemTable(c) PROVE Rest'
    <2>1. UNCHANGED <<group, log, old_log, synced, mem, imm, tables, last_sequence>>
      BY <1>3 DEF FlushMemTable, disk, tree
    <2>2. \A d \in Clients : pc'[d] \in {"sync", "insert"} => pc[d] = pc'[d]
      BY <1>3 DEF FlushMemTable, Core, TypeOK
    <2>3. c \in Nulls
      BY <1>3 DEF FlushMemTable, Core, QueueSound
    <2>4. \A d \in Clients \ Nulls : result'[d] = result[d]
      BY <1>3, <2>3 DEF FlushMemTable, Core, TypeOK
    <2> QED
      BY <2>1, <2>2, <2>4, RestKept
  <1>4. ASSUME NEW c \in Clients, RoomSwitch(c) PROVE Rest'
    <2>1. CASE /\ old_log' = log /\ log' = EmptyLog /\ imm' = {mem} /\ mem' = {}
               /\ UNCHANGED <<pc, group, synced>>
      BY <1>4, <2>1, RestSwitch
    <2>2. CASE /\ group' = [NoGroup EXCEPT !.last = c, !.status = "error"]
               /\ pc' = [pc EXCEPT ![c] = "finish"]
               /\ UNCHANGED <<disk, mem, imm>>
      BY <1>4, <2>2, RestGroupMade
    <2> QED
      BY <1>4, <2>1, <2>2 DEF RoomSwitch
  <1>5. ASSUME NEW c \in Clients, RoomError(c) \/ RoomFound(c) PROVE Rest'
    BY <1>5, RestGroupMade
  <1>6. ASSUME NEW c \in Clients,
               JoinGroup(c) \/ AddRecord(c) \/ Sync(c) \/ InsertInto(c) \/ Finish(c)
        PROVE  Rest'
    BY <1>6, RestJoinGroup, RestAddRecord, RestSync, RestInsertInto, RestFinish
  <1>7. CASE BackgroundCall
    BY <1>7, RestBackground
  <1> QED
    BY <1>1, <1>2, <1>3, <1>4, <1>5, <1>6, <1>7 DEF Next, Client

-----------------------------------------------------------------------------
(***************************************************************************)
(* Theorems.                                                               *)
(***************************************************************************)

\* What is logged is kept.
LEMMA KeptEntries ==
  ASSUME Core, Rest
  PROVE  /\ \A e \in Logged(log) : Kept(e, log)
         /\ \A e \in Logged(old_log) : Kept(e, old_log)
  <1>1. log \in LogFiles /\ old_log \in LogFiles
    BY DEF Core, TypeOK
  <1>2. Ordered(log, last_sequence) /\ Ordered(old_log, last_sequence)
    BY DEF Rest, Logs
  <1>3. \A e \in Logged(log) \cup Logged(old_log) : e[1] \in Nat
    BY AllType DEF Core, All
  <1> QED
    BY <1>1, <1>2, <1>3, OrderedKeeps

LEMMA InitInv == Init => Inv
  <1> SUFFICES ASSUME Init PROVE Inv
    OBVIOUS
  <1>1. \A c \in Clients : pc[c] = "idle" /\ result[c] = None
    BY DEF Init
  <1>2. TypeOK
    <2>1. pc \in [Clients -> States] /\ result \in [Clients -> Statuses \cup {None}]
      BY DEF Init, States
    <2>2. group \in GroupType
      BY NoGroupType DEF Init
    <2>3. bg_error \in Statuses
      BY DEF Init, Statuses
    <2>4. log \in LogFiles /\ old_log \in LogFiles
      BY EmptyLogFacts DEF Init
    <2> QED
      BY <2>1, <2>2, <2>3, <2>4 DEF Init, TypeOK, GroupType
  <1>3. QueueSound
    <2>1. Len(writers) = 0 /\ ToSet(writers) = {}
      BY DEF Init, ToSet
    <2> QED
      BY <1>1, <2>1 DEF QueueSound, Distinct, Leading, Working, Building
  <1>4. GroupSound
    BY <1>1 DEF Init, GroupSound, Working, Building
  <1>5. Applied = {} /\ Logged(log) = {} /\ Logged(old_log) = {} /\ All = {}
    BY EmptyLogFacts DEF Init, Applied, All
  <1>6. group.inserted = 0
    BY DEF Init, NoGroup
  <1>7. Numbers
    BY <1>5 DEF Numbers, NumbersGiven, SequencesUnique
  <1>8. None # "ok" /\ None # "sync error"
    BY DEF None
  <1>9. Seen = {}
    <2>1. {a \in Applied : a[1] <= last_sequence} = {}
      BY <1>5
    <2> QED
      BY <2>1 DEF Seen
  <1>10. BatchesAtomic
    BY <1>9, AtomicIsSeen
  <1>11. Views
    <2>1. NumbersApplied
      BY <1>5, <1>6 DEF NumbersApplied
    <2>2. SyncedApplied
      BY <1>1, <1>8, QueueAssumption DEF SyncedApplied
    <2>3. AcknowledgedVisible
      BY <1>1, <1>8 DEF AcknowledgedVisible
    <2> QED
      BY <1>10, <2>1, <2>2, <2>3 DEF Views
  <1>12. Logs
    BY <1>1, EmptyLogFacts DEF Init, Logs, LogFirst, MemoryLogged, Ordered
  <1>13. Stopped
    BY <1>1, <1>8 DEF Init, Stopped
  <1> QED
    BY <1>2, <1>3, <1>4, <1>7, <1>11, <1>12, <1>13 DEF Inv, Core, Rest

\* The queue, the group, the logs and the memtables agree in every state.
THEOREM Invariance == Spec => []Inv
  <1>1. Inv /\ [Next]_vars => Inv'
    BY CoreStep, RestStep, StoppedStep DEF Inv
  <1> QED
    BY <1>1, InitInv, PTL DEF Spec

\* DBImpl::Write gives no sequence number twice, also not after an append that
\* failed with its record in the file.
THEOREM SequenceNumbersUnique == Spec => []SequencesUnique
  <1>1. Inv => SequencesUnique
    BY DEF Inv, Rest, Numbers
  <1> QED
    BY <1>1, Invariance, PTL

\* Readers see every batch whole or not at all, and all of the acknowledged
\* ones, however calls are grouped (BuildBatchGroup) and flushed meanwhile.
THEOREM BatchesSeenWhole == Spec => []ReadersSeeBatches
  <1>1. Inv => ReadersSeeBatches
    BY DEF Inv, Rest, Views, ReadersSeeBatches
  <1> QED
    BY <1>1, Invariance, PTL

\* An acknowledged sync write was logged and synced, or is in a table, and what
\* is in memory is logged first, however appends and syncs fail: in front of the
\* first append to its log that failed, where a replay is sure to read it, or
\* with a number above that append's (DBImpl::Write, CompactMemTable).
THEOREM LoggedBeforeApplied == Spec => []NothingUnlogged
  <1>1. ASSUME Inv PROVE NothingUnlogged
    <2>1. \A e \in mem : Kept(e, log)
      BY <1>1, KeptEntries DEF Inv, Rest, Logs, MemoryLogged
    <2>2. \A e \in UNION imm : Kept(e, old_log)
      BY <1>1, KeptEntries DEF Inv, Rest, Logs, MemoryLogged
    <2>3. SyncedWritesDurable
      <3> SUFFICES ASSUME NEW c \in Syncs, result[c] = "ok", NEW x \in ToSet(Batch(c))
                   PROVE  \E e \in tables \cup synced :
                            e[2] = x /\ (e \in tables \/ Kept(e, log) \/ Kept(e, old_log))
        BY DEF SyncedWritesDurable
      <3>1. PICK i \in 1..Len(Batch(c)) : x = Batch(c)[i]
        BY BatchFacts, QueueAssumption
      <3>2. PICK e \in Applied : e[2] = x /\ (e \in synced \/ e \in tables)
        BY <1>1, <3>1 DEF Inv, Rest, Views, SyncedApplied
      <3>3. e \in tables \/ Kept(e, log) \/ Kept(e, old_log)
        BY <2>1, <2>2 DEF Applied
      <3> QED
        BY <3>2, <3>3
    <2> QED
      BY <2>1, <2>2, <2>3 DEF NothingUnlogged, LogCoversMemory
  <1> QED
    BY <1>1, Invariance, PTL

\* "All future writes fail": no step acknowledges a call after one has
\* returned the error of Sync (RecordBackgroundError).
THEOREM NoWriteAfterSyncError == Spec => SyncErrorFinal
  <1> DEFINE A == (\E d \in Clients : result[d] = "sync error") =>
                     \A c \in Clients : result'[c] = "ok" => result[c] = "ok"
  <1>1. Inv /\ [Next]_vars => [A]_vars
    <2> SUFFICES ASSUME Inv, Next, NEW e \in Clients, result[e] = "sync error",
                        NEW d \in Clients, result'[d] = "ok"
                 PROVE  result[d] = "ok"
      OBVIOUS
    <2>1. /\ bg_error # "ok"
          /\ \A c \in Clients : pc[c] \notin Building /\ (pc[c] = "finish" => group.status # "ok")
      BY DEF Inv, Stopped
    <2>2. CASE UNCHANGED result
      BY <2>2
    <2>3. ASSUME NEW c \in Clients, FlushMemTable(c) PROVE result[d] = "ok"
      BY <2>1, <2>3 DEF FlushMemTable, Inv, Core, TypeOK
    <2>4. ASSUME NEW c \in Clients, Finish(c) PROVE result[d] = "ok"
      <3>1. /\ pc[c] \in {"finish", "insert"}
            /\ result'[d] = group.status \/ result'[d] = result[d]
        BY <2>4, FinishFacts DEF Inv, Core
      <3>2. group.status # "ok"
        BY <2>1, <3>1 DEF Building
      <3> QED
        BY <3>1, <3>2
    <2> QED
      BY <2>2, <2>3, <2>4 DEF Next, Client, Enqueue, Awake, Lead, RoomError, RoomDelay, RoomWait,
         RoomSwitch, RoomFound, JoinGroup, GroupBuilt, AddRecord, Sync, InsertInto, BackgroundCall
  <1>2. Spec => [][A]_vars
    BY <1>1, Invariance, PTL DEF Spec
  <1> QED
    BY <1>2 DEF SyncErrorFinal
=============================================================================
