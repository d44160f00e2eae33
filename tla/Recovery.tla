------------------------------ MODULE Recovery ------------------------------
(***************************************************************************)
(* The files of a leveldb database and what opening it makes of them after *)
(* a crash: logs, tables, manifests and CURRENT (db/db_impl.cc,            *)
(* db/version_set.cc, db/filename.cc), with the background thread that     *)
(* writes tables, readers that pin versions, and the deletion of files     *)
(* nobody needs.                                                           *)
(*                                                                         *)
(* A crash loses any suffix of what was appended to a file after its last  *)
(* Sync; creating, renaming and deleting files takes effect in order.      *)
(* reuse_logs is off, as in the app.  A write is <<sequence, id>>.  The     *)
(* edits of a manifest are held decoded: VersionEdit models their bytes.   *)
(***************************************************************************)
EXTENDS Integers, Sequences, FiniteSets, FiniteSetsExt

CONSTANTS MaxWrites, MaxRestarts, MaxFaults, Trigger

VARIABLES
    logs,        \* on disk: number -> [recs, synced]
    tables,      \* on disk: number -> [data, whole, level]
    manifests,   \* on disk: number -> [edits, synced]
    current,     \* the manifest CURRENT names, 0 when there is none
    temps,       \* numbers of the .dbtmp files
    phase,       \* where DB::Open is; "up", "closing", "down" or "corrupt"
    vset,        \* VersionSet: [next_file, manifest, log_number, last]
    versions,    \* number -> [files, refs], the list of versions
    mem, imm,    \* imm is {} for NULL, else one memtable
    logfile,     \* logfile_number_
    todo,        \* logs still to be replayed
    edit,        \* the edit LogAndApply writes, or None
    flush, comp, \* the background thread's table and compaction, or None
    pending,     \* pending_outputs_
    bg_ok,       \* bg_error_.ok()
    reader,      \* the version an iterator holds, or 0
    written, promised, opened, restarts, faults   \* the run's history

vars == <<logs, tables, manifests, current, temps, phase, vset, versions, mem,
          imm, logfile, todo, edit, flush, comp, pending, bg_ok, reader,
          written, promised, opened, restarts, faults>>
disk == <<logs, tables, manifests, current, temps>>
memory == <<mem, imm, logfile>>
background == <<flush, comp, pending, bg_ok>>
history == <<written, promised, opened, restarts, faults>>

None == <<>>
NoVset == [next_file |-> 0, manifest |-> 0, log_number |-> 0, last |-> 0]
\* A number that is not set: has_log_number_ and its like are false
Unset == -1
Edit(log, next, last, del, add) ==
    [log |-> log, next |-> next, last |-> last, del |-> del, add |-> add, logged |-> FALSE]

\* A directory: what is under a name is replaced; some of the files are kept.
Put(f, n, x) == [i \in DOMAIN f \cup {n} |-> IF i = n THEN x ELSE f[i]]
Restrict1(f, S) == [x \in DOMAIN f \cap S |-> f[x]]
Without(f, n) == Restrict1(f, DOMAIN f \ {n})

Init ==
    /\ logs = None /\ tables = None /\ manifests = None
    /\ current = 0 /\ temps = {} /\ phase = "down" /\ vset = NoVset
    /\ versions = None /\ mem = {} /\ imm = {} /\ logfile = 0 /\ todo = {}
    /\ edit = None /\ flush = None /\ comp = None /\ pending = {} /\ bg_ok = TRUE
    /\ reader = 0 /\ written = 0 /\ promised = {} /\ opened = FALSE
    /\ restarts = 0 /\ faults = 0

Fails == faults < MaxFaults /\ faults' = faults + 1 /\ UNCHANGED <<written, promised, opened, restarts>>

-----------------------------------------------------------------------------
(* Versions.                                                               *)

CurrentVersion(vs) == Max(DOMAIN vs)
Ref(vs, v) == [vs EXCEPT ![v].refs = @ + 1]
\* ~Version takes it off the list, and its files with it.
Destroyed(vs, v) == Without(vs, v)
Unref(vs, v) ==
    IF vs[v].refs = 1 THEN Destroyed(vs, v)
    ELSE [vs EXCEPT ![v].refs = @ - 1]

\* AppendVersion: the new version is current, the old one loses its reference.
AppendVersion(vs, files) ==
    IF vs = None THEN Put(vs, 1, [files |-> files, refs |-> 1])
    ELSE LET c == CurrentVersion(vs)
         IN  Put(Unref(vs, c), c + 1, [files |-> files, refs |-> 1])
CurrentFiles == versions[CurrentVersion(versions)].files

\* VersionSet::Builder: a file is deleted unless the edit that deletes it, or a
\* later one, adds it.
AddedFiles(edits) == UNION {edits[i].add : i \in DOMAIN edits}
DeletedFiles(edits) ==
    {t \in UNION {edits[i].del : i \in DOMAIN edits} :
        \E i \in DOMAIN edits : /\ t \in edits[i].del
                               /\ \A j \in DOMAIN edits : j >= i => t \notin edits[j].add}
SaveTo(base, edits) == (base \cup AddedFiles(edits)) \ DeletedFiles(edits)
Applied(files, e) == SaveTo(files, <<e>>)
AddLiveFiles(vs) == UNION {vs[v].files : v \in DOMAIN vs}

Live(vs, pend) == pend \cup AddLiveFiles(vs)

KeptLogs(lg, log_number) ==
    Restrict1(lg, {n \in DOMAIN lg : n >= log_number})

\* DeleteObsoleteFiles, given the logs, tables and manifests there are.
DeleteObsoleteFiles(lg, mf, vs, pend, log_number, ok) ==
    /\ tables' = IF ok THEN Restrict1(tables, Live(vs, pend)) ELSE tables
    /\ logs' = IF ok THEN KeptLogs(lg, log_number) ELSE lg
    /\ manifests' =
          IF ok THEN Restrict1(mf, {n \in DOMAIN mf : n >= vset.manifest}) ELSE mf
    /\ temps' = IF ok THEN temps \cap Live(vs, pend) ELSE temps

-----------------------------------------------------------------------------
(* DB::Open.                                                               *)

\* NewDB is called when there is no CURRENT.
Open ==
    /\ phase = "down"
    /\ phase' = IF current = 0 THEN "new" ELSE "recover"
    /\ UNCHANGED <<disk, vset, versions, memory, todo, edit, background,
                   reader, history>>

\* The first manifest is closed, not synced.
NewDB ==
    /\ phase = "new"
    /\ manifests' = Put(manifests, 1, [edits |-> <<Edit(0, 2, 0, {}, {})>>, synced |-> 0])
    /\ vset' = [NoVset EXCEPT !.manifest = 1]
    /\ phase' = "new_temp"
    /\ UNCHANGED <<logs, tables, current, temps, versions, memory, todo, edit,
                   background, reader, history>>

\* SetCurrentFile: the name is written to a temporary file and synced...
WriteTempFile ==
    /\ phase \in {"new_temp", "temp"}
    /\ temps' = temps \cup {vset.manifest}
    /\ phase' = IF phase = "temp" THEN "rename" ELSE "new_rename"
    /\ UNCHANGED <<logs, tables, manifests, current, vset, versions, memory,
                   todo, edit, background, reader, history>>

\* ... and the file renamed.
RenameTempFile ==
    /\ phase \in {"new_rename", "rename"}
    /\ current' = vset.manifest /\ temps' = temps \ {vset.manifest}
    /\ phase' = IF phase = "rename" THEN "install" ELSE "recover"
    /\ UNCHANGED <<logs, tables, manifests, vset, versions, memory, todo, edit,
                   background, reader, history>>

\* Either may fail.  The temporary file is removed, and a manifest that was to
\* replace another one too; Open returns the error.
OpenFails ==
    /\ Fails /\ phase' = "down" /\ vset' = NoVset /\ versions' = None /\ edit' = None
    /\ mem' = {} /\ logfile' = 0

SetCurrentFileFails ==
    /\ phase \in {"new_temp", "new_rename", "temp", "rename"}
    /\ OpenFails
    /\ temps' = temps \ {vset.manifest}
    /\ manifests' = IF phase \in {"temp", "rename"} THEN Without(manifests, vset.manifest) ELSE manifests
    /\ UNCHANGED <<logs, tables, current, imm, todo, background, reader>>

\* The last value a number is given, and what the edits add up to.
LastSet(values) ==
    LET set == {i \in DOMAIN values : values[i] # Unset}
    IN  IF set = {} THEN Unset ELSE values[Max(set)]
Replay(edits) ==
    [files |-> SaveTo({}, edits),
     log |-> LastSet([i \in DOMAIN edits |-> edits[i].log]),
     next |-> LastSet([i \in DOMAIN edits |-> edits[i].next]),
     last |-> LastSet([i \in DOMAIN edits |-> edits[i].last])]

MarkFileNumberUsed(next, n) == IF next <= n THEN n + 1 ELSE next

\* (mutant) The log the manifest names is taken for done.
LogsAfter(log_number) == {n \in DOMAIN logs : n > log_number}

LogsToReplay(log_number) == {n \in DOMAIN logs : n >= log_number}

\* The files the manifest names and the directory has not.
Missing(files) == files \ DOMAIN tables

\* VersionSet::Recover reads the manifest; DBImpl::Recover looks for the
\* tables it names and for logs not older than the one it names.
Recover ==
    /\ phase = "recover"
    /\ LET s == Replay(IF current \in DOMAIN manifests
                       THEN manifests[current].edits ELSE <<>>)
       IN  IF \/ s.next = Unset \/ s.log = Unset \/ s.last = Unset
              \/ Missing(s.files) # {}
           THEN /\ phase' = "corrupt" /\ UNCHANGED <<vset, versions, todo, edit>>
           ELSE /\ phase' = "replay"
                /\ vset' = [next_file |-> MarkFileNumberUsed(s.next + 1, s.log),
                            manifest |-> s.next, log_number |-> s.log, last |-> s.last]
                /\ versions' = AppendVersion(None, s.files)
                /\ todo' = LogsToReplay(s.log)
                /\ edit' = Edit(Unset, Unset, Unset, {}, {})
    /\ UNCHANGED <<disk, memory, background, reader, history>>

MarkLog(next, n) == MarkFileNumberUsed(next, n)
MaxSequence(last, recs) == Max({last} \cup {recs[i][1] : i \in 1..Len(recs)})

\* Logs are replayed in the order in which they were generated.
OldestLog(numbers) == Min(numbers)

\* RecoverLogFile: the records of the oldest log become a table.  A log beyond
\* write_buffer_size, which would become several tables of the same edit, and
\* the branches of reuse_logs and paranoid_checks, both off, are left out.
RecoverLogFile ==
    /\ phase = "replay" /\ todo # {}
    /\ LET n == OldestLog(todo)
           recs == logs[n].recs
           t == vset.next_file
           next == IF recs = <<>> THEN t ELSE t + 1
       IN  /\ todo' = todo \ {n}
           /\ vset' = [vset EXCEPT !.next_file = MarkLog(next, n),
                                   !.last = MaxSequence(@, recs)]
           /\ IF recs = <<>> THEN UNCHANGED <<tables, edit>>
              ELSE /\ tables' = Put(tables, t, [data |-> {recs[i] : i \in 1..Len(recs)},
                                                whole |-> TRUE, level |-> 0])
                   /\ edit' = [edit EXCEPT !.add = @ \cup {t}]
    /\ UNCHANGED <<logs, manifests, current, temps, phase, versions, memory,
                   background, reader, history>>

\* A new log file; one of that number is truncated.
NewLog ==
    /\ phase = "replay" /\ todo = {}
    /\ logs' = Put(logs, vset.next_file, [recs |-> <<>>, synced |-> 0])
    /\ logfile' = vset.next_file /\ mem' = {}
    /\ vset' = [vset EXCEPT !.next_file = @ + 1]
    /\ edit' = Edit(logfile', vset'.next_file, vset.last, {}, edit.add)
    /\ phase' = "manifest"
    /\ UNCHANGED <<tables, manifests, current, temps, versions, imm, todo,
                   background, reader, history>>

\* LogAndApply opens a new manifest with a snapshot of the version.
WriteSnapshot ==
    /\ phase = "manifest"
    /\ manifests' = Put(manifests, vset.manifest,
          [edits |-> <<Edit(Unset, Unset, Unset, {}, CurrentFiles)>>, synced |-> 0])
    /\ phase' = "edit"
    /\ UNCHANGED <<logs, tables, current, temps, vset, versions, memory, todo,
                   edit, background, reader, history>>

\* (mutant) CURRENT is set before the manifest is on disk.
AppendedUnsynced(m, e) == [m EXCEPT !.edits = Append(@, e)]

Appended(m, e) == [edits |-> Append(m.edits, e), synced |-> Len(m.edits) + 1]

\* The edit follows and is synced; if that fails the new manifest goes away
\* and Open returns the error.
WriteFirstEdit ==
    /\ phase = "edit"
    /\ \/ /\ manifests' = [manifests EXCEPT ![vset.manifest] = Appended(@, edit)]
          /\ phase' = "temp"
          /\ UNCHANGED <<vset, versions, edit, memory, history>>
       \/ /\ OpenFails
          /\ manifests' = Without(manifests, vset.manifest)
          /\ UNCHANGED imm
    /\ UNCHANGED <<logs, tables, current, temps, todo, background, reader>>

InstallFirst ==
    /\ phase = "install"
    /\ versions' = AppendVersion(versions, Applied(CurrentFiles, edit))
    /\ vset' = [vset EXCEPT !.log_number = edit.log]
    /\ DeleteObsoleteFiles(logs, manifests, versions', pending, edit.log, TRUE)
    /\ edit' = None /\ phase' = "up" /\ opened' = TRUE
    /\ UNCHANGED <<current, memory, todo, background, reader, written, promised,
                   restarts, faults>>

-----------------------------------------------------------------------------
(* The open database.                                                      *)

\* A write is logged, synced if asked for, and enters the memtable.
Write(sync) ==
    /\ phase = "up" /\ bg_ok /\ written < MaxWrites
    /\ LET w == <<vset.last + 1, written + 1>>
           recs == Append(logs[logfile].recs, w)
       IN  /\ logs' = [logs EXCEPT ![logfile] =
                          [recs |-> recs, synced |-> IF sync THEN Len(recs) ELSE @.synced]]
           /\ mem' = mem \cup {w}
           /\ vset' = [vset EXCEPT !.last = @ + 1]
           /\ written' = written + 1
           /\ promised' = IF sync THEN promised \cup {w} ELSE promised
    /\ UNCHANGED <<tables, manifests, current, temps, phase, versions, imm,
                   logfile, todo, edit, background, reader, opened, restarts, faults>>

\* MakeRoomForWrite: a new log and memtable.
SwitchMemTable ==
    /\ phase = "up" /\ bg_ok /\ imm = {} /\ mem # {}
    /\ logs' = Put(logs, vset.next_file, [recs |-> <<>>, synced |-> 0])
    /\ logfile' = vset.next_file
    /\ vset' = [vset EXCEPT !.next_file = @ + 1]
    /\ imm' = {mem} /\ mem' = {}
    /\ UNCHANGED <<tables, manifests, current, temps, phase, versions, todo,
                   edit, background, reader, history>>

NewIterator ==
    /\ phase = "up" /\ reader = 0
    /\ reader' = CurrentVersion(versions)
    /\ versions' = Ref(versions, reader')
    /\ UNCHANGED <<disk, phase, vset, memory, todo, edit, background, history>>

CleanupIteratorState ==
    /\ reader # 0
    /\ versions' = Unref(versions, reader) /\ reader' = 0
    /\ UNCHANGED <<disk, phase, vset, memory, todo, edit, background, history>>

-----------------------------------------------------------------------------
(* The background thread.                                                  *)

Running == phase \in {"up", "closing"}
Merging == comp # None /\ ~comp.done

\* CompactMemTable, called by itself or from within a compaction.
WriteLevel0Table ==
    /\ phase = "up" /\ imm # {} /\ flush = None /\ edit = None
    /\ Merging \/ (comp = None /\ bg_ok)
    /\ flush' = [number |-> vset.next_file, base |-> CurrentVersion(versions)]
    /\ tables' = Put(tables, vset.next_file, [data |-> {}, whole |-> FALSE, level |-> 0])
    /\ pending' = pending \cup {vset.next_file}
    /\ vset' = [vset EXCEPT !.next_file = @ + 1]
    /\ versions' = Ref(versions, flush'.base)
    /\ UNCHANGED <<logs, manifests, current, temps, phase, memory, todo, edit,
                   comp, bg_ok, reader, history>>

\* BuildTable returns: the table is synced, or removed.
BuildTable ==
    /\ Running /\ flush # None /\ edit = None
    /\ versions' = Unref(versions, flush.base)
    /\ pending' = pending \ {flush.number}
    /\ \/ /\ tables' = [tables EXCEPT ![flush.number] =
                           [data |-> UNION imm, whole |-> TRUE, level |-> 0]]
          /\ IF phase = "closing"
             THEN flush' = None /\ bg_ok' = FALSE /\ UNCHANGED edit
             ELSE /\ edit' = Edit(logfile, vset.next_file, vset.last, {}, {flush.number})
                  /\ UNCHANGED <<flush, bg_ok>>
          /\ UNCHANGED history
       \/ /\ Fails
          /\ tables' = Without(tables, flush.number)
          /\ flush' = None /\ bg_ok' = FALSE /\ UNCHANGED edit
    /\ UNCHANGED <<logs, manifests, current, temps, phase, vset, memory, todo,
                   comp, reader>>

\* BackgroundCompaction with no memtable to flush.
StartCompaction ==
    /\ phase = "up" /\ bg_ok /\ imm = {} /\ comp = None /\ flush = None /\ edit = None
    /\ Cardinality({t \in CurrentFiles : tables[t].level = 0}) >= Trigger
    /\ comp' = [v |-> CurrentVersion(versions), inputs |-> CurrentFiles,
                outs |-> {}, done |-> FALSE]
    /\ versions' = Ref(versions, comp'.v)
    /\ UNCHANGED <<disk, phase, vset, memory, todo, edit, flush, pending, bg_ok,
                   reader, history>>

\* (mutant) The new file is not entered into pending_outputs_.
NotPending(n) == pending

Pending(n) == pending \cup {n}

OpenCompactionOutputFile ==
    /\ phase = "up" /\ Merging /\ comp.outs = {} /\ flush = None
    /\ LET n == vset.next_file
       IN  /\ pending' = Pending(n)
           /\ comp' = [comp EXCEPT !.outs = {n}]
           /\ tables' = Put(tables, n, [data |-> {}, whole |-> FALSE, level |-> 0])
    /\ vset' = [vset EXCEPT !.next_file = @ + 1]
    /\ UNCHANGED <<logs, manifests, current, temps, phase, versions, memory,
                   todo, edit, flush, bg_ok, reader, history>>

\* CleanupCompaction and ReleaseInputs.
Cleanup ==
    /\ pending' = pending \ comp.outs
    /\ versions' = Unref(versions, comp.v)
    /\ comp' = None

\* DoCompactionWork returns an error, which stays (RecordBackgroundError).
CompactionFails == Cleanup /\ bg_ok' = FALSE

\* The merge is over: the last output is synced, or the compaction fails, as
\* it does when the database is being closed.
FinishCompactionOutputFile ==
    /\ Running /\ Merging /\ flush = None /\ edit = None
    /\ \/ /\ phase = "up" /\ comp.outs # {}
          /\ tables' = [n \in DOMAIN tables |->
                IF n \in comp.outs
                THEN [data |-> UNION {tables[i].data : i \in comp.inputs},
                      whole |-> TRUE, level |-> 1]
                ELSE tables[n]]
          /\ edit' = Edit(vset.log_number, vset.next_file, vset.last,
                          comp.inputs, comp.outs)
          /\ comp' = [comp EXCEPT !.done = TRUE]
          /\ UNCHANGED <<pending, versions, bg_ok, history>>
       \/ /\ phase = "up" /\ Fails /\ CompactionFails
          /\ UNCHANGED <<tables, edit>>
       \/ /\ phase = "closing" /\ CompactionFails
          /\ UNCHANGED <<tables, edit, history>>
    /\ UNCHANGED <<logs, manifests, current, temps, phase, vset, memory, todo,
                   flush, reader>>

\* LogAndApply appends the edit to the manifest...
LogEdit ==
    /\ Running /\ edit # None
    /\ ~edit.logged
    /\ edit' = [edit EXCEPT !.logged = TRUE]
    /\ manifests' = [manifests EXCEPT ![vset.manifest].edits = Append(@, edit)]
    /\ UNCHANGED <<logs, tables, current, temps, phase, vset, versions, memory,
                   todo, background, reader, history>>

\* ... syncs it and installs the new version; then what is no longer needed
\* is deleted.
InstallVersion ==
    /\ Running /\ edit # None
    /\ edit.logged
    /\ LET m == manifests[vset.manifest]
           synced == [manifests EXCEPT ![vset.manifest].synced = Len(m.edits)]
           next == AppendVersion(versions, Applied(CurrentFiles, edit))
       IN  /\ versions' = IF flush # None THEN next ELSE Unref(next, comp.v)
           /\ pending' = IF flush # None THEN pending ELSE pending \ comp.outs
           /\ IF flush # None THEN flush' = None /\ imm' = {} /\ UNCHANGED comp
              ELSE comp' = None /\ UNCHANGED <<flush, imm>>
           /\ vset' = [vset EXCEPT !.log_number = edit.log]
           /\ DeleteObsoleteFiles(logs, synced, versions', pending', edit.log, bg_ok)
    /\ edit' = None
    /\ UNCHANGED <<current, phase, mem, logfile, todo, bg_ok, reader, history>>

\* The manifest cannot be written: the edit may be in it all the same.  From
\* now on nothing is deleted.
LogAndApplyFails ==
    /\ Running /\ edit # None /\ Fails
    /\ IF flush # None THEN flush' = None /\ UNCHANGED <<comp, pending, versions>>
       ELSE Cleanup /\ UNCHANGED flush
    /\ bg_ok' = FALSE /\ edit' = None
    /\ UNCHANGED <<disk, phase, vset, memory, todo, reader>>

-----------------------------------------------------------------------------
(* Closing and crashing.                                                   *)

Forget ==
    /\ phase' = "down" /\ vset' = NoVset /\ versions' = None
    /\ mem' = {} /\ imm' = {} /\ logfile' = 0 /\ todo' = {} /\ edit' = None
    /\ flush' = None /\ comp' = None /\ pending' = {} /\ bg_ok' = TRUE /\ reader' = 0

\* ~DBImpl waits for the background thread.
Close ==
    /\ phase = "up" /\ reader = 0 /\ restarts < MaxRestarts
    /\ phase' = "closing" /\ restarts' = restarts + 1
    /\ UNCHANGED <<disk, vset, versions, memory, todo, edit, background, reader,
                   written, promised, opened, faults>>

CloseDone ==
    /\ phase = "closing" /\ flush = None /\ comp = None /\ edit = None
    /\ Forget
    /\ UNCHANGED <<disk, history>>

\* What a crash may leave of an append-only file.
CutLog(l) == {[recs |-> SubSeq(l.recs, 1, k), synced |-> k] : k \in l.synced..Len(l.recs)}
CutManifest(m) == {[edits |-> SubSeq(m.edits, 1, k), synced |-> k] : k \in m.synced..Len(m.edits)}
Remains(f, Cut(_)) == {g \in [DOMAIN f -> UNION {Cut(f[n]) : n \in DOMAIN f}] :
                          \A n \in DOMAIN f : g[n] \in Cut(f[n])}

Crash ==
    /\ phase \notin {"down", "corrupt"} /\ restarts < MaxRestarts
    /\ restarts' = restarts + 1
    /\ logs' \in Remains(logs, CutLog)
    /\ manifests' \in Remains(manifests, CutManifest)
    /\ Forget
    /\ UNCHANGED <<tables, current, temps, written, promised, opened, faults>>

\* What happens between two restarts.
Steps ==
    \/ Open \/ NewDB \/ WriteTempFile \/ RenameTempFile \/ SetCurrentFileFails \/ Recover
    \/ RecoverLogFile \/ NewLog \/ WriteSnapshot \/ WriteFirstEdit \/ InstallFirst
    \/ Write(TRUE) \/ Write(FALSE) \/ SwitchMemTable
    \/ NewIterator \/ CleanupIteratorState
    \/ WriteLevel0Table \/ BuildTable \/ StartCompaction
    \/ OpenCompactionOutputFile \/ FinishCompactionOutputFile
    \/ LogEdit \/ InstallVersion \/ LogAndApplyFails
    \/ CloseDone

Next == Steps \/ Close \/ Crash

Spec == Init /\ [][Next]_vars

-----------------------------------------------------------------------------
(* Properties.                                                             *)

Data == mem \cup (UNION imm) \cup UNION {tables[t].data : t \in CurrentFiles \cap DOMAIN tables}

\* No write that was acknowledged with sync (WriteOptions::sync) is missing from
\* an open database, however often it crashed in between.
SyncedKept == phase = "up" => promised \subseteq Data

\* A sequence number stands for one write, also when writes that a crash took
\* away had used numbers before, and LastSequence is not behind any write.
OneWritePerSequence ==
    phase = "up" => \A a, b \in Data : a[1] <= vset.last /\ (a[1] = b[1] => a = b)

\* Every table of every version that is still referenced, by a reader or by a
\* compaction, exists and is complete.
LiveFilesOnDisk ==
    \A v \in DOMAIN versions : \A t \in versions[v].files :
       t \in DOMAIN tables /\ (phase \in {"up", "closing"} => tables[t].whole)

\* Once a database was opened it can be opened again after any crash.
CanBeOpened == opened => phase # "corrupt"

\* A version has one reference for being current and one for each of its
\* users: dropped too early its files would vanish under a reader, and never
\* dropped they would stay for ever.
ReferencesExact ==
    Running => \A v \in DOMAIN versions :
       versions[v].refs = (IF v = CurrentVersion(versions) THEN 1 ELSE 0)
                        + (IF v = reader THEN 1 ELSE 0)
                        + (IF comp # None /\ v = comp.v THEN 1 ELSE 0)
                        + (IF flush # None /\ edit = None /\ v = flush.base THEN 1 ELSE 0)

\* The files of a version stay as long as it has a user (Version::Unref,
\* AddLiveFiles, pending_outputs_).
VersionsSound == LiveFilesOnDisk /\ ReferencesExact
=============================================================================
