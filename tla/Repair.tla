------------------------------- MODULE Repair -------------------------------
(***************************************************************************)
(* db/repair.cc: RepairDB, run on the files a database left behind when it *)
(* was closed, crashed or could not be opened, and the database opened     *)
(* again afterwards (Recovery).                                            *)
(*                                                                         *)
(* A file that is archived is renamed out of the directory and so is gone  *)
(* from it.  A step of the repair is one file; it may be cut off by a      *)
(* crash after any of them.                                                *)
(***************************************************************************)
EXTENDS Recovery, VersionEdit, FileName

\* Bounds: repairs follow each other with the database not opened in between, and
\* are begun after at most MaxWritesBefore writes, the first one while there is a
\* restart left; a database that was repaired is flushed but not compacted, and has
\* no iterators.
CONSTANTS MaxRepairs, MaxWritesBefore

VARIABLE rep   \* the Repairer, with its history

\* torn: a repair has moved logs away and has not come to its end since; early:
\* the database was opened in between.  logs, scan and old are what is left of
\* logs_, table_numbers_ and manifests_; good is tables_, last the greatest
\* max_sequence in it.
NoRepairer == [count |-> 0, ok |-> FALSE, torn |-> FALSE, early |-> FALSE, logs |-> {}, scan |-> {},
               old |-> {}, good |-> {}, last |-> 0, next |-> 1]

\* Nothing of an open database changes while it is repaired.
closed == <<vset, versions, memory, todo, edit, background, reader>>

Ended(status) == [NoRepairer EXCEPT !.count = rep.count, !.ok = status,
                                    !.torn = rep.torn /\ ~status, !.early = rep.early]
\* Run returns.
Returned(status) == phase' = "down" /\ rep' = Ended(status)

-----------------------------------------------------------------------------
\* GetChildren
Children ==
    {LogFileName(n) : n \in DOMAIN logs} \cup {TableFileName(n) : n \in DOMAIN tables}
      \cup {DescriptorFileName(n) : n \in DOMAIN manifests} \cup {TempFileName(n) : n \in temps}
      \cup (IF current = 0 THEN {} ELSE {CurrentFileName}) \cup {LockFileName, InfoLogFileName}

Numbers(type) == {f.number : f \in {g \in {ParseFileName(name) : name \in Children} : g.type = type}}

\* Manifests do not count for next_file_number_
NextFileNumber ==
    Max({1} \cup {n + 1 : n \in UNION {Numbers(t) : t \in {"kLogFile", "kTableFile", "kTempFile", "kCurrentFile"}}})

\* RepairDB, FindFiles
FindFiles ==
    /\ phase \in {"down", "corrupt"} /\ rep.count < MaxRepairs /\ restarts < MaxRestarts + rep.count /\ written <= MaxWritesBefore
    /\ DOMAIN logs \cup DOMAIN tables \cup DOMAIN manifests # {}
    /\ rep' = [rep EXCEPT !.count = @ + 1, !.ok = FALSE, !.logs = Numbers("kLogFile"),
                          !.scan = Numbers("kTableFile"), !.old = Numbers("kDescriptorFile"),
                          !.next = NextFileNumber]
    /\ phase' = "logs"
    /\ UNCHANGED <<disk, closed, history>>

\* ConvertLogToTable: the log's records become a table, which BuildTable syncs;
\* of an empty log there is none.  An error is ignored, be it before or after the
\* table got a number: what the log held is given up.
ConvertLogToTable ==
    /\ phase = "logs"
    /\ \E n \in rep.logs :
         LET data == {logs[n].recs[i] : i \in 1..Len(logs[n].recs)}
         IN  \/ /\ tables' = IF data = {} THEN tables
                             ELSE Put(tables, rep.next, [data |-> data, whole |-> TRUE, level |-> 0])
                /\ rep' = [rep EXCEPT !.next = @ + 1, !.logs = <<n, rep.logs>>,
                                      !.scan = IF data = {} THEN @ ELSE @ \cup {rep.next}]
                /\ UNCHANGED history
             \/ /\ faults < MaxFaults /\ faults' = faults + 1
                /\ promised' = promised \ data
                /\ \E numbers \in {0, 1} :
                      rep' = [rep EXCEPT !.next = @ + numbers, !.logs = <<n, rep.logs>>]
                /\ UNCHANGED <<tables, written, opened, restarts>>
    /\ phase' = "archive_log"
    /\ UNCHANGED <<logs, manifests, current, temps, closed>>

\* ArchiveFile: the file is renamed into another directory; an error is ignored.
ArchiveFile(dir, n, left) ==
    \/ left = Without(dir, n) /\ UNCHANGED history
    \/ left = dir /\ Fails

\* ArchiveFile(logname), in either case
ArchiveLog ==
    /\ phase = "archive_log"
    /\ ArchiveFile(logs, rep.logs[1], logs')
    /\ rep' = [rep EXCEPT !.logs = @[2] \ {@[1]}, !.torn = TRUE]
    /\ phase' = "logs"
    /\ UNCHANGED <<tables, manifests, current, temps, closed>>

LogsConverted ==
    /\ phase = "logs" /\ rep.logs = {}
    /\ phase' = "scan"
    /\ UNCHANGED <<disk, closed, history, rep>>

MaxOf(data) == Max({0} \cup {w[1] : w \in data})

\* Something is wrong with a table, which has held all its data until now.
Lost(n) ==
    /\ faults < MaxFaults /\ faults' = faults + 1
    /\ promised' = promised \ tables[n].data /\ opened' = FALSE
    /\ UNCHANGED <<written, restarts>>

\* ScanTable: a table that is read to its end without an error is kept; one
\* whose size cannot be found out is moved away.
ScanTable ==
    /\ phase = "scan" /\ rep.scan # {}
    /\ LET n == Min(rep.scan)
       IN  \/ /\ tables[n].whole
              /\ rep' = [rep EXCEPT !.scan = @ \ {n}, !.good = @ \cup {n},
                                    !.last = Max({@, MaxOf(tables[n].data)})]
              /\ UNCHANGED <<tables, history>>
           \/ /\ Lost(n) /\ tables' = Without(tables, n)
              /\ rep' = [rep EXCEPT !.scan = @ \ {n}]
    /\ UNCHANGED <<logs, manifests, current, temps, phase, closed>>

\* (mutant) The table is kept although nothing could be copied.
RepairedAlways(n, kept) == {n}

\* tables_ takes the copy if there is anything in it.
Repaired(n, kept) == IF kept = {} THEN {} ELSE {n}

\* The tables once n was copied to the file with the next number.  An empty copy
\* stays behind under that number, another one is renamed to n's.
Copied(n, kept) ==
    IF kept = {} THEN Put(Without(tables, n), rep.next, [data |-> {}, whole |-> FALSE, level |-> 0])
    ELSE [tables EXCEPT ![n] = [data |-> kept, whole |-> TRUE, level |-> 0]]

\* RepairTable, of a table ScanTable could not read to its end: none of one that
\* was not finished, anything of one that has become bad.  The second time no more
\* can be read of it than the first, which max_sequence_ is from.  What can be read
\* is copied, the table moved away and the copy put in its place.  The copy may not
\* be opened, and the table stays; the table may stay because ArchiveFile fails; and
\* the copy may not be finished, closed or renamed, and both are gone.
RepairTable ==
    /\ phase = "scan" /\ rep.scan # {}
    /\ LET n == Min(rep.scan)
       IN  \E seen \in SUBSET tables[n].data : \E kept \in SUBSET seen :
           \E error \in {"none", "NewWritableFile", "ArchiveFile", "Finish"} :
             /\ IF tables[n].whole THEN Lost(n)
                ELSE IF error = "none" THEN UNCHANGED history ELSE Fails
             /\ tables' = CASE error = "none" -> Copied(n, kept)
                            [] error = "NewWritableFile" -> tables
                            [] error = "ArchiveFile" -> Put(Copied(n, kept), n,
                                   IF kept = {} THEN tables[n] ELSE Copied(n, kept)[n])
                            [] error = "Finish" -> Without(tables, n)
             /\ LET taken == IF error \in {"none", "ArchiveFile"} THEN Repaired(n, kept) ELSE {}
                IN  rep' = [rep EXCEPT !.scan = @ \ {n}, !.next = @ + 1, !.good = @ \cup taken,
                              !.last = IF taken = {} THEN @ ELSE Max({@, MaxOf(seen)})]
    /\ UNCHANGED <<logs, manifests, current, temps, phase, closed>>

-----------------------------------------------------------------------------
\* WriteDescriptor: the manifest is written to 1.dbtmp, which is closed and not
\* synced; if that fails the old manifests stay.
WriteDescriptor ==
    /\ phase = "scan" /\ rep.scan = {}
    /\ \/ /\ temps' = temps \cup {1} /\ phase' = "archive_manifests"
          /\ UNCHANGED <<rep, history>>
       \/ Fails /\ temps' = temps \ {1} /\ Returned(FALSE)
    /\ UNCHANGED <<logs, tables, manifests, current, closed>>

\* From here until the database was opened again a crash may leave it without a
\* manifest that can be read.
ArchiveManifests ==
    /\ phase = "archive_manifests"
    /\ \/ /\ rep.old = {} /\ phase' = "install_descriptor"
          /\ UNCHANGED <<manifests, rep, faults>>
       \/ /\ rep.old # {} /\ rep' = [rep EXCEPT !.old = @ \ {Min(@)}] /\ UNCHANGED phase
          /\ \/ manifests' = Without(manifests, Min(rep.old)) /\ UNCHANGED faults
             \/ faults < MaxFaults /\ faults' = faults + 1 /\ UNCHANGED manifests
    /\ opened' = FALSE
    /\ UNCHANGED <<logs, tables, current, temps, closed, written, promised, restarts>>

\* (mutant) The greatest sequence number is not recorded.
DescriptorUnsequenced(r) == Edit(0, r.next, 0, {}, r.good)

\* The edit that says all there is to know: every table is in level 0.
Descriptor(r) == Edit(0, r.next, r.last, {}, r.good)

InstallDescriptor ==
    /\ phase = "install_descriptor"
    /\ temps' = temps \ {1}
    /\ \/ /\ manifests' = Put(manifests, 1, [edits |-> <<Descriptor(rep)>>, synced |-> 0])
          /\ tables' = [n \in DOMAIN tables |-> [tables[n] EXCEPT !.level = 0]]
          /\ phase' = "repair_temp"
          /\ UNCHANGED <<rep, history>>
       \/ Fails /\ Returned(FALSE) /\ UNCHANGED <<manifests, tables>>
    /\ UNCHANGED <<logs, current, closed>>

\* SetCurrentFile(env_, dbname_, 1), as in Recovery
SetCurrentFile ==
    \/ /\ phase = "repair_temp"
       /\ temps' = temps \cup {1} /\ phase' = "repair_rename"
       /\ UNCHANGED <<logs, tables, manifests, current, closed, rep, history>>
    \/ /\ phase = "repair_rename"
       /\ current' = 1 /\ temps' = temps \ {1} /\ Returned(TRUE)
       /\ UNCHANGED <<logs, tables, manifests, closed, history>>
    \/ /\ phase \in {"repair_temp", "repair_rename"}
       /\ Fails /\ temps' = temps \ {1} /\ Returned(FALSE)
       /\ UNCHANGED <<logs, tables, manifests, current, closed>>

RepairNext ==
    \/ FindFiles \/ ConvertLogToTable \/ ArchiveLog \/ LogsConverted \/ ScanTable \/ RepairTable
    \/ WriteDescriptor \/ ArchiveManifests \/ InstallDescriptor \/ SetCurrentFile

\* A crash leaves no Repairer.  Where neither a log nor a table was found the
\* next file number is 1, the number of the new manifest: opening the database
\* then writes over the manifest CURRENT names, and all bets are off if it fails.
AllNext ==
    \/ RepairNext
    \/ Crash /\ rep' = Ended(FALSE)
    \/ Steps /\ (rep.count > 0 => comp' = None /\ reader' = 0)
         /\ rep' = [rep EXCEPT
                !.count = IF @ > 0 /\ phase' = "up" THEN MaxRepairs ELSE @,
                !.ok = @ /\ ~(phase \in {"edit", "temp", "rename"} /\ phase' = "down" /\ vset.manifest = current),
                !.early = @ \/ (rep.torn /\ phase = "down")]
    \/ Close /\ UNCHANGED rep

AllInit == Init /\ rep = NoRepairer
AllSpec == AllInit /\ [][AllNext]_<<vars, rep>>

\* Through crashes, errors and repairs, also one that was cut off and run again,
\* a write that was acknowledged with sync is there when the database is open
\* (but for what could not be read).  This needs that nobody opens the database
\* before a repair that was cut off has been repeated: the old manifest does not
\* know the tables made of the logs, and they would be deleted.
RepairKeepsSynced == ~rep.early => SyncedKept

\* A database whose repair returned OK can be opened, whatever state its files
\* were in before, whichever of them could not be read, and also when opening
\* it fails once (WriteDescriptor, LogAndApply).
RepairedOpens == rep.ok => phase # "corrupt"
=============================================================================
