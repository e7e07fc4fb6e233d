-------------------------- MODULE StorageIntegrity --------------------------
(***************************************************************************)
(* The files of the policy database: InMemoryStorageBackend::save and      *)
(* load, and the steps Integrity takes to replace one database by another. *)
(* Every save writes a new version; a file holds a version or is torn.     *)
(* The process may be killed between any two system calls, and power may   *)
(* fail: a directory entry or file content that was not synced is then     *)
(* found in its old or its new state, each independently of the others.    *)
(***************************************************************************)
EXTENDS Naturals

CONSTANTS
  Files,      \* the index, the checksum index and the buckets
  FilesOf,    \* the files of each version: buckets come and go
  MaxVersion, \* bound: saves
  MaxErrors,  \* bound: system calls that fail
  Nil,        \* no such file
  Torn,       \* content that is no version
  Guard       \* the name of the guard file, and its inode

Versions == 0 .. MaxVersion
Primary(f) == <<f, "primary">>   \* no suffix
Backup(f) == <<f, "backup">>     \* the suffix ~
Names == Files \X {"primary", "backup"} \cup {Guard}
Inodes == Files \X Versions       \* an inode is named by who created it

ASSUME FilesAssumption ==
  /\ MaxVersion \in Nat /\ MaxErrors \in Nat
  /\ FilesOf \in [Versions -> SUBSET Files]
  /\ \E f \in Files : \A v \in Versions : f \in FilesOf[v]    \* the index
  /\ Guard \notin Files \X {"primary", "backup"} /\ Nil \notin Inodes \cup {Guard} /\ Torn \notin Versions

VARIABLES
  entry,      \* the directory: the inode behind each name
  mayEntry,   \* what each name may be after a power failure
  data,       \* the content of each inode
  mayData,    \* what each content may be after a power failure
  phase,      \* the next step of save or load
  todo,       \* files the loop of this phase has not reached
  loading,    \* the steps belong to load, not to save
  mem,        \* the version in memory
  attempted,  \* the last version save was called for
  acked,      \* the last version save returned for
  errors,     \* auxiliary: system calls that failed
  crashes     \* auxiliary: the kinds of crash so far

fs == <<entry, mayEntry, data, mayData>>
vars == <<fs, phase, todo, loading, mem, attempted, acked, errors, crashes>>

-----------------------------------------------------------------------------
\* Directory operations reach the disk now or with the next syncDirectory.
SetEntry(n, i) ==
  /\ entry' = [entry EXCEPT ![n] = i]
  /\ mayEntry' = [mayEntry EXCEPT ![n] = @ \cup {i}]
  /\ UNCHANGED <<data, mayData>>

SyncDirectory ==
  /\ mayEntry' = [n \in Names |-> {entry[n]}]
  /\ UNCHANGED <<entry, data, mayData>>

\* syncElement: the content of one file.
SyncElement(n) ==
  /\ mayData' = [mayData EXCEPT ![entry[n]] = {data[entry[n]]}]
  /\ UNCHANGED <<entry, mayEntry, data>>

Goto(p) == phase' = p /\ todo' = {}
Loop(p) == phase' = p /\ todo' = FilesOf[mem]
Done(f) == todo' = todo \ {f} /\ UNCHANGED phase

-----------------------------------------------------------------------------
\* InMemoryStorageBackend::save of a changed database.
Save ==
  /\ phase = "idle" /\ attempted < MaxVersion
  /\ attempted' = attempted + 1 /\ mem' = attempted + 1
  /\ phase' = "dump" /\ todo' = FilesOf[attempted + 1]
  /\ UNCHANGED <<fs, loading, acked, errors, crashes>>

\* saveBackup: openDumpFileStream creates or truncates the backup file (the
\* content is torn until all of it is written), through whatever inode the
\* name has.
DumpFile(f, content) ==
  LET i == IF entry[Backup(f)] = Nil THEN <<f, mem>> ELSE entry[Backup(f)] IN
  /\ phase = "dump" /\ f \in todo
  /\ entry' = [entry EXCEPT ![Backup(f)] = i]
  /\ mayEntry' = [mayEntry EXCEPT ![Backup(f)] = @ \cup {i}]
  /\ data' = [data EXCEPT ![i] = content]
  /\ mayData' = [mayData EXCEPT ![i] = @ \cup {content, Torn}]
  /\ IF content = Torn THEN UNCHANGED <<phase, todo>> ELSE Done(f)
  /\ UNCHANGED <<loading, mem, attempted, acked, errors, crashes>>

\* The streams throw no exceptions: a write that fails goes unnoticed.
ShortWrite(f) ==
  /\ phase = "dump" /\ f \in todo /\ errors < MaxErrors
  /\ entry[Backup(f)] # Nil /\ data[entry[Backup(f)]] = Torn
  /\ Done(f)
  /\ errors' = errors + 1
  /\ UNCHANGED <<fs, loading, mem, attempted, acked, crashes>>

DumpDone ==
  /\ phase = "dump" /\ todo = {}
  /\ Loop("syncBackup")
  /\ UNCHANGED <<fs, loading, mem, attempted, acked, errors, crashes>>

\* Integrity::syncDatabase of the backup files, then of the primary ones.
SyncFile(f) ==
  /\ f \in todo
  /\ \/ phase = "syncBackup" /\ SyncElement(Backup(f))
     \/ phase = "syncPrimary" /\ SyncElement(Primary(f))
  /\ Done(f)
  /\ UNCHANGED <<loading, mem, attempted, acked, errors, crashes>>

SyncDone ==
  /\ todo = {}
  /\ \/ phase = "syncBackup" /\ Goto("guard")
     \/ phase = "syncPrimary" /\ Goto("unguard")
  /\ SyncDirectory
  /\ UNCHANGED <<loading, mem, attempted, acked, errors, crashes>>

\* Integrity::createBackupGuard: O_EXCL refuses an existing guard.
CreateBackupGuard ==
  /\ phase = "guard"
  /\ \/ entry[Guard] = Nil /\ SetEntry(Guard, Guard) /\ Goto("guardSync")
     \/ entry[Guard] # Nil /\ Goto("idle") /\ UNCHANGED fs
  /\ UNCHANGED <<loading, mem, attempted, acked, errors, crashes>>

GuardSynced ==
  /\ phase = "guardSync"
  /\ SyncDirectory /\ Loop("relink")
  /\ UNCHANGED <<loading, mem, attempted, acked, errors, crashes>>

\* Integrity::createPrimaryHardLinks: unlink, then link.
Unlink(f) ==
  /\ phase = "relink" /\ f \in todo /\ entry[Primary(f)] # Nil
  /\ SetEntry(Primary(f), Nil)
  /\ UNCHANGED <<phase, todo, loading, mem, attempted, acked, errors, crashes>>

\* Mutant: a primary name that exists is left as it is.
LinkOnce(f) ==
  /\ phase = "relink" /\ f \in todo
  /\ IF entry[Primary(f)] = Nil THEN SetEntry(Primary(f), entry[Backup(f)]) ELSE UNCHANGED fs
  /\ Done(f)
  /\ UNCHANGED <<loading, mem, attempted, acked, errors, crashes>>

Link(f) ==
  /\ phase = "relink" /\ f \in todo /\ entry[Primary(f)] = Nil
  /\ SetEntry(Primary(f), entry[Backup(f)])
  /\ Done(f)
  /\ UNCHANGED <<loading, mem, attempted, acked, errors, crashes>>

\* Mutant: the guard goes before the primary database is synced.
RelinkDoneUnsynced ==
  /\ phase = "relink" /\ todo = {}
  /\ Goto("unguard")
  /\ UNCHANGED <<fs, loading, mem, attempted, acked, errors, crashes>>

RelinkDone ==
  /\ phase = "relink" /\ todo = {}
  /\ Loop("syncPrimary")
  /\ UNCHANGED <<fs, loading, mem, attempted, acked, errors, crashes>>

\* Integrity::revalidatePrimaryDatabase: the guard goes once the primary
\* database is on the disk.
DeleteGuard ==
  /\ phase = "unguard"
  /\ SetEntry(Guard, Nil) /\ Goto("unguardSync")
  /\ UNCHANGED <<loading, mem, attempted, acked, errors, crashes>>

GuardDeleted ==
  /\ phase = "unguardSync"
  /\ SyncDirectory /\ Loop("dropBackup")
  /\ UNCHANGED <<loading, mem, attempted, acked, errors, crashes>>

\* Integrity::deleteBackupHardLinks; the directory is not synced after it.
DropBackup(f) ==
  /\ phase = "dropBackup" /\ f \in todo
  /\ SetEntry(Backup(f), Nil)
  /\ Done(f)
  /\ UNCHANGED <<loading, mem, attempted, acked, errors, crashes>>

\* save returns to onPoliciesChanged; load goes on with deleteNonIndexedFiles.
Revalidated ==
  /\ phase = "dropBackup" /\ todo = {}
  /\ IF loading THEN Goto("clean") /\ UNCHANGED acked
                ELSE Goto("idle") /\ acked' = mem
  /\ UNCHANGED <<fs, loading, mem, attempted, errors, crashes>>

-----------------------------------------------------------------------------
\* What load finds behind the primary or the backup names: the version of the index,
\* if every file of it is there and has the checksum of that version.
ReadableAs(v, kind) ==
  \A f \in FilesOf[v] : entry[<<f, kind>>] # Nil /\ data[entry[<<f, kind>>]] = v

\* InMemoryStorageBackend::load.
Load ==
  LET kind == IF entry[Guard] # Nil THEN "backup" ELSE "primary" IN
  /\ phase = "down"
  /\ \/ \E v \in Versions :
          /\ ReadableAs(v, kind)
          /\ mem' = v /\ loading' = TRUE
          /\ IF entry[Guard] # Nil THEN phase' = "relink" /\ todo' = FilesOf[v]
                                   ELSE Goto("clean")
     \/ /\ \A v \in Versions : ~ReadableAs(v, kind)
        /\ Goto("corrupted")
        /\ UNCHANGED <<mem, loading>>
  /\ UNCHANGED <<fs, attempted, acked, errors, crashes>>

\* Integrity::deleteNonIndexedFiles: everything but the primary files of the
\* buckets just loaded.
Junk == {n \in Names : entry[n] # Nil} \ {Primary(f) : f \in FilesOf[mem]}

Clean(n) ==
  /\ phase = "clean" /\ n \in Junk
  /\ SetEntry(n, Nil)
  /\ UNCHANGED <<phase, todo, loading, mem, attempted, acked, errors, crashes>>

Loaded ==
  /\ phase = "clean" /\ Junk = {}
  /\ Goto("idle")
  /\ loading' = FALSE
  /\ UNCHANGED <<fs, mem, attempted, acked, errors, crashes>>

\* A system call fails: save throws and the daemon serves on, load throws and
\* the daemon does not start.
IoError ==
  /\ phase \notin {"idle", "down", "corrupted"} /\ errors < MaxErrors
  /\ Goto(IF loading THEN "down" ELSE "idle")
  /\ loading' = FALSE
  /\ errors' = errors + 1
  /\ UNCHANGED <<fs, mem, attempted, acked, crashes>>

-----------------------------------------------------------------------------
\* The process dies and the kernel lives on.
Kill ==
  /\ phase \notin {"down", "corrupted"}
  /\ Goto("down")
  /\ loading' = FALSE
  /\ crashes' = crashes \cup {"kill"}
  /\ UNCHANGED <<fs, mem, attempted, acked, errors>>

\* What may be found at the points of dom: one of the possible values each.
Survivors(now, may, dom) ==
  LET unsure == {x \in dom : may[x] # {now[x]}}
      picks == {g \in [unsure -> UNION {may[x] : x \in unsure}] : \A x \in unsure : g[x] \in may[x]} IN
  {[x \in dom |-> IF x \in unsure THEN g[x] ELSE now[x]] : g \in picks}

\* With the choice of what is there now, this is also a kill after which
\* everything written reaches the disk before the next crash.
PowerLoss ==
  /\ phase # "corrupted"
  /\ \E p \in Survivors(entry, mayEntry, Files \X {"primary"}), b \in Survivors(entry, mayEntry, Files \X {"backup"}),
        g \in mayEntry[Guard] :
       entry' = [n \in Names |-> IF n = Guard THEN g ELSE IF n[2] = "primary" THEN p[n] ELSE b[n]]
  /\ data' \in Survivors(data, mayData, Inodes)
  /\ mayEntry' = [n \in Names |-> {entry'[n]}]
  /\ mayData' = [i \in Inodes |-> {data'[i]}]
  /\ Goto("down")
  /\ loading' = FALSE
  /\ crashes' = crashes \cup {"power"}
  /\ UNCHANGED <<mem, attempted, acked, errors>>

-----------------------------------------------------------------------------
Init ==
  /\ entry = [n \in Names |-> IF n \in {Primary(f) : f \in FilesOf[0]} THEN <<n[1], 0>> ELSE Nil]
  /\ mayEntry = [n \in Names |-> {entry[n]}]
  /\ data = [i \in Inodes |-> IF i[2] = 0 THEN 0 ELSE Torn]
  /\ mayData = [i \in Inodes |-> {data[i]}]
  /\ phase = "down" /\ todo = {} /\ loading = FALSE
  /\ mem = 0 /\ attempted = 0 /\ acked = 0 /\ errors = 0 /\ crashes = {}

Next ==
  \/ Save \/ DumpDone \/ SyncDone \/ CreateBackupGuard \/ GuardSynced \/ RelinkDone
  \/ DeleteGuard \/ GuardDeleted \/ Revalidated \/ Load \/ Loaded
  \/ IoError \/ Kill \/ PowerLoss
  \/ \E f \in Files : \/ DumpFile(f, mem) \/ DumpFile(f, Torn) \/ ShortWrite(f) \/ SyncFile(f)
                      \/ Unlink(f) \/ Link(f) \/ DropBackup(f)
  \/ \E n \in Names : Clean(n)

Spec == Init /\ [][Next]_vars

-----------------------------------------------------------------------------
\* A restart never delivers a database older than the last one save returned
\* for, and never a mixture: it delivers that version or a later one whose
\* save was under way or failed, or finds the database corrupted.
LoadedIsCurrent == loading => acked <= mem /\ mem <= attempted

\* Whenever the process is killed, or power fails, in a save or in the recovery
\* from an earlier failure, the database can be loaded.  Failing system calls,
\* and kills followed by a power failure, are left out: revalidatePrimaryDatabase
\* relinks primary files while the guard of a killed process may not be synced.
NeverCorrupted == errors = 0 /\ crashes # {"kill", "power"} => phase # "corrupted"

=============================================================================
