----------------------- MODULE StorageIntegrityProofs -----------------------
(***************************************************************************)
(* Proofs about StorageIntegrity for every number of files and versions:   *)
(* what a restart finds is never older than the last save that returned,   *)
(* and kills alone, or power failures alone, never corrupt the database.   *)
(***************************************************************************)
EXTENDS StorageIntegrity, TLAPS

\* Zenon proves a leaf that names no other prover; it may take its time.
USE ZenonT(40)

Index == CHOOSE f \in Files : \A v \in Versions : f \in FilesOf[v]
Kinds == {"primary", "backup"}
Saving == {"dump", "syncBackup", "guard", "guardSync"}
Replacing == {"relink", "syncPrimary", "unguard", "unguardSync", "dropBackup"}

TypeOK ==
  /\ entry \in [Names -> Inodes \cup {Nil, Guard}]
  /\ mayEntry \in [Names -> SUBSET (Inodes \cup {Nil, Guard})]
  /\ data \in [Inodes -> Versions \cup {Torn}]
  /\ mayData \in [Inodes -> SUBSET (Versions \cup {Torn})]
  /\ phase \in Saving \cup Replacing \cup {"idle", "down", "clean", "corrupted"}
  /\ todo \in SUBSET Files /\ loading \in BOOLEAN
  /\ mem \in Versions /\ attempted \in Versions /\ acked \in Versions
  /\ errors \in Nat /\ crashes \in SUBSET {"kill", "power"}

\* What is there now is possible, a name of a file has an inode of that file,
\* and an inode holds nothing older than itself.
Possible ==
  /\ \A n \in Names : entry[n] \in mayEntry[n]
  /\ \A i \in Inodes : data[i] \in mayData[i]
  /\ mayEntry[Guard] \subseteq {Nil, Guard}
  /\ \A f \in Files, s \in Kinds : \A i \in mayEntry[<<f, s>>] \ {Nil} :
       i \in Inodes /\ i[1] = f /\ i[2] <= attempted
  /\ \A i \in Inodes : \A c \in mayData[i] : c # Torn => i[2] <= c /\ c <= attempted

\* save works on the last version, load on one it found; loops on its files.
Steps ==
  /\ phase \in Saving \cup {"idle", "down"} => ~loading
  /\ phase = "clean" => loading
  /\ ~loading /\ phase \in Saving \cup Replacing => mem = attempted
  /\ todo \subseteq FilesOf[mem]
  /\ acked <= attempted
  /\ loading => acked <= mem /\ mem <= attempted

\* Neither name of the index can lead to a version before the last one acknowledged.
NotOlder ==
  \A s \in Kinds : \A i \in mayEntry[<<Index, s>>] \ {Nil} :
    \A c \in mayData[i] : c # Torn => acked <= c

\* What a save has made of the index so far.
IndexSaved ==
  LET i == entry[Backup(Index)]
      j == entry[Primary(Index)] IN
  /\ (phase = "dump" /\ Index \notin todo) \/ phase = "syncBackup" =>
       i # Nil /\ data[i] \in {mem, Torn}
  /\ phase = "syncBackup" /\ Index \notin todo => mayData[i] \subseteq {mem, Torn}
  /\ phase \in {"guard", "guardSync"} \cup (Replacing \ {"dropBackup"}) =>
       i # Nil /\ mayEntry[Backup(Index)] = {i} /\ mayData[i] \subseteq {mem, Torn}
  /\ (phase = "relink" /\ Index \notin todo) \/ phase \in Replacing \ {"relink", "dropBackup"} => j = i
  /\ phase \in {"unguard", "unguardSync", "dropBackup"} => mayEntry[Primary(Index)] = {j}
  /\ phase = "dropBackup" =>
       j # Nil /\ mayData[j] \subseteq {mem, Torn} /\ mayEntry[Backup(Index)] \subseteq {j, Nil}

AgeInv == TypeOK /\ Possible /\ Steps /\ NotOlder /\ (~loading => IndexSaved)

-----------------------------------------------------------------------------
\* What the next start may find, if kills and power failures do not mix: behind
\* each name, and in each inode.
Calm == errors = 0 /\ crashes # {"kill", "power"}
Maybe == IF "kill" \in crashes THEN [n \in Names |-> {entry[n]}] ELSE mayEntry
Holds == IF "kill" \in crashes THEN [i \in Inodes |-> {data[i]}] ELSE mayData

\* Version v is whole behind the names of a kind, whatever the next start finds.
Whole(B, H, v, k) == \A f \in FilesOf[v] : \A i \in B[<<f, k>>] : i # Nil /\ H[i] \subseteq {v}
SomeWhole(B, H, k) == \E v \in Versions : Whole(B, H, v, k)

\* How far save and load are with their files.
OwnBackups(e, v) == \A f \in Files : e[Backup(f)] = Nil \/ (f \in FilesOf[v] /\ e[Backup(f)] = <<f, v>>)
NoBackups(e, S) == \A f \in S : e[Backup(f)] = Nil
NewInodes(B, v) == \A f \in Files : <<f, v>> \notin B[Primary(f)]
Dumped(e, d, v, S) == \A f \in S : e[Backup(f)] = <<f, v>> /\ d[<<f, v>>] = v
Synced(H, v, S) == \A f \in S : H[<<f, v>>] \subseteq {v}
Relinked(e, S) == \A f \in S : e[Primary(f)] = e[Backup(f)]

\* What holds in each phase of save and load.
Recoverable ==
  /\ phase = "down" =>
       /\ \A n \in Names : Maybe[n] = {entry[n]}
       /\ \A i \in Inodes : Holds[i] = {data[i]}
       /\ SomeWhole(Maybe, Holds, IF entry[Guard] = Nil THEN "primary" ELSE "backup")
  /\ phase \in {"idle", "dump", "syncBackup", "guard", "guardSync"} => SomeWhole(Maybe, Holds, "primary")
  /\ phase \in {"idle", "dump", "syncBackup", "guard", "dropBackup", "clean"} => Maybe[Guard] = {Nil}
  /\ phase = "idle" => NoBackups(entry, Files)
  /\ phase \in {"dump", "syncBackup"} => OwnBackups(entry, mem)
  /\ phase = "dump" => NewInodes(Maybe, mem) /\ Dumped(entry, data, mem, FilesOf[mem] \ todo)
  /\ phase = "syncBackup" => Dumped(entry, data, mem, FilesOf[mem]) /\ Synced(Holds, mem, FilesOf[mem] \ todo)
  /\ phase \in {"guard", "guardSync", "relink", "syncPrimary", "unguard", "unguardSync"} =>
       /\ Whole(Maybe, Holds, mem, "backup")
       /\ ~loading => NoBackups(entry, Files \ FilesOf[mem])
  /\ phase = "guardSync" => entry[Guard] = Guard
  /\ phase \in {"relink", "syncPrimary", "unguard"} => Maybe[Guard] = {Guard}
  /\ phase = "relink" => Relinked(entry, FilesOf[mem] \ todo)
  /\ phase = "syncPrimary" => Relinked(entry, FilesOf[mem])
  /\ phase \in {"unguard", "unguardSync", "dropBackup", "clean"} => Whole(Maybe, Holds, mem, "primary")
  /\ phase = "unguardSync" => entry[Guard] = Nil
  /\ phase = "dropBackup" /\ ~loading => NoBackups(entry, Files \ todo)
  /\ phase # "corrupted"

StorageInv == AgeInv /\ (Calm => Recoverable)

-----------------------------------------------------------------------------
\* The index is a file of every version.
LEMMA IndexFile == Index \in Files /\ \A v \in Versions : Index \in FilesOf[v]
  BY FilesAssumption DEF Index

\* The names of files, and the guard, are different names.
LEMMA FileNames ==
  /\ Guard \in Names
  /\ \A f \in Files, s \in Kinds : <<f, s>> \in Names /\ <<f, s>> # Guard
  /\ \A f \in Files : Primary(f) = <<f, "primary">> /\ Backup(f) = <<f, "backup">>
  /\ \A f \in Files : Primary(f) \in Names /\ Backup(f) \in Names /\ Primary(f) # Guard /\ Backup(f) # Guard
  /\ \A n \in Names : n = Guard \/ \E f \in Files, s \in Kinds : n = <<f, s>>
<1>1. Guard \notin Files \X Kinds /\ Names = Files \X Kinds \cup {Guard}
  BY FilesAssumption DEF Kinds, Names
<1>2. \A f \in Files : Primary(f) = <<f, "primary">> /\ Backup(f) = <<f, "backup">> /\ "primary" \in Kinds /\ "backup" \in Kinds
  BY DEF Primary, Backup, Kinds
<1>3. \A f \in Files, s \in Kinds : <<f, s>> \in Files \X Kinds
  OBVIOUS
<1>4. \A n \in Files \X Kinds : \E f \in Files, s \in Kinds : n = <<f, s>>
  BY SMTT(30)
<1> HIDE DEF Kinds
<1> QED BY <1>1, <1>2, <1>3, <1>4, SMTT(30)

\* Different files and different kinds have different names.
LEMMA NamesApart ==
  /\ \A f, g \in Files : Primary(f) # <<g, "backup">> /\ Backup(f) # <<g, "primary">> /\ Primary(f) # Backup(g)
  /\ \A f, g \in Files : f # g => Primary(f) # Primary(g) /\ Backup(f) # Backup(g)
BY DEF Primary, Backup

\* Nil is neither an inode nor the guard, and Torn is no version.
LEMMA Apart ==
  /\ Nil \notin Inodes /\ Nil # Guard /\ Torn \notin Versions
  /\ \A f \in Files, v \in Versions : <<f, v>> \in Inodes /\ <<f, v>> # Nil
  /\ \A i \in Inodes : i[1] \in Files /\ i[2] \in Versions /\ i = <<i[1], i[2]>>
  /\ Versions \subseteq Nat /\ 0 \in Versions
  /\ \A v \in Versions : FilesOf[v] \subseteq Files /\ 0 .. v \subseteq Versions
<1>1. Nil \notin Inodes /\ Nil # Guard /\ Torn \notin Versions
  BY FilesAssumption
<1>2. \A f \in Files, v \in Versions : <<f, v>> \in Inodes
  BY DEF Inodes
<1>3. \A i \in Inodes : i[1] \in Files /\ i[2] \in Versions /\ i = <<i[1], i[2]>>
  BY SMTT(30) DEF Inodes
<1>4. MaxVersion \in Nat /\ FilesOf \in [Versions -> SUBSET Files]
  BY FilesAssumption
<1>5. \A v \in Versions : FilesOf[v] \subseteq Files
  BY <1>4
<1>6. Versions \subseteq Nat /\ 0 \in Versions /\ \A v \in Versions : 0 .. v \subseteq Versions
  BY <1>4, SMTT(30) DEF Versions
<1> QED BY <1>1, <1>2, <1>3, <1>5, <1>6

\* SetEntry, SyncDirectory and SyncElement keep the types of the file system.
LEMMA SetEntryType ==
  ASSUME TypeOK, NEW n \in Names, NEW i \in Inodes \cup {Nil, Guard}, SetEntry(n, i)
  PROVE  /\ entry' \in [Names -> Inodes \cup {Nil, Guard}]
         /\ mayEntry' \in [Names -> SUBSET (Inodes \cup {Nil, Guard})]
         /\ data' \in [Inodes -> Versions \cup {Torn}]
         /\ mayData' \in [Inodes -> SUBSET (Versions \cup {Torn})]
  BY DEF TypeOK, SetEntry

\* Syncing the directory keeps the types of the file system.
LEMMA SyncDirectoryType ==
  ASSUME TypeOK, SyncDirectory
  PROVE  /\ entry' \in [Names -> Inodes \cup {Nil, Guard}]
         /\ mayEntry' \in [Names -> SUBSET (Inodes \cup {Nil, Guard})]
         /\ data' \in [Inodes -> Versions \cup {Torn}]
         /\ mayData' \in [Inodes -> SUBSET (Versions \cup {Torn})]
  BY DEF TypeOK, SyncDirectory

\* So does syncing the content of one name, whether or not a file is behind it.
LEMMA SyncElementType ==
  ASSUME TypeOK, NEW n \in Names, SyncElement(n)
  PROVE  /\ entry' \in [Names -> Inodes \cup {Nil, Guard}]
         /\ mayEntry' \in [Names -> SUBSET (Inodes \cup {Nil, Guard})]
         /\ data' \in [Inodes -> Versions \cup {Torn}]
         /\ mayData' \in [Inodes -> SUBSET (Versions \cup {Torn})]
<1>1. CASE entry[n] \in Inodes
  BY <1>1, SMTT(30) DEF TypeOK, SyncElement
<1>2. CASE entry[n] \notin Inodes
  <2>1. UNCHANGED <<entry, mayEntry, data>> /\ mayData' = [mayData EXCEPT ![entry[n]] = {data[entry[n]]}]
    BY DEF SyncElement
  <2>2. DOMAIN mayData = Inodes /\ mayData = [i \in Inodes |-> mayData[i]]
    BY DEF TypeOK
  <2>3. mayData' = mayData
    BY <1>2, <2>1, <2>2
  <2> QED BY <2>1, <2>3 DEF TypeOK
<1> QED BY <1>1, <1>2

\* What a power failure leaves is one of the possible states.
LEMMA SurvivorsPossible ==
  ASSUME NEW now, NEW may, NEW dom, NEW g \in Survivors(now, may, dom),
         \A x \in dom : now[x] \in may[x]
  PROVE  \A x \in dom : g[x] \in may[x]
  BY DEF Survivors

\* A power failure leaves behind each name, and in each inode, something possible.
LEMMA PowerLossFinds ==
  ASSUME TypeOK, Possible, PowerLoss
  PROVE  /\ entry' \in [Names -> Inodes \cup {Nil, Guard}] /\ \A n \in Names : entry'[n] \in mayEntry[n]
         /\ data' \in [Inodes -> Versions \cup {Torn}] /\ \A i \in Inodes : data'[i] \in mayData[i]
<1>1. PICK p \in Survivors(entry, mayEntry, Files \X {"primary"}), b \in Survivors(entry, mayEntry, Files \X {"backup"}),
           g \in mayEntry[Guard] :
        entry' = [n \in Names |-> IF n = Guard THEN g ELSE IF n[2] = "primary" THEN p[n] ELSE b[n]]
  BY DEF PowerLoss
<1>2. Files \X {"primary"} \subseteq Names /\ Files \X {"backup"} \subseteq Names
  BY DEF Names
<1>3. \A n \in Files \X {"primary"} : p[n] \in mayEntry[n]
  <2>1. \A n \in Files \X {"primary"} : entry[n] \in mayEntry[n]
    BY <1>2 DEF Possible
  <2> QED BY <2>1, SurvivorsPossible
<1>4. \A n \in Files \X {"backup"} : b[n] \in mayEntry[n]
  <2>1. \A n \in Files \X {"backup"} : entry[n] \in mayEntry[n]
    BY <1>2 DEF Possible
  <2> QED BY <2>1, SurvivorsPossible
<1>5. \A n \in Names : entry'[n] \in mayEntry[n]
  <2> SUFFICES ASSUME NEW n \in Names PROVE entry'[n] \in mayEntry[n]
    OBVIOUS
  <2>1. CASE n = Guard
    BY <1>1, <2>1
  <2>2. CASE n # Guard
    <3>1. n \in Files \X {"primary"} \/ n \in Files \X {"backup"}
      BY <2>2 DEF Names
    <3>2. CASE n \in Files \X {"primary"}
      BY <1>1, <1>3, <2>2, <3>2
    <3>3. CASE n \in Files \X {"backup"}
      BY <1>1, <1>4, <2>2, <3>3
    <3> QED BY <3>1, <3>2, <3>3
  <2> QED BY <2>1, <2>2
<1>6. entry' \in [Names -> Inodes \cup {Nil, Guard}]
  BY <1>1, <1>5 DEF TypeOK
<1>7. data' \in Survivors(data, mayData, Inodes)
  BY DEF PowerLoss
<1>8. \A i \in Inodes : data'[i] \in mayData[i]
  BY <1>7, SurvivorsPossible DEF Possible
<1>9. data' \in [Inodes -> Versions \cup {Torn}]
  <2>1. DOMAIN data' = Inodes /\ data' = [i \in Inodes |-> data'[i]]
    BY <1>7 DEF Survivors
  <2> QED BY <1>8, <2>1 DEF TypeOK
<1> QED BY <1>5, <1>6, <1>8, <1>9

\* Every step keeps the types.
LEMMA TypeStep ==
  ASSUME TypeOK, Possible, Steps, [Next]_vars PROVE TypeOK'
<1> USE Apart, FileNames DEF Goto, Loop, Done, Saving, Replacing
<1>1. CASE UNCHANGED vars
  BY <1>1 DEF vars, fs, TypeOK
<1>2. CASE Save
  <2>1. attempted + 1 \in Versions
    <3>1. MaxVersion \in Nat
      BY FilesAssumption
    <3> QED BY <1>2, <3>1, SMTT(30) DEF TypeOK, Save, Versions
  <2> QED BY <1>2, <2>1 DEF TypeOK, Save, fs
<1>3. CASE DumpDone \/ RelinkDone \/ Revalidated
  BY <1>3, SMTT(30) DEF TypeOK, DumpDone, RelinkDone, Revalidated, fs
<1>4. CASE SyncDone \/ GuardSynced \/ GuardDeleted
  <2>1. SyncDirectory
    BY <1>4 DEF SyncDone, GuardSynced, GuardDeleted
  <2> QED BY <1>4, <2>1, SyncDirectoryType DEF TypeOK, SyncDone, GuardSynced, GuardDeleted
<1>5. CASE CreateBackupGuard
  <2>1. CASE SetEntry(Guard, Guard) /\ Goto("guardSync")
    BY <1>5, <2>1, SetEntryType DEF TypeOK, CreateBackupGuard
  <2>2. CASE UNCHANGED fs /\ Goto("idle")
    BY <1>5, <2>2 DEF TypeOK, CreateBackupGuard, fs
  <2> QED BY <1>5, <2>1, <2>2 DEF CreateBackupGuard
<1>6. CASE DeleteGuard
  BY <1>6, SetEntryType DEF TypeOK, DeleteGuard
<1>7. CASE Load \/ Loaded \/ IoError
  <2>1. UNCHANGED <<entry, mayEntry, data, mayData, attempted, acked, crashes>>
    BY <1>7 DEF Load, Loaded, IoError, fs
  <2>2. errors' \in Nat
    BY <1>7, SMTT(30) DEF TypeOK, Load, Loaded, IoError
  <2>3. mem' \in Versions /\ todo' \in SUBSET Files
    <3>1. CASE Load
      <4>1. \/ mem' \in Versions /\ (todo' = FilesOf[mem'] \/ todo' = {})
            \/ mem' = mem /\ todo' = {}
        BY <3>1 DEF Load
      <4> QED BY <4>1 DEF TypeOK
    <3>2. CASE Loaded \/ IoError
      BY <3>2 DEF TypeOK, Loaded, IoError
    <3> QED BY <1>7, <3>1, <3>2
  <2>4. loading' \in BOOLEAN
    BY <1>7 DEF TypeOK, Load, Loaded, IoError
  <2>5. phase' \in {"relink", "clean", "corrupted", "idle", "down"}
    BY <1>7 DEF Load, Loaded, IoError
  <2> QED BY <2>1, <2>2, <2>3, <2>4, <2>5 DEF TypeOK
<1>8. CASE Kill
  BY <1>8 DEF TypeOK, Kill, fs
<1>9. CASE PowerLoss
  <2>1. /\ UNCHANGED <<mem, attempted, acked, errors>> /\ phase' = "down" /\ todo' = {} /\ loading' = FALSE
        /\ crashes' = crashes \cup {"power"}
        /\ mayEntry' = [n \in Names |-> {entry'[n]}] /\ mayData' = [i \in Inodes |-> {data'[i]}]
    BY <1>9 DEF PowerLoss
  <2>2. crashes' \in SUBSET {"kill", "power"}
    BY <2>1 DEF TypeOK
  <2>3. /\ entry' \in [Names -> Inodes \cup {Nil, Guard}] /\ data' \in [Inodes -> Versions \cup {Torn}]
    BY <1>9, PowerLossFinds
  <2>4. /\ mayEntry' \in [Names -> SUBSET (Inodes \cup {Nil, Guard})]
        /\ mayData' \in [Inodes -> SUBSET (Versions \cup {Torn})]
    BY <2>1, <2>3, SMTT(30)
  <2> QED BY <2>1, <2>2, <2>3, <2>4 DEF TypeOK
<1>10. ASSUME NEW f \in Files, NEW c \in {mem, Torn}, DumpFile(f, c) PROVE TypeOK'
  <2> DEFINE i == IF entry[Backup(f)] = Nil THEN <<f, mem>> ELSE entry[Backup(f)]
  <2>1. i \in Inodes \cup {Nil, Guard} /\ c \in Versions \cup {Torn}
    BY DEF TypeOK
  <2>2. /\ entry' = [entry EXCEPT ![Backup(f)] = i]
        /\ mayEntry' = [mayEntry EXCEPT ![Backup(f)] = @ \cup {i}]
        /\ data' = [data EXCEPT ![i] = c]
        /\ mayData' = [mayData EXCEPT ![i] = @ \cup {c, Torn}]
        /\ todo' \subseteq todo /\ UNCHANGED <<phase, loading, mem, attempted, acked, errors, crashes>>
    BY <1>10 DEF DumpFile
  <2> HIDE DEF i
  <2>3. entry' \in [Names -> Inodes \cup {Nil, Guard}] /\ mayEntry' \in [Names -> SUBSET (Inodes \cup {Nil, Guard})]
    BY <2>1, <2>2 DEF TypeOK
  <2>4. data' \in [Inodes -> Versions \cup {Torn}] /\ mayData' \in [Inodes -> SUBSET (Versions \cup {Torn})]
    BY <2>1, <2>2 DEF TypeOK
  <2> QED BY <2>2, <2>3, <2>4 DEF TypeOK
<1>11. ASSUME NEW f \in Files, ShortWrite(f) PROVE TypeOK'
  BY <1>11, SMTT(30) DEF TypeOK, ShortWrite, fs
<1>12. ASSUME NEW f \in Files, SyncFile(f) PROVE TypeOK'
  <2>1. SyncElement(Backup(f)) \/ SyncElement(Primary(f))
    BY <1>12 DEF SyncFile
  <2> QED BY <1>12, <2>1, SyncElementType DEF TypeOK, SyncFile
<1>13. ASSUME NEW f \in Files, Unlink(f) \/ Link(f) \/ DropBackup(f) PROVE TypeOK'
  <2>1. \E n \in Names, i \in Inodes \cup {Nil, Guard} : SetEntry(n, i)
    BY <1>13 DEF TypeOK, Unlink, Link, DropBackup
  <2> QED BY <1>13, <2>1, SetEntryType DEF TypeOK, Unlink, Link, DropBackup
<1>14. ASSUME NEW n \in Names, Clean(n) PROVE TypeOK'
  BY <1>14, SetEntryType DEF TypeOK, Clean
<1> QED BY <1>1, <1>2, <1>3, <1>4, <1>5, <1>6, <1>7, <1>8, <1>9, <1>10, <1>11, <1>12, <1>13, <1>14 DEF Next

-----------------------------------------------------------------------------
\* Cell(n, i): name n may have inode i.
Cell(n, i) ==
  /\ n = Guard => i \in {Nil, Guard}
  /\ \A f \in Files, s \in Kinds : n = <<f, s>> /\ i # Nil => i \in Inodes /\ i[1] = f /\ i[2] <= attempted

\* The names may have only such inodes, and inodes only contents not older than they.
LEMMA PossibleCells ==
  ASSUME Possible PROVE \A n \in Names : entry[n] \in mayEntry[n] /\ \A i \in mayEntry[n] : Cell(n, i)
  BY FileNames DEF Possible, Cell

\* Possible again, from what holds of each name and each inode.
LEMMA CellsPossible ==
  ASSUME (\A n \in Names : entry[n] \in mayEntry[n] /\ \A i \in mayEntry[n] : Cell(n, i))',
         (\A i \in Inodes : data[i] \in mayData[i] /\ \A c \in mayData[i] : c # Torn => i[2] <= c /\ c <= attempted)'
  PROVE  Possible'
<1>1. ASSUME NEW f \in Files, NEW s \in Kinds, NEW i \in mayEntry'[<<f, s>>] \ {Nil}
      PROVE  i \in Inodes /\ i[1] = f /\ i[2] <= attempted'
  BY <1>1, FileNames, SMTT(30) DEF Cell
<1>2. mayEntry'[Guard] \subseteq {Nil, Guard}
  BY FileNames DEF Cell
<1> QED BY <1>1, <1>2 DEF Possible

\* The file system operations leave only possible states.
LEMMA SetEntryPossible ==
  ASSUME TypeOK, Possible, NEW n \in Names, NEW i, SetEntry(n, i), Cell(n, i), UNCHANGED attempted
  PROVE  Possible'
<1>1. \A m \in Names : /\ entry'[m] = IF m = n THEN i ELSE entry[m]
                       /\ mayEntry'[m] = IF m = n THEN mayEntry[m] \cup {i} ELSE mayEntry[m]
  BY DEF SetEntry, TypeOK
<1>2. \A m \in Names : entry'[m] \in mayEntry'[m] /\ \A j \in mayEntry'[m] : Cell(m, j)
  BY <1>1, PossibleCells
<1>3. \A m, j : Cell(m, j)' <=> Cell(m, j)
  BY DEF Cell
<1>4. (\A m \in Names : entry[m] \in mayEntry[m] /\ \A j \in mayEntry[m] : Cell(m, j))'
  BY <1>2, <1>3
<1>5. (\A j \in Inodes : data[j] \in mayData[j] /\ \A c \in mayData[j] : c # Torn => j[2] <= c /\ c <= attempted)'
  BY DEF Possible, SetEntry
<1> QED BY <1>4, <1>5, CellsPossible

\* Syncing the directory or a file leaves only possible states.
LEMMA SyncPossible ==
  ASSUME TypeOK, Possible, UNCHANGED attempted, SyncDirectory \/ \E n \in Names : SyncElement(n)
  PROVE  Possible'
<1>1. \A m \in Names : /\ entry'[m] = entry[m]
                       /\ mayEntry'[m] \in {mayEntry[m], {entry[m]}}
  BY DEF SyncDirectory, SyncElement, TypeOK
<1>2. \A j \in Inodes : /\ data'[j] = data[j]
                        /\ mayData'[j] \in {mayData[j], {data[j]}}
  BY SMTT(30) DEF SyncDirectory, SyncElement, TypeOK
<1>3. \A m, j : Cell(m, j)' <=> Cell(m, j)
  BY DEF Cell
<1>4. (\A m \in Names : entry[m] \in mayEntry[m] /\ \A j \in mayEntry[m] : Cell(m, j))'
  BY <1>1, <1>3, PossibleCells
<1>5. (\A j \in Inodes : data[j] \in mayData[j] /\ \A c \in mayData[j] : c # Torn => j[2] <= c /\ c <= attempted)'
  BY <1>2, SMTT(30) DEF Possible
<1> QED BY <1>4, <1>5, CellsPossible

\* The file whose backup DumpFile writes, and nothing else, changes.
LEMMA DumpFileSets ==
  ASSUME TypeOK, Possible, Steps, NEW f \in Files, NEW c \in {mem, Torn}, DumpFile(f, c)
  PROVE  \E i \in Inodes :
           /\ i[1] = f /\ i[2] <= attempted
           /\ i = entry[Backup(f)] \/ (entry[Backup(f)] = Nil /\ i = <<f, mem>>)
           /\ entry' = [entry EXCEPT ![Backup(f)] = i]
           /\ mayEntry' = [mayEntry EXCEPT ![Backup(f)] = @ \cup {i}]
           /\ data' = [data EXCEPT ![i] = c]
           /\ mayData' = [mayData EXCEPT ![i] = @ \cup {c, Torn}]
           /\ mem = attempted /\ f \in FilesOf[mem]
<1> DEFINE i == IF entry[Backup(f)] = Nil THEN <<f, mem>> ELSE entry[Backup(f)]
<1>1. mem = attempted /\ f \in FilesOf[mem]
  BY DEF DumpFile, Steps, Saving
<1>2. i \in Inodes /\ i[1] = f /\ i[2] <= attempted
  <2>1. CASE entry[Backup(f)] = Nil
    BY <1>1, <2>1, Apart, SMTT(30) DEF TypeOK
  <2>2. CASE entry[Backup(f)] # Nil
    <3>1. entry[Backup(f)] \in mayEntry[Backup(f)] /\ Cell(Backup(f), entry[Backup(f)])
      BY FileNames, PossibleCells
    <3> QED BY <2>2, <3>1, FileNames DEF Cell, Kinds
  <2> QED BY <2>1, <2>2
<1>3. /\ entry' = [entry EXCEPT ![Backup(f)] = i]
      /\ mayEntry' = [mayEntry EXCEPT ![Backup(f)] = @ \cup {i}]
      /\ data' = [data EXCEPT ![i] = c]
      /\ mayData' = [mayData EXCEPT ![i] = @ \cup {c, Torn}]
  BY DEF DumpFile
<1>4. i = entry[Backup(f)] \/ (entry[Backup(f)] = Nil /\ i = <<f, mem>>)
  OBVIOUS
<1> HIDE DEF i
<1> QED BY <1>1, <1>2, <1>3, <1>4

\* So does writing a backup file, through a new inode or the one the name has.
LEMMA DumpPossible ==
  ASSUME TypeOK, Possible, Steps, NEW f \in Files, NEW c \in {mem, Torn}, DumpFile(f, c)
  PROVE  Possible'
<1>1. PICK i \in Inodes :
        /\ i[1] = f /\ i[2] <= attempted
        /\ i = entry[Backup(f)] \/ (entry[Backup(f)] = Nil /\ i = <<f, mem>>)
        /\ entry' = [entry EXCEPT ![Backup(f)] = i]
        /\ mayEntry' = [mayEntry EXCEPT ![Backup(f)] = @ \cup {i}]
        /\ data' = [data EXCEPT ![i] = c]
        /\ mayData' = [mayData EXCEPT ![i] = @ \cup {c, Torn}]
        /\ mem = attempted /\ f \in FilesOf[mem]
  BY DumpFileSets
<1>2. UNCHANGED attempted /\ attempted \in Nat
  BY Apart DEF DumpFile, TypeOK
<1>3. Cell(Backup(f), i)
  <2>1. \A g \in Files, s \in Kinds : Backup(f) = <<g, s>> => g = f
    BY FileNames, SMTT(30)
  <2> QED BY <1>1, <2>1, FileNames DEF Cell
<1>4. \A m \in Names : /\ entry'[m] = IF m = Backup(f) THEN i ELSE entry[m]
                       /\ mayEntry'[m] = IF m = Backup(f) THEN mayEntry[m] \cup {i} ELSE mayEntry[m]
  BY <1>1, FileNames DEF TypeOK
<1>5. \A m, j : Cell(m, j)' <=> Cell(m, j)
  BY <1>2 DEF Cell
<1>6. (\A m \in Names : entry[m] \in mayEntry[m] /\ \A j \in mayEntry[m] : Cell(m, j))'
  BY <1>3, <1>4, <1>5, PossibleCells
<1>7. \A j \in Inodes : /\ data'[j] = IF j = i THEN c ELSE data[j]
                        /\ mayData'[j] = IF j = i THEN mayData[j] \cup {c, Torn} ELSE mayData[j]
  BY <1>1 DEF TypeOK
<1>8. (\A j \in Inodes : data[j] \in mayData[j] /\ \A d \in mayData[j] : d # Torn => j[2] <= d /\ d <= attempted)'
  BY <1>1, <1>2, <1>7, SMTT(30) DEF Possible
<1> QED BY <1>6, <1>8, CellsPossible

\* Every step leaves only possible states.
LEMMA PossibleStep ==
  ASSUME TypeOK, Possible, Steps, [Next]_vars PROVE Possible'
<1>1. ASSUME UNCHANGED fs, attempted' \in {attempted, attempted + 1} PROVE Possible'
  <2>1. attempted \in Nat
    BY Apart DEF TypeOK
  <2>2. \A m, j : Cell(m, j) => Cell(m, j)'
    BY <1>1, <2>1, Apart, SMTT(30) DEF Cell
  <2>3. (\A n \in Names : entry[n] \in mayEntry[n] /\ \A i \in mayEntry[n] : Cell(n, i))'
    BY <1>1, <2>2, PossibleCells DEF fs
  <2>4. (\A i \in Inodes : data[i] \in mayData[i] /\ \A c \in mayData[i] : c # Torn => i[2] <= c /\ c <= attempted)'
    <3>1. \A i \in Inodes : \A c \in mayData[i] : c # Torn => c \in Nat
      BY Apart DEF TypeOK
    <3> QED BY <1>1, <2>1, <3>1, SMTT(30) DEF Possible, fs
  <2> QED BY <2>3, <2>4, CellsPossible
<1>2. CASE \/ UNCHANGED vars \/ Save \/ DumpDone \/ RelinkDone \/ Revalidated \/ Load \/ Loaded \/ IoError \/ Kill
           \/ \E f \in Files : ShortWrite(f)
  BY <1>1, <1>2 DEF vars, Save, DumpDone, RelinkDone, Revalidated, Load, Loaded, IoError, Kill, ShortWrite
<1>3. CASE SyncDone \/ GuardSynced \/ GuardDeleted \/ \E f \in Files : SyncFile(f)
  BY <1>3, SyncPossible, FileNames DEF SyncDone, GuardSynced, GuardDeleted, SyncFile
<1>4. Cell(Guard, Guard) /\ \A n \in Names : Cell(n, Nil)
  BY FileNames DEF Cell
<1>5. CASE CreateBackupGuard
  BY <1>1, <1>4, <1>5, SetEntryPossible, FileNames DEF CreateBackupGuard
<1>6. CASE DeleteGuard \/ \E n \in Names : Clean(n)
  BY <1>4, <1>6, SetEntryPossible, FileNames DEF DeleteGuard, Clean
<1>7. CASE \E f \in Files : Unlink(f) \/ DropBackup(f)
  BY <1>4, <1>7, SetEntryPossible, FileNames DEF Unlink, DropBackup
<1>8. ASSUME NEW f \in Files, Link(f) PROVE Possible'
  <2>1. Cell(Backup(f), entry[Backup(f)])
    BY FileNames, PossibleCells
  <2>2. Cell(Primary(f), entry[Backup(f)])
    BY <2>1, FileNames, SMTT(30) DEF Cell, Kinds
  <2> QED BY <1>8, <2>2, SetEntryPossible, FileNames DEF Link
<1>9. CASE \E f \in Files : DumpFile(f, mem) \/ DumpFile(f, Torn)
  BY <1>9, DumpPossible
<1>10. CASE PowerLoss
  <2>1. /\ \A n \in Names : entry'[n] \in mayEntry[n] /\ mayEntry'[n] = {entry'[n]}
        /\ \A i \in Inodes : data'[i] \in mayData[i] /\ mayData'[i] = {data'[i]}
        /\ UNCHANGED attempted
    BY <1>10, PowerLossFinds DEF PowerLoss
  <2>2. \A m, j : Cell(m, j)' <=> Cell(m, j)
    BY <2>1 DEF Cell
  <2>3. (\A n \in Names : entry[n] \in mayEntry[n] /\ \A i \in mayEntry[n] : Cell(n, i))'
    BY <2>1, <2>2, PossibleCells
  <2>4. (\A i \in Inodes : data[i] \in mayData[i] /\ \A c \in mayData[i] : c # Torn => i[2] <= c /\ c <= attempted)'
    BY <2>1, SMTT(30) DEF Possible
  <2> QED BY <2>3, <2>4, CellsPossible
<1> QED BY <1>2, <1>3, <1>5, <1>6, <1>7, <1>8, <1>9, <1>10 DEF Next

-----------------------------------------------------------------------------
\* save and load take the versions and files their steps are about.
LEMMA StepsStep ==
  ASSUME TypeOK, Possible, Steps, NotOlder, [Next]_vars PROVE Steps'
<1> USE Apart DEF Goto, Loop, Done, Saving, Replacing, Steps
<1>0. /\ mem \in Nat /\ attempted \in Nat /\ acked \in Nat /\ loading \in BOOLEAN
      /\ attempted \in Versions /\ mem \in Versions
  BY DEF TypeOK
<1>1. CASE UNCHANGED vars
  BY <1>1 DEF vars
<1>2. CASE Save
  BY <1>0, <1>2, SMTT(30) DEF Save
<1>3. CASE DumpDone \/ RelinkDone \/ GuardSynced \/ CreateBackupGuard \/ DeleteGuard
  BY <1>0, <1>3, SMTT(30) DEF DumpDone, RelinkDone, GuardSynced, CreateBackupGuard, DeleteGuard
<1>4. CASE SyncDone
  BY <1>0, <1>4 DEF SyncDone
<1>5. CASE GuardDeleted
  BY <1>0, <1>5 DEF GuardDeleted
<1>6. CASE Revalidated
  <2>1. CASE loading
    BY <1>0, <1>6, <2>1 DEF Revalidated
  <2>2. CASE ~loading
    BY <1>0, <1>6, <2>2, SMTT(30) DEF Revalidated
  <2> QED BY <2>1, <2>2
<1>7. CASE Load
  <2> DEFINE k == IF entry[Guard] # Nil THEN "backup" ELSE "primary"
  <2>1. CASE phase' = "corrupted" /\ mem' = mem /\ loading' = loading /\ todo' = {}
    BY <1>0, <1>7, <2>1 DEF Load
  <2>2. ASSUME NEW v \in Versions, ReadableAs(v, k), mem' = v, loading' = TRUE,
               \/ phase' = "relink" /\ todo' = FilesOf[v]
               \/ phase' = "clean" /\ todo' = {}
        PROVE  Steps'
    <3>1. k \in Kinds /\ entry[<<Index, k>>] # Nil /\ data[entry[<<Index, k>>]] = v
      BY <2>2, IndexFile DEF ReadableAs, Kinds
    <3>2. entry[<<Index, k>>] \in mayEntry[<<Index, k>>] /\ entry[<<Index, k>>] \in Inodes
      BY <3>1, IndexFile, FileNames DEF Possible
    <3>3. v \in mayData[entry[<<Index, k>>]]
      BY <3>1, <3>2 DEF Possible
    <3>4. acked <= v /\ v <= attempted
      BY <3>1, <3>2, <3>3, SMTT(30) DEF Possible, NotOlder
    <3> QED BY <1>0, <1>7, <2>2, <3>4 DEF Load
  <2>3. \/ phase' = "corrupted" /\ mem' = mem /\ loading' = loading /\ todo' = {}
        \/ \E v \in Versions :
             /\ ReadableAs(v, k) /\ mem' = v /\ loading' = TRUE
             /\ \/ phase' = "relink" /\ todo' = FilesOf[v]
                \/ phase' = "clean" /\ todo' = {}
    BY <1>7 DEF Load
  <2> HIDE DEF k
  <2> QED BY <2>1, <2>2, <2>3
<1>8. CASE Loaded
  BY <1>0, <1>8 DEF Loaded
<1>9. CASE IoError
  <2>1. phase' \in {"idle", "down"} /\ todo' = {} /\ loading' = FALSE /\ UNCHANGED <<mem, attempted, acked>>
    BY <1>9 DEF IoError
  <2> QED BY <1>0, <2>1
<1>10. CASE Kill \/ PowerLoss
  <2>1. phase' = "down" /\ todo' = {} /\ loading' = FALSE /\ UNCHANGED <<mem, attempted, acked>>
    BY <1>10 DEF Kill, PowerLoss
  <2> QED BY <1>0, <2>1
<1>11. ASSUME NEW f \in Files, NEW c \in {mem, Torn}, DumpFile(f, c) PROVE Steps'
  <2>1. todo' \subseteq todo /\ UNCHANGED <<phase, loading, mem, attempted, acked>>
    BY <1>11 DEF DumpFile
  <2> QED BY <1>0, <2>1
<1>12. ASSUME NEW f \in Files, ShortWrite(f) \/ SyncFile(f) \/ Unlink(f) \/ Link(f) \/ DropBackup(f) PROVE Steps'
  <2>1. todo' \subseteq todo /\ UNCHANGED <<phase, loading, mem, attempted, acked>>
    BY <1>12 DEF ShortWrite, SyncFile, Unlink, Link, DropBackup
  <2> QED BY <1>0, <2>1
<1>13. ASSUME NEW n \in Names, Clean(n) PROVE Steps'
  BY <1>13 DEF Clean
<1> QED BY <1>1, <1>2, <1>3, <1>4, <1>5, <1>6, <1>7, <1>8, <1>9, <1>10, <1>11, <1>12, <1>13 DEF Next

\* Nothing older appears if names and inodes only lose possibilities, or one
\* name gets an inode of the other.
LEMMA NotOlderKept ==
  ASSUME Possible, NotOlder, UNCHANGED acked,
         \A s \in Kinds : \A i \in mayEntry'[<<Index, s>>] \ {Nil} :
           \E u \in Kinds : i \in mayEntry[<<Index, u>>],
         \A i \in Inodes : mayData'[i] \subseteq mayData[i]
  PROVE  NotOlder'
<1> SUFFICES ASSUME NEW s \in Kinds, NEW i \in mayEntry'[<<Index, s>>] \ {Nil}, NEW c \in mayData'[i], c # Torn
             PROVE  acked <= c
  BY DEF NotOlder
<1>1. PICK u \in Kinds : i \in mayEntry[<<Index, u>>] \ {Nil}
  OBVIOUS
<1>2. c \in mayData[i]
  BY <1>1, IndexFile DEF Possible
<1> QED BY <1>1, <1>2 DEF NotOlder

\* Every step keeps the versions before the last acknowledged one out of reach of the
\* index: save acknowledges once both of its names can only lead to the new version.
LEMMA NotOlderStep ==
  ASSUME TypeOK, Possible, Steps, NotOlder, ~loading => IndexSaved, [Next]_vars PROVE NotOlder'
<1>0. \A s \in Kinds : <<Index, s>> \in Names
  BY IndexFile, FileNames
<1>1. ASSUME UNCHANGED fs, UNCHANGED acked PROVE NotOlder'
  BY <1>1, NotOlderKept DEF fs
<1>2. ASSUME NEW n \in Names, NEW i, SetEntry(n, i), UNCHANGED acked,
             i # Nil => n \notin {<<Index, s>> : s \in Kinds} \/ \E u \in Kinds : i \in mayEntry[<<Index, u>>]
      PROVE  NotOlder'
  <2>1. \A s \in Kinds : mayEntry'[<<Index, s>>] \subseteq mayEntry[<<Index, s>>] \cup (IF n = <<Index, s>> THEN {i} ELSE {})
    BY <1>0, <1>2 DEF SetEntry, TypeOK
  <2>2. \A s \in Kinds : \A j \in mayEntry'[<<Index, s>>] \ {Nil} : \E u \in Kinds : j \in mayEntry[<<Index, u>>]
    BY <1>2, <2>1
  <2>3. UNCHANGED mayData
    BY <1>2 DEF SetEntry
  <2> QED BY <1>2, <2>2, <2>3, NotOlderKept
<1>3. ASSUME SyncDirectory \/ \E n \in Names : SyncElement(n), UNCHANGED acked PROVE NotOlder'
  <2>1. \A s \in Kinds : mayEntry'[<<Index, s>>] \subseteq mayEntry[<<Index, s>>]
    BY <1>0, <1>3, SMTT(30) DEF SyncDirectory, SyncElement, TypeOK, Possible
  <2>2. \A i \in Inodes : mayData'[i] \subseteq mayData[i]
    BY <1>3, SMTT(30) DEF SyncDirectory, SyncElement, TypeOK, Possible
  <2> QED BY <1>3, <2>1, <2>2, NotOlderKept
<1>4. CASE \/ UNCHANGED vars \/ Save \/ DumpDone \/ RelinkDone \/ Load \/ Loaded \/ IoError \/ Kill
           \/ \E f \in Files : ShortWrite(f)
  BY <1>1, <1>4 DEF vars, Save, DumpDone, RelinkDone, Load, Loaded, IoError, Kill, ShortWrite
<1>5. CASE SyncDone \/ GuardSynced \/ GuardDeleted \/ \E f \in Files : SyncFile(f)
  BY <1>3, <1>5, FileNames DEF SyncDone, GuardSynced, GuardDeleted, SyncFile
<1>6. \A s \in Kinds : <<Index, s>> # Guard
  BY IndexFile, FileNames
<1>7. CASE CreateBackupGuard
  BY <1>1, <1>2, <1>6, <1>7, FileNames DEF CreateBackupGuard
<1>8. CASE DeleteGuard \/ \E n \in Names : Clean(n)
  BY <1>2, <1>8, FileNames DEF DeleteGuard, Clean
<1>9. CASE \E f \in Files : Unlink(f) \/ DropBackup(f)
  BY <1>2, <1>9, FileNames DEF Unlink, DropBackup
<1>10. ASSUME NEW f \in Files, Link(f) PROVE NotOlder'
  <2>1. CASE f = Index
    <3>1. entry[Backup(f)] \in mayEntry[<<Index, "backup">>] /\ "backup" \in Kinds
      BY <2>1, FileNames DEF Possible, Kinds
    <3> QED BY <1>2, <1>10, <3>1, FileNames DEF Link
  <2>2. CASE f # Index
    <3>1. Primary(f) \notin {<<Index, s>> : s \in Kinds}
      BY <2>2, FileNames, SMTT(30)
    <3> QED BY <1>2, <1>10, <3>1, FileNames DEF Link
  <2> QED BY <2>1, <2>2
<1>11. CASE PowerLoss
  <2>1. /\ \A n \in Names : mayEntry'[n] \subseteq mayEntry[n]
        /\ \A i \in Inodes : mayData'[i] \subseteq mayData[i]
        /\ UNCHANGED acked
    BY <1>11, PowerLossFinds DEF PowerLoss
  <2> QED BY <1>0, <2>1, NotOlderKept
<1>12. CASE Revalidated
  <2>1. CASE loading
    BY <1>1, <1>12, <2>1 DEF Revalidated
  <2>2. CASE ~loading
    <3>1. acked' = mem /\ UNCHANGED fs /\ phase = "dropBackup" /\ mem \in Nat /\ IndexSaved
      BY <1>12, <2>2, Apart DEF Revalidated, TypeOK
    <3> DEFINE j == entry[Primary(Index)]
    <3>2. mayEntry[Primary(Index)] = {j} /\ mayEntry[Backup(Index)] \subseteq {j, Nil} /\ mayData[j] \subseteq {mem, Torn}
      BY <3>1 DEF IndexSaved
    <3> HIDE DEF j
    <3>3. \A s \in Kinds : mayEntry[<<Index, s>>] \subseteq {j, Nil}
      BY <3>2, IndexFile, FileNames DEF Kinds
    <3> QED BY <3>1, <3>2, <3>3, SMTT(30) DEF NotOlder, fs
  <2> QED BY <2>1, <2>2
<1>13. ASSUME NEW f \in Files, NEW c \in {mem, Torn}, DumpFile(f, c) PROVE NotOlder'
  <2>1. PICK i \in Inodes :
           /\ i[1] = f /\ i[2] <= attempted
           /\ i = entry[Backup(f)] \/ (entry[Backup(f)] = Nil /\ i = <<f, mem>>)
           /\ entry' = [entry EXCEPT ![Backup(f)] = i]
           /\ mayEntry' = [mayEntry EXCEPT ![Backup(f)] = @ \cup {i}]
           /\ data' = [data EXCEPT ![i] = c]
           /\ mayData' = [mayData EXCEPT ![i] = @ \cup {c, Torn}]
           /\ mem = attempted /\ f \in FilesOf[mem]
    BY <1>13, DumpFileSets
  <2>2. UNCHANGED acked /\ acked <= mem /\ mem \in Nat /\ acked \in Nat
    BY <1>13, <2>1, Apart DEF DumpFile, Steps, TypeOK
  <2> SUFFICES ASSUME NEW s \in Kinds, NEW j \in mayEntry'[<<Index, s>>] \ {Nil}, NEW d \in mayData'[j], d # Torn
               PROVE  acked <= d
    BY <2>2 DEF NotOlder
  <2>3. \/ j \in mayEntry[<<Index, s>>]
        \/ Backup(f) = <<Index, s>> /\ j = i
    BY <1>0, <2>1, FileNames DEF TypeOK
  <2>4. j \in Inodes
    BY <2>1, <2>3, IndexFile DEF Possible
  <2>5. d \in mayData[j] \/ (j = i /\ d = mem)
    BY <2>1, <2>4 DEF TypeOK
  <2>6. CASE d = mem
    BY <2>2, <2>6
  <2>7. CASE d \in mayData[j] /\ j \in mayEntry[<<Index, s>>]
    BY <2>7 DEF NotOlder
  <2>8. CASE d \in mayData[j] /\ Backup(f) = <<Index, s>> /\ j = i /\ i = entry[Backup(f)]
    <3>1. j \in mayEntry[<<Index, s>>]
      BY <1>0, <2>8 DEF Possible
    <3> QED BY <2>8, <3>1 DEF NotOlder
  <2>9. CASE d \in mayData[j] /\ j = i /\ i = <<f, mem>>
    <3>1. mem <= d /\ d <= attempted
      BY <2>4, <2>9 DEF Possible
    <3>2. d \in Nat
      BY <2>4, <2>9, Apart, SMTT(30) DEF TypeOK
    <3> QED BY <2>2, <3>1, <3>2, SMTT(30)
  <2> QED BY <2>1, <2>3, <2>5, <2>6, <2>7, <2>8, <2>9
<1> QED BY <1>4, <1>5, <1>7, <1>8, <1>9, <1>10, <1>11, <1>12, <1>13 DEF Next

\* The inodes behind the names of the index.
LEMMA IndexInodes ==
  ASSUME TypeOK, Possible
  PROVE  /\ entry[Backup(Index)] # Nil => entry[Backup(Index)] \in Inodes /\ entry[Backup(Index)][1] = Index
         /\ entry[Primary(Index)] # Nil => entry[Primary(Index)] \in Inodes /\ entry[Primary(Index)][1] = Index
         /\ entry[Backup(Index)] \in mayEntry[Backup(Index)] /\ entry[Primary(Index)] \in mayEntry[Primary(Index)]
         /\ Backup(Index) \in Names /\ Primary(Index) \in Names
         /\ Backup(Index) # Guard /\ Primary(Index) # Guard /\ Primary(Index) # Backup(Index)
<1>1. Backup(Index) = <<Index, "backup">> /\ Primary(Index) = <<Index, "primary">>
  BY IndexFile, FileNames
<1>2. Backup(Index) \in Names /\ Primary(Index) \in Names /\ Backup(Index) # Guard /\ Primary(Index) # Guard
  BY IndexFile, FileNames
<1>3. entry[Backup(Index)] \in mayEntry[Backup(Index)] /\ entry[Primary(Index)] \in mayEntry[Primary(Index)]
  BY <1>2 DEF Possible
<1>4. \A s \in Kinds : \A i \in mayEntry[<<Index, s>>] \ {Nil} : i \in Inodes /\ i[1] = Index
  BY IndexFile DEF Possible
<1> QED BY <1>1, <1>2, <1>3, <1>4, SMTT(30) DEF Kinds

\* A save replaces the index by its own version, or by a torn one.
LEMMA IndexSavedStep ==
  ASSUME TypeOK, Possible, Steps, ~loading => IndexSaved, [Next]_vars PROVE ~loading' => IndexSaved'
<1> SUFFICES ASSUME ~loading' PROVE IndexSaved'
  OBVIOUS
<1> USE DEF Replacing, Goto, Loop, Done
<1>0. mem \in Versions /\ Index \in FilesOf[mem] /\ Index \in Files
  BY IndexFile DEF TypeOK
<1>1. CASE UNCHANGED vars
  BY <1>1 DEF vars, fs, IndexSaved
<1>2. CASE Save
  <2>1. phase' = "dump" /\ Index \in todo'
    <3>1. mem' \in Versions
      BY <1>2, TypeStep DEF TypeOK
    <3> QED BY <1>2, <3>1, IndexFile DEF Save
  <2> QED BY <2>1 DEF IndexSaved
<1>3. CASE DumpDone
  BY <1>0, <1>3 DEF DumpDone, fs, IndexSaved
<1>4. CASE RelinkDone
  BY <1>0, <1>4 DEF RelinkDone, fs, IndexSaved
<1>5. CASE SyncDone
  <2>1. /\ UNCHANGED <<entry, data, mayData, mem>> /\ mayEntry' = [n \in Names |-> {entry[n]}] /\ todo = {} /\ ~loading
        /\ <<phase, phase'>> \in {<<"syncBackup", "guard">>, <<"syncPrimary", "unguard">>}
    BY <1>5 DEF SyncDone, SyncDirectory
  <2>2. mayEntry'[Backup(Index)] = {entry[Backup(Index)]} /\ mayEntry'[Primary(Index)] = {entry[Primary(Index)]}
    BY <2>1, IndexInodes
  <2> QED BY <2>1, <2>2 DEF IndexSaved
<1>6. CASE CreateBackupGuard
  <2>1. /\ ~loading /\ phase = "guard" /\ phase' \in {"guardSync", "idle"} /\ UNCHANGED <<data, mayData, mem>>
        /\ entry'[Backup(Index)] = entry[Backup(Index)] /\ mayEntry'[Backup(Index)] = mayEntry[Backup(Index)]
    BY <1>6, IndexInodes DEF CreateBackupGuard, SetEntry, fs, TypeOK
  <2> QED BY <2>1 DEF IndexSaved
<1>7. CASE GuardSynced
  <2>1. /\ ~loading /\ phase = "guardSync" /\ phase' = "relink" /\ todo' = FilesOf[mem]
        /\ UNCHANGED <<entry, data, mayData, mem>>
        /\ mayEntry'[Backup(Index)] = {entry[Backup(Index)]}
    BY <1>7, IndexInodes DEF GuardSynced, SyncDirectory
  <2> QED BY <1>0, <2>1 DEF IndexSaved
<1>8. CASE DeleteGuard
  <2>1. /\ ~loading /\ phase = "unguard" /\ phase' = "unguardSync" /\ UNCHANGED <<data, mayData, mem>>
        /\ entry'[Backup(Index)] = entry[Backup(Index)] /\ mayEntry'[Backup(Index)] = mayEntry[Backup(Index)]
        /\ entry'[Primary(Index)] = entry[Primary(Index)] /\ mayEntry'[Primary(Index)] = mayEntry[Primary(Index)]
    BY <1>8, IndexInodes DEF DeleteGuard, SetEntry, TypeOK
  <2> QED BY <2>1 DEF IndexSaved
<1>9. CASE GuardDeleted
  <2>1. /\ ~loading /\ phase = "unguardSync" /\ phase' = "dropBackup" /\ UNCHANGED <<entry, data, mayData, mem>>
        /\ mayEntry'[Backup(Index)] = {entry[Backup(Index)]} /\ mayEntry'[Primary(Index)] = {entry[Primary(Index)]}
    BY <1>9, IndexInodes DEF GuardDeleted, SyncDirectory
  <2> QED BY <2>1 DEF IndexSaved
<1>10. CASE Revalidated \/ Loaded \/ IoError \/ Kill \/ PowerLoss
  <2>1. phase' \in {"idle", "down", "clean"}
    BY <1>10 DEF Revalidated, Loaded, IoError, Kill, PowerLoss
  <2> QED BY <2>1 DEF IndexSaved
<1>11. CASE Load
  <2>1. phase' = "corrupted"
    BY <1>11 DEF Load
  <2> QED BY <2>1 DEF IndexSaved
<1>12. ASSUME NEW n \in Names, Clean(n) PROVE IndexSaved'
  BY <1>12 DEF Clean, IndexSaved
<1>13. ASSUME NEW f \in Files, NEW c \in {mem, Torn}, DumpFile(f, c) PROVE IndexSaved'
  <2>1. PICK i \in Inodes :
           /\ i[1] = f /\ i[2] <= attempted
           /\ i = entry[Backup(f)] \/ (entry[Backup(f)] = Nil /\ i = <<f, mem>>)
           /\ entry' = [entry EXCEPT ![Backup(f)] = i]
           /\ mayEntry' = [mayEntry EXCEPT ![Backup(f)] = @ \cup {i}]
           /\ data' = [data EXCEPT ![i] = c]
           /\ mayData' = [mayData EXCEPT ![i] = @ \cup {c, Torn}]
           /\ mem = attempted /\ f \in FilesOf[mem]
    BY <1>13, DumpFileSets
  <2>2. /\ phase = "dump" /\ phase' = phase /\ f \in todo /\ todo' = IF c = Torn THEN todo ELSE todo \ {f}
        /\ mem' = mem /\ ~loading
    BY <1>13 DEF DumpFile
  <2> SUFFICES ASSUME Index \notin todo' PROVE entry'[Backup(Index)] # Nil /\ data'[entry'[Backup(Index)]] \in {mem, Torn}
    BY <2>2 DEF IndexSaved
  <2>3. CASE f = Index
    <3>1. entry'[Backup(Index)] = i /\ data'[i] = c
      BY <2>1, <2>3, IndexInodes DEF TypeOK
    <3> QED BY <2>1, <3>1, Apart, SMTT(30)
  <2>4. CASE f # Index
    <3>1. Index \notin todo /\ entry[Backup(Index)] # Nil /\ data[entry[Backup(Index)]] \in {mem, Torn}
      BY <2>2, <2>4 DEF IndexSaved
    <3>2. entry'[Backup(Index)] = entry[Backup(Index)]
      <4>1. Backup(f) # Backup(Index)
        BY <1>0, <2>4, FileNames, SMTT(30)
      <4> QED BY <2>1, <4>1, IndexInodes DEF TypeOK
    <3>3. data'[entry[Backup(Index)]] = data[entry[Backup(Index)]]
      BY <2>1, <2>4, <3>1, IndexInodes DEF TypeOK
    <3> QED BY <3>1, <3>2, <3>3
  <2> QED BY <2>3, <2>4
<1>14. ASSUME NEW f \in Files, ShortWrite(f) PROVE IndexSaved'
  <2>1. /\ phase = "dump" /\ phase' = phase /\ todo' = todo \ {f} /\ UNCHANGED <<entry, data, mayEntry, mayData, mem>>
        /\ ~loading /\ entry[Backup(f)] # Nil /\ data[entry[Backup(f)]] = Torn
    BY <1>14 DEF ShortWrite, fs
  <2> QED BY <2>1 DEF IndexSaved
<1>15. ASSUME NEW f \in Files, SyncFile(f) PROVE IndexSaved'
  <2>1. /\ UNCHANGED <<phase, mem, entry, mayEntry, data>> /\ ~loading /\ todo' = todo \ {f}
        /\ phase \in {"syncBackup", "syncPrimary"}
    BY <1>15 DEF SyncFile, SyncElement
  <2>2. \A j \in Inodes : mayData'[j] \subseteq mayData[j]
    BY <1>15, FileNames, SMTT(30) DEF SyncFile, SyncElement, TypeOK, Possible
  <2>3. CASE phase = "syncBackup"
    <3>1. f = Index => mayData'[entry[Backup(Index)]] = {data[entry[Backup(Index)]]}
      <4>1. entry[Backup(Index)] \in Inodes
        BY <2>1, <2>3, IndexInodes DEF IndexSaved
      <4> QED BY <1>15, <2>3, <4>1 DEF SyncFile, SyncElement, TypeOK
    <3> QED BY <2>1, <2>2, <2>3, <3>1, IndexInodes DEF IndexSaved
  <2>4. CASE phase = "syncPrimary"
    BY <2>1, <2>2, <2>4, IndexInodes DEF IndexSaved
  <2> QED BY <2>1, <2>3, <2>4
<1>16. ASSUME NEW f \in Files, Unlink(f) PROVE IndexSaved'
  <2>1. /\ UNCHANGED <<phase, todo, mem, data, mayData>> /\ ~loading /\ f \in todo /\ phase = "relink"
        /\ entry' = [entry EXCEPT ![Primary(f)] = Nil]
        /\ mayEntry' = [mayEntry EXCEPT ![Primary(f)] = @ \cup {Nil}]
    BY <1>16 DEF Unlink, SetEntry
  <2>2. Primary(f) # Backup(Index) /\ (f # Index => Primary(f) # Primary(Index))
    BY <1>0, FileNames, SMTT(30)
  <2>3. /\ entry'[Backup(Index)] = entry[Backup(Index)] /\ mayEntry'[Backup(Index)] = mayEntry[Backup(Index)]
        /\ Index \notin todo => entry'[Primary(Index)] = entry[Primary(Index)]
    BY <2>1, <2>2, IndexInodes DEF TypeOK
  <2> QED BY <2>1, <2>3 DEF IndexSaved
<1>17. ASSUME NEW f \in Files, Link(f) PROVE IndexSaved'
  <2>1. /\ UNCHANGED <<phase, mem, data, mayData>> /\ ~loading /\ f \in todo /\ phase = "relink" /\ todo' = todo \ {f}
        /\ entry' = [entry EXCEPT ![Primary(f)] = entry[Backup(f)]]
        /\ mayEntry' = [mayEntry EXCEPT ![Primary(f)] = @ \cup {entry[Backup(f)]}]
    BY <1>17 DEF Link, SetEntry
  <2>2. Primary(f) # Backup(Index) /\ (f # Index => Primary(f) # Primary(Index))
    BY <1>0, FileNames, SMTT(30)
  <2>3. /\ entry'[Backup(Index)] = entry[Backup(Index)] /\ mayEntry'[Backup(Index)] = mayEntry[Backup(Index)]
        /\ entry'[Primary(Index)] = IF f = Index THEN entry[Backup(Index)] ELSE entry[Primary(Index)]
    BY <2>1, <2>2, IndexInodes DEF TypeOK
  <2> QED BY <2>1, <2>3 DEF IndexSaved
<1>18. ASSUME NEW f \in Files, DropBackup(f) PROVE IndexSaved'
  <2>1. /\ UNCHANGED <<phase, mem, data, mayData>> /\ ~loading /\ phase = "dropBackup"
        /\ entry' = [entry EXCEPT ![Backup(f)] = Nil]
        /\ mayEntry' = [mayEntry EXCEPT ![Backup(f)] = @ \cup {Nil}]
    BY <1>18 DEF DropBackup, SetEntry
  <2>2. Backup(f) # Primary(Index)
    BY <1>0, FileNames, SMTT(30)
  <2>3. /\ entry'[Primary(Index)] = entry[Primary(Index)] /\ mayEntry'[Primary(Index)] = mayEntry[Primary(Index)]
        /\ mayEntry'[Backup(Index)] \subseteq mayEntry[Backup(Index)] \cup {Nil}
    BY <2>1, <2>2, IndexInodes DEF TypeOK
  <2> QED BY <2>1, <2>3 DEF IndexSaved
<1> QED BY <1>1, <1>2, <1>3, <1>4, <1>5, <1>6, <1>7, <1>8, <1>9, <1>10, <1>11, <1>12, <1>13, <1>14, <1>15,
           <1>16, <1>17, <1>18 DEF Next

\* The first start finds version 0, and nothing else is possible.
LEMMA AgeInit == Init => AgeInv
<1> SUFFICES ASSUME Init PROVE AgeInv
  OBVIOUS
<1>1. 0 \in Versions /\ Versions \subseteq Nat /\ Inodes = Files \X Versions
  BY Apart DEF Inodes
<1>2. \A n \in Names : entry[n] = IF n \in {Primary(f) : f \in FilesOf[0]} THEN <<n[1], 0>> ELSE Nil
  BY DEF Init
<1>3. entry[Guard] = Nil
  <2>1. Guard \notin {Primary(f) : f \in FilesOf[0]}
    BY <1>1, Apart, FileNames
  <2> QED BY <1>2, <2>1, FileNames
<1>4. \A f \in Files, s \in Kinds : entry[<<f, s>>] = Nil \/ entry[<<f, s>>] = <<f, 0>>
  BY <1>2, FileNames
<1>5. \A n \in Names : entry[n] \in Inodes \cup {Nil, Guard}
  BY <1>1, <1>3, <1>4, Apart, FileNames, SMTT(30)
<1>6. TypeOK
  <2>1. entry \in [Names -> Inodes \cup {Nil, Guard}]
    BY <1>5 DEF Init
  <2>2. mayEntry \in [Names -> SUBSET (Inodes \cup {Nil, Guard})]
    BY <1>5 DEF Init
  <2>3. data \in [Inodes -> Versions \cup {Torn}]
    BY <1>1 DEF Init
  <2>4. mayData \in [Inodes -> SUBSET (Versions \cup {Torn})]
    BY <2>3 DEF Init
  <2> QED BY <1>1, <2>1, <2>2, <2>3, <2>4 DEF Init, TypeOK
<1>7. Possible
  <2>1. \A n \in Names : mayEntry[n] = {entry[n]}
    BY DEF Init
  <2>2. \A i \in Inodes : mayData[i] = {data[i]} /\ (data[i] = Torn \/ (data[i] = 0 /\ i[2] = 0))
    BY DEF Init
  <2>3. attempted = 0
    BY DEF Init
  <2> QED BY <1>3, <1>4, <2>1, <2>2, <2>3, Apart, FileNames, SMTT(30) DEF Possible
<1>8. Steps
  BY SMTT(30) DEF Init, Steps, Saving, Replacing
<1>9. NotOlder
  <2>1. \A i \in Inodes : \A c \in mayData[i] : c = Torn \/ c = 0
    BY DEF Init
  <2>2. acked = 0
    BY DEF Init
  <2>3. \A s \in Kinds : \A i \in mayEntry[<<Index, s>>] \ {Nil} : i \in Inodes
    BY <1>7, IndexFile DEF Possible
  <2> QED BY <2>1, <2>2, <2>3, SMTT(30) DEF NotOlder
<1>10. IndexSaved
  BY DEF Init, IndexSaved, Replacing
<1> QED BY <1>6, <1>7, <1>8, <1>9, <1>10 DEF AgeInv

\* A restart never delivers a database older than the last one save returned
\* for: with any files and versions, failing system calls, kills and power
\* failures at any point, in any order.
THEOREM RestartNotOlder == Spec => []LoadedIsCurrent
<1>1. AgeInv /\ [Next]_vars => AgeInv'
  BY TypeStep, PossibleStep, StepsStep, NotOlderStep, IndexSavedStep DEF AgeInv
<1>2. AgeInv => LoadedIsCurrent
  BY DEF AgeInv, Steps, LoadedIsCurrent
<1> QED BY AgeInit, <1>1, <1>2, PTL DEF Spec

-----------------------------------------------------------------------------
\* A version stays whole while names and inodes only lose possibilities.
LEMMA WholeKept ==
  ASSUME NEW B, NEW H, NEW C, NEW G, NEW v, NEW k, Whole(B, H, v, k),
         \A f \in FilesOf[v] : C[<<f, k>>] \subseteq B[<<f, k>>],
         \A f \in FilesOf[v] : \A i \in B[<<f, k>>] : G[i] \subseteq H[i]
  PROVE  Whole(C, G, v, k)
  BY DEF Whole

\* Some version stays whole if fewer inodes, with less content, become possible.
LEMMA SomeWholeKept ==
  ASSUME NEW B, NEW H, NEW C, NEW G, NEW k \in Kinds, SomeWhole(B, H, k),
         \A f \in Files : C[<<f, k>>] \subseteq B[<<f, k>>],
         \A f \in Files : \A i \in B[<<f, k>>] : G[i] \subseteq H[i]
  PROVE  SomeWhole(C, G, k)
<1>1. PICK v \in Versions : Whole(B, H, v, k)
  BY DEF SomeWhole
<1>2. FilesOf[v] \subseteq Files
  BY Apart
<1>3. Whole(C, G, v, k)
  BY <1>1, <1>2, WholeKept
<1> QED BY <1>3 DEF SomeWhole

\* What is there now may be found, names of files have inodes of that file, and
\* the guard is there or not.
LEMMA MaybeNow ==
  ASSUME TypeOK, Possible
  PROVE  /\ \A n \in Names : entry[n] \in Maybe[n] /\ Maybe[n] \subseteq mayEntry[n]
         /\ \A i \in Inodes : data[i] \in Holds[i]
         /\ Maybe[Guard] \subseteq {Nil, Guard} /\ entry[Guard] \in Maybe[Guard]
         /\ \A f \in Files, k \in Kinds : \A i \in Maybe[<<f, k>>] \ {Nil} :
              i \in Inodes /\ i[1] = f /\ i[2] <= attempted
<1>1. \A n \in Names : entry[n] \in Maybe[n] /\ Maybe[n] \subseteq mayEntry[n]
  BY SMTT(30) DEF Maybe, Possible
<1>2. \A i \in Inodes : data[i] \in Holds[i]
  BY DEF Holds, Possible
<1>3. Maybe[Guard] \subseteq {Nil, Guard} /\ entry[Guard] \in Maybe[Guard]
  BY <1>1, FileNames DEF Possible
<1>4. \A f \in Files, k \in Kinds : <<f, k>> \in Names
  BY FileNames
<1>5. \A f \in Files, k \in Kinds : \A i \in Maybe[<<f, k>>] \ {Nil} : i \in Inodes /\ i[1] = f /\ i[2] <= attempted
  BY <1>1, <1>4 DEF Possible
<1> QED BY <1>1, <1>2, <1>3, <1>5

\* The operations, seen by the next start.
LEMMA SameMaybe ==
  ASSUME UNCHANGED <<fs, crashes>> PROVE UNCHANGED <<Maybe, Holds, entry, data>>
  BY DEF Maybe, Holds, fs

\* A directory operation adds one inode to what may be behind one name.
LEMMA SetEntryMaybe ==
  ASSUME TypeOK, NEW n \in Names, NEW i, SetEntry(n, i), UNCHANGED crashes
  PROVE  /\ UNCHANGED <<Holds, data>>
         /\ \A m \in Names : m # n => Maybe'[m] = Maybe[m] /\ entry'[m] = entry[m]
         /\ Maybe'[n] \subseteq Maybe[n] \cup {i} /\ entry'[n] = i
<1>1. UNCHANGED <<data, mayData>> /\ entry' = [entry EXCEPT ![n] = i] /\ mayEntry' = [mayEntry EXCEPT ![n] = @ \cup {i}]
  BY DEF SetEntry
<1>2. UNCHANGED Holds
  BY <1>1 DEF Holds
<1>3. \A m \in Names : entry'[m] = IF m = n THEN i ELSE entry[m]
  BY <1>1 DEF TypeOK
<1>4. \A m \in Names : mayEntry'[m] = IF m = n THEN mayEntry[m] \cup {i} ELSE mayEntry[m]
  BY <1>1 DEF TypeOK
<1> QED BY <1>1, <1>2, <1>3, <1>4 DEF Maybe

\* Syncing the directory leaves one inode behind each name.
LEMMA SyncDirectoryMaybe ==
  ASSUME TypeOK, SyncDirectory, UNCHANGED crashes
  PROVE  UNCHANGED <<Holds, data, entry>> /\ \A m \in Names : Maybe'[m] = {entry[m]}
  BY DEF SyncDirectory, Maybe, Holds

\* Syncing a file leaves one content in its inode.
LEMMA SyncElementMaybe ==
  ASSUME TypeOK, Possible, NEW n \in Names, SyncElement(n), UNCHANGED crashes
  PROVE  /\ UNCHANGED <<Maybe, data, entry>>
         /\ \A i \in Inodes : Holds'[i] \subseteq Holds[i]
         /\ entry[n] \in Inodes => Holds'[entry[n]] = {data[entry[n]]}
<1>1. UNCHANGED <<entry, mayEntry, data>> /\ mayData' = [mayData EXCEPT ![entry[n]] = {data[entry[n]]}]
  BY DEF SyncElement
<1>2. UNCHANGED Maybe
  BY <1>1 DEF Maybe
<1>3. \A i \in Inodes : mayData'[i] = IF i = entry[n] THEN {data[i]} ELSE mayData[i]
  BY <1>1 DEF TypeOK
<1>4. \A i \in Inodes : Holds'[i] \subseteq Holds[i]
  BY <1>1, <1>3, SMTT(30) DEF Holds, Possible
<1>5. entry[n] \in Inodes => Holds'[entry[n]] = {data[entry[n]]}
  BY <1>1, <1>3 DEF Holds
<1> QED BY <1>1, <1>2, <1>4, <1>5

\* A crash leaves one of the possible states.
LEMMA CrashMaybe ==
  ASSUME TypeOK, Possible, Kill \/ PowerLoss, Calm'
  PROVE  /\ \A n \in Names : Maybe'[n] = {entry'[n]} /\ entry'[n] \in Maybe[n]
         /\ \A i \in Inodes : Holds'[i] = {data'[i]} /\ data'[i] \in Holds[i]
<1>1. CASE Kill
  <2>1. "kill" \in crashes' /\ UNCHANGED <<entry, data>>
    BY <1>1 DEF Kill, fs
  <2>2. Maybe' = [n \in Names |-> {entry'[n]}] /\ Holds' = [i \in Inodes |-> {data'[i]}]
    BY <2>1 DEF Maybe, Holds
  <2> QED BY <2>1, <2>2, MaybeNow
<1>2. CASE PowerLoss
  <2>1. "kill" \notin crashes'
    BY <1>2 DEF PowerLoss, Calm, TypeOK
  <2>2. "kill" \notin crashes
    BY <1>2, <2>1 DEF PowerLoss
  <2>3. Maybe = mayEntry /\ Holds = mayData /\ Maybe' = mayEntry' /\ Holds' = mayData'
    BY <2>1, <2>2 DEF Maybe, Holds
  <2> QED BY <1>2, <2>3, PowerLossFinds DEF PowerLoss
<1> QED BY <1>1, <1>2

\* Whatever the guard is found to be, the files it points to are whole.
LEMMA Loadable ==
  ASSUME TypeOK, Possible, Recoverable
  PROVE  /\ Nil \in Maybe[Guard] => SomeWhole(Maybe, Holds, "primary")
         /\ Guard \in Maybe[Guard] => SomeWhole(Maybe, Holds, "backup")
<1>1. CASE phase = "down"
  <2>1. Maybe[Guard] = {entry[Guard]}
    BY <1>1, FileNames DEF Recoverable
  <2> QED BY <1>1, <2>1, Apart, SMTT(30) DEF Recoverable
<1>2. CASE phase \in {"idle", "dump", "syncBackup", "guard"}
  BY <1>2, Apart DEF Recoverable
<1>3. Whole(Maybe, Holds, mem, "backup") => SomeWhole(Maybe, Holds, "backup")
  BY DEF SomeWhole, TypeOK
<1>4. Whole(Maybe, Holds, mem, "primary") => SomeWhole(Maybe, Holds, "primary")
  BY DEF SomeWhole, TypeOK
<1>5. CASE phase \in {"guardSync", "unguardSync"}
  BY <1>3, <1>4, <1>5 DEF Recoverable
<1>6. CASE phase \in {"relink", "syncPrimary", "unguard"}
  BY <1>3, <1>6, Apart DEF Recoverable
<1>7. CASE phase \in {"dropBackup", "clean"}
  BY <1>4, <1>7, Apart DEF Recoverable
<1> QED BY <1>1, <1>2, <1>5, <1>6, <1>7 DEF TypeOK, Saving, Replacing, Recoverable

\* The steps that leave the files alone.
LEMMA QuietRecoverable ==
  ASSUME TypeOK, Possible, Steps, Recoverable, Calm',
         Save \/ DumpDone \/ RelinkDone \/ Revalidated \/ Load \/ Loaded
  PROVE  Recoverable'
<1> USE DEF Goto, Loop
<1>1. UNCHANGED <<Maybe, Holds, entry, data, crashes>>
  <2>1. UNCHANGED <<fs, crashes>>
    BY DEF Save, DumpDone, RelinkDone, Revalidated, Load, Loaded
  <2> QED BY <2>1, SameMaybe
<1>2. CASE Save
  <2>1. /\ phase = "idle" /\ phase' = "dump" /\ mem' = attempted + 1 /\ todo' = FilesOf[mem'] /\ attempted \in Nat
    BY <1>2, Apart DEF Save, TypeOK
  <2>2. SomeWhole(Maybe, Holds, "primary") /\ Maybe[Guard] = {Nil} /\ NoBackups(entry, Files)
    BY <2>1 DEF Recoverable
  <2>3. OwnBackups(entry, mem')
    BY <2>2 DEF OwnBackups, NoBackups
  <2>4. NewInodes(Maybe, mem')
    <3> SUFFICES ASSUME NEW f \in Files, <<f, mem'>> \in Maybe[Primary(f)] PROVE FALSE
      BY DEF NewInodes
    <3>1. <<f, mem'>> \in Maybe[<<f, "primary">>]
      BY FileNames
    <3>2. <<f, mem'>> # Nil
      <4>1. mem' \in Versions
        BY <1>2, TypeStep DEF TypeOK, Next
      <4> QED BY <4>1, Apart
    <3> DEFINE i == <<f, mem'>>
    <3>3. i \in Maybe[<<f, "primary">>] \ {Nil} /\ "primary" \in Kinds /\ i[2] = mem'
      BY <3>1, <3>2 DEF Kinds
    <3> HIDE DEF i
    <3>4. i[2] <= attempted
      BY <3>3, MaybeNow
    <3> QED BY <2>1, <3>3, <3>4, SMTT(30)
  <2>5. Dumped(entry, data, mem', FilesOf[mem'] \ todo')
    BY <2>1 DEF Dumped
  <2> QED BY <1>1, <2>1, <2>2, <2>3, <2>4, <2>5 DEF Recoverable
<1>3. CASE DumpDone
  <2>1. phase = "dump" /\ todo = {} /\ phase' = "syncBackup" /\ todo' = FilesOf[mem] /\ mem' = mem
    BY <1>3 DEF DumpDone
  <2>2. /\ SomeWhole(Maybe, Holds, "primary") /\ Maybe[Guard] = {Nil} /\ OwnBackups(entry, mem)
        /\ Dumped(entry, data, mem, FilesOf[mem] \ todo)
    BY <2>1 DEF Recoverable
  <2>3. Dumped(entry, data, mem, FilesOf[mem])
    BY <2>1, <2>2 DEF Dumped
  <2>4. Synced(Holds, mem, FilesOf[mem] \ todo')
    BY <2>1 DEF Synced
  <2> QED BY <1>1, <2>1, <2>2, <2>3, <2>4 DEF Recoverable
<1>4. CASE RelinkDone
  <2>1. phase = "relink" /\ todo = {} /\ phase' = "syncPrimary" /\ mem' = mem /\ loading' = loading
    BY <1>4 DEF RelinkDone
  <2>2. /\ Whole(Maybe, Holds, mem, "backup") /\ (~loading => NoBackups(entry, Files \ FilesOf[mem]))
        /\ Maybe[Guard] = {Guard} /\ Relinked(entry, FilesOf[mem] \ todo)
    BY <2>1 DEF Recoverable
  <2>3. Relinked(entry, FilesOf[mem])
    BY <2>1, <2>2 DEF Relinked
  <2> QED BY <1>1, <2>1, <2>2, <2>3 DEF Recoverable
<1>5. CASE Revalidated
  <2>1. /\ phase = "dropBackup" /\ todo = {} /\ mem' = mem
        /\ phase' = IF loading THEN "clean" ELSE "idle"
    BY <1>5 DEF Revalidated
  <2>2. Whole(Maybe, Holds, mem, "primary") /\ Maybe[Guard] = {Nil} /\ (~loading => NoBackups(entry, Files \ todo))
    BY <2>1 DEF Recoverable
  <2>3. SomeWhole(Maybe, Holds, "primary")
    BY <2>2 DEF SomeWhole, TypeOK
  <2>4. ~loading => NoBackups(entry, Files)
    BY <2>1, <2>2 DEF NoBackups
  <2> QED BY <1>1, <2>1, <2>2, <2>3, <2>4 DEF Recoverable
<1>6. CASE Load
  <2> DEFINE k == IF entry[Guard] # Nil THEN "backup" ELSE "primary"
  <2>1. /\ \A n \in Names : Maybe[n] = {entry[n]}
        /\ \A i \in Inodes : Holds[i] = {data[i]}
        /\ SomeWhole(Maybe, Holds, k) /\ k \in Kinds
    BY <1>6 DEF Load, Recoverable, Kinds
  <2>2. ASSUME NEW v \in Versions PROVE ReadableAs(v, k) <=> Whole(Maybe, Holds, v, k)
    <3>1. \A f \in FilesOf[v] : /\ Maybe[<<f, k>>] = {entry[<<f, k>>]}
                                /\ entry[<<f, k>>] # Nil => entry[<<f, k>>] \in Inodes
      BY <2>1, MaybeNow, Apart, FileNames, SMTT(30)
    <3>2. \A f \in FilesOf[v] : entry[<<f, k>>] # Nil => Holds[entry[<<f, k>>]] = {data[entry[<<f, k>>]]}
      BY <2>1, <3>1
    <3> HIDE DEF k
    <3> QED BY <3>1, <3>2 DEF ReadableAs, Whole
  <2>3. \E v \in Versions : ReadableAs(v, k)
    BY <2>1, <2>2 DEF SomeWhole
  <2>4. /\ mem' \in Versions /\ ReadableAs(mem', k) /\ loading' = TRUE
        /\ IF entry[Guard] # Nil THEN phase' = "relink" /\ todo' = FilesOf[mem'] ELSE phase' = "clean"
    BY <1>6, <2>3 DEF Load
  <2>5. Whole(Maybe, Holds, mem', k)
    BY <2>2, <2>4
  <2>6. Maybe[Guard] = {entry[Guard]} /\ entry[Guard] \in {Nil, Guard}
    BY <2>1, FileNames, MaybeNow
  <2>7. CASE entry[Guard] # Nil
    <3>1. Relinked(entry, FilesOf[mem'] \ todo')
      BY <2>4, <2>7 DEF Relinked
    <3>2. phase' = "relink" /\ loading' = TRUE /\ Whole(Maybe, Holds, mem', "backup") /\ Maybe[Guard] = {Guard}
      BY <2>4, <2>5, <2>6, <2>7
    <3> QED BY <1>1, <3>1, <3>2 DEF Recoverable
  <2>8. CASE entry[Guard] = Nil
    <3>1. phase' = "clean" /\ Whole(Maybe, Holds, mem', "primary") /\ Maybe[Guard] = {Nil}
      BY <2>4, <2>5, <2>6, <2>8
    <3> QED BY <1>1, <3>1 DEF Recoverable
  <2> QED BY <2>7, <2>8
<1>7. CASE Loaded
  <2>1. phase = "clean" /\ Junk = {} /\ phase' = "idle" /\ mem' = mem
    BY <1>7 DEF Loaded
  <2>2. Whole(Maybe, Holds, mem, "primary") /\ Maybe[Guard] = {Nil}
    BY <2>1 DEF Recoverable
  <2>3. SomeWhole(Maybe, Holds, "primary")
    BY <2>2 DEF SomeWhole, TypeOK
  <2>4. NoBackups(entry, Files)
    <3> SUFFICES ASSUME NEW f \in Files PROVE entry[Backup(f)] = Nil
      BY DEF NoBackups
    <3>1. Backup(f) \in Names /\ Backup(f) \notin {Primary(g) : g \in FilesOf[mem]}
      BY FileNames, Apart, SMTT(30) DEF TypeOK
    <3> QED BY <2>1, <3>1 DEF Junk
  <2> QED BY <1>1, <2>1, <2>2, <2>3, <2>4 DEF Recoverable
<1> QED BY <1>2, <1>3, <1>4, <1>5, <1>6, <1>7

\* The steps that sync the directory.
LEMMA SyncRecoverable ==
  ASSUME TypeOK, Possible, Steps, Recoverable, Calm', SyncDone \/ GuardSynced \/ GuardDeleted
  PROVE  Recoverable'
<1> USE DEF Goto, Loop
<1>1. /\ UNCHANGED <<Holds, data, entry>> /\ \A m \in Names : Maybe'[m] = {entry[m]}
      /\ UNCHANGED <<crashes, mem, loading>>
  BY SyncDirectoryMaybe DEF SyncDone, GuardSynced, GuardDeleted
<1>2. ASSUME NEW m \in Names PROVE Maybe'[m] \subseteq Maybe[m]
  <2>1. Maybe'[m] = {entry[m]}
    BY <1>1
  <2>2. entry[m] \in Maybe[m]
    BY MaybeNow
  <2> QED BY <2>1, <2>2
<1>3. Maybe'[Guard] = {entry[Guard]}
  BY <1>1, FileNames
<1>4. \A k \in Kinds : Whole(Maybe, Holds, mem, k) => Whole(Maybe', Holds, mem, k)
  <2> SUFFICES ASSUME NEW k \in Kinds, Whole(Maybe, Holds, mem, k) PROVE Whole(Maybe', Holds, mem, k)
    OBVIOUS
  <2>1. \A f \in FilesOf[mem] : Maybe'[<<f, k>>] \subseteq Maybe[<<f, k>>]
    BY <1>2, FileNames, Apart DEF TypeOK
  <2> QED BY <2>1 DEF Whole
<1>5. "primary" \in Kinds /\ "backup" \in Kinds
  BY DEF Kinds
<1>6. SomeWhole(Maybe, Holds, "primary") => SomeWhole(Maybe', Holds, "primary")
  <2>1. \A f \in Files : Maybe'[<<f, "primary">>] \subseteq Maybe[<<f, "primary">>]
    BY <1>2, <1>5, FileNames
  <2> QED BY <1>5, <2>1, SomeWholeKept
<1>7. CASE SyncDone /\ phase = "syncBackup"
  <2>1. todo = {} /\ phase' = "guard"
    BY <1>7 DEF SyncDone
  <2>2. /\ SomeWhole(Maybe, Holds, "primary") /\ Maybe[Guard] = {Nil} /\ OwnBackups(entry, mem)
        /\ Dumped(entry, data, mem, FilesOf[mem]) /\ Synced(Holds, mem, FilesOf[mem] \ todo)
    BY <1>7 DEF Recoverable
  <2>3. Whole(Maybe', Holds, mem, "backup")
    <3> SUFFICES ASSUME NEW f \in FilesOf[mem], NEW i \in Maybe'[<<f, "backup">>]
                 PROVE  i # Nil /\ Holds[i] \subseteq {mem}
      BY DEF Whole
    <3>1. f \in Files /\ mem \in Versions /\ Backup(f) = <<f, "backup">> /\ Backup(f) \in Names
      BY FileNames, Apart DEF TypeOK
    <3>2. i = entry[Backup(f)]
      BY <1>1, <3>1
    <3>3. i = <<f, mem>> /\ Holds[<<f, mem>>] \subseteq {mem}
      BY <2>1, <2>2, <3>2 DEF Dumped, Synced
    <3>4. <<f, mem>> # Nil
      BY <3>1, Apart
    <3> QED BY <3>3, <3>4
  <2>4. NoBackups(entry, Files \ FilesOf[mem])
    BY <2>2 DEF NoBackups, OwnBackups
  <2>5. entry[Guard] = Nil
    BY <2>2, MaybeNow
  <2> QED BY <1>1, <1>3, <1>6, <2>1, <2>2, <2>3, <2>4, <2>5 DEF Recoverable
<1>8. CASE SyncDone /\ phase = "syncPrimary"
  <2>1. phase' = "unguard"
    BY <1>8 DEF SyncDone
  <2>2. /\ Whole(Maybe, Holds, mem, "backup") /\ (~loading => NoBackups(entry, Files \ FilesOf[mem]))
        /\ Maybe[Guard] = {Guard} /\ Relinked(entry, FilesOf[mem])
    BY <1>8 DEF Recoverable
  <2>3. Whole(Maybe', Holds, mem, "primary")
    <3> SUFFICES ASSUME NEW f \in FilesOf[mem], NEW i \in Maybe'[<<f, "primary">>]
                 PROVE  i # Nil /\ Holds[i] \subseteq {mem}
      BY DEF Whole
    <3>1. f \in Files /\ Primary(f) = <<f, "primary">> /\ Primary(f) \in Names
                     /\ Backup(f) = <<f, "backup">> /\ Backup(f) \in Names
      BY FileNames, Apart DEF TypeOK
    <3>2. i = entry[Backup(f)]
      BY <1>1, <2>2, <3>1 DEF Relinked
    <3>3. i \in Maybe[<<f, "backup">>]
      BY <3>1, <3>2, MaybeNow
    <3> QED BY <2>2, <3>3 DEF Whole
  <2>4. entry[Guard] = Guard
    BY <2>2, MaybeNow
  <2> QED BY <1>1, <1>3, <1>4, <1>5, <2>1, <2>2, <2>3, <2>4 DEF Recoverable
<1>9. CASE GuardSynced
  <2>1. phase = "guardSync" /\ phase' = "relink" /\ todo' = FilesOf[mem]
    BY <1>9 DEF GuardSynced
  <2>2. /\ Whole(Maybe, Holds, mem, "backup") /\ (~loading => NoBackups(entry, Files \ FilesOf[mem]))
        /\ entry[Guard] = Guard
    BY <2>1 DEF Recoverable
  <2>3. Relinked(entry, FilesOf[mem] \ todo')
    BY <2>1 DEF Relinked
  <2> QED BY <1>1, <1>3, <1>4, <1>5, <2>1, <2>2, <2>3 DEF Recoverable
<1>10. CASE GuardDeleted
  <2>1. phase = "unguardSync" /\ phase' = "dropBackup" /\ todo' = FilesOf[mem]
    BY <1>10 DEF GuardDeleted
  <2>2. /\ Whole(Maybe, Holds, mem, "primary") /\ (~loading => NoBackups(entry, Files \ FilesOf[mem]))
        /\ entry[Guard] = Nil
    BY <2>1 DEF Recoverable
  <2> QED BY <1>1, <1>3, <1>4, <1>5, <2>1, <2>2 DEF Recoverable
<1> QED BY <1>7, <1>8, <1>9, <1>10 DEF SyncDone

\* The steps that set one name.
LEMMA EntryRecoverable ==
  ASSUME TypeOK, Possible, Steps, Recoverable, Calm',
         \/ CreateBackupGuard \/ DeleteGuard \/ \E n \in Names : Clean(n)
         \/ \E f \in Files : Unlink(f) \/ Link(f) \/ DropBackup(f)
  PROVE  Recoverable'
<1> USE DEF Goto, Done
<1>0. UNCHANGED <<crashes, mem, loading>>
  BY DEF CreateBackupGuard, DeleteGuard, Clean, Unlink, Link, DropBackup
<1>1. ASSUME NEW n \in Names, NEW i, SetEntry(n, i), NEW k \in Kinds, \A f \in FilesOf[mem] : n # <<f, k>>,
             Whole(Maybe, Holds, mem, k)
      PROVE  Whole(Maybe', Holds', mem, k)
  <2>1. \A f \in FilesOf[mem] : <<f, k>> \in Names
    BY FileNames, Apart DEF TypeOK
  <2>2. \A f \in FilesOf[mem] : Maybe'[<<f, k>>] = Maybe[<<f, k>>]
    BY <1>0, <1>1, <2>1, SetEntryMaybe
  <2>3. Holds' = Holds
    BY <1>0, <1>1, SetEntryMaybe
  <2> QED BY <1>1, <2>2, <2>3 DEF Whole
<1>2. "primary" \in Kinds /\ "backup" \in Kinds
  BY DEF Kinds
<1>3. FilesOf[mem] \subseteq Files /\ \A f \in FilesOf[mem], k \in Kinds : <<f, k>> # Guard
  BY FileNames, Apart DEF TypeOK
<1>4. CASE CreateBackupGuard
  <2>1. /\ SomeWhole(Maybe, Holds, "primary") /\ Maybe[Guard] = {Nil}
        /\ Whole(Maybe, Holds, mem, "backup") /\ (~loading => NoBackups(entry, Files \ FilesOf[mem]))
    BY <1>4 DEF CreateBackupGuard, Recoverable
  <2>2. entry[Guard] = Nil
    BY <2>1, MaybeNow
  <2>3. SetEntry(Guard, Guard) /\ phase' = "guardSync"
    BY <1>4, <2>2 DEF CreateBackupGuard
  <2>4. Whole(Maybe', Holds', mem, "backup")
    BY <1>1, <1>2, <1>3, <2>1, <2>3, FileNames
  <2>5. Holds' = Holds /\ (\A m \in Names : m # Guard => Maybe'[m] = Maybe[m] /\ entry'[m] = entry[m]) /\ entry'[Guard] = Guard
    BY <1>0, <2>3, FileNames, SetEntryMaybe
  <2>6. SomeWhole(Maybe', Holds', "primary")
    <3>1. \A f \in Files : Maybe'[<<f, "primary">>] \subseteq Maybe[<<f, "primary">>]
      BY <1>2, <2>5, FileNames
    <3> QED BY <1>2, <2>1, <2>5, <3>1, SomeWholeKept
  <2>7. ~loading => NoBackups(entry', Files \ FilesOf[mem])
    BY <2>1, <2>5, FileNames DEF NoBackups
  <2> QED BY <1>0, <2>3, <2>4, <2>5, <2>6, <2>7 DEF Recoverable
<1>5. CASE DeleteGuard
  <2>1. SetEntry(Guard, Nil) /\ phase = "unguard" /\ phase' = "unguardSync"
    BY <1>5 DEF DeleteGuard
  <2>2. /\ Whole(Maybe, Holds, mem, "backup") /\ (~loading => NoBackups(entry, Files \ FilesOf[mem]))
        /\ Whole(Maybe, Holds, mem, "primary")
    BY <2>1 DEF Recoverable
  <2>3. Whole(Maybe', Holds', mem, "backup") /\ Whole(Maybe', Holds', mem, "primary")
    BY <1>1, <1>2, <1>3, <2>1, <2>2, FileNames
  <2>4. (\A m \in Names : m # Guard => entry'[m] = entry[m]) /\ entry'[Guard] = Nil
    BY <1>0, <2>1, FileNames, SetEntryMaybe
  <2>5. ~loading => NoBackups(entry', Files \ FilesOf[mem])
    <3>1. \A f \in Files : entry'[Backup(f)] = entry[Backup(f)]
      BY <2>4, FileNames
    <3> QED BY <2>2, <3>1, SMTT(30) DEF NoBackups
  <2> QED BY <1>0, <2>1, <2>3, <2>4, <2>5 DEF Recoverable
<1>6. ASSUME NEW n \in Names, Clean(n) PROVE Recoverable'
  <2>1. phase = "clean" /\ phase' = "clean" /\ SetEntry(n, Nil) /\ entry[n] # Nil /\ n \notin {Primary(f) : f \in FilesOf[mem]}
    BY <1>6 DEF Clean, Junk
  <2>2. Whole(Maybe, Holds, mem, "primary") /\ Maybe[Guard] = {Nil}
    BY <2>1 DEF Recoverable
  <2>3. n # Guard
    BY <2>1, <2>2, MaybeNow
  <2>4. \A f \in FilesOf[mem] : n # <<f, "primary">>
    BY <1>3, <2>1, FileNames
  <2>5. Whole(Maybe', Holds', mem, "primary")
    BY <1>1, <1>2, <2>1, <2>2, <2>4
  <2>6. Maybe'[Guard] = {Nil}
    BY <1>0, <2>1, <2>2, <2>3, FileNames, SetEntryMaybe
  <2> QED BY <1>0, <2>1, <2>5, <2>6 DEF Recoverable
<1>7. ASSUME NEW f \in Files, Unlink(f) \/ Link(f) PROVE Recoverable'
  <2>1. PICK i : /\ phase = "relink" /\ phase' = "relink" /\ f \in todo /\ SetEntry(Primary(f), i)
                 /\ todo' = todo \/ (todo' = todo \ {f} /\ i = entry[Backup(f)])
    BY <1>7 DEF Unlink, Link
  <2>2. /\ Whole(Maybe, Holds, mem, "backup") /\ (~loading => NoBackups(entry, Files \ FilesOf[mem]))
        /\ Maybe[Guard] = {Guard} /\ Relinked(entry, FilesOf[mem] \ todo)
    BY <2>1 DEF Recoverable
  <2>3. Primary(f) \in Names /\ Primary(f) # Guard /\ \A g \in FilesOf[mem] : Primary(f) # <<g, "backup">>
    BY <1>3, FileNames, NamesApart
  <2>4. Whole(Maybe', Holds', mem, "backup")
    BY <1>1, <1>2, <2>1, <2>2, <2>3
  <2>5. (\A m \in Names : m # Primary(f) => Maybe'[m] = Maybe[m] /\ entry'[m] = entry[m]) /\ entry'[Primary(f)] = i
    BY <1>0, <2>1, <2>3, SetEntryMaybe
  <2>6. Maybe'[Guard] = {Guard}
    BY <2>2, <2>3, <2>5, FileNames
  <2>7. \A g \in Files : entry'[Backup(g)] = entry[Backup(g)] /\ (g # f => entry'[Primary(g)] = entry[Primary(g)])
    BY <2>5, FileNames, NamesApart
  <2>8. ~loading => NoBackups(entry', Files \ FilesOf[mem])
    BY <2>2, <2>7 DEF NoBackups
  <2>9. Relinked(entry', FilesOf[mem] \ todo')
    <3> SUFFICES ASSUME NEW g \in FilesOf[mem] \ todo' PROVE entry'[Primary(g)] = entry'[Backup(g)]
      BY DEF Relinked
    <3>1. g \in Files /\ entry'[Backup(g)] = entry[Backup(g)]
      BY <1>3, <2>7
    <3>2. CASE g = f
      <4>1. i = entry[Backup(f)]
        BY <2>1, <3>2
      <4> QED BY <2>5, <3>1, <3>2, <4>1
    <3>3. CASE g # f
      <4>1. g \in FilesOf[mem] \ todo
        BY <2>1, <3>3
      <4> QED BY <2>2, <2>7, <3>1, <3>3, <4>1 DEF Relinked
    <3> QED BY <3>2, <3>3
  <2> QED BY <1>0, <2>1, <2>4, <2>6, <2>8, <2>9 DEF Recoverable
<1>8. ASSUME NEW f \in Files, DropBackup(f) PROVE Recoverable'
  <2>1. phase = "dropBackup" /\ phase' = phase /\ todo' = todo \ {f} /\ SetEntry(Backup(f), Nil)
    BY <1>8 DEF DropBackup
  <2>2. Whole(Maybe, Holds, mem, "primary") /\ Maybe[Guard] = {Nil} /\ (~loading => NoBackups(entry, Files \ todo))
    BY <2>1 DEF Recoverable
  <2>3. Backup(f) \in Names /\ Backup(f) # Guard /\ \A g \in FilesOf[mem] : Backup(f) # <<g, "primary">>
    BY <1>3, FileNames, NamesApart
  <2>4. Whole(Maybe', Holds', mem, "primary")
    BY <1>1, <1>2, <2>1, <2>2, <2>3
  <2>5. (\A m \in Names : m # Backup(f) => Maybe'[m] = Maybe[m] /\ entry'[m] = entry[m]) /\ entry'[Backup(f)] = Nil
    BY <1>0, <2>1, <2>3, SetEntryMaybe
  <2>6. Maybe'[Guard] = {Nil}
    BY <2>2, <2>3, <2>5, FileNames
  <2>7. ~loading => NoBackups(entry', Files \ todo')
    BY <2>1, <2>2, <2>5, FileNames DEF NoBackups
  <2> QED BY <1>0, <2>1, <2>4, <2>6, <2>7 DEF Recoverable
<1> QED BY <1>4, <1>5, <1>6, <1>7, <1>8

\* The steps that write and sync the content of one file.
LEMMA DumpRecoverable ==
  ASSUME TypeOK, Possible, Steps, Recoverable, Calm', NEW f \in Files, NEW c \in {mem, Torn}, DumpFile(f, c)
  PROVE  Recoverable'
<1>1. PICK i \in Inodes :
         /\ i[1] = f /\ i[2] <= attempted
         /\ i = entry[Backup(f)] \/ (entry[Backup(f)] = Nil /\ i = <<f, mem>>)
         /\ entry' = [entry EXCEPT ![Backup(f)] = i]
         /\ mayEntry' = [mayEntry EXCEPT ![Backup(f)] = @ \cup {i}]
         /\ data' = [data EXCEPT ![i] = c]
         /\ mayData' = [mayData EXCEPT ![i] = @ \cup {c, Torn}]
         /\ mem = attempted /\ f \in FilesOf[mem]
  BY DumpFileSets
<1>2. /\ phase = "dump" /\ phase' = phase /\ f \in todo /\ todo' = IF c = Torn THEN todo ELSE todo \ {f}
      /\ UNCHANGED <<mem, loading, crashes>>
  BY DEF DumpFile, Done
<1>3. /\ SomeWhole(Maybe, Holds, "primary") /\ Maybe[Guard] = {Nil} /\ OwnBackups(entry, mem)
      /\ NewInodes(Maybe, mem) /\ Dumped(entry, data, mem, FilesOf[mem] \ todo)
  BY <1>2 DEF Recoverable
<1>4. i = <<f, mem>>
  BY <1>1, <1>3, Apart, SMTT(30) DEF OwnBackups
<1>5. Backup(f) \in Names /\ Backup(f) # Guard /\ \A g \in Files : Backup(f) # Primary(g) /\ (g # f => Backup(f) # Backup(g))
  BY FileNames, SMTT(30)
<1>6. \A m \in Names : m # Backup(f) => Maybe'[m] = Maybe[m] /\ entry'[m] = entry[m]
  BY <1>1, <1>2, <1>5 DEF Maybe, TypeOK
<1>7. \A j \in Inodes : j # i => Holds'[j] = Holds[j] /\ data'[j] = data[j]
  BY <1>1, <1>2 DEF Holds, TypeOK
<1>8. entry'[Backup(f)] = i /\ data'[i] = c
  BY <1>1, <1>5 DEF TypeOK
<1>9. SomeWhole(Maybe', Holds', "primary")
  <2>1. PICK v \in Versions : Whole(Maybe, Holds, v, "primary")
    BY <1>3 DEF SomeWhole
  <2>2. ASSUME NEW g \in FilesOf[v] PROVE Maybe'[<<g, "primary">>] = Maybe[<<g, "primary">>]
    <3>1. g \in Files /\ Primary(g) = <<g, "primary">> /\ Primary(g) \in Names
      BY Apart, FileNames
    <3> QED BY <1>5, <1>6, <3>1
  <2>3. ASSUME NEW g \in FilesOf[v], NEW j \in Maybe[<<g, "primary">>] PROVE j # Nil /\ Holds'[j] \subseteq {v}
    <3>1. j # Nil /\ Holds[j] \subseteq {v}
      BY <2>1 DEF Whole
    <3>2. g \in Files /\ Primary(g) = <<g, "primary">> /\ "primary" \in Kinds
      BY Apart, FileNames DEF Kinds
    <3>3. j \in Inodes /\ j[1] = g
      BY <3>1, <3>2, MaybeNow
    <3>4. j # i
      <4>1. CASE g = f
        BY <1>3, <1>4, <3>2, <4>1 DEF NewInodes
      <4>2. CASE g # f
        BY <1>1, <3>3, <4>2
      <4> QED BY <4>1, <4>2
    <3> QED BY <1>7, <3>1, <3>3, <3>4
  <2>4. Whole(Maybe', Holds', v, "primary")
    BY <2>2, <2>3 DEF Whole
  <2> QED BY <2>4 DEF SomeWhole
<1>10. Maybe'[Guard] = {Nil}
  BY <1>3, <1>5, <1>6, FileNames
<1>11. OwnBackups(entry', mem)
  BY <1>1, <1>3, <1>4, <1>5, <1>6, <1>8, FileNames DEF OwnBackups
<1>12. NewInodes(Maybe', mem)
  BY <1>3, <1>5, <1>6, FileNames DEF NewInodes
<1>13. Dumped(entry', data', mem, FilesOf[mem] \ todo')
  <2> SUFFICES ASSUME NEW g \in FilesOf[mem] \ todo' PROVE entry'[Backup(g)] = <<g, mem>> /\ data'[<<g, mem>>] = mem
    BY DEF Dumped
  <2>1. g \in Files /\ Backup(g) \in Names /\ <<g, mem>> \in Inodes
    BY Apart, FileNames DEF TypeOK
  <2>2. CASE g = f
    BY <1>2, <1>4, <1>8, <2>2
  <2>3. CASE g # f
    <3>1. entry[Backup(g)] = <<g, mem>> /\ data[<<g, mem>>] = mem
      BY <1>2, <1>3, <2>3 DEF Dumped
    <3>2. <<g, mem>> # i
      BY <1>4, <2>3
    <3> QED BY <1>5, <1>6, <1>7, <2>1, <2>3, <3>1, <3>2
  <2> QED BY <2>2, <2>3
<1> QED BY <1>2, <1>9, <1>10, <1>11, <1>12, <1>13 DEF Recoverable

\* Syncing one file of the backup or of the primary database keeps it recoverable.
LEMMA SyncFileRecoverable ==
  ASSUME TypeOK, Possible, Steps, Recoverable, Calm', NEW f \in Files, SyncFile(f)
  PROVE  Recoverable'
<1>1. PICK n \in {Backup(f), Primary(f)} :
        /\ SyncElement(n)
        /\ (phase = "syncBackup" /\ n = Backup(f)) \/ phase = "syncPrimary"
  BY DEF SyncFile
<1>2. UNCHANGED <<phase, mem, loading, crashes>> /\ todo' = todo \ {f} /\ f \in todo
  BY DEF SyncFile, Done
<1>3. /\ UNCHANGED <<Maybe, data, entry>>
      /\ \A i \in Inodes : Holds'[i] \subseteq Holds[i]
      /\ entry[n] \in Inodes => Holds'[entry[n]] = {data[entry[n]]}
  BY <1>1, <1>2, FileNames, SyncElementMaybe
<1>4. ASSUME NEW v \in Versions, NEW k \in Kinds, Whole(Maybe, Holds, v, k) PROVE Whole(Maybe, Holds', v, k)
  <2>1. \A g \in FilesOf[v] : \A i \in Maybe[<<g, k>>] : i # Nil => i \in Inodes
    BY Apart, MaybeNow
  <2> QED BY <1>3, <1>4, <2>1 DEF Whole
<1>5. "primary" \in Kinds /\ "backup" \in Kinds /\ mem \in Versions
  BY DEF Kinds, TypeOK
<1>6. CASE phase = "syncBackup"
  <2>1. /\ SomeWhole(Maybe, Holds, "primary") /\ Maybe[Guard] = {Nil} /\ OwnBackups(entry, mem)
        /\ Dumped(entry, data, mem, FilesOf[mem]) /\ Synced(Holds, mem, FilesOf[mem] \ todo)
    BY <1>6 DEF Recoverable
  <2>2. SomeWhole(Maybe, Holds', "primary")
    BY <1>4, <1>5, <2>1 DEF SomeWhole
  <2>3. Synced(Holds', mem, FilesOf[mem] \ todo')
    <3> SUFFICES ASSUME NEW g \in FilesOf[mem] \ todo' PROVE Holds'[<<g, mem>>] \subseteq {mem}
      BY DEF Synced
    <3>1. <<g, mem>> \in Inodes
      BY <1>5, Apart
    <3>2. CASE g = f
      BY <1>1, <1>3, <1>6, <2>1, <3>1, <3>2 DEF Dumped
    <3>3. CASE g # f
      BY <1>2, <1>3, <2>1, <3>1, <3>3 DEF Synced
    <3> QED BY <3>2, <3>3
  <2> QED BY <1>2, <1>3, <1>6, <2>1, <2>2, <2>3 DEF Recoverable
<1>7. CASE phase = "syncPrimary"
  <2>1. /\ Whole(Maybe, Holds, mem, "backup") /\ (~loading => NoBackups(entry, Files \ FilesOf[mem]))
        /\ Maybe[Guard] = {Guard} /\ Relinked(entry, FilesOf[mem])
    BY <1>7 DEF Recoverable
  <2>2. Whole(Maybe, Holds', mem, "backup")
    BY <1>4, <1>5, <2>1
  <2> QED BY <1>2, <1>3, <1>7, <2>1, <2>2 DEF Recoverable
<1> QED BY <1>1, <1>6, <1>7

\* A crash.
LEMMA CrashRecoverable ==
  ASSUME TypeOK, Possible, Recoverable, Calm', Kill \/ PowerLoss PROVE Recoverable'
<1>1. /\ \A n \in Names : Maybe'[n] = {entry'[n]} /\ entry'[n] \in Maybe[n]
      /\ \A i \in Inodes : Holds'[i] = {data'[i]} /\ data'[i] \in Holds[i]
  BY CrashMaybe
<1>2. phase' = "down"
  BY DEF Kill, PowerLoss, Goto
<1> DEFINE k == IF entry'[Guard] = Nil THEN "primary" ELSE "backup"
<1>3. SomeWhole(Maybe, Holds, k) /\ k \in Kinds
  <2>1. entry'[Guard] \in Maybe[Guard] /\ Maybe[Guard] \subseteq {Nil, Guard}
    BY <1>1, FileNames, MaybeNow
  <2> QED BY <2>1, Loadable DEF Kinds
<1> HIDE DEF k
<1>4. SomeWhole(Maybe', Holds', k)
  <2>1. PICK v \in Versions : Whole(Maybe, Holds, v, k)
    BY <1>3 DEF SomeWhole
  <2>2. ASSUME NEW g \in FilesOf[v], NEW i \in Maybe'[<<g, k>>] PROVE i # Nil /\ Holds'[i] \subseteq {v}
    <3>1. g \in Files /\ <<g, k>> \in Names
      BY <1>3, Apart, FileNames
    <3>2. i \in Maybe[<<g, k>>]
      BY <1>1, <3>1
    <3>3. i # Nil /\ Holds[i] \subseteq {v}
      BY <2>1, <3>2 DEF Whole
    <3>4. i \in Inodes
      BY <1>3, <3>1, <3>2, <3>3, MaybeNow
    <3> QED BY <1>1, <3>3, <3>4
  <2>3. Whole(Maybe', Holds', v, k)
    BY <2>2 DEF Whole
  <2> QED BY <2>3 DEF SomeWhole
<1> QED BY <1>1, <1>2, <1>4 DEF Recoverable, k

\* Every step keeps the database loadable.
LEMMA RecoverableStep ==
  ASSUME AgeInv, Calm => Recoverable, [Next]_vars, Calm' PROVE Recoverable'
<1> USE DEF AgeInv
<1>1. Calm
  <2>1. errors' = 0 => errors = 0
    <3>1. errors' = errors \/ errors' = errors + 1
      BY DEF Next, vars, Save, DumpDone, SyncDone, CreateBackupGuard, GuardSynced, RelinkDone, DeleteGuard, GuardDeleted,
             Revalidated, Load, Loaded, IoError, Kill, PowerLoss, DumpFile, ShortWrite, SyncFile, Unlink, Link, DropBackup, Clean
    <3> QED BY <3>1, SMTT(30) DEF TypeOK
  <2>2. crashes \subseteq crashes' /\ crashes' \subseteq {"kill", "power"}
    <3>1. crashes' = crashes \/ crashes' = crashes \cup {"kill"} \/ crashes' = crashes \cup {"power"}
      BY DEF Next, vars, Save, DumpDone, SyncDone, CreateBackupGuard, GuardSynced, RelinkDone, DeleteGuard, GuardDeleted,
             Revalidated, Load, Loaded, IoError, Kill, PowerLoss, DumpFile, ShortWrite, SyncFile, Unlink, Link, DropBackup, Clean
    <3> QED BY <3>1 DEF TypeOK
  <2> QED BY <2>1, <2>2 DEF Calm
<1>2. Recoverable
  BY <1>1
<1>3. CASE UNCHANGED vars
  <2>1. UNCHANGED <<fs, crashes, phase, todo, loading, mem>>
    BY <1>3 DEF vars
  <2>2. UNCHANGED <<Maybe, Holds, entry, data>>
    BY <2>1, SameMaybe
  <2>3. /\ Maybe' = Maybe /\ Holds' = Holds /\ entry' = entry /\ data' = data
        /\ phase' = phase /\ todo' = todo /\ loading' = loading /\ mem' = mem
    BY <2>1, <2>2
  <2> QED BY <1>2, <2>3 DEF Recoverable
<1>4. ~IoError /\ \A f \in Files : ~ShortWrite(f)
  BY SMTT(30) DEF IoError, ShortWrite, Calm, TypeOK
<1> QED BY <1>2, <1>3, <1>4, QuietRecoverable, SyncRecoverable, EntryRecoverable, DumpRecoverable, SyncFileRecoverable,
           CrashRecoverable DEF Next

\* Kills alone, at any point and as often as they come, or power failures alone,
\* leave a database that can be loaded, whatever of the unsynced state survives.
THEOREM NeverCorruptedEver == Spec => []NeverCorrupted
<1>1. Init => StorageInv
  <2> SUFFICES ASSUME Init PROVE StorageInv
    OBVIOUS
  <2>1. AgeInv
    BY AgeInit
  <2>2. phase = "down" /\ entry[Guard] = Nil /\ Maybe = mayEntry /\ Holds = mayData
    <3>1. Guard \notin {Primary(f) : f \in FilesOf[0]}
      BY Apart, FileNames
    <3> QED BY <3>1, FileNames DEF Init, Maybe, Holds
  <2>3. (\A n \in Names : mayEntry[n] = {entry[n]}) /\ (\A i \in Inodes : mayData[i] = {data[i]})
    BY DEF Init
  <2>4. Whole(mayEntry, mayData, 0, "primary")
    <3> SUFFICES ASSUME NEW f \in FilesOf[0], NEW i \in mayEntry[<<f, "primary">>] PROVE i # Nil /\ mayData[i] \subseteq {0}
      BY DEF Whole
    <3>1. 0 \in Versions /\ f \in Files /\ Primary(f) \in Names /\ Primary(f) = <<f, "primary">>
      BY Apart, FileNames
    <3>2. entry[Primary(f)] = <<f, 0>>
      BY <3>1 DEF Init
    <3>3. i = <<f, 0>> /\ i \in Inodes /\ i # Nil /\ i[2] = 0
      BY <2>3, <3>1, <3>2, Apart, SMTT(30)
    <3>4. data[i] = 0
      BY <3>3 DEF Init
    <3> QED BY <2>3, <3>3, <3>4
  <2>5. SomeWhole(mayEntry, mayData, "primary")
    BY <2>4, Apart DEF SomeWhole
  <2> QED BY <2>1, <2>2, <2>3, <2>5 DEF StorageInv, Recoverable
<1>2. StorageInv /\ [Next]_vars => StorageInv'
  <2> SUFFICES ASSUME StorageInv, [Next]_vars PROVE StorageInv'
    OBVIOUS
  <2>1. AgeInv'
    BY TypeStep, PossibleStep, StepsStep, NotOlderStep, IndexSavedStep DEF StorageInv, AgeInv
  <2>2. Calm' => Recoverable'
    BY RecoverableStep DEF StorageInv
  <2> QED BY <2>1, <2>2 DEF StorageInv
<1>3. StorageInv => NeverCorrupted
  BY DEF StorageInv, Calm, Recoverable, NeverCorrupted
<1> QED BY <1>1, <1>2, <1>3, PTL DEF Spec
=============================================================================
