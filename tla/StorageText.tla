----------------------------- MODULE StorageText ----------------------------
(***************************************************************************)
(* The text of the policy database: how StorageSerializer and              *)
(* ChecksumStream write it, how ChecksumValidator, StorageDeserializer and *)
(* BucketDeserializer read it back, and the records that the tool          *)
(* cynara-db-chsgen prints for a database that is migrated.  When the      *)
(* files are synced, renamed and removed is the subject of                 *)
(* StorageIntegrity; here a file is its text.                              *)
(*                                                                         *)
(* Besides separators and characters a text has marks for a policy type in *)
(* hexadecimal and for a checksum; different texts have different          *)
(* checksums.                                                              *)
(***************************************************************************)
EXTENDS TextRecords, FiniteSets

CONSTANTS Databases,     \* the databases considered: bucket -> [default, policies]
          DefaultBucket, \* defaultPolicyBucketId, the empty id
          DenyType,      \* PredefinedPolicyType::DENY
          MaxDamages     \* bound: damages to the files

TypeMark(t) == <<"0x", t>>

VARIABLES db,        \* the database that was saved
          files,     \* file name -> text, after the save
          result,    \* what load made of the files: its status and the database
          algorithm, \* how the checksums in the checksum index were made
          damages    \* damages done to the files so far

textVars == <<db, files, result, algorithm, damages>>

(***************************************************************************)
(* Writing.                                                                *)
(***************************************************************************)
DumpPolicy(key, res) ==
    DumpFields(<<key[1], key[2], key[3], <<TypeMark(res.type)>>, res.metadata>>)

DumpBucket(bucket) ==
    LET keys == SetToSeq(DOMAIN bucket.policies)
    IN  FlattenSeq([i \in DOMAIN keys |-> DumpPolicy(keys[i], bucket.policies[keys[i]])])

DumpIndex(buckets) ==
    LET ids == SetToSeq(DOMAIN buckets)
    IN  FlattenSeq([i \in DOMAIN ids |->
            DumpFields(<<ids[i], <<TypeMark(buckets[ids[i]].default.type)>>,
                         buckets[ids[i]].default.metadata>>)])

IndexFile     == <<Char("buckets")>>
ChecksumFile  == <<Char("checksum")>>
BucketFile(b) == <<Char("_")>> \o b

\* generateMD5 of a text.
Md5(text) == <<<<"md5", text>>>>

\* ChecksumStream::save: the record of one file in the checksum index.
ChecksumRecord(name, text) == name \o <<FieldSep>> \o Md5(text) \o <<RecordSep>>

\* dumpDatabase: the buckets' records come first, since the stream of the index
\* is closed last.
DumpDatabase(buckets) ==
    LET ids == SetToSeq(DOMAIN buckets)
        sums == FlattenSeq([i \in DOMAIN ids |->
                    ChecksumRecord(BucketFile(ids[i]), DumpBucket(buckets[ids[i]]))])
                \o ChecksumRecord(IndexFile, DumpIndex(buckets))
        TextOf(n) == IF n = IndexFile THEN DumpIndex(buckets)
                     ELSE IF n = ChecksumFile THEN sums
                     ELSE DumpBucket(buckets[CHOOSE b \in DOMAIN buckets : BucketFile(b) = n])
    IN  [n \in {IndexFile, ChecksumFile} \union {BucketFile(b) : b \in DOMAIN buckets} |->
            TextOf(n)]

(***************************************************************************)
(* Reading.  A parse that throws gives Corrupted.                          *)
(***************************************************************************)
\* Mutant: the metadata ends at the next separator.
ParseResultMutant(line, n) ==
    LET seps == Separators(line)
        at == seps[n] + 1
        stop == IF Len(seps) > n + 1 THEN seps[n + 2] - 1 ELSE Len(line)
    IN  [type |-> line[at][2], metadata |-> SubSeq(line, at + 2, stop)]
\* parsePolicyType reads a number after the n-th field and throws when there is
\* none; parseMetadata skips the separator behind it and takes the rest of the
\* line, further separators included.
HasType(line, n) ==
    LET at == Separators(line)[n] + 1 IN at <= Len(line) /\ line[at][1] = "0x"
ParseResult(line, n) ==
    LET at == Separators(line)[n] + 1
    IN  [type |-> line[at][2], metadata |-> SubSeq(line, at + 2, Len(line))]

ParseKey(line) == <<FirstField(line, 1), FirstField(line, 2), FirstField(line, 3)>>

WellFormedRecord(line, n) == HasFields(line, n) /\ HasType(line, n)

\* loadPolicies, and insertPolicy of each: a later record replaces an earlier
\* one with the same key.
LoadPolicies(text) ==
    LET lines == Records(text)
        LastOf(k) == CHOOSE i \in DOMAIN lines :
                      /\ ParseKey(lines[i]) = k
                      /\ \A j \in DOMAIN lines : ParseKey(lines[j]) = k => j <= i
    IN  [k \in {ParseKey(lines[i]) : i \in DOMAIN lines} |-> ParseResult(lines[LastOf(k)], 3)]

\* ChecksumValidator::load and m_sums: the first record of a file counts.
ChecksumsValid(text) ==
    \A i \in DOMAIN Lines(text) :
        LET line == Lines(text)[i]
        IN  HasFields(line, 1) /\ FirstField(line, 1) # <<>>
              /\ Separators(line)[1] < Len(line)
ChecksumOf(text, name) ==
    LET lines == Lines(text)
        mine == {i \in DOMAIN lines : FirstField(lines[i], 1) = name}
        line == lines[CHOOSE i \in mine : \A j \in mine : i <= j]
    IN  IF mine = {} THEN <<>>
        ELSE SubSeq(line, Separators(line)[1] + 1, Len(line))

\* openFileStream: the file is there and its text has the recorded checksum.
\* The checksum index itself is not checked.
Opens(fs, name) ==
    name \in DOMAIN fs /\ ChecksumOf(fs[ChecksumFile], name) = Md5(fs[name])

NotLoaded(why) == [status |-> why, db |-> [b \in {} |-> 0]]

\* load inserts a default bucket when the index has none.
WithDefaultBucket(buckets) ==
    buckets @@ (DefaultBucket :> [default  |-> [type |-> DenyType, metadata |-> <<>>],
                                  policies |-> [k \in {} |-> 0]])

\* InMemoryStorageBackend::load up to postLoadCleanup.
LoadDatabase(fs) ==
    LET index == Records(fs[IndexFile])
        ids == {FirstField(index[i], 1) : i \in DOMAIN index}
        LineOf(b) == index[CHOOSE i \in DOMAIN index :
                        /\ FirstField(index[i], 1) = b
                        /\ \A j \in DOMAIN index : FirstField(index[j], 1) = b => i <= j]
        Readable(b) == /\ Opens(fs, BucketFile(b))
                       /\ \A i \in DOMAIN Records(fs[BucketFile(b)]) :
                             WellFormedRecord(Records(fs[BucketFile(b)])[i], 3)
        loaded == [b \in ids |-> [default |-> ParseResult(LineOf(b), 1),
                                  policies |-> LoadPolicies(fs[BucketFile(b)])]]
    IN  CASE ChecksumFile \notin DOMAIN fs -> NotLoaded("corrupted")
          [] ~ChecksumsValid(fs[ChecksumFile]) -> NotLoaded("corrupted")
          [] ~Opens(fs, IndexFile) -> NotLoaded("corrupted")
          [] \E i \in DOMAIN index : ~WellFormedRecord(index[i], 1) -> NotLoaded("corrupted")
          [] \E b \in ids : ~Readable(b) -> NotLoaded("corrupted")
          [] OTHER -> [status |-> "ok", db |-> WithDefaultBucket(loaded)]

(***************************************************************************)
(* cynara-db-chsgen: one record for one file.  "crypt" is the default      *)
(* algorithm of the tool, "md5" the one the daemon compares with.          *)
(***************************************************************************)
Generate(option, text) == <<<<option, text>>>>

RemoveBackupSuffix(name) ==
    IF name # <<>> /\ name[Len(name)] = Char("~") THEN SubSeq(name, 1, Len(name) - 1) ELSE name

PrintRecord(option, name, text) ==
    RemoveBackupSuffix(name) \o <<FieldSep>> \o Generate(option, text) \o <<RecordSep>>

(***************************************************************************)
(* Behaviour: a database was saved; a file may be cut short or lost, or    *)
(* the checksum index may be generated anew; then the daemon loads.        *)
(***************************************************************************)
TextInit ==
    /\ db \in Databases
    /\ files = DumpDatabase(db)
    /\ result = NotLoaded("none") /\ algorithm = "md5" /\ damages = 0

\* A file lost its end.
Truncate(name, n) ==
    /\ result.status = "none" /\ damages < MaxDamages
    /\ files' = [files EXCEPT ![name] = SubSeq(@, 1, n)]
    /\ damages' = damages + 1
    /\ UNCHANGED <<db, result, algorithm>>

\* A file is gone.
Lose(name) ==
    /\ result.status = "none" /\ damages < MaxDamages
    /\ files' = [n \in DOMAIN files \ {name} |-> files[n]]
    /\ damages' = damages + 1
    /\ UNCHANGED <<db, result, algorithm>>

\* cynara-db-chsgen is run on every file and its output becomes the checksum
\* index; suffix says whether it is run on the backup files.
Migrate(option, suffix) ==
    LET names == SetToSeq(DOMAIN files \ {ChecksumFile})
    IN  /\ result.status = "none" /\ damages = 0
        /\ ChecksumFile \in DOMAIN files
        /\ files' = [files EXCEPT ![ChecksumFile] =
                FlattenSeq([i \in DOMAIN names |->
                    PrintRecord(option, names[i] \o suffix, files[names[i]])])]
        /\ algorithm' = option
        /\ UNCHANGED <<db, result, damages>>

Load ==
    /\ result.status = "none"
    /\ result' = LoadDatabase(files)
    /\ UNCHANGED <<db, files, algorithm, damages>>

TextNext ==
    \/ \E name \in DOMAIN files : \E n \in 0 .. Len(files[name]) - 1 : Truncate(name, n)
    \/ \E name \in DOMAIN files : Lose(name)
    \/ \E a \in {"md5", "crypt"}, s \in {<<>>, <<Char("~")>>} : Migrate(a, s)
    \/ Load

(***************************************************************************)
(* Properties.                                                             *)
(***************************************************************************)
\* Whatever load accepts is the database that was saved, down to metadata that
\* contains the field separator: a file that was cut short, lost, or emptied
\* is never taken for a smaller database.  Files that nobody touched are
\* accepted, also with a checksum index that cynara-db-chsgen made with -a md5,
\* from the files or from their backups; the index the tool makes without that
\* option is refused.
LoadedIsSaved ==
    /\ result.status = "ok" => result.db = WithDefaultBucket(db)
    /\ result.status # "none" /\ damages = 0 => (result.status = "ok" <=> algorithm = "md5")

=============================================================================
