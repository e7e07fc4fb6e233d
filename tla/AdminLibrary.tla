---------------------------- MODULE AdminLibrary ----------------------------
(***************************************************************************)
(* libcynara-admin.  A call tries the lock of the database: if it gets it, *)
(* the library changes the files itself (OfflineLogic), otherwise it asks  *)
(* the daemon, which holds the lock while it runs (OnlineLogic).  The      *)
(* environment is the daemon, which may stop and start, and another        *)
(* administrator that works on the files.                                  *)
(***************************************************************************)
EXTENDS LibrarySocket, FiniteSets

CONSTANTS
  Buckets,      \* names an administrator may use
  Default,      \* the default bucket
  Invalid,      \* names PolicyBucket::idValidator rejects
  Operations,   \* the calls an administrator may make
  MaxOps,       \* bound: calls of the library
  MaxOthers,    \* bound: changes by the other administrator
  MaxStarts     \* bound: starts of the daemon

ASSUME AdminAssumption == Default \in Buckets /\ Default \notin Invalid

VARIABLES
  lock,      \* the holder of the lock file: "free", "daemon", "admin" or "other"
  disk,      \* the database files: readable or not, and their content
  daemon,    \* "down", "init" (waits for the lock), "up"; what it holds in memory
  admin,     \* the call of the library: step, operation, number, copy of the database
  other,     \* the copy the other administrator works on
  applied,   \* auxiliary: numbers of the calls whose operation was carried out
  made       \* calls, foreign changes and starts so far, against the bounds

adminOwn  == <<lock, disk, daemon, admin, other, applied, made>>
adminVars == <<socketVars, adminOwn>>

Nothing == [buckets |-> {}, policies |-> {}]
Empty   == [buckets |-> {Default}, policies |-> {}]
NoOperation == [name |-> "none", bucket |-> Default, target |-> "none", gone |-> {}, known |-> TRUE]

-----------------------------------------------------------------------------
(***************************************************************************)
(* The operations on a database, with the exception they end in.  A policy *)
(* is a bucket and a target: a decision or another bucket.                 *)
(***************************************************************************)
Outcome(what, db) == [what |-> what, db |-> db]

\* Storage::insertPolicies, then Storage::deletePolicies.
SetOutcome(o, db) ==
    LET put  == [db EXCEPT !.policies = {p \in @ : p.bucket # o.bucket}
                                          \union {[bucket |-> o.bucket, target |-> o.target]}]
        done == [put EXCEPT !.policies = {p \in @ : p.bucket \notin o.gone}]
    IN  CASE ~o.known -> Outcome("UnknownPolicyType", db)
          [] o.known /\ ~({o.bucket} \union ({o.target} \cap Buckets) \subseteq db.buckets)
               -> Outcome("BucketNotExists", db)
          [] OTHER -> IF o.gone \subseteq db.buckets THEN Outcome("none", done)
                      ELSE Outcome("BucketNotExists", put)

\* Storage::addOrUpdateBucket.
BucketOutcome(o, db) ==
    CASE ~o.known -> Outcome("UnknownPolicyType", db)
      [] o.known /\ o.bucket = Default /\ o.target = "none" -> Outcome("DefaultBucketSetNone", db)
      [] o.known /\ o.bucket \in Invalid \ db.buckets -> Outcome("InvalidBucketId", db)
      [] OTHER -> Outcome("none", [db EXCEPT !.buckets = @ \union {o.bucket}])

\* Storage::deleteBucket.
RemoveOutcome(o, db) ==
    LET left == {p \in db.policies : p.target # o.bucket /\ p.bucket # o.bucket}
    IN  CASE o.bucket = Default -> Outcome("DefaultBucketDeletion", db)
          [] o.bucket # Default /\ o.bucket \notin db.buckets -> Outcome("BucketNotExists", db)
          [] OTHER -> Outcome("none", [buckets |-> db.buckets \ {o.bucket}, policies |-> left])

\* Storage::erasePolicies of one bucket, checkPolicy and listPolicies.
EraseOutcome(o, db) ==
    IF o.bucket \notin db.buckets THEN Outcome("BucketNotExists", db)
    ELSE Outcome("none", [db EXCEPT !.policies = {p \in @ : p.bucket # o.bucket}])

ReadOutcome(o, db) ==
    Outcome(IF o.name # "descriptions" /\ o.bucket \notin db.buckets
            THEN "BucketNotExists" ELSE "none", db)

Execute(o, db) ==
    CASE o.name = "set" -> SetOutcome(o, db)
      [] o.name = "bucket" -> BucketOutcome(o, db)
      [] o.name = "remove" -> RemoveOutcome(o, db)
      [] o.name = "erase" -> EraseOutcome(o, db)
      [] OTHER -> ReadOutcome(o, db)

IsChange(o) == o.name \in {"set", "bucket", "remove", "erase"}

-----------------------------------------------------------------------------
(***************************************************************************)
(* The two ways from an exception to the code the caller gets.             *)
(***************************************************************************)
\* The handlers of the daemon; the answers to reads carry flags instead.
ServiceCode(o, what) ==
    CASE what = "DatabaseCorrupted" -> "DB_CORRUPTED"
      [] what = "BucketNotExists" -> "NO_BUCKET"
      [] what = "UnknownPolicyType" -> "NO_POLICY_TYPE"
      [] what \in {"DefaultBucketSetNone", "InvalidBucketId", "DefaultBucketDeletion"} -> "NOT_ALLOWED"
      [] what = "Database" -> "FAILED"
      [] OTHER -> "OK"

\* interpretCodeResponse, and the flags of the other responses.
InterpretCode(code) ==
    CASE code = "OK" -> "SUCCESS"
      [] code = "NOT_ALLOWED" -> "OPERATION_NOT_ALLOWED"
      [] code = "NO_BUCKET" -> "BUCKET_NOT_FOUND"
      [] code = "NO_POLICY_TYPE" -> "INVALID_PARAM"
      [] code = "FAILED" -> "OPERATION_FAILED"
      [] code = "DB_CORRUPTED" -> "DATABASE_CORRUPTED"

\* The catch clauses of OfflineLogic: erasePolicies does not expect that the
\* database cannot be saved and nobody a system call that fails, and tryCatch
\* turns that into UNKNOWN_ERROR.
OfflineCode(o, what) ==
    CASE what = "BucketNotExists" -> "BUCKET_NOT_FOUND"
      [] what = "DatabaseCorrupted" -> "DATABASE_CORRUPTED"
      [] what = "UnknownPolicyType" -> "INVALID_PARAM"
      [] what \in {"DefaultBucketSetNone", "InvalidBucketId", "DefaultBucketDeletion"}
           -> "OPERATION_NOT_ALLOWED"
      [] what = "Database" -> IF o.name = "erase" THEN "UNKNOWN_ERROR" ELSE "OPERATION_FAILED"
      [] what = "Unexpected" -> "UNKNOWN_ERROR"
      [] OTHER -> "SUCCESS"

-----------------------------------------------------------------------------
AdminInit ==
    /\ SocketInit
    /\ lock = "free"
    /\ disk \in [readable : BOOLEAN, db : {Empty}]
    /\ daemon = [at |-> "down", db |-> Nothing, corrupted |-> FALSE, dirty |-> FALSE]
    /\ admin = [at |-> "idle", op |-> NoOperation, number |-> 0, db |-> Nothing,
                ret |-> "none", clean |-> TRUE]
    /\ other = Nothing
    /\ applied = {}
    /\ made = [others |-> 0, starts |-> 0]

\* Saving writes the new database or fails, early or late, with a
\* DatabaseException or with the UnexpectedErrorException of a system call.
SaveOutcomes(db) ==
    {Outcome("none", db)} \union
    {Outcome(what, left) : what \in {"Database", "Unexpected"}, left \in {db, disk.db}}

At(step)    == admin.at = step
Step(to)    == admin' = [admin EXCEPT !.at = to]
AdminReturns(ret) == admin' = [admin EXCEPT !.at = "unlock", !.ret = ret, !.db = Nothing]

(***************************************************************************)
(* Logic::callApiFunction.                                                 *)
(***************************************************************************)
\* A function of the API is called.
Call(o) ==
    /\ At("idle") /\ admin.number < MaxOps
    /\ admin' = [at |-> "lock", op |-> o, number |-> admin.number + 1, db |-> Nothing,
                 ret |-> "none", clean |-> readQueue = <<>>]
    /\ UNCHANGED <<socketVars, lock, disk, daemon, other, applied, made>>

\* Mutant: the lock is not exclusive.
TryLockMutant ==
    /\ At("lock") /\ lock' = "admin" /\ Step("load")
    /\ UNCHANGED <<socketVars, disk, daemon, other, applied, made>>

\* FileLock::tryLock
TryLock ==
    /\ At("lock")
    /\ \/ lock = "free" /\ lock' = "admin" /\ Step("load")
       \/ lock # "free" /\ UNCHANGED lock /\ Step("connect")
    /\ UNCHANGED <<socketVars, disk, daemon, other, applied, made>>

\* The destructor of FileLock.
Unlock ==
    /\ At("unlock") /\ Step("idle")
    /\ lock' = IF lock = "admin" THEN "free" ELSE lock
    /\ UNCHANGED <<socketVars, disk, daemon, other, applied, made>>

\* OfflineLogic::acquireDatabase: the descriptions need only the plugins.
AcquireDatabase ==
    /\ At("load")
    /\ \/ /\ disk.readable \/ admin.op.name = "descriptions"
          /\ admin' = [admin EXCEPT !.at = "work", !.db = disk.db]
       \/ /\ admin.op.name # "descriptions"
          /\ \E what \in {"DatabaseCorrupted", "Unexpected"} :
                /\ disk.readable => what = "Unexpected"
                /\ AdminReturns(OfflineCode(admin.op, what))
    /\ UNCHANGED <<socketVars, lock, disk, daemon, other, applied, made>>

\* Mutant: a save that fails is not noticed.
WorkOfflineMutant ==
    /\ At("work")
    /\ LET out == Execute(admin.op, admin.db) IN
       IF out.what # "none" \/ ~IsChange(admin.op)
       THEN /\ AdminReturns(OfflineCode(admin.op, out.what))
            /\ applied' = applied \union {n \in {admin.number} : out.what = "none"}
            /\ UNCHANGED disk
       ELSE \E saved \in SaveOutcomes(out.db) :
                /\ disk' = [disk EXCEPT !.db = saved.db]
                /\ AdminReturns(OfflineCode(admin.op, out.what))
                /\ applied' = applied \union {n \in {admin.number} : saved.db = out.db}
    /\ UNCHANGED <<socketVars, lock, daemon, other, made>>
\* The operation, and onPoliciesChanged when it changes anything.
WorkOffline ==
    /\ At("work")
    /\ LET out == Execute(admin.op, admin.db) IN
       IF out.what # "none" \/ ~IsChange(admin.op)
       THEN /\ AdminReturns(OfflineCode(admin.op, out.what))
            /\ applied' = applied \union {n \in {admin.number} : out.what = "none"}
            /\ UNCHANGED disk
       ELSE \E saved \in SaveOutcomes(out.db) :
                /\ disk' = [disk EXCEPT !.db = saved.db]
                /\ AdminReturns(OfflineCode(admin.op, saved.what))
                /\ applied' = applied \union {n \in {admin.number} : saved.db = out.db}
    /\ UNCHANGED <<socketVars, lock, daemon, other, made>>

(***************************************************************************)
(* OnlineLogic::getResponse.                                               *)
(***************************************************************************)
EnsureAdminConnection ==
    /\ At("connect")
    /\ \/ IsConnected /\ UNCHANGED socketVars /\ Step("send")
       \/ ~IsConnected /\ Connect /\ Step("send")
       \/ ~IsConnected /\ ConnectFails
          /\ \E ret \in {"SERVICE_NOT_AVAILABLE", "UNKNOWN_ERROR"} : AdminReturns(ret)
    /\ UNCHANGED <<lock, disk, daemon, other, applied, made>>

\* askCynaraServer: the send and the receive; either may find the connection lost.
SendCall ==
    /\ At("send")
    /\ \/ SendToServer([type |-> "call", number |-> admin.number, op |-> admin.op]) /\ Step("receive")
       \/ SendLost /\ UNCHANGED socketVars /\ Step("again")
    /\ UNCHANGED <<lock, disk, daemon, other, applied, made>>

ReceiveCode ==
    /\ At("receive")
    /\ \/ ReceiveTrue /\ TakeResponse /\ AdminReturns(InterpretCode(Response.code))
       \/ EndOfStream /\ Step("again")
    /\ UNCHANGED <<lock, disk, daemon, other, applied, made>>

\* Mutant: the loop asks again without connecting.
AskAgainMutant ==
    /\ At("again") /\ Step("send")
    /\ UNCHANGED <<socketVars, lock, disk, daemon, other, applied, made>>

\* The loop connects and asks again.
AskAgain ==
    /\ At("again")
    /\ \/ Connect /\ Step("send")
       \/ ConnectFails /\ \E ret \in {"SERVICE_NOT_AVAILABLE", "UNKNOWN_ERROR"} : AdminReturns(ret)
    /\ UNCHANGED <<lock, disk, daemon, other, applied, made>>

-----------------------------------------------------------------------------
(***************************************************************************)
(* The daemon: Cynara::init, the admin handlers of Logic, the end.         *)
(***************************************************************************)
StartService ==
    /\ daemon.at = "down" /\ made.starts < MaxStarts
    /\ made' = [made EXCEPT !.starts = @ + 1]
    /\ daemon' = [daemon EXCEPT !.at = "init"]
    /\ listening' = TRUE
    /\ UNCHANGED <<link, readQueue, lock, disk, admin, other, applied>>

\* m_databaseLock.lock(), then Logic::loadDb.
LoadDb ==
    /\ daemon.at = "init" /\ lock = "free" /\ lock' = "daemon"
    /\ daemon' = [at |-> "up", db |-> IF disk.readable THEN disk.db ELSE Nothing,
                  corrupted |-> ~disk.readable, dirty |-> FALSE]
    /\ UNCHANGED <<socketVars, disk, admin, other, applied, made>>

AdminReply(code) ==
    link' = [link EXCEPT !.reqs = Tail(@),
                         !.resps = Append(@, [number |-> Head(link.reqs).number, code |-> code])]

\* A request that fails half way leaves its change in memory, unsaved.  No
\* handler catches what a system call of the save throws, and SocketManager
\* closes the link without an answer.
ServeAdmin ==
    /\ daemon.at = "up" /\ IsConnected /\ link.reqs # <<>>
    /\ LET m == Head(link.reqs)
           out == IF daemon.corrupted /\ m.op.name # "descriptions"
                  THEN Outcome("DatabaseCorrupted", daemon.db) ELSE Execute(m.op, daemon.db)
       IN  IF out.what # "none" \/ ~IsChange(m.op)
           THEN /\ AdminReply(IF daemon.corrupted THEN "DB_CORRUPTED" ELSE ServiceCode(m.op, out.what))
                /\ daemon' = [daemon EXCEPT !.db = out.db, !.dirty = @ \/ out.db # daemon.db]
                /\ applied' = applied \union {n \in {m.number} : out.what = "none"}
                /\ UNCHANGED disk
           ELSE \E saved \in SaveOutcomes(out.db) :
                    /\ disk' = [disk EXCEPT !.db = saved.db]
                    /\ \/ saved.what # "Unexpected" /\ AdminReply(ServiceCode(m.op, saved.what))
                       \/ saved.what = "Unexpected" /\ link' = HangUp(link)
                    /\ daemon' = [daemon EXCEPT !.db = out.db, !.dirty = saved.what # "none"]
                    /\ applied' = applied \union {n \in {m.number} : saved.db = out.db}
    /\ UNCHANGED <<listening, readQueue, lock, admin, other, made>>

\* The process ends; systemd may go on listening for it.
StopService ==
    /\ daemon.at # "down"
    /\ daemon' = [at |-> "down", db |-> Nothing, corrupted |-> FALSE, dirty |-> FALSE]
    /\ lock' = IF daemon.at = "up" THEN "free" ELSE lock
    /\ link' = HangUp(link)
    /\ listening' \in BOOLEAN
    /\ made.starts = MaxStarts => ~listening'
    /\ UNCHANGED <<readQueue, disk, admin, other, applied, made>>

(***************************************************************************)
(* Another administrator, working on the files.                            *)
(***************************************************************************)
OtherLoads ==
    /\ lock = "free" /\ disk.readable /\ made.others < MaxOthers
    /\ lock' = "other" /\ other' = disk.db
    /\ made' = [made EXCEPT !.others = @ + 1]
    /\ UNCHANGED <<socketVars, disk, daemon, admin, applied>>

OtherSaves ==
    /\ lock = "other" /\ lock' = "free" /\ other' = Nothing
    /\ \E o \in {x \in Operations : IsChange(x)} :
          /\ Execute(o, other).what = "none"
          /\ disk' = [disk EXCEPT !.db = Execute(o, other).db]
    /\ UNCHANGED <<socketVars, daemon, admin, applied, made>>

-----------------------------------------------------------------------------
AdminStep == TryLock \/ Unlock \/ AcquireDatabase \/ WorkOffline \/ EnsureAdminConnection
               \/ SendCall \/ ReceiveCode \/ AskAgain

AdminNext ==
    \/ \E o \in Operations : Call(o)
    \/ AdminStep
    \/ StartService \/ LoadDb \/ ServeAdmin \/ StopService
    \/ OtherLoads \/ OtherSaves

\* Threads and processes go on; systemd starts the daemon it listens for.
AdminSpec ==
    /\ AdminInit /\ [][AdminNext]_adminVars
    /\ WF_adminVars(AdminStep) /\ WF_adminVars(ServeAdmin) /\ WF_adminVars(OtherSaves)
    /\ WF_adminVars(LoadDb) /\ WF_adminVars(listening /\ StartService)

-----------------------------------------------------------------------------
\* The files belong to one process at a time, and the copy it works on is what is
\* on the disk, so no save overwrites a change of another process.  The copy of
\* the daemon is ahead of the disk only after a request that failed.
NoLostUpdate ==
    /\ lock = "daemon" <=> daemon.at = "up"
    /\ lock = "admin" => admin.at \in {"load", "work", "unlock"}
    /\ admin.at \in {"load", "work"} => lock = "admin"
    /\ At("work") => admin.db = disk.db
    /\ lock = "other" => other = disk.db
    /\ daemon.at = "up" /\ ~daemon.dirty /\ ~daemon.corrupted => daemon.db = disk.db

\* A call that began with an empty queue of responses returns SUCCESS only after
\* its operation was carried out, however often the request had to be repeated.
SuccessMeansDone ==
    At("unlock") /\ admin.ret = "SUCCESS" /\ admin.clean => admin.number \in applied

\* Every call returns, whatever the daemon does meanwhile, unless the daemon
\* closes the link on the request again and again because its saves fail: only
\* then getResponse asks for ever.
AdminCallReturns ==
    \/ []<>(admin.at = "idle")
    \/ []<><<daemon'.at = "up" /\ ~link.closed /\ link'.closed>>_adminVars

\* A daemon that waits for the lock gets it.
DaemonGetsLock   == []<>(daemon.at # "init")
=============================================================================
