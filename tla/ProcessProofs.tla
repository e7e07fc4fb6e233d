--------------------------- MODULE ProcessProofs ----------------------------
(***************************************************************************)
(* Proofs about three programs around the daemon's service loop.           *)
(*  - AdminLibrary, for any operations, buckets and bounds: the files of   *)
(*    the database have one user at a time, and SUCCESS means that the     *)
(*    operation was carried out.                                           *)
(*  - MonitorLibrary, for any set of threads: one entriesGet runs at a     *)
(*    time, and finish deletes the object only when none is at work.       *)
(*  - ServiceStart, for any command lines, accounts, plugin directories    *)
(*    and databases: the identity the daemon serves with, the lifetime of  *)
(*    plugin objects, who serves a type and what a change of policies      *)
(*    brings down.                                                         *)
(***************************************************************************)
EXTENDS AdminLibrary, MonitorLibrary, ServiceStart, TLAPS

\* Zenon proves a leaf that names no other prover; it may take its time.
USE ZenonT(40)

\* A variable is a record of these fields.
Fields(r, names) == r = [f \in names |-> r[f]]

AdminShape ==
    /\ Fields(admin, {"at", "op", "number", "db", "ret", "clean"})
    /\ Fields(daemon, {"at", "db", "corrupted", "dirty"})
    /\ Fields(disk, {"readable", "db"})

\* The variables start as records of these fields.
LEMMA InitShape == AdminInit => AdminShape
BY DEF AdminInit, AdminShape, Fields

\* Every step leaves them records of these fields.
LEMMA NextShape == AdminShape /\ [AdminNext]_adminVars => AdminShape'
<1> SUFFICES ASSUME AdminShape, [AdminNext]_adminVars PROVE AdminShape'
  OBVIOUS
<1>1. ASSUME NEW o \in Operations, Call(o) PROVE AdminShape'
  BY <1>1 DEF Call, AdminShape, Fields
<1>2. CASE TryLock
  BY <1>2 DEF TryLock, Step, AdminShape, Fields
<1>3. CASE Unlock
  BY <1>3 DEF Unlock, Step, AdminShape, Fields
<1>4. CASE AcquireDatabase
  BY <1>4 DEF AcquireDatabase, AdminReturns, AdminShape, Fields
<1>5. CASE WorkOffline
  BY <1>5 DEF WorkOffline, AdminReturns, AdminShape, Fields
<1>6. CASE EnsureAdminConnection
  BY <1>6 DEF EnsureAdminConnection, Step, AdminReturns, AdminShape, Fields
<1>7. CASE SendCall
  BY <1>7 DEF SendCall, Step, AdminShape, Fields
<1>8. CASE ReceiveCode
  BY <1>8 DEF ReceiveCode, Step, AdminReturns, AdminShape, Fields
<1>9. CASE AskAgain
  BY <1>9 DEF AskAgain, Step, AdminReturns, AdminShape, Fields
<1>10. CASE StartService
  BY <1>10 DEF StartService, AdminShape, Fields
<1>11. CASE LoadDb
  BY <1>11 DEF LoadDb, AdminShape, Fields
<1>12. CASE ServeAdmin
  BY <1>12 DEF ServeAdmin, AdminShape, Fields
<1>13. CASE StopService
  BY <1>13 DEF StopService, AdminShape, Fields
<1>14. CASE OtherLoads
  BY <1>14 DEF OtherLoads, AdminShape, Fields
<1>15. CASE OtherSaves
  BY <1>15 DEF OtherSaves, AdminShape, Fields
<1>16. CASE UNCHANGED adminVars
  BY <1>16 DEF adminVars, adminOwn, AdminShape, Fields
<1>17. QED
  BY <1>1, <1>2, <1>3, <1>4, <1>5, <1>6, <1>7, <1>8, <1>9, <1>10, <1>11, <1>12, <1>13, <1>14,
     <1>15, <1>16 DEF AdminNext, AdminStep

\* What a save may end in.
SaveKinds == {"none", "Database", "Unexpected"}

\* A save that ends without an exception has written what it was to write.
LEMMA SavedKinds ==
  ASSUME NEW db, NEW saved \in SaveOutcomes(db)
  PROVE  saved.what \in SaveKinds /\ (saved.what = "none" => saved.db = db)
<1>1. CASE saved = Outcome("none", db)
  BY <1>1 DEF Outcome, SaveKinds
<1>2. ASSUME NEW what \in {"Database", "Unexpected"}, NEW left \in {db, disk.db},
             saved = Outcome(what, left)
      PROVE  saved.what \in SaveKinds /\ saved.what # "none"
  BY <1>2 DEF Outcome, SaveKinds
<1>3. \/ saved = Outcome("none", db)
      \/ \E what \in {"Database", "Unexpected"}, left \in {db, disk.db} : saved = Outcome(what, left)
  BY SMTT(30) DEF SaveOutcomes
<1>4. QED
  BY <1>1, <1>2, <1>3

-----------------------------------------------------------------------------
\* NoLostUpdate is inductive: each process changes the files only between its
\* own lock and unlock, and the lock is taken only when it is free.
LEMMA NextNoLostUpdate ==
  AdminShape /\ NoLostUpdate /\ [AdminNext]_adminVars => NoLostUpdate'
<1> SUFFICES ASSUME AdminShape, NoLostUpdate, [AdminNext]_adminVars PROVE NoLostUpdate'
  OBVIOUS
<1> USE DEF AdminShape, Fields, NoLostUpdate, At, Step
<1>1. ASSUME NEW o \in Operations, Call(o) PROVE NoLostUpdate'
  BY <1>1 DEF Call
<1>2. CASE TryLock
  BY <1>2 DEF TryLock
<1>3. CASE Unlock
  BY <1>3 DEF Unlock
<1>4. CASE AcquireDatabase
  BY <1>4 DEF AcquireDatabase, AdminReturns
<1>5. CASE WorkOffline
  <2>1. lock = "admin" /\ daemon.at # "up"
    BY <1>5 DEF WorkOffline
  <2>2. admin'.at = "unlock" /\ UNCHANGED <<lock, daemon>>
    BY <1>5 DEF WorkOffline, AdminReturns
  <2>3. QED
    BY <2>1, <2>2
<1>6. CASE EnsureAdminConnection
  BY <1>6 DEF EnsureAdminConnection, AdminReturns
<1>7. CASE SendCall
  BY <1>7 DEF SendCall
<1>8. CASE ReceiveCode
  BY <1>8 DEF ReceiveCode, AdminReturns
<1>9. CASE AskAgain
  BY <1>9 DEF AskAgain, AdminReturns
<1>10. CASE StartService
  BY <1>10 DEF StartService
<1>11. CASE LoadDb
  BY <1>11 DEF LoadDb
<1>12. CASE ServeAdmin
  <2>1. lock = "daemon" /\ admin.at \notin {"load", "work"} /\ UNCHANGED <<lock, admin, other>>
    BY <1>12 DEF ServeAdmin
  <2>2. daemon'.at = "up" /\ daemon'.corrupted = daemon.corrupted
    BY <1>12 DEF ServeAdmin
  <2>3. ~daemon'.dirty /\ ~daemon.corrupted => daemon'.db = disk'.db
    <3> DEFINE m == Head(link.reqs)
               out == IF daemon.corrupted /\ m.op.name # "descriptions"
                      THEN Outcome("DatabaseCorrupted", daemon.db) ELSE Execute(m.op, daemon.db)
    <3>1. \/ /\ daemon' = [daemon EXCEPT !.db = out.db, !.dirty = daemon.dirty \/ out.db # daemon.db]
             /\ disk' = disk
          \/ \E saved \in SaveOutcomes(out.db) :
                /\ disk' = [disk EXCEPT !.db = saved.db]
                /\ daemon' = [daemon EXCEPT !.db = out.db, !.dirty = saved.what # "none"]
      BY <1>12 DEF ServeAdmin
    <3> HIDE DEF out
    <3>2. CASE /\ daemon' = [daemon EXCEPT !.db = out.db, !.dirty = daemon.dirty \/ out.db # daemon.db]
               /\ disk' = disk
      <4>1. daemon'.db = out.db /\ (daemon'.dirty <=> daemon.dirty \/ out.db # daemon.db)
        BY <3>2
      <4>2. daemon.at = "up"
        BY <1>12 DEF ServeAdmin
      <4>3. QED
        BY <3>2, <4>1, <4>2
    <3>3. ASSUME NEW saved \in SaveOutcomes(out.db),
                 disk' = [disk EXCEPT !.db = saved.db],
                 daemon' = [daemon EXCEPT !.db = out.db, !.dirty = saved.what # "none"]
          PROVE  ~daemon'.dirty => daemon'.db = disk'.db
      <4>1. disk'.db = saved.db /\ daemon'.db = out.db /\ (daemon'.dirty <=> saved.what # "none")
        BY <3>3
      <4>2. saved.what = "none" => saved.db = out.db
        BY <3>3, SavedKinds
      <4>3. QED
        BY <4>1, <4>2
    <3>4. QED
      BY <3>1, <3>2, <3>3
  <2>4. QED
    BY <2>1, <2>2, <2>3
<1>13. CASE StopService
  BY <1>13 DEF StopService
<1>14. CASE OtherLoads
  BY <1>14 DEF OtherLoads
<1>15. CASE OtherSaves
  BY <1>15 DEF OtherSaves
<1>16. CASE UNCHANGED adminVars
  BY <1>16 DEF adminVars, adminOwn
<1>17. QED
  BY <1>1, <1>2, <1>3, <1>4, <1>5, <1>6, <1>7, <1>8, <1>9, <1>10, <1>11, <1>12, <1>13, <1>14,
     <1>15, <1>16 DEF AdminNext, AdminStep

\* The files of the database have one user at a time, whose copy is what is on
\* the disk (FileLock in admin/logic/Logic.cpp and service/main/Cynara.cpp).
THEOREM AdminNoLostUpdate == AdminSpec => []NoLostUpdate
<1>1. AdminInit => NoLostUpdate
  BY SMTT(30) DEF AdminInit, NoLostUpdate, At
<1>2. QED
  BY <1>1, InitShape, NextShape, NextNoLostUpdate, PTL DEF AdminSpec

-----------------------------------------------------------------------------
(***************************************************************************)
(* SuccessMeansDone needs to know what is under way on the connection: at  *)
(* most the request of the present call or its responses, none of which    *)
(* says OK before the operation was carried out.                           *)
(***************************************************************************)
Codes == {"OK", "NOT_ALLOWED", "NO_BUCKET", "NO_POLICY_TYPE", "FAILED", "DB_CORRUPTED"}
Kinds == {"none", "DatabaseCorrupted", "BucketNotExists", "UnknownPolicyType",
          "DefaultBucketSetNone", "InvalidBucketId", "DefaultBucketDeletion", "Database"}
Request  == [type |-> "call", number |-> admin.number, op |-> admin.op]
Truthful == [number : {admin.number}, code : {c \in Codes : c = "OK" => admin.number \in applied}]

Conversation ==
    /\ Fields(link, {"open", "closed", "reqs", "resps"})
    /\ link.reqs \in {<<>>, <<Request>>}
    /\ link.resps \in Seq(Truthful)
    /\ ~At("receive") => link.reqs = <<>> /\ link.resps = <<>>
    /\ link.resps # <<>> \/ link.closed => link.reqs = <<>>
    /\ admin.clean => readQueue \in Seq(Truthful)

\* Every operation ends in one of the exceptions the handlers know, or in none.
LEMMA ExecuteKinds == ASSUME NEW o, NEW db PROVE Execute(o, db).what \in Kinds
<1>1. SetOutcome(o, db).what \in Kinds
  BY DEF SetOutcome, Outcome, Kinds
<1>2. BucketOutcome(o, db).what \in Kinds
  BY DEF BucketOutcome, Outcome, Kinds
<1>3. RemoveOutcome(o, db).what \in Kinds
  BY DEF RemoveOutcome, Outcome, Kinds
<1>4. EraseOutcome(o, db).what \in Kinds
  BY DEF EraseOutcome, Outcome, Kinds
<1>5. ReadOutcome(o, db).what \in Kinds
  BY DEF ReadOutcome, Outcome, Kinds
<1>6. QED
  BY <1>1, <1>2, <1>3, <1>4, <1>5 DEF Execute

\* The daemon's code is OK for no exception its handlers catch.
LEMMA ServiceCodes ==
  ASSUME NEW o, NEW what \in Kinds
  PROVE  ServiceCode(o, what) \in Codes /\ (ServiceCode(o, what) = "OK" => what = "none")
BY DEF ServiceCode, Codes, Kinds

\* The library's own code is SUCCESS for no exception.
LEMMA OfflineCodes ==
  ASSUME NEW o, NEW what \in Kinds \cup SaveKinds
  PROVE  OfflineCode(o, what) = "SUCCESS" => what = "none"
BY DEF OfflineCode, Kinds, SaveKinds

\* interpretCodeResponse makes SUCCESS of OK only.
LEMMA InterpretSuccess == \A c \in Codes : InterpretCode(c) = "SUCCESS" => c = "OK"
BY DEF InterpretCode, Codes

\* Sequences over a set are sequences over every larger one.
LEMMA SeqGrows ==
  ASSUME NEW A, NEW B, A \subseteq B, NEW q \in Seq(A) PROVE q \in Seq(B)
BY SMTT(30)

\* A call that has been carried out stays so, and so do the responses that say it.
LEMMA TruthfulGrows ==
  ASSUME Conversation, admin'.number = admin.number, applied \subseteq applied'
  PROVE  /\ Truthful \subseteq Truthful'
         /\ link.resps \in Seq(Truthful')
         /\ admin.clean => readQueue \in Seq(Truthful')
<1>1. Truthful \subseteq Truthful'
  BY DEF Truthful
<1>2. QED
  BY <1>1, SeqGrows DEF Conversation

\* Steps that leave the connection and the call's number alone, and do not
\* leave or enter the wait for a response, keep the conversation.
LEMMA Aside ==
  ASSUME Conversation, UNCHANGED <<link, readQueue>>, admin'.number = admin.number,
         admin'.op = admin.op, admin'.clean = admin.clean, applied \subseteq applied',
         At("receive") => At("receive")'
  PROVE  Conversation'
<1>1. Request' = Request
  BY DEF Request
<1>2. QED
  BY <1>1, TruthfulGrows DEF Conversation, At, Fields

\* The conversation, and with it SuccessMeansDone, is kept by every step.
LEMMA NextConversation ==
  AdminShape /\ Conversation /\ SuccessMeansDone /\ [AdminNext]_adminVars
    => Conversation' /\ SuccessMeansDone'
<1> SUFFICES ASSUME AdminShape, Conversation, SuccessMeansDone, [AdminNext]_adminVars
             PROVE  Conversation' /\ SuccessMeansDone'
  OBVIOUS
<1> DEFINE Goal == Conversation' /\ SuccessMeansDone'
<1>a. Fields(admin, {"at", "op", "number", "db", "ret", "clean"})
  BY DEF AdminShape
<1>1. ASSUME NEW o \in Operations, Call(o) PROVE Goal
  <2>1. link' = link /\ link.reqs = <<>> /\ link.resps = <<>>
    BY <1>1 DEF Call, Conversation, At, socketVars
  <2>2. admin'.clean => readQueue' = <<>>
    BY <1>1 DEF Call, socketVars
  <2>3. admin'.at = "lock"
    BY <1>1 DEF Call
  <2>4. <<>> \in Seq(Truthful')
    BY SMTT(30)
  <2>5. QED
    BY <2>1, <2>2, <2>3, <2>4 DEF Conversation, SuccessMeansDone, At, Fields
<1>2. CASE TryLock
  <2>1. UNCHANGED <<link, readQueue, applied>> /\ \E to \in {"load", "connect"} : Step(to)
    BY <1>2 DEF TryLock, socketVars
  <2>2. ~At("receive")
    BY <1>2 DEF TryLock, At
  <2>3. QED
    BY <1>a, <2>1, <2>2, Aside DEF Step, Fields, SuccessMeansDone, At
<1>3. CASE Unlock
  <2>1. UNCHANGED <<link, readQueue, applied>> /\ Step("idle") /\ ~At("receive")
    BY <1>3 DEF Unlock, socketVars, At
  <2>2. QED
    BY <1>a, <2>1, Aside DEF Step, Fields, SuccessMeansDone, At
<1>4. CASE AcquireDatabase
  <2>1. UNCHANGED <<link, readQueue, applied>> /\ ~At("receive")
    BY <1>4 DEF AcquireDatabase, socketVars, At
  <2>2. \/ admin' = [admin EXCEPT !.at = "work", !.db = disk.db]
        \/ \E what \in {"DatabaseCorrupted", "Unexpected"} : AdminReturns(OfflineCode(admin.op, what))
    BY <1>4 DEF AcquireDatabase
  <2>3. \A what \in {"DatabaseCorrupted", "Unexpected"} : OfflineCode(admin.op, what) # "SUCCESS"
    BY OfflineCodes DEF Kinds, SaveKinds
  <2>4. QED
    BY <1>a, <2>1, <2>2, <2>3, Aside DEF AdminReturns, Fields, SuccessMeansDone, At
<1>5. CASE WorkOffline
  <2> DEFINE out == Execute(admin.op, admin.db)
  <2>1. UNCHANGED <<link, readQueue>> /\ ~At("receive")
    BY <1>5 DEF WorkOffline, socketVars, At
  <2>2. out.what \in Kinds
    BY ExecuteKinds
  <2>3. \E what \in Kinds \cup SaveKinds :
          /\ AdminReturns(OfflineCode(admin.op, what))
          /\ applied \subseteq applied'
          /\ what = "none" => admin.number \in applied'
    <3>1. CASE out.what # "none" \/ ~IsChange(admin.op)
      <4>1. /\ AdminReturns(OfflineCode(admin.op, out.what))
            /\ applied' = applied \union {n \in {admin.number} : out.what = "none"}
        BY <1>5, <3>1 DEF WorkOffline
      <4>2. QED
        BY <2>2, <4>1
    <3>2. CASE ~(out.what # "none" \/ ~IsChange(admin.op))
      <4>1. PICK saved \in SaveOutcomes(out.db) :
              /\ AdminReturns(OfflineCode(admin.op, saved.what))
              /\ applied' = applied \union {n \in {admin.number} : saved.db = out.db}
        BY <1>5, <3>2 DEF WorkOffline
      <4>2. saved.what \in SaveKinds /\ (saved.what = "none" => saved.db = out.db)
        BY <4>1, SavedKinds
      <4>3. QED
        BY <4>1, <4>2
    <3>3. QED
      BY <3>1, <3>2
  <2>4. QED
    BY <1>a, <2>1, <2>3, OfflineCodes, Aside, SMTT(30) DEF AdminReturns, Fields, SuccessMeansDone, At
<1>6. CASE EnsureAdminConnection \/ AskAgain
  <2>1. UNCHANGED <<readQueue, applied>> /\ ~At("receive")
    BY <1>6 DEF EnsureAdminConnection, AskAgain, Connect, ConnectFails, socketVars, At
  <2>2. link' \in {link, FreshLink, NoLink}
    BY <1>6 DEF EnsureAdminConnection, AskAgain, Connect, ConnectFails, socketVars
  <2>3. Step("send") \/ \E ret \in {"SERVICE_NOT_AVAILABLE", "UNKNOWN_ERROR"} : AdminReturns(ret)
    BY <1>6 DEF EnsureAdminConnection, AskAgain
  <2>4. /\ admin'.number = admin.number /\ admin'.clean = admin.clean
        /\ admin'.at = "send" \/ (admin'.at = "unlock" /\ admin'.ret # "SUCCESS")
    BY <1>a, <2>3 DEF Step, AdminReturns, Fields
  <2>5. link'.reqs = <<>> /\ link'.resps = <<>>
    BY <2>1, <2>2, SMTT(30) DEF Conversation, FreshLink, NoLink
  <2>6. Fields(link', {"open", "closed", "reqs", "resps"})
    BY <2>2 DEF Conversation, FreshLink, NoLink, Fields
  <2>7. Truthful' = Truthful
    BY <2>1, <2>4 DEF Truthful
  <2>8. <<>> \in Seq(Truthful)
    BY SMTT(30)
  <2>9. QED
    BY <2>1, <2>4, <2>5, <2>6, <2>7, <2>8 DEF Conversation, SuccessMeansDone, At
<1>7. CASE SendCall
  <2>1. UNCHANGED <<readQueue, applied>> /\ At("send")
    BY <1>7 DEF SendCall, SendToServer, socketVars
  <2>2. CASE link' = link /\ Step("again")
    BY <1>a, <2>1, <2>2, Aside DEF Step, Fields, SuccessMeansDone, At
  <2>3. CASE SendToServer(Request) /\ Step("receive")
    <3>1. link.reqs = <<>> /\ link.resps = <<>> /\ ~link.closed
      BY <2>1, <2>3 DEF SendToServer, IsConnected, Conversation, At
    <3>2. link' = [link EXCEPT !.reqs = <<Request>>]
      BY <2>3, <3>1, SMTT(30) DEF SendToServer
    <3>3. Request' = Request /\ Truthful' = Truthful /\ admin'.clean = admin.clean
      BY <1>a, <2>1, <2>3 DEF Step, Fields, Request, Truthful
    <3>4. Conversation'
      <4>1. /\ Fields(link', {"open", "closed", "reqs", "resps"})
            /\ link'.reqs = <<Request>> /\ link'.resps = <<>> /\ link'.closed = link.closed
        BY <3>1, <3>2 DEF Conversation, Fields
      <4>2. At("receive")'
        BY <1>a, <2>3 DEF Step, Fields, At
      <4>3. QED
        BY <2>1, <3>1, <3>3, <4>1, <4>2 DEF Conversation
    <3>5. QED
      BY <1>a, <2>3, <3>4 DEF Step, Fields, SuccessMeansDone, At
  <2>4. QED
    BY <1>7, <2>2, <2>3 DEF SendCall, Request, socketVars
<1>8. CASE ReceiveCode
  <2>1. applied' = applied /\ At("receive")
    BY <1>8 DEF ReceiveCode
  <2>2. link' = [link EXCEPT !.resps = <<>>]
    BY <1>8 DEF ReceiveCode, TakeResponse, EndOfStream
  <2>3. link.reqs = <<>>
    BY <1>8 DEF ReceiveCode, ReceiveTrue, EndOfStream, ReceiveFalse, Conversation
  <2>4. /\ Fields(link', {"open", "closed", "reqs", "resps"})
        /\ link'.reqs = <<>> /\ link'.resps = <<>>
    BY <2>2, <2>3 DEF Conversation, Fields
  <2>5. CASE EndOfStream /\ Step("again")
    <3>1. Truthful' = Truthful /\ admin'.clean = admin.clean /\ admin'.at = "again"
      BY <1>a, <2>1, <2>5 DEF Step, Fields, Truthful
    <3>2. admin.clean => readQueue' \in Seq(Truthful)
      BY <2>5, SMTT(30) DEF EndOfStream, Arrived, Conversation
    <3>3. QED
      BY <2>4, <3>1, <3>2, SMTT(30) DEF Conversation, SuccessMeansDone, At
  <2>6. CASE ReceiveTrue /\ TakeResponse /\ AdminReturns(InterpretCode(Response.code))
    <3>1. /\ Truthful' = Truthful /\ admin'.clean = admin.clean /\ admin'.at = "unlock"
          /\ admin'.number = admin.number /\ admin'.ret = InterpretCode(Response.code)
      BY <1>a, <2>1, <2>6 DEF AdminReturns, Fields, Truthful
    <3>2. ASSUME admin.clean PROVE Arrived \in Seq(Truthful) /\ Arrived # <<>>
      BY <2>6, <3>2, SMTT(30) DEF Arrived, ReceiveTrue, Conversation
    <3>3. ASSUME admin.clean PROVE readQueue' \in Seq(Truthful) /\ Response \in Truthful
      BY <2>6, <3>2, <3>3, SMTT(30) DEF TakeResponse, Response
    <3>4. ASSUME admin.clean, admin'.ret = "SUCCESS" PROVE admin.number \in applied
      BY <3>1, <3>3, <3>4, InterpretSuccess DEF Truthful
    <3>5. QED
      BY <2>1, <2>4, <3>1, <3>3, <3>4, SMTT(30) DEF Conversation, SuccessMeansDone, At
  <2>7. QED
    BY <1>8, <2>5, <2>6 DEF ReceiveCode
<1>9. CASE StartService \/ LoadDb \/ OtherLoads \/ OtherSaves \/ UNCHANGED adminVars
  <2>1. UNCHANGED <<link, readQueue, applied, admin>>
    BY <1>9 DEF StartService, LoadDb, OtherLoads, OtherSaves, adminVars, adminOwn, socketVars
  <2>2. QED
    BY <2>1, Aside DEF SuccessMeansDone, At
<1>10. CASE ServeAdmin
  <2> DEFINE m == Head(link.reqs)
             out == IF daemon.corrupted /\ m.op.name # "descriptions"
                    THEN Outcome("DatabaseCorrupted", daemon.db) ELSE Execute(m.op, daemon.db)
             Reply(c) == [number |-> admin.number, code |-> c]
  <2>1. UNCHANGED <<readQueue, admin>> /\ link.reqs # <<>> /\ IsConnected
    BY <1>10 DEF ServeAdmin
  <2>2. link.reqs = <<Request>> /\ link.resps = <<>> /\ At("receive") /\ ~link.closed
    BY <2>1 DEF Conversation, IsConnected
  <2>3. m.number = admin.number /\ m.op = admin.op /\ Tail(link.reqs) = <<>>
    BY <2>2, SMTT(30) DEF Request
  <2>4. out.what \in Kinds
    BY ExecuteKinds DEF Outcome, Kinds
  <2>5. /\ applied \subseteq applied'
        /\ \/ \E c \in Codes : AdminReply(c) /\ (c = "OK" => admin.number \in applied')
           \/ link' = HangUp(link)
    <3>1. CASE out.what # "none" \/ ~IsChange(m.op)
      <4>1. /\ AdminReply(IF daemon.corrupted THEN "DB_CORRUPTED" ELSE ServiceCode(m.op, out.what))
            /\ applied' = applied \union {n \in {m.number} : out.what = "none"}
        BY <1>10, <3>1 DEF ServeAdmin
      <4>2. QED
        BY <2>3, <2>4, <4>1, ServiceCodes DEF Codes
    <3>2. CASE ~(out.what # "none" \/ ~IsChange(m.op))
      <4>1. PICK saved \in SaveOutcomes(out.db) :
              /\ \/ saved.what # "Unexpected" /\ AdminReply(ServiceCode(m.op, saved.what))
                 \/ link' = HangUp(link)
              /\ applied' = applied \union {n \in {m.number} : saved.db = out.db}
        BY <1>10, <3>2 DEF ServeAdmin
      <4>2. saved.what \in SaveKinds /\ (saved.what = "none" => saved.db = out.db)
        BY <4>1, SavedKinds
      <4>3. saved.what # "Unexpected" => saved.what \in Kinds
        BY <4>2 DEF SaveKinds, Kinds
      <4>4. QED
        BY <2>3, <4>1, <4>2, <4>3, ServiceCodes
    <3>3. QED
      BY <3>1, <3>2
  <2>6. admin.clean => readQueue \in Seq(Truthful')
    BY <2>1, <2>5, TruthfulGrows
  <2>7. ASSUME NEW c \in Codes, AdminReply(c), c = "OK" => admin.number \in applied'
        PROVE  Goal
    <3>1. link' = [link EXCEPT !.reqs = <<>>, !.resps = <<Reply(c)>>]
      <4>1. Append(link.resps, Reply(c)) = <<Reply(c)>>
        BY <2>2, SMTT(30)
      <4>2. [number |-> m.number, code |-> c] = Reply(c)
        BY <2>3
      <4>3. link' = [link EXCEPT !.reqs = Tail(link.reqs),
                                 !.resps = Append(link.resps, [number |-> m.number, code |-> c])]
        BY <2>7 DEF AdminReply
      <4>4. QED
        BY <2>3, <4>1, <4>2, <4>3
    <3>2. /\ Fields(link', {"open", "closed", "reqs", "resps"})
          /\ link'.reqs = <<>> /\ link'.resps = <<Reply(c)>>
      BY <3>1 DEF Conversation, Fields
    <3>3. Reply(c) \in Truthful'
      BY <2>1, <2>7 DEF Truthful
    <3>4. <<Reply(c)>> \in Seq(Truthful')
      BY <3>3, SMTT(30)
    <3>5. QED
      BY <2>1, <2>2, <2>5, <2>6, <3>2, <3>4 DEF Conversation, SuccessMeansDone, At
  <2>8. CASE link' = HangUp(link)
    <3>1. /\ Fields(link', {"open", "closed", "reqs", "resps"})
          /\ link'.reqs = <<>> /\ link'.resps = link.resps
      BY <2>8 DEF Conversation, HangUp, Fields
    <3>2. link.resps \in Seq(Truthful')
      BY <2>1, <2>5, TruthfulGrows
    <3>3. QED
      BY <2>1, <2>2, <2>5, <2>6, <3>1, <3>2 DEF Conversation, SuccessMeansDone, At
  <2>9. QED
    BY <2>5, <2>7, <2>8
<1>11. CASE StopService
  <2>1. UNCHANGED <<readQueue, applied, admin>> /\ link' = HangUp(link)
    BY <1>11 DEF StopService
  <2>2. /\ Fields(link', {"open", "closed", "reqs", "resps"})
        /\ link'.reqs = <<>> /\ link'.resps = link.resps
    BY <2>1 DEF Conversation, HangUp, Fields
  <2>3. Truthful' = Truthful
    BY <2>1 DEF Truthful
  <2>4. QED
    BY <2>1, <2>2, <2>3 DEF Conversation, SuccessMeansDone, At
<1>12. QED
  BY <1>1, <1>2, <1>3, <1>4, <1>5, <1>6, <1>7, <1>8, <1>9, <1>10, <1>11 DEF AdminNext, AdminStep

\* A call of libcynara-admin that began with no stale response in its queue
\* reports SUCCESS only after its operation was carried out, by the library on
\* the files or by the daemon (OfflineLogic.cpp, OnlineLogic.cpp).
THEOREM AdminSuccessMeansDone == AdminSpec => []SuccessMeansDone
<1>1. AdminInit => Conversation /\ SuccessMeansDone
  BY SMTT(30) DEF AdminInit, SocketInit, NoLink, Conversation, SuccessMeansDone, At, Fields
<1>2. QED
  BY <1>1, InitShape, NextShape, NextConversation, PTL DEF AdminSpec

-----------------------------------------------------------------------------
\* MonitorLibrary: where a thread of entriesGet is.
Places == {"idle", "guard", "status", "connect", "send", "poll", "fetch", "stop",
           "notify", "unlock"}
AtWork == {"connect", "send", "poll", "fetch", "stop"}

\* The guard is held by the thread inside, which finish meets only when it has
\* set m_isRunning.
MonitorIInv ==
    /\ getter \in [Getters -> Places]
    /\ guard = Inside
    /\ OneGet
    /\ finisher # "idle" => \A g \in Getters : getter[g] \notin {"guard", "status"}
    /\ DeletedAfterGet

\* A thread that moves inside entriesGet keeps the guard; m_isRunning is set and
\* cleared by the first and the last of its critical sections.
LEMMA InsideStep ==
  ASSUME MonitorIInv, NEW g \in Getters, NEW from \in Places \ {"idle", "guard"},
         NEW to \in Places \ {"idle", "guard", "status"}, Move(g, from, to),
         guard' = guard, running' <=> to \in AtWork,
         finisher' = finisher \/ (finisher = "sleeping" /\ finisher' = "check"),
         from \in {"notify", "unlock"} => to \in {"notify", "unlock"}
  PROVE  MonitorIInv'
<1>1. g \in Inside /\ Inside = {g}
  BY DEF MonitorIInv, Inside, OneGet, Move
<1>2. getter' \in [Getters -> Places] /\ getter'[g] = to
  BY DEF MonitorIInv, Move
<1>3. \A h \in Getters \ {g} : getter'[h] = getter[h] /\ getter[h] \in {"idle", "guard"}
  BY <1>1 DEF MonitorIInv, Move, Inside
<1>4. Inside' = {g}
  BY <1>2, <1>3 DEF Inside
<1>5. OneGet'
  BY <1>2, <1>3, <1>4 DEF OneGet, AtWork
<1>6. finisher' # "idle" => \A h \in Getters : getter'[h] \notin {"guard", "status"}
  BY <1>2, <1>3 DEF MonitorIInv
<1>7. DeletedAfterGet'
  <2> SUFFICES ASSUME finisher' \in {"delete", "deleted"}
               PROVE  \A h \in Getters : getter'[h] \in {"idle", "guard", "notify", "unlock"}
    BY DEF DeletedAfterGet
  <2>1. finisher' = finisher /\ from \in {"notify", "unlock"}
    BY DEF MonitorIInv, DeletedAfterGet, Move
  <2>2. QED
    BY <1>2, <1>3, <2>1
<1>8. QED
  BY <1>1, <1>2, <1>4, <1>5, <1>6, <1>7 DEF MonitorIInv

\* Steps of the flushing thread and of the daemon leave all of it alone.
LEMMA ApartStep ==
  ASSUME MonitorIInv, UNCHANGED <<getter, guard, running, finisher>> PROVE MonitorIInv'
BY DEF MonitorIInv, Inside, OneGet, DeletedAfterGet

\* Every step keeps the invariant.
LEMMA NextMonitorIInv == MonitorIInv /\ [MonitorNext]_monitorVars => MonitorIInv'
<1> SUFFICES ASSUME MonitorIInv, [MonitorNext]_monitorVars PROVE MonitorIInv'
  OBVIOUS
<1>1. ASSUME NEW g \in Getters, StartGet(g) PROVE MonitorIInv'
  BY <1>1, SMTT(30) DEF StartGet, Move, MonitorIInv, Places, Inside, OneGet, DeletedAfterGet
<1>2. ASSUME NEW g \in Getters, EntriesGet(g) PROVE MonitorIInv'
  BY <1>2, SMTT(30) DEF EntriesGet, Move, MonitorIInv, Places, Inside, OneGet, DeletedAfterGet
<1>3. ASSUME NEW g \in Getters, SetRunning(g) PROVE MonitorIInv'
  <2>1. Move(g, "status", "connect") /\ running' /\ UNCHANGED <<guard, finisher>>
    BY <1>3 DEF SetRunning
  <2>2. QED
    BY <2>1, InsideStep DEF Places, AtWork
<1>4. ASSUME NEW g \in Getters, UnlockGuard(g) PROVE MonitorIInv'
  BY <1>4 DEF UnlockGuard, Move, MonitorIInv, Places, Inside, OneGet, DeletedAfterGet
<1>5. ASSUME NEW g \in Getters,
             ConnectService(g) \/ SendGet(g) \/ WaitForEntries(g) \/ FetchEntries(g)
      PROVE  MonitorIInv'
  <2>1. \E from, to \in AtWork : Move(g, from, to)
    BY <1>5 DEF ConnectService, SendGet, WaitForEntries, FetchEntries, AtWork
  <2>2. UNCHANGED <<guard, running, finisher>>
    BY <1>5 DEF ConnectService, SendGet, WaitForEntries, FetchEntries
  <2>3. running
    BY <2>1 DEF MonitorIInv, OneGet, Move, AtWork
  <2>4. QED
    BY <2>1, <2>2, <2>3, InsideStep DEF AtWork, Places
<1>6. ASSUME NEW g \in Getters, ClearRunning(g) \/ NotifyFinished(g) PROVE MonitorIInv'
  <2>1. CASE ClearRunning(g)
    <3>1. Move(g, "stop", "notify") /\ ~running' /\ UNCHANGED <<guard, finisher>>
      BY <2>1 DEF ClearRunning
    <3>2. "notify" \notin AtWork
      BY DEF AtWork
    <3>3. QED
      BY <3>1, <3>2, InsideStep DEF Places
  <2>2. CASE NotifyFinished(g)
    <3>1. /\ Move(g, "notify", "unlock") /\ UNCHANGED <<guard, running>>
          /\ finisher' = finisher \/ (finisher = "sleeping" /\ finisher' = "check")
      BY <2>2 DEF NotifyFinished
    <3>2. ~running'
      BY <3>1, SMTT(30) DEF MonitorIInv, OneGet, Inside, Move
    <3>3. "unlock" \notin AtWork
      BY DEF AtWork
    <3>4. QED
      BY <3>1, <3>2, <3>3, InsideStep DEF Places
  <2>3. QED
    BY <1>6, <2>1, <2>2
<1>7. CASE NotifyFinish
  BY <1>7 DEF NotifyFinish, MonitorIInv, Places, Inside, OneGet, DeletedAfterGet
<1>8. CASE WaitFinished
  BY <1>8 DEF WaitFinished, MonitorIInv, Places, Inside, OneGet, DeletedAfterGet
<1>9. CASE Notify \/ DeleteLogic
  BY <1>9, SMTT(30) DEF Notify, DeleteLogic, MonitorIInv, Places, Inside, OneGet, DeletedAfterGet
<1>10. CASE EntriesFlush \/ Flushing \/ ServeMonitor \/ BufferFull \/ HangUpMonitor
              \/ UNCHANGED monitorVars
  BY <1>10, ApartStep DEF EntriesFlush, Flushing, WaitForConnectionResolved, SendFlush, ServeMonitor,
     BufferFull, HangUpMonitor, monitorVars, monitorOwn
<1>11. QED
  BY <1>1, <1>2, <1>3, <1>4, <1>5, <1>6, <1>7, <1>8, <1>9, <1>10
     DEF MonitorNext, Getting, Finishing

\* The invariant holds in every reachable state.
THEOREM MonitorInvariant == MonitorSpec => []MonitorIInv
<1>1. MonitorInit => MonitorIInv
  BY DEF MonitorInit, MonitorIInv, Places, Inside, OneGet, DeletedAfterGet
<1>2. QED
  BY <1>1, NextMonitorIInv, PTL DEF MonitorSpec

\* m_reentrantGuard admits one entriesGet at a time, and m_isRunning tells
\* whether one is at work, for any number of threads.
THEOREM MonitorOneGet == MonitorSpec => []OneGet
BY MonitorInvariant, PTL DEF MonitorIInv

\* cynara_monitor_finish deletes the Logic object only when no thread connects,
\* sends, polls or receives in entriesGet.
THEOREM MonitorDeletedAfterGet == MonitorSpec => []DeletedAfterGet
BY MonitorInvariant, PTL DEF MonitorIInv

-----------------------------------------------------------------------------
\* ServiceStart: the steps of main before and after the daemon serves.
Early == {"parse", "daemonize", "umask", "setuid", "setgid", "init"}
Late  == {"unbind", "reset logic", "destroy plugins", "close libraries", "exited"}

StartShape ==
    /\ process = [f \in {"at", "line", "exit", "next"} |-> process[f]]
    /\ ident = [f \in {"uid", "gid", "mask", "detached"} |-> ident[f]]
    /\ process.at \in Early \union {"plugins", "run", "crashed"} \union Late

Position == process.next \in Nat /\ process.next >= 1

\* The identity after each step of main.
Identity ==
    /\ process.at \in {"umask", "setuid", "setgid", "init", "plugins", "run"}
         => ident.detached = options.daemon
    /\ process.at \in {"setuid", "setgid", "init", "plugins", "run"}
         => options.mask \in {Unset, ident.mask}
    /\ process.at \in {"setgid", "init", "plugins", "run"} => options.uid \in {Unset, ident.uid}
    /\ process.at \in {"init", "plugins", "run"} => options.gid \in {Unset, ident.gid}

\* Where the plugin objects are before they are made and when they are destroyed.
Lifetime ==
    /\ LibraryOutlivesPlugin
    /\ process.at \in Early => libs = {} /\ held = {} /\ DOMAIN plugins = {}
    /\ process.at \in {"destroy plugins", "close libraries", "exited"} => held = {}
    /\ process.at \in {"close libraries", "exited"} =>
         \A t \in DOMAIN plugins : plugins[t] = NullPlugin

\* A null pointer is in the map of a daemon that runs only for a policy of the
\* database whose type no library offers.
Orphan(t)   == t \in stored /\ \A n \in libs : t \notin directory[n].types
NullsOrphan ==
    /\ process.at \notin Late =>
         /\ \A n \in libs : directory[n].types \subseteq DOMAIN plugins
         /\ \A t \in DOMAIN plugins : plugins[t] = NullPlugin => process.at # "plugins" /\ Orphan(t)
    /\ process.at = "crashed" => \E t \in stored : Orphan(t)

\* The libraries are opened in the order of their names, and a type stays with
\* the first that offers it.
Claims ==
    process.at \in {"plugins", "run"} =>
        /\ libs \subseteq 1 .. (process.next - 1)
        /\ \A t \in DOMAIN plugins : \A n \in libs :
               t \in directory[n].types => plugins[t] \in 1 .. n
        /\ \A t \in DOMAIN plugins :
               plugins[t] # NullPlugin => t \in directory[plugins[t]].types

Plugins   == Lifetime /\ NullsOrphan /\ Claims
StartIInv == StartShape /\ Position /\ Identity /\ Plugins

-----------------------------------------------------------------------------
\* The identity is changed by the steps of main only.
LEMMA IdentityStep == StartShape /\ Identity /\ [StartNext]_startVars => StartShape' /\ Identity'
<1> SUFFICES ASSUME StartShape, Identity, [StartNext]_startVars PROVE StartShape' /\ Identity'
  OBVIOUS
<1> USE DEF StartShape, Identity, Early, Late, Proceed, Exit
<1>1. CASE ParseOptions
  BY <1>1 DEF ParseOptions
<1>2. ASSUME NEW w \in BOOLEAN, Daemonize(w) PROVE StartShape' /\ Identity'
  BY <1>2 DEF Daemonize
<1>3. CASE Umask
  BY <1>3 DEF Umask
<1>4. CASE SetUid
  BY <1>4 DEF SetUid
<1>5. CASE SetGid
  BY <1>5 DEF SetGid
<1>6. ASSUME NEW w \in BOOLEAN, InitService(w) PROVE StartShape' /\ Identity'
  BY <1>6 DEF InitService
<1>7. CASE OpenPlugin
  <2>1. /\ process.at = "plugins" /\ UNCHANGED <<ident, options>>
        /\ process' = [process EXCEPT !.next = process.next + 1]
    BY <1>7 DEF OpenPlugin
  <2> DEFINE k == process.next + 1
  <2>2. process' = [process EXCEPT !.next = k]
    BY <2>1
  <2> HIDE DEF k
  <2>3. QED
    BY <2>1, <2>2
<1>8. CASE PluginsLoaded \/ Stop \/ InvalidateAll
  BY <1>8 DEF PluginsLoaded, Stop, InvalidateAll, Event
<1>9. CASE UnbindAll \/ ResetLogic \/ DestroyPlugins \/ CloseLibraries
  BY <1>9 DEF UnbindAll, ResetLogic, DestroyPlugins, CloseLibraries
<1>10. CASE UNCHANGED <<process, ident, options>>
  BY <1>10
<1>11. QED
  BY <1>1, <1>2, <1>3, <1>4, <1>5, <1>6, <1>7, <1>8, <1>9, <1>10
     DEF StartNext, SetPolicyOfType, PluginCheck, CheckDone, startVars

-----------------------------------------------------------------------------
\* The position in the directory is a positive number.
LEMMA PositionStep == StartShape /\ Position /\ [StartNext]_startVars => Position'
<1> SUFFICES ASSUME StartShape, Position, [StartNext]_startVars PROVE Position'
  OBVIOUS
<1>1. process = [f \in {"at", "line", "exit", "next"} |-> process[f]]
  BY DEF StartShape
<1>2. CASE OpenPlugin
  <2>1. process' = [process EXCEPT !.next = process.next + 1]
    BY <1>2 DEF OpenPlugin
  <2>2. process'.next = process.next + 1
    BY <1>1, <2>1
  <2>3. QED
    BY <2>2, SMTT(30) DEF Position
<1>3. ASSUME NEW w \in BOOLEAN, InitService(w) PROVE Position'
  <2>1. process'.next = 1 \/ process'.next = process.next
    BY <1>1, <1>3 DEF InitService
  <2>2. QED
    BY <2>1, SMTT(30) DEF Position
<1>4. ASSUME process'.next = process.next PROVE Position'
  BY <1>4 DEF Position
<1>5. CASE ParseOptions \/ Umask \/ SetUid \/ SetGid \/ \E w \in BOOLEAN : Daemonize(w)
  BY <1>1, <1>4, <1>5 DEF ParseOptions, Umask, SetUid, SetGid, Daemonize, Proceed, Exit
<1>6. CASE PluginsLoaded \/ InvalidateAll \/ Stop \/ UnbindAll \/ ResetLogic \/ DestroyPlugins
             \/ CloseLibraries
  BY <1>1, <1>4, <1>6 DEF PluginsLoaded, InvalidateAll, Stop, UnbindAll, ResetLogic, DestroyPlugins,
     CloseLibraries, Proceed
<1>7. CASE UNCHANGED process
  BY <1>4, <1>7
<1>8. QED
  BY <1>2, <1>3, <1>5, <1>6, <1>7
     DEF StartNext, SetPolicyOfType, PluginCheck, CheckDone, startVars

\* Until the plugins are loaded there are none.
LEMMA BootStep ==
  ASSUME Plugins, process.at \in Early, UNCHANGED <<directory, libs, plugins, held, stored>>,
         process'.at \in Early \union {"plugins", "unbind", "exited"}
  PROVE  Plugins'
<1>1. libs = {} /\ held = {} /\ DOMAIN plugins = {}
  BY DEF Plugins, Lifetime
<1>2. Lifetime'
  BY <1>1 DEF Plugins, Lifetime, LibraryOutlivesPlugin
<1>3. NullsOrphan'
  BY <1>1 DEF NullsOrphan, Early
<1>4. Claims'
  BY <1>1 DEF Claims
<1>5. QED
  BY <1>2, <1>3, <1>4 DEF Plugins

\* A library that is used is opened with its object, and serves the types that
\* none before it offers.
LEMMA OpenPluginStep == ASSUME StartShape, Position, Plugins, OpenPlugin PROVE Plugins'
<1> DEFINE n == process.next
           file == directory[n]
           types == file.types
<1>1. process.at = "plugins" /\ UNCHANGED <<directory, held, stored>>
  BY DEF OpenPlugin
<1>2. process'.at = "plugins" /\ process'.next = n + 1
  <2>1. process' = [process EXCEPT !.next = n + 1]
    BY DEF OpenPlugin
  <2>2. QED
    BY <1>1, <2>1 DEF StartShape
<1>3. n \in Nat /\ n >= 1 /\ n # NullPlugin
  BY SMTT(30) DEF Position, NullPlugin
<1>4. libs \subseteq 1 .. (n - 1)
  BY <1>1 DEF Plugins, Claims
<1>5. CASE UNCHANGED <<plugins, libs>>
  <2>1. Lifetime'
    BY <1>1, <1>2, <1>5 DEF Plugins, Lifetime, LibraryOutlivesPlugin, Early
  <2>2. NullsOrphan'
    BY <1>1, <1>2, <1>5 DEF Plugins, NullsOrphan, Orphan, Late
  <2>3. Claims'
    <3>1. libs \subseteq 1 .. (process'.next - 1)
      BY <1>2, <1>3, <1>4, SMTT(30)
    <3>2. QED
      BY <1>1, <1>2, <1>5, <3>1 DEF Plugins, Claims
  <2>4. QED
    BY <2>1, <2>2, <2>3 DEF Plugins
<1>6. CASE plugins' = InsertPlugins(plugins, types, n) /\ libs' = libs \union {n}
  <2>1. /\ DOMAIN plugins' = DOMAIN plugins \union types
        /\ \A t \in DOMAIN plugins : plugins'[t] = plugins[t]
        /\ \A t \in types \ DOMAIN plugins : plugins'[t] = n
    BY <1>6 DEF InsertPlugins
  <2>2. \A t \in DOMAIN plugins : plugins[t] \in libs /\ plugins[t] # NullPlugin
    BY <1>1 DEF Plugins, Lifetime, LibraryOutlivesPlugin, NullsOrphan, Late
  <2>3. \A t \in DOMAIN plugins' : plugins'[t] \in libs' /\ plugins'[t] # NullPlugin
    BY <1>3, <1>6, <2>1, <2>2
  <2>4. Lifetime'
    BY <1>1, <1>2, <1>6, <2>3 DEF Plugins, Lifetime, LibraryOutlivesPlugin, Early
  <2>5. NullsOrphan'
    BY <1>1, <1>2, <1>6, <2>1, <2>3 DEF Plugins, NullsOrphan, Late
  <2>6. Claims'
    <3>1. libs' \subseteq 1 .. (process'.next - 1)
      <4>1. process'.next - 1 = n
        BY <1>2, <1>3, SMTT(30)
      <4>2. ASSUME NEW k \in libs' PROVE k \in 1 .. n
        <5>1. k \in 1 .. (n - 1) \/ k = n
          BY <1>4, <1>6, <4>2
        <5>2. QED
          BY <1>3, <5>1, SMTT(30)
      <4>3. QED
        BY <4>1, <4>2
    <3>2. ASSUME NEW t \in DOMAIN plugins', NEW k \in libs', t \in directory[k].types
          PROVE  plugins'[t] \in 1 .. k
      <4>1. CASE k \in libs
        <5>1. t \in DOMAIN plugins /\ plugins[t] \in 1 .. k
          BY <1>1, <3>2, <4>1 DEF Plugins, Claims, NullsOrphan, Late
        <5>2. QED
          BY <2>1, <5>1
      <4>2. CASE k = n
        <5>1. plugins'[t] \in libs'
          BY <2>3
        <5>2. QED
          BY <1>3, <1>4, <1>6, <4>2, <5>1, SMTT(30)
      <4>3. QED
        BY <1>6, <4>1, <4>2
    <3>3. ASSUME NEW t \in DOMAIN plugins' PROVE t \in directory[plugins'[t]].types
      <4>1. CASE t \in DOMAIN plugins
        BY <1>1, <2>1, <2>2, <4>1 DEF Plugins, Claims
      <4>2. CASE t \in types \ DOMAIN plugins
        BY <2>1, <4>2
      <4>3. QED
        BY <2>1, <4>1, <4>2
    <3>4. QED
      BY <1>1, <3>1, <3>2, <3>3 DEF Claims
  <2>7. QED
    BY <2>4, <2>5, <2>6 DEF Plugins
<1>7. QED
  BY <1>5, <1>6 DEF OpenPlugin

\* What a request or an administrator does with the plugins of a running daemon.
LEMMA RunStep ==
  ASSUME StartShape, Plugins,
         \/ \E t \in ServiceTypes : SetPolicyOfType(t) \/ \E w \in BOOLEAN : PluginCheck(t, w)
         \/ \E object \in held : CheckDone(object)
  PROVE  Plugins'
<1>1. process.at = "run" /\ UNCHANGED <<process, directory, libs>>
  BY DEF SetPolicyOfType, PluginCheck, CheckDone, Event
<1>2. ASSUME NEW t \in ServiceTypes, SetPolicyOfType(t) PROVE Plugins'
  <2>1. UNCHANGED <<plugins, held>> /\ stored \subseteq stored'
    BY <1>2 DEF SetPolicyOfType, CheckPolicyType
  <2>2. Lifetime' /\ Claims'
    BY <1>1, <2>1 DEF Plugins, Lifetime, LibraryOutlivesPlugin, Claims
  <2>3. NullsOrphan'
    BY <1>1, <2>1 DEF Plugins, NullsOrphan, Orphan
  <2>4. QED
    BY <2>2, <2>3 DEF Plugins
<1>3. ASSUME NEW t \in ServiceTypes, NEW w \in BOOLEAN, PluginCheck(t, w) PROVE Plugins'
  <2>1. /\ t \in stored /\ UNCHANGED stored
        /\ plugins' = InsertPlugins(plugins, {t}, NullPlugin)
        /\ held' = held \/ (plugins'[t] # NullPlugin /\ held' = held \union {plugins'[t]})
    BY <1>3 DEF PluginCheck, GetPlugin
  <2>2. /\ DOMAIN plugins' = DOMAIN plugins \union {t}
        /\ \A u \in DOMAIN plugins : plugins'[u] = plugins[u]
        /\ t \notin DOMAIN plugins => plugins'[t] = NullPlugin
    BY <2>1 DEF InsertPlugins
  <2>3. LibraryOutlivesPlugin'
    <3>1. \A u \in DOMAIN plugins : plugins[u] \in libs \union {NullPlugin}
      BY DEF Plugins, Lifetime, LibraryOutlivesPlugin
    <3>2. \A u \in DOMAIN plugins' : plugins'[u] \in libs \union {NullPlugin}
      BY <2>2, <3>1
    <3>3. held' \subseteq libs \union {NullPlugin}
      <4>1. held \subseteq libs \union {NullPlugin}
        BY DEF Plugins, Lifetime, LibraryOutlivesPlugin
      <4>2. t \in DOMAIN plugins'
        BY <2>2
      <4>3. plugins'[t] \in libs \union {NullPlugin}
        BY <3>2, <4>2
      <4>4. QED
        BY <2>1, <4>1, <4>3
    <3>4. QED
      BY <1>1, <3>2, <3>3 DEF LibraryOutlivesPlugin
  <2>4. Lifetime'
    BY <1>1, <2>3 DEF Lifetime, Early
  <2>5. t \notin DOMAIN plugins => Orphan(t)
    BY <1>1, <2>1 DEF Plugins, NullsOrphan, Orphan, Late
  <2>6. NullsOrphan'
    <3>1. \A u \in DOMAIN plugins' : plugins'[u] = NullPlugin => Orphan(u)
      BY <1>1, <2>2, <2>5 DEF Plugins, NullsOrphan, Late
    <3>2. QED
      BY <1>1, <2>1, <2>2, <3>1 DEF Plugins, NullsOrphan, Orphan
  <2>7. Claims'
    <3>1. ASSUME NEW u \in DOMAIN plugins', NEW n \in libs, u \in directory[n].types
          PROVE  plugins'[u] \in 1 .. n
      BY <1>1, <2>2, <2>5, <3>1 DEF Plugins, Claims, Orphan
    <3>2. \A u \in DOMAIN plugins' :
             plugins'[u] # NullPlugin => u \in directory[plugins'[u]].types
      BY <1>1, <2>2 DEF Plugins, Claims
    <3>3. QED
      BY <1>1, <3>1, <3>2 DEF Plugins, Claims
  <2>8. QED
    BY <2>4, <2>6, <2>7 DEF Plugins
<1>4. ASSUME NEW object \in held, CheckDone(object) PROVE Plugins'
  <2>1. UNCHANGED <<plugins, stored>> /\ held' \subseteq held
    BY <1>4 DEF CheckDone
  <2>2. QED
    BY <1>1, <2>1 DEF Plugins, Lifetime, LibraryOutlivesPlugin, NullsOrphan, Orphan, Claims, Early
<1>5. QED
  BY <1>2, <1>3, <1>4

\* The end of loading, a change of policies, a signal, and the parts that
\* finalize takes down one after the other.
LEMMA EndStep ==
  ASSUME StartShape, Plugins,
         \/ PluginsLoaded \/ InvalidateAll \/ Stop
         \/ UnbindAll \/ ResetLogic \/ DestroyPlugins \/ CloseLibraries
  PROVE  Plugins'
<1> USE DEF Proceed
<1>a. process = [f \in {"at", "line", "exit", "next"} |-> process[f]]
  BY DEF StartShape
<1>1. CASE PluginsLoaded
  <2>1. /\ process.at = "plugins" /\ process'.at = "run" /\ process'.next = process.next
        /\ UNCHANGED <<directory, libs, plugins, held, stored>>
    BY <1>a, <1>1 DEF PluginsLoaded
  <2>2. QED
    BY <2>1 DEF Plugins, Lifetime, LibraryOutlivesPlugin, NullsOrphan, Orphan, Claims, Early, Late
<1>2. CASE InvalidateAll
  <2>1. UNCHANGED <<directory, libs, plugins, held, stored>> /\ process.at = "run"
    BY <1>2 DEF InvalidateAll, Event
  <2>2. \/ UNCHANGED process
        \/ process'.at = "crashed" /\ \E t \in DOMAIN plugins : plugins[t] = NullPlugin
    BY <1>a, <1>2 DEF InvalidateAll
  <2>3. process'.at = "crashed" => \E t \in stored : Orphan(t)
    BY <2>1, <2>2 DEF Plugins, NullsOrphan, Orphan, Late
  <2>4. QED
    BY <2>1, <2>2, <2>3
       DEF Plugins, Lifetime, LibraryOutlivesPlugin, NullsOrphan, Orphan, Claims, Early, Late
<1>3. CASE Stop \/ UnbindAll
  <2>1. UNCHANGED <<directory, libs, plugins, held, stored>> /\ process'.at \in {"unbind", "reset logic"}
    BY <1>a, <1>3 DEF Stop, UnbindAll
  <2>2. QED
    BY <2>1 DEF Plugins, Lifetime, LibraryOutlivesPlugin, NullsOrphan, Claims, Early, Late
<1>4. CASE ResetLogic
  <2>1. UNCHANGED <<libs, plugins>> /\ process'.at = "destroy plugins" /\ held' = {}
    BY <1>a, <1>4 DEF ResetLogic
  <2>2. QED
    BY <2>1 DEF Plugins, Lifetime, LibraryOutlivesPlugin, NullsOrphan, Claims, Early, Late
<1>5. CASE DestroyPlugins
  <2>1. /\ UNCHANGED <<libs, held>> /\ process'.at = "close libraries" /\ held = {}
        /\ plugins' = [t \in DOMAIN plugins |-> NullPlugin]
    BY <1>a, <1>5 DEF DestroyPlugins, Plugins, Lifetime
  <2>2. QED
    BY <2>1 DEF Plugins, Lifetime, LibraryOutlivesPlugin, NullsOrphan, Claims, Early, Late
<1>6. CASE CloseLibraries
  <2>1. /\ UNCHANGED <<plugins, held>> /\ process'.at = "exited" /\ held = {} /\ libs' = {}
        /\ \A t \in DOMAIN plugins : plugins[t] = NullPlugin
    BY <1>a, <1>6 DEF CloseLibraries, Plugins, Lifetime
  <2>2. QED
    BY <2>1 DEF Plugins, Lifetime, LibraryOutlivesPlugin, NullsOrphan, Claims, Early, Late
<1>7. QED
  BY <1>1, <1>2, <1>3, <1>4, <1>5, <1>6

\* Every step keeps what is known of the plugins.
LEMMA PluginsStep == StartShape /\ Position /\ Plugins /\ [StartNext]_startVars => Plugins'
<1> SUFFICES ASSUME StartShape, Position, Plugins, [StartNext]_startVars PROVE Plugins'
  OBVIOUS
<1>1. CASE ParseOptions \/ Umask \/ SetUid \/ SetGid
             \/ \E w \in BOOLEAN : Daemonize(w) \/ InitService(w)
  <2>1. process.at \in Early /\ UNCHANGED <<directory, libs, plugins, held, stored>>
    BY <1>1 DEF ParseOptions, Umask, SetUid, SetGid, Daemonize, InitService, Early
  <2>2. process'.at \in Early \union {"plugins", "unbind", "exited"}
    BY <1>1 DEF ParseOptions, Umask, SetUid, SetGid, Daemonize, InitService, Early, Proceed, Exit,
       StartShape
  <2>3. QED
    BY <2>1, <2>2, BootStep
<1>2. CASE UNCHANGED startVars
  BY <1>2 DEF startVars, Plugins, Lifetime, LibraryOutlivesPlugin, NullsOrphan, Orphan, Claims
<1>3. QED
  BY <1>1, <1>2, OpenPluginStep, RunStep, EndStep DEF StartNext

\* The invariant holds in every reachable state.
THEOREM StartInvariant == StartSpec => []StartIInv
<1>1. StartInit => StartIInv
  <2> SUFFICES ASSUME StartInit PROVE StartIInv
    OBVIOUS
  <2>1. process.at = "parse" /\ process.next = 1
    BY DEF StartInit
  <2>2. StartShape
    BY DEF StartInit, StartShape, Early
  <2>3. Position
    BY <2>1, SMTT(30) DEF Position
  <2>4. Identity
    BY <2>1 DEF Identity
  <2>5. Plugins
    BY <2>1 DEF StartInit, Plugins, Lifetime, LibraryOutlivesPlugin, NullsOrphan, Claims
  <2>6. QED
    BY <2>2, <2>3, <2>4, <2>5 DEF StartIInv
<1>2. StartIInv /\ [StartNext]_startVars => StartIInv'
  BY IdentityStep, PositionStep, PluginsStep DEF StartIInv
<1>3. QED
  BY <1>1, <1>2, PTL DEF StartSpec

\* A daemon that serves has the identity its command line asks for (main.cpp).
THEOREM StartRunsAsAsked == StartSpec => []RunsAsAsked
<1>1. StartIInv => RunsAsAsked
  BY DEF StartIInv, Identity, RunsAsAsked
<1>2. QED
  BY <1>1, StartInvariant, PTL

\* No plugin object outlives its library (PluginManager.h, Cynara.cpp).
THEOREM StartLibraryOutlivesPlugin == StartSpec => []LibraryOutlivesPlugin
<1>1. StartIInv => LibraryOutlivesPlugin
  BY DEF StartIInv, Plugins, Lifetime
<1>2. QED
  BY <1>1, StartInvariant, PTL

\* A type that loaded libraries offer is served by the first of them, which is
\* loaded and offers it itself (PluginManager::openPlugin and getPlugin).
THEOREM StartFirstClaimWins == StartSpec => []FirstClaimWins
<1>1. ASSUME StartIInv, process.at = "run", NEW n \in libs, NEW t \in directory[n].types
      PROVE  /\ t \in DOMAIN plugins
             /\ plugins[t] \in libs \cap (1 .. n)
             /\ t \in directory[plugins[t]].types
  <2>1. t \in DOMAIN plugins
    BY <1>1 DEF StartIInv, Plugins, NullsOrphan, Late
  <2>2. plugins[t] \in 1 .. n
    BY <1>1, <2>1 DEF StartIInv, Plugins, Claims
  <2>3. plugins[t] # NullPlugin
    BY <1>1, <2>1 DEF StartIInv, Plugins, NullsOrphan, Late, Orphan
  <2>4. plugins[t] \in libs
    BY <1>1, <2>1, <2>3 DEF StartIInv, Plugins, Lifetime, LibraryOutlivesPlugin
  <2>5. QED
    BY <1>1, <2>1, <2>2, <2>3, <2>4 DEF StartIInv, Plugins, Claims
<1>2. StartIInv => FirstClaimWins
  BY <1>1 DEF FirstClaimWins
<1>3. QED
  BY <1>2, StartInvariant, PTL

\* A change of policies brings the daemon down only when the database it loaded
\* has a policy of a type that no plugin offers (PluginManager::invalidateAll).
THEOREM StartCrashNeedsOrphanType == StartSpec => []CrashNeedsOrphanType
<1>1. StartIInv => CrashNeedsOrphanType
  BY DEF StartIInv, Plugins, NullsOrphan, Orphan, CrashNeedsOrphanType
<1>2. QED
  BY <1>1, StartInvariant, PTL
=============================================================================
