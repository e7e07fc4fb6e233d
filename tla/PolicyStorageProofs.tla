------------------------ MODULE PolicyStorageProofs ------------------------
(***************************************************************************)
(* Proofs about PolicyStorage for all bucket names, keys, requests and     *)
(* filters: links resolve, the default bucket decides, an OK is saved, a   *)
(* refusal changes nothing, and an erase removes exactly what it should.   *)
(***************************************************************************)
EXTENDS PolicyStorage, TLAPS

\* Zenon proves a leaf that names no other prover; it may take its time.
USE ZenonT(40)

\* An erase is only under way on a loaded database and before its answer.
EraseUnderWay == erase.work # {} => ~dbCorrupted /\ reply.code = "PENDING"

\* The inductive invariant.  A failed request may make memory and disk differ,
\* so both databases have to be well formed on their own.
IInv == LinksResolve /\ DefaultBucketDecides /\ OkIsSaved /\ EraseUnderWay

\* The database of a first start is well formed.
LEMMA FreshDecides == Decides(Fresh) /\ Resolved(Fresh, {})
BY SMTT(30) DEF Decides, Fresh, Resolved, NoPolicy, DENY, NONE

\* Deleting policies keeps links resolved.
LEMMA FewerPolicies ==
  ASSUME NEW D, NEW P, NEW Q \in SUBSET P, Resolved(D, P)
  PROVE  Resolved(D, Q)
BY DEF Resolved

\* What onPoliciesChanged does, saved or not, with a well-formed database.
LEMMA CommitStep ==
  ASSUME IInv, NEW op, NEW D, NEW P, Resolved(D, P), Decides(D), ~dbCorrupted,
         Commit(op, D, P), erase'.work = {}
  PROVE  IInv'
<1>1. defaults' = D /\ policies' = P /\ dbCorrupted' = dbCorrupted
  BY DEF Commit
<1>2. /\ Database(D, P).defaults = D
      /\ Database(D, P).policies = P
  BY DEF Database
<1>3. disk' = disk \/ disk' = Database(D, P)
  BY DEF Commit
<1>4. LinksResolve'
  BY <1>1, <1>2, <1>3 DEF LinksResolve, Resolved, IInv
<1>5. DefaultBucketDecides'
  BY <1>1, <1>2, <1>3 DEF DefaultBucketDecides, Decides, IInv
<1>6. reply'.code = "OK" => disk' = Database(D, P)
  BY SMTT(30) DEF Commit
<1>7. OkIsSaved'
  BY <1>1, <1>6 DEF OkIsSaved, Database
<1>. QED
  BY <1>4, <1>5, <1>7 DEF IInv, EraseUnderWay

\* A request that leaves the database and the erase loop alone.
LEMMA RefuseStep ==
  ASSUME IInv, NEW op, NEW code, Refuse(op, code), code # "OK", erase.work = {}
  PROVE  IInv'
BY DEF IInv, Refuse, LinksResolve, Resolved, DefaultBucketDecides, Decides, OkIsSaved,
       EraseUnderWay, Database

\* Policies that are only removed from memory, with an error as the answer.
LEMMA PartialStep ==
  ASSUME IInv, Resolved(defaults, policies'), reply'.code # "OK", ~dbCorrupted,
         UNCHANGED <<defaults, disk, dbCorrupted>>, EraseUnderWay'
  PROVE  IInv'
BY DEF IInv, LinksResolve, Resolved, DefaultBucketDecides, Decides, OkIsSaved

\* Policies that passed the check of insertPolicies keep links resolved.
LEMMA InsertResolved ==
  ASSUME Resolved(defaults, policies), NEW new, Insertable(new), NEW places
  PROVE  Resolved(defaults, Without(Insert(policies, new), places))
BY DEF Resolved, Insertable, Insert, Without, HasBucket

\* SetPolicies keeps the invariant.
LEMMA SetPoliciesStep ==
  ASSUME IInv, NEW new, NEW gone, SetPolicies(new, gone)
  PROVE  IInv'
<1>1. erase.work = {} /\ ~dbCorrupted
  BY DEF SetPolicies, Serving
<1>2. Resolved(defaults, policies) /\ Decides(defaults)
  BY <1>1 DEF IInv, LinksResolve, DefaultBucketDecides
<1>3. CASE Refuse("set", "NO_POLICY_TYPE") \/ Refuse("set", "NO_BUCKET")
  BY <1>1, <1>3, RefuseStep
<1>4. CASE /\ Insertable(new)
           /\ Commit("set", defaults, Without(Insert(policies, new), gone))
           /\ UNCHANGED erase
  BY <1>1, <1>2, <1>4, InsertResolved, CommitStep
<1>5. CASE /\ Insertable(new)
           /\ \E before \in SUBSET {g.bucket : g \in {h \in gone : HasBucket(h.bucket)}} :
                policies' = Without(Insert(policies, new), {g \in gone : g.bucket \in before})
           /\ reply' = [op |-> "set", code |-> "NO_BUCKET"]
           /\ UNCHANGED <<defaults, disk, dbCorrupted, erase>>
  <2>1. Resolved(defaults, policies')
    BY <1>2, <1>5, InsertResolved
  <2>2. reply'.code # "OK" /\ EraseUnderWay'
    BY <1>1, <1>5 DEF EraseUnderWay
  <2>. QED
    BY <1>1, <1>5, <2>1, <2>2, PartialStep
<1>. QED
  BY <1>3, <1>4, <1>5 DEF SetPolicies

\* InsertOrUpdateBucket keeps the invariant.
LEMMA BucketStep ==
  ASSUME IInv, NEW b, NEW r, InsertOrUpdateBucket(b, r)
  PROVE  IInv'
<1>. DEFINE D == [c \in DOMAIN defaults \cup {b} |-> IF c = b THEN r ELSE defaults[c]]
<1>1. erase.work = {} /\ ~dbCorrupted
  BY DEF InsertOrUpdateBucket, Serving
<1>2. Resolved(defaults, policies) /\ Decides(defaults)
  BY <1>1 DEF IInv, LinksResolve, DefaultBucketDecides
<1>3. CASE Refuse("bucket", "NO_POLICY_TYPE") \/ Refuse("bucket", "NOT_ALLOWED")
  BY <1>1, <1>3, RefuseStep
<1>4. CASE ~(b = DefaultBucket /\ r = NoPolicy) /\ Commit("bucket", D, policies) /\ UNCHANGED erase
  <2>1. Resolved(D, policies)
    BY <1>2 DEF Resolved
  <2>2. Decides(D)
    BY <1>2, <1>4 DEF Decides
  <2>. HIDE DEF D
  <2>. QED
    BY <1>1, <1>4, <2>1, <2>2, CommitStep
<1>. QED
  BY <1>3, <1>4 DEF InsertOrUpdateBucket, Permitted

\* Nothing leads to a bucket that does not exist.
LEMMA NoLinksToMissing ==
  ASSUME Resolved(defaults, policies), NEW b, ~HasBucket(b)
  PROVE  DeleteLinking(b) = policies
BY DEF Resolved, HasBucket, DeleteLinking

\* RemoveBucket keeps the invariant.
LEMMA RemoveStep ==
  ASSUME IInv, NEW b, RemoveBucket(b)
  PROVE  IInv'
<1>. DEFINE D == [c \in DOMAIN defaults \ {b} |-> defaults[c]]
            P == {p \in DeleteLinking(b) : p.bucket # b}
<1>1. erase.work = {} /\ ~dbCorrupted
  BY DEF RemoveBucket, Serving
<1>2. Resolved(defaults, policies) /\ Decides(defaults)
  BY <1>1 DEF IInv, LinksResolve, DefaultBucketDecides
<1>3. CASE Refuse("remove", "NOT_ALLOWED")
  BY <1>1, <1>3, RefuseStep
<1>4. CASE /\ policies' = DeleteLinking(b)
           /\ reply' = [op |-> "remove", code |-> "NO_BUCKET"]
           /\ UNCHANGED <<defaults, disk, dbCorrupted, erase>>
  <2>1. Resolved(defaults, policies')
    BY <1>2, <1>4 DEF Resolved, DeleteLinking
  <2>2. reply'.code # "OK" /\ EraseUnderWay'
    BY <1>1, <1>4 DEF EraseUnderWay
  <2>. QED
    BY <1>1, <1>4, <2>1, <2>2, PartialStep
<1>5. CASE b # DefaultBucket /\ Commit("remove", D, P) /\ UNCHANGED erase
  <2>1. Resolved(D, P)
    BY <1>2 DEF Resolved, DeleteLinking
  <2>2. Decides(D)
    BY <1>2, <1>5 DEF Decides
  <2>. HIDE DEF D, P
  <2>. QED
    BY <1>1, <1>5, <2>1, <2>2, CommitStep
<1>. QED
  BY <1>3, <1>4, <1>5 DEF RemoveBucket

\* Every turn of the erase loop keeps the invariant.
LEMMA EraseBucketStep ==
  ASSUME IInv, NEW b, EraseBucket(b)
  PROVE  IInv'
<1>1. erase.work # {} /\ ~dbCorrupted /\ reply.code = "PENDING"
  BY DEF EraseBucket, IInv, EraseUnderWay
<1>2. Resolved(defaults, policies) /\ Decides(defaults)
  BY <1>1 DEF IInv, LinksResolve, DefaultBucketDecides
<1>3. Resolved(defaults, ErasedFrom(b))
  BY <1>2 DEF Resolved, ErasedFrom
<1>4. NoErase.work = {}
  BY DEF NoErase
<1>5. CASE /\ erase' = NoErase
           /\ reply' = [op |-> "erase", code |-> "NO_BUCKET"]
           /\ UNCHANGED <<defaults, policies, disk, dbCorrupted>>
  BY <1>1, <1>2, <1>4, <1>5, PartialStep DEF EraseUnderWay
<1>6. CASE /\ policies' = ErasedFrom(b)
           /\ UNCHANGED <<defaults, disk, dbCorrupted, reply>>
  BY <1>1, <1>3, <1>6, PartialStep DEF EraseUnderWay
<1>7. CASE Commit("erase", defaults, ErasedFrom(b)) /\ erase' = NoErase
  BY <1>1, <1>2, <1>3, <1>4, <1>7, CommitStep
<1>. QED
  BY <1>5, <1>6, <1>7 DEF EraseBucket

\* Initially the invariant holds.
LEMMA InitIInv == Init => IInv
<1>. SUFFICES ASSUME Init PROVE IInv
  OBVIOUS
<1>1. Database(Fresh, {}).defaults = Fresh /\ Database(Fresh, {}).policies = {}
  BY DEF Database
<1>2. NoErase.work = {}
  BY DEF NoErase
<1>3. LinksResolve
  BY <1>1, FreshDecides DEF Init, LinksResolve, Resolved
<1>4. DefaultBucketDecides
  BY <1>1, FreshDecides DEF Init, DefaultBucketDecides
<1>5. OkIsSaved
  BY DEF Init, OkIsSaved
<1>. QED
  BY <1>2, <1>3, <1>4, <1>5 DEF Init, IInv, EraseUnderWay

\* Every step keeps the invariant.
LEMMA NextIInv == IInv /\ [Next]_vars => IInv'
<1>. SUFFICES ASSUME IInv, [Next]_vars PROVE IInv'
  OBVIOUS
<1>1. ASSUME NEW op, Corrupted(op) PROVE IInv'
  BY <1>1, RefuseStep DEF Corrupted
<1>2. ASSUME NEW new \in Inserts, NEW gone \in Deletes, SetPolicies(new, gone) PROVE IInv'
  BY <1>2, SetPoliciesStep
<1>3. ASSUME NEW b \in BucketIds, NEW r \in DefaultResults, InsertOrUpdateBucket(b, r) PROVE IInv'
  BY <1>3, BucketStep
<1>4. ASSUME NEW b \in BucketIds, RemoveBucket(b) PROVE IInv'
  BY <1>4, RemoveStep
<1>5. ASSUME NEW b \in BucketIds, NEW recursive \in BOOLEAN, NEW filter \in Filters,
             Erase(b, recursive, filter)
      PROVE  IInv'
  <2>1. ~dbCorrupted /\ reply'.code = "PENDING" /\ UNCHANGED <<defaults, policies, disk, dbCorrupted>>
    BY <1>5 DEF Erase, Serving
  <2>. QED
    BY <2>1, PartialStep DEF IInv, LinksResolve, EraseUnderWay
<1>6. ASSUME NEW b \in BucketIds, EraseBucket(b) PROVE IInv'
  BY <1>6, EraseBucketStep
<1>7. CASE Restart
  <2>1. NoErase.work = {}
    BY DEF NoErase
  <2>2. LinksResolve' /\ DefaultBucketDecides'
    BY <1>7 DEF Restart, IInv, LinksResolve, Resolved, DefaultBucketDecides, Decides
  <2>3. OkIsSaved' /\ EraseUnderWay'
    BY <1>7, <2>1 DEF Restart, OkIsSaved, EraseUnderWay
  <2>. QED
    BY <2>2, <2>3 DEF IInv
<1>8. CASE UNCHANGED vars
  BY <1>8 DEF vars, IInv, LinksResolve, Resolved, DefaultBucketDecides, Decides, OkIsSaved,
              EraseUnderWay, Database
<1>. QED
  BY <1>1, <1>2, <1>3, <1>4, <1>5, <1>6, <1>7, <1>8 DEF Next

\* The inductive invariant holds in every reachable state.
THEOREM StorageInvariant == Spec => []IInv
BY InitIInv, NextIInv, PTL DEF Spec

\* Links resolve and the default bucket exists and decides, in memory and on the
\* disk, whatever requests are served, fail or are cut short by a restart
\* (insertPolicies, deleteLinking).
THEOREM StorageDatabaseSound == Spec => []DatabaseSound
<1>1. IInv => DatabaseSound
  BY DEF IInv, DatabaseSound
<1>. QED
  BY <1>1, StorageInvariant, PTL

\* A request answered OK is on the disk, and an unreadable database is never
\* overwritten (onPoliciesChanged, m_dbCorrupted).
THEOREM StorageOkIsSaved == Spec => []OkIsSaved
<1>1. IInv => OkIsSaved
  BY DEF IInv
<1>. QED
  BY <1>1, StorageInvariant, PTL

\* A refused request changes nothing; for RemoveBucket of a missing bucket this
\* rests on LinksResolve.
THEOREM StorageRefusedUnchanged == Spec => RefusedUnchanged
<1>. DEFINE Refused == reply'.code \in Refusals \/ (reply'.op = "remove" /\ reply'.code = "NO_BUCKET")
            Same == UNCHANGED <<defaults, policies, disk>>
<1>1. IInv /\ [Next]_vars => (UNCHANGED vars \/ (Refused => Same))
  <2>. SUFFICES ASSUME IInv, Next PROVE Refused => Same
    BY DEF vars
  <2>1. ASSUME NEW op, NEW code, Refuse(op, code) PROVE Same
    BY <2>1 DEF Refuse
  <2>2. ASSUME NEW op, NEW D, NEW P, Commit(op, D, P) PROVE ~Refused
    BY <2>2, SMTT(30) DEF Commit, Refusals
  <2>3. ASSUME NEW op, Corrupted(op) PROVE Same
    BY <2>1, <2>3 DEF Corrupted
  <2>4. ASSUME NEW new, NEW gone, SetPolicies(new, gone) PROVE Refused => Same
    <3>1. CASE reply' = [op |-> "set", code |-> "NO_BUCKET"]  /\ ~Refuse("set", "NO_BUCKET")
      BY <3>1 DEF Refusals
    <3>. QED
      BY <2>1, <2>2, <2>4, <3>1 DEF SetPolicies
  <2>5. ASSUME NEW b, NEW r, InsertOrUpdateBucket(b, r) PROVE Refused => Same
    BY <2>1, <2>2, <2>5 DEF InsertOrUpdateBucket
  <2>6. ASSUME NEW b, RemoveBucket(b) PROVE Refused => Same
    <3>1. CASE b # DefaultBucket /\ ~HasBucket(b)
      BY <2>6, <3>1, NoLinksToMissing DEF RemoveBucket, IInv, LinksResolve
    <3>. QED
      BY <2>1, <2>2, <2>6, <3>1 DEF RemoveBucket
  <2>7. ASSUME NEW b, NEW recursive, NEW filter, Erase(b, recursive, filter) PROVE Refused => Same
    BY <2>7 DEF Erase
  <2>8. ASSUME NEW b, EraseBucket(b) PROVE Refused => Same
    <3>1. reply.code = "PENDING"
      BY <2>8 DEF EraseBucket, IInv, EraseUnderWay
    <3>. QED
      BY <2>2, <2>8, <3>1 DEF EraseBucket, Refusals
  <2>9. CASE Restart
    BY <2>9 DEF Restart, Refusals
  <2>. QED
    BY <2>3, <2>4, <2>5, <2>6, <2>7, <2>8, <2>9 DEF Next
<1>. QED
  BY <1>1, StorageInvariant, PTL DEF Spec, RefusedUnchanged

-----------------------------------------------------------------------------
\* The buckets from which nothing is left to erase.
Clean == {b \in erase.nested : \A p \in policies : p.bucket = b => ~MatchFilter(p.key, erase.filter)}

\* S contains, with a bucket, the buckets that erasePolicies goes on to.
Closed(S) == erase.recursive => \A b \in S : SubBuckets(b) \subseteq S

\* What holds between two turns of the erase loop.  It deletes the links it has
\* followed, so a bucket it has yet to visit may no longer be nested in the start
\* bucket, but then it is nested in one that waits to be visited.
EraseCovers ==
  erase.work # {} =>
    /\ erase.work \subseteq erase.nested /\ Closed(erase.nested)
    /\ \A S \in SUBSET erase.nested : erase.work \subseteq S /\ Closed(S) => erase.nested \subseteq S \cup Clean
    /\ erase.nested \subseteq DOMAIN defaults \/ erase.nested \cap DOMAIN defaults = {}

\* An erase begins with its start bucket to be visited.
LEMMA EraseBegins ==
  ASSUME IInv, NEW b, NEW recursive \in BOOLEAN, NEW filter, Erase(b, recursive, filter)
  PROVE  EraseCovers'
<1>. DEFINE reach == DOMAIN defaults \cup {b}
            within(S) == \A d \in S : SubBuckets(d) \subseteq S
<1>1. /\ erase'.work = {b} /\ erase'.recursive = recursive
      /\ erase'.nested = IF recursive THEN Nested(b) ELSE {b}
      /\ UNCHANGED <<defaults, policies>>
  BY DEF Erase
<1>2. \A d : SubBuckets(d)' = SubBuckets(d) /\ SubBuckets(d) \subseteq DOMAIN defaults
  BY <1>1 DEF SubBuckets, IInv, LinksResolve, Resolved
<1>3. ~HasBucket(b) => SubBuckets(b) = {}
  BY DEF SubBuckets, IInv, LinksResolve, Resolved, HasBucket
<1>4. /\ b \in Nested(b) /\ Nested(b) \subseteq reach
      /\ \A S \in SUBSET reach : b \in S /\ within(S) => Nested(b) \subseteq S
  BY DEF Nested
<1>5. within(Nested(b))
  <2>1. SUFFICES ASSUME NEW d \in Nested(b), NEW e \in SubBuckets(d) PROVE e \in Nested(b)
    OBVIOUS
  <2>2. ASSUME NEW S \in SUBSET reach, b \in S, within(S) PROVE e \in S
    BY <1>4, <2>1, <2>2
  <2>. QED
    BY <1>2, <2>1, <2>2 DEF Nested
<1>6. HasBucket(b) => reach \subseteq DOMAIN defaults
  BY DEF HasBucket
<1>7. ~HasBucket(b) => Nested(b) \subseteq {b} /\ b \notin DOMAIN defaults
  BY <1>3, <1>4 DEF HasBucket
<1>. HIDE DEF reach, within
<1>8. CASE recursive
  <2>1. erase'.nested = Nested(b)
    BY <1>1, <1>8
  <2>2. \A S : Closed(S)' <=> within(S)
    BY <1>1, <1>2, <1>8 DEF Closed, within
  <2>3. \A S \in SUBSET Nested(b) : b \in S /\ within(S) => Nested(b) \subseteq S
    BY <1>4
  <2>. QED
    BY <1>1, <1>4, <1>5, <1>6, <1>7, <2>1, <2>2, <2>3, SMTT(30) DEF EraseCovers
<1>9. CASE ~recursive
  <2>1. erase'.nested = {b} /\ \A S : Closed(S)'
    BY <1>1, <1>9 DEF Closed
  <2>. QED
    BY <1>1, <2>1 DEF EraseCovers
<1>. QED
  BY <1>8, <1>9

\* A turn of the loop leaves fewer policies and fewer links.
LEMMA TurnShrinks ==
  ASSUME NEW b, policies' = ErasedFrom(b), erase'.filter = erase.filter, erase'.recursive = erase.recursive,
         erase'.nested = erase.nested
  PROVE  /\ \A c : SubBuckets(c)' \subseteq SubBuckets(c) /\ (c # b => SubBuckets(c)' = SubBuckets(c))
         /\ Clean \cup ({b} \cap erase.nested) \subseteq Clean'
<1>1. \A p : p \in policies' <=> p \in policies /\ ~(p.bucket = b /\ MatchFilter(p.key, erase.filter))
  BY DEF ErasedFrom
<1>2. \A c : SubBuckets(c)' = {p.result.meta : p \in {q \in policies' : q.bucket = c /\ IsLink(q.result)}}
  BY DEF SubBuckets
<1>. QED
  BY <1>1, <1>2 DEF SubBuckets, Clean

\* A turn of the loop that is not the last.
LEMMA EraseGoesOn ==
  ASSUME EraseCovers, NEW b \in erase.work, WorkAfter(b) # {}, policies' = ErasedFrom(b),
         erase' = [erase EXCEPT !.work = WorkAfter(b)], UNCHANGED defaults,
         DOMAIN erase = {"work", "filter", "recursive", "nested"}
  PROVE  EraseCovers'
<1>1. /\ erase'.work = WorkAfter(b) /\ erase'.filter = erase.filter
      /\ erase'.recursive = erase.recursive /\ erase'.nested = erase.nested
  OBVIOUS
<1>2. /\ \A c : SubBuckets(c)' \subseteq SubBuckets(c) /\ (c # b => SubBuckets(c)' = SubBuckets(c))
      /\ Clean \cup ({b} \cap erase.nested) \subseteq Clean'
  BY <1>1, TurnShrinks
<1>3. /\ erase.work \subseteq erase.nested /\ Closed(erase.nested)
      /\ \A S \in SUBSET erase.nested : erase.work \subseteq S /\ Closed(S) => erase.nested \subseteq S \cup Clean
  BY DEF EraseCovers
<1>4. erase'.work \subseteq erase'.nested /\ Closed(erase.nested)'
  BY <1>1, <1>2, <1>3 DEF WorkAfter, Closed
<1>5. ASSUME NEW S \in SUBSET erase.nested, erase'.work \subseteq S, Closed(S)'
      PROVE  erase.nested \subseteq S \cup Clean'
  <2>. DEFINE T == S \cup {b}
  <2>1. T \in SUBSET erase.nested /\ erase.work \subseteq T
    BY <1>1, <1>3, <1>5 DEF WorkAfter
  <2>2. Closed(T)
    BY <1>1, <1>2, <1>5 DEF WorkAfter, Closed
  <2>3. erase.nested \subseteq T \cup Clean
    BY <1>3, <2>1, <2>2
  <2>. QED
    BY <1>2, <1>3, <2>3
<1>. QED
  BY <1>1, <1>4, <1>5 DEF EraseCovers

EraseFields == DOMAIN erase = {"work", "filter", "recursive", "nested"}
EraseInv == IInv /\ EraseFields /\ EraseCovers

\* The fields of an erase that is not under way.
LEMMA NoEraseFields == DOMAIN NoErase = {"work", "filter", "recursive", "nested"} /\ NoErase.work = {}
BY DEF NoErase

\* No other request is served during an erase, so only the erase itself changes
\* what it covers.
LEMMA EraseInvStep == EraseInv /\ [Next]_vars => EraseInv'
<1>. SUFFICES ASSUME EraseInv, [Next]_vars PROVE EraseInv'
  OBVIOUS
<1>1. IInv'
  BY NextIInv DEF EraseInv
<1>2. ASSUME erase.work = {}, UNCHANGED erase PROVE EraseFields' /\ EraseCovers'
  BY <1>2 DEF EraseInv, EraseFields, EraseCovers
<1>3. ASSUME erase' = NoErase PROVE EraseFields' /\ EraseCovers'
  BY <1>3, NoEraseFields DEF EraseFields, EraseCovers
<1>4. ASSUME NEW op, NEW code, Refuse(op, code), erase.work = {} PROVE EraseFields' /\ EraseCovers'
  BY <1>2, <1>4 DEF Refuse
<1>5. ASSUME NEW op, Corrupted(op) PROVE EraseFields' /\ EraseCovers'
  BY <1>4, <1>5 DEF Corrupted
<1>6. ASSUME NEW new, NEW gone, SetPolicies(new, gone) PROVE EraseFields' /\ EraseCovers'
  BY <1>2, <1>4, <1>6 DEF SetPolicies, Serving
<1>7. ASSUME NEW b, NEW r, InsertOrUpdateBucket(b, r) PROVE EraseFields' /\ EraseCovers'
  BY <1>2, <1>4, <1>7 DEF InsertOrUpdateBucket, Serving
<1>8. ASSUME NEW b, RemoveBucket(b) PROVE EraseFields' /\ EraseCovers'
  BY <1>2, <1>4, <1>8 DEF RemoveBucket, Serving
<1>9. ASSUME NEW b, NEW recursive \in BOOLEAN, NEW filter, Erase(b, recursive, filter)
      PROVE  EraseFields' /\ EraseCovers'
  BY <1>9, EraseBegins DEF EraseInv, EraseFields, Erase
<1>10. ASSUME NEW b, EraseBucket(b) PROVE EraseFields' /\ EraseCovers'
  <2>1. CASE erase' = NoErase
    BY <1>3, <2>1
  <2>2. CASE /\ WorkAfter(b) # {} /\ policies' = ErasedFrom(b)
             /\ erase' = [erase EXCEPT !.work = WorkAfter(b)]
             /\ UNCHANGED defaults
    <3>1. b \in erase.work
      BY <1>10 DEF EraseBucket
    <3>. QED
      BY <2>2, <3>1, EraseGoesOn DEF EraseInv, EraseFields
  <2>. QED
    BY <1>10, <2>1, <2>2 DEF EraseBucket
<1>11. CASE Restart
  BY <1>1, <1>3, <1>11 DEF Restart, EraseInv
<1>12. CASE UNCHANGED vars
  <2>1. \A b : SubBuckets(b)' = SubBuckets(b)
    BY <1>12 DEF vars, SubBuckets
  <2>2. Clean' = Clean /\ \A S : Closed(S)' <=> Closed(S)
    BY <1>12, <2>1 DEF vars, Clean, Closed
  <2>. QED
    BY <1>1, <1>12, <2>2 DEF vars, EraseInv, EraseFields, EraseCovers
<1>. QED
  BY <1>1, <1>5, <1>6, <1>7, <1>8, <1>9, <1>10, <1>11, <1>12 DEF Next, EraseInv

\* An erase that ends without an error leaves nothing that matches its filter in
\* the buckets nested in its start bucket, at any depth and although it deletes the
\* links on its way; it removes nothing else, and fails only if its start
\* bucket does not exist (erasePolicies).
THEOREM StorageEraseExact == Spec => EraseExact
<1>1. Init => EraseInv
  BY InitIInv, NoEraseFields DEF Init, EraseInv, EraseFields, EraseCovers
<1>2. EraseInv /\ [Next]_vars =>
        (UNCHANGED vars \/
         (erase.work # {} /\ reply'.op = "erase" =>
            /\ reply'.code \in {"OK", "FAILED", "LINK_CLOSED"} =>
                 \A p \in policies' : p.bucket \in erase.nested => ~MatchFilter(p.key, erase.filter)
            /\ \A p \in policies \ policies' :
                 p.bucket \in erase.nested /\ MatchFilter(p.key, erase.filter)
            /\ reply'.code = "NO_BUCKET" => erase.nested \cap DOMAIN defaults = {}))
  <2>. SUFFICES ASSUME EraseInv, Next, erase.work # {}, reply'.op = "erase"
                PROVE  /\ reply'.code \in {"OK", "FAILED", "LINK_CLOSED"} =>
                            \A p \in policies' : p.bucket \in erase.nested => ~MatchFilter(p.key, erase.filter)
                       /\ \A p \in policies \ policies' :
                            p.bucket \in erase.nested /\ MatchFilter(p.key, erase.filter)
                       /\ reply'.code = "NO_BUCKET" => erase.nested \cap DOMAIN defaults = {}
    OBVIOUS
  <2>1. PICK b \in BucketIds : EraseBucket(b)
    <3>1. ~Restart
      BY SMTT(30) DEF Restart
    <3>. QED
      BY <3>1 DEF Next, Corrupted, SetPolicies, InsertOrUpdateBucket, RemoveBucket, Erase, Serving
  <2>2. reply.code = "PENDING" /\ b \in erase.work /\ b \in erase.nested
    BY <2>1 DEF EraseInv, IInv, EraseUnderWay, EraseBucket, EraseCovers
  <2>3. CASE ~HasBucket(b) /\ reply' = [op |-> "erase", code |-> "NO_BUCKET"] /\ UNCHANGED policies
    BY <2>2, <2>3 DEF EraseInv, EraseCovers, HasBucket
  <2>4. CASE policies' = ErasedFrom(b) /\ UNCHANGED reply
    BY <2>2, <2>4 DEF ErasedFrom
  <2>5. CASE WorkAfter(b) = {} /\ Commit("erase", defaults, ErasedFrom(b))
    <3>1. policies' = ErasedFrom(b) /\ reply'.code # "NO_BUCKET"
      BY <2>5, SMTT(30) DEF Commit
    <3>2. erase.nested \subseteq {b} \cup Clean
      <4>1. erase.work \subseteq {b} /\ Closed({b})
        BY <2>5 DEF WorkAfter, Closed
      <4>. QED
        BY <2>2, <4>1 DEF EraseInv, EraseCovers
    <3>. QED
      BY <2>2, <3>1, <3>2 DEF ErasedFrom, Clean
  <2>. QED
    BY <2>1, <2>3, <2>4, <2>5 DEF EraseBucket
<1>. QED
  BY <1>1, <1>2, EraseInvStep, PTL DEF Spec, EraseExact
=============================================================================
