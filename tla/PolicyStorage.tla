--------------------------- MODULE PolicyStorage ---------------------------
(***************************************************************************)
(* The policy database of the cynara daemon: Storage and                   *)
(* InMemoryStorageBackend with their PolicyBuckets, and the handlers of    *)
(* Logic that change them on behalf of the administrator.  A database is   *)
(* the default policy of each existing bucket and the policies kept in the *)
(* buckets.  The daemon is single threaded, so a handler is one action;    *)
(* only the loop of erasePolicies is taken one bucket per step, because it *)
(* need not end.  StorageIntegrity models the files behind the variable    *)
(* disk.                                                                   *)
(***************************************************************************)
EXTENDS Naturals, FiniteSets

CONSTANTS
  BucketIds,      \* names an administrator may use for buckets
  DefaultBucket,  \* defaultPolicyBucketId
  InvalidIds,     \* names PolicyBucket::idValidator rejects
  Features,       \* names of clients, users and privileges
  PluginTypes,    \* policy types the loaded plugins support
  OtherTypes,     \* policy types nobody supports
  NoMeta,         \* empty metadata
  Inserts,        \* sets of policies one SetPolicies request may carry
  Deletes,        \* sets of policies (bucket and key) it may ask to remove
  DefaultResults, \* default policies an InsertOrUpdateBucket request may carry
  Filters,        \* filters of an Erase request
  MaxPolicies     \* bound: policies in the database

DENY == 0
NONE == 1
BUCKET == 65534
ALLOW == 65535
Wildcard == "*"
Any == "#"

PolicyTypes == {DENY, NONE, BUCKET, ALLOW} \cup PluginTypes \cup OtherTypes
Results == [type : PolicyTypes, meta : BucketIds \cup {NoMeta}]
Keys == (Features \cup {Wildcard}) \X (Features \cup {Wildcard}) \X (Features \cup {Wildcard})
Policies == [bucket : BucketIds, key : Keys, result : Results]
Places == [bucket : BucketIds, key : Keys]
FilterKeys == LET F == Features \cup {Wildcard, Any} IN F \X F \X F
NoPolicy == [type |-> NONE, meta |-> NoMeta]

ASSUME StorageAssumption ==
  /\ DefaultBucket \in BucketIds /\ DefaultBucket \notin InvalidIds
  /\ NoMeta \notin BucketIds
  /\ PluginTypes \subseteq 2 .. 65533 /\ OtherTypes \subseteq 2 .. 65533
  /\ PluginTypes \cap OtherTypes = {}
  /\ Inserts \subseteq SUBSET Policies /\ Deletes \subseteq SUBSET Places
  /\ DefaultResults \subseteq Results /\ Filters \subseteq FilterKeys

VARIABLES
  defaults,     \* default policy of every bucket that exists
  policies,     \* the policies in the buckets
  disk,         \* the database a restart would load
  dbCorrupted,  \* Logic::m_dbCorrupted
  erase,        \* the Erase request being processed and its bucketIds
  reply         \* the last request and the code it was answered, or LINK_CLOSED

vars == <<defaults, policies, disk, dbCorrupted, erase, reply>>

Database(D, P) == [defaults |-> D, policies |-> P]
Fresh == [b \in {DefaultBucket} |-> [type |-> DENY, meta |-> NoMeta]]
NoErase == [work |-> {}, filter |-> <<Any, Any, Any>>, recursive |-> FALSE, nested |-> {}]

-----------------------------------------------------------------------------
\* InMemoryStorageBackend::hasBucket.
HasBucket(b) == b \in DOMAIN defaults

IsLink(r) == r.type = BUCKET

\* PolicyKey::matchFilter.
MatchFilter(key, filter) == \A i \in 1 .. 3 : filter[i] \in {Any, key[i]}

\* PolicyKeyHelpers::keyVariants: each feature itself or the wildcard.
KeyVariants(key) == {Wildcard, key[1]} \X {Wildcard, key[2]} \X {Wildcard, key[3]}

\* PolicyBucket::getSubBuckets.
SubBuckets(b) == {p.result.meta : p \in {q \in policies : q.bucket = b /\ IsLink(q.result)}}

\* PolicyBucket::filtered: the results kept in bucket b for key k.
Filtered(b, k) == {p.result : p \in {q \in policies : q.bucket = b /\ q.key \in KeyVariants(k)}}

\* PolicyBucket::insertPolicy replaces a policy with the same key.
Insert(P, new) == {p \in P : \A n \in new : n.bucket # p.bucket \/ n.key # p.key} \cup new

Without(P, places) == {p \in P : [bucket |-> p.bucket, key |-> p.key] \notin places}

\* Logic::checkSinglePolicyType; BUCKET is always allowed.
KnownType(type, allowNone) ==
  type \in {BUCKET, ALLOW, DENY} \cup PluginTypes \cup (IF allowNone THEN {NONE} ELSE {})

\* Storage::minimalPolicy, down to depth n of nested buckets.  A bucket whose
\* result is NONE has no say; a bucket without candidates gives its default.
MinimalPolicy(k, depth) ==
  LET minimal[n \in 0 .. depth] ==
        [b \in DOMAIN defaults |->
           LET found == Filtered(b, k)
               candidates ==
                 {r \in found : ~IsLink(r)}
                   \cup (IF n = 0 THEN {}
                         ELSE {minimal[n - 1][r.meta] : r \in {s \in found : IsLink(s)}} \ {NoPolicy})
           IN IF candidates = {} THEN defaults[b]
              ELSE CHOOSE r \in candidates : \A s \in candidates : r.type <= s.type]
  IN minimal[depth]

\* Mutant: links are followed one level deep.
CheckPolicyShallow(b, k, recursive) == MinimalPolicy(k, IF recursive THEN 1 ELSE 0)[b]

\* Storage::checkPolicy; links nest at most as deep as there are buckets
\* unless they form a cycle, on which the code recurses without end.
CheckPolicy(b, k, recursive) ==
  MinimalPolicy(k, IF recursive THEN Cardinality(DOMAIN defaults) ELSE 0)[b]

-----------------------------------------------------------------------------
\* A request answered without a change.
Refuse(op, code) ==
  /\ reply' = [op |-> op, code |-> code]
  /\ UNCHANGED <<defaults, policies, disk, dbCorrupted, erase>>

\* Mutant: a change is acknowledged without saving it.
CommitUnsaved(op, D, P) ==
  /\ defaults' = D /\ policies' = P
  /\ reply' = [op |-> op, code |-> "OK"]
  /\ UNCHANGED <<disk, dbCorrupted>>

\* Logic::onPoliciesChanged after the database in memory became D and P.  A
\* failed save may leave the old or the new database on the disk.  The handlers
\* catch a DatabaseException and answer FAILED; the UnexpectedErrorException of a
\* system call that fails in Integrity gets past them, and SocketManager closes
\* the link without an answer.
Commit(op, D, P) ==
  /\ defaults' = D /\ policies' = P
  /\ \/ disk' = Database(D, P) /\ reply' = [op |-> op, code |-> "OK"]
     \/ /\ disk' \in {disk, Database(D, P)}
        /\ \E code \in {"FAILED", "LINK_CLOSED"} : reply' = [op |-> op, code |-> code]
  /\ UNCHANGED dbCorrupted

\* Every handler that changes policies first looks at m_dbCorrupted.
Corrupted(op) == erase.work = {} /\ dbCorrupted /\ Refuse(op, "DB_CORRUPTED")
Serving == erase.work = {} /\ ~dbCorrupted

\* Mutant: only the buckets the policies go to are looked for.
InsertableAnyLink(new) == \A p \in new : HasBucket(p.bucket)

\* Storage::insertPolicies checks every bucket named before it inserts.
Insertable(new) ==
  \A p \in new : HasBucket(p.bucket) /\ (IsLink(p.result) => HasBucket(p.result.meta))

\* Logic::execute(SetPoliciesRequest): insertPolicies, then deletePolicies,
\* which stops at the first bucket that does not exist; what was inserted and
\* deleted before stays in memory and is not saved.
SetPolicies(new, gone) ==
  /\ Serving
  /\ Cardinality(Insert(policies, new)) <= MaxPolicies
  /\ \/ /\ \E p \in new : ~KnownType(p.result.type, FALSE)
        /\ Refuse("set", "NO_POLICY_TYPE")
     \/ /\ \A p \in new : KnownType(p.result.type, FALSE)
        /\ ~Insertable(new)
        /\ Refuse("set", "NO_BUCKET")
     \/ /\ \A p \in new : KnownType(p.result.type, FALSE)
        /\ Insertable(new)
        /\ \A g \in gone : HasBucket(g.bucket)
        /\ Commit("set", defaults, Without(Insert(policies, new), gone))
        /\ UNCHANGED erase
     \/ /\ \A p \in new : KnownType(p.result.type, FALSE)
        /\ Insertable(new)
        /\ \E g \in gone : ~HasBucket(g.bucket)
        /\ \E before \in SUBSET {g.bucket : g \in {h \in gone : HasBucket(h.bucket)}} :
             policies' = Without(Insert(policies, new), {g \in gone : g.bucket \in before})
        /\ reply' = [op |-> "set", code |-> "NO_BUCKET"]
        /\ UNCHANGED <<defaults, disk, dbCorrupted, erase>>

\* Storage::addOrUpdateBucket refuses to leave the default bucket without a
\* decision; PolicyBucket::idValidator refuses some names for new buckets.
Permitted(b, r) ==
  ~(b = DefaultBucket /\ r = NoPolicy) /\ (HasBucket(b) \/ b \notin InvalidIds)

\* Logic::execute(InsertOrUpdateBucketRequest).
InsertOrUpdateBucket(b, r) ==
  /\ Serving
  /\ \/ ~KnownType(r.type, TRUE) /\ Refuse("bucket", "NO_POLICY_TYPE")
     \/ KnownType(r.type, TRUE) /\ ~Permitted(b, r) /\ Refuse("bucket", "NOT_ALLOWED")
     \/ /\ KnownType(r.type, TRUE) /\ Permitted(b, r)
        /\ Commit("bucket",
                  [c \in DOMAIN defaults \cup {b} |-> IF c = b THEN r ELSE defaults[c]],
                  policies)
        /\ UNCHANGED erase

\* Mutant: links to a removed bucket stay.
DeleteLinkingNone(b) == policies

\* InMemoryStorageBackend::deleteLinking.
DeleteLinking(b) == {p \in policies : ~(IsLink(p.result) /\ p.result.meta = b)}

\* Logic::execute(RemoveBucketRequest), Storage::deleteBucket: the links to
\* the bucket go first, before the code finds out whether it exists.
RemoveBucket(b) ==
  /\ Serving
  /\ \/ b = DefaultBucket /\ Refuse("remove", "NOT_ALLOWED")
     \/ /\ b # DefaultBucket /\ ~HasBucket(b)
        /\ policies' = DeleteLinking(b)
        /\ reply' = [op |-> "remove", code |-> "NO_BUCKET"]
        /\ UNCHANGED <<defaults, disk, dbCorrupted, erase>>
     \/ /\ b # DefaultBucket /\ HasBucket(b)
        /\ Commit("remove", [c \in DOMAIN defaults \ {b} |-> defaults[c]],
                  {p \in DeleteLinking(b) : p.bucket # b})
        /\ UNCHANGED erase

\* The buckets a recursive erase of bucket b is meant to visit: those in every
\* set that contains b and, with a bucket, the buckets it links to.
Nested(b) ==
  LET reach == DOMAIN defaults \cup {b} IN
  {c \in reach : \A S \in SUBSET reach : b \in S /\ (\A d \in S : SubBuckets(d) \subseteq S) => c \in S}

\* Logic::execute(EraseRequest) enters InMemoryStorageBackend::erasePolicies;
\* nested is auxiliary.
Erase(b, recursive, filter) ==
  /\ Serving
  /\ erase' = [work |-> {b}, filter |-> filter, recursive |-> recursive,
               nested |-> IF recursive THEN Nested(b) ELSE {b}]
  /\ reply' = [op |-> "erase", code |-> "PENDING"]
  /\ UNCHANGED <<defaults, policies, disk, dbCorrupted>>

\* Mutants: sub-buckets are read after the deletion; a visited bucket stays.
WorkAfterDeletion(b) ==
  (erase.work \ {b}) \cup
  {p.result.meta : p \in {q \in policies : /\ erase.recursive /\ q.bucket = b /\ IsLink(q.result)
                                           /\ ~MatchFilter(q.key, erase.filter)}}
WorkAfterAgain(b) == erase.work

\* The buckets left to visit after b.
WorkAfter(b) == (erase.work \ {b}) \cup (IF erase.recursive THEN SubBuckets(b) ELSE {})

ErasedFrom(b) == {p \in policies : ~(p.bucket = b /\ MatchFilter(p.key, erase.filter))}

\* One turn of the loop; the last one ends with onPoliciesChanged.
EraseBucket(b) ==
  /\ b \in erase.work
  /\ \/ /\ ~HasBucket(b)
        /\ erase' = NoErase
        /\ reply' = [op |-> "erase", code |-> "NO_BUCKET"]
        /\ UNCHANGED <<defaults, policies, disk, dbCorrupted>>
     \/ /\ HasBucket(b) /\ WorkAfter(b) # {}
        /\ policies' = ErasedFrom(b)
        /\ erase' = [erase EXCEPT !.work = WorkAfter(b)]
        /\ UNCHANGED <<defaults, disk, dbCorrupted, reply>>
     \/ /\ HasBucket(b) /\ WorkAfter(b) = {}
        /\ Commit("erase", defaults, ErasedFrom(b))
        /\ erase' = NoErase

\* The process dies at any time and Logic::loadDb reads the disk again.
Restart ==
  /\ ~dbCorrupted
  /\ defaults' = disk.defaults /\ policies' = disk.policies
  /\ erase' = NoErase
  /\ reply' = [op |-> "none", code |-> "NONE"]
  /\ UNCHANGED <<disk, dbCorrupted>>

-----------------------------------------------------------------------------
\* InMemoryStorageBackend::load: a database that cannot be read leaves no
\* bucket at all; one without the default bucket gets it.
Init ==
  /\ dbCorrupted \in BOOLEAN
  /\ defaults = IF dbCorrupted THEN [b \in {} |-> NoPolicy] ELSE Fresh
  /\ policies = {}
  /\ disk = Database(Fresh, {})
  /\ erase = NoErase
  /\ reply = [op |-> "none", code |-> "NONE"]

Next ==
  \/ \E op \in {"set", "bucket", "remove", "erase"} : Corrupted(op)
  \/ \E new \in Inserts, gone \in Deletes : SetPolicies(new, gone)
  \/ \E b \in BucketIds, r \in DefaultResults : InsertOrUpdateBucket(b, r)
  \/ \E b \in BucketIds : RemoveBucket(b)
  \/ \E b \in BucketIds, recursive \in BOOLEAN, filter \in Filters : Erase(b, recursive, filter)
  \/ \E b \in BucketIds : EraseBucket(b)
  \/ Restart

Spec == Init /\ [][Next]_vars

\* The thread that erases goes on.
FairSpec == Spec /\ WF_vars(\E b \in BucketIds : EraseBucket(b))

-----------------------------------------------------------------------------
WellFormed(D, P) ==
  /\ DOMAIN D \subseteq BucketIds /\ D \in [DOMAIN D -> Results]
  /\ P \subseteq Policies

\* The state has the shape the C++ declarations give it, and a bucket keeps
\* one policy per key.
TypeOK ==
  /\ WellFormed(defaults, policies) /\ WellFormed(disk.defaults, disk.policies)
  /\ dbCorrupted \in BOOLEAN
  /\ erase \in [work : SUBSET BucketIds, filter : FilterKeys, recursive : BOOLEAN,
                nested : SUBSET BucketIds]
  /\ \A p, q \in policies : p.bucket = q.bucket /\ p.key = q.key => p = q

\* Every policy lies in a bucket that exists and every link leads to one.
Resolved(D, P) ==
  \A p \in P : p.bucket \in DOMAIN D /\ (IsLink(p.result) => p.result.meta \in DOMAIN D)

\* No policy points to a bucket that is gone, in memory and in what a restart
\* loads, whatever sequence of requests was served, failed or cut short: a
\* check that follows a link never ends in BucketNotExistsException.
\* insertPolicies and deleteBucket keep this together.
LinksResolve == Resolved(defaults, policies) /\ Resolved(disk.defaults, disk.policies)

Decides(D) == DefaultBucket \in DOMAIN D /\ D[DefaultBucket] # NoPolicy

\* The default bucket is never lost and never without a decision, in memory or
\* on the disk (Storage::addOrUpdateBucket, Storage::deleteBucket).
DefaultBucketDecides == (~dbCorrupted => Decides(defaults)) /\ Decides(disk.defaults)

\* So checkPolicy always comes to a decision, now and after a restart.
DatabaseSound == LinksResolve /\ DefaultBucketDecides

\* A request answered OK is on the disk; memory runs ahead of the disk only
\* after a request that was answered with an error or not at all, and never when
\* the database could not be loaded.
OkIsSaved ==
  /\ reply.code = "OK" => disk = Database(defaults, policies)
  /\ dbCorrupted => disk = Database(Fresh, {})

Refusals == {"NOT_ALLOWED", "NO_POLICY_TYPE", "DB_CORRUPTED"}

\* A refused request changes nothing.  RemoveBucket deletes links before it
\* finds that the bucket does not exist, but then there are none; only
\* SetPolicies may answer NO_BUCKET after it changed the database in memory.
RefusedUnchanged ==
  [][reply'.code \in Refusals \/ (reply'.op = "remove" /\ reply'.code = "NO_BUCKET")
       => UNCHANGED <<defaults, policies, disk>>]_vars

\* A recursive erase that ends removed every policy that matches the filter
\* from every bucket nested in the start bucket when it began, although it
\* deletes the links it follows; no step removes anything else; and it fails
\* with NO_BUCKET only if the start bucket did not exist.
EraseExact ==
  [][erase.work # {} /\ reply'.op = "erase" =>
       /\ reply'.code \in {"OK", "FAILED", "LINK_CLOSED"} =>
            \A p \in policies' : p.bucket \in erase.nested => ~MatchFilter(p.key, erase.filter)
       /\ \A p \in policies \ policies' :
            p.bucket \in erase.nested /\ MatchFilter(p.key, erase.filter)
       /\ reply'.code = "NO_BUCKET" => erase.nested \cap DOMAIN defaults = {}]_vars

\* Buckets a search for key k from bucket b looks into.
Searched(b, k) ==
  LET links(C) == {r.meta : r \in {s \in UNION {Filtered(c, k) : c \in C} : IsLink(s)}}
      within[n \in 0 .. Cardinality(BucketIds)] ==
        IF n = 0 THEN {b} ELSE within[n - 1] \cup links(within[n - 1])
  IN within[Cardinality(BucketIds)]

\* No bucket is nested in itself for key k.
Acyclic(k) ==
  \A b \in DOMAIN defaults : \A r \in Filtered(b, k) : IsLink(r) => b \notin Searched(r.meta, k)

\* A search answers nothing weaker than any policy it meets, in particular
\* DENY if it meets a DENY at any depth; the answer is a policy it met or the
\* default of a bucket that has no policy of its own for the key; and the
\* default bucket always decides (Storage::minimalPolicy).
SearchSound ==
  \A k \in Features \X Features \X Features : Acyclic(k) =>
    \A b \in DOMAIN defaults :
      LET own(c) == {s \in Filtered(c, k) : ~IsLink(s)}
          seen == UNION {own(c) : c \in Searched(b, k)}
          answer == CheckPolicy(b, k, TRUE)
      IN /\ \A s \in seen : answer.type <= s.type
         /\ answer \in seen \cup {defaults[c] : c \in {d \in Searched(b, k) : own(d) = {}}}
         /\ b = DefaultBucket => answer # NoPolicy

\* An erase ends (the loop of erasePolicies empties bucketIds).
EraseEnds == erase.work # {} ~> erase.work = {}

=============================================================================
