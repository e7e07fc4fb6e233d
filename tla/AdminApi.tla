------------------------------ MODULE AdminApi ------------------------------
(***************************************************************************)
(* The C functions of libcynara-admin as its callers see them: how each    *)
(* checks and converts its arguments, what it asks of the policy database, *)
(* and what it hands back.  How the request reaches the database, directly *)
(* or through the daemon, is the subject of AdminLibrary, and the lookup   *)
(* behind a check that of PolicyStorage: here a check may find any result  *)
(* that is stored.                                                         *)
(*                                                                         *)
(* A string is a text of TextRecords, Null a null pointer.  Every function *)
(* gives the code it returns, the database after it, and what it hands out.*)
(***************************************************************************)
EXTENDS TextRecords, Integers, FiniteSets

CONSTANTS PluginTypes,   \* policy types some plugin supports
          IdLengthLimit, \* CYNARA_MAX_ID_LENGTH
          MaxVectorSize  \* CYNARA_MAX_VECTOR_SIZE

Null == <<<<"null">>>>
DefaultBucketId == <<>>

DELETE == -1
DENY   == 0
NONE   == 1
BUCKET == 65534
ALLOW  == 65535

Wildcard   == <<Char("*")>>
AnyFeature == <<Char("#")>>

Reply(code, base, data) == [code |-> code, base |-> base, data |-> data]
Refused(code, base) == Reply(code, base, <<>>)

IsStringValid(s) == s # Null /\ Len(s) <= IdLengthLimit
IsExtraStringValid(s) == s = Null \/ Len(s) <= IdLengthLimit
Int2PolicyType(type) == type \in 0 .. 65535

\* std::string extraStr = extra ? extra : "", and back: an empty metadata is a
\* null pointer for the caller.
FromPointer(s) == IF s = Null THEN <<>> ELSE s
ToPointer(s)   == IF s = <<>> THEN Null ELSE s

KeyIsValid(key) == \A i \in 1 .. 3 : IsStringValid(key[i])

(***************************************************************************)
(* The database: the default results of its buckets and its policies.      *)
(***************************************************************************)
HasBucket(base, b) == b \in DOMAIN base.defaults
KnownType(type) == type \in {ALLOW, DENY} \union PluginTypes
SamePlace(p, q) == p.bucket = q.bucket /\ p.key = q.key
Put(policies, p) == {q \in policies : ~SamePlace(p, q)} \union {p}
Matches(key, filter) == \A i \in 1 .. 3 : filter[i] \in {AnyFeature, key[i]}

\* A request to insert policies.  The types are checked first, then that all
\* buckets exist, and only then something is inserted.
ServeSetPolicies(base, new) ==
    LET Linked(p) == p.result.type = BUCKET => HasBucket(base, p.result.metadata)
    IN  CASE \E i \in DOMAIN new : ~KnownType(new[i].result.type) /\ new[i].result.type # BUCKET ->
               Refused("INVALID_PARAM", base)
          [] \E i \in DOMAIN new : ~HasBucket(base, new[i].bucket) \/ ~Linked(new[i]) ->
               Refused("BUCKET_NOT_FOUND", base)
          [] OTHER -> Reply("SUCCESS", [base EXCEPT !.policies = FoldLeft(Put, @, new)], <<>>)

\* PolicyBucket::idValidator, for a bucket that is created: of the characters
\* used here these are neither alphanumeric nor separators of ids.
IdValidator(b) == \A i \in DOMAIN b : b[i] \notin {FieldSep, Char("*"), Char("#")}

ServeBucket(base, b, res) ==
    CASE ~KnownType(res.type) /\ res.type \notin {NONE, BUCKET} -> Refused("INVALID_PARAM", base)
      [] b = DefaultBucketId /\ res.type = NONE -> Refused("OPERATION_NOT_ALLOWED", base)
      [] ~HasBucket(base, b) /\ ~IdValidator(b) -> Refused("OPERATION_NOT_ALLOWED", base)
      [] OTHER -> Reply("SUCCESS", [base EXCEPT !.defaults = (b :> res) @@ @], <<>>)

\* deleteLinking, then the bucket.
ServeRemoveBucket(base, b) ==
    CASE b = DefaultBucketId -> Refused("OPERATION_NOT_ALLOWED", base)
      [] ~HasBucket(base, b) -> Refused("BUCKET_NOT_FOUND", base)
      [] OTHER -> Reply("SUCCESS",
             [defaults |-> [c \in DOMAIN base.defaults \ {b} |-> base.defaults[c]],
              policies |-> {p \in base.policies :
                  p.bucket # b /\ ~(p.result.type = BUCKET /\ p.result.metadata = b)}], <<>>)

\* The bucket, or every bucket that policies link to from it.
ErasedBuckets(base, b, recursive) ==
    LET Linked(S) == S \union {p.result.metadata :
                        p \in {q \in base.policies : q.bucket \in S /\ q.result.type = BUCKET}}
        reach[n \in 0 .. Cardinality(DOMAIN base.defaults)] ==
            IF n = 0 THEN {b} ELSE Linked(reach[n - 1])
    IN  IF recursive THEN reach[Cardinality(DOMAIN base.defaults)] ELSE {b}

ServeErase(base, b, recursive, filter) ==
    IF ~HasBucket(base, b) THEN Refused("BUCKET_NOT_FOUND", base)
    ELSE Reply("SUCCESS", [base EXCEPT !.policies = {p \in @ :
             ~(p.bucket \in ErasedBuckets(base, b, recursive) /\ Matches(p.key, filter))}], <<>>)

(***************************************************************************)
(* The functions.                                                          *)
(***************************************************************************)
\* One element of the array given to cynara_admin_set_policies.  cyad never asks
\* to delete a policy there: the types it reads have 16 bits, and
\* CYNARA_ADMIN_DELETE, -1, is read as ALLOW.  Deletion is in PolicyStorage and
\* AdminLibrary.
PolicyIsValid(p) ==
    /\ IsStringValid(p.bucket) /\ KeyIsValid(p.key)
    /\ p.result # NONE
    /\ p.result = BUCKET => IsStringValid(p.extra)
    /\ Int2PolicyType(p.result)

AdminSetPolicies(base, array) ==
    LET new == [i \in DOMAIN array |->
                   [bucket |-> array[i].bucket, key |-> array[i].key,
                    result |-> [type |-> array[i].result, metadata |-> FromPointer(array[i].extra)]]]
    IN  IF Len(array) > MaxVectorSize \/ \E i \in DOMAIN array : ~PolicyIsValid(array[i])
        THEN Refused("INVALID_PARAM", base)
        ELSE ServeSetPolicies(base, new)

AdminSetBucket(base, b, operation, extra) ==
    CASE ~IsStringValid(b) \/ ~IsExtraStringValid(extra) -> Refused("INVALID_PARAM", base)
      [] operation = DELETE -> ServeRemoveBucket(base, b)
      [] operation = NONE /\ b # DefaultBucketId ->
             ServeBucket(base, b, [type |-> NONE, metadata |-> <<>>])
      [] operation = NONE -> Refused("OPERATION_NOT_ALLOWED", base)
      [] operation = BUCKET \/ ~Int2PolicyType(operation) -> Refused("INVALID_PARAM", base)
      [] OTHER -> ServeBucket(base, b, [type |-> operation, metadata |-> FromPointer(extra)])

\* found is the result the lookup arrives at.
AdminCheck(base, b, key, found) ==
    CASE ~IsStringValid(b) \/ ~KeyIsValid(key) -> Refused("INVALID_PARAM", base)
      [] ~HasBucket(base, b) -> Refused("BUCKET_NOT_FOUND", base)
      [] OTHER -> Reply("SUCCESS", base,
                        [result |-> found.type, extra |-> ToPointer(found.metadata)])

CopyPolicy(p) == [bucket |-> p.bucket, key |-> p.key,
                  result |-> p.result.type, extra |-> ToPointer(p.result.metadata)]

ListedPolicies(base, b, filter) == {p \in base.policies : p.bucket = b /\ Matches(p.key, filter)}

AdminListPolicies(base, b, filter) ==
    LET found == SetToSeq(ListedPolicies(base, b, filter))
    IN  CASE ~IsStringValid(b) \/ ~KeyIsValid(filter) -> Refused("INVALID_PARAM", base)
          [] ~HasBucket(base, b) -> Refused("BUCKET_NOT_FOUND", base)
          [] OTHER -> Reply("SUCCESS", base, [i \in DOMAIN found |-> CopyPolicy(found[i])])

AdminErase(base, b, recursive, filter) ==
    IF ~IsStringValid(b) \/ ~KeyIsValid(filter) THEN Refused("INVALID_PARAM", base)
    ELSE ServeErase(base, b, recursive, filter)
=============================================================================
