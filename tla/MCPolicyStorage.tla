-------------------------- MODULE MCPolicyStorage --------------------------
(* Small instances of PolicyStorage.                                       *)
EXTENDS PolicyStorage

Result(t, m) == [type |-> t, meta |-> m]
Plain(t) == Result(t, NoMeta)

One == <<"x", "x", "x">>
AnyUser == <<"x", "*", "x">>

Put(b, k, r) == {[bucket |-> b, key |-> k, result |-> r]}
Place(b, k) == {[bucket |-> b, key |-> k]}

\* Links lead from the default bucket to "a" and from "a" to "b".
Down == {Put("", One, Result(BUCKET, "a")), Put("", AnyUser, Result(BUCKET, "b")),
         Put("a", AnyUser, Result(BUCKET, "b"))}
Leaves == {Put("", AnyUser, Plain(ALLOW)), Put("a", One, Plain(ALLOW)), Put("b", One, Plain(DENY)),
           Put("b", AnyUser, Plain(10)), Put("a", One, Plain(11))}

TreeInserts == {{}} \cup Down \cup Leaves \cup {Put("a", One, Plain(ALLOW)) \cup Put("b", One, Plain(DENY))}

SomeDeletes == {{}, Place("", One), Place("a", One) \cup Place("b", One)}
SomeDefaults == {Plain(DENY), Plain(NONE), Plain(11)}
NoDefaults == {Plain(DENY), Plain(NONE)}
OneFilter == {<<"x", "#", "x">>}
SomeFilters == {<<"x", "#", "x">>, <<"#", "*", "#">>, <<"*", "#", "#">>}

\* Memory and disk are not followed further apart than this many policies
\* and buckets.
Distance(S, T) == Cardinality(S \ T) + Cardinality(T \ S)
NearDisk ==
  Distance(policies, disk.policies) + Distance(DOMAIN defaults, DOMAIN disk.defaults) <= 1

\* Every database with at most three of these policies and without cyclic links,
\* for searches and recursive erases.
SearchPolicies ==
  {[bucket |-> b, key |-> k, result |-> r] :
     b \in BucketIds, k \in {One, <<"*", "*", "x">>},
     r \in {Plain(DENY), Plain(10), Plain(ALLOW)} \cup {Result(BUCKET, c) : c \in BucketIds}}

AnyDatabase ==
  /\ dbCorrupted = FALSE
  /\ defaults \in [BucketIds -> DefaultResults]
  /\ defaults[DefaultBucket] # NoPolicy
  /\ policies \in {{}} \cup {{p, q, r} : p, q, r \in SearchPolicies}
  /\ \A p, q \in policies : p.bucket = q.bucket /\ p.key = q.key => p = q
  /\ \A b \in BucketIds : b \notin UNION {Nested(c) : c \in SubBuckets(b)}
  /\ disk = Database(defaults, policies)
  /\ erase = NoErase
  /\ reply = [op |-> "none", code |-> "NONE"]

EraseFromDefault == \E filter \in Filters : Erase(DefaultBucket, TRUE, filter)

ReadSpec ==
  /\ AnyDatabase
  /\ [][\/ reply.op = "none" /\ EraseFromDefault
        \/ \E b \in BucketIds : EraseBucket(b)]_vars
  /\ WF_vars(\E b \in BucketIds : EraseBucket(b))
=============================================================================
