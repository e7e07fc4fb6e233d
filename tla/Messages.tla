----------------------------- MODULE Messages ------------------------------
(***************************************************************************)
(* The requests and responses of src/common/request and                    *)
(* src/common/response: one record constructor per class, with the class   *)
(* name in "type" and the members under the names of their accessors.      *)
(* Every message carries the sequence number of its frame.                 *)
(***************************************************************************)
EXTENDS Naturals, Sequences

\* Values the messages carry.
PolicyKey(client, user, privilege) ==
    [client |-> client, user |-> user, privilege |-> privilege]
PolicyResult(policyType, metadata) ==
    [policyType |-> policyType, metadata |-> metadata]
Policy(key, result) == [key |-> key, result |-> result]
PolicyDescription(policyType, name) == [policyType |-> policyType, name |-> name]
MonitorEntry(key, result, sec, nsec) ==
    [key |-> key, result |-> result, sec |-> sec, nsec |-> nsec]

\* Requests of the client protocol.
CheckRequest(key, seq) ==
    [type |-> "CheckRequest", key |-> key, seq |-> seq]
SimpleCheckRequest(key, seq) ==
    [type |-> "SimpleCheckRequest", key |-> key, seq |-> seq]
CancelRequest(seq) == [type |-> "CancelRequest", seq |-> seq]
MonitorEntriesPutRequest(entries, seq) ==
    [type |-> "MonitorEntriesPutRequest", entries |-> entries, seq |-> seq]
MonitorEntryPutRequest(entry, seq) ==
    [type |-> "MonitorEntryPutRequest", entry |-> entry, seq |-> seq]

\* Responses of the client protocol.
CheckResponse(result, seq) ==
    [type |-> "CheckResponse", result |-> result, seq |-> seq]
SimpleCheckResponse(retValue, result, seq) ==
    [type |-> "SimpleCheckResponse", retValue |-> retValue, result |-> result,
     seq |-> seq]
CancelResponse(seq) == [type |-> "CancelResponse", seq |-> seq]

\* Requests of the administrative protocol.  The two maps of
\* SetPoliciesRequest are functions from bucket ids to nonempty sequences.
AdminCheckRequest(key, startBucket, recursive, seq) ==
    [type |-> "AdminCheckRequest", key |-> key, startBucket |-> startBucket,
     recursive |-> recursive, seq |-> seq]
DescriptionListRequest(seq) == [type |-> "DescriptionListRequest", seq |-> seq]
EraseRequest(startBucket, recursive, filter, seq) ==
    [type |-> "EraseRequest", startBucket |-> startBucket,
     recursive |-> recursive, filter |-> filter, seq |-> seq]
InsertOrUpdateBucketRequest(bucketId, result, seq) ==
    [type |-> "InsertOrUpdateBucketRequest", bucketId |-> bucketId,
     result |-> result, seq |-> seq]
ListRequest(bucket, filter, seq) ==
    [type |-> "ListRequest", bucket |-> bucket, filter |-> filter, seq |-> seq]
RemoveBucketRequest(bucketId, seq) ==
    [type |-> "RemoveBucketRequest", bucketId |-> bucketId, seq |-> seq]
SetPoliciesRequest(insertOrUpdate, remove, seq) ==
    [type |-> "SetPoliciesRequest", insertOrUpdate |-> insertOrUpdate,
     remove |-> remove, seq |-> seq]

\* Responses of the administrative protocol.
AdminCheckResponse(result, bucketValid, dbCorrupted, seq) ==
    [type |-> "AdminCheckResponse", result |-> result,
     bucketValid |-> bucketValid, dbCorrupted |-> dbCorrupted, seq |-> seq]
CodeResponse(code, seq) == [type |-> "CodeResponse", code |-> code, seq |-> seq]
DescriptionListResponse(descriptions, dbCorrupted, seq) ==
    [type |-> "DescriptionListResponse", descriptions |-> descriptions,
     dbCorrupted |-> dbCorrupted, seq |-> seq]
ListResponse(policies, bucketValid, dbCorrupted, seq) ==
    [type |-> "ListResponse", policies |-> policies,
     bucketValid |-> bucketValid, dbCorrupted |-> dbCorrupted, seq |-> seq]

\* The agent protocol.
AgentActionRequest(responseType, data, seq) ==
    [type |-> "AgentActionRequest", responseType |-> responseType,
     data |-> data, seq |-> seq]
AgentRegisterRequest(agentType, seq) ==
    [type |-> "AgentRegisterRequest", agentType |-> agentType, seq |-> seq]
AgentActionResponse(requestType, data, seq) ==
    [type |-> "AgentActionResponse", requestType |-> requestType,
     data |-> data, seq |-> seq]
AgentRegisterResponse(code, seq) ==
    [type |-> "AgentRegisterResponse", code |-> code, seq |-> seq]

\* The monitor protocol.
MonitorGetEntriesRequest(bufferSize, seq) ==
    [type |-> "MonitorGetEntriesRequest", bufferSize |-> bufferSize, seq |-> seq]
MonitorGetFlushRequest(seq) == [type |-> "MonitorGetFlushRequest", seq |-> seq]
MonitorGetEntriesResponse(entries, seq) ==
    [type |-> "MonitorGetEntriesResponse", entries |-> entries, seq |-> seq]
=============================================================================
