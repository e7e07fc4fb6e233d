--------------------------- MODULE ProtocolCodecs ---------------------------
(***************************************************************************)
(* The four protocols of src/common/protocol: ProtocolClient,              *)
(* ProtocolAdmin, ProtocolAgent and ProtocolMonitorGet.  Each message has  *)
(* the body its execute overload writes (Body operators) and the function  *)
(* that rebuilds it from a frame (deserialize operators); each protocol    *)
(* has the table of op codes that its two extract functions switch on.     *)
(***************************************************************************)
EXTENDS Messages, ProtocolSerialization

OpCode == [CheckRequest |-> 0, CheckResponse |-> 1, CancelRequest |-> 2,
           CancelResponse |-> 3, SimpleCheckRequest |-> 4,
           SimpleCheckResponse |-> 5, MonitorEntriesPutRequest |-> 6,
           MonitorEntryPutRequest |-> 7,
           InsertOrUpdateBucketRequest |-> 20, RemoveBucketRequest |-> 21,
           SetPoliciesRequest |-> 22, CodeResponse |-> 23,
           AdminCheckRequest |-> 24, ListRequest |-> 25, ListResponse |-> 26,
           AdminCheckResponse |-> 27, EraseRequest |-> 28,
           DescriptionListRequest |-> 29, DescriptionListResponse |-> 30,
           AgentRegisterRequest |-> 40, AgentRegisterResponse |-> 41,
           AgentActionRequest |-> 42, AgentActionResponse |-> 43,
           MonitorGetEntriesRequest |-> 50, MonitorGetEntriesResponse |-> 51,
           MonitorGetFlushRequest |-> 52]

(***************************************************************************)
(* Parts that several messages share.                                      *)
(***************************************************************************)
KeyTypes    == <<"text", "text", "text">>
ResultTypes == <<"u16", "text">>
EntryTypes  == KeyTypes \o <<"i64", "i64", "i64">>
PolicyTypes == KeyTypes \o ResultTypes

KeyBody(key)       == Text(key.client) \o Text(key.user) \o Text(key.privilege)
ResultBody(result) == Number("u16", result.policyType) \o Text(result.metadata)
PolicyBody(policy) == KeyBody(policy.key) \o ResultBody(policy.result)
EntryBody(entry)   == KeyBody(entry.key) \o Number("i64", entry.result)
                          \o Number("i64", entry.sec) \o Number("i64", entry.nsec)
DescriptionBody(d) == Number("u16", d.policyType) \o Text(d.name)

KeyOf(v)         == PolicyKey(v[1], v[2], v[3])
PolicyOf(v)      == Policy(KeyOf(v), PolicyResult(v[4], v[5]))
EntryOf(v)       == MonitorEntry(KeyOf(v), v[4], v[5], v[6])
DescriptionOf(v) == PolicyDescription(v[1], v[2])

(***************************************************************************)
(* ProtocolClient.                                                         *)
(***************************************************************************)
CancelRequestBody(m)       == <<>>
CheckRequestBody(m)        == KeyBody(m.key)
SimpleCheckRequestBody(m)  == KeyBody(m.key)
MonitorEntriesPutBody(m)   == Listed(m.entries, EntryBody)
MonitorEntryPutBody(m)     == EntryBody(m.entry)
CancelResponseBody(m)      == <<>>
CheckResponseBody(m)       == ResultBody(m.result)
SimpleCheckResponseBody(m) == Number("i32", m.retValue) \o ResultBody(m.result)

\* A deserialize operator returns the reader after it and the message; "v" are
\* the values read, looked at only when the reads went well.
Rebuilt(r, m) == [r |-> r, m |-> IF r.status = "ok" THEN m ELSE [type |-> "none"]]

DeserializeCancelRequest(r, seq) == Rebuilt(r, CancelRequest(seq))
DeserializeCheckRequest(r, seq) ==
    LET f == Deserialize(r, KeyTypes) v == f.vals
    IN  Rebuilt(f, CheckRequest(KeyOf(v), seq))
DeserializeSimpleCheckRequest(r, seq) ==
    LET f == Deserialize(r, KeyTypes) v == f.vals
    IN  Rebuilt(f, SimpleCheckRequest(KeyOf(v), seq))
DeserializeMonitorEntriesPut(r, seq) ==
    LET f == DeserializeList(r, EntryTypes, EntryOf) v == f.vals
    IN  Rebuilt(f, MonitorEntriesPutRequest(v[1], seq))
DeserializeMonitorEntryPut(r, seq) ==
    LET f == Deserialize(r, EntryTypes) v == f.vals
    IN  Rebuilt(f, MonitorEntryPutRequest(EntryOf(v), seq))
DeserializeCancelResponse(r, seq) == Rebuilt(r, CancelResponse(seq))
DeserializeCheckResponse(r, seq) ==
    LET f == Deserialize(r, ResultTypes) v == f.vals
    IN  Rebuilt(f, CheckResponse(PolicyResult(v[1], v[2]), seq))
DeserializeSimpleCheckResponse(r, seq) ==
    LET f == Deserialize(r, <<"i32">> \o ResultTypes) v == f.vals
    IN  Rebuilt(f, SimpleCheckResponse(v[1], PolicyResult(v[2], v[3]), seq))

(***************************************************************************)
(* ProtocolAdmin.                                                          *)
(***************************************************************************)
AdminCheckRequestBody(m)      == KeyBody(m.key) \o Text(m.startBucket) \o Bool(m.recursive)
DescriptionListRequestBody(m) == <<>>
EraseRequestBody(m)           == Text(m.startBucket) \o Bool(m.recursive) \o KeyBody(m.filter)
InsertOrUpdateBucketBody(m)   == Text(m.bucketId) \o ResultBody(m.result)
ListRequestBody(m)            == Text(m.bucket) \o KeyBody(m.filter)
RemoveBucketRequestBody(m)    == Text(m.bucketId)
AdminCheckResponseBody(m)     == ResultBody(m.result) \o Bool(m.bucketValid)
                                     \o Bool(m.dbCorrupted)
CodeResponseBody(m)           == Number("u16", m.code)
DescriptionListResponseBody(m) == Listed(m.descriptions, DescriptionBody)
                                     \o Bool(m.dbCorrupted)
ListResponseBody(m)           == Listed(m.policies, PolicyBody) \o Bool(m.bucketValid)
                                     \o Bool(m.dbCorrupted)
\* Both maps: the number of buckets, and for each bucket its id, the number of
\* its policies (or keys) and these.
SetPoliciesBody(m) ==
    LET InsertPart(b) == Text(b) \o Listed(m.insertOrUpdate[b], PolicyBody)
        RemovePart(b) == Text(b) \o Listed(m.remove[b], KeyBody)
    IN  Listed(SetToSeq(DOMAIN m.insertOrUpdate), InsertPart)
            \o Listed(SetToSeq(DOMAIN m.remove), RemovePart)

DeserializeAdminCheckRequest(r, seq) ==
    LET f == Deserialize(r, KeyTypes \o <<"text", "u8">>) v == f.vals
    IN  Rebuilt(f, AdminCheckRequest(KeyOf(v), v[4], AsBool(v[5]), seq))
DeserializeDescriptionListRequest(r, seq) == Rebuilt(r, DescriptionListRequest(seq))
DeserializeEraseRequest(r, seq) ==
    LET f == Deserialize(r, <<"text", "u8">> \o KeyTypes) v == f.vals
    IN  Rebuilt(f, EraseRequest(v[1], AsBool(v[2]), PolicyKey(v[3], v[4], v[5]), seq))
DeserializeInsertOrUpdateBucket(r, seq) ==
    LET f == Deserialize(r, <<"text">> \o ResultTypes) v == f.vals
    IN  Rebuilt(f, InsertOrUpdateBucketRequest(v[1], PolicyResult(v[2], v[3]), seq))
DeserializeListRequest(r, seq) ==
    LET f == Deserialize(r, <<"text">> \o KeyTypes) v == f.vals
    IN  Rebuilt(f, ListRequest(v[1], PolicyKey(v[2], v[3], v[4]), seq))
DeserializeRemoveBucket(r, seq) ==
    LET f == Deserialize(r, <<"text">>) v == f.vals
    IN  Rebuilt(f, RemoveBucketRequest(v[1], seq))

\* A bucket gets what is listed after its id, n times; one with no element never
\* enters the map.
BucketMap(v, n) ==
    [id \in {v[2 * i - 1] : i \in {k \in 1 .. n : v[2 * k] # <<>>}} |->
        FlattenSeq([i \in 1 .. n |-> IF v[2 * i - 1] = id THEN v[2 * i] ELSE <<>>])]

\* One of the two maps: the number of buckets, and each with its list.
DeserializeBuckets(r, types, Element(_)) ==
    LET c == Deserialize([r EXCEPT !.vals = <<>>], <<"u16">>)
        bucket[i \in Nat] ==
            IF i = 0 THEN [c EXCEPT !.vals = <<>>]
            ELSE DeserializeList(Deserialize(bucket[i - 1], <<"text">>), types, Element)
        Mapped(b, n) == IF b.status # "ok" THEN b
                        ELSE [b EXCEPT !.vals = Append(r.vals, BucketMap(b.vals, n))]
    IN  IF c.status # "ok" THEN c ELSE Mapped(bucket[c.vals[1]], c.vals[1])

DeserializeSetPolicies(r, seq) ==
    LET inserts == DeserializeBuckets(r, PolicyTypes, PolicyOf)
        f == DeserializeBuckets(inserts, KeyTypes, KeyOf)
        v == f.vals
    IN  Rebuilt(f, SetPoliciesRequest(v[1], v[2], seq))
\* Mutant: the two flags change places.
AdminCheckResponseMutant(r, seq) ==
    LET f == Deserialize(r, ResultTypes \o <<"u8", "u8">>) v == f.vals
    IN  Rebuilt(f, AdminCheckResponse(PolicyResult(v[1], v[2]), AsBool(v[4]), AsBool(v[3]), seq))
DeserializeAdminCheckResponse(r, seq) ==
    LET f == Deserialize(r, ResultTypes \o <<"u8", "u8">>) v == f.vals
    IN  Rebuilt(f, AdminCheckResponse(PolicyResult(v[1], v[2]), AsBool(v[3]), AsBool(v[4]), seq))
DeserializeCodeResponse(r, seq) ==
    LET f == Deserialize(r, <<"u16">>) v == f.vals
    IN  Rebuilt(f, CodeResponse(v[1], seq))
DeserializeDescriptionListResponse(r, seq) ==
    LET l == DeserializeList(r, ResultTypes, DescriptionOf)
        f == Deserialize(l, <<"u8">>) v == f.vals
    IN  Rebuilt(f, DescriptionListResponse(v[1], AsBool(v[2]), seq))
DeserializeListResponse(r, seq) ==
    LET l == DeserializeList(r, PolicyTypes, PolicyOf)
        f == Deserialize(l, <<"u8", "u8">>) v == f.vals
    IN  Rebuilt(f, ListResponse(v[1], AsBool(v[2]), AsBool(v[3]), seq))

(***************************************************************************)
(* ProtocolAgent.                                                          *)
(***************************************************************************)
AgentActionRequestBody(m)    == Number("u8", m.responseType) \o Text(m.data)
AgentRegisterRequestBody(m)  == Text(m.agentType)
AgentActionResponseBody(m)   == Number("u8", m.requestType) \o Text(m.data)
AgentRegisterResponseBody(m) == Number("u16", m.code)

DeserializeActionRequest(r, seq) ==
    LET f == Deserialize(r, <<"u8", "text">>) v == f.vals
    IN  Rebuilt(f, AgentActionRequest(v[1], v[2], seq))
DeserializeRegisterRequest(r, seq) ==
    LET f == Deserialize(r, <<"text">>) v == f.vals
    IN  Rebuilt(f, AgentRegisterRequest(v[1], seq))
DeserializeActionResponse(r, seq) ==
    LET f == Deserialize(r, <<"u8", "text">>) v == f.vals
    IN  Rebuilt(f, AgentActionResponse(v[1], v[2], seq))
DeserializeRegisterResponse(r, seq) ==
    LET f == Deserialize(r, <<"u16">>) v == f.vals
    IN  Rebuilt(f, AgentRegisterResponse(v[1], seq))

(***************************************************************************)
(* ProtocolMonitorGet.                                                     *)
(***************************************************************************)
MonitorGetEntriesRequestBody(m)  == Number("u64", m.bufferSize)
MonitorGetFlushRequestBody(m)    == <<>>
MonitorGetEntriesResponseBody(m) == Listed(m.entries, EntryBody)

DeserializeMonitorGetEntriesRequest(r, seq) ==
    LET f == Deserialize(r, <<"u64">>) v == f.vals
    IN  Rebuilt(f, MonitorGetEntriesRequest(v[1], seq))
DeserializeMonitorGetFlushRequest(r, seq) == Rebuilt(r, MonitorGetFlushRequest(seq))
DeserializeMonitorGetEntriesResponse(r, seq) ==
    LET f == DeserializeList(r, EntryTypes, EntryOf) v == f.vals
    IN  Rebuilt(f, MonitorGetEntriesResponse(v[1], seq))

(***************************************************************************)
(* The switch of each extract function on the op code.  WrongOpCode is the *)
(* exception of the default branch.                                        *)
(***************************************************************************)
WrongOpCode(r) == Rebuilt(Fail(r, "wrong op code"), [type |-> "none"])

ClientRequest(op, r, seq) ==
    CASE op = OpCode.CheckRequest             -> DeserializeCheckRequest(r, seq)
      [] op = OpCode.CancelRequest            -> DeserializeCancelRequest(r, seq)
      [] op = OpCode.SimpleCheckRequest       -> DeserializeSimpleCheckRequest(r, seq)
      [] op = OpCode.MonitorEntriesPutRequest -> DeserializeMonitorEntriesPut(r, seq)
      [] op = OpCode.MonitorEntryPutRequest   -> DeserializeMonitorEntryPut(r, seq)
      [] OTHER                                -> WrongOpCode(r)

ClientResponse(op, r, seq) ==
    CASE op = OpCode.CheckResponse       -> DeserializeCheckResponse(r, seq)
      [] op = OpCode.CancelResponse      -> DeserializeCancelResponse(r, seq)
      [] op = OpCode.SimpleCheckResponse -> DeserializeSimpleCheckResponse(r, seq)
      [] OTHER                           -> WrongOpCode(r)

AdminRequest(op, r, seq) ==
    CASE op = OpCode.AdminCheckRequest      -> DeserializeAdminCheckRequest(r, seq)
      [] op = OpCode.DescriptionListRequest -> DeserializeDescriptionListRequest(r, seq)
      [] op = OpCode.EraseRequest           -> DeserializeEraseRequest(r, seq)
      [] op = OpCode.InsertOrUpdateBucketRequest -> DeserializeInsertOrUpdateBucket(r, seq)
      [] op = OpCode.ListRequest            -> DeserializeListRequest(r, seq)
      [] op = OpCode.RemoveBucketRequest    -> DeserializeRemoveBucket(r, seq)
      [] op = OpCode.SetPoliciesRequest     -> DeserializeSetPolicies(r, seq)
      [] OTHER                              -> WrongOpCode(r)

AdminResponse(op, r, seq) ==
    CASE op = OpCode.AdminCheckResponse      -> DeserializeAdminCheckResponse(r, seq)
      [] op = OpCode.CodeResponse            -> DeserializeCodeResponse(r, seq)
      [] op = OpCode.DescriptionListResponse -> DeserializeDescriptionListResponse(r, seq)
      [] op = OpCode.ListResponse            -> DeserializeListResponse(r, seq)
      [] OTHER                               -> WrongOpCode(r)

AgentRequest(op, r, seq) ==
    CASE op = OpCode.AgentActionRequest   -> DeserializeActionRequest(r, seq)
      [] op = OpCode.AgentRegisterRequest -> DeserializeRegisterRequest(r, seq)
      [] OTHER                            -> WrongOpCode(r)

AgentResponse(op, r, seq) ==
    CASE op = OpCode.AgentActionResponse   -> DeserializeActionResponse(r, seq)
      [] op = OpCode.AgentRegisterResponse -> DeserializeRegisterResponse(r, seq)
      [] OTHER                             -> WrongOpCode(r)

MonitorGetRequest(op, r, seq) ==
    CASE op = OpCode.MonitorGetEntriesRequest -> DeserializeMonitorGetEntriesRequest(r, seq)
      [] op = OpCode.MonitorGetFlushRequest   -> DeserializeMonitorGetFlushRequest(r, seq)
      [] OTHER                                -> WrongOpCode(r)

MonitorGetResponse(op, r, seq) ==
    CASE op = OpCode.MonitorGetEntriesResponse -> DeserializeMonitorGetEntriesResponse(r, seq)
      [] OTHER                                 -> WrongOpCode(r)

\* The end of a connection that reads requests is in the daemon, the one that
\* reads responses in a library.
Extract(end, op, r, seq) ==
    CASE end = "client request"   -> ClientRequest(op, r, seq)
      [] end = "client response"  -> ClientResponse(op, r, seq)
      [] end = "admin request"    -> AdminRequest(op, r, seq)
      [] end = "admin response"   -> AdminResponse(op, r, seq)
      [] end = "agent request"    -> AgentRequest(op, r, seq)
      [] end = "agent response"   -> AgentResponse(op, r, seq)
      [] end = "monitor request"  -> MonitorGetRequest(op, r, seq)
      [] end = "monitor response" -> MonitorGetResponse(op, r, seq)

\* The body that the execute overload for the class of m writes.
Body(m) ==
    CASE m.type = "CheckRequest"                -> CheckRequestBody(m)
      [] m.type = "SimpleCheckRequest"          -> SimpleCheckRequestBody(m)
      [] m.type = "CancelRequest"               -> CancelRequestBody(m)
      [] m.type = "MonitorEntriesPutRequest"    -> MonitorEntriesPutBody(m)
      [] m.type = "MonitorEntryPutRequest"      -> MonitorEntryPutBody(m)
      [] m.type = "CheckResponse"               -> CheckResponseBody(m)
      [] m.type = "SimpleCheckResponse"         -> SimpleCheckResponseBody(m)
      [] m.type = "CancelResponse"              -> CancelResponseBody(m)
      [] m.type = "AdminCheckRequest"           -> AdminCheckRequestBody(m)
      [] m.type = "DescriptionListRequest"      -> DescriptionListRequestBody(m)
      [] m.type = "EraseRequest"                -> EraseRequestBody(m)
      [] m.type = "InsertOrUpdateBucketRequest" -> InsertOrUpdateBucketBody(m)
      [] m.type = "ListRequest"                 -> ListRequestBody(m)
      [] m.type = "RemoveBucketRequest"         -> RemoveBucketRequestBody(m)
      [] m.type = "SetPoliciesRequest"          -> SetPoliciesBody(m)
      [] m.type = "AdminCheckResponse"          -> AdminCheckResponseBody(m)
      [] m.type = "CodeResponse"                -> CodeResponseBody(m)
      [] m.type = "DescriptionListResponse"     -> DescriptionListResponseBody(m)
      [] m.type = "ListResponse"                -> ListResponseBody(m)
      [] m.type = "AgentActionRequest"          -> AgentActionRequestBody(m)
      [] m.type = "AgentRegisterRequest"        -> AgentRegisterRequestBody(m)
      [] m.type = "AgentActionResponse"         -> AgentActionResponseBody(m)
      [] m.type = "AgentRegisterResponse"       -> AgentRegisterResponseBody(m)
      [] m.type = "MonitorGetEntriesRequest"    -> MonitorGetEntriesRequestBody(m)
      [] m.type = "MonitorGetFlushRequest"      -> MonitorGetFlushRequestBody(m)
      [] m.type = "MonitorGetEntriesResponse"   -> MonitorGetEntriesResponseBody(m)

\* Everything execute writes: the op code and the body.
Fields(m) == Number("u8", OpCode[m.type]) \o Body(m)
=============================================================================
