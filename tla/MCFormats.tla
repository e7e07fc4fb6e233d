----------------------------- MODULE MCFormats ------------------------------
(***************************************************************************)
(* The encodings of cynara for TLC: the frames on its sockets, the text of *)
(* its database, and the command lines, listings and bulk files of cyad.   *)
(* A behaviour is about one of them, which its initial state chooses.      *)
(***************************************************************************)
EXTENDS WireFormat, StorageText, Cyad

Empty == <<0, "">>
A     == <<1, "a">>
B     == <<2, "bb">>
Long  == <<3, "too long">>

KeyA == PolicyKey(A, B, Empty)
KeyB == PolicyKey(B, A, A)
Res  == PolicyResult(2, B)
Bare == PolicyResult(5, Empty)
EntA == MonitorEntry(KeyA, -1, 4, 0)
EntB == MonitorEntry(KeyB, 2, 5, 9)
P1   == Policy(KeyA, Res)
P2   == Policy(KeyB, Bare)
D1   == PolicyDescription(1, B)
D2   == PolicyDescription(3, Empty)
NoBuckets == [b \in {} |-> <<>>]

MCEnds == {"client request", "client response", "admin request", "admin response",
           "agent request", "agent response", "monitor request", "monitor response"}

MCSendable(e) ==
    CASE e = "client request" ->
           {CheckRequest(KeyA, 1), CheckRequest(PolicyKey(A, Long, A), 2),
            SimpleCheckRequest(KeyB, 2), CancelRequest(1),
            MonitorEntriesPutRequest(<<EntA, EntB>>, 3), MonitorEntriesPutRequest(<<>>, 3),
            MonitorEntryPutRequest(EntB, 4)}
      [] e = "client response" ->
           {CheckResponse(Res, 1), CheckResponse(Bare, 2), CancelResponse(1),
            SimpleCheckResponse(-1, Bare, 2), SimpleCheckResponse(2, Res, 3)}
      [] e = "admin request" ->
           {AdminCheckRequest(KeyA, B, TRUE, 1), DescriptionListRequest(2),
            EraseRequest(Empty, FALSE, KeyB, 3),
            InsertOrUpdateBucketRequest(B, Res, 1), ListRequest(A, KeyA, 2),
            RemoveBucketRequest(B, 3),
            SetPoliciesRequest(B :> <<P1, P2>>, A :> <<KeyB>>, 1),
            SetPoliciesRequest((A :> <<P2>>) @@ (B :> <<P1>>), NoBuckets, 2),
            SetPoliciesRequest(NoBuckets, (Empty :> <<KeyA, KeyB>>), 2),
            SetPoliciesRequest(NoBuckets, [b \in {Empty, A, B} |-> <<KeyA>>], 3)}
      [] e = "admin response" ->
           {AdminCheckResponse(Res, FALSE, TRUE, 1), AdminCheckResponse(Bare, TRUE, FALSE, 2),
            CodeResponse(5, 1),
            DescriptionListResponse(<<D1, D2>>, FALSE, 2),
            DescriptionListResponse(<<D2, D2, D2>>, FALSE, 2),
            ListResponse(<<P1, P2>>, TRUE, FALSE, 3), ListResponse(<<>>, FALSE, TRUE, 4)}
      [] e = "agent request" ->
           {AgentActionRequest(0, A, 1), AgentActionRequest(1, Empty, 2),
            AgentRegisterRequest(B, 1), AgentRegisterRequest(Long, 1)}
      [] e = "agent response" ->
           {AgentActionResponse(0, B, 1), AgentActionResponse(1, Empty, 2),
            AgentRegisterResponse(0, 1)}
      [] e = "monitor request" ->
           {MonitorGetEntriesRequest(7, 1), MonitorGetFlushRequest(2)}
      [] e = "monitor response" ->
           {MonitorGetEntriesResponse(<<>>, 1), MonitorGetEntriesResponse(<<EntA, EntB>>, 2),
            MonitorGetEntriesResponse(<<EntB>>, 3)}

(***************************************************************************)
(* Databases: two buckets, or none but the one load adds; keys with        *)
(* wildcards and empty features; metadata with the field separator inside. *)
(***************************************************************************)
K1 == <<<<Char("c")>>, <<Char("u"), Char("v")>>, <<Char("p")>>>>
K2 == <<<<Char("*")>>, <<>>, <<Char("p")>>>>
Metadata == {<<>>, <<Char("m"), FieldSep, FieldSep, Char("m")>>}
Results  == [type : {0, 65534}, metadata : Metadata]
Plain    == [type |-> 1, metadata |-> <<>>]
NonDefault == <<Char("b")>>

MCDefaultBucket == <<>>
MCDatabases ==
    {DefaultBucket :> [default |-> d, policies |-> K1 :> p] : d, p \in Results}
    \union
    {(DefaultBucket :> [default |-> Plain, policies |-> (K1 :> p) @@ (K2 :> Plain)])
        @@ (NonDefault :> [default |-> d, policies |-> [k \in {} |-> 0]]) : d, p \in Results}
    \union
    {NonDefault :> [default |-> Plain, policies |-> K2 :> p] : p \in Results}
    \union {[b \in {} |-> 0]}

(***************************************************************************)
(* Command lines of cyad: complete ones, with the last argument missing,   *)
(* and with an option less.                                                *)
(***************************************************************************)
Opt(o, a) == [opt |-> o, arg |-> a]
Flag(o)   == Opt(o, <<>>)
Sub       == <<Char("b")>>
Cu        == <<Char("c")>>
Meta      == <<Char("m"), FieldSep, Char("n")>>
AskType   == 10
Key == <<Opt("client", Cu), Opt("user", <<Char("u")>>), Opt("privilege", <<Char("p")>>)>>
SetPolicy(rest) == <<Flag("set-policy")>> \o Key \o rest
CompleteLines ==
    {<<Opt("set-bucket", Sub), Opt("type", Name("none"))>>,
     <<Opt("set-bucket", Wildcard), Opt("type", Numeral(ALLOW)), Opt("metadata", Cu)>>,
     <<Opt("set-bucket", <<>>), Opt("type", MixedCase("none"))>>,
     <<Opt("delete-bucket", Sub)>>,
     SetPolicy(<<Opt("type", MixedCase("allow")), Opt("bucket", Sub)>>),
     SetPolicy(<<Opt("metadata", Meta), Opt("type", Name("ask"))>>),
     SetPolicy(<<Opt("metadata", Sub), Opt("type", Name("bucket"))>>),
     SetPolicy(<<Opt("type", Numeral(-1))>>),
     <<Flag("set-policy"), Opt("bulk", Cu)>>,
     <<Opt("erase", <<>>), Opt("recursive", Name("yes"))>> \o Key,
     <<Opt("erase", Sub), Opt("recursive", MixedCase("yes"))>> \o Key,
     <<Flag("check"), Opt("recursive", Name("no"))>> \o Key,
     <<Flag("check"), Opt("recursive", Name("yes")), Opt("bucket", Sub)>> \o Key
        \o <<Flag("human-readable")>>,
     <<Opt("list-policies", <<>>), Flag("all")>>,
     <<Opt("list-policies", <<>>), Flag("human-readable")>> \o Key,
     <<Opt("list-policies", Sub), Flag("human-readable"), Flag("all")>>,
     <<Flag("list-policies-descriptions")>>, <<Flag("help")>>, <<>>, <<Flag("all")>>}
Without(line) == {RemoveAt(line, i) : i \in DOMAIN line}
Cut(line) == IF line = <<>> \/ line[Len(line)].arg = <<>> THEN {}
             ELSE {[line EXCEPT ![Len(line)].arg = Missing]}
MCCommandLines ==
    CompleteLines \union UNION {Cut(l) : l \in CompleteLines}
       \union Without(SetPolicy(<<Opt("type", Name("deny"))>>))
       \union Without(<<Flag("check"), Opt("recursive", Name("no"))>> \o Key)
MCDescriptions == <<<<ALLOW, MixedCase("allow")>>, <<DENY, MixedCase("deny")>>,
                    <<AskType, MixedCase("ask")>>>>

\* Files for a bulk update: unreadable, with an empty line, with numbers that
\* do not fit, with metadata of separators, with a line that is too short.
Line(b, t, m) == DumpFields(<<b, Cu, Cu, Cu, t, m>>)
MCBulkFiles ==
    {Unreadable,
     Line(<<>>, Name("deny"), <<>>) \o <<RecordSep>> \o Line(Sub, Numeral(5), <<>>),
     Line(<<>>, Numeral(65535), <<>>) \o Line(Sub, <<Char("x")>>, <<>>),
     Line(Sub, Name("ask"), <<FieldSep>>) \o Line(Sub, Name("ask"), <<Char("m")>>),
     Line(<<>>, Numeral(-1), <<>>) \o Cu}

NoMeta(type)      == [type |-> type, metadata |-> <<>>]
Rule(b, k, r)     == [bucket |-> b, key |-> k, result |-> r]
MCFirstBases ==
    {[defaults |-> (<<>> :> NoMeta(DENY)) @@ (Sub :> NoMeta(NONE)),
      policies |-> {Rule(<<>>, <<Wildcard, Cu, <<>>>>, [type |-> BUCKET, metadata |-> target]),
                    Rule(Sub, <<Cu, Cu, Cu>>, [type |-> AskType, metadata |-> Meta])}] :
        target \in {<<>>, Sub}}

(***************************************************************************)
(* One behaviour is about one of the three.                                *)
(***************************************************************************)
NoDatabase == [b \in {} |-> 0]
NoText == db = NoDatabase /\ files = NoDatabase /\ result = NotLoaded("idle")
            /\ algorithm = "md5" /\ damages = MaxDamages
NoWire == end = "none" /\ sent = <<>> /\ wire = <<>> /\ got = <<>>
            /\ queue = EmptyQueue /\ header = FreshHeader /\ outcome = "ok" /\ chunks = 0
NoCyad == base = [defaults |-> NoDatabase, policies |-> {}]
            /\ argv = <<>> /\ stage = "idle" /\ command = [kind |-> "none"] /\ exit = "none"
            /\ output = NoOutput /\ runs = MaxRuns
            /\ saved = [text |-> Unreadable, of |-> {}]

Init == \/ WireInit /\ NoText /\ NoCyad
        \/ TextInit /\ NoWire /\ NoCyad
        \/ CyadInit /\ NoWire /\ NoText
Next == \/ WireNext /\ UNCHANGED <<textVars, cyadVars>>
        \/ TextNext /\ UNCHANGED <<wireVars, cyadVars>>
        \/ CyadNext /\ UNCHANGED <<wireVars, textVars>>
Spec == Init /\ [][Next]_<<wireVars, textVars, cyadVars>>
=============================================================================
