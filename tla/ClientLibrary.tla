--------------------------- MODULE ClientLibrary ----------------------------
(***************************************************************************)
(* libcynara-client: one cynara object in a single-threaded program, its   *)
(* cache and its buffer of monitor entries, and the daemon it asks.  A     *)
(* call proceeds in steps between which the daemon may answer, change its  *)
(* policies (and then close every client connection), stop and start.      *)
(*                                                                         *)
(* A decision is known by the key it is for and the version of the         *)
(* policies it was taken from.                                             *)
(***************************************************************************)
EXTENDS LibrarySocket, CapacityCache

CONSTANTS
  Questions,       \* the keys, each with a session, that the program asks for
  TypeOf(_, _),    \* the policy type of a key in a version of the policies
  MaxVersion,      \* bound: version of the policies
  MaxStops,        \* bound: stops of the daemon
  MaxCalls         \* bound: calls of the API

VARIABLES
  monitoring,  \* m_monitoringEnabled
  cache,       \* m_cache
  entries,     \* entries of m_monitorCache
  old,         \* m_cacheAgeSec has reached MAX_LOG_AGE_SEC
  call,        \* the call in progress, or the last one
  version,     \* daemon: version of the policies
  logged,      \* daemon: monitor entries received
  parting,     \* daemon: requests of objects that are gone, not yet read
  stops,       \* daemon: stops so far
  corrupted,   \* daemon: m_dbCorrupted, it started on a database it cannot load
  calls,       \* calls so far
  leftover     \* auxiliary: a response stayed in the queue when its connection ended

clientOwn  == <<monitoring, cache, entries, old, call, version, logged, parting, stops,
                corrupted, calls, leftover>>
clientVars == <<socketVars, clientOwn>>
daemonVars == <<version, logged, parting, stops, corrupted>>

\* at: where the call is; then: what follows a flush; seq: the request's
\* sequence number; answer: the response it took; ret: what it returned;
\* since: the version of the policies when the call began.
Idle == [at |-> "idle", op |-> "none", key |-> "none", session |-> "none", then |-> "none",
         seq |-> 0, answer |-> [type |-> "none"], ret |-> "none", since |-> 0]

ClientInit ==
    /\ SocketInit
    /\ monitoring \in BOOLEAN
    /\ cache = EmptyCache
    /\ entries = <<>> /\ old = FALSE
    /\ call = Idle
    /\ version = 0 /\ logged = <<>> /\ parting = <<>> /\ stops = 0 /\ corrupted \in BOOLEAN
    /\ calls = 0 /\ leftover = FALSE

Goto(at)    == call' = [call EXCEPT !.at = at]
Return(ret) == call' = [call EXCEPT !.at = "idle", !.ret = ret]

(***************************************************************************)
(* The API: cynara_check, cynara_simple_check and cynara_finish.           *)
(***************************************************************************)
Begin(op, key, session) ==
    /\ call.at = "idle" /\ calls < MaxCalls
    /\ calls' = calls + 1
    /\ call' = [Idle EXCEPT !.at = "ensure", !.op = op, !.key = key, !.session = session,
                            !.seq = calls + 1, !.since = version]
    /\ UNCHANGED <<socketVars, monitoring, cache, entries, old, daemonVars, leftover>>

Check(key, session)       == Begin("check", key, session)
SimpleCheck(key, session) == Begin("simple", key, session)

\* cynara_finish flushes the buffer and deletes the object.
Finish ==
    /\ call.at = "idle" /\ calls < MaxCalls
    /\ calls' = calls + 1
    /\ call' = [Idle EXCEPT !.at = IF monitoring /\ entries # <<>> THEN "flush" ELSE "delete",
                            !.op = "finish", !.then = "delete", !.since = version]
    /\ UNCHANGED <<socketVars, monitoring, cache, entries, old, daemonVars, leftover>>

\* The object is gone and the program makes a new one.
Delete ==
    /\ call.at = "delete"
    /\ link' = NoLink /\ readQueue' = <<>>
    /\ cache' = EmptyCache /\ entries' = <<>> /\ old' = FALSE
    /\ leftover' = FALSE
    /\ parting' = parting \o link.reqs
    /\ Return("SUCCESS")
    /\ UNCHANGED <<listening, monitoring, version, logged, stops, corrupted, calls>>

(***************************************************************************)
(* Connecting.  onDisconnected clears the cache, which ends the program    *)
(* when the plugin map has an empty entry.                                 *)
(***************************************************************************)
\* onDisconnected and connect, with where to go on when it worked and when not.
Reconnect(next, Failed) ==
    IF ClearCrashes(cache)
    THEN /\ Goto("crashed")
         /\ UNCHANGED <<socketVars, monitoring, cache, entries, old, daemonVars, calls, leftover>>
    ELSE /\ cache' = Clear(cache)
         /\ \/ Connect /\ Goto(next)
            \/ ConnectFails /\ Failed
         /\ UNCHANGED <<monitoring, entries, old, daemonVars, calls, leftover>>

\* ensureConnection at the start of check and simpleCheck: SERVICE_NOT_AVAILABLE
\* when connect fails, UNKNOWN_ERROR when it throws.
NotAvailable == Return("SERVICE_NOT_AVAILABLE") \/ Return("UNKNOWN_ERROR")

EnsureConnection ==
    /\ call.at = "ensure"
    /\ \/ /\ IsConnected
          /\ Goto("lookup")
          /\ UNCHANGED <<socketVars, monitoring, cache, entries, old, daemonVars, calls, leftover>>
       \/ /\ ~IsConnected
          /\ Reconnect("lookup", NotAvailable)

(***************************************************************************)
(* The rest of check and simpleCheck.                                      *)
(***************************************************************************)
Lookup ==
    LET got == Get(cache, call.session, call.key)
    IN  /\ call.at = "lookup"
        /\ cache' = got.cache
        /\ call' = IF got.ret = "CACHE_MISS" THEN [call EXCEPT !.at = "send"]
                   ELSE IF call.op = "check"
                   THEN [call EXCEPT !.at = "record", !.ret = got.ret, !.then = "idle",
                                     !.answer = got.result.answer]
                   ELSE [call EXCEPT !.at = "idle", !.ret = got.ret, !.answer = got.result.answer]
        /\ UNCHANGED <<socketVars, monitoring, entries, old, daemonVars, calls, leftover>>

\* askCynaraServer sends; the loop of requestResponse connects again when the
\* connection is lost, and sends the same request again.
Send ==
    /\ call.at = "send"
    /\ \/ /\ SendToServer([type |-> call.op, key |-> call.key, seq |-> call.seq,
                           entries |-> <<>>])
          /\ Goto("wait")
          /\ UNCHANGED <<monitoring, cache, entries, old, daemonVars, calls, leftover>>
       \/ SendLost /\ Reconnect("send", NotAvailable)

\* The connection ended while the call waited.
ReceiveLost ==
    /\ call.at = "wait" /\ EndOfStream
    /\ leftover' = (leftover \/ Arrived # <<>>)
    /\ Goto("reconnect")
    /\ UNCHANGED <<monitoring, cache, entries, old, daemonVars, calls>>

RequestAgain ==
    /\ call.at = "reconnect"
    /\ Reconnect("send", NotAvailable)

\* A response is there.  Its class must be the one asked for; a simple check
\* that was not resolved is not kept.
Receive ==
    /\ call.at = "wait" /\ ReceiveTrue
    /\ TakeResponse
    /\ call' = IF Response.type # call.op
               THEN [call EXCEPT !.at = "idle", !.ret = "SERVICE_NOT_AVAILABLE"]
               ELSE IF Response.ret # "SUCCESS"
               THEN [call EXCEPT !.at = "idle", !.ret = Response.ret, !.answer = Response]
               ELSE [call EXCEPT !.at = IF call.op = "check" THEN "record" ELSE "store",
                                 !.answer = Response, !.ret = "SUCCESS", !.then = "store"]
    /\ UNCHANGED <<monitoring, cache, entries, old, daemonVars, calls, leftover>>

\* updateMonitor: on a cache hit with the decision, otherwise with the return
\* code of requestResult.  The clock may have gone on far enough for a flush.
Record ==
    /\ call.at = "record"
    /\ IF ~monitoring
       THEN UNCHANGED <<entries, old>> /\ Goto(call.then)
       ELSE /\ entries' = Append(entries, [seq |-> call.seq, entry |-> MonitorEntry(call.key, call.ret)])
            /\ old' \in {old, TRUE}
            /\ Goto(IF ShouldFlush(entries', old') THEN "flush" ELSE call.then)
    /\ UNCHANGED <<socketVars, monitoring, cache, daemonVars, calls, leftover>>

\* The policy type of an answer: a corrupted database denies everything.
AnswerType(a) == IF corrupted THEN "DENY" ELSE TypeOf(a.key, a.version)

\* m_cache.update, and the decision is returned.
Store ==
    LET result == [type |-> AnswerType(call.answer), answer |-> call.answer]
        done == Update(cache, call.session, call.key, result)
    IN  /\ call.at = "store"
        /\ IF UsesErased(cache, call.key, result)
           THEN Goto("crashed") /\ UNCHANGED cache
           ELSE Return(done.ret) /\ cache' = done.cache
        /\ UNCHANGED <<socketVars, monitoring, entries, old, daemonVars, calls, leftover>>

(***************************************************************************)
(* flushMonitor: ensureConnection, then MonitorEntriesPut is sent and the  *)
(* buffer is emptied.  A failure leaves the buffer for the next time.      *)
(***************************************************************************)
FlushFails == \/ Goto(call.then)
              \/ call.op # "finish" /\ Return("UNKNOWN_ERROR")

Flush ==
    /\ call.at = "flush"
    /\ \/ /\ IsConnected
          /\ Goto("put")
          /\ UNCHANGED <<socketVars, monitoring, cache, entries, old, daemonVars, calls, leftover>>
       \/ ~IsConnected /\ Reconnect("put", FlushFails)

\* Mutant: the buffer is kept.
PutEntriesMutant ==
    /\ call.at = "put"
    /\ Goto(call.then)
    /\ \/ SendToServer([type |-> "put", key |-> "none", seq |-> call.seq, entries |-> entries])
       \/ SendLost /\ UNCHANGED socketVars
    /\ UNCHANGED <<monitoring, cache, entries, old, daemonVars, calls, leftover>>
PutEntries ==
    /\ call.at = "put"
    /\ Goto(call.then)
    /\ \/ /\ SendToServer([type |-> "put", key |-> "none", seq |-> call.seq,
                           entries |-> entries])
          /\ entries' = <<>> /\ old' = FALSE
       \/ /\ SendLost
          /\ UNCHANGED <<socketVars, entries, old>>
    /\ UNCHANGED <<monitoring, cache, daemonVars, calls, leftover>>

(***************************************************************************)
(* The daemon.                                                             *)
(***************************************************************************)
\* It answers in order; a simple check may need an agent and is then not
\* resolved.  On a corrupted database a check is denied, and a simple check
\* throws: the daemon closes the connection without an answer.
Serve ==
    /\ IsConnected /\ link.reqs # <<>>
    /\ LET m == Head(link.reqs)
           rest == [link EXCEPT !.reqs = Tail(@)]
           Answer(ret) == [type |-> m.type, key |-> m.key, seq |-> m.seq,
                           version |-> version, ret |-> ret]
       IN  IF m.type = "put"
           THEN /\ logged' = logged \o m.entries
                /\ link' = rest
           ELSE IF m.type = "simple" /\ corrupted
           THEN link' = HangUp(link) /\ UNCHANGED logged
           ELSE /\ \E ret \in IF m.type = "simple" THEN {"SUCCESS", "ACCESS_NOT_RESOLVED"}
                              ELSE {"SUCCESS"} :
                       link' = [rest EXCEPT !.resps = Append(@, Answer(ret))]
                /\ UNCHANGED logged
    /\ UNCHANGED <<listening, readQueue, monitoring, cache, entries, old, call, version,
                   parting, stops, corrupted, calls, leftover>>

\* A connection the program has closed is read to its end.
ServeParting ==
    /\ parting # <<>>
    /\ logged' = logged \o Head(parting).entries
    /\ parting' = Tail(parting)
    /\ UNCHANGED <<socketVars, monitoring, cache, entries, old, call, version, stops,
                   corrupted, calls, leftover>>

\* New policies: onPoliciesChanged disconnects every client.  A change whose save
\* failed disconnects nobody and is no version here; on a corrupted database
\* every change is refused.
ChangePolicies ==
    /\ listening /\ ~corrupted /\ version < MaxVersion
    /\ version' = version + 1
    /\ link' = HangUp(link) /\ parting' = <<>>
    /\ UNCHANGED <<listening, readQueue, monitoring, cache, entries, old, call, logged,
                   stops, corrupted, calls, leftover>>

StopDaemon ==
    /\ listening /\ stops < MaxStops
    /\ stops' = stops + 1
    /\ listening' = FALSE
    /\ link' = HangUp(link) /\ parting' = <<>>
    /\ UNCHANGED <<readQueue, monitoring, cache, entries, old, call, version, logged,
                   corrupted, calls, leftover>>

StartDaemon ==
    /\ ~listening
    /\ listening' = TRUE
    /\ UNCHANGED <<link, readQueue, monitoring, cache, entries, old, call, daemonVars,
                   calls, leftover>>

Library == EnsureConnection \/ Lookup \/ Send \/ ReceiveLost \/ RequestAgain \/ Receive
             \/ Record \/ Store \/ Flush \/ PutEntries \/ Delete

ClientNext ==
    \/ \E q \in Questions : Check(q.key, q.session) \/ SimpleCheck(q.key, q.session)
    \/ Finish
    \/ Library
    \/ Serve \/ ServeParting \/ ChangePolicies \/ StopDaemon \/ StartDaemon

ClientSpec == ClientInit /\ [][ClientNext]_clientVars
                /\ WF_clientVars(Library) /\ WF_clientVars(Serve)

(***************************************************************************)
(* Properties.                                                             *)
(***************************************************************************)

\* The library never follows an iterator to an evicted element: a key that is
\* asked for is not in the cache any more when its answer is stored.  What ends
\* the program is only the empty entry of a policy type without a plugin.
CrashOnlyByMissingPlugin == call.at = "crashed" => cache.null

Answered == call.at = "idle" /\ call.answer.type # "none"

\* A decision returned by cynara_check or cynara_simple_check is for the key that
\* was asked and never older than the call, taken from the cache or not, although
\* the only way to learn of new policies is the closed connection, as long as no
\* response was left behind by a lost connection.  (With monitoring, a flush
\* between answer and update may clear the cache too early.)
DecisionFresh ==
    Answered /\ ~leftover =>
        /\ call.answer.key = call.key
        /\ ~monitoring => call.answer.version >= call.since

\* The lists of monitor entries, and where each is: with the daemon, on the way
\* from an earlier object or from this one, or still in the buffer.
Puts(reqs) == {i \in DOMAIN reqs : reqs[i].type = "put"}
Lists == {<<"logged", 1>>, <<"buffer", 1>>} \cup ({"parting"} \X Puts(parting)) \cup ({"link"} \X Puts(link.reqs))
EntriesIn(l) == CASE l[1] = "logged" -> logged
                  [] l[1] = "parting" -> parting[l[2]].entries
                  [] l[1] = "link" -> link.reqs[l[2]].entries
                  [] OTHER -> entries

\* The daemon gets every monitor entry at most once, whatever flush was
\* interrupted: no entry is in two places.
EntriesOnce ==
    \A l, m \in Lists : \A i \in DOMAIN EntriesIn(l), j \in DOMAIN EntriesIn(m) :
        EntriesIn(l)[i].seq = EntriesIn(m)[j].seq => l = m /\ i = j

\* Every call returns, however often the connection is lost in between, unless
\* the daemon hangs up on its request again and again: a simple check of a
\* corrupted database is sent again for ever (requestResponse).
CallReturns ==
    \/ []<>(call.at \in {"idle", "crashed"})
    \/ []<><<corrupted /\ call.op = "simple" /\ ~link.closed /\ link'.closed>>_clientVars
=============================================================================
