---------------------------- MODULE AsyncLibrary ----------------------------
(***************************************************************************)
(* libcynara-client-async: one cynara_async object, whose callbacks may    *)
(* call the library again.  The stack holds a frame for every function of  *)
(* the library that has not returned and for every callback that runs; the *)
(* program is in control when the stack is empty or a callback is on top.  *)
(* Between any two steps the daemon may answer, hang up, stop and start.   *)
(*                                                                         *)
(* CheckSystem has this library with the whole daemon behind it, its calls *)
(* in one step each; here the calls are taken apart, and of the daemon     *)
(* there is what it does with the requests of one connection.              *)
(***************************************************************************)
EXTENDS LibrarySocket, CapacityCache, FiniteSetsExt

CONSTANTS
  Keys,         \* the keys the program asks for
  Ids,          \* the sequence numbers
  MaxRequests,  \* bound: requests created
  MaxOthers,    \* bound: other calls that change something, process excepted
  MaxDepth,     \* bound: calls within callbacks within calls
  MaxStops      \* bound: hang-ups and stops of the daemon

ASSUME AsyncConstants == Ids \subseteq Nat /\ MaxRequests \in Nat

VARIABLES
  permitted,   \* m_operationPermitted
  answering,   \* m_inAnswerCancelResponseCallback
  checks,      \* m_checks; its domain are the ids taken from m_sequenceContainer
  unsent,      \* requests in m_writeQueue and in the buffer of the socket
  connecting,  \* "no", or m_connectionInProgress: "pending" until the kernel is "done"
  dead,        \* m_sock is a descriptor that was never connected
  shown,       \* what the status callback was told: m_sockFd and m_status
  cache,       \* m_cache
  entries,     \* m_monitorCache
  old,         \* m_cacheAgeSec has reached MAX_LOG_AGE_SEC
  stack,       \* the functions and callbacks that run, the innermost first
  object,      \* "live", "deleted", or "crashed"
  waiting,     \* daemon: the contexts of checks that wait for an agent
  corrupted,   \* daemon: m_dbCorrupted, it started on a database it cannot load
  dropped,     \* auxiliary: ids of which the daemon dropped a check on this connection
  outcome,     \* auxiliary: what the callback of each request was told
  lost,        \* auxiliary: requests whose answer was taken when an exception ended the call
  stranded,    \* auxiliary: connect threw, and was not called again
  budget       \* requests, other calls and stops so far

serviceVars == <<waiting, corrupted, dropped>>
thrown    == <<lost, stranded>>
asyncOwn  == <<permitted, answering, checks, unsent, connecting, dead, shown, cache, entries, old,
               stack, object, serviceVars, outcome, thrown, budget>>
asyncVars == <<socketVars, asyncOwn>>
\* What belongs to the connection.
linkVars == <<socketVars, connecting, dead, serviceVars>>

Unshown == [fd |-> FALSE, status |-> "READ"]
\* The descriptor of the socket, with a status.
Shown(status) == [fd |-> link.open \/ dead, status |-> status]

AsyncInit ==
    /\ SocketInit
    /\ permitted = TRUE /\ answering = FALSE
    /\ checks = [id \in {} |-> 0] /\ unsent = <<>>
    /\ connecting = "no" /\ dead = FALSE
    /\ shown = Unshown /\ cache = EmptyCache /\ entries = <<>> /\ old = FALSE
    /\ stack = <<>> /\ object = "live"
    /\ waiting = {} /\ corrupted \in BOOLEAN /\ dropped = {}
    /\ outcome = [n \in 1 .. MaxRequests |-> "none"] /\ lost = {} /\ stranded = FALSE
    /\ budget = [requests |-> 0, others |-> 0, stops |-> 0]

Frame(fn, at) == [fn |-> fn, at |-> at]
Callback == Frame("callback", "app")
Top      == IF stack = <<>> THEN Frame("none", "none") ELSE Head(stack)
Below    == Tail(stack)
To(at)   == <<[Top EXCEPT !.at = at]>> \o Below
At(f, a) == object = "live" /\ Top.fn = f /\ Top.at = a
InApp    == object = "live" /\ Top.fn \in {"none", "callback"}

ApiFunctions == {"create", "cancel", "process", "cache", "finish"}
ApiFrames == SelectSeq(stack, LAMBDA f : f.fn \in ApiFunctions)

\* ResponseCallback: the program is told about request n.
Told(n, cause) ==
    outcome' = [outcome EXCEPT ![n] = IF @ = "pending" THEN cause ELSE "TWICE"]

\* onStatusChange and StatusCallback::onStatusChange: the callback runs when
\* something is new, and until it returns no operation is permitted.
OnStatusChange(new, frames) ==
    IF shown = new THEN stack' = frames /\ UNCHANGED permitted
    ELSE /\ stack' = <<Callback, [fn |-> "status", at |-> "set", new |-> new]>> \o frames
         /\ permitted' = FALSE

StatusChanged ==
    /\ At("status", "set")
    /\ shown' = Top.new /\ permitted' = TRUE /\ stack' = Below
    /\ UNCHANGED <<linkVars, answering, checks, unsent, cache, entries, old, object,
                   outcome, thrown, budget>>

\* The program's callback returns.
CallbackReturns ==
    /\ At("callback", "app")
    /\ stack' = Below
    /\ UNCHANGED <<linkVars, permitted, answering, checks, unsent, shown, cache,
                   entries, old, object, outcome, thrown, budget>>

\* An exception ends the innermost call of the API, with the answer that it was
\* about to tell.
Unwind ==
    LET api == {i \in DOMAIN stack : stack[i].fn \in ApiFunctions}
        inner == CHOOSE i \in api : \A j \in api : i <= j
    IN  /\ stack' = SubSeq(stack, inner + 1, Len(stack))
        /\ lost' = lost \union {stack[i].req : i \in {j \in 1 .. inner : stack[j].at = "tell"}}

(***************************************************************************)
(* The API.  While no operation is permitted every call is refused.        *)
(***************************************************************************)
Begin(frame) ==
    /\ InApp /\ permitted /\ Len(ApiFrames) < MaxDepth
    /\ stack' = <<frame>> \o stack
    /\ UNCHANGED <<linkVars, permitted, answering, checks, unsent, shown, cache,
                   entries, old, object, outcome, thrown>>

CreateRequest(key, simple) ==
    /\ budget.requests < MaxRequests
    /\ budget' = [budget EXCEPT !.requests = @ + 1]
    /\ Begin([fn |-> "create", at |-> "ensure", key |-> key, simple |-> simple,
              req |-> budget.requests + 1])

CancelRequest(id) ==
    /\ budget.others < MaxOthers
    /\ budget' = [budget EXCEPT !.others = @ + 1]
    /\ Begin([fn |-> "cancel", at |-> "ensure", id |-> id, saved |-> answering])

CheckCache(key) ==
    /\ budget.others < MaxOthers
    /\ budget' = [budget EXCEPT !.others = @ + 1]
    /\ Begin([fn |-> "cache", at |-> "get", key |-> key])

\* The program calls process when the descriptor it was shown is ready.
Ready == /\ shown.fd /\ connecting # "pending"
         /\ shown.status = "RW" \/ link.resps # <<>> \/ link.closed \/ dead
ProcessReady ==
    /\ stack = <<>> /\ Ready
    /\ UNCHANGED budget
    /\ Begin(Frame("process", "complete"))
\* From a callback it may call process with nothing to do, too.
ProcessInCallback ==
    /\ stack # <<>> /\ shown.fd
    /\ budget.others < MaxOthers
    /\ budget' = [budget EXCEPT !.others = @ + 1]
    /\ Begin(Frame("process", "complete"))

IsFinishPermitted == permitted /\ ~answering
Finish ==
    /\ IsFinishPermitted
    /\ budget.others < MaxOthers
    /\ budget' = [budget EXCEPT !.others = @ + 1]
    /\ Begin(Frame("finish", "flush"))

(***************************************************************************)
(* ensureConnection: the caller goes on where it is when there is a        *)
(* connection in the end, and at "failed" when there is none.              *)
(***************************************************************************)
Connected == connecting # "no" \/ IsConnected

Ensured ==
    /\ object = "live"
    /\ Top.fn \in {"create", "cancel", "flush"} /\ Top.at = "ensure"
    /\ stack' = (IF Connected THEN <<>> ELSE <<Frame("reconnect", "disconnected")>>) \o To("go")
    /\ UNCHANGED <<linkVars, permitted, answering, checks, unsent, shown, cache,
                   entries, old, object, outcome, thrown, budget>>

\* create, cancel, flush and process end when there is no connection, a look at
\* the cache when it has flushed.
FunctionReturns ==
    /\ object = "live" /\ Top.at \in {"failed", "end"}
    /\ stack' = Below
    /\ UNCHANGED <<linkVars, permitted, answering, checks, unsent, shown, cache,
                   entries, old, object, outcome, thrown, budget>>

\* onDisconnected.
OnDisconnected ==
    /\ object = "live"
    /\ Top.fn = "reconnect" /\ Top.at \in {"disconnected", "incomplete"}
    /\ IF ClearCrashes(cache)
       THEN object' = "crashed" /\ UNCHANGED <<cache, stack, permitted>>
       ELSE /\ cache' = Clear(cache) /\ UNCHANGED object
            /\ OnStatusChange(Unshown,
                   To(IF Top.at = "disconnected" THEN "connect" ELSE "unavailable"))
    /\ UNCHANGED <<linkVars, answering, checks, unsent, shown, entries, old,
                   outcome, thrown, budget>>

RequestFor(id, c) == [type |-> IF c.simple THEN "simple" ELSE "check", id |-> id]
Kept == {id \in DOMAIN checks : ~checks[id].cancelled}
\* Mutant: nothing is sent again.
PrepareRequestsMutant ==
    /\ unsent' = <<>>
    /\ checks' = [id \in Kept |-> checks[id]]
\* prepareRequestsToSend, behind the clear of SocketClientAsync::connect.
PrepareRequestsToSend ==
    LET ids == CHOOSE s \in [1 .. Cardinality(Kept) -> Kept] :
                   \A i, j \in DOMAIN s : i < j => s[i] < s[j]
    IN  /\ unsent' = [i \in DOMAIN ids |-> RequestFor(ids[i], checks[ids[i]])]
        /\ checks' = [id \in Kept |-> checks[id]]

\* connect succeeds, at once or in progress.
ConnectAsync ==
    /\ At("reconnect", "connect") /\ listening
    /\ link' = FreshLink /\ readQueue' = <<>> /\ dead' = FALSE
    /\ waiting' = {} /\ dropped' = {} /\ stranded' = FALSE
    /\ connecting' \in {"no", "pending"}
    /\ PrepareRequestsToSend
    /\ OnStatusChange([fd |-> TRUE, status |-> IF connecting' = "pending" \/ unsent' # <<>>
                                               THEN "RW" ELSE "READ"], Below)
    /\ UNCHANGED <<listening, corrupted, answering, shown, cache, entries, old, object, outcome, lost,
                   budget>>

\* Nobody listens.  ECONNREFUSED leaves a descriptor behind and fails; any other
\* error throws, past the clear of both queues, and what was in the queue of
\* requests then goes with the next connect.
ConnectRefused ==
    /\ At("reconnect", "connect") /\ ~listening
    /\ link' = NoLink /\ waiting' = {} /\ dropped' = {} /\ unsent' = <<>>
    /\ \/ /\ stack' = To("unavailable") /\ readQueue' = <<>> /\ dead' = TRUE
          /\ stranded' = FALSE /\ UNCHANGED lost
       \/ /\ Unwind /\ dead' = FALSE /\ UNCHANGED readQueue
          /\ stranded' = TRUE
    /\ UNCHANGED <<listening, corrupted, permitted, answering, checks, connecting, shown, cache, entries, old,
                   object, outcome, budget>>

\* onServiceNotAvailable: every request is told, in the order of the map, then
\* all are forgotten.
OnServiceNotAvailable ==
    /\ At("reconnect", "unavailable")
    /\ permitted' = FALSE
    /\ stack' = <<[fn |-> "telling", at |-> "next", left |-> Kept,
                   cause |-> "SERVICE_NOT_AVAILABLE"]>>
                  \o <<[Below[1] EXCEPT !.at = "failed"]>> \o Tail(Below)
    /\ UNCHANGED <<linkVars, answering, checks, unsent, shown, cache, entries, old,
                   object, outcome, thrown, budget>>

TellNext ==
    /\ At("telling", "next")
    /\ IF Top.left # {}
       THEN /\ Told(checks[Min(Top.left)].req, Top.cause)
            /\ stack' = <<Callback, [Top EXCEPT !.left = @ \ {Min(@)}]>> \o Below
            /\ UNCHANGED <<permitted, checks>>
       ELSE /\ stack' = Below /\ UNCHANGED outcome
            /\ IF Top.cause = "FINISH" THEN UNCHANGED <<permitted, checks>>
               ELSE permitted' = TRUE /\ checks' = [id \in {} |-> 0]
    /\ UNCHANGED <<linkVars, answering, unsent, shown, cache, entries, old, object,
                   thrown, budget>>

(***************************************************************************)
(* createRequest and cancelRequest, once there is a connection.            *)
(***************************************************************************)
\* SequenceContainer::get.
FreeIds == Ids \ DOMAIN checks

CreateGo ==
    /\ At("create", "go")
    /\ IF FreeIds = {}
       THEN stack' = Below /\ UNCHANGED <<checks, unsent, outcome, permitted>>
       ELSE LET id == Min(FreeIds)
                c  == [key |-> Top.key, simple |-> Top.simple, req |-> Top.req, cancelled |-> FALSE]
            IN  /\ checks' = [i \in DOMAIN checks \union {id} |-> IF i = id THEN c ELSE checks[i]]
                /\ unsent' = Append(unsent, RequestFor(id, c))
                /\ outcome' = [outcome EXCEPT ![c.req] = "pending"]
                /\ OnStatusChange(Shown("RW"), Below)
    /\ UNCHANGED <<linkVars, answering, shown, cache, entries, old, object, thrown, budget>>

\* Mutant: the request is not marked.
CancelGoMutant ==
    /\ At("cancel", "go")
    /\ IF Top.id \notin Kept
       THEN stack' = Below /\ UNCHANGED <<checks, unsent, outcome, answering>>
       ELSE /\ unsent' = Append(unsent, [type |-> "cancel", id |-> Top.id])
            /\ UNCHANGED checks
            /\ answering' = TRUE
            /\ Told(checks[Top.id].req, "CANCEL")
            /\ stack' = <<Callback, [Top EXCEPT !.at = "restore", !.saved = answering]>> \o Below
    /\ UNCHANGED <<linkVars, permitted, shown, cache, entries, old, object, thrown, budget>>
\* cancelRequest, up to its callback.
CancelGo ==
    /\ At("cancel", "go")
    /\ IF Top.id \notin Kept
       THEN stack' = Below /\ UNCHANGED <<checks, unsent, outcome, answering>>
       ELSE /\ unsent' = Append(unsent, [type |-> "cancel", id |-> Top.id])
            /\ checks' = [checks EXCEPT ![Top.id].cancelled = TRUE]
            /\ answering' = TRUE
            /\ Told(checks[Top.id].req, "CANCEL")
            /\ stack' = <<Callback, [Top EXCEPT !.at = "restore", !.saved = answering]>> \o Below
    /\ UNCHANGED <<linkVars, permitted, shown, cache, entries, old, object, thrown, budget>>

CancelRestore ==
    /\ At("cancel", "restore")
    /\ answering' = Top.saved
    /\ OnStatusChange(Shown("RW"), Below)
    /\ UNCHANGED <<linkVars, checks, unsent, shown, cache, entries, old, object, outcome, thrown,
                   budget>>

(***************************************************************************)
(* process: completeConnection, processOut, processIn, and again when the  *)
(* connection was lost.                                                    *)
(***************************************************************************)
CompleteConnection ==
    /\ At("process", "complete")
    /\ \/ /\ connecting = "no"
          /\ stack' = To("out") /\ UNCHANGED <<connecting, readQueue, unsent, permitted>>
       \/ /\ connecting = "pending"
          /\ stack' = Below /\ UNCHANGED <<connecting, readQueue, unsent, permitted>>
       \/ /\ connecting = "done" /\ ~link.closed
          /\ connecting' = "no"
          /\ OnStatusChange(Shown(IF unsent # <<>> THEN "RW" ELSE "READ"), To("out"))
          /\ UNCHANGED <<readQueue, unsent>>
       \/ /\ connecting = "done" /\ link.closed
          /\ connecting' = "no" /\ readQueue' = <<>> /\ unsent' = <<>>
          /\ stack' = <<Frame("reconnect", "incomplete")>> \o stack
          /\ UNCHANGED permitted
    /\ UNCHANGED <<listening, link, dead, serviceVars, answering, checks, shown, cache, entries, old, object,
                   outcome, thrown, budget>>

Send(n) == /\ link' = [link EXCEPT !.reqs = @ \o SubSeq(unsent, 1, n)]
           /\ unsent' = SubSeq(unsent, n + 1, Len(unsent))

\* processOut: everything is sent, or a part because the daemon is slow to
\* read, or the connection is lost (found out only when there is data).
ProcessOut ==
    /\ At("process", "out")
    /\ \/ /\ IsConnected \/ unsent = <<>>
          /\ Send(Len(unsent))
          /\ OnStatusChange(Shown("READ"), To("in"))
       \/ /\ IsConnected
          /\ \E n \in 0 .. Len(unsent) - 1 : (n > 0 \/ link.reqs # <<>>) /\ Send(n)
          /\ stack' = To("in") /\ UNCHANGED permitted
       \/ /\ ~IsConnected /\ unsent # <<>>
          /\ stack' = To("lost") /\ UNCHANGED <<link, unsent, permitted>>
    /\ UNCHANGED <<listening, readQueue, connecting, dead, serviceVars, answering, checks, shown, cache,
                   entries, old, object, outcome, thrown, budget>>

\* processIn; a descriptor that was never connected cannot be read.
ProcessIn ==
    /\ At("process", "in")
    /\ IF dead THEN Unwind /\ UNCHANGED <<link, readQueue>>
       ELSE /\ readQueue' = Arrived /\ link' = [link EXCEPT !.resps = <<>>]
            /\ stack' = To(IF link.closed THEN "lost" ELSE "responses")
            /\ UNCHANGED lost
    /\ UNCHANGED <<listening, connecting, dead, serviceVars, stranded, permitted, answering, checks, unsent, shown,
                   cache, entries, old, object, outcome, budget>>

ProcessLost ==
    /\ At("process", "lost")
    /\ stack' = <<Frame("reconnect", "disconnected")>> \o To("complete")
    /\ UNCHANGED <<linkVars, permitted, answering, checks, unsent, shown, cache, entries, old, object,
                   outcome, thrown, budget>>

Release(id) == checks' = [i \in DOMAIN checks \ {id} |-> checks[i]]

\* processResponses: nothing left, or a response whose number is not in use,
\* or a cancellation that was not asked for.
ResponsesEnd ==
    /\ At("process", "responses")
    /\ \/ readQueue = <<>> /\ stack' = Below /\ UNCHANGED <<readQueue, lost>>
       \/ /\ readQueue # <<>>
          /\ LET r == Head(readQueue)
             IN  r.id \notin DOMAIN checks \/ (r.type = "cancel" /\ r.id \in Kept)
          /\ readQueue' = Tail(readQueue) /\ Unwind
    /\ UNCHANGED <<listening, link, connecting, dead, serviceVars, stranded, permitted, answering, checks, unsent, shown,
                   cache, entries, old, object, outcome, budget>>

ProcessCancelResponse ==
    /\ At("process", "responses") /\ readQueue # <<>>
    /\ LET r == Head(readQueue)
       IN  r.type = "cancel" /\ r.id \in DOMAIN checks \ Kept /\ Release(r.id)
    /\ readQueue' = Tail(readQueue)
    /\ UNCHANGED <<listening, link, connecting, dead, serviceVars, permitted, answering, unsent, shown, cache,
                   entries, old, stack, object, outcome, thrown, budget>>

\* updateMonitor, with the flush on top of the frames when one is due.
UpdateMonitor(key, result, frames) ==
    /\ entries' = Append(entries, MonitorEntry(key, result))
    /\ old' \in {old, TRUE}
    /\ stack' = (IF ShouldFlush(entries', old') THEN <<Frame("flush", "ensure")>> ELSE <<>>)
                   \o frames

\* processCheckResponse and processSimpleCheckResponse, up to the callback.
ProcessCheckResponse ==
    /\ At("process", "responses") /\ readQueue # <<>>
    /\ LET r == Head(readQueue)
           c == checks[r.id]
           kept == r.ret = "SUCCESS"
           result == [type |-> r.policy]
           done == Update(cache, "session", c.key, result)
           answer == [fn |-> "answer", at |-> "tell", req |-> c.req, told |-> ~c.cancelled]
       IN  /\ r.type \in {"check", "simple"} /\ r.id \in DOMAIN checks
           /\ readQueue' = Tail(readQueue)
           /\ Release(r.id)
           /\ cache' = IF kept THEN done.cache ELSE cache
           /\ object' = IF kept /\ UsesErased(cache, c.key, result) THEN "crashed" ELSE object
           /\ IF r.type = "check" THEN UpdateMonitor(c.key, done.ret, <<answer>> \o stack)
              ELSE stack' = <<answer>> \o stack /\ UNCHANGED <<entries, old>>
    /\ UNCHANGED <<listening, link, connecting, dead, serviceVars, permitted, answering, unsent, shown,
                   outcome, thrown, budget>>

\* Mutant: finish is permitted in the callback.
TellAnswerMutant ==
    /\ At("answer", "tell")
    /\ IF Top.told
       THEN /\ UNCHANGED answering
            /\ Told(Top.req, "ANSWER")
            /\ stack' = <<Callback, [fn |-> "answer", at |-> "restore", saved |-> answering]>> \o Below
       ELSE stack' = Below /\ UNCHANGED <<answering, outcome>>
    /\ UNCHANGED <<linkVars, permitted, checks, unsent, shown, cache, entries, old, object, thrown,
                   budget>>
\* The callback of an answer, unless the request was cancelled.
TellAnswer ==
    /\ At("answer", "tell")
    /\ IF Top.told
       THEN /\ answering' = TRUE
            /\ Told(Top.req, "ANSWER")
            /\ stack' = <<Callback, [fn |-> "answer", at |-> "restore", saved |-> answering]>> \o Below
       ELSE stack' = Below /\ UNCHANGED <<answering, outcome>>
    /\ UNCHANGED <<linkVars, permitted, checks, unsent, shown, cache, entries, old, object, thrown,
                   budget>>

AnswerRestore ==
    /\ At("answer", "restore")
    /\ answering' = Top.saved /\ stack' = Below
    /\ UNCHANGED <<linkVars, permitted, checks, unsent, shown, cache, entries, old, object, outcome,
                   thrown, budget>>

(***************************************************************************)
(* checkCache and flushMonitor.                                            *)
(***************************************************************************)
CacheGet ==
    LET got == Get(cache, "session", Top.key)
    IN  /\ At("cache", "get")
        /\ IF ~Connected THEN stack' = Below /\ UNCHANGED <<cache, entries, old>>
           ELSE /\ cache' = got.cache
                /\ IF got.ret = "CACHE_MISS" THEN stack' = To("again") /\ UNCHANGED <<entries, old>>
                   ELSE UpdateMonitor(Top.key, got.ret, To("again"))
        /\ UNCHANGED <<linkVars, permitted, answering, checks, unsent, shown, object, outcome, thrown,
                       budget>>

\* What updateMonitor could not flush is tried once more.
CacheFlush ==
    /\ At("cache", "again")
    /\ stack' = (IF ShouldFlush(entries, old) THEN <<Frame("flush", "ensure")>> ELSE <<>>)
                   \o To("end")
    /\ UNCHANGED <<linkVars, permitted, answering, checks, unsent, shown, cache, entries, old, object,
                   outcome, thrown, budget>>

FlushGo ==
    /\ At("flush", "go")
    /\ unsent' = Append(unsent, [type |-> "entries", id |-> 0])
    /\ entries' = <<>> /\ old' = FALSE
    /\ OnStatusChange(Shown("RW"), Below)
    /\ UNCHANGED <<linkVars, answering, checks, shown, cache, object, outcome, thrown, budget>>

(***************************************************************************)
(* cynara_async_finish: tryFlushMonitor sends what it can, and throws on a *)
(* descriptor that was never connected; the destructor tells everybody.    *)
(***************************************************************************)
TryFlushMonitor ==
    LET all == unsent \o [i \in DOMAIN entries |-> [type |-> "entry", id |-> 0]]
    IN  /\ At("finish", "flush")
        /\ \/ /\ dead /\ all # <<>>
              /\ Unwind /\ unsent' = all /\ UNCHANGED <<link, permitted>>
           \/ /\ ~(dead /\ all # <<>>)
              /\ unsent' = <<>>
              /\ link' = IF IsConnected /\ connecting # "pending"
                         THEN [link EXCEPT !.reqs = @ \o all] ELSE link
              /\ permitted' = FALSE
              /\ stack' = <<[fn |-> "telling", at |-> "next", left |-> Kept,
                             cause |-> "FINISH"]>> \o To("status")
              /\ UNCHANGED lost
        /\ UNCHANGED <<listening, readQueue, connecting, dead, serviceVars, stranded, answering, checks, shown, cache,
                       entries, old, object, outcome, budget>>

FinishStatus ==
    /\ At("finish", "status")
    /\ shown' = Unshown
    /\ stack' = (IF shown = Unshown THEN <<>> ELSE <<Callback>>) \o To("delete")
    /\ UNCHANGED <<linkVars, permitted, answering, checks, unsent, cache, entries, old, object,
                   outcome, thrown, budget>>

Delete ==
    /\ At("finish", "delete")
    /\ object' = "deleted" /\ stack' = Below
    /\ link' = [link EXCEPT !.open = FALSE, !.resps = <<>>] /\ readQueue' = <<>>
    /\ UNCHANGED <<listening, connecting, dead, serviceVars, permitted, answering, checks, unsent, shown, cache,
                   entries, old, outcome, thrown, budget>>

(***************************************************************************)
(* The kernel and the daemon.                                              *)
(***************************************************************************)
libraryVars == <<permitted, answering, checks, unsent, dead, shown, cache, entries, old, stack,
                 object, outcome, thrown>>

ConnectionDone ==
    /\ connecting = "pending" /\ connecting' = "done"
    /\ UNCHANGED <<socketVars, serviceVars, libraryVars, budget>>

ResponseTo(m, ret) == [type |-> m.type, id |-> m.id, ret |-> ret, policy |-> "ALLOW"]
\* The first request is read, and the responses go out behind the earlier ones.
Read(resps) == link' = [link EXCEPT !.reqs = Tail(@), !.resps = @ \o resps]
Context(id) == {h \in waiting : h.id = id}

\* Logic::check: a check whose id has a context, be it cancelled, is dropped; any
\* other is answered at once or waits for an agent.
ServeCheck(m) ==
    \/ /\ Context(m.id) # {}
       /\ Read(<<>>) /\ dropped' = dropped \union {m.id} /\ UNCHANGED waiting
    \/ /\ Context(m.id) = {}
       /\ Read(<<ResponseTo(m, "SUCCESS")>>) /\ UNCHANGED <<waiting, dropped>>
    \/ /\ Context(m.id) = {} /\ ~corrupted
       /\ Read(<<>>) /\ UNCHANGED dropped
       /\ waiting' = waiting \union {[type |-> "check", id |-> m.id, cancelled |-> FALSE]}

\* A simple check is answered at once; on a corrupted database it throws, and the
\* daemon closes the connection.
ServeSimpleCheck(m) ==
    IF corrupted THEN link' = HangUp(link) /\ waiting' = {} /\ UNCHANGED dropped
    ELSE /\ \E ret \in {"SUCCESS", "ACCESS_NOT_RESOLVED"} : Read(<<ResponseTo(m, ret)>>)
         /\ UNCHANGED <<waiting, dropped>>

\* The first cancellation of a waiting check is confirmed; the context stays until
\* the agent has answered.
ServeCancel(m) ==
    LET open == {h \in Context(m.id) : ~h.cancelled}
    IN  /\ waiting' = (waiting \ open) \union {[h EXCEPT !.cancelled = TRUE] : h \in open}
        /\ Read(IF open = {} THEN <<>> ELSE <<ResponseTo(m, "SUCCESS")>>)
        /\ UNCHANGED dropped

ServeRequest ==
    /\ link.reqs # <<>>
    /\ LET m == Head(link.reqs)
       IN  \/ m.type = "check" /\ ServeCheck(m)
           \/ m.type = "simple" /\ ServeSimpleCheck(m)
           \/ m.type = "cancel" /\ ServeCancel(m)
           \/ m.type \in {"entries", "entry"} /\ Read(<<>>) /\ UNCHANGED <<waiting, dropped>>
    /\ UNCHANGED <<listening, readQueue, connecting, corrupted, libraryVars, budget>>

\* The agent has answered, or is gone: the context is removed, and the client is
\* answered unless it has cancelled.
AnswerHeld ==
    /\ IsConnected
    /\ \E h \in waiting :
           /\ waiting' = waiting \ {h}
           /\ link' = IF h.cancelled THEN link
                      ELSE [link EXCEPT !.resps = Append(@, ResponseTo(h, "SUCCESS"))]
    /\ UNCHANGED <<listening, readQueue, connecting, corrupted, dropped, libraryVars, budget>>

\* The daemon closes the connection because the policies have changed, or stops.
DaemonGone(up) ==
    /\ listening /\ budget.stops < MaxStops
    /\ budget' = [budget EXCEPT !.stops = @ + 1]
    /\ listening' = up
    /\ link' = HangUp(link) /\ waiting' = {}
    /\ UNCHANGED <<readQueue, connecting, corrupted, dropped, libraryVars>>

DaemonStarts ==
    /\ ~listening /\ listening' = TRUE
    /\ UNCHANGED <<link, readQueue, connecting, serviceVars, libraryVars, budget>>

AsyncStep ==
    \/ StatusChanged \/ CallbackReturns \/ Ensured \/ FunctionReturns
    \/ OnDisconnected \/ ConnectAsync \/ ConnectRefused \/ OnServiceNotAvailable \/ TellNext
    \/ CreateGo \/ CancelGo \/ CancelRestore
    \/ CompleteConnection \/ ProcessOut \/ ProcessIn \/ ProcessLost
    \/ ResponsesEnd \/ ProcessCancelResponse \/ ProcessCheckResponse \/ TellAnswer \/ AnswerRestore
    \/ CacheGet \/ CacheFlush \/ FlushGo
    \/ TryFlushMonitor \/ FinishStatus \/ Delete

Environment == ConnectionDone \/ ServeRequest \/ AnswerHeld

AsyncNext ==
    \/ \E key \in Keys : CreateRequest(key, TRUE) \/ CreateRequest(key, FALSE) \/ CheckCache(key)
    \/ \E id \in Ids : CancelRequest(id)
    \/ ProcessReady \/ ProcessInCallback \/ Finish
    \/ AsyncStep
    \/ Environment
    \/ DaemonGone(TRUE) \/ DaemonGone(FALSE) \/ DaemonStarts

\* Functions and callbacks run to their end, the program calls process when its
\* descriptor is ready, and the daemon answers what it has read.
AsyncSpec ==
    /\ AsyncInit /\ [][AsyncNext]_asyncVars
    /\ WF_asyncVars(AsyncStep) /\ WF_asyncVars(ProcessReady) /\ WF_asyncVars(Environment)

(***************************************************************************)
(* Properties.                                                             *)
(***************************************************************************)
\* cynara-client-async.h: the response callback is triggered exactly once.  No
\* request is called back twice, with whatever calls were made from callbacks,
\* over reconnections, cancellations and finish.
OneCallbackEach == \A n \in DOMAIN outcome : outcome[n] # "TWICE"

\* The object is deleted only while no other function of the library runs: the
\* functions below a callback would go on with a deleted object.
FinishWhenQuiet == object = "deleted" => stack = <<>>

\* Every request is called back in the end, unless the cache has used an evicted
\* element, the daemon dropped it (its id has a cancelled context there), the
\* flush behind its answer could not connect and threw, connect threw and the
\* program makes no other call that connects, or the daemon hangs up on a simple
\* check of a corrupted database again and again.
RequestsAnswered ==
    \/ []<>\A n \in DOMAIN outcome :
              outcome[n] = "pending" =>
                  \/ object = "crashed" \/ n \in lost \/ stranded
                  \/ \E id \in dropped \intersect DOMAIN checks : checks[id].req = n
    \/ []<><<corrupted /\ ~link.closed /\ link'.closed>>_asyncVars
=============================================================================
