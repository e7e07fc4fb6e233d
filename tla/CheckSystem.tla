---------------------------- MODULE CheckSystem -----------------------------
(***************************************************************************)
(* CheckService together with the programs at the other end of its links:  *)
(* processes that use libcynara-client-async and agents that use           *)
(* libcynara-agent.  A link carries two FIFO byte streams: "in" towards    *)
(* the daemon, "out" (of CheckService) towards the peer.                   *)
(***************************************************************************)
EXTENDS CheckService

CONSTANTS
  Clients,      \* cynara_async objects
  Policies,     \* the policies administrators install
  DbStates,     \* values m_dbCorrupted may have after loading
  MaxRequests,  \* requests created by all clients together
  Disturbances, \* subset of {"stop", "leave", "change", "finish", "cancel", "simple", "late"}
  MaxFaults,    \* number of stops, leaves, changes and finishes
  NoData        \* no request with this id in Logic::m_checks of a client

ASSUME SystemAssumption ==
  /\ Policies \subseteq [Keys -> PolicyTypes]
  /\ DbStates \subseteq BOOLEAN
  /\ CheckIds \subseteq Nat
  /\ MaxRequests \in Nat /\ MaxFaults \in Nat
  /\ NoLink \notin ClientLinks
  /\ NoData \notin [req : 1 .. MaxRequests, key : Keys, simple : BOOLEAN, cancelled : BOOLEAN]

VARIABLES
  in,      \* requests on their way to the daemon
  hup,     \* links the peer closed and the daemon did not yet
  conn,    \* link of each client, NoLink before the first connect
  data,    \* Logic::m_checks of each client
  used,    \* SequenceContainer of each client: ids in use
  cache,   \* decisions cached by each client, "MISS" if none
  status,  \* auxiliary: what the callback of each request reported so far
  faults,  \* auxiliary: disturbances so far
  agConn,  \* link of the agent of each type
  todo     \* questions an agent has received and not answered

pvars == <<in, hup, conn, data, used, cache, status, faults, agConn, todo>>
vars == <<svars, pvars>>

Requests == 1 .. MaxRequests
EmptyCache == [k \in Keys |-> "MISS"]

-----------------------------------------------------------------------------
\* Calls of the application's response callback.
Callback(reqs, cause) ==
  status' = [n \in Requests |-> IF n \in reqs
                                  THEN IF status[n] = "pending" THEN cause ELSE "TWICE"
                                  ELSE status[n]]

Ids(c) == {id \in CheckIds : data[c][id] # NoData}
Waiting(c) == {data[c][id].req : id \in {i \in Ids(c) : ~data[c][i].cancelled}}

Disturb(d) == d \in Disturbances /\ faults < MaxFaults /\ faults' = faults + 1

\* Links of CheckService that the daemon closes lose their unread input; links
\* the daemon keeps get "q".
Inputs(q) == in' = [l \in Links |-> IF l \in open' THEN q[l] ELSE <<>>]

\* Socket::isConnected: the descriptor is open and poll reports no hang-up.
Connected(c) == conn[c] \in open
Held(l) == (\E c \in Clients : conn[c] = l) \/ (\E t \in AgentTypes : agConn[t] = l)

RequestMsg(id, d) == [op |-> IF d.simple THEN "simple" ELSE "check", id |-> id, key |-> d.key]

\* The order in which a std::map with unsigned keys is traversed.
Ascending(S) ==
  CHOOSE s \in [1 .. Cardinality(S) -> S] : \A i, j \in DOMAIN s : i < j => s[i] < s[j]

\* prepareRequestsToSend: cancelled requests are forgotten, the others resent
\* in the order of their ids.
Kept(c) == {id \in Ids(c) : ~data[c][id].cancelled}
\* Mutants: cancelled requests are resent; nothing is resent.
ResentAll(c) ==
  LET ids == Ascending(Ids(c)) IN [i \in DOMAIN ids |-> RequestMsg(ids[i], data[c][ids[i]])]
ResentNothing(c) == <<>>
Resent(c) ==
  LET ids == Ascending(Kept(c)) IN [i \in DOMAIN ids |-> RequestMsg(ids[i], data[c][ids[i]])]

\* Mutant: a new connection takes over what the link's last user left.
EnsureDirty(c, l) ==
  \/ Connected(c) /\ l = conn[c] /\ UNCHANGED svars
  \/ /\ ~Connected(c) /\ ~Held(l) /\ running /\ l \notin open
     /\ open' = open \cup {l}
     /\ UNCHANGED <<running, dbCorrupted, policy, saveFailed, agents, talkers, seqNo, checks, out>>
\* Mutant: the cache survives the connection.
CacheKept(c) == cache[c]

\* Logic::ensureConnection and connect.  The rest of an API call works with the
\* link l, the requests Data, the ids Used and the unsent input Queue.
Ensure(c, l) ==
  \/ Connected(c) /\ l = conn[c] /\ UNCHANGED svars
  \/ ~Connected(c) /\ ~Held(l) /\ Accept(l)
Data(c) == IF Connected(c) THEN data[c]
           ELSE [id \in CheckIds |-> IF id \in Kept(c) THEN data[c][id] ELSE NoData]
Used(c) == IF Connected(c) THEN used[c] ELSE used[c] \ (Ids(c) \ Kept(c))
Cache(c) == IF Connected(c) THEN cache[c] ELSE EmptyCache
Queue(c, l) == IF Connected(c) THEN in[l] ELSE Resent(c)

-----------------------------------------------------------------------------
\* createCheckRequest and createSimpleRequest.  SequenceContainer::get hands out
\* the lowest free id; without one the call fails with MAX_PENDING_REQUESTS.
CreateRequest(c, l, k, simple) ==
  LET free == CheckIds \ Used(c)
      id == CHOOSE i \in free : \A j \in free : i <= j
      unused == {n \in Requests : status[n] = "none"}
      n == CHOOSE i \in unused : \A j \in unused : i <= j
      d == [req |-> n, key |-> k, simple |-> simple, cancelled |-> FALSE]
  IN
  /\ unused # {}
  /\ simple => "simple" \in Disturbances
  /\ Ensure(c, l)
  /\ conn' = [conn EXCEPT ![c] = l]
  /\ cache' = [cache EXCEPT ![c] = Cache(c)]
  /\ IF free = {}
       THEN /\ data' = [data EXCEPT ![c] = Data(c)]
            /\ used' = [used EXCEPT ![c] = Used(c)]
            /\ Inputs([in EXCEPT ![l] = Queue(c, l)])
            /\ UNCHANGED status
       ELSE /\ data' = [data EXCEPT ![c] = [Data(c) EXCEPT ![id] = d]]
            /\ used' = [used EXCEPT ![c] = Used(c) \cup {id}]
            /\ Inputs([in EXCEPT ![l] = Append(Queue(c, l), RequestMsg(id, d))])
            /\ status' = [status EXCEPT ![n] = "pending"]
  /\ UNCHANGED <<hup, faults, agConn, todo>>

\* cancelRequest: the callback is called at once, the id is kept until the
\* daemon confirms.  A request that is unknown or cancelled already is refused.
CancelRequest(c, l, id) ==
  /\ "cancel" \in Disturbances
  /\ Ensure(c, l)
  /\ conn' = [conn EXCEPT ![c] = l]
  /\ cache' = [cache EXCEPT ![c] = Cache(c)]
  /\ used' = [used EXCEPT ![c] = Used(c)]
  /\ IF Data(c)[id] = NoData \/ Data(c)[id].cancelled
       THEN /\ ~Connected(c)
            /\ data' = [data EXCEPT ![c] = Data(c)]
            /\ Inputs([in EXCEPT ![l] = Queue(c, l)])
            /\ UNCHANGED status
       ELSE /\ data' = [data EXCEPT ![c] = [Data(c) EXCEPT ![id].cancelled = TRUE]]
            /\ Inputs([in EXCEPT ![l] = Append(Queue(c, l), [op |-> "cancel", id |-> id])])
            /\ Callback({Data(c)[id].req}, "CANCEL")
  /\ UNCHANGED <<hup, faults, agConn, todo>>

\* process after the connection broke: reconnect and send everything again.
Reconnect(c, l) ==
  /\ conn[c] # NoLink /\ ~Connected(c)
  /\ Ensure(c, l)
  /\ conn' = [conn EXCEPT ![c] = l]
  /\ data' = [data EXCEPT ![c] = Data(c)]
  /\ used' = [used EXCEPT ![c] = Used(c)]
  /\ cache' = [cache EXCEPT ![c] = EmptyCache]
  /\ Inputs([in EXCEPT ![l] = Resent(c)])
  /\ UNCHANGED <<hup, status, faults, agConn, todo>>

\* Any call while nobody listens on the socket: onServiceNotAvailable.
ServiceNotAvailable(c) ==
  /\ conn[c] # NoLink /\ ~Connected(c) /\ ~running
  /\ Callback(Waiting(c), "SERVICE_NOT_AVAILABLE")
  /\ conn' = [conn EXCEPT ![c] = NoLink]
  /\ data' = [data EXCEPT ![c] = [id \in CheckIds |-> NoData]]
  /\ used' = [used EXCEPT ![c] = {}]
  /\ cache' = [cache EXCEPT ![c] = EmptyCache]
  /\ UNCHANGED <<svars, in, hup, faults, agConn, todo>>

\* process reads one response and handles it (processCheckResponse,
\* processSimpleCheckResponse, processCancelResponse).  Bytes that arrived
\* before the hang-up may be handled or, by Reconnect, thrown away.
ProcessResponse(c) ==
  LET l == conn[c]
      m == Head(out[l])
      d == data[c][m.id]
  IN
  /\ l # NoLink /\ out[l] # <<>>
  /\ Read(l)
  /\ d # NoData
  /\ data' = [data EXCEPT ![c][m.id] = NoData]
  /\ used' = [used EXCEPT ![c] = @ \ {m.id}]
  /\ IF m.op = "cancelled"
       THEN d.cancelled /\ UNCHANGED <<cache, status>>
       ELSE /\ cache' = IF m.result \in Decisions THEN [cache EXCEPT ![c][d.key] = m.result] ELSE cache
            /\ IF d.cancelled THEN UNCHANGED status ELSE Callback({d.req}, "ANSWER")
  /\ UNCHANGED <<in, hup, conn, faults, agConn, todo>>

\* checkCache: what the cache says, if the connection it was filled from is up.
CheckCache(c, k) == IF Connected(c) THEN cache[c][k] ELSE "MISS"

\* ~Logic, called by cynara_async_finish.
Finish(c) ==
  /\ conn[c] # NoLink
  /\ Disturb("finish")
  /\ Callback(Waiting(c), "FINISH")
  /\ hup' = hup \cup ({conn[c]} \cap open)
  /\ conn' = [conn EXCEPT ![c] = NoLink]
  /\ data' = [data EXCEPT ![c] = [id \in CheckIds |-> NoData]]
  /\ used' = [used EXCEPT ![c] = {}]
  /\ cache' = [cache EXCEPT ![c] = EmptyCache]
  /\ UNCHANGED <<svars, in, agConn, todo>>

-----------------------------------------------------------------------------
\* The agent library: ensureConnection of getRequest connects and registers.
\* The application may still hold questions of an earlier connection and answer
\* them over the new one ("late").
AgentConnect(t, a) ==
  /\ agConn[t] \notin open
  /\ ~Held(a) /\ Accept(a)
  /\ agConn' = [agConn EXCEPT ![t] = a]
  /\ Inputs([in EXCEPT ![a] = <<[op |-> "register", type |-> t]>>])
  /\ todo' = IF "late" \in Disturbances THEN todo ELSE [todo EXCEPT ![t] = {}]
  /\ UNCHANGED <<hup, conn, data, used, cache, status, faults>>

AgentHangUp(t) ==
  /\ hup' = hup \cup ({agConn[t]} \cap open)
  /\ agConn' = [agConn EXCEPT ![t] = NoLink]
  /\ todo' = [todo EXCEPT ![t] = {}]
  /\ UNCHANGED <<in, conn, data, used, cache, status>>

\* getRequest.  A rejected agent terminates, as cynara-agent.h tells it to.  A
\* CANCEL makes the agent answer the question with CANCEL.
AgentGetRequest(t) ==
  LET a == agConn[t]
      m == Head(out[a])
  IN
  /\ a # NoLink /\ out[a] # <<>>
  /\ Read(a)
  /\ UNCHANGED faults
  /\ \/ m.op = "registered" /\ m.code = "REJECTED" /\ AgentHangUp(t)
     \/ /\ m.op = "registered" /\ m.code = "DONE"
        /\ UNCHANGED <<in, hup, conn, data, used, cache, status, agConn, todo>>
     \/ /\ m.op = "ACTION"
        /\ todo' = [todo EXCEPT ![t] = @ \cup {[id |-> m.id, key |-> m.key, type |-> "ACTION"]}]
        /\ UNCHANGED <<in, hup, conn, data, used, cache, status, agConn>>
     \/ /\ m.op = "CANCEL"
        /\ todo' = [todo EXCEPT ![t] =
                      {[q EXCEPT !.type = IF q.id = m.id THEN "CANCEL" ELSE @] : q \in @}]
        /\ UNCHANGED <<in, hup, conn, data, used, cache, status, agConn>>

\* putResponse: exactly one response per question.  Without a connection the
\* call fails and the application gives the question up.
AgentPutResponse(t, q) ==
  /\ q \in todo[t]
  /\ todo' = [todo EXCEPT ![t] = @ \ {q}]
  /\ in' = IF agConn[t] \in open
             THEN [in EXCEPT ![agConn[t]] =
                     Append(@, [op |-> "answer", id |-> q.id, type |-> q.type, key |-> q.key])]
             ELSE in
  /\ UNCHANGED <<svars, hup, conn, data, used, cache, status, faults, agConn>>

\* The agent process ends or crashes.
AgentLeave(t) ==
  /\ agConn[t] # NoLink
  /\ Disturb("leave")
  /\ AgentHangUp(t)
  /\ UNCHANGED svars

-----------------------------------------------------------------------------
\* SocketManager::handleRead: the next request of a link is executed.
Handle(l) ==
  LET m == Head(in[l]) IN
  /\ l \in open /\ in[l] # <<>>
  /\ \/ m.op = "check" /\ ExecuteCheck(l, m.id, m.key)
     \/ m.op = "simple" /\ ExecuteSimpleCheck(l, m.id, m.key)
     \/ m.op = "cancel" /\ ExecuteCancel(l, m.id)
     \/ m.op = "register" /\ ExecuteAgentRegister(l, m.type)
     \/ /\ m.op = "answer"
        /\ \E s \in Decisions \cup {"EXCEPTION"} : ExecuteAgentAction(l, m.id, m.type, s)
  /\ Inputs([in EXCEPT ![l] = Tail(@)])
  /\ hup' = hup \cap open'
  /\ UNCHANGED <<conn, data, used, cache, status, faults, agConn, todo>>

\* readyForRead returned 0 after all input, or readyForWrite failed.
HandleHangUp(l) ==
  /\ l \in hup
  /\ in[l] = <<>> \/ out[l] # <<>>
  /\ \/ l \in ClientLinks /\ CloseClient(l)
     \/ l \in AgentLinks /\ CloseAgent(l)
  /\ Inputs(in)
  /\ hup' = hup \ {l}
  /\ UNCHANGED <<conn, data, used, cache, status, faults, agConn, todo>>

Administrate ==
  /\ Disturb("change")
  /\ \E new \in Policies : ChangePolicies(new)
  /\ Inputs(in)
  /\ hup' = hup \cap open'
  /\ UNCHANGED <<conn, data, used, cache, status, agConn, todo>>

StopService ==
  /\ Disturb("stop")
  /\ Stop
  /\ Inputs(in)
  /\ hup' = {}
  /\ UNCHANGED <<conn, data, used, cache, status, agConn, todo>>

StartService ==
  /\ \E new \in Policies : Start(new)
  /\ UNCHANGED pvars

-----------------------------------------------------------------------------
SysInit ==
  /\ Init /\ policy \in Policies /\ dbCorrupted \in DbStates
  /\ in = [l \in Links |-> <<>>]
  /\ hup = {}
  /\ conn = [c \in Clients |-> NoLink]
  /\ data = [c \in Clients |-> [id \in CheckIds |-> NoData]]
  /\ used = [c \in Clients |-> {}]
  /\ cache = [c \in Clients |-> EmptyCache]
  /\ status = [n \in Requests |-> "none"]
  /\ faults = 0
  /\ agConn = [t \in AgentTypes |-> NoLink]
  /\ todo = [t \in AgentTypes |-> {}]

SysNext ==
  \/ \E c \in Clients :
       \/ \E l \in ClientLinks :
            \/ \E k \in Keys, simple \in BOOLEAN : CreateRequest(c, l, k, simple)
            \/ \E id \in CheckIds : CancelRequest(c, l, id)
            \/ Reconnect(c, l)
       \/ ServiceNotAvailable(c)
       \/ ProcessResponse(c)
       \/ Finish(c)
  \/ \E t \in AgentTypes :
       \/ \E a \in AgentLinks : AgentConnect(t, a)
       \/ AgentGetRequest(t)
       \/ \E q \in todo[t] : AgentPutResponse(t, q)
       \/ AgentLeave(t)
  \/ \E l \in Links : Handle(l) \/ HandleHangUp(l)
  \/ Administrate
  \/ StopService
  \/ StartService

SysSpec == SysInit /\ [][SysNext]_vars

\* The daemon's main loop serves every ready descriptor, a client calls process
\* whenever its descriptor is ready, an agent loops over getRequest and answers
\* what it got.  Nobody is obliged to create, cancel or disturb anything.
Fairness ==
  /\ \A l \in Links : WF_vars(Handle(l)) /\ WF_vars(HandleHangUp(l))
  /\ \A c \in Clients : /\ WF_vars(ProcessResponse(c))
                        /\ WF_vars(\E l \in ClientLinks : Reconnect(c, l))
                        /\ WF_vars(ServiceNotAvailable(c))
  /\ \A t \in AgentTypes : /\ WF_vars(\E a \in AgentLinks : AgentConnect(t, a))
                           /\ WF_vars(AgentGetRequest(t))
                           /\ WF_vars(\E q \in todo[t] : AgentPutResponse(t, q))
  /\ WF_vars(StartService)

FairSpec == SysSpec /\ Fairness

-----------------------------------------------------------------------------
\* Every response a client can read belongs to a request it still holds, for
\* the same key, and a confirmation to a cancelled one.  Otherwise process
\* throws UnexpectedErrorException or reports the answer to another question:
\* ids are reused as soon as the daemon confirmed a cancel, while the daemon
\* keeps the cancelled context until the agent answers.
ResponsesExpected ==
  \A c \in Clients : conn[c] # NoLink =>
    \A i \in DOMAIN out[conn[c]] :
      LET m == out[conn[c]][i]
          d == data[c][m.id]
      IN /\ d # NoData
         /\ m.op = "cancelled" => d.cancelled
         /\ m.op # "cancelled" => d.key = m.key /\ d.simple = (m.op = "simple")

\* checkCache never contradicts the policies the daemon works with: a change
\* disconnects all clients, and a client empties the cache before it uses a new
\* connection.  After a failed save clients are not disconnected, and the next
\* successful change makes up for it.
CacheFresh ==
  ~saveFailed => \A c \in Clients, k \in Keys :
    CheckCache(c, k) # "MISS" /\ PolicyFor(k) \in Decisions => CheckCache(c, k) = PolicyFor(k)

\* The daemon applies an agent's answer only to the check the question was about:
\* a talker id is not given to another check while a question with it is open.
\* An application that answers a question of an earlier connection ("late") may
\* hit another check, because ids start again with the connection.
AnswersApplied ==
  \A a \in AgentLinks \cap open : in[a] # <<>> =>
    LET m == Head(in[a]) IN
      m.op = "answer" /\ m.type = "ACTION" =>
        \A p \in InProgress : checks[p].talker = <<a, m.id>> => checks[p].key = m.key

\* Every request gets its callback (cynara-client-async.h: "a callback will be
\* called exactly once").
CallbackEventually ==
  \A n \in Requests : status[n] = "pending" ~> status[n] # "pending"

\* The daemon does not keep the context of a check for ever.
ContextsEventuallyFreed ==
  \A p \in CheckRefs : [](checks[p] # NoCheck => <>(checks[p] = NoCheck))

\* The composed system behaves as the daemon's own specification says.
ServiceSpec == Spec

=============================================================================
