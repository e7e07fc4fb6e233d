------------------------- MODULE CheckSystemProofs --------------------------
(***************************************************************************)
(* Proofs about CheckSystem for every number of clients, agents, links,    *)
(* keys and ids: its clients only read responses they wait for, their      *)
(* caches agree with the policies, and an agent's answer reaches only the  *)
(* check it was asked about.                                               *)
(***************************************************************************)
EXTENDS CheckSystemExchange

\* Zenon proves a leaf that names no other prover; it may take its time.
USE ZenonT(40)

\* With the output and the contexts, the caches of connected clients agree with
\* the policies while the last change is saved.
FreshCaches ==
  ~saveFailed => \A c \in Clients, k \in Keys : Connected(c) => Agrees(k, cache[c][k])
Fresh == FreshOut /\ FreshContexts /\ FreshCaches

-----------------------------------------------------------------------------
\* The questions <<id, key>> that link a's talkers are about, and the questions
\* the agent at its other end holds.
Topics(a) ==
  {x \in TalkerIds \X Keys :
     /\ <<a, x[1]>> \in talkers
     /\ \A p \in InProgress : checks[p].talker = <<a, x[1]>> => checks[p].key = x[2]}
TodoOf(a) == UNION {todo[t] : t \in {u \in AgentTypes : agConn[u] = a}}

\* One connection of an agent, with output o, input q, questions T in the agent's
\* hands and topics K: each question is once at most under way, with the agent,
\* or answered, and it is about the topic of its talker.
QuestionsFit(o, q, T, K) ==
  /\ \A i \in DOMAIN o : o[i].op = "ACTION" =>
       /\ <<o[i].id, o[i].key>> \in K
       /\ \A j \in DOMAIN o : o[j].op = "ACTION" /\ o[j].id = o[i].id => i = j
       /\ \A j \in DOMAIN q : q[j].op = "answer" => q[j].id # o[i].id
       /\ \A r \in T : r.id # o[i].id
  /\ \A i \in DOMAIN q : q[i].op = "answer" =>
       /\ <<q[i].id, q[i].key>> \in K
       /\ \A j \in DOMAIN q : q[j].op = "answer" /\ q[j].id = q[i].id => i = j
       /\ \A r \in T : r.id # q[i].id
  /\ \A r \in T : <<r.id, r.key>> \in K /\ \A s \in T : s.id = r.id => s = r

AgentFits(a) == QuestionsFit(out[a], in[a], TodoOf(a), Topics(a))
QuestionsOnce == \A a \in AgentLinks \cap open : AgentFits(a)

SysInv == IInv /\ Env /\ Exchange /\ Fresh

-----------------------------------------------------------------------------
\* Where the cache of a connected client comes from: the connection is new and
\* the cache empty, or the client was connected and kept it or read a response.
LEMMA CacheOrigin ==
  ASSUME IInv, Env, [SysNext]_vars, NEW c \in Clients, conn'[c] \in open'
  PROVE  \/ cache'[c] = EmptyCache
         \/ Connected(c) /\ cache'[c] = cache[c]
         \/ Connected(c) /\ ProcessResponse(c)
<1>1. ASSUME conn'[c] = conn[c], open' \subseteq open, cache'[c] = cache[c]
      PROVE  Connected(c) /\ cache'[c] = cache[c]
  BY <1>1 DEF Connected
<1>2. conn[c] \notin AgentLinks /\ conn[c] \in ClientLinks \cup {NoLink}
  BY LinksAssumption DEF Env, SysTypeOK
<1>3. ASSUME NEW e \in Clients, NEW l \in ClientLinks, Ensure(e, l), conn' = [conn EXCEPT ![e] = l],
             cache' = [cache EXCEPT ![e] = Cache(e)]
      PROVE  cache'[c] = EmptyCache \/ (Connected(c) /\ cache'[c] = cache[c])
  <2>1. CASE c = e
    BY <1>3, <2>1 DEF Cache, Env, SysTypeOK
  <2>2. CASE c # e
    <3>1. conn'[c] = conn[c] /\ cache'[c] = cache[c] /\ open' \subseteq open \cup {l}
      BY <1>3, <2>2 DEF Ensure, Accept, svars, Env, SysTypeOK
    <3>2. l \in open \/ conn[c] # l
      BY <1>3 DEF Ensure, Connected, Held
    <3> QED BY <3>1, <3>2 DEF Connected
  <2> QED BY <2>1, <2>2
<1>4. ASSUME NEW e \in Clients, NEW l \in ClientLinks, NEW k \in Keys, NEW simple \in BOOLEAN,
             CreateRequest(e, l, k, simple)
      PROVE  cache'[c] = EmptyCache \/ (Connected(c) /\ cache'[c] = cache[c])
  BY <1>3, <1>4 DEF CreateRequest
<1>5. ASSUME NEW e \in Clients, NEW l \in ClientLinks, NEW id \in CheckIds, CancelRequest(e, l, id)
      PROVE  cache'[c] = EmptyCache \/ (Connected(c) /\ cache'[c] = cache[c])
  BY <1>3, <1>5 DEF CancelRequest
<1>6. ASSUME NEW e \in Clients, NEW l \in ClientLinks, Reconnect(e, l)
      PROVE  cache'[c] = EmptyCache \/ (Connected(c) /\ cache'[c] = cache[c])
  BY <1>3, <1>6 DEF Reconnect, Cache
<1>7. ASSUME NEW e \in Clients, ServiceNotAvailable(e) \/ Finish(e)
      PROVE  cache'[c] = EmptyCache \/ (Connected(c) /\ cache'[c] = cache[c])
  <2>1. cache' = [cache EXCEPT ![e] = EmptyCache] /\ conn' = [conn EXCEPT ![e] = NoLink] /\ open' = open
    BY <1>7 DEF ServiceNotAvailable, Finish, svars
  <2> QED BY <2>1 DEF Env, SysTypeOK, Connected
<1>8. ASSUME NEW e \in Clients, ProcessResponse(e)
      PROVE  Connected(c) /\ (cache'[c] = cache[c] \/ ProcessResponse(c))
  <2>1. UNCHANGED <<conn, open>>
    BY <1>8 DEF ProcessResponse, Read
  <2>2. c # e => cache'[c] = cache[c]
    BY <1>8 DEF ProcessResponse, Env, SysTypeOK
  <2> QED BY <1>8, <2>1, <2>2 DEF Connected
<1>9. ASSUME NEW t \in AgentTypes, NEW a \in AgentLinks, AgentConnect(t, a)
      PROVE  Connected(c) /\ cache'[c] = cache[c]
  BY <1>2, <1>9 DEF AgentConnect, Accept, Connected
<1>10. ASSUME NEW t \in AgentTypes,
              AgentGetRequest(t) \/ AgentLeave(t) \/ \E q \in todo[t] : AgentPutResponse(t, q)
       PROVE  Connected(c) /\ cache'[c] = cache[c]
  BY <1>1, <1>10 DEF AgentGetRequest, AgentLeave, AgentPutResponse, AgentHangUp, Read, svars
<1>11. ASSUME NEW l \in Links, Handle(l) \/ HandleHangUp(l) PROVE Connected(c) /\ cache'[c] = cache[c]
  <2>1. UNCHANGED <<conn, cache>>
    BY <1>11 DEF Handle, HandleHangUp
  <2>2. open' \subseteq open
    <3>1. CASE HandleHangUp(l)
      BY <3>1 DEF HandleHangUp, CloseClient, CloseAgent, CancelChecksOf, DropAgent
    <3>2. ASSUME NEW id, NEW k, ExecuteCheck(l, id, k) \/ ExecuteSimpleCheck(l, id, k) \/ ExecuteCancel(l, id)
          PROVE  open' \subseteq open
      BY <3>2 DEF ExecuteCheck, ExecuteSimpleCheck, ExecuteCancel, CancelChecksOf
    <3>3. ASSUME NEW id, NEW k, NEW s, ExecuteAgentRegister(l, k) \/ ExecuteAgentAction(l, id, k, s)
          PROVE  open' \subseteq open
      BY <3>3 DEF ExecuteAgentRegister, ExecuteAgentAction, DropAgent
    <3> QED BY <1>11, <3>1, <3>2, <3>3 DEF Handle
  <2> QED BY <1>1, <2>1, <2>2
<1>12. CASE Administrate
  <2>1. UNCHANGED <<conn, cache>> /\ open' \subseteq open
    BY <1>12 DEF Administrate, ChangePolicies, CancelChecksOf
  <2> QED BY <1>1, <2>1
<1>13. CASE StopService \/ StartService
  <2>1. UNCHANGED <<conn, cache>> /\ open' \subseteq open
    BY <1>13 DEF StopService, StartService, Stop, Start, pvars
  <2> QED BY <1>1, <2>1
<1>14. CASE UNCHANGED vars
  BY <1>1, <1>14 DEF vars, svars, pvars
<1> QED BY <1>4, <1>5, <1>6, <1>7, <1>8, <1>9, <1>10, <1>11, <1>12, <1>13, <1>14 DEF SysNext

\* No cached decision contradicts the storage.
LEMMA CachesStep ==
  ASSUME IInv, IInv', Env, Env', Exchange, Fresh, [SysNext]_vars, [Next]_svars PROVE FreshCaches'
<1> SUFFICES ASSUME ~saveFailed', NEW c \in Clients, NEW k \in Keys, conn'[c] \in open'
             PROVE  Agrees(k, cache[c][k])'
  BY DEF FreshCaches, Connected
<1>1. UNCHANGED <<dbCorrupted, policy, saveFailed>>
  <2>1. conn'[c] \in ClientLinks
    BY LinksAssumption DEF Env, SysTypeOK, IInv, TypeOK, Links
  <2>2. ~(ClientLinks \cap open' = {})
    BY <2>1
  <2> QED BY <2>2, PolicyStep DEF Env, LinksApart
<1>2. PolicyFor(k)' = PolicyFor(k) /\ ~saveFailed
  BY <1>1 DEF PolicyFor
<1>3. CASE cache'[c] = EmptyCache
  BY <1>3 DEF Agrees, EmptyCache, Decisions
<1>4. CASE Connected(c) /\ cache'[c] = cache[c]
  BY <1>2, <1>4 DEF Agrees, Fresh, FreshCaches
<1>5. CASE Connected(c) /\ ProcessResponse(c)
  <2> DEFINE l == conn[c]
             m == Head(out[l])
  <2>1. l \in ClientLinks /\ l \in open /\ l # NoLink /\ out[l] # <<>>
    BY <1>5, LinksAssumption DEF Connected, ProcessResponse, Env, SysTypeOK, IInv, TypeOK, Links
  <2>2. 1 \in DOMAIN out[l] /\ m = out[l][1] /\ m \in ClientMsgs
    BY <2>1, SMTT(30) DEF Env, SysTypeOK, OutTyped
  <2>3. cache'[c][k] = cache[c][k] \/ (m.op # "cancelled" /\ k = data[c][m.id].key /\ cache'[c][k] = m.result)
    <3>1. cache[c] \in [Keys -> Decisions \cup {"MISS"}] /\ DOMAIN cache = Clients
      BY DEF Env, SysTypeOK
    <3>2. \/ UNCHANGED cache
          \/ m.op # "cancelled" /\ cache' = [cache EXCEPT ![c][data[c][m.id].key] = m.result]
      BY <1>5 DEF ProcessResponse
    <3> HIDE DEF m
    <3> QED BY <3>1, <3>2
  <2>4. cache[c][k] = cache'[c][k] => Agrees(k, cache'[c][k])
    BY <1>2, <1>5 DEF Fresh, FreshCaches
  <2>5. m.op # "cancelled" => Agrees(m.key, m.result)
    BY <1>2, <2>1, <2>2 DEF Fresh, FreshOut
  <2>6. m.op # "cancelled" => data[c][m.id].key = m.key
    <3>1. ResponsesFit(data[c], out[l])
      BY <2>1 DEF Exchange, ClientFits, ConnectionFits
    <3>2. IF m.op = "cancelled" THEN Confirms(data[c][m.id]) ELSE Fits(data[c][m.id], m)
      BY <2>2, <3>1 DEF ResponsesFit
    <3> QED BY <3>2 DEF Fits
  <2>7. Agrees(k, cache'[c][k])
    BY <2>3, <2>4, <2>5, <2>6
  <2> QED BY <1>2, <2>7 DEF Agrees
<1> QED BY <1>3, <1>4, <1>5, CacheOrigin

-----------------------------------------------------------------------------
\* The invariant of the composed system.
LEMMA SysInvInit == SysInit => SysInv
<1> SUFFICES ASSUME SysInit PROVE SysInv
  OBVIOUS
<1>1. RefInv
  BY RefInit
<1>2. Exchange
  BY DEF SysInit, Exchange, ClientFits, Ids
<1>3. FreshCaches
  BY DEF SysInit, FreshCaches, Agrees, EmptyCache, Decisions
<1> QED BY <1>1, <1>2, <1>3 DEF RefInv, SysInv, Fresh

\* Every step keeps the inductive invariant.
LEMMA SysInvStep == SysInv /\ [SysNext]_vars => SysInv'
<1> SUFFICES ASSUME SysInv, [SysNext]_vars PROVE SysInv'
  OBVIOUS
<1>1. RefInv
  BY DEF SysInv, Fresh, RefInv
<1>2. RefInv' /\ [Next]_svars
  BY <1>1, RefStep
<1>3. IInv' /\ Env' /\ FreshOut' /\ FreshContexts'
  BY <1>2 DEF RefInv
<1>4. Exchange'
  BY <1>3, ExchangeStep DEF SysInv
<1>5. FreshCaches'
  BY <1>2, <1>3, CachesStep DEF SysInv
<1> QED BY <1>3, <1>4, <1>5 DEF SysInv, Fresh

\* The inductive invariant: what clients hold, what travels, the daemon's contexts
\* and the clients' caches fit together in every reachable state.
THEOREM SystemInvariant == SysSpec => []SysInv
<1> QED BY SysInvInit, SysInvStep, PTL DEF SysSpec

\* Every response on its way to a client belongs to a request the client holds,
\* with the same key and kind, and every confirmation to a cancelled one, with
\* any number of clients, links and ids, reused in any order.
THEOREM SystemResponsesExpected == SysSpec => []ResponsesExpected
<1>1. SysInv => ResponsesExpected
  <2> SUFFICES ASSUME SysInv, NEW c \in Clients, conn[c] # NoLink, NEW i \in DOMAIN out[conn[c]]
               PROVE  LET m == out[conn[c]][i]
                          d == data[c][m.id]
                      IN /\ d # NoData
                         /\ m.op = "cancelled" => d.cancelled
                         /\ m.op # "cancelled" => d.key = m.key /\ d.simple = (m.op = "simple")
    BY DEF ResponsesExpected
  <2> DEFINE m == out[conn[c]][i]
             d == data[c][m.id]
  <2>1. IF m.op = "cancelled" THEN Confirms(d) ELSE Fits(d, m)
    BY DEF SysInv, Exchange, ClientFits, ConnectionFits, ResponsesFit
  <2>2. d # NoData => d.simple \in BOOLEAN
    <3>1. conn[c] \in ClientLinks /\ out[conn[c]] \in Seq(ClientMsgs)
      BY DEF SysInv, Env, SysTypeOK, OutTyped
    <3>2. m.id \in CheckIds
      BY <3>1, SMTT(30) DEF ClientMsgs
    <3> QED BY <3>2, SMTT(30) DEF SysInv, Env, SysTypeOK, RequestData
  <2> HIDE DEF m, d
  <2>3. /\ d # NoData
        /\ m.op = "cancelled" => d.cancelled
        /\ m.op # "cancelled" => d.key = m.key /\ d.simple = (m.op = "simple")
    BY <2>1, <2>2 DEF Confirms, Fits
  <2> QED BY <2>3 DEF m, d
<1> QED BY <1>1, SystemInvariant, PTL

\* What a client finds in its cache is what the daemon would decide, whatever
\* answers, changes and disconnections cross on the way, unless the last change
\* of policies could not be saved.
THEOREM SystemCacheFresh == SysSpec => []CacheFresh
<1>1. SysInv => CacheFresh
  <2> SUFFICES ASSUME SysInv, ~saveFailed, NEW c \in Clients, NEW k \in Keys,
                      CheckCache(c, k) # "MISS", PolicyFor(k) \in Decisions
               PROVE  CheckCache(c, k) = PolicyFor(k)
    BY DEF CacheFresh
  <2>1. Connected(c) /\ CheckCache(c, k) = cache[c][k] /\ cache[c][k] \in Decisions
    BY DEF CheckCache, SysInv, Env, SysTypeOK
  <2> QED BY <2>1 DEF SysInv, Fresh, FreshCaches, Agrees
<1> QED BY <1>1, SystemInvariant, PTL

-----------------------------------------------------------------------------
\* What QuestionsFit says of one question under way.
LEMMA QuestionOut ==
  ASSUME NEW o, NEW q, NEW T, NEW K, QuestionsFit(o, q, T, K), NEW i \in DOMAIN o, o[i].op = "ACTION"
  PROVE  /\ <<o[i].id, o[i].key>> \in K
         /\ \A j \in DOMAIN o : o[j].op = "ACTION" /\ o[j].id = o[i].id => i = j
         /\ \A j \in DOMAIN q : q[j].op = "answer" => q[j].id # o[i].id
         /\ \A r \in T : r.id # o[i].id
  BY DEF QuestionsFit

\* What QuestionsFit says of one answer under way.
LEMMA AnswerIn ==
  ASSUME NEW o, NEW q, NEW T, NEW K, QuestionsFit(o, q, T, K), NEW i \in DOMAIN q, q[i].op = "answer"
  PROVE  /\ <<q[i].id, q[i].key>> \in K
         /\ \A j \in DOMAIN q : q[j].op = "answer" /\ q[j].id = q[i].id => i = j
         /\ \A j \in DOMAIN o : o[j].op = "ACTION" => o[j].id # q[i].id
         /\ \A r \in T : r.id # q[i].id
  BY DEF QuestionsFit

\* One connection of an agent.  Nothing new is asked: questions stay or are lost.
LEMMA QuestionsQuiet ==
  ASSUME NEW o, NEW q, NEW T, NEW K, NEW r, NEW S, NEW z \in {q, <<>>}, NEW U, NEW L,
         QuestionsFit(o, q, T, K), Grows(o, r, S), \A m \in S : m.op # "ACTION", U \subseteq T, K \subseteq L
  PROVE  QuestionsFit(r, z, U, L)
<1>1. \A i \in DOMAIN r : r[i].op = "ACTION" => i \in DOMAIN o /\ r[i] = o[i]
  BY DEF Grows
<1>2. CASE z = q
  BY <1>1, <1>2, SMTT(30) DEF QuestionsFit
<1>3. CASE z = <<>>
  BY <1>1, <1>3, SMTT(30) DEF QuestionsFit
<1> QED BY <1>2, <1>3

\* The agent reads a message that is no question.
LEMMA QuestionsSkip ==
  ASSUME NEW o \in Seq(AgentMsgs), o # <<>>, NEW q, NEW T, NEW K, QuestionsFit(o, q, T, K)
  PROVE  QuestionsFit(Tail(o), q, T, K)
<1>1. \A i \in DOMAIN Tail(o) : i \in Nat /\ i + 1 \in DOMAIN o /\ Tail(o)[i] = o[i + 1]
  BY SMTT(30)
<1>2. ASSUME NEW i \in DOMAIN Tail(o), Tail(o)[i].op = "ACTION"
      PROVE  /\ <<Tail(o)[i].id, Tail(o)[i].key>> \in K
             /\ \A j \in DOMAIN q : q[j].op = "answer" => q[j].id # Tail(o)[i].id
             /\ \A r \in T : r.id # Tail(o)[i].id
  BY <1>1, <1>2, SMTT(30) DEF QuestionsFit
<1>3. ASSUME NEW i \in DOMAIN Tail(o), Tail(o)[i].op = "ACTION",
             NEW j \in DOMAIN Tail(o), Tail(o)[j].op = "ACTION", Tail(o)[j].id = Tail(o)[i].id
      PROVE  i = j
  <2>1. /\ i + 1 \in DOMAIN o /\ o[i + 1].op = "ACTION"
        /\ j + 1 \in DOMAIN o /\ o[j + 1].op = "ACTION" /\ o[j + 1].id = o[i + 1].id
    BY <1>1, <1>3
  <2>2. i + 1 = j + 1
    BY <2>1, QuestionOut
  <2> QED BY <1>1, <2>2, SMTT(30)
<1> QED BY <1>2, <1>3 DEF QuestionsFit

\* The agent reads a question and holds it.
LEMMA QuestionsTake ==
  ASSUME NEW o \in Seq(AgentMsgs), o # <<>>, NEW q, NEW T, NEW K, QuestionsFit(o, q, T, K),
         Head(o).op = "ACTION", NEW x, x.id = Head(o).id, x.key = Head(o).key
  PROVE  QuestionsFit(Tail(o), q, T \cup {x}, K)
<1>1. QuestionsFit(Tail(o), q, T, K)
  BY QuestionsSkip
<1>2. 1 \in DOMAIN o /\ Head(o) = o[1]
  BY SMTT(30)
<1>3. \A i \in DOMAIN Tail(o) : i \in Nat /\ i + 1 \in DOMAIN o /\ i + 1 # 1 /\ Tail(o)[i] = o[i + 1]
  BY SMTT(30)
<1>4. \A i \in DOMAIN Tail(o) : Tail(o)[i].op = "ACTION" => Tail(o)[i].id # x.id
  <2> SUFFICES ASSUME NEW i \in DOMAIN Tail(o), Tail(o)[i].op = "ACTION", Tail(o)[i].id = x.id PROVE FALSE
    OBVIOUS
  <2>1. i + 1 \in DOMAIN o /\ o[i + 1].op = "ACTION" /\ o[i + 1].id = o[1].id /\ o[1].op = "ACTION" /\ i + 1 # 1
    BY <1>2, <1>3
  <2> QED BY <1>2, <2>1, QuestionOut
<1>5. /\ <<x.id, x.key>> \in K
      /\ \A j \in DOMAIN q : q[j].op = "answer" => q[j].id # x.id
      /\ \A r \in T : r.id # x.id
  BY <1>2, SMTT(30) DEF QuestionsFit
<1> DEFINE r == Tail(o)
<1> HIDE DEF r
<1>6. QuestionsFit(r, q, T, K) /\ \A i \in DOMAIN r : r[i].op = "ACTION" => r[i].id # x.id
  BY <1>1, <1>4 DEF r
<1>7. QuestionsFit(r, q, T \cup {x}, K)
  <2>1. ASSUME NEW i \in DOMAIN r, r[i].op = "ACTION", NEW s \in T \cup {x} PROVE s.id # r[i].id
    BY <1>6, <2>1 DEF QuestionsFit
  <2>2. ASSUME NEW i \in DOMAIN q, q[i].op = "answer", NEW s \in T \cup {x} PROVE s.id # q[i].id
    BY <1>5, <1>6, <2>2 DEF QuestionsFit
  <2>3. ASSUME NEW s \in T \cup {x} PROVE <<s.id, s.key>> \in K /\ \A u \in T \cup {x} : u.id = s.id => u = s
    BY <1>5, <1>6, <2>3 DEF QuestionsFit
  <2> QED BY <1>6, <2>1, <2>2, <2>3 DEF QuestionsFit
<1> QED BY <1>7 DEF r

\* The agent changes how it will answer, not what.
LEMMA QuestionsRetype ==
  ASSUME NEW o, NEW q, NEW T, NEW U, NEW K, QuestionsFit(o, q, T, K),
         \A x \in U : \E y \in T : x.id = y.id /\ x.key = y.key,
         \A x, y \in U : x.id = y.id => x = y
  PROVE  QuestionsFit(o, q, U, K)
<1>1. ASSUME NEW i \in DOMAIN o, o[i].op = "ACTION", NEW s \in U PROVE s.id # o[i].id
  <2>1. PICK y \in T : s.id = y.id
    OBVIOUS
  <2>2. \A r \in T : r.id # o[i].id
    BY <1>1 DEF QuestionsFit
  <2> QED BY <2>1, <2>2
<1>2. ASSUME NEW i \in DOMAIN q, q[i].op = "answer", NEW s \in U PROVE s.id # q[i].id
  <2>1. PICK y \in T : s.id = y.id
    OBVIOUS
  <2>2. \A r \in T : r.id # q[i].id
    BY <1>2 DEF QuestionsFit
  <2> QED BY <2>1, <2>2
<1>3. ASSUME NEW s \in U PROVE <<s.id, s.key>> \in K /\ \A u \in U : u.id = s.id => u = s
  BY <1>3 DEF QuestionsFit
<1> QED BY <1>1, <1>2, <1>3 DEF QuestionsFit

\* The agent answers a question it holds.
LEMMA QuestionsPut ==
  ASSUME NEW o, NEW q \in Seq(AgentRequests), NEW T, NEW K, QuestionsFit(o, q, T, K), NEW x \in T,
         NEW m \in AgentRequests, m.op = "answer", m.id = x.id, m.key = x.key
  PROVE  QuestionsFit(o, Append(q, m), T \ {x}, K)
<1> DEFINE r == Append(q, m)
           U == T \ {x}
<1>1. Grows(q, r, {m})
  BY AppendGrows
<1>2. \A i \in DOMAIN r : (i \in DOMAIN q /\ r[i] = q[i]) \/ (i \notin DOMAIN q /\ r[i] = m)
  BY <1>1 DEF Grows
<1>3. \A i, j \in DOMAIN r : i \notin DOMAIN q /\ j \notin DOMAIN q => i = j
  BY <1>1, SMTT(30) DEF Grows
<1> HIDE DEF r
<1>4. /\ <<x.id, x.key>> \in K
      /\ \A j \in DOMAIN q : q[j].op = "answer" => q[j].id # x.id
      /\ \A i \in DOMAIN o : o[i].op = "ACTION" => o[i].id # x.id
      /\ \A s \in U : s.id # x.id
  BY DEF QuestionsFit
<1>5. ASSUME NEW i \in DOMAIN o, o[i].op = "ACTION", NEW j \in DOMAIN r, r[j].op = "answer"
      PROVE  r[j].id # o[i].id
  <2>1. CASE j \in DOMAIN q
    <3>1. \A e \in DOMAIN q : q[e].op = "answer" => q[e].id # o[i].id
      BY <1>5 DEF QuestionsFit
    <3> QED BY <1>2, <1>5, <2>1, <3>1
  <2>2. CASE j \notin DOMAIN q
    BY <1>2, <1>4, <1>5, <2>2
  <2> QED BY <2>1, <2>2
<1>6. ASSUME NEW i \in DOMAIN r, r[i].op = "answer"
      PROVE  /\ <<r[i].id, r[i].key>> \in K
             /\ \A j \in DOMAIN r : r[j].op = "answer" /\ r[j].id = r[i].id => i = j
             /\ \A s \in U : s.id # r[i].id
  <2>1. CASE i \in DOMAIN q
    BY <1>2, <1>4, <1>6, <2>1, SMTT(30) DEF QuestionsFit
  <2>2. CASE i \notin DOMAIN q
    BY <1>2, <1>3, <1>4, <1>6, <2>2
  <2> QED BY <2>1, <2>2
<1>7. ASSUME NEW s \in U PROVE <<s.id, s.key>> \in K /\ \A u \in U : u.id = s.id => u = s
  BY <1>7 DEF QuestionsFit
<1>8. ASSUME NEW i \in DOMAIN o, o[i].op = "ACTION"
      PROVE  /\ <<o[i].id, o[i].key>> \in K
             /\ \A j \in DOMAIN o : o[j].op = "ACTION" /\ o[j].id = o[i].id => i = j
             /\ \A s \in U : s.id # o[i].id
  BY <1>8 DEF QuestionsFit
<1> QED BY <1>5, <1>6, <1>7, <1>8 DEF QuestionsFit, r

\* The daemon asks, with an id none of the link's talkers has.
LEMMA QuestionsAsk ==
  ASSUME NEW o, NEW q, NEW T, NEW K, QuestionsFit(o, q, T, K), NEW m, NEW r, Grows(o, r, {m}),
         \A y \in K : y[1] # m.id, NEW L, K \subseteq L, <<m.id, m.key>> \in L
  PROVE  QuestionsFit(r, q, T, L)
<1>1. \A i \in DOMAIN r : (i \in DOMAIN o /\ r[i] = o[i]) \/ (i \notin DOMAIN o /\ r[i] = m)
  BY DEF Grows
<1>2. \A i, j \in DOMAIN r : i \notin DOMAIN o /\ j \notin DOMAIN o => i = j
  BY SMTT(30) DEF Grows
<1>3. \A n, k : <<n, k>> \in K => n # m.id
  <2> SUFFICES ASSUME NEW n, NEW k, <<n, k>> \in K PROVE n # m.id
    OBVIOUS
  <2>1. <<n, k>>[1] # m.id /\ <<n, k>>[1] = n
    OBVIOUS
  <2> QED BY <2>1
<1>4. /\ \A j \in DOMAIN q : q[j].op = "answer" => q[j].id # m.id
      /\ \A i \in DOMAIN o : o[i].op = "ACTION" => o[i].id # m.id
      /\ \A s \in T : s.id # m.id
  BY <1>3 DEF QuestionsFit
<1>5. ASSUME NEW i \in DOMAIN r, r[i].op = "ACTION"
      PROVE  /\ <<r[i].id, r[i].key>> \in L
             /\ \A j \in DOMAIN r : r[j].op = "ACTION" /\ r[j].id = r[i].id => i = j
             /\ \A j \in DOMAIN q : q[j].op = "answer" => q[j].id # r[i].id
             /\ \A s \in T : s.id # r[i].id
  <2>1. CASE i \in DOMAIN o
    BY <1>1, <1>4, <1>5, <2>1 DEF QuestionsFit
  <2>2. CASE i \notin DOMAIN o
    BY <1>1, <1>2, <1>4, <1>5, <2>2
  <2> QED BY <2>1, <2>2
<1> QED BY <1>5 DEF QuestionsFit

\* The daemon reads an answer and forgets its talker.
LEMMA QuestionsServe ==
  ASSUME NEW o, NEW q \in Seq(AgentRequests), q # <<>>, NEW T, NEW K, QuestionsFit(o, q, T, K),
         Head(q).op = "answer", NEW L, \A n, k : <<n, k>> \in K /\ n # Head(q).id => <<n, k>> \in L
  PROVE  QuestionsFit(o, Tail(q), T, L)
<1> DEFINE n == Head(q).id
           z == Tail(q)
<1>1. 1 \in DOMAIN q /\ Head(q) = q[1]
  BY SMTT(30)
<1>2. \A i \in DOMAIN z : i \in Nat /\ i + 1 \in DOMAIN q /\ i + 1 # 1 /\ z[i] = q[i + 1]
  BY SMTT(30)
<1>3. /\ \A i \in DOMAIN o : o[i].op = "ACTION" => o[i].id # n
      /\ \A s \in T : s.id # n
      /\ \A i \in DOMAIN z : z[i].op = "answer" => z[i].id # n
  <2>1. /\ \A i \in DOMAIN o : o[i].op = "ACTION" => o[i].id # q[1].id
        /\ \A s \in T : s.id # q[1].id
        /\ \A j \in DOMAIN q : q[j].op = "answer" /\ q[j].id = q[1].id => j = 1
    <3>1. 1 \in DOMAIN q /\ q[1].op = "answer"
      BY <1>1
    <3> QED BY <3>1 DEF QuestionsFit
  <2> HIDE DEF z
  <2> QED BY <1>1, <1>2, <2>1
<1> HIDE DEF n, z
<1>4. ASSUME NEW i \in DOMAIN z, z[i].op = "answer", NEW j \in DOMAIN z, z[j].op = "answer", z[j].id = z[i].id
      PROVE  i = j
  <2>1. /\ i + 1 \in DOMAIN q /\ q[i + 1].op = "answer"
        /\ j + 1 \in DOMAIN q /\ q[j + 1].op = "answer" /\ q[j + 1].id = q[i + 1].id
    BY <1>2, <1>4
  <2>2. i + 1 = j + 1
    BY <2>1, AnswerIn
  <2> QED BY <1>2, <2>2, SMTT(30)
<1>5. ASSUME NEW i \in DOMAIN z, z[i].op = "answer"
      PROVE  <<z[i].id, z[i].key>> \in L /\ \A s \in T : s.id # z[i].id
  BY <1>2, <1>3, <1>5, SMTT(30) DEF QuestionsFit, n
<1>6. ASSUME NEW i \in DOMAIN o, o[i].op = "ACTION"
      PROVE  /\ <<o[i].id, o[i].key>> \in L
             /\ \A j \in DOMAIN o : o[j].op = "ACTION" /\ o[j].id = o[i].id => i = j
             /\ \A j \in DOMAIN z : z[j].op = "answer" => z[j].id # o[i].id
             /\ \A s \in T : s.id # o[i].id
  BY <1>2, <1>3, <1>6, SMTT(30) DEF QuestionsFit, n
<1>7. ASSUME NEW s \in T PROVE <<s.id, s.key>> \in L /\ \A u \in T : u.id = s.id => u = s
  BY <1>3, <1>7 DEF QuestionsFit, n
<1> QED BY <1>4, <1>5, <1>6, <1>7 DEF QuestionsFit, z

-----------------------------------------------------------------------------
\* What most steps of the daemon do to agent link a: no question is sent, and no
\* talker of a is forgotten.
NothingAsked(a) ==
  /\ \E S \in SUBSET AgentMsgs : Grows(out[a], out'[a], S) /\ \A m \in S : m.op # "ACTION"
  /\ Topics(a) \subseteq Topics(a)'

\* Topics stay as long as their talkers, and contexts keep talker and key.
LEMMA TopicsKept ==
  ASSUME NEW a, \A n \in TalkerIds : <<a, n>> \in talkers => <<a, n>> \in talkers',
         \A p \in InProgress' : p \in InProgress /\ checks'[p].talker = checks[p].talker /\ checks'[p].key = checks[p].key
  PROVE  Topics(a) \subseteq Topics(a)'
<1> SUFFICES ASSUME NEW x \in Topics(a)
             PROVE  /\ x \in TalkerIds \X Keys /\ <<a, x[1]>> \in talkers'
                    /\ \A p \in InProgress' : checks'[p].talker = <<a, x[1]>> => checks'[p].key = x[2]
  BY DEF Topics
<1>1. x \in TalkerIds \X Keys /\ x[1] \in TalkerIds /\ <<a, x[1]>> \in talkers
  BY DEF Topics
<1>2. \A p \in InProgress : checks[p].talker = <<a, x[1]>> => checks[p].key = x[2]
  BY DEF Topics
<1> QED BY <1>1, <1>2

\* Nothing about a changes.
LEMMA SameNothingAsked ==
  ASSUME NEW a, out'[a] = out[a], UNCHANGED <<talkers, checks>> PROVE NothingAsked(a)
<1>1. Topics(a) \subseteq Topics(a)'
  BY DEF Topics, InProgress
<1>2. {} \in SUBSET AgentMsgs /\ Grows(out[a], out'[a], {})
  BY NothingGrows
<1> QED BY <1>1, <1>2 DEF NothingAsked

\* Cancelling the checks of clients only takes questions back.
LEMMA CancelChecksAsks ==
  ASSUME IInv, NEW C \in SUBSET ClientLinks, CancelChecksOf(C), UNCHANGED talkers, NEW a \in AgentLinks
  PROVE  NothingAsked(a)
<1> DEFINE S == [op : {"CANCEL"}, id : TalkerIds]
<1>1. Grows(out[a], out'[a], S) /\ S \in SUBSET AgentMsgs /\ \A m \in S : m.op # "ACTION"
  BY CancelChecksSends DEF AgentMsgs
<1>2. ASSUME NEW p \in InProgress'
      PROVE  p \in InProgress /\ checks'[p].talker = checks[p].talker /\ checks'[p].key = checks[p].key
  <2>1. p \in CheckRefs /\ checks'[p] # NoCheck
    BY DEF InProgress
  <2>2. p \in InProgress
    BY <2>1 DEF CancelChecksOf, InProgress
  <2>3. checks[p] \in Contexts
    BY <2>2, ContextType DEF IInv
  <2>4. checks'[p] \in {checks[p], [checks[p] EXCEPT !.cancelled = TRUE]}
    BY <2>1 DEF CancelChecksOf
  <2> QED BY <2>2, <2>3, <2>4 DEF Contexts
<1>3. Topics(a) \subseteq Topics(a)'
  BY <1>2, TopicsKept
<1> QED BY <1>1, <1>3 DEF NothingAsked

\* The loss of one agent asks the others nothing.
LEMMA DropAgentAsks ==
  ASSUME IInv, NEW b \in AgentLinks, DropAgent(b), NEW a \in AgentLinks, a # b
  PROVE  NothingAsked(a)
<1>1. Grows(out[a], out'[a], {}) /\ {} \in SUBSET AgentMsgs
  BY DropAgentSends
<1>2. ASSUME NEW p \in InProgress'
      PROVE  p \in InProgress /\ checks'[p].talker = checks[p].talker /\ checks'[p].key = checks[p].key
  BY DEF DropAgent, InProgress
<1>3. \A n \in TalkerIds : <<a, n>> \in talkers => <<a, n>> \in talkers'
  BY DEF DropAgent
<1>4. Topics(a) \subseteq Topics(a)'
  BY <1>2, <1>3, TopicsKept
<1> QED BY <1>1, <1>4 DEF NothingAsked

\* A cancel request asks nothing.
LEMMA CancelAsks ==
  ASSUME IInv, NEW l \in ClientLinks, NEW id \in CheckIds, ExecuteCancel(l, id), NEW a \in AgentLinks
  PROVE  NothingAsked(a)
<1>1. UNCHANGED talkers
  BY DEF ExecuteCancel
<1>2. CASE UNCHANGED <<checks, out>>
  BY <1>1, <1>2, SameNothingAsked
<1>3. CASE checks[<<l, id>>] # NoCheck /\ ~checks[<<l, id>>].cancelled
  <2> DEFINE S == [op : {"CANCEL"}, id : TalkerIds]
             r == <<l, id>>
  <2>1. Grows(out[a], out'[a], S) /\ S \in SUBSET AgentMsgs /\ \A m \in S : m.op # "ACTION"
    BY <1>3, CancelSends DEF AgentMsgs
  <2>2. checks' = [checks EXCEPT ![r].cancelled = TRUE] /\ r \in InProgress
    BY <1>3 DEF ExecuteCancel, InProgress, CheckRefs
  <2>3. checks[r] \in Contexts
    BY <2>2, ContextType DEF IInv
  <2> HIDE DEF r
  <2>4. ASSUME NEW p \in InProgress'
        PROVE  p \in InProgress /\ checks'[p].talker = checks[p].talker /\ checks'[p].key = checks[p].key
    <3>1. p \in CheckRefs /\ checks'[p] # NoCheck
      BY DEF InProgress
    <3>2. CASE p = r
      <4>1. checks'[p] = [checks[r] EXCEPT !.cancelled = TRUE]
        BY <2>2, <3>1, <3>2 DEF IInv, TypeOK
      <4> QED BY <2>2, <2>3, <3>2, <4>1 DEF Contexts
    <3>3. CASE p # r
      <4>1. checks'[p] = checks[p]
        BY <2>2, <3>1, <3>3 DEF IInv, TypeOK
      <4> QED BY <3>1, <4>1 DEF InProgress
    <3> QED BY <3>2, <3>3
  <2>5. Topics(a) \subseteq Topics(a)'
    BY <1>1, <2>4, TopicsKept
  <2> QED BY <2>1, <2>5 DEF NothingAsked
<1> QED BY <1>2, <1>3 DEF ExecuteCancel

\* An answer over another link, and an answer over a that does not close it.
LEMMA AnswerAsks ==
  ASSUME IInv, NEW b \in AgentLinks, NEW id \in TalkerIds, NEW type, NEW st, ExecuteAgentAction(b, id, type, st),
         NEW a \in AgentLinks, a # b
  PROVE  NothingAsked(a)
<1>1. CASE UNCHANGED <<talkers, checks, out>>
  BY <1>1, SameNothingAsked
<1>2. CASE DropAgent(b)
  BY <1>2, DropAgentAsks
<1>3. ASSUME NEW p \in InProgress, talkers' = talkers \ {<<b, id>>}, checks' = [checks EXCEPT ![p] = NoCheck],
             UNCHANGED out \/ Answer(p[1], p[2], checks[p].key, st)
      PROVE  NothingAsked(a)
  <2>1. p[1] \in ClientLinks
    BY ContextType DEF IInv
  <2>2. out'[a] = out[a]
    BY <1>3, <2>1, LinksAssumption DEF Answer, Send, IInv, TypeOK, Links
  <2>3. Grows(out[a], out'[a], {}) /\ {} \in SUBSET AgentMsgs
    BY <2>2, NothingGrows
  <2>4. ASSUME NEW r \in InProgress'
        PROVE  r \in InProgress /\ checks'[r].talker = checks[r].talker /\ checks'[r].key = checks[r].key
    <3>1. r \in CheckRefs /\ checks'[r] # NoCheck
      BY DEF InProgress
    <3>2. checks'[r] = checks[r]
      BY <1>3, <3>1 DEF IInv, TypeOK
    <3> QED BY <3>1, <3>2 DEF InProgress
  <2>5. \A n \in TalkerIds : <<a, n>> \in talkers => <<a, n>> \in talkers'
    BY <1>3
  <2>6. Topics(a) \subseteq Topics(a)'
    BY <2>4, <2>5, TopicsKept
  <2> QED BY <2>3, <2>6 DEF NothingAsked
<1> QED BY <1>1, <1>2, <1>3 DEF ExecuteAgentAction, IInv, TalkersMatchContexts

\* An agent's connection after a step that asks nothing.
LEMMA AgentQuiet ==
  ASSUME NEW a, AgentFits(a), NothingAsked(a), in'[a] \in {in[a], <<>>}, TodoOf(a)' \subseteq TodoOf(a)
  PROVE  AgentFits(a)'
<1>1. PICK S \in SUBSET AgentMsgs : Grows(out[a], out'[a], S) /\ \A m \in S : m.op # "ACTION"
  BY DEF NothingAsked
<1> DEFINE z == in'[a]
           U == TodoOf(a)'
           L == Topics(a)'
<1>2. z \in {in[a], <<>>} /\ U \subseteq TodoOf(a) /\ Topics(a) \subseteq L
  BY DEF NothingAsked
<1>3. QuestionsFit(out[a], in[a], TodoOf(a), Topics(a))
  BY DEF AgentFits
<1> HIDE DEF z, U, L
<1>4. QuestionsFit(out'[a], z, U, L)
  BY <1>1, <1>2, <1>3, QuestionsQuiet, SMTT(30)
<1> QED BY <1>4 DEF AgentFits, z, U, L

\* A question: its id is free, so nothing else under way carries it.
LEMMA AskFits ==
  ASSUME IInv, NEW l \in ClientLinks, NEW id \in CheckIds, NEW k \in Keys, Asks(l, id, k),
         NEW a \in AgentLinks, AgentFits(a), in'[a] = in[a], TodoOf(a)' = TodoOf(a)
  PROVE  AgentFits(a)'
<1>1. PICK b \in AgentLinks :
       /\ <<b, seqNo>> \notin talkers /\ talkers' = talkers \cup {<<b, seqNo>>}
       /\ checks' = [checks EXCEPT ![<<l, id>>] = [talker |-> <<b, seqNo>>, key |-> k, cancelled |-> FALSE]]
       /\ Send(b, [op |-> "ACTION", id |-> seqNo, key |-> k])
  BY DEF Asks
<1> DEFINE m == [op |-> "ACTION", id |-> seqNo, key |-> k]
<1>2. seqNo \in TalkerIds /\ m \in Msgs /\ m.id = seqNo /\ m.key = k /\ m.op = "ACTION"
  BY DEF IInv, TypeOK, Msgs, AgentMsgs
<1>3. Grows(out[a], out'[a], IF a = b THEN {m} ELSE {})
  BY <1>1, <1>2, SendGrows DEF IInv, Links
<1>4. ASSUME NEW p \in InProgress'
      PROVE  \/ p \in InProgress /\ checks'[p] = checks[p]
             \/ checks'[p].talker = <<b, seqNo>> /\ checks'[p].key = k
  <2>1. p \in CheckRefs /\ checks'[p] # NoCheck
    BY DEF InProgress
  <2> QED BY <1>1, <2>1 DEF IInv, TypeOK, InProgress
<1>5. Topics(a) \subseteq Topics(a)'
  <2> SUFFICES ASSUME NEW x \in Topics(a)
               PROVE  /\ x \in TalkerIds \X Keys /\ <<a, x[1]>> \in talkers'
                      /\ \A p \in InProgress' : checks'[p].talker = <<a, x[1]>> => checks'[p].key = x[2]
    BY DEF Topics
  <2>1. /\ x \in TalkerIds \X Keys /\ <<a, x[1]>> \in talkers
        /\ \A p \in InProgress : checks[p].talker = <<a, x[1]>> => checks[p].key = x[2]
    BY DEF Topics
  <2>2. <<a, x[1]>> # <<b, seqNo>>
    BY <1>1, <2>1
  <2> QED BY <1>1, <1>4, <2>1, <2>2
<1>6. CASE a = b
  <2>1. \A y \in Topics(a) : y[1] # m.id
    BY <1>1, <1>2, <1>6 DEF Topics
  <2>2. <<m.id, m.key>> \in Topics(a)'
    <3> DEFINE x == <<seqNo, k>>
    <3>1. x \in TalkerIds \X Keys /\ x[1] = seqNo /\ x[2] = k /\ <<a, seqNo>> \in talkers'
      BY <1>1, <1>2, <1>6
    <3>2. ASSUME NEW p \in InProgress', checks'[p].talker = <<a, seqNo>> PROVE checks'[p].key = k
      <4>1. p \in InProgress => checks[p].talker # <<a, seqNo>>
        BY <1>1, <1>6 DEF IInv, TalkersMatchContexts
      <4> QED BY <1>4, <3>2, <4>1
    <3>3. x \in Topics(a)'
      BY <3>1, <3>2 DEF Topics
    <3> QED BY <1>2, <3>3
  <2> DEFINE L == Topics(a)'
  <2>3. Topics(a) \subseteq L /\ <<m.id, m.key>> \in L /\ Grows(out[a], out'[a], {m})
    BY <1>3, <1>5, <1>6, <2>2
  <2> HIDE DEF L, m
  <2>4. QuestionsFit(out'[a], in[a], TodoOf(a), L)
    BY <2>1, <2>3, QuestionsAsk DEF AgentFits
  <2> QED BY <2>4 DEF AgentFits, L
<1>7. CASE a # b
  <2>1. Grows(out[a], out'[a], {}) /\ {} \in SUBSET AgentMsgs
    BY <1>3, <1>7
  <2>2. NothingAsked(a)
    BY <1>5, <2>1 DEF NothingAsked
  <2> QED BY <2>2, AgentQuiet
<1> QED BY <1>6, <1>7

\* An answer over a: the talker it belongs to goes, and nothing else is about it.
LEMMA AnswerFits ==
  ASSUME IInv, Env, NEW a \in AgentLinks, AgentFits(a), in[a] # <<>>, Head(in[a]).op = "answer",
         NEW st, ExecuteAgentAction(a, Head(in[a]).id, Head(in[a]).type, st),
         in'[a] = Tail(in[a]), TodoOf(a)' = TodoOf(a), a \in open'
  PROVE  AgentFits(a)'
<1> DEFINE n == Head(in[a]).id
<1>1. in[a] \in Seq(AgentRequests)
  BY DEF Env, SysTypeOK, InTyped
<1>2. ASSUME out'[a] = out[a],
             \A i \in TalkerIds : <<a, i>> \in talkers /\ i # n => <<a, i>> \in talkers',
             \A p \in InProgress' : p \in InProgress /\ checks'[p] = checks[p]
      PROVE  AgentFits(a)'
  <2> DEFINE L == Topics(a)'
  <2>1. ASSUME NEW i, NEW k, <<i, k>> \in Topics(a), i # n PROVE <<i, k>> \in L
    <3> DEFINE x == <<i, k>>
    <3>1. /\ x \in TalkerIds \X Keys /\ x[1] = i /\ x[2] = k /\ i \in TalkerIds
          /\ <<a, i>> \in talkers
          /\ \A p \in InProgress : checks[p].talker = <<a, i>> => checks[p].key = k
      BY <2>1 DEF Topics
    <3> QED BY <1>2, <2>1, <3>1 DEF Topics
  <2> HIDE DEF L, n
  <2>2. \A i, k : <<i, k>> \in Topics(a) /\ i # n => <<i, k>> \in L
    BY <2>1
  <2>3. QuestionsFit(out[a], Tail(in[a]), TodoOf(a), L)
    BY <1>1, <2>2, QuestionsServe DEF AgentFits, n
  <2> QED BY <1>2, <2>3 DEF AgentFits, L
<1>3. CASE UNCHANGED <<talkers, checks, out>>
  <2>1. InProgress' = InProgress
    BY <1>3 DEF InProgress
  <2> QED BY <1>2, <1>3, <2>1
<1>4. ~DropAgent(a)
  BY DEF DropAgent
<1>5. ASSUME NEW p \in InProgress, talkers' = talkers \ {<<a, n>>}, checks' = [checks EXCEPT ![p] = NoCheck],
             UNCHANGED out \/ Answer(p[1], p[2], checks[p].key, st)
      PROVE  AgentFits(a)'
  <2>1. p[1] \in ClientLinks
    BY ContextType DEF IInv
  <2>2. out'[a] = out[a]
    BY <1>5, <2>1, LinksAssumption DEF Answer, Send, IInv, TypeOK, Links
  <2>3. ASSUME NEW r \in InProgress' PROVE r \in InProgress /\ checks'[r] = checks[r]
    <3>1. r \in CheckRefs /\ checks'[r] # NoCheck
      BY DEF InProgress
    <3>2. checks'[r] = checks[r]
      BY <1>5, <3>1 DEF IInv, TypeOK
    <3> QED BY <3>1, <3>2 DEF InProgress
  <2>4. \A i \in TalkerIds : <<a, i>> \in talkers /\ i # n => <<a, i>> \in talkers'
    BY <1>5
  <2> QED BY <1>2, <2>2, <2>3, <2>4
<1> QED BY <1>3, <1>4, <1>5 DEF ExecuteAgentAction, IInv, TalkersMatchContexts

-----------------------------------------------------------------------------
\* The questions held at the other end of a link are those of its one agent.
LEMMA TodoHolder ==
  ASSUME LinksApart, NEW t \in AgentTypes, agConn[t] # NoLink PROVE TodoOf(agConn[t]) = todo[t]
<1>1. {u \in AgentTypes : agConn[u] = agConn[t]} = {t}
  BY DEF LinksApart
<1> QED BY <1>1 DEF TodoOf

\* The questions in an agent's hands depend on its connection alone.
LEMMA TodoSame ==
  ASSUME UNCHANGED <<agConn, todo>>, NEW a PROVE TodoOf(a)' = TodoOf(a)
  BY DEF TodoOf

\* The steps of clients do not concern agents.
LEMMA ClientQuestions ==
  ASSUME IInv, Env, QuestionsOnce, NEW c \in Clients,
         \/ \E l \in ClientLinks :
              \/ \E k \in Keys, simple \in BOOLEAN : CreateRequest(c, l, k, simple)
              \/ \E id \in CheckIds : CancelRequest(c, l, id)
              \/ Reconnect(c, l)
         \/ ServiceNotAvailable(c) \/ ProcessResponse(c) \/ Finish(c)
  PROVE  QuestionsOnce'
<1> SUFFICES ASSUME NEW a \in AgentLinks, a \in open' PROVE AgentFits(a)'
  BY DEF QuestionsOnce
<1>1. UNCHANGED <<agConn, todo, talkers, checks>>
  BY DEF CreateRequest, CancelRequest, Reconnect, ServiceNotAvailable, ProcessResponse, Finish, Ensure, Accept,
         Read, svars
<1>2. a \in Links /\ a \notin ClientLinks
  BY LinksAssumption DEF Links
<1>3. ASSUME NEW l \in ClientLinks, NEW z, Ensure(c, l), Inputs([in EXCEPT ![l] = z])
      PROVE  a \in open /\ out'[a] = out[a] /\ in'[a] \in {in[a], <<>>}
  <2>1. in'[a] \in {in[a], <<>>}
    BY <1>2, <1>3, InputsOne DEF Links
  <2> QED BY <1>2, <1>3, <2>1 DEF Ensure, Accept, svars, IInv, TypeOK
<1>4. a \in open /\ out'[a] = out[a] /\ in'[a] \in {in[a], <<>>}
  <2>1. CASE ServiceNotAvailable(c) \/ Finish(c)
    BY <2>1 DEF ServiceNotAvailable, Finish, svars
  <2>2. CASE ProcessResponse(c)
    BY <1>2, <2>2 DEF ProcessResponse, Read, IInv, TypeOK, Env, SysTypeOK, Links
  <2>3. ASSUME NEW l \in ClientLinks, NEW k \in Keys, NEW simple \in BOOLEAN, CreateRequest(c, l, k, simple)
        PROVE  \E z : Ensure(c, l) /\ Inputs([in EXCEPT ![l] = z])
    BY <2>3 DEF CreateRequest
  <2>4. ASSUME NEW l \in ClientLinks, NEW id \in CheckIds, CancelRequest(c, l, id)
        PROVE  \E z : Ensure(c, l) /\ Inputs([in EXCEPT ![l] = z])
    BY <2>4 DEF CancelRequest
  <2>5. ASSUME NEW l \in ClientLinks, Reconnect(c, l)
        PROVE  \E z : Ensure(c, l) /\ Inputs([in EXCEPT ![l] = z])
    BY <2>5 DEF Reconnect
  <2> QED BY <1>3, <2>1, <2>2, <2>3, <2>4, <2>5
<1>5. NothingAsked(a)
  BY <1>1, <1>4, SameNothingAsked
<1>6. TodoOf(a)' \subseteq TodoOf(a)
  BY <1>1, TodoSame
<1> QED BY <1>4, <1>5, <1>6, AgentQuiet DEF QuestionsOnce

\* The steps of an agent that drops the questions of an earlier connection.
LEMMA AgentQuestions ==
  ASSUME IInv, Env, Env', QuestionsOnce, "late" \notin Disturbances, NEW t \in AgentTypes,
         \/ \E a \in AgentLinks : AgentConnect(t, a)
         \/ AgentGetRequest(t)
         \/ \E q \in todo[t] : AgentPutResponse(t, q)
         \/ AgentLeave(t)
  PROVE  QuestionsOnce'
<1> SUFFICES ASSUME NEW a \in AgentLinks, a \in open' PROVE AgentFits(a)'
  BY DEF QuestionsOnce
<1>1. UNCHANGED <<talkers, checks>>
  BY DEF AgentConnect, AgentGetRequest, AgentPutResponse, AgentLeave, Accept, Read, svars
<1>2. ASSUME a \in open, out'[a] = out[a], in'[a] = in[a] \/ in'[a] = <<>>, TodoOf(a)' \subseteq TodoOf(a)
      PROVE  AgentFits(a)'
  <2>1. NothingAsked(a)
    BY <1>1, <1>2, SameNothingAsked
  <2> QED BY <1>2, <2>1, AgentQuiet DEF QuestionsOnce
<1>3. a \in Links /\ a # NoLink /\ LinksApart /\ LinksApart'
  BY LinksAssumption DEF Links, Env
<1>4. Topics(a)' = Topics(a)
  BY <1>1 DEF Topics, InProgress
<1>5. ASSUME NEW u \in AgentTypes, u # t PROVE agConn'[u] = agConn[u] /\ todo'[u] = todo[u]
  BY <1>5 DEF AgentConnect, AgentGetRequest, AgentPutResponse, AgentLeave, AgentHangUp, Env, SysTypeOK
<1>6. ASSUME agConn[t] # a, agConn'[t] # a PROVE TodoOf(a)' = TodoOf(a)
  <2>1. {u \in AgentTypes : agConn'[u] = a} = {u \in AgentTypes : agConn[u] = a}
    BY <1>5, <1>6
  <2>2. \A u \in {v \in AgentTypes : agConn[v] = a} : todo'[u] = todo[u]
    BY <1>5, <1>6
  <2> QED BY <2>1, <2>2 DEF TodoOf
<1>7. ASSUME NEW b \in AgentLinks, AgentConnect(t, b) PROVE AgentFits(a)'
  <2>1. /\ agConn[t] \notin open /\ ~Held(b) /\ Accept(b) /\ agConn' = [agConn EXCEPT ![t] = b]
        /\ Inputs([in EXCEPT ![b] = <<[op |-> "register", type |-> t]>>])
        /\ todo' = [todo EXCEPT ![t] = {}]
    BY <1>7 DEF AgentConnect
  <2>2. CASE a = b
    <3>1. out'[a] = <<>>
      BY <1>3, <2>1, <2>2 DEF Accept, IInv, TypeOK
    <3>2. in'[a] = <<[op |-> "register", type |-> t]>>
      BY <1>3, <2>1, <2>2, InputsOne
    <3>3. agConn'[t] = a /\ todo'[t] = {}
      BY <2>1, <2>2 DEF Env, SysTypeOK
    <3>4. TodoOf(a)' = {}
      <4>1. \A u \in AgentTypes : agConn'[u] = a => u = t
        BY <1>3, <3>3 DEF LinksApart
      <4> QED BY <3>3, <4>1 DEF TodoOf
    <3>5. \A i \in DOMAIN in'[a] : in'[a][i].op = "register"
      BY <3>2, SMTT(30)
    <3> QED BY <3>1, <3>4, <3>5, SMTT(30) DEF AgentFits, QuestionsFit
  <2>3. CASE a # b
    <3>1. a \in open /\ out'[a] = out[a] /\ agConn[t] # a /\ agConn'[t] # a
      BY <1>3, <2>1, <2>3 DEF Accept, IInv, TypeOK, Env, SysTypeOK
    <3>2. in'[a] \in {in[a], <<>>}
      BY <1>3, <2>1, <2>3, InputsOne DEF Links
    <3> QED BY <1>2, <1>6, <3>1, <3>2
  <2> QED BY <2>2, <2>3
<1>8. ASSUME agConn' = [agConn EXCEPT ![t] = NoLink], a \in open, UNCHANGED in,
             out'[a] = out[a] \/ agConn[t] = a
      PROVE  AgentFits(a)'
  <2>1. agConn'[t] # a
    BY <1>3, <1>8 DEF Env, SysTypeOK
  <2>2. CASE agConn[t] = a
    <3>1. \A u \in AgentTypes : agConn'[u] # a
      BY <1>3, <1>5, <2>1, <2>2 DEF LinksApart
    <3>2. TodoOf(a)' = {}
      BY <3>1 DEF TodoOf
    <3>3. out[a] \in Seq(AgentMsgs) /\ AgentFits(a)
      BY <1>8 DEF Env, SysTypeOK, OutTyped, QuestionsOnce
    <3>4. out'[a] = out[a] \/ (out[a] # <<>> /\ out'[a] = Tail(out[a]))
      BY <1>3, <1>8, <2>2, LinksAssumption DEF AgentConnect, AgentGetRequest, AgentPutResponse, AgentLeave, Read,
         Accept, svars, IInv, TypeOK, Held
    <3>5. QuestionsFit(out'[a], in[a], TodoOf(a), Topics(a))
      BY <3>3, <3>4, QuestionsSkip DEF AgentFits
    <3>6. QuestionsFit(out'[a], in[a], {}, Topics(a))
      BY <3>5 DEF QuestionsFit
    <3> QED BY <1>4, <1>8, <3>2, <3>6 DEF AgentFits
  <2>3. CASE agConn[t] # a
    BY <1>2, <1>6, <1>8, <2>1, <2>3
  <2> QED BY <2>2, <2>3
<1>9. CASE AgentLeave(t)
  BY <1>8, <1>9 DEF AgentLeave, AgentHangUp, svars
<1>10. CASE AgentGetRequest(t)
  <2> DEFINE b == agConn[t]
             m == Head(out[b])
  <2>1. b \in AgentLinks /\ b # NoLink /\ out[b] # <<>> /\ Read(b) /\ UNCHANGED <<in, open>>
    BY <1>10 DEF AgentGetRequest, AgentHangUp, Read, Env, SysTypeOK
  <2>2. a \in open /\ (a # b => out'[a] = out[a]) /\ (a = b => out'[a] = Tail(out[a]))
    BY <1>3, <2>1 DEF Read, IInv, TypeOK
  <2>3. CASE AgentHangUp(t)
    BY <1>8, <2>1, <2>2, <2>3 DEF AgentHangUp
  <2>4. CASE UNCHANGED agConn /\ a # b
    BY <1>2, <1>6, <2>1, <2>2, <2>4
  <2>5. CASE UNCHANGED agConn /\ a = b
    <3>1. TodoOf(a) = todo[t]
      BY <1>3, <2>5, TodoHolder
    <3>2. TodoOf(a)' = todo'[t]
      <4>1. {u \in AgentTypes : agConn'[u] = a} = {t}
        BY <1>3, <2>5 DEF LinksApart
      <4> QED BY <4>1 DEF TodoOf
    <3>3. out[a] \in Seq(AgentMsgs) /\ AgentFits(a)
      BY <2>2 DEF Env, SysTypeOK, OutTyped, QuestionsOnce
    <3>4. QuestionsFit(out[a], in[a], todo[t], Topics(a)) /\ QuestionsFit(Tail(out[a]), in[a], todo[t], Topics(a))
      BY <2>1, <2>5, <3>1, <3>3, QuestionsSkip DEF AgentFits
    <3>5. QuestionsFit(Tail(out[a]), in[a], todo'[t], Topics(a))
      <4>1. CASE UNCHANGED todo
        BY <3>4, <4>1
      <4>2. CASE m.op = "ACTION" /\ todo' = [todo EXCEPT ![t] = @ \cup {[id |-> m.id, key |-> m.key, type |-> "ACTION"]}]
        <5> DEFINE x == [id |-> m.id, key |-> m.key, type |-> "ACTION"]
        <5>1. todo'[t] = todo[t] \cup {x} /\ x.id = m.id /\ x.key = m.key
          BY <4>2 DEF Env, SysTypeOK
        <5> HIDE DEF x
        <5>2. Head(out[a]).op = "ACTION" /\ x.id = Head(out[a]).id /\ x.key = Head(out[a]).key /\ out[a] # <<>>
          BY <2>1, <2>5, <4>2, <5>1
        <5>3. QuestionsFit(Tail(out[a]), in[a], todo[t] \cup {x}, Topics(a))
          BY <3>3, <3>4, <5>2, QuestionsTake
        <5> QED BY <5>1, <5>3
      <4>3. CASE todo' = [todo EXCEPT ![t] = {[q EXCEPT !.type = IF q.id = m.id THEN "CANCEL" ELSE @] : q \in @}]
        <5> DEFINE f(q) == [q EXCEPT !.type = IF q.id = m.id THEN "CANCEL" ELSE q.type]
        <5>1. todo[t] \in SUBSET Questions
          BY DEF Env, SysTypeOK
        <5>2. todo'[t] = {f(q) : q \in todo[t]}
          BY <4>3 DEF Env, SysTypeOK
        <5>3. \A q \in todo[t] : f(q).id = q.id /\ f(q).key = q.key
          BY <5>1 DEF Questions
        <5>4. \A x \in todo'[t] : \E y \in todo[t] : x.id = y.id /\ x.key = y.key
          BY <5>2, <5>3
        <5>5. \A q, r \in todo[t] : q.id = r.id => q = r
          BY <3>4 DEF QuestionsFit
        <5> HIDE DEF f
        <5>6. \A x, y \in todo'[t] : x.id = y.id => x = y
          BY <5>2, <5>3, <5>5, SMTT(30)
        <5> QED BY <3>4, <5>4, <5>6, QuestionsRetype
      <4>4. ~AgentHangUp(t)
        BY <1>3, <2>5 DEF AgentHangUp, Env, SysTypeOK
      <4> QED BY <1>10, <4>1, <4>2, <4>3, <4>4 DEF AgentGetRequest
    <3> QED BY <1>4, <2>1, <2>2, <2>5, <3>2, <3>5 DEF AgentFits
  <2> QED BY <1>10, <2>3, <2>4, <2>5 DEF AgentGetRequest
<1>11. ASSUME NEW q \in todo[t], AgentPutResponse(t, q) PROVE AgentFits(a)'
  <2> DEFINE b == agConn[t]
             m == [op |-> "answer", id |-> q.id, type |-> q.type, key |-> q.key]
  <2>1. /\ UNCHANGED <<agConn, open, out>> /\ todo' = [todo EXCEPT ![t] = @ \ {q}]
        /\ in' = IF b \in open THEN [in EXCEPT ![b] = Append(@, m)] ELSE in
    BY <1>11 DEF AgentPutResponse, svars
  <2>2. CASE a # b
    <3>1. in'[a] = in[a]
      BY <1>3, <2>1, <2>2 DEF Env, SysTypeOK
    <3> QED BY <1>2, <1>6, <2>1, <2>2, <3>1
  <2>3. CASE a = b
    <3>1. TodoOf(a) = todo[t]
      BY <1>3, <2>3, TodoHolder
    <3>2. TodoOf(a)' = todo'[t]
      <4>1. {u \in AgentTypes : agConn'[u] = a} = {t}
        BY <1>3, <2>1, <2>3 DEF LinksApart
      <4> QED BY <4>1 DEF TodoOf
    <3>3. todo'[t] = todo[t] \ {q} /\ in'[a] = Append(in[a], m)
      BY <1>3, <2>1, <2>3 DEF Env, SysTypeOK
    <3>4. m \in AgentRequests /\ m.op = "answer" /\ m.id = q.id /\ m.key = q.key
      <4>1. q \in Questions
        BY <1>11 DEF Env, SysTypeOK
      <4> QED BY <4>1 DEF Questions, AgentRequests
    <3>5. in[a] \in Seq(AgentRequests) /\ QuestionsFit(out[a], in[a], todo[t], Topics(a))
      BY <2>1, <3>1 DEF Env, SysTypeOK, InTyped, QuestionsOnce, AgentFits
    <3> HIDE DEF m
    <3>6. QuestionsFit(out[a], Append(in[a], m), todo[t] \ {q}, Topics(a))
      BY <1>11, <3>4, <3>5, QuestionsPut
    <3> QED BY <1>4, <2>1, <3>2, <3>3, <3>6 DEF AgentFits
  <2> QED BY <2>2, <2>3
<1> QED BY <1>7, <1>9, <1>10, <1>11

\* The daemon read a message which is no answer, or an answer it did not need.
LEMMA QuestionsTail ==
  ASSUME NEW M, NEW o, NEW q \in Seq(M), NEW T, NEW K, QuestionsFit(o, q, T, K), q # <<>>
  PROVE  QuestionsFit(o, Tail(q), T, K)
<1> DEFINE z == Tail(q)
<1>1. \A i \in DOMAIN z : i \in Nat /\ i + 1 \in DOMAIN q /\ z[i] = q[i + 1]
  BY SMTT(30)
<1> HIDE DEF z
<1>2. ASSUME NEW i \in DOMAIN z, z[i].op = "answer"
      PROVE  /\ <<z[i].id, z[i].key>> \in K
             /\ \A j \in DOMAIN o : o[j].op = "ACTION" => o[j].id # z[i].id
             /\ \A r \in T : r.id # z[i].id
  <2>1. i + 1 \in DOMAIN q /\ q[i + 1] = z[i]
    BY <1>1, <1>2
  <2> DEFINE n == i + 1
  <2>2. n \in DOMAIN q /\ q[n] = z[i] /\ q[n].op = "answer"
    BY <1>2, <2>1
  <2> HIDE DEF n
  <2>3. /\ <<q[n].id, q[n].key>> \in K
        /\ \A j \in DOMAIN o : o[j].op = "ACTION" => o[j].id # q[n].id
        /\ \A r \in T : r.id # q[n].id
    BY <2>2 DEF QuestionsFit
  <2> QED BY <2>2, <2>3
<1>3. ASSUME NEW i \in DOMAIN z, z[i].op = "answer", NEW j \in DOMAIN z, z[j].op = "answer", z[j].id = z[i].id
      PROVE  i = j
  <2> DEFINE n == i + 1
             k == j + 1
  <2>1. n \in DOMAIN q /\ q[n] = z[i] /\ k \in DOMAIN q /\ q[k] = z[j] /\ (n = k => i = j)
    BY <1>1, SMTT(30)
  <2> HIDE DEF n, k
  <2>2. q[n].op = "answer" /\ q[k].op = "answer" /\ q[k].id = q[n].id
    BY <1>3, <2>1
  <2>3. n = k
    BY <2>1, <2>2 DEF QuestionsFit
  <2> QED BY <2>1, <2>3
<1>4. QuestionsFit(o, z, T, K)
  BY <1>2, <1>3 DEF QuestionsFit
<1> QED BY <1>4 DEF z

\* A message to a client, or to a new agent, asks nothing.
LEMMA OtherMessage ==
  ASSUME IInv, NEW x \in Links, NEW m \in Msgs, Send(x, m), UNCHANGED <<talkers, checks>>,
         NEW a \in AgentLinks, x = a => m \in AgentMsgs /\ m.op # "ACTION"
  PROVE  NothingAsked(a)
<1>1. Grows(out[a], out'[a], IF a = x THEN {m} ELSE {})
  BY SendGrows DEF IInv, Links
<1>2. Topics(a) \subseteq Topics(a)'
  BY DEF Topics, InProgress
<1>3. CASE a = x
  <2>1. {m} \in SUBSET AgentMsgs /\ Grows(out[a], out'[a], {m})
    BY <1>1, <1>3
  <2> QED BY <1>2, <1>3, <2>1 DEF NothingAsked
<1>4. CASE a # x
  <2>1. {} \in SUBSET AgentMsgs /\ Grows(out[a], out'[a], {})
    BY <1>1, <1>4
  <2> QED BY <1>2, <2>1 DEF NothingAsked
<1> QED BY <1>3, <1>4

\* The steps of the daemon.
LEMMA DaemonQuestions ==
  ASSUME IInv, Env, QuestionsOnce, ~running => open = {},
         \/ \E l \in Links : Handle(l) \/ HandleHangUp(l)
         \/ Administrate \/ StopService \/ StartService
  PROVE  QuestionsOnce'
<1> SUFFICES ASSUME NEW a \in AgentLinks, a \in open' PROVE AgentFits(a)'
  BY DEF QuestionsOnce
<1>1. UNCHANGED <<agConn, todo>>
  BY DEF Handle, HandleHangUp, Administrate, StopService, StartService, pvars
<1>2. TodoOf(a)' = TodoOf(a)
  BY <1>1, TodoSame
<1>3. a \in Links /\ a \notin ClientLinks
  BY LinksAssumption DEF Links
<1>4. ASSUME a \in open, NothingAsked(a), in'[a] \in {in[a], <<>>} PROVE AgentFits(a)'
  BY <1>2, <1>4, AgentQuiet DEF QuestionsOnce
<1>5. ASSUME Inputs(in) PROVE in'[a] \in {in[a], <<>>}
  BY <1>3, <1>5 DEF Inputs
<1>6. ASSUME NEW x \in Links, HandleHangUp(x) PROVE AgentFits(a)'
  <2>1. a \in open /\ NothingAsked(a)
    <3>1. ASSUME x \in ClientLinks, CloseClient(x) PROVE a \in open /\ NothingAsked(a)
      BY <3>1, CancelChecksAsks DEF CloseClient, CancelChecksOf
    <3>2. ASSUME x \in AgentLinks, CloseAgent(x) PROVE a \in open /\ NothingAsked(a)
      <4>1. a # x /\ a \in open
        BY <3>2 DEF CloseAgent, DropAgent
      <4> QED BY <3>2, <4>1, DropAgentAsks DEF CloseAgent
    <3> QED BY <1>6, <3>1, <3>2 DEF HandleHangUp
  <2> QED BY <1>4, <1>5, <1>6, <2>1 DEF HandleHangUp
<1>7. CASE Administrate
  <2>1. a \in open /\ NothingAsked(a)
    <3>1. UNCHANGED talkers
      BY <1>7 DEF Administrate, ChangePolicies
    <3>2. CASE UNCHANGED <<open, checks, out>>
      BY <3>1, <3>2, SameNothingAsked
    <3>3. CASE CancelChecksOf(open \cap ClientLinks)
      BY <3>1, <3>3, CancelChecksAsks DEF CancelChecksOf
    <3> QED BY <1>7, <3>2, <3>3 DEF Administrate, ChangePolicies
  <2> QED BY <1>4, <1>5, <1>7, <2>1 DEF Administrate
<1>8. ~StopService /\ ~StartService
  BY DEF StopService, Stop, StartService, Start
<1>9. ASSUME NEW x \in Links, Handle(x) PROVE AgentFits(a)'
  <2> DEFINE m == Head(in[x])
  <2>1. /\ in[x] # <<>> /\ Inputs([in EXCEPT ![x] = Tail(in[x])]) /\ x \in open
    BY <1>9 DEF Handle, Env, SysTypeOK
  <2>2. /\ in'[x] = IF x \in open' THEN Tail(in[x]) ELSE <<>>
        /\ x # a => in'[a] \in {in[a], <<>>}
    BY <1>3, <2>1, InputsOne
  <2>3. x # a => in'[a] = in[a]
    BY <1>3, <2>1 DEF Inputs, Env, SysTypeOK
  <2>4. CASE x \in ClientLinks
    <3>1. m \in ClientRequests
      BY <2>1, <2>4, InputTypes, SMTT(30)
    <3>2. m.op \in {"check", "simple", "cancel"} /\ m.id \in CheckIds /\ (m.op # "cancel" => m.key \in Keys)
      BY <3>1 DEF ClientRequests
    <3>3. x # a
      BY <1>3, <2>4
    <3>4. ASSUME NEW id \in CheckIds, NEW k \in Keys, ExecuteCheck(x, id, k) PROVE AgentFits(a)'
      <4>1. a \in open
        BY <3>4 DEF ExecuteCheck
      <4>2. CASE UNCHANGED <<talkers, checks, out>>
        <5>1. NothingAsked(a)
          BY <4>2, SameNothingAsked
        <5> QED BY <1>4, <2>2, <3>3, <4>1, <5>1
      <4>3. ASSUME NEW r \in Decisions, Answer(x, id, k, r), UNCHANGED <<talkers, checks>> PROVE AgentFits(a)'
        <5> DEFINE y == [op |-> "check", id |-> id, key |-> k, result |-> r]
        <5>1. y \in Msgs /\ Send(x, y)
          BY <4>3 DEF Answer, Msgs, ClientMsgs
        <5> HIDE DEF y
        <5>2. NothingAsked(a)
          BY <3>3, <4>3, <5>1, OtherMessage
        <5> QED BY <1>4, <2>2, <3>3, <4>1, <5>2
      <4>4. CASE Asks(x, id, k)
        BY <1>2, <2>3, <2>4, <3>3, <4>1, <4>4, AskFits DEF QuestionsOnce
      <4> QED BY <2>4, <3>4, <4>2, <4>3, <4>4, CheckCases
    <3>5. ASSUME NEW id \in CheckIds, NEW k \in Keys, ExecuteSimpleCheck(x, id, k) PROVE AgentFits(a)'
      <4>1. a \in open /\ UNCHANGED talkers
        BY <3>5 DEF ExecuteSimpleCheck, CancelChecksOf
      <4>2. NothingAsked(a)
        <5>1. CASE CancelChecksOf({x})
          BY <2>4, <4>1, <5>1, CancelChecksAsks
        <5>2. ASSUME NEW r \in Decisions \cup {"NOT_RESOLVED"}, UNCHANGED checks,
                     Send(x, [op |-> "simple", id |-> id, key |-> k, result |-> r])
              PROVE  NothingAsked(a)
          <6> DEFINE y == [op |-> "simple", id |-> id, key |-> k, result |-> r]
          <6>1. y \in Msgs /\ Send(x, y)
            BY <5>2 DEF Msgs, ClientMsgs
          <6> HIDE DEF y
          <6> QED BY <3>3, <4>1, <5>2, <6>1, OtherMessage
        <5> QED BY <3>5, <5>1, <5>2 DEF ExecuteSimpleCheck
      <4> QED BY <1>4, <2>2, <3>3, <4>1, <4>2
    <3>6. ASSUME NEW id \in CheckIds, ExecuteCancel(x, id) PROVE AgentFits(a)'
      <4>1. a \in open /\ NothingAsked(a)
        BY <2>4, <3>6, CancelAsks DEF ExecuteCancel
      <4> QED BY <1>4, <2>2, <3>3, <4>1
    <3>7. /\ m.op = "check" => ExecuteCheck(x, m.id, m.key)
          /\ m.op = "simple" => ExecuteSimpleCheck(x, m.id, m.key)
          /\ m.op = "cancel" => ExecuteCancel(x, m.id)
      BY <1>9 DEF Handle
    <3> QED BY <3>2, <3>4, <3>5, <3>6, <3>7
  <2>5. CASE x \in AgentLinks
    <3>1. m \in AgentRequests
      BY <2>1, <2>5, InputTypes, SMTT(30)
    <3>2. CASE m.op = "register"
      <4>1. ExecuteAgentRegister(x, m.type)
        BY <1>9, <3>2 DEF Handle
      <4>2. /\ a \in open /\ UNCHANGED <<open, talkers, checks>>
            /\ \E y \in [op : {"registered"}, code : {"DONE", "REJECTED"}] : Send(x, y)
        BY <4>1 DEF ExecuteAgentRegister
      <4>3. NothingAsked(a)
        <5>1. PICK y \in [op : {"registered"}, code : {"DONE", "REJECTED"}] : Send(x, y)
          BY <4>2
        <5>2. y \in Msgs /\ y \in AgentMsgs /\ y.op # "ACTION"
          BY DEF Msgs, AgentMsgs
        <5> QED BY <4>2, <5>1, <5>2, OtherMessage
      <4>4. CASE x # a
        BY <1>4, <2>2, <4>2, <4>3, <4>4
      <4>5. CASE x = a
        \* Only a registration was under way, so no answer is read with it.
        <5>1. in[a] \in Seq(AgentRequests) /\ in'[a] = Tail(in[a]) /\ AgentFits(a)
          BY <2>2, <2>5, <4>2, <4>5, InputTypes DEF QuestionsOnce
        <5>2. QuestionsFit(out[a], Tail(in[a]), TodoOf(a), Topics(a))
          <6>1. QuestionsFit(out[a], in[a], TodoOf(a), Topics(a)) /\ in[a] # <<>>
            BY <2>1, <4>5, <5>1 DEF AgentFits
          <6> QED BY <5>1, <6>1, QuestionsTail
        <5>3. PICK S \in SUBSET AgentMsgs : Grows(out[a], out'[a], S) /\ \A y \in S : y.op # "ACTION"
          BY <4>3 DEF NothingAsked
        <5> DEFINE L == Topics(a)'
                   z == Tail(in[a])
                   U == TodoOf(a)'
        <5>4. Topics(a) \subseteq L /\ in'[a] = z /\ U \subseteq TodoOf(a) /\ QuestionsFit(out[a], z, TodoOf(a), Topics(a))
          BY <1>2, <4>3, <5>1, <5>2 DEF NothingAsked
        <5> HIDE DEF L, z, U
        <5>5. QuestionsFit(out'[a], z, U, L)
          BY <5>3, <5>4, QuestionsQuiet, SMTT(30)
        <5>6. QuestionsFit(out'[a], in'[a], TodoOf(a)', Topics(a)')
          BY <5>4, <5>5 DEF L, U
        <5> QED BY <5>6 DEF AgentFits
      <4> QED BY <4>4, <4>5
    <3>3. CASE m.op = "answer"
      <4>1. PICK s \in Decisions \cup {"EXCEPTION"} : ExecuteAgentAction(x, m.id, m.type, s)
        BY <1>9, <3>3 DEF Handle
      <4>2. m.id \in TalkerIds /\ m.type \in {"ACTION", "CANCEL"}
        BY <3>1, <3>3 DEF AgentRequests
      <4>3. a \in open
        BY <4>1 DEF ExecuteAgentAction, DropAgent
      <4>4. CASE x # a
        <5>1. NothingAsked(a)
          BY <2>5, <4>1, <4>2, <4>4, AnswerAsks
        <5> QED BY <1>4, <2>2, <4>3, <4>4, <5>1
      <4>5. CASE x = a
        <5>1. in'[a] = Tail(in[a]) /\ AgentFits(a) /\ in[a] # <<>> /\ Head(in[a]).op = "answer"
          BY <2>1, <2>2, <3>3, <4>3, <4>5 DEF QuestionsOnce
        <5>2. ExecuteAgentAction(a, Head(in[a]).id, Head(in[a]).type, s)
          BY <4>1, <4>5
        <5> QED BY <1>2, <5>1, <5>2, AnswerFits
      <4> QED BY <4>4, <4>5
    <3> QED BY <3>1, <3>2, <3>3 DEF AgentRequests
  <2> QED BY <2>4, <2>5 DEF Links
<1> QED BY <1>6, <1>7, <1>8, <1>9

\* Every step keeps each question and its topic together.
LEMMA QuestionsStep ==
  ASSUME "late" \notin Disturbances, IInv, Env, Env', QuestionsOnce, [SysNext]_vars PROVE QuestionsOnce'
<1>1. CASE UNCHANGED vars
  <2>1. UNCHANGED <<open, in, out, talkers, checks, agConn, todo>>
    BY <1>1 DEF vars, svars, pvars
  <2>2. ASSUME NEW a \in AgentLinks \cap open' PROVE AgentFits(a)'
    <3>1. NothingAsked(a) /\ TodoOf(a)' = TodoOf(a) /\ AgentFits(a)
      BY <2>1, <2>2, SameNothingAsked, TodoSame DEF QuestionsOnce
    <3> QED BY <2>1, <3>1, AgentQuiet
  <2> QED BY <2>2 DEF QuestionsOnce
<1> QED BY <1>1, ClientQuestions, AgentQuestions, DaemonQuestions DEF SysNext, Env, LinksApart

\* The daemon applies an answer only to the check the question was about, if
\* agents drop the questions of an earlier connection: talker ids may wrap
\* around and be reused, checks be cancelled, agents and the daemon restart.
THEOREM SystemAnswersApplied == "late" \notin Disturbances => (SysSpec => []AnswersApplied)
<1> SUFFICES ASSUME "late" \notin Disturbances PROVE SysSpec => []AnswersApplied
  OBVIOUS
<1>1. SysInit => SysInv /\ QuestionsOnce
  BY SysInvInit DEF SysInit, Init, QuestionsOnce
<1>2. SysInv /\ QuestionsOnce /\ [SysNext]_vars => SysInv' /\ QuestionsOnce'
  <2> SUFFICES ASSUME SysInv, QuestionsOnce, [SysNext]_vars PROVE SysInv' /\ QuestionsOnce'
    OBVIOUS
  <2>1. SysInv'
    BY SysInvStep
  <2> QED BY <2>1, QuestionsStep DEF SysInv
<1>3. SysInv /\ QuestionsOnce => AnswersApplied
  <2> SUFFICES ASSUME SysInv, QuestionsOnce, NEW a \in AgentLinks \cap open, in[a] # <<>>,
                      Head(in[a]).op = "answer", NEW p \in InProgress, checks[p].talker = <<a, Head(in[a]).id>>
               PROVE  checks[p].key = Head(in[a]).key
    BY DEF AnswersApplied
  <2> DEFINE m == Head(in[a])
             x == <<m.id, m.key>>
  <2>1. 1 \in DOMAIN in[a] /\ in[a][1] = m
    BY SMTT(30) DEF SysInv, Env, SysTypeOK, InTyped
  <2>2. x \in Topics(a)
    BY <2>1 DEF QuestionsOnce, AgentFits, QuestionsFit
  <2> HIDE DEF m
  <2>3. x[1] = m.id /\ x[2] = m.key
    OBVIOUS
  <2> QED BY <2>2, <2>3 DEF Topics, m
<1> QED BY <1>1, <1>2, <1>3, PTL DEF SysSpec

=============================================================================
