---------------------------- MODULE CheckService ----------------------------
(***************************************************************************)
(* The part of the cynara daemon that serves access checks: Logic (the     *)
(* request handlers), AgentManager (registered agents and the talkers that *)
(* carry one question to an agent) and CheckRequestManager (the contexts   *)
(* of checks that wait for an agent).  The daemon is single threaded, so a *)
(* handler is one atomic action.  Requests arrive as parameters of the     *)
(* handlers: any request a peer can put on the wire may come at any time.  *)
(* CheckSystem replaces this arbitrary environment by the two libraries.   *)
(***************************************************************************)
EXTENDS Naturals, FiniteSets, Sequences, Functions

CONSTANTS
  ClientLinks,  \* connections to the client socket (a LinkId is a queue pointer)
  AgentLinks,   \* connections to the agent socket
  AgentTypes,   \* agent types the service plugins may require
  Keys,         \* policy keys (client, user, privilege)
  CheckIds,     \* ids clients put in check requests
  IdModulus,    \* modulus of the talker ids: 2^16 in the code
  NoLink,       \* an agent type nobody registered
  NoCheck       \* no context for this (link, id)

ASSUME LinksAssumption ==
  /\ ClientLinks \cap AgentLinks = {}
  /\ NoLink \notin AgentLinks
  /\ IsFiniteSet(ClientLinks) /\ IsFiniteSet(AgentLinks) /\ IsFiniteSet(CheckIds)

ASSUME IdModulusAssumption == IdModulus \in Nat \ {0}

ASSUME NoCheckAssumption ==
  NoCheck \notin [talker : AgentLinks \X (0 .. (IdModulus - 1)), key : Keys, cancelled : BOOLEAN]

ASSUME AgentTypesAssumption == AgentTypes \cap {"ALLOW", "DENY", "UNKNOWN"} = {}

VARIABLES
  running,      \* the daemon process is up
  dbCorrupted,  \* Logic::m_dbCorrupted
  policy,       \* what Storage::checkPolicy returns for each key
  saveFailed,   \* auxiliary: the last change of policies could not be saved
  open,         \* links whose descriptor the SocketManager holds
  agents,       \* AgentManager::m_agents
  talkers,      \* AgentManager::m_talkers, as <<agent link, talker id>>
  seqNo,        \* AgentManager::m_sequenceNumber
  checks,       \* CheckRequestManager::m_checks
  out           \* what was written to each link and not yet read by the peer

svars == <<running, dbCorrupted, policy, saveFailed, open, agents, talkers, seqNo, checks, out>>

Links == ClientLinks \cup AgentLinks
TalkerIds == 0 .. (IdModulus - 1)
Talkers == AgentLinks \X TalkerIds
CheckRefs == ClientLinks \X CheckIds
Decisions == {"ALLOW", "DENY"}
\* "UNKNOWN" is a policy type without a service plugin; an agent type stands
\* for the policy types whose plugin asks that agent.
PolicyTypes == {"ALLOW", "DENY", "UNKNOWN"} \cup AgentTypes

\* CheckContext; the key travels with every answer as an auxiliary field.
Contexts ==
  [talker : Talkers, key : Keys, cancelled : BOOLEAN]

ClientMsgs ==
  [op : {"check", "simple"}, id : CheckIds, key : Keys, result : Decisions \cup {"NOT_RESOLVED"}]
    \cup [op : {"cancelled"}, id : CheckIds]

\* The data of an ACTION is what the plugin made of the key.
AgentMsgs ==
  [op : {"ACTION"}, id : TalkerIds, key : Keys] \cup [op : {"CANCEL"}, id : TalkerIds]
    \cup [op : {"registered"}, code : {"DONE", "REJECTED"}]

-----------------------------------------------------------------------------
\* RequestContext::returnResponse: nothing is sent once the descriptor is gone.
Send(l, m) == out' = IF l \in open THEN [out EXCEPT ![l] = Append(@, m)] ELSE out

\* The messages of a set one after the other.
Listing(S) == CHOOSE s \in Bijection(1 .. Cardinality(S), S) : TRUE

\* Several handlers write to several links; each link gets a set of messages.
SendSets(msgs) ==
  out' = [l \in Links |-> IF l \in open THEN out[l] \o Listing(msgs[l]) ELSE out[l]]

InProgress == {p \in CheckRefs : checks[p] # NoCheck}
Registered(a) == \E t \in AgentTypes : agents[t] = a

\* The queue a LinkId points to lives as long as some map refers to it, so
\* its address is not given to a new connection before.
Referenced(l) ==
  \/ \E p \in InProgress : p[1] = l
  \/ \E w \in talkers : w[1] = l
  \/ Registered(l)

Answer(l, id, k, r) == Send(l, [op |-> "check", id |-> id, key |-> k, result |-> r])

-----------------------------------------------------------------------------
\* SocketManager::readyForAccept.
Accept(l) ==
  /\ running /\ l \notin open /\ ~Referenced(l)
  /\ open' = open \cup {l}
  /\ out' = [out EXCEPT ![l] = <<>>]
  /\ UNCHANGED <<running, dbCorrupted, policy, saveFailed, agents, talkers, seqNo, checks>>

\* Mutant: every question gets the same id and collisions are not looked for.
AskAgentOneId(l, id, k, t) ==
  /\ agents[t] # NoLink
  /\ talkers' = talkers \cup {<<agents[t], 0>>}
  /\ checks' = [checks EXCEPT ![<<l, id>>] =
                  [talker |-> <<agents[t], 0>>, key |-> k, cancelled |-> FALSE]]
  /\ Send(agents[t], [op |-> "ACTION", id |-> 0, key |-> k])
  /\ UNCHANGED seqNo

\* AgentManager::createTalker and the rest of the ANSWER_NOTREADY branch of
\* pluginCheck: the id is consumed even if there is nobody to ask.
AskAgent(l, id, k, t) ==
  LET w == <<agents[t], seqNo>> IN
  /\ seqNo' = (seqNo + 1) % IdModulus
  /\ IF agents[t] = NoLink \/ w \in talkers
       THEN /\ Answer(l, id, k, "DENY")
            /\ UNCHANGED <<talkers, checks>>
       ELSE /\ talkers' = talkers \cup {w}
            /\ checks' = [checks EXCEPT ![<<l, id>>] =
                            [talker |-> w, key |-> k, cancelled |-> FALSE]]
            /\ Send(agents[t], [op |-> "ACTION", id |-> seqNo, key |-> k])

\* Without a database everything is denied.
PolicyFor(k) == IF dbCorrupted THEN "DENY" ELSE policy[k]

\* Logic::execute(CheckRequest), check and pluginCheck.  A plugin answers at
\* once (with either decision, or an error that counts as DENY) or asks.
ExecuteCheck(l, id, k) ==
  /\ l \in open
  /\ \/ /\ checks[<<l, id>>] # NoCheck          \* already processing: dropped
        /\ UNCHANGED <<talkers, seqNo, checks, out>>
     \/ /\ checks[<<l, id>>] = NoCheck
        /\ LET p == PolicyFor(k) IN
           \/ p \in Decisions /\ Answer(l, id, k, p) /\ UNCHANGED <<talkers, seqNo, checks>>
           \/ p = "UNKNOWN" /\ Answer(l, id, k, "DENY") /\ UNCHANGED <<talkers, seqNo, checks>>
           \/ /\ p \in AgentTypes
              /\ \/ \E r \in Decisions : Answer(l, id, k, r) /\ UNCHANGED <<talkers, seqNo, checks>>
                 \/ AskAgent(l, id, k, p)
  /\ UNCHANGED <<running, dbCorrupted, policy, saveFailed, open, agents>>

\* Logic::execute(CancelRequest).  The context stays until the agent answers.
ExecuteCancel(l, id) ==
  LET c == checks[<<l, id>>] IN
  /\ l \in open
  /\ IF c = NoCheck \/ c.cancelled
       THEN UNCHANGED <<checks, out>>
       ELSE /\ checks' = [checks EXCEPT ![<<l, id>>].cancelled = TRUE]
            /\ SendSets([m \in Links |->
                 IF m = c.talker[1] THEN {[op |-> "CANCEL", id |-> c.talker[2]]}
                 ELSE IF m = l THEN {[op |-> "cancelled", id |-> id]} ELSE {}])
  /\ UNCHANGED <<running, dbCorrupted, policy, saveFailed, open, agents, talkers, seqNo>>

\* Logic::contextClosed for a set of client links: their checks are cancelled
\* and the agents told; the contexts stay.
CancelChecksOf(C) ==
  LET X == {p \in InProgress : p[1] \in C /\ ~checks[p].cancelled} IN
  /\ open' = open \ C
  /\ checks' = [p \in CheckRefs |-> IF p \in X THEN [checks[p] EXCEPT !.cancelled = TRUE]
                                               ELSE checks[p]]
  /\ SendSets([m \in Links |-> {[op |-> "CANCEL", id |-> checks[p].talker[2]] :
                                 p \in {q \in X : checks[q].talker[1] = m}}])

\* Mutant: the talkers of a closed agent go and the contexts stay.
DropAgentKeepsContexts(a) ==
  /\ open' = open \ {a}
  /\ agents' = [t \in AgentTypes |-> IF agents[t] = a THEN NoLink ELSE agents[t]]
  /\ talkers' = {w \in talkers : w[1] # a}
  /\ UNCHANGED <<checks, out>>

\* Logic::contextClosed for an agent link: checks that wait for it are denied
\* and removed; unregisterAgent erases one type of the link and its talkers.
DropAgent(a) ==
  LET X == {p \in InProgress : checks[p].talker \in talkers /\ checks[p].talker[1] = a} IN
  /\ open' = open \ {a}
  /\ checks' = [p \in CheckRefs |-> IF p \in X THEN NoCheck ELSE checks[p]]
  /\ SendSets([m \in Links |->
        {[op |-> "check", id |-> p[2], key |-> checks[p].key, result |-> "DENY"] :
           p \in {q \in X : q[1] = m /\ ~checks[q].cancelled}}])
  /\ IF Registered(a)
       THEN /\ \E t \in AgentTypes : agents[t] = a /\ agents' = [agents EXCEPT ![t] = NoLink]
            /\ talkers' = {w \in talkers : w[1] # a}
       ELSE UNCHANGED <<agents, talkers>>

\* Logic::execute(SimpleCheckRequest).  It does not look at m_dbCorrupted: a
\* corrupted storage has no buckets, checkPolicy throws BucketNotExists and
\* SocketManager::handleRead closes the link.
ExecuteSimpleCheck(l, id, k) ==
  /\ l \in open
  /\ \/ dbCorrupted /\ CancelChecksOf({l})
     \/ /\ ~dbCorrupted
        /\ \E r \in Decisions \cup {"NOT_RESOLVED"} :
             /\ policy[k] \in Decisions => r = policy[k]
             /\ policy[k] = "UNKNOWN" => r = "DENY"
             /\ Send(l, [op |-> "simple", id |-> id, key |-> k, result |-> r])
        /\ UNCHANGED <<open, checks>>
  /\ UNCHANGED <<running, dbCorrupted, policy, saveFailed, agents, talkers, seqNo>>

\* Logic::execute(AgentRegisterRequest).
ExecuteAgentRegister(a, t) ==
  /\ a \in open
  /\ IF agents[t] = NoLink
       THEN agents' = [agents EXCEPT ![t] = a] /\ Send(a, [op |-> "registered", code |-> "DONE"])
       ELSE UNCHANGED agents /\ Send(a, [op |-> "registered", code |-> "REJECTED"])
  /\ UNCHANGED <<running, dbCorrupted, policy, saveFailed, open, talkers, seqNo, checks>>

\* Logic::execute(AgentActionRequest).  "type" is the message type; "status" what
\* the plugin's update makes of the data: a decision (ERROR counts as DENY),
\* or "EXCEPTION", which makes handleRead close the agent's link.
ExecuteAgentAction(a, id, type, status) ==
  LET w == <<a, id>>
      X == {p \in InProgress : checks[p].talker = w}
  IN
  /\ a \in open
  /\ \/ w \notin talkers /\ UNCHANGED <<open, agents, talkers, checks, out>>
     \/ w \in talkers /\ X = {} /\ talkers' = talkers \ {w} /\ UNCHANGED <<open, agents, checks, out>>
     \/ /\ w \in talkers
        /\ \E p \in X :
             IF ~checks[p].cancelled /\ type = "ACTION" /\ status = "EXCEPTION"
               THEN DropAgent(a)
               ELSE /\ talkers' = talkers \ {w}
                    /\ checks' = [checks EXCEPT ![p] = NoCheck]
                    /\ IF ~checks[p].cancelled /\ type = "ACTION"
                         THEN Answer(p[1], p[2], checks[p].key, status)
                         ELSE UNCHANGED out
                    /\ UNCHANGED <<open, agents>>
  /\ UNCHANGED <<running, dbCorrupted, policy, saveFailed, seqNo>>

\* SocketManager::closeSocket after the peer hung up or sent garbage.
CloseClient(l) ==
  /\ l \in open
  /\ CancelChecksOf({l})
  /\ UNCHANGED <<running, dbCorrupted, policy, saveFailed, agents, talkers, seqNo>>

CloseAgent(a) ==
  /\ a \in open
  /\ DropAgent(a)
  /\ UNCHANGED <<running, dbCorrupted, policy, saveFailed, seqNo>>

\* An administrative request that changes policies (SetPolicies, Erase,
\* InsertOrUpdateBucket, RemoveBucket): the storage is changed in memory, then
\* onPoliciesChanged saves it and disconnects all clients.  If the save (or a
\* later step of the request) throws, clients are not disconnected.
ChangePolicies(new) ==
  /\ running /\ ~dbCorrupted
  /\ policy' = new
  /\ \/ saveFailed' = FALSE /\ CancelChecksOf(open \cap ClientLinks)
     \/ saveFailed' = TRUE /\ UNCHANGED <<open, checks, out>>
  /\ UNCHANGED <<running, dbCorrupted, agents, talkers, seqNo>>

\* The process dies: every link is cut and everything in memory is lost.
Stop ==
  /\ running
  /\ running' = FALSE
  /\ open' = {}
  /\ agents' = [t \in AgentTypes |-> NoLink]
  /\ talkers' = {}
  /\ seqNo' = 0
  /\ checks' = [p \in CheckRefs |-> NoCheck]
  /\ UNCHANGED <<dbCorrupted, policy, saveFailed, out>>

\* Cynara::init: the database is loaded again.  Changes that could not be saved
\* are gone, so any policies may come back.
Start(loaded) ==
  /\ ~running
  /\ running' = TRUE
  /\ policy' = IF saveFailed THEN loaded ELSE policy
  /\ saveFailed' = FALSE
  /\ UNCHANGED <<dbCorrupted, open, agents, talkers, seqNo, checks, out>>

\* The peer reads what was sent to it.
Read(l) ==
  /\ out[l] # <<>>
  /\ out' = [out EXCEPT ![l] = Tail(@)]
  /\ UNCHANGED <<running, dbCorrupted, policy, saveFailed, open, agents, talkers, seqNo, checks>>

-----------------------------------------------------------------------------
Init ==
  /\ running = TRUE
  /\ dbCorrupted \in BOOLEAN
  /\ policy \in [Keys -> PolicyTypes]
  /\ saveFailed = FALSE
  /\ open = {}
  /\ agents = [t \in AgentTypes |-> NoLink]
  /\ talkers = {}
  /\ seqNo = 0
  /\ checks = [p \in CheckRefs |-> NoCheck]
  /\ out = [l \in Links |-> <<>>]

\* Of the agents it is assumed that a link asks for one type, however often:
\* libcynara-agent registers its m_agentType after every connect and no other
\* (agent/logic/Logic.cpp, ensureConnection).  The daemon itself would accept a
\* second type, of which unregisterAgent forgets only one.
Next ==
  \/ \E l \in Links : Accept(l) \/ Read(l)
  \/ \E l \in ClientLinks, id \in CheckIds, k \in Keys :
       ExecuteCheck(l, id, k) \/ ExecuteSimpleCheck(l, id, k)
  \/ \E l \in ClientLinks, id \in CheckIds : ExecuteCancel(l, id)
  \/ \E a \in AgentLinks, t \in AgentTypes :
       (Registered(a) => agents[t] = a) /\ ExecuteAgentRegister(a, t)
  \/ \E a \in AgentLinks, id \in TalkerIds, type \in {"ACTION", "CANCEL"},
        status \in Decisions \cup {"EXCEPTION"} : ExecuteAgentAction(a, id, type, status)
  \/ \E l \in ClientLinks : CloseClient(l)
  \/ \E a \in AgentLinks : CloseAgent(a)
  \/ \E new \in [Keys -> PolicyTypes] : ChangePolicies(new) \/ Start(new)
  \/ Stop

Spec == Init /\ [][Next]_svars

-----------------------------------------------------------------------------
\* The state has the shape the C++ declarations give it.
TypeOK ==
  /\ running \in BOOLEAN /\ dbCorrupted \in BOOLEAN /\ saveFailed \in BOOLEAN
  /\ policy \in [Keys -> PolicyTypes]
  /\ open \subseteq Links
  /\ agents \in [AgentTypes -> AgentLinks \cup {NoLink}]
  /\ talkers \subseteq Talkers
  /\ seqNo \in TalkerIds
  /\ checks \in [CheckRefs -> Contexts \cup {NoCheck}]
  /\ out \in [Links -> Seq(ClientMsgs \cup AgentMsgs)]

\* Talkers and check contexts correspond one to one: no context waits for a
\* talker that is gone (its client would never be answered) and no talker is
\* left without a context (its id would be blocked for ever).  The two maps
\* are updated by different calls in check, AgentAction and contextClosed.
TalkersMatchContexts ==
  /\ \A p \in InProgress : checks[p].talker \in talkers
  /\ \A w \in talkers : \E p \in InProgress : checks[p].talker = w
  /\ \A p, q \in InProgress : checks[p].talker = checks[q].talker => p = q

\* Every talker leads to an agent that is registered and connected, so every
\* waiting check will be answered by the agent or denied when it leaves.
TalkersLive ==
  \A w \in talkers : w[1] \in open /\ Registered(w[1])

\* A check whose client is gone is cancelled: its agent was told and no answer
\* for it can reach another connection.
OrphansCancelled ==
  \A p \in InProgress : p[1] \notin open => checks[p].cancelled

\* The maps of AgentManager, of CheckRequestManager and of the socket manager
\* agree in all three respects, whatever requests, answers and closed links
\* arrive in what order.
ContextsSound == TalkersMatchContexts /\ TalkersLive /\ OrphansCancelled

=============================================================================
