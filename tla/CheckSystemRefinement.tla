----------------------- MODULE CheckSystemRefinement ------------------------
(***************************************************************************)
(* The contexts of the daemon, CheckService, are sound for every set of    *)
(* links, keys, types and ids.                                             *)
(*                                                                         *)
(* CheckSystem implements CheckService, for every number of clients,       *)
(* agents, links, keys and ids: the libraries only send what the daemon    *)
(* expects.  What the steps of the daemon put on the links is stated here, *)
(* for the proofs of CheckSystemExchange and CheckSystemProofs.            *)
(***************************************************************************)
EXTENDS CheckSystem, FiniteSetTheorems, WellFoundedInduction, TLAPS

\* Zenon proves a leaf that names no other prover; it may take its time.
USE ZenonT(40)

(***************************************************************************)
(* CheckService.                                                           *)
(***************************************************************************)
Msgs == ClientMsgs \cup AgentMsgs

\* At most one agent type is registered over one link, and the link is open.
AgentsLive ==
  /\ \A t \in AgentTypes : agents[t] # NoLink => agents[t] \in open
  /\ \A t, u \in AgentTypes : agents[t] # NoLink /\ agents[t] = agents[u] => t = u

IInv == TypeOK /\ TalkersMatchContexts /\ TalkersLive /\ OrphansCancelled /\ AgentsLive

-----------------------------------------------------------------------------
\* Listing enumerates a finite set of messages as a sequence of messages.
LEMMA ListingType ==
  ASSUME NEW S, IsFiniteSet(S) PROVE Listing(S) \in Bijection(1 .. Cardinality(S), S) /\ Listing(S) \in Seq(S)
<1>1. Cardinality(S) \in Nat /\ ExistsBijection(1 .. Cardinality(S), S)
  BY FS_CardinalityType
<1>2. Listing(S) \in Bijection(1 .. Cardinality(S), S)
  BY <1>1 DEF ExistsBijection, Listing
<1>3. Listing(S) \in [1 .. Cardinality(S) -> S]
  BY <1>2 DEF Bijection, Injection
<1> QED BY <1>1, <1>2, <1>3, SMTT(30)

\* Sending typed messages keeps the queues typed.
LEMMA SendSetsType ==
  ASSUME TypeOK, NEW msgs \in [Links -> SUBSET Msgs],
         \A l \in Links : IsFiniteSet(msgs[l]), SendSets(msgs)
  PROVE  out' \in [Links -> Seq(Msgs)]
<1> SUFFICES ASSUME NEW l \in Links PROVE out[l] \o Listing(msgs[l]) \in Seq(Msgs)
  BY DEF SendSets, TypeOK, Msgs
<1>1. out[l] \in Seq(Msgs)
  BY DEF TypeOK, Msgs
<1>2. Listing(msgs[l]) \in Seq(msgs[l])
  BY ListingType
<1>3. Listing(msgs[l]) \in Seq(Msgs)
  BY <1>2, SMTT(30)
<1> QED BY <1>1, <1>3, SMTT(30)

\* So does a single message (returnResponse).
LEMMA SendType ==
  ASSUME TypeOK, NEW l \in Links, NEW m \in Msgs, Send(l, m)
  PROVE  out' \in [Links -> Seq(Msgs)]
  BY SMTT(30) DEF Send, TypeOK, Msgs

\* What TypeOK says of the context of one check.
LEMMA ContextType ==
  ASSUME TypeOK, NEW p \in InProgress
  PROVE  /\ p \in CheckRefs /\ p[1] \in ClientLinks /\ p[2] \in CheckIds
         /\ p = <<p[1], p[2]>>
         /\ checks[p] \in Contexts
         /\ checks[p].talker \in Talkers /\ checks[p].talker[1] \in AgentLinks
         /\ checks[p].talker[2] \in TalkerIds
         /\ checks[p].key \in Keys /\ checks[p].cancelled \in BOOLEAN
  BY SMTT(30) DEF TypeOK, InProgress, CheckRefs, Contexts, Talkers

\* Only finitely many checks wait for agents at a time.
LEMMA InProgressFinite == ASSUME NEW X \in SUBSET InProgress PROVE IsFiniteSet(X)
<1>1. IsFiniteSet(CheckRefs)
  BY LinksAssumption, FS_Product DEF CheckRefs
<1> QED BY <1>1, FS_Subset DEF InProgress

\* Contexts are never NoCheck.
LEMMA ContextNotNone == \A c \in Contexts : c # NoCheck
  BY NoCheckAssumption DEF Contexts, Talkers, TalkerIds

-----------------------------------------------------------------------------
\* Closing client links (contextClosed, disconnectAllClients) keeps IInv.
LEMMA CancelChecksStep ==
  ASSUME IInv, NEW C \in SUBSET ClientLinks, CancelChecksOf(C),
         UNCHANGED <<running, dbCorrupted, agents, talkers, seqNo>>,
         policy' \in [Keys -> PolicyTypes], saveFailed' \in BOOLEAN
  PROVE  IInv'
<1> DEFINE X == {p \in InProgress : p[1] \in C /\ ~checks[p].cancelled}
           m(l) == {[op |-> "CANCEL", id |-> checks[p].talker[2]] :
                      p \in {q \in X : checks[q].talker[1] = l}}
<1> USE DEF IInv
<1>1. checks' = [p \in CheckRefs |-> IF p \in X THEN [checks[p] EXCEPT !.cancelled = TRUE] ELSE checks[p]]
  BY DEF CancelChecksOf
<1>2. \A p \in InProgress : [checks[p] EXCEPT !.cancelled = TRUE] \in Contexts
  BY ContextType DEF Contexts
<1>3. checks' \in [CheckRefs -> Contexts \cup {NoCheck}]
  BY <1>1, <1>2 DEF TypeOK
<1>4. InProgress' = InProgress
  BY <1>1, <1>2, ContextNotNone DEF InProgress
<1>5. \A p \in InProgress : checks'[p].talker = checks[p].talker
  BY <1>1, ContextType DEF InProgress, Contexts
<1>6. \A p \in InProgress : checks'[p].cancelled <=> (p \in X \/ checks[p].cancelled)
  BY <1>1, ContextType DEF InProgress, Contexts
<1>7. open' = open \ C
  BY DEF CancelChecksOf
<1>8. out' \in [Links -> Seq(Msgs)]
  <2>1. SendSets([l \in Links |-> m(l)])
    BY DEF CancelChecksOf
  <2>2. ASSUME NEW l \in Links PROVE m(l) \in SUBSET Msgs
    BY ContextType, SMTT(30) DEF Msgs, AgentMsgs
  <2>3. ASSUME NEW l \in Links PROVE IsFiniteSet(m(l))
    <3> DEFINE Y == {q \in X : checks[q].talker[1] = l}
               f == [p \in Y |-> [op |-> "CANCEL", id |-> checks[p].talker[2]]]
    <3>1. IsFiniteSet(Y)
      BY InProgressFinite
    <3>2. f \in Surjection(Y, m(l))
      BY DEF Surjection
    <3> HIDE DEF Y, f, m
    <3> QED BY <3>1, <3>2, FS_Surjection
  <2> HIDE DEF m
  <2> QED BY <2>1, <2>2, <2>3, SendSetsType
<1>9. TypeOK'
  BY <1>3, <1>7, <1>8 DEF TypeOK, Msgs, TalkerIds, Links
<1>10. TalkersMatchContexts'
  BY <1>4, <1>5, SMTT(30) DEF TalkersMatchContexts
<1>11. TalkersLive'
  <2> SUFFICES ASSUME NEW w \in talkers PROVE w[1] \in open' /\ Registered(w[1])'
    BY DEF TalkersLive
  <2>1. w[1] \in open /\ Registered(w[1]) /\ w[1] \notin C
    BY LinksAssumption DEF TalkersLive, TypeOK, Talkers
  <2> QED BY <2>1, <1>7 DEF Registered
<1>12. OrphansCancelled'
  BY <1>4, <1>6, <1>7 DEF OrphansCancelled
<1>13. AgentsLive'
  BY <1>7, LinksAssumption DEF AgentsLive, TypeOK
<1> QED BY <1>9, <1>10, <1>11, <1>12, <1>13

\* Closing an agent's link keeps IInv: all checks waiting for the link go, and
\* with them all its talkers.
LEMMA DropAgentStep ==
  ASSUME IInv, NEW a \in AgentLinks, DropAgent(a),
         UNCHANGED <<running, dbCorrupted, policy, saveFailed, seqNo>>
  PROVE  IInv'
<1> DEFINE X == {p \in InProgress : checks[p].talker \in talkers /\ checks[p].talker[1] = a}
           msg(p) == [op |-> "check", id |-> p[2], key |-> checks[p].key, result |-> "DENY"]
           m(l) == {[op |-> "check", id |-> p[2], key |-> checks[p].key, result |-> "DENY"] :
                      p \in {q \in X : q[1] = l /\ ~checks[q].cancelled}}
<1> USE DEF IInv
<1>1. checks' = [p \in CheckRefs |-> IF p \in X THEN NoCheck ELSE checks[p]]
  BY DEF DropAgent
<1>2. checks' \in [CheckRefs -> Contexts \cup {NoCheck}]
  BY <1>1 DEF TypeOK
<1>3. /\ InProgress' = {p \in InProgress : checks[p].talker[1] # a}
      /\ \A p \in InProgress' : checks'[p] = checks[p]
  BY <1>1 DEF InProgress, TalkersMatchContexts
<1>4. open' = open \ {a}
  BY DEF DropAgent
<1>5. talkers' = {w \in talkers : w[1] # a}
  BY DEF DropAgent, TalkersLive
<1>6. /\ \A t \in AgentTypes : agents'[t] = IF agents[t] = a THEN NoLink ELSE agents[t]
      /\ agents' \in [AgentTypes -> AgentLinks \cup {NoLink}]
  <2>1. CASE Registered(a)
    <3>1. PICK t \in AgentTypes : agents[t] = a /\ agents' = [agents EXCEPT ![t] = NoLink]
      BY <2>1 DEF DropAgent
    <3>2. \A u \in AgentTypes : agents[u] = a => u = t
      BY <3>1, LinksAssumption DEF AgentsLive
    <3> QED BY <3>1, <3>2 DEF TypeOK
  <2>2. CASE ~Registered(a)
    BY <2>2 DEF DropAgent, Registered, TypeOK
  <2> QED BY <2>1, <2>2
<1>7. out' \in [Links -> Seq(Msgs)]
  <2>1. SendSets([l \in Links |-> m(l)])
    BY DEF DropAgent
  <2>2. ASSUME NEW l \in Links PROVE m(l) \in SUBSET Msgs
    BY ContextType, SMTT(30) DEF Msgs, ClientMsgs, Decisions
  <2>3. ASSUME NEW l \in Links PROVE IsFiniteSet(m(l))
    <3> DEFINE Y == {q \in X : q[1] = l /\ ~checks[q].cancelled}
               f == [p \in Y |-> msg(p)]
    <3>1. IsFiniteSet(Y)
      BY InProgressFinite
    <3>2. f \in Surjection(Y, m(l))
      BY DEF Surjection
    <3> HIDE DEF Y, f, m
    <3> QED BY <3>1, <3>2, FS_Surjection
  <2> HIDE DEF m
  <2> QED BY <2>1, <2>2, <2>3, SendSetsType
<1>8. TypeOK'
  BY <1>2, <1>4, <1>5, <1>6, <1>7 DEF TypeOK, Msgs, TalkerIds, Links
<1>9. TalkersMatchContexts'
  BY <1>3, <1>5, SMTT(30) DEF TalkersMatchContexts
<1>10. TalkersLive'
  BY <1>4, <1>5, <1>6 DEF TalkersLive, Registered
<1>11. OrphansCancelled'
  <2> SUFFICES ASSUME NEW p \in InProgress', p[1] \notin open' PROVE checks'[p].cancelled
    BY DEF OrphansCancelled
  <2>1. p \in InProgress /\ p[1] \in ClientLinks
    BY <1>3, ContextType
  <2> QED BY <2>1, <1>3, <1>4, LinksAssumption DEF OrphansCancelled
<1>12. AgentsLive'
  BY <1>4, <1>6 DEF AgentsLive
<1> QED BY <1>8, <1>9, <1>10, <1>11, <1>12

-----------------------------------------------------------------------------
\* A daemon that just started has no agents, talkers or contexts.
LEMMA InitIInv == Init => IInv
<1> SUFFICES ASSUME Init PROVE IInv
  OBVIOUS
<1>1. InProgress = {}
  BY DEF Init, InProgress
<1>2. TypeOK
  <2>1. 0 \in TalkerIds
    BY IdModulusAssumption, SMTT(30) DEF TalkerIds
  <2>2. running \in BOOLEAN /\ dbCorrupted \in BOOLEAN /\ saveFailed \in BOOLEAN
    BY DEF Init
  <2>3. out \in [Links -> Seq(ClientMsgs \cup AgentMsgs)]
    BY SMTT(30) DEF Init
  <2> QED BY <2>1, <2>2, <2>3 DEF Init, TypeOK
<1> QED BY <1>1, <1>2 DEF Init, IInv, TalkersMatchContexts, TalkersLive, OrphansCancelled, AgentsLive

-----------------------------------------------------------------------------
\* Steps that only send something, or accept a link, keep IInv.
LEMMA SendOnlyStep ==
  ASSUME IInv, out' \in [Links -> Seq(Msgs)], open' \in SUBSET Links, open \subseteq open',
         UNCHANGED <<running, dbCorrupted, policy, saveFailed, agents, talkers, checks>>,
         seqNo' \in TalkerIds
  PROVE  IInv'
<1> USE DEF IInv
<1>1. TypeOK'
  BY DEF TypeOK, Msgs
<1>2. InProgress' = InProgress
  BY DEF InProgress
<1>3. TalkersMatchContexts' /\ TalkersLive' /\ OrphansCancelled' /\ AgentsLive'
  BY <1>2 DEF TalkersMatchContexts, TalkersLive, OrphansCancelled, AgentsLive, Registered
<1> QED BY <1>1, <1>3

\* A question to an agent creates a talker and its context together.
LEMMA AskAgentStep ==
  ASSUME IInv, NEW l \in ClientLinks, NEW id \in CheckIds, NEW k \in Keys, NEW t \in AgentTypes,
         l \in open, checks[<<l, id>>] = NoCheck, AskAgent(l, id, k, t),
         UNCHANGED <<running, dbCorrupted, policy, saveFailed, open, agents>>
  PROVE  IInv'
<1> DEFINE w == <<agents[t], seqNo>>
           p == <<l, id>>
           c == [talker |-> w, key |-> k, cancelled |-> FALSE]
<1> USE DEF IInv
<1>1. seqNo' \in TalkerIds
  BY IdModulusAssumption, SMTT(30) DEF AskAgent, TypeOK, TalkerIds
<1>2. CASE agents[t] = NoLink \/ w \in talkers
  <2>1. Answer(l, id, k, "DENY") /\ UNCHANGED <<talkers, checks>>
    BY <1>2 DEF AskAgent
  <2>2. [op |-> "check", id |-> id, key |-> k, result |-> "DENY"] \in Msgs
    BY DEF Msgs, ClientMsgs, Decisions
  <2>3. out' \in [Links -> Seq(Msgs)]
    BY <2>1, <2>2, SendType DEF Answer, Links
  <2>4. open' \in SUBSET Links
    BY DEF TypeOK
  <2> QED BY <1>1, <2>1, <2>3, <2>4, SendOnlyStep
<1>3. CASE ~(agents[t] = NoLink \/ w \in talkers)
  <2>1. /\ talkers' = talkers \cup {w}
        /\ checks' = [checks EXCEPT ![p] = c]
        /\ Send(agents[t], [op |-> "ACTION", id |-> seqNo, key |-> k])
        /\ w \notin talkers
    BY <1>3 DEF AskAgent
  <2>2. agents[t] \in AgentLinks /\ agents[t] \in Links /\ agents[t] \in open
    BY <1>3 DEF TypeOK, AgentsLive, Links
  <2>3. w \in Talkers /\ c \in Contexts /\ c # NoCheck /\ p \in CheckRefs
    BY <2>2, ContextNotNone DEF Talkers, Contexts, CheckRefs, TypeOK
  <2>4. [op |-> "ACTION", id |-> seqNo, key |-> k] \in Msgs
    BY DEF Msgs, AgentMsgs, TypeOK
  <2>5. out' \in [Links -> Seq(Msgs)]
    BY <2>1, <2>2, <2>4, SendType
  <2>6. TypeOK'
    BY <1>1, <2>1, <2>3, <2>5 DEF TypeOK, Msgs
  <2>7. /\ InProgress' = InProgress \cup {p} /\ p \notin InProgress
        /\ checks'[p] = c
        /\ \A q \in InProgress : checks'[q] = checks[q]
    BY <2>1, <2>3 DEF InProgress, TypeOK
  <2>8. checks'[p].talker = w
    BY <2>7, SMTT(30)
  <2>9. TalkersMatchContexts'
    <3> HIDE DEF w, p, c
    <3>1. \A q \in InProgress : checks[q].talker # w
      BY <2>1 DEF TalkersMatchContexts
    <3> QED BY <2>1, <2>7, <2>8, <3>1, SMTT(30) DEF TalkersMatchContexts
  <2>10. TalkersLive'
    <3>1. w[1] \in open /\ Registered(w[1])
      BY <2>2 DEF Registered
    <3> HIDE DEF w, p, c
    <3> QED BY <2>1, <3>1 DEF TalkersLive, Registered
  <2>11. OrphansCancelled'
    <3>1. p[1] \in open
      OBVIOUS
    <3> HIDE DEF w, p, c
    <3> QED BY <2>7, <3>1 DEF OrphansCancelled
  <2>12. AgentsLive'
    BY DEF AgentsLive
  <2> QED BY <2>6, <2>9, <2>10, <2>11, <2>12
<1> QED BY <1>2, <1>3

\* A cancel request marks the context and tells agent and client.
LEMMA CancelStep ==
  ASSUME IInv, NEW l \in ClientLinks, NEW id \in CheckIds, ExecuteCancel(l, id)
  PROVE  IInv'
<1> DEFINE p == <<l, id>>
           c == checks[p]
           m(x) == IF x = c.talker[1] THEN {[op |-> "CANCEL", id |-> c.talker[2]]}
                   ELSE IF x = l THEN {[op |-> "cancelled", id |-> id]} ELSE {}
<1> USE DEF IInv
<1>0. UNCHANGED <<running, dbCorrupted, policy, saveFailed, open, agents, talkers, seqNo>>
  BY DEF ExecuteCancel
<1>1. CASE c = NoCheck \/ c.cancelled
  <2>1. UNCHANGED <<checks, out>>
    BY <1>1 DEF ExecuteCancel
  <2>2. out' \in [Links -> Seq(Msgs)] /\ open' \in SUBSET Links /\ seqNo' \in TalkerIds
    BY <1>0, <2>1 DEF TypeOK, Msgs
  <2> QED BY <1>0, <2>1, <2>2, SendOnlyStep
<1>2. CASE ~(c = NoCheck \/ c.cancelled)
  <2>1. /\ checks' = [checks EXCEPT ![p].cancelled = TRUE]
        /\ SendSets([x \in Links |-> m(x)])
    BY <1>2 DEF ExecuteCancel
  <2>2. p \in InProgress
    BY <1>2 DEF InProgress, CheckRefs
  <2>3. [c EXCEPT !.cancelled = TRUE] \in Contexts
    BY <2>2, ContextType DEF Contexts
  <2>4. /\ InProgress' = InProgress
        /\ checks'[p] = [c EXCEPT !.cancelled = TRUE]
        /\ \A q \in InProgress : q # p => checks'[q] = checks[q]
        /\ checks' \in [CheckRefs -> Contexts \cup {NoCheck}]
    BY <2>1, <2>2, <2>3, ContextNotNone DEF InProgress, TypeOK
  <2>5. InProgress' = InProgress
    BY <2>4
  <2>5a. \A q \in InProgress : checks'[q].talker = checks[q].talker
    BY <2>2, <2>4, ContextType DEF Contexts
  <2>5b. \A q \in InProgress : checks[q].cancelled => checks'[q].cancelled
    BY <2>2, <2>4, ContextType DEF Contexts
  <2>6. out' \in [Links -> Seq(Msgs)]
    <3>1. ASSUME NEW x \in Links PROVE m(x) \in SUBSET Msgs /\ IsFiniteSet(m(x))
      <4>1. c.talker[2] \in TalkerIds
        BY <2>2, ContextType
      <4>2. /\ [op |-> "CANCEL", id |-> c.talker[2]] \in Msgs
            /\ [op |-> "cancelled", id |-> id] \in Msgs
        BY <4>1 DEF Msgs, AgentMsgs, ClientMsgs
      <4>3. \A e : IsFiniteSet({e}) /\ IsFiniteSet({})
        BY FS_Singleton, FS_EmptySet
      <4>4. CASE x = c.talker[1]
        BY <4>2, <4>3, <4>4
      <4>5. CASE x # c.talker[1] /\ x = l
        BY <4>2, <4>3, <4>5
      <4>6. CASE x # c.talker[1] /\ x # l
        BY <4>3, <4>6
      <4> QED BY <4>4, <4>5, <4>6
    <3> HIDE DEF m
    <3> QED BY <2>1, <3>1, SendSetsType
  <2>7. TypeOK'
    BY <1>0, <2>4, <2>6 DEF TypeOK, Msgs
  <2> HIDE DEF p, c, m
  <2>8. TalkersMatchContexts'
    BY <1>0, <2>5, <2>5a, SMTT(30) DEF TalkersMatchContexts
  <2>9. TalkersLive' /\ AgentsLive'
    BY <1>0 DEF TalkersLive, AgentsLive, Registered
  <2>10. OrphansCancelled'
    BY <1>0, <2>5, <2>5b DEF OrphansCancelled
  <2> QED BY <2>7, <2>8, <2>9, <2>10
<1> QED BY <1>1, <1>2

\* An agent's answer removes its talker and the one context that waits for it.
LEMMA AgentActionStep ==
  ASSUME IInv, NEW a \in AgentLinks, NEW id \in TalkerIds, NEW type \in {"ACTION", "CANCEL"},
         NEW verdict \in Decisions \cup {"EXCEPTION"}, ExecuteAgentAction(a, id, type, verdict)
  PROVE  IInv'
<1> DEFINE w == <<a, id>>
           X == {p \in InProgress : checks[p].talker = w}
<1> USE DEF IInv
<1>0. UNCHANGED <<running, dbCorrupted, policy, saveFailed, seqNo>>
  BY DEF ExecuteAgentAction
<1>1. CASE w \notin talkers
  <2>1. UNCHANGED <<open, agents, talkers, checks, out>>
    BY <1>1 DEF ExecuteAgentAction
  <2>2. out' \in [Links -> Seq(Msgs)] /\ open' \in SUBSET Links /\ seqNo' \in TalkerIds
    BY <1>0, <2>1 DEF TypeOK, Msgs
  <2> QED BY <1>0, <2>1, <2>2, SendOnlyStep
<1>2. CASE w \in talkers
  <2>1. X # {}
    BY <1>2 DEF TalkersMatchContexts
  <2>2. PICK p \in X :
          IF ~checks[p].cancelled /\ type = "ACTION" /\ verdict = "EXCEPTION"
            THEN DropAgent(a)
            ELSE /\ talkers' = talkers \ {w}
                 /\ checks' = [checks EXCEPT ![p] = NoCheck]
                 /\ IF ~checks[p].cancelled /\ type = "ACTION"
                      THEN Answer(p[1], p[2], checks[p].key, verdict)
                      ELSE UNCHANGED out
                 /\ UNCHANGED <<open, agents>>
    BY <1>2, <2>1 DEF ExecuteAgentAction
  <2>3. CASE ~checks[p].cancelled /\ type = "ACTION" /\ verdict = "EXCEPTION"
    BY <1>0, <2>2, <2>3, DropAgentStep
  <2>4. CASE ~(~checks[p].cancelled /\ type = "ACTION" /\ verdict = "EXCEPTION")
    <3>1. /\ talkers' = talkers \ {w}
          /\ checks' = [checks EXCEPT ![p] = NoCheck]
          /\ UNCHANGED <<open, agents>>
      BY <2>2, <2>4
    <3>2. /\ InProgress' = InProgress \ {p}
          /\ \A q \in InProgress' : checks'[q] = checks[q]
          /\ checks' \in [CheckRefs -> Contexts \cup {NoCheck}]
      BY <3>1 DEF InProgress, TypeOK
    <3>3. out' \in [Links -> Seq(Msgs)]
      <4>1. CASE ~checks[p].cancelled /\ type = "ACTION"
        <5>1. Answer(p[1], p[2], checks[p].key, verdict) /\ verdict \in Decisions
          BY <2>2, <2>4, <4>1
        <5>2. p[1] \in Links /\ [op |-> "check", id |-> p[2], key |-> checks[p].key, result |-> verdict] \in Msgs
          BY <5>1, ContextType DEF Msgs, ClientMsgs, Links
        <5> QED BY <5>1, <5>2, SendType DEF Answer
      <4>2. CASE ~(~checks[p].cancelled /\ type = "ACTION")
        BY <2>2, <2>4, <4>2 DEF TypeOK, Msgs
      <4> QED BY <4>1, <4>2
    <3>4. TypeOK'
      BY <1>0, <3>1, <3>2, <3>3 DEF TypeOK, Msgs
    <3>5. checks[p].talker = w /\ p \in InProgress
      OBVIOUS
    <3> HIDE DEF w, X
    <3>6. TalkersMatchContexts'
      BY <3>1, <3>2, <3>5, SMTT(30) DEF TalkersMatchContexts
    <3>7. TalkersLive' /\ OrphansCancelled' /\ AgentsLive'
      BY <3>1, <3>2 DEF TalkersLive, OrphansCancelled, AgentsLive, Registered
    <3> QED BY <3>4, <3>6, <3>7
  <2> QED BY <2>3, <2>4
<1> QED BY <1>1, <1>2

-----------------------------------------------------------------------------
\* Every step of the daemon and its peers keeps IInv: one case per handler.
LEMMA NextIInv == IInv /\ [Next]_svars => IInv'
<1> SUFFICES ASSUME IInv, [Next]_svars PROVE IInv'
  OBVIOUS
<1> USE DEF IInv
<1>0. open \in SUBSET Links /\ seqNo \in TalkerIds /\ out \in [Links -> Seq(Msgs)]
  BY DEF TypeOK, Msgs
<1>1. ASSUME NEW l \in Links, Accept(l) PROVE IInv'
  <2>1. out' \in [Links -> Seq(Msgs)]
    BY <1>0, <1>1, SMTT(30) DEF Accept
  <2> QED BY <1>0, <1>1, <2>1, SendOnlyStep DEF Accept
<1>2. ASSUME NEW l \in Links, Read(l) PROVE IInv'
  <2>1. out' \in [Links -> Seq(Msgs)]
    BY <1>0, <1>2, SMTT(30) DEF Read
  <2> QED BY <1>0, <1>2, <2>1, SendOnlyStep DEF Read
<1>3. ASSUME NEW l \in ClientLinks, NEW id \in CheckIds, NEW k \in Keys, ExecuteCheck(l, id, k)
      PROVE  IInv'
  <2>1. l \in open /\ l \in Links /\ UNCHANGED <<running, dbCorrupted, policy, saveFailed, open, agents>>
    BY <1>3 DEF ExecuteCheck, Links
  <2>2. CASE UNCHANGED <<talkers, seqNo, checks, out>>
    BY <1>0, <2>1, <2>2, SendOnlyStep
  <2>3. ASSUME NEW r \in Decisions, Answer(l, id, k, r), UNCHANGED <<talkers, seqNo, checks>> PROVE IInv'
    <3>1. [op |-> "check", id |-> id, key |-> k, result |-> r] \in Msgs
      BY DEF Msgs, ClientMsgs
    <3>2. out' \in [Links -> Seq(Msgs)]
      BY <2>1, <2>3, <3>1, SendType DEF Answer
    <3> QED BY <1>0, <2>1, <2>3, <3>2, SendOnlyStep
  <2>4. ASSUME NEW t \in AgentTypes, checks[<<l, id>>] = NoCheck, AskAgent(l, id, k, t) PROVE IInv'
    BY <2>1, <2>4, AskAgentStep
  <2> QED BY <1>3, <2>2, <2>3, <2>4 DEF ExecuteCheck, Decisions
<1>4. ASSUME NEW l \in ClientLinks, NEW id \in CheckIds, NEW k \in Keys, ExecuteSimpleCheck(l, id, k)
      PROVE  IInv'
  <2>1. l \in open /\ l \in Links
        /\ UNCHANGED <<running, dbCorrupted, policy, saveFailed, agents, talkers, seqNo>>
    BY <1>4 DEF ExecuteSimpleCheck, Links
  <2>2. CASE CancelChecksOf({l})
    BY <2>1, <2>2, CancelChecksStep DEF TypeOK
  <2>3. CASE ~dbCorrupted
    <3>1. PICK r \in Decisions \cup {"NOT_RESOLVED"} :
            Send(l, [op |-> "simple", id |-> id, key |-> k, result |-> r])
      BY <1>4, <2>3 DEF ExecuteSimpleCheck
    <3>2. [op |-> "simple", id |-> id, key |-> k, result |-> r] \in Msgs
      BY DEF Msgs, ClientMsgs
    <3>3. out' \in [Links -> Seq(Msgs)] /\ UNCHANGED <<open, checks>>
      BY <1>4, <2>1, <2>3, <3>1, <3>2, SendType DEF ExecuteSimpleCheck
    <3> QED BY <1>0, <2>1, <3>3, SendOnlyStep
  <2> QED BY <1>4, <2>2, <2>3 DEF ExecuteSimpleCheck
<1>5. ASSUME NEW l \in ClientLinks, NEW id \in CheckIds, ExecuteCancel(l, id) PROVE IInv'
  BY <1>5, CancelStep
<1>6. ASSUME NEW a \in AgentLinks, NEW t \in AgentTypes, Registered(a) => agents[t] = a, ExecuteAgentRegister(a, t)
      PROVE  IInv'
  <2>1. a \in open /\ a \in Links
        /\ UNCHANGED <<running, dbCorrupted, policy, saveFailed, open, talkers, seqNo, checks>>
    BY <1>6 DEF ExecuteAgentRegister, Links
  <2>2. [op |-> "registered", code |-> "DONE"] \in Msgs /\ [op |-> "registered", code |-> "REJECTED"] \in Msgs
    BY DEF Msgs, AgentMsgs
  <2>3. out' \in [Links -> Seq(Msgs)]
    BY <1>6, <2>1, <2>2, SendType DEF ExecuteAgentRegister
  <2>4. CASE agents[t] = NoLink
    <3>0. ~Registered(a)
      BY <1>6, <2>1, <2>4, LinksAssumption
    <3>1. agents' = [agents EXCEPT ![t] = a]
      BY <1>6, <2>4 DEF ExecuteAgentRegister
    <3>2. TypeOK'
      BY <2>1, <2>3, <3>1 DEF TypeOK, Msgs
    <3>3. InProgress' = InProgress
      BY <2>1 DEF InProgress
    <3>4. TalkersMatchContexts' /\ OrphansCancelled'
      BY <2>1, <3>3 DEF TalkersMatchContexts, OrphansCancelled
    <3>5. TalkersLive'
      <4>1. \A w \in talkers : w[1] # NoLink
        BY LinksAssumption DEF TypeOK, Talkers
      <4> QED BY <2>1, <2>4, <3>1, <4>1 DEF TalkersLive, Registered, TypeOK
    <3>6. AgentsLive'
      BY <2>1, <3>0, <3>1 DEF AgentsLive, Registered, TypeOK
    <3> QED BY <3>2, <3>4, <3>5, <3>6
  <2>5. CASE agents[t] # NoLink
    BY <1>0, <1>6, <2>1, <2>3, <2>5, SendOnlyStep DEF ExecuteAgentRegister
  <2> QED BY <2>4, <2>5
<1>7. ASSUME NEW a \in AgentLinks, NEW id \in TalkerIds, NEW type \in {"ACTION", "CANCEL"},
             NEW verdict \in Decisions \cup {"EXCEPTION"}, ExecuteAgentAction(a, id, type, verdict)
      PROVE  IInv'
  BY <1>7, AgentActionStep
<1>8. ASSUME NEW l \in ClientLinks, CloseClient(l) PROVE IInv'
  BY <1>8, CancelChecksStep DEF CloseClient, TypeOK
<1>9. ASSUME NEW a \in AgentLinks, CloseAgent(a) PROVE IInv'
  BY <1>9, DropAgentStep DEF CloseAgent
<1>10. ASSUME NEW new \in [Keys -> PolicyTypes], ChangePolicies(new) PROVE IInv'
  <2>1. CASE saveFailed' = FALSE /\ CancelChecksOf(open \cap ClientLinks)
    BY <1>10, <2>1, CancelChecksStep DEF ChangePolicies
  <2>2. CASE saveFailed' = TRUE /\ UNCHANGED <<open, checks, out>>
    <3>1. TypeOK'
      BY <1>10, <2>2 DEF ChangePolicies, TypeOK
    <3>2. UNCHANGED <<open, agents, talkers, checks>> /\ InProgress' = InProgress
      BY <1>10, <2>2 DEF ChangePolicies, InProgress
    <3> QED BY <3>1, <3>2 DEF TalkersMatchContexts, TalkersLive, OrphansCancelled, AgentsLive, Registered
  <2> QED BY <1>10, <2>1, <2>2 DEF ChangePolicies
<1>11. ASSUME NEW new \in [Keys -> PolicyTypes], Start(new) PROVE IInv'
  <2>1. TypeOK'
    BY <1>11 DEF Start, TypeOK
  <2>2. UNCHANGED <<open, agents, talkers, checks>> /\ InProgress' = InProgress
    BY <1>11 DEF Start, InProgress
  <2> QED BY <2>1, <2>2 DEF TalkersMatchContexts, TalkersLive, OrphansCancelled, AgentsLive, Registered
<1>12. CASE Stop
  <2>1. TypeOK'
    <3>1. 0 \in TalkerIds
      BY IdModulusAssumption, SMTT(30) DEF TalkerIds
    <3>2. running' \in BOOLEAN /\ dbCorrupted' \in BOOLEAN /\ saveFailed' \in BOOLEAN
      BY <1>12 DEF Stop, TypeOK
    <3>3. /\ policy' \in [Keys -> PolicyTypes] /\ open' \subseteq Links /\ talkers' \subseteq Talkers
          /\ out' \in [Links -> Seq(ClientMsgs \cup AgentMsgs)]
      BY <1>12 DEF Stop, TypeOK
    <3>4. /\ agents' \in [AgentTypes -> AgentLinks \cup {NoLink}] /\ seqNo' \in TalkerIds
          /\ checks' \in [CheckRefs -> Contexts \cup {NoCheck}]
      BY <1>12, <3>1 DEF Stop
    <3> QED BY <3>2, <3>3, <3>4 DEF TypeOK
  <2>2. InProgress' = {} /\ talkers' = {} /\ \A t \in AgentTypes : agents'[t] = NoLink
    BY <1>12 DEF Stop, InProgress
  <2> QED BY <2>1, <2>2 DEF TalkersMatchContexts, TalkersLive, OrphansCancelled, AgentsLive
<1>13. CASE UNCHANGED svars
  BY <1>0, <1>13, SendOnlyStep DEF svars
<1> QED BY <1>1, <1>2, <1>3, <1>4, <1>5, <1>6, <1>7, <1>8, <1>9, <1>10, <1>11, <1>12, <1>13 DEF Next

\* The inductive invariant holds in every state of the daemon (Logic.cpp).
THEOREM ServiceInvariant == Spec => []IInv
<1>1. Init => IInv
  BY InitIInv
<1>2. IInv /\ [Next]_svars => IInv'
  BY NextIInv
<1> QED BY <1>1, <1>2, PTL DEF Spec

\* The daemon's maps keep the shape the code declares, for any number of links,
\* keys and ids, under any requests.
THEOREM ServiceTypeOK == Spec => []TypeOK
<1>1. IInv => TypeOK
  BY DEF IInv
<1> QED BY <1>1, ServiceInvariant, PTL

\* Talkers (AgentManager) and contexts (CheckRequestManager) always correspond
\* one to one, every talker leads to a registered agent whose link is open, and
\* a check whose client is gone is cancelled.
THEOREM ServiceContextsSound == Spec => []ContextsSound
<1>1. IInv => ContextsSound
  BY DEF IInv, ContextsSound
<1> QED BY <1>1, ServiceInvariant, PTL

(***************************************************************************)
(* CheckSystem.                                                            *)
(***************************************************************************)
RequestData == [req : Requests, key : Keys, simple : BOOLEAN, cancelled : BOOLEAN]
ClientRequests ==
  [op : {"check", "simple"}, id : CheckIds, key : Keys] \cup [op : {"cancel"}, id : CheckIds]
Questions == [id : TalkerIds, key : Keys, type : {"ACTION", "CANCEL"}]
AgentRequests ==
  [op : {"register"}, type : AgentTypes]
    \cup [op : {"answer"}, id : TalkerIds, type : {"ACTION", "CANCEL"}, key : Keys]

\* What travels on each link, and the state of the two libraries.
InTyped ==
  /\ \A l \in ClientLinks : in[l] \in Seq(ClientRequests)
  /\ \A a \in AgentLinks : in[a] \in Seq(AgentRequests)
OutTyped ==
  /\ \A l \in ClientLinks : out[l] \in Seq(ClientMsgs)
  /\ \A a \in AgentLinks : out[a] \in Seq(AgentMsgs)
SysTypeOK ==
  /\ DOMAIN in = Links /\ InTyped /\ OutTyped
  /\ hup \subseteq open
  /\ conn \in [Clients -> ClientLinks \cup {NoLink}]
  /\ data \in [Clients -> [CheckIds -> RequestData \cup {NoData}]]
  /\ used \in [Clients -> SUBSET CheckIds]
  /\ cache \in [Clients -> [Keys -> Decisions \cup {"MISS"}]]
  /\ agConn \in [AgentTypes -> AgentLinks \cup {NoLink}]
  /\ todo \in [AgentTypes -> SUBSET Questions]

\* A registration is the first thing sent over an agent's link.
RegisterFirst ==
  \A a \in AgentLinks : \A i \in DOMAIN in[a] :
    in[a][i].op = "register" => i = 1 /\ ~Registered(a)

\* No two peers share a link, and a stopped daemon has none.
LinksApart ==
  /\ \A c, d \in Clients : conn[c] # NoLink /\ conn[c] = conn[d] => c = d
  /\ \A t, u \in AgentTypes : agConn[t] # NoLink /\ agConn[t] = agConn[u] => t = u
  /\ ~running => open = {}

Env == SysTypeOK /\ RegisterFirst /\ LinksApart

-----------------------------------------------------------------------------
\* While the last change is saved, a key the storage decides has no other
\* decision under way, and no agent is asked about it.
Agrees(k, r) == r \in Decisions /\ PolicyFor(k) \in Decisions => r = PolicyFor(k)
FreshOut ==
  ~saveFailed => \A l \in ClientLinks \cap open : \A i \in DOMAIN out[l] :
    out[l][i].op # "cancelled" => Agrees(out[l][i].key, out[l][i].result)
FreshContexts ==
  ~saveFailed => \A p \in InProgress : ~checks[p].cancelled => PolicyFor(checks[p].key) \notin Decisions

-----------------------------------------------------------------------------
\* A set of naturals that is not empty has a least element.
LEMMA Least ==
  ASSUME NEW T \in SUBSET Nat, T # {} PROVE \E x \in T : \A y \in T : x <= y
<1> DEFINE R == OpToRel(<, Nat)
<1>1. IsWellFoundedOn(R, Nat)
  BY NatLessThanWellFounded
<1>2. PICK x \in T : \A y \in T : ~(<<y, x>> \in R)
  <2> HIDE DEF R
  <2> QED BY <1>1, WFMin
<1>3. \A y \in T : ~(y < x)
  BY <1>2 DEF OpToRel
<1> QED BY <1>3, SMTT(30)

\* Ascending lists a finite set of naturals.
LEMMA AscendingType ==
  ASSUME NEW S \in SUBSET Nat, IsFiniteSet(S)
  PROVE  /\ Ascending(S) \in [1 .. Cardinality(S) -> S]
         /\ \A i, j \in 1 .. Cardinality(S) : i < j => Ascending(S)[i] < Ascending(S)[j]
         /\ Cardinality(S) \in Nat
<1> DEFINE Up(s) == \A i, j \in DOMAIN s : i < j => s[i] < s[j]
           Bad == {n \in Nat : \E U \in SUBSET Nat : /\ IsFiniteSet(U) /\ Cardinality(U) = n
                                                    /\ ~ \E s \in [1 .. n -> U] : Up(s)}
<1>1. Bad = {}
  <2> SUFFICES ASSUME Bad # {} PROVE FALSE
    OBVIOUS
  <2>1. PICK n \in Bad : \A m \in Bad : n <= m
    BY Least
  <2>2. PICK U \in SUBSET Nat : /\ IsFiniteSet(U) /\ Cardinality(U) = n
                                /\ ~ \E s \in [1 .. n -> U] : Up(s)
    BY <2>1
  <2>3. U # {}
    <3> SUFFICES ASSUME U = {} PROVE FALSE
      OBVIOUS
    <3>1. n = 0
      BY <2>2, FS_EmptySet
    <3>2. <<>> \in [1 .. n -> U] /\ Up(<<>>)
      BY <3>1, SMTT(30)
    <3> QED BY <2>2, <3>2
  <2>4. PICK x \in U : \A y \in U : x <= y
    BY <2>3, Least
  <2>5. IsFiniteSet(U \ {x}) /\ Cardinality(U \ {x}) = n - 1 /\ n \in Nat
    BY <2>1, <2>2, FS_RemoveElement
  <2>6. n - 1 \in Nat /\ n - 1 \notin Bad
    <3>1. Cardinality(U \ {x}) \in Nat
      BY <2>5, FS_CardinalityType
    <3> HIDE DEF Bad
    <3> QED BY <3>1, <2>1, <2>5, SMTT(30)
  <2>7. PICK s \in [1 .. (n - 1) -> U \ {x}] : Up(s)
    BY <2>5, <2>6
  <2>8. DEFINE r == [i \in 1 .. n |-> IF i = 1 THEN x ELSE s[i - 1]]
  <2>9. r \in [1 .. n -> U]
    BY <2>5, <2>6, SMTT(30)
  <2>10. Up(r)
    <3> SUFFICES ASSUME NEW i \in 1 .. n, NEW j \in 1 .. n, i < j PROVE r[i] < r[j]
      BY <2>9
    <3>1. j - 1 \in 1 .. (n - 1) /\ r[j] = s[j - 1] /\ s[j - 1] \in U \ {x}
      BY <2>5, <2>6, SMTT(30)
    <3>2. CASE i = 1
      <4>1. x <= s[j - 1] /\ x # s[j - 1] /\ x \in Nat /\ s[j - 1] \in Nat
        BY <3>1, <2>4
      <4>2. r[i] = x
        BY <3>2
      <4> HIDE DEF r
      <4> QED BY <3>1, <4>1, <4>2, SMTT(30)
    <3>3. CASE i # 1
      <4>1. i - 1 \in 1 .. (n - 1) /\ r[i] = s[i - 1] /\ i - 1 < j - 1
        BY <3>3, <2>5, SMTT(30)
      <4> QED BY <4>1, <3>1, <2>7
    <3> QED BY <3>2, <3>3
  <2> QED BY <2>2, <2>9, <2>10
<1>2. Cardinality(S) \in Nat
  BY FS_CardinalityType
<1>3. \E s \in [1 .. Cardinality(S) -> S] : Up(s)
  BY <1>1, <1>2
<1>4. Ascending(S) \in [1 .. Cardinality(S) -> S] /\ Up(Ascending(S))
  BY <1>3 DEF Ascending
<1> QED BY <1>2, <1>4

-----------------------------------------------------------------------------
\* The queue r is the queue q with distinct members of S behind it.
Grows(q, r, S) ==
  /\ DOMAIN q \subseteq DOMAIN r
  /\ \A i \in DOMAIN q : r[i] = q[i]
  /\ \A i \in DOMAIN r \ DOMAIN q : r[i] \in S
  /\ \A i, j \in DOMAIN r \ DOMAIN q : r[i] = r[j] => i = j

\* A sequence all of whose elements are in T is a sequence over T.
LEMMA SeqOver ==
  ASSUME NEW U, NEW T, NEW r \in Seq(U), \A i \in DOMAIN r : r[i] \in T PROVE r \in Seq(T)
  BY SMTT(30)

\* A queue over T that grows by members of T stays one.
LEMMA GrowsType ==
  ASSUME NEW T, NEW U, NEW q \in Seq(T), NEW r \in Seq(U), NEW S \in SUBSET T, Grows(q, r, S)
  PROVE  r \in Seq(T)
<1>1. \A i \in DOMAIN r : r[i] \in T
  BY SMTT(30) DEF Grows
<1> QED BY <1>1, SeqOver

\* Appending one message.
LEMMA AppendGrows ==
  ASSUME NEW T, NEW q \in Seq(T), NEW m \in T PROVE Grows(q, Append(q, m), {m})
  BY SMTT(30) DEF Grows

\* A queue that stays as it is grows by nothing.
LEMMA NothingGrows == ASSUME NEW q PROVE Grows(q, q, {})
  BY DEF Grows

\* SendSets puts each message of a set once on its link.
LEMMA SetGrows ==
  ASSUME NEW T, NEW q \in Seq(T), NEW S \in SUBSET T, IsFiniteSet(S)
  PROVE  Grows(q, q \o Listing(S), S)
<1> DEFINE s == Listing(S)
           n == Cardinality(S)
<1>1. n \in Nat
  BY FS_CardinalityType
<1>2. s \in Bijection(1 .. n, S)
  BY ListingType
<1>3. s \in [1 .. n -> S]
  BY <1>2 DEF Bijection, Injection
<1>4. \A a, b \in 1 .. n : s[a] = s[b] => a = b
  BY <1>2 DEF Bijection, Injection, IsInjective
<1> HIDE DEF s, n
<1>5. s \in Seq(T) /\ Len(s) = n
  BY <1>1, <1>3, SMTT(30)
<1>6. /\ DOMAIN (q \o s) = 1 .. (Len(q) + n)
      /\ \A i \in 1 .. Len(q) : (q \o s)[i] = q[i]
      /\ \A i \in (Len(q) + 1) .. (Len(q) + n) : (q \o s)[i] = s[i - Len(q)] /\ i - Len(q) \in 1 .. n
  BY <1>1, <1>5, SMTT(30)
<1>7. DOMAIN (q \o s) \ DOMAIN q = (Len(q) + 1) .. (Len(q) + n)
  BY <1>1, <1>6, SMTT(30)
<1>8. \A i \in DOMAIN (q \o s) \ DOMAIN q : (q \o s)[i] \in S
  BY <1>3, <1>6, <1>7
<1>9. \A i, j \in DOMAIN (q \o s) \ DOMAIN q : (q \o s)[i] = (q \o s)[j] => i = j
  <2> SUFFICES ASSUME NEW i \in (Len(q) + 1) .. (Len(q) + n), NEW j \in (Len(q) + 1) .. (Len(q) + n),
                      (q \o s)[i] = (q \o s)[j]
               PROVE  i = j
    BY <1>7
  <2>1. i - Len(q) = j - Len(q)
    BY <1>4, <1>6
  <2> QED BY <2>1, SMTT(30)
<1> QED BY <1>1, <1>6, <1>8, <1>9, SMTT(30) DEF Grows, s

\* The links after returnResponse and after several responses.
LEMMA SendGrows ==
  ASSUME TypeOK, NEW l \in Links, NEW m \in Msgs, Send(l, m)
  PROVE  \A x \in Links : Grows(out[x], out'[x], IF x = l THEN {m} ELSE {})
<1> SUFFICES ASSUME NEW x \in Links PROVE Grows(out[x], out'[x], IF x = l THEN {m} ELSE {})
  OBVIOUS
<1>1. out[x] \in Seq(Msgs)
  BY DEF TypeOK, Msgs
<1>2. CASE x = l /\ l \in open
  <2>1. out'[x] = Append(out[x], m)
    BY <1>2 DEF Send, TypeOK
  <2> QED BY <1>1, <1>2, <2>1, AppendGrows
<1>3. CASE ~(x = l /\ l \in open)
  <2>1. out'[x] = out[x]
    BY <1>3 DEF Send, TypeOK
  <2> QED BY <2>1 DEF Grows
<1> QED BY <1>2, <1>3

\* With SendSets every link grows by the messages meant for it.
LEMMA SendSetsGrows ==
  ASSUME TypeOK, NEW msgs \in [Links -> SUBSET Msgs],
         \A l \in Links : IsFiniteSet(msgs[l]), SendSets(msgs)
  PROVE  \A x \in Links : Grows(out[x], out'[x], msgs[x])
<1> SUFFICES ASSUME NEW x \in Links PROVE Grows(out[x], out'[x], msgs[x])
  OBVIOUS
<1>1. out[x] \in Seq(Msgs) /\ msgs[x] \in SUBSET Msgs
  BY DEF TypeOK, Msgs
<1>2. CASE x \in open
  <2>1. out'[x] = out[x] \o Listing(msgs[x])
    BY <1>2 DEF SendSets
  <2> QED BY <1>1, <2>1, SetGrows
<1>3. CASE x \notin open
  <2>1. out'[x] = out[x]
    BY <1>3 DEF SendSets
  <2> QED BY <2>1 DEF Grows
<1> QED BY <1>2, <1>3

\* What grows by members of S grows by members of a larger set.
LEMMA GrowsMore ==
  ASSUME NEW q, NEW r, NEW S, NEW V, S \subseteq V, Grows(q, r, S) PROVE Grows(q, r, V)
  BY DEF Grows

-----------------------------------------------------------------------------
\* contextClosed for client links writes cancels to agents only.
LEMMA CancelChecksSends ==
  ASSUME IInv, NEW C \in SUBSET ClientLinks, CancelChecksOf(C)
  PROVE  /\ \A x \in ClientLinks : Grows(out[x], out'[x], {})
         /\ \A x \in AgentLinks : Grows(out[x], out'[x], [op : {"CANCEL"}, id : TalkerIds])
<1> DEFINE X == {p \in InProgress : p[1] \in C /\ ~checks[p].cancelled}
           m(l) == {[op |-> "CANCEL", id |-> checks[p].talker[2]] :
                      p \in {q \in X : checks[q].talker[1] = l}}
<1> USE DEF IInv
<1>1. SendSets([l \in Links |-> m(l)])
  BY DEF CancelChecksOf
<1>2. ASSUME NEW l \in Links PROVE m(l) \in SUBSET [op : {"CANCEL"}, id : TalkerIds]
  BY ContextType, SMTT(30)
<1>3. ASSUME NEW l \in Links PROVE IsFiniteSet(m(l))
  <2> DEFINE Y == {q \in X : checks[q].talker[1] = l}
             f == [p \in Y |-> [op |-> "CANCEL", id |-> checks[p].talker[2]]]
  <2>1. IsFiniteSet(Y)
    BY InProgressFinite
  <2>2. f \in Surjection(Y, m(l))
    BY DEF Surjection
  <2> HIDE DEF Y, f, m
  <2> QED BY <2>1, <2>2, FS_Surjection
<1>4. ASSUME NEW l \in ClientLinks PROVE m(l) = {}
  BY ContextType, LinksAssumption, SMTT(30)
<1>5. ASSUME NEW l \in Links PROVE m(l) \in SUBSET Msgs
  BY <1>2 DEF Msgs, AgentMsgs
<1> HIDE DEF m
<1>6. \A x \in Links : Grows(out[x], out'[x], m(x))
  BY <1>1, <1>3, <1>5, SendSetsGrows, SMTT(30)
<1>7. \A x \in ClientLinks : Grows(out[x], out'[x], {})
  BY <1>4, <1>6 DEF Links
<1>8. ASSUME NEW x \in AgentLinks PROVE Grows(out[x], out'[x], [op : {"CANCEL"}, id : TalkerIds])
  <2>1. m(x) \subseteq [op : {"CANCEL"}, id : TalkerIds] /\ Grows(out[x], out'[x], m(x))
    BY <1>2, <1>6 DEF Links
  <2> QED BY <2>1, GrowsMore
<1> QED BY <1>7, <1>8

\* The answers contextClosed for agent link a writes to client link x.
Denials(a, x) ==
  {[op |-> "check", id |-> p[2], key |-> checks[p].key, result |-> "DENY"] :
     p \in {q \in InProgress : q[1] = x /\ checks[q].talker[1] = a /\ ~checks[q].cancelled}}

\* handleAgentTalkerRemoval: the denials it sends, and to whom.
LEMMA DropAgentSends ==
  ASSUME IInv, NEW a \in AgentLinks, DropAgent(a)
  PROVE  /\ \A x \in ClientLinks : Grows(out[x], out'[x], Denials(a, x))
         /\ \A x \in AgentLinks : Grows(out[x], out'[x], {})
<1> DEFINE X == {p \in InProgress : checks[p].talker \in talkers /\ checks[p].talker[1] = a}
           Y(l) == {q \in X : q[1] = l /\ ~checks[q].cancelled}
           m(l) == {[op |-> "check", id |-> p[2], key |-> checks[p].key, result |-> "DENY"] : p \in Y(l)}
<1> USE DEF IInv
<1>1. SendSets([l \in Links |-> m(l)])
  BY DEF DropAgent
<1>2. ASSUME NEW l \in Links PROVE m(l) \in SUBSET Msgs
  BY ContextType, SMTT(30) DEF Msgs, ClientMsgs, Decisions
<1>3. ASSUME NEW l \in Links PROVE IsFiniteSet(m(l))
  <2> DEFINE f == [p \in Y(l) |-> [op |-> "check", id |-> p[2], key |-> checks[p].key, result |-> "DENY"]]
  <2>1. IsFiniteSet(Y(l))
    BY InProgressFinite
  <2>2. f \in Surjection(Y(l), m(l))
    BY DEF Surjection
  <2> HIDE DEF Y, f, m
  <2> QED BY <2>1, <2>2, FS_Surjection
<1>4. ASSUME NEW l \in AgentLinks PROVE m(l) = {}
  BY ContextType, LinksAssumption, SMTT(30)
<1>5. ASSUME NEW l \in ClientLinks PROVE m(l) = Denials(a, l)
  BY DEF Denials, TalkersMatchContexts
<1> HIDE DEF m
<1>6. \A x \in Links : Grows(out[x], out'[x], m(x))
  BY <1>1, <1>2, <1>3, SendSetsGrows, SMTT(30)
<1> QED BY <1>4, <1>5, <1>6 DEF Links

\* A cancel request makes at most one cancel for an agent and one confirmation.
LEMMA CancelSends ==
  ASSUME IInv, NEW l \in ClientLinks, NEW id \in CheckIds, ExecuteCancel(l, id),
         checks[<<l, id>>] # NoCheck, ~checks[<<l, id>>].cancelled
  PROVE  /\ \A x \in ClientLinks :
              Grows(out[x], out'[x], IF x = l THEN {[op |-> "cancelled", id |-> id]} ELSE {})
         /\ \A x \in AgentLinks : Grows(out[x], out'[x], [op : {"CANCEL"}, id : TalkerIds])
<1> DEFINE p == <<l, id>>
           c == checks[p]
           m(x) == IF x = c.talker[1] THEN {[op |-> "CANCEL", id |-> c.talker[2]]}
                   ELSE IF x = l THEN {[op |-> "cancelled", id |-> id]} ELSE {}
<1> USE DEF IInv
<1>1. SendSets([x \in Links |-> m(x)])
  BY DEF ExecuteCancel
<1>2. p \in InProgress /\ c.talker[1] \in AgentLinks /\ c.talker[2] \in TalkerIds
  <2>1. p \in InProgress
    BY DEF InProgress, CheckRefs
  <2> QED BY <2>1, ContextType
<1>3. ASSUME NEW x \in Links PROVE m(x) \in SUBSET Msgs
  BY <1>2, SMTT(30) DEF Msgs, ClientMsgs, AgentMsgs
<1>4. ASSUME NEW x \in Links PROVE IsFiniteSet(m(x))
  BY FS_EmptySet, FS_Singleton
<1>5. ASSUME NEW x \in ClientLinks PROVE m(x) = IF x = l THEN {[op |-> "cancelled", id |-> id]} ELSE {}
  BY <1>2, LinksAssumption
<1>6. ASSUME NEW x \in AgentLinks PROVE m(x) \in SUBSET [op : {"CANCEL"}, id : TalkerIds]
  BY <1>2, LinksAssumption, SMTT(30)
<1> HIDE DEF m
<1>7. \A x \in Links : Grows(out[x], out'[x], m(x))
  BY <1>1, <1>3, <1>4, SendSetsGrows, SMTT(30)
<1>8. ASSUME NEW x \in AgentLinks PROVE Grows(out[x], out'[x], [op : {"CANCEL"}, id : TalkerIds])
  <2>1. m(x) \subseteq [op : {"CANCEL"}, id : TalkerIds] /\ Grows(out[x], out'[x], m(x))
    BY <1>6, <1>7 DEF Links
  <2> QED BY <2>1, GrowsMore
<1> QED BY <1>5, <1>7, <1>8 DEF Links

-----------------------------------------------------------------------------
\* The question of AskAgent, when there is an agent to ask.
Asks(l, id, k) ==
  /\ PolicyFor(k) \notin Decisions
  /\ \E a \in AgentLinks :
       /\ <<a, seqNo>> \notin talkers /\ talkers' = talkers \cup {<<a, seqNo>>}
       /\ checks' = [checks EXCEPT ![<<l, id>>] =
                       [talker |-> <<a, seqNo>>, key |-> k, cancelled |-> FALSE]]
       /\ Send(a, [op |-> "ACTION", id |-> seqNo, key |-> k])

\* What Logic::execute does with a check: it drops it, answers it, or asks.
LEMMA CheckCases ==
  ASSUME IInv, NEW l \in ClientLinks, NEW id \in CheckIds, NEW k \in Keys, ExecuteCheck(l, id, k)
  PROVE  /\ UNCHANGED <<running, dbCorrupted, policy, saveFailed, open, agents>>
         /\ \/ checks[<<l, id>>] # NoCheck /\ UNCHANGED <<talkers, checks, out>>
            \/ /\ checks[<<l, id>>] = NoCheck /\ UNCHANGED <<talkers, checks>>
               /\ \E r \in Decisions : Agrees(k, r) /\ Answer(l, id, k, r)
            \/ checks[<<l, id>>] = NoCheck /\ Asks(l, id, k)
<1>1. UNCHANGED <<running, dbCorrupted, policy, saveFailed, open, agents>>
  BY DEF ExecuteCheck
<1>2. CASE checks[<<l, id>>] # NoCheck
  BY <1>1, <1>2 DEF ExecuteCheck
<1>3. CASE checks[<<l, id>>] = NoCheck /\ PolicyFor(k) \in Decisions
  <2>1. Answer(l, id, k, PolicyFor(k)) /\ UNCHANGED <<talkers, checks>>
    BY <1>3, AgentTypesAssumption DEF ExecuteCheck, Decisions
  <2> QED BY <1>1, <1>3, <2>1 DEF Agrees
<1>4. CASE checks[<<l, id>>] = NoCheck /\ PolicyFor(k) \notin Decisions
  <2>1. CASE \E r \in Decisions : Answer(l, id, k, r) /\ UNCHANGED <<talkers, seqNo, checks>>
    BY <1>1, <1>4, <2>1 DEF Agrees
  <2>2. CASE PolicyFor(k) \in AgentTypes /\ AskAgent(l, id, k, PolicyFor(k))
    <3> DEFINE t == PolicyFor(k)
    <3>1. CASE agents[t] = NoLink \/ <<agents[t], seqNo>> \in talkers
      <4>1. Answer(l, id, k, "DENY") /\ UNCHANGED <<talkers, checks>>
        BY <2>2, <3>1 DEF AskAgent
      <4> QED BY <1>1, <1>4, <4>1 DEF Agrees, Decisions
    <3>2. CASE ~(agents[t] = NoLink \/ <<agents[t], seqNo>> \in talkers)
      <4>1. agents[t] \in AgentLinks
        BY <2>2, <3>2 DEF IInv, TypeOK
      <4> QED BY <1>1, <1>4, <2>2, <3>2, <4>1 DEF AskAgent, Asks
    <3> QED BY <3>1, <3>2
  <2> QED BY <1>4, <2>1, <2>2 DEF ExecuteCheck, Decisions
<1> QED BY <1>2, <1>3, <1>4

-----------------------------------------------------------------------------
\* What a step of the daemon does to the queue of a client or of an agent:
\* a new link starts empty, the peer reads the head, or responses are added.
\* Decisions added while the last change is saved are the storage's.
ClientOut(x) ==
  \/ out'[x] = <<>>
  \/ out[x] # <<>> /\ out'[x] = Tail(out[x])
  \/ \E S \in SUBSET ClientMsgs :
       /\ Grows(out[x], out'[x], S)
       /\ \A m \in S : m.op # "cancelled" /\ ~saveFailed => Agrees(m.key, m.result)
AgentOut(x) ==
  \/ out'[x] = <<>>
  \/ out[x] # <<>> /\ out'[x] = Tail(out[x])
  \/ \E S \in SUBSET AgentMsgs : Grows(out[x], out'[x], S)

\* What any step of the daemon puts on the links, by its connections and contexts.
LEMMA Outputs ==
  ASSUME IInv, FreshContexts, [Next]_svars
  PROVE  /\ \A x \in ClientLinks : ClientOut(x)
         /\ \A x \in AgentLinks : AgentOut(x)
<1> USE DEF IInv
<1>0. ASSUME NEW x, out'[x] = out[x] PROVE ClientOut(x) /\ AgentOut(x)
  <2>1. Grows(out[x], out'[x], {})
    BY <1>0, NothingGrows
  <2> QED BY <2>1, SMTT(30) DEF ClientOut, AgentOut
<1>1. ASSUME NEW l \in ClientLinks, NEW m \in ClientMsgs, Send(l, m),
             m.op # "cancelled" /\ ~saveFailed => Agrees(m.key, m.result)
      PROVE  (\A x \in ClientLinks : ClientOut(x)) /\ (\A x \in AgentLinks : AgentOut(x))
  <2>1. \A x \in Links : Grows(out[x], out'[x], IF x = l THEN {m} ELSE {})
    BY <1>1, SendGrows DEF Links, Msgs
  <2>2. ASSUME NEW x \in ClientLinks PROVE ClientOut(x)
    <3>1. CASE x = l
      <4>1. Grows(out[x], out'[x], {m}) /\ {m} \in SUBSET ClientMsgs
        BY <2>1, <3>1 DEF Links
      <4> QED BY <4>1, <1>1 DEF ClientOut
    <3>2. CASE x # l
      <4>1. Grows(out[x], out'[x], {})
        BY <2>1, <3>2 DEF Links
      <4> QED BY <4>1, SMTT(30) DEF ClientOut
    <3> QED BY <3>1, <3>2
  <2>3. ASSUME NEW x \in AgentLinks PROVE AgentOut(x)
    <3>1. x # l /\ Grows(out[x], out'[x], {})
      BY <2>1, LinksAssumption DEF Links
    <3> QED BY <3>1 DEF AgentOut
  <2> QED BY <2>2, <2>3
<1>2. ASSUME NEW l \in AgentLinks, NEW m \in AgentMsgs, Send(l, m)
      PROVE  (\A x \in ClientLinks : ClientOut(x)) /\ (\A x \in AgentLinks : AgentOut(x))
  <2>1. \A x \in Links : Grows(out[x], out'[x], IF x = l THEN {m} ELSE {})
    BY <1>2, SendGrows DEF Links, Msgs
  <2>2. ASSUME NEW x \in ClientLinks PROVE ClientOut(x)
    <3>1. x # l /\ Grows(out[x], out'[x], {})
      BY <2>1, LinksAssumption DEF Links
    <3> QED BY <3>1, SMTT(30) DEF ClientOut
  <2>3. ASSUME NEW x \in AgentLinks PROVE AgentOut(x)
    <3>1. (IF x = l THEN {m} ELSE {}) \in SUBSET AgentMsgs
      OBVIOUS
    <3> QED BY <2>1, <3>1 DEF AgentOut, Links
  <2> QED BY <2>2, <2>3
<1>3. ASSUME NEW C \in SUBSET ClientLinks, CancelChecksOf(C)
      PROVE  (\A x \in ClientLinks : ClientOut(x)) /\ (\A x \in AgentLinks : AgentOut(x))
  <2>1. [op : {"CANCEL"}, id : TalkerIds] \in SUBSET AgentMsgs
    BY DEF AgentMsgs
  <2>2. ASSUME NEW x \in ClientLinks PROVE ClientOut(x)
    <3>1. Grows(out[x], out'[x], {})
      BY <1>3, CancelChecksSends
    <3> QED BY <3>1, SMTT(30) DEF ClientOut
  <2>3. ASSUME NEW x \in AgentLinks PROVE AgentOut(x)
    <3>1. Grows(out[x], out'[x], [op : {"CANCEL"}, id : TalkerIds])
      BY <1>3, CancelChecksSends
    <3> QED BY <2>1, <3>1 DEF AgentOut
  <2> QED BY <2>2, <2>3
<1>4. ASSUME NEW a \in AgentLinks, DropAgent(a)
      PROVE  (\A x \in ClientLinks : ClientOut(x)) /\ (\A x \in AgentLinks : AgentOut(x))
  <2>1. ASSUME NEW x \in ClientLinks PROVE Denials(a, x) \in SUBSET ClientMsgs
    BY ContextType, SMTT(30) DEF Denials, ClientMsgs, Decisions
  <2>2. ASSUME NEW x \in ClientLinks, NEW m \in Denials(a, x), ~saveFailed PROVE Agrees(m.key, m.result)
    BY <2>2, SMTT(30) DEF Denials, FreshContexts, Agrees
  <2>3. ASSUME NEW x \in ClientLinks PROVE ClientOut(x)
    <3>1. Grows(out[x], out'[x], Denials(a, x))
      BY <1>4, DropAgentSends
    <3> QED BY <2>1, <2>2, <3>1 DEF ClientOut
  <2>4. ASSUME NEW x \in AgentLinks PROVE AgentOut(x)
    BY <1>4, DropAgentSends DEF AgentOut
  <2> QED BY <2>3, <2>4
<1>5. CASE UNCHANGED out
  BY <1>0, <1>5
<1>6. ASSUME NEW l \in Links, Accept(l) \/ Read(l)
      PROVE  (\A x \in ClientLinks : ClientOut(x)) /\ (\A x \in AgentLinks : AgentOut(x))
  <2>1. ASSUME NEW x \in Links, x # l PROVE out'[x] = out[x]
    BY <1>6, <2>1 DEF Accept, Read, TypeOK
  <2>2. out'[l] = <<>> \/ (out[l] # <<>> /\ out'[l] = Tail(out[l]))
    BY <1>6 DEF Accept, Read, TypeOK
  <2>3. ClientOut(l) /\ AgentOut(l)
    BY <2>2 DEF ClientOut, AgentOut
  <2> QED BY <1>0, <2>1, <2>3 DEF Links
<1>7. ASSUME NEW l \in ClientLinks, NEW id \in CheckIds, NEW k \in Keys, ExecuteCheck(l, id, k)
      PROVE  (\A x \in ClientLinks : ClientOut(x)) /\ (\A x \in AgentLinks : AgentOut(x))
  <2>1. CASE \E r \in Decisions : Agrees(k, r) /\ Answer(l, id, k, r)
    <3>1. PICK r \in Decisions : Agrees(k, r) /\ Answer(l, id, k, r)
      BY <2>1
    <3> DEFINE m == [op |-> "check", id |-> id, key |-> k, result |-> r]
    <3>2. m \in ClientMsgs /\ Send(l, m) /\ m.key = k /\ m.result = r
      BY <3>1 DEF ClientMsgs, Answer
    <3> HIDE DEF m
    <3> QED BY <1>1, <3>1, <3>2
  <2>2. CASE Asks(l, id, k)
    <3>1. PICK a \in AgentLinks : Send(a, [op |-> "ACTION", id |-> seqNo, key |-> k])
      BY <2>2 DEF Asks
    <3>2. [op |-> "ACTION", id |-> seqNo, key |-> k] \in AgentMsgs
      BY DEF AgentMsgs, TypeOK
    <3> QED BY <1>2, <3>1, <3>2
  <2> QED BY <1>5, <1>7, <2>1, <2>2, CheckCases
<1>8. ASSUME NEW l \in ClientLinks, NEW id \in CheckIds, NEW k \in Keys, ExecuteSimpleCheck(l, id, k)
      PROVE  (\A x \in ClientLinks : ClientOut(x)) /\ (\A x \in AgentLinks : AgentOut(x))
  <2>1. CASE dbCorrupted /\ CancelChecksOf({l})
    BY <1>3, <2>1
  <2>2. CASE ~dbCorrupted
    <3>1. PICK r \in Decisions \cup {"NOT_RESOLVED"} :
            /\ policy[k] \in Decisions => r = policy[k]
            /\ Send(l, [op |-> "simple", id |-> id, key |-> k, result |-> r])
      BY <1>8, <2>2 DEF ExecuteSimpleCheck
    <3> DEFINE m == [op |-> "simple", id |-> id, key |-> k, result |-> r]
    <3>2. m \in ClientMsgs /\ Send(l, m) /\ m.key = k /\ m.result = r
      BY <3>1 DEF ClientMsgs
    <3>3. Agrees(k, r)
      BY <2>2, <3>1 DEF Agrees, PolicyFor
    <3> HIDE DEF m
    <3> QED BY <1>1, <3>2, <3>3
  <2> QED BY <1>8, <2>1, <2>2 DEF ExecuteSimpleCheck
<1>9. ASSUME NEW l \in ClientLinks, NEW id \in CheckIds, ExecuteCancel(l, id)
      PROVE  (\A x \in ClientLinks : ClientOut(x)) /\ (\A x \in AgentLinks : AgentOut(x))
  <2>1. CASE checks[<<l, id>>] = NoCheck \/ checks[<<l, id>>].cancelled
    BY <1>5, <1>9, <2>1 DEF ExecuteCancel
  <2>2. CASE checks[<<l, id>>] # NoCheck /\ ~checks[<<l, id>>].cancelled
    <3> DEFINE S(x) == IF x = l THEN {[op |-> "cancelled", id |-> id]} ELSE {}
    <3>1. ASSUME NEW x \in ClientLinks
          PROVE S(x) \in SUBSET ClientMsgs /\ \A m \in S(x) : m.op = "cancelled"
      BY SMTT(30) DEF ClientMsgs
    <3>2. ASSUME NEW x \in ClientLinks PROVE Grows(out[x], out'[x], S(x))
      BY <1>9, <2>2, CancelSends
    <3> HIDE DEF S
    <3>3. ASSUME NEW x \in ClientLinks PROVE ClientOut(x)
      BY <3>1, <3>2 DEF ClientOut
    <3>4. [op : {"CANCEL"}, id : TalkerIds] \in SUBSET AgentMsgs
      BY DEF AgentMsgs
    <3>5. ASSUME NEW x \in AgentLinks PROVE AgentOut(x)
      BY <1>9, <2>2, <3>4, CancelSends DEF AgentOut
    <3> QED BY <3>3, <3>5
  <2> QED BY <2>1, <2>2
<1>10. ASSUME NEW a \in AgentLinks, NEW t \in AgentTypes, ExecuteAgentRegister(a, t)
       PROVE  (\A x \in ClientLinks : ClientOut(x)) /\ (\A x \in AgentLinks : AgentOut(x))
  <2>1. /\ [op |-> "registered", code |-> "DONE"] \in AgentMsgs
        /\ [op |-> "registered", code |-> "REJECTED"] \in AgentMsgs
    BY DEF AgentMsgs
  <2>2. \/ Send(a, [op |-> "registered", code |-> "DONE"])
        \/ Send(a, [op |-> "registered", code |-> "REJECTED"])
    BY <1>10 DEF ExecuteAgentRegister
  <2> QED BY <1>2, <2>1, <2>2
<1>11. ASSUME NEW a \in AgentLinks, NEW id \in TalkerIds, NEW type \in {"ACTION", "CANCEL"},
              NEW st \in Decisions \cup {"EXCEPTION"}, ExecuteAgentAction(a, id, type, st)
       PROVE  (\A x \in ClientLinks : ClientOut(x)) /\ (\A x \in AgentLinks : AgentOut(x))
  <2>1. CASE \E p \in InProgress :
               ~checks[p].cancelled /\ st \in Decisions /\ Answer(p[1], p[2], checks[p].key, st)
    <3>1. PICK p \in InProgress :
            ~checks[p].cancelled /\ st \in Decisions /\ Answer(p[1], p[2], checks[p].key, st)
      BY <2>1
    <3> DEFINE m == [op |-> "check", id |-> p[2], key |-> checks[p].key, result |-> st]
    <3>2. m \in ClientMsgs /\ p[1] \in ClientLinks
      BY <3>1, ContextType DEF ClientMsgs
    <3>3. Send(p[1], m) /\ m.key = checks[p].key /\ m.result = st
      BY <3>1 DEF Answer
    <3>4. ~saveFailed => Agrees(checks[p].key, st)
      BY <3>1 DEF FreshContexts, Agrees
    <3> HIDE DEF m
    <3> QED BY <1>1, <3>2, <3>3, <3>4
  <2>2. \/ UNCHANGED out
        \/ DropAgent(a)
        \/ \E p \in InProgress :
             ~checks[p].cancelled /\ st \in Decisions /\ Answer(p[1], p[2], checks[p].key, st)
    BY <1>11 DEF ExecuteAgentAction
  <2> QED BY <1>4, <1>5, <2>1, <2>2
<1>12. ASSUME NEW new \in [Keys -> PolicyTypes], ChangePolicies(new)
       PROVE  (\A x \in ClientLinks : ClientOut(x)) /\ (\A x \in AgentLinks : AgentOut(x))
  BY <1>3, <1>5, <1>12 DEF ChangePolicies
<1> QED BY <1>3, <1>4, <1>5, <1>6, <1>7, <1>8, <1>9, <1>10, <1>11, <1>12
        DEF Next, CloseClient, CloseAgent, Start, Stop, svars

\* Queues to clients hold responses, queues to agents questions.
LEMMA OutTypedStep ==
  ASSUME IInv, IInv', FreshContexts, OutTyped, [Next]_svars PROVE OutTyped'
<1>1. ASSUME NEW x \in ClientLinks PROVE out'[x] \in Seq(ClientMsgs)
  <2>1. ClientOut(x) /\ out[x] \in Seq(ClientMsgs)
    BY Outputs DEF OutTyped
  <2>2. out'[x] \in Seq(Msgs)
    BY DEF IInv, TypeOK, Msgs, Links
  <2>3. CASE out'[x] = <<>>
    BY <2>3, SMTT(30)
  <2>4. CASE out[x] # <<>> /\ out'[x] = Tail(out[x])
    BY <2>1, <2>4, SMTT(30)
  <2>5. CASE \E S \in SUBSET ClientMsgs : Grows(out[x], out'[x], S)
    BY <2>1, <2>2, <2>5, GrowsType
  <2> QED BY <2>1, <2>3, <2>4, <2>5 DEF ClientOut
<1>2. ASSUME NEW x \in AgentLinks PROVE out'[x] \in Seq(AgentMsgs)
  <2>1. AgentOut(x) /\ out[x] \in Seq(AgentMsgs)
    BY Outputs DEF OutTyped
  <2>2. out'[x] \in Seq(Msgs)
    BY DEF IInv, TypeOK, Msgs, Links
  <2>3. CASE out'[x] = <<>>
    BY <2>3, SMTT(30)
  <2>4. CASE out[x] # <<>> /\ out'[x] = Tail(out[x])
    BY <2>1, <2>4, SMTT(30)
  <2>5. CASE \E S \in SUBSET AgentMsgs : Grows(out[x], out'[x], S)
    BY <2>1, <2>2, <2>5, GrowsType
  <2> QED BY <2>1, <2>3, <2>4, <2>5 DEF AgentOut
<1> QED BY <1>1, <1>2 DEF OutTyped

\* Policies change, or become those on disk, only while no client is connected,
\* or the change is not saved.
LEMMA PolicyStep ==
  ASSUME IInv, IInv', ~running => open = {}, [Next]_svars
  PROVE  \/ UNCHANGED <<dbCorrupted, policy, saveFailed>>
         \/ saveFailed'
         \/ ClientLinks \cap open' = {}
<1>1. ASSUME NEW new \in [Keys -> PolicyTypes], ChangePolicies(new)
      PROVE  saveFailed' \/ ClientLinks \cap open' = {}
  BY <1>1 DEF ChangePolicies, CancelChecksOf
<1>2. ASSUME NEW new \in [Keys -> PolicyTypes], Start(new) PROVE ClientLinks \cap open' = {}
  BY <1>2 DEF Start
<1>3. ASSUME NEW l \in ClientLinks, NEW id \in CheckIds, NEW k \in Keys,
             ExecuteCheck(l, id, k) \/ ExecuteSimpleCheck(l, id, k) \/ ExecuteCancel(l, id)
      PROVE  UNCHANGED <<dbCorrupted, policy, saveFailed>>
  BY <1>3 DEF ExecuteCheck, ExecuteSimpleCheck, ExecuteCancel
<1>4. ASSUME NEW l \in Links, Accept(l) \/ Read(l) \/ CloseClient(l) \/ CloseAgent(l)
      PROVE  UNCHANGED <<dbCorrupted, policy, saveFailed>>
  BY <1>4 DEF Accept, Read, CloseClient, CloseAgent
<1>5. ASSUME NEW a \in AgentLinks, NEW t \in AgentTypes, ExecuteAgentRegister(a, t)
      PROVE  UNCHANGED <<dbCorrupted, policy, saveFailed>>
  BY <1>5 DEF ExecuteAgentRegister
<1>6. ASSUME NEW a \in AgentLinks, NEW id \in TalkerIds, NEW type \in {"ACTION", "CANCEL"},
             NEW st \in Decisions \cup {"EXCEPTION"}, ExecuteAgentAction(a, id, type, st)
      PROVE  UNCHANGED <<dbCorrupted, policy, saveFailed>>
  BY <1>6 DEF ExecuteAgentAction
<1>7. ASSUME NEW l \in ClientLinks, NEW id \in CheckIds, ExecuteCancel(l, id)
      PROVE  UNCHANGED <<dbCorrupted, policy, saveFailed>>
  BY <1>7 DEF ExecuteCancel
<1>8. CASE Stop \/ UNCHANGED svars
  BY <1>8 DEF Stop, svars
<1> QED BY <1>1, <1>2, <1>3, <1>4, <1>5, <1>6, <1>7, <1>8 DEF Next, Links

\* Only accept opens a link.
LEMMA OpenStep ==
  ASSUME [Next]_svars, NEW l \in open', l \notin open PROVE Accept(l)
<1>1. ASSUME NEW C, CancelChecksOf(C) PROVE FALSE
  BY <1>1 DEF CancelChecksOf
<1>2. ASSUME NEW a, DropAgent(a) PROVE FALSE
  BY <1>2 DEF DropAgent
<1>3. ASSUME open' = open PROVE FALSE
  BY <1>3
<1>4. ASSUME NEW x, NEW id, NEW k, ExecuteCheck(x, id, k) \/ ExecuteSimpleCheck(x, id, k) PROVE FALSE
  BY <1>1, <1>3, <1>4 DEF ExecuteCheck, ExecuteSimpleCheck
<1>5. ASSUME NEW x, NEW id, NEW type, NEW st, ExecuteAgentAction(x, id, type, st) PROVE FALSE
  BY <1>2, <1>3, <1>5 DEF ExecuteAgentAction
<1>6. ASSUME NEW x, CloseClient(x) \/ CloseAgent(x) PROVE FALSE
  BY <1>1, <1>2, <1>6 DEF CloseClient, CloseAgent
<1>7. ASSUME NEW new, ChangePolicies(new) \/ Start(new) PROVE FALSE
  BY <1>1, <1>3, <1>7 DEF ChangePolicies, Start
<1>8. ASSUME NEW x, NEW id, ExecuteCancel(x, id) \/ ExecuteAgentRegister(x, id) \/ Read(x) PROVE FALSE
  BY <1>3, <1>8 DEF ExecuteCancel, ExecuteAgentRegister, Read
<1>9. CASE Stop \/ UNCHANGED svars
  BY <1>9 DEF Stop, svars
<1>10. ASSUME NEW x, Accept(x) PROVE x = l
  BY <1>10 DEF Accept
<1> QED BY <1>4, <1>5, <1>6, <1>7, <1>8, <1>9, <1>10 DEF Next

\* A context that is not cancelled was there before, or is a new one for a key
\* the storage does not decide.
LEMMA ContextOrigin ==
  ASSUME IInv, [Next]_svars, NEW p \in InProgress', ~checks'[p].cancelled
  PROVE  \/ p \in InProgress /\ checks'[p] = checks[p]
         \/ PolicyFor(checks'[p].key) \notin Decisions
<1> USE DEF IInv
<1>0. p \in CheckRefs /\ checks'[p] # NoCheck
  BY DEF InProgress
<1>1. CASE UNCHANGED checks
  BY <1>0, <1>1 DEF InProgress
<1>2. ASSUME NEW C \in SUBSET ClientLinks, CancelChecksOf(C)
      PROVE  p \in InProgress /\ checks'[p] = checks[p]
  <2> DEFINE X == {q \in InProgress : q[1] \in C /\ ~checks[q].cancelled}
  <2>1. checks'[p] = IF p \in X THEN [checks[p] EXCEPT !.cancelled = TRUE] ELSE checks[p]
    BY <1>0, <1>2 DEF CancelChecksOf
  <2>2. p \notin X
    <3> SUFFICES ASSUME p \in X PROVE FALSE
      OBVIOUS
    <3>1. checks[p] \in Contexts
      BY ContextType
    <3> QED BY <2>1, <3>1 DEF Contexts
  <2> QED BY <1>0, <2>1, <2>2 DEF InProgress
<1>3. ASSUME NEW a \in AgentLinks, DropAgent(a) PROVE p \in InProgress /\ checks'[p] = checks[p]
  BY <1>0, <1>3 DEF DropAgent, InProgress
<1>4. ASSUME NEW l \in ClientLinks, NEW id \in CheckIds, NEW k \in Keys, ExecuteCheck(l, id, k)
      PROVE  \/ p \in InProgress /\ checks'[p] = checks[p]
             \/ PolicyFor(checks'[p].key) \notin Decisions
  <2>1. CASE UNCHANGED checks
    BY <1>1, <2>1
  <2>2. CASE Asks(l, id, k)
    <3>1. CASE p = <<l, id>>
      <4>1. checks'[p].key = k
        BY <1>0, <2>2, <3>1, SMTT(30) DEF TypeOK, Asks
      <4> QED BY <2>2, <4>1 DEF Asks
    <3>2. CASE p # <<l, id>>
      BY <1>0, <2>2, <3>2 DEF TypeOK, InProgress, Asks
    <3> QED BY <3>1, <3>2
  <2> QED BY <1>4, <2>1, <2>2, CheckCases
<1>5. ASSUME NEW l \in ClientLinks, NEW id \in CheckIds, NEW k \in Keys, ExecuteSimpleCheck(l, id, k)
      PROVE  p \in InProgress /\ checks'[p] = checks[p]
  <2>1. UNCHANGED checks \/ CancelChecksOf({l})
    BY <1>5 DEF ExecuteSimpleCheck
  <2> QED BY <1>0, <1>2, <2>1 DEF InProgress
<1>6. ASSUME NEW l \in ClientLinks, NEW id \in CheckIds, ExecuteCancel(l, id)
      PROVE  p \in InProgress /\ checks'[p] = checks[p]
  <2>1. CASE UNCHANGED checks
    BY <1>0, <2>1 DEF InProgress
  <2>2. CASE /\ checks[<<l, id>>] # NoCheck
             /\ checks' = [checks EXCEPT ![<<l, id>>].cancelled = TRUE]
    <3>1. p # <<l, id>>
      <4> SUFFICES ASSUME p = <<l, id>> PROVE FALSE
        OBVIOUS
      <4>1. checks[p] \in Contexts /\ checks'[p] = [checks[p] EXCEPT !.cancelled = TRUE]
        BY <1>0, <2>2 DEF TypeOK
      <4> QED BY <4>1 DEF Contexts
    <3> QED BY <1>0, <2>2, <3>1 DEF TypeOK, InProgress
  <2> QED BY <1>6, <2>1, <2>2 DEF ExecuteCancel
<1>7. ASSUME NEW a \in AgentLinks, NEW id \in TalkerIds, NEW type \in {"ACTION", "CANCEL"},
             NEW st \in Decisions \cup {"EXCEPTION"}, ExecuteAgentAction(a, id, type, st)
      PROVE  p \in InProgress /\ checks'[p] = checks[p]
  <2>1. \/ UNCHANGED checks \/ DropAgent(a)
        \/ \E q \in InProgress : checks' = [checks EXCEPT ![q] = NoCheck]
    BY <1>7 DEF ExecuteAgentAction
  <2> QED BY <1>0, <1>3, <2>1 DEF InProgress, TypeOK
<1>8. ASSUME NEW new \in [Keys -> PolicyTypes], ChangePolicies(new)
      PROVE  p \in InProgress /\ checks'[p] = checks[p]
  <2>1. UNCHANGED checks \/ CancelChecksOf(open \cap ClientLinks)
    BY <1>8 DEF ChangePolicies
  <2> QED BY <1>0, <1>2, <2>1 DEF InProgress
<1>9. CASE Stop
  BY <1>0, <1>9 DEF Stop
<1> QED BY <1>1, <1>2, <1>3, <1>4, <1>5, <1>6, <1>7, <1>8, <1>9
        DEF Next, Accept, Read, CloseClient, CloseAgent, ExecuteAgentRegister, Start, svars

\* No decision that contradicts the storage is under way or asked for, unless a
\* change could not be saved.
LEMMA FreshStep ==
  ASSUME IInv, IInv', OutTyped, FreshOut, FreshContexts, ~running => open = {}, [Next]_svars
  PROVE  FreshOut' /\ FreshContexts'
<1>1. FreshContexts'
  <2> SUFFICES ASSUME ~saveFailed', NEW p \in InProgress', ~checks'[p].cancelled
               PROVE  PolicyFor(checks[p].key)' \notin Decisions
    BY DEF FreshContexts
  <2>1. CASE ClientLinks \cap open' = {}
    <3>1. p[1] \in ClientLinks
      BY DEF InProgress, CheckRefs
    <3> QED BY <2>1, <3>1 DEF IInv, OrphansCancelled
  <2>2. CASE UNCHANGED <<dbCorrupted, policy, saveFailed>>
    <3>1. PolicyFor(checks'[p].key) \notin Decisions
      BY <2>2, ContextOrigin DEF FreshContexts
    <3> QED BY <2>2, <3>1 DEF PolicyFor
  <2> QED BY <2>1, <2>2, PolicyStep
<1>2. FreshOut'
  <2> SUFFICES ASSUME ~saveFailed', NEW l \in ClientLinks \cap open', NEW i \in DOMAIN out'[l],
                      out'[l][i].op # "cancelled"
               PROVE  Agrees(out[l][i].key, out[l][i].result)'
    BY DEF FreshOut
  <2>1. UNCHANGED <<dbCorrupted, policy, saveFailed>>
    BY PolicyStep
  <2>2. SUFFICES Agrees(out'[l][i].key, out'[l][i].result)
    BY <2>1 DEF Agrees, PolicyFor
  <2>3. ASSUME NEW j \in DOMAIN out[l], l \in open, out[l][j] = out'[l][i]
        PROVE  Agrees(out'[l][i].key, out'[l][i].result)
    BY <2>1, <2>3 DEF FreshOut
  <2>4. ClientOut(l) /\ out[l] \in Seq(ClientMsgs)
    BY Outputs DEF OutTyped
  <2>5. CASE l \notin open
    \* The link was accepted in this step.
    <3>1. out'[l] = <<>>
      BY <2>5, OpenStep DEF Accept, IInv, TypeOK, Links
    <3> QED BY <3>1, SMTT(30)
  <2>6. CASE l \in open /\ out[l] # <<>> /\ out'[l] = Tail(out[l])
    <3>1. i + 1 \in DOMAIN out[l] /\ out'[l][i] = out[l][i + 1]
      BY <2>4, <2>6, SMTT(30)
    <3> QED BY <2>3, <2>6, <3>1
  <2>7. CASE l \in open /\ \E S \in SUBSET ClientMsgs :
               /\ Grows(out[l], out'[l], S)
               /\ \A m \in S : m.op # "cancelled" /\ ~saveFailed => Agrees(m.key, m.result)
    BY <2>1, <2>3, <2>7 DEF Grows
  <2> QED BY <2>4, <2>5, <2>6, <2>7, SMTT(30) DEF ClientOut
<1> QED BY <1>1, <1>2

\* Only a daemon that runs has links.
LEMMA RunningStep ==
  ASSUME ~running => open = {}, [Next]_svars PROVE ~running' => open' = {}
<1>1. CASE Stop
  BY <1>1 DEF Stop
<1>2. CASE ~Stop
  <2> SUFFICES ASSUME ~running', NEW x \in open' PROVE FALSE
    OBVIOUS
  <2>1. ~running
    <3>1. ASSUME NEW l, Accept(l) \/ Read(l) \/ CloseClient(l) \/ CloseAgent(l) PROVE ~running
      BY <3>1 DEF Accept, Read, CloseClient, CloseAgent
    <3>2. ASSUME NEW l, NEW id, NEW k, ExecuteCheck(l, id, k) \/ ExecuteSimpleCheck(l, id, k) PROVE ~running
      BY <3>2 DEF ExecuteCheck, ExecuteSimpleCheck
    <3>3. ASSUME NEW l, NEW id, ExecuteCancel(l, id) \/ ExecuteAgentRegister(l, id) PROVE ~running
      BY <3>3 DEF ExecuteCancel, ExecuteAgentRegister
    <3>4. ASSUME NEW l, NEW id, NEW type, NEW st, ExecuteAgentAction(l, id, type, st) PROVE ~running
      BY <3>4 DEF ExecuteAgentAction
    <3>5. ASSUME NEW new, ChangePolicies(new) \/ Start(new) PROVE ~running
      BY <3>5 DEF ChangePolicies, Start
    <3>6. CASE UNCHANGED svars
      BY <3>6 DEF svars
    <3> QED BY <1>2, <3>1, <3>2, <3>3, <3>4, <3>5, <3>6 DEF Next
  <2> QED BY <2>1, OpenStep DEF Accept
<1> QED BY <1>1, <1>2

-----------------------------------------------------------------------------
\* Every step of the composed system is a step of the daemon, or leaves it as
\* it is: the libraries only send requests the daemon's specification expects.
LEMMA SystemStep ==
  ASSUME IInv, Env, [SysNext]_vars PROVE [Next]_svars
<1> USE DEF Env, SysTypeOK
<1>1. ASSUME NEW c \in Clients, NEW l \in ClientLinks, Ensure(c, l) PROVE [Next]_svars
  BY <1>1 DEF Ensure, Next, Links
<1>2. ASSUME NEW c \in Clients, ProcessResponse(c) PROVE [Next]_svars
  BY <1>2 DEF ProcessResponse, Next, Links
<1>3. ASSUME NEW t \in AgentTypes, NEW a \in AgentLinks, AgentConnect(t, a) PROVE [Next]_svars
  BY <1>3 DEF AgentConnect, Next, Links
<1>4. ASSUME NEW t \in AgentTypes, AgentGetRequest(t) PROVE [Next]_svars
  BY <1>4 DEF AgentGetRequest, Next, Links
<1>5. ASSUME NEW l \in Links, Handle(l) PROVE [Next]_svars
  <2> DEFINE m == Head(in[l])
  <2>1. CASE l \in ClientLinks
    <3>1. m \in ClientRequests
      BY <1>5, <2>1, SMTT(30) DEF Handle, InTyped
    <3>2. CASE m.op = "check"
      <4>1. m.id \in CheckIds /\ m.key \in Keys /\ ExecuteCheck(l, m.id, m.key)
        BY <1>5, <3>1, <3>2 DEF Handle, ClientRequests
      <4> HIDE DEF m
      <4> QED BY <2>1, <4>1 DEF Next
    <3>3. CASE m.op = "simple"
      <4>1. m.id \in CheckIds /\ m.key \in Keys /\ ExecuteSimpleCheck(l, m.id, m.key)
        BY <1>5, <3>1, <3>3 DEF Handle, ClientRequests
      <4> HIDE DEF m
      <4> QED BY <2>1, <4>1 DEF Next
    <3>4. CASE m.op = "cancel"
      <4>1. m.id \in CheckIds /\ ExecuteCancel(l, m.id)
        BY <1>5, <3>1, <3>4 DEF Handle, ClientRequests
      <4> HIDE DEF m
      <4> QED BY <2>1, <4>1 DEF Next
    <3> QED BY <3>1, <3>2, <3>3, <3>4 DEF ClientRequests
  <2>2. CASE l \in AgentLinks
    <3>1. m \in AgentRequests /\ 1 \in DOMAIN in[l] /\ m = in[l][1]
      BY <1>5, <2>2, SMTT(30) DEF Handle, InTyped
    <3>2. CASE m.op = "register"
      <4>1. m.type \in AgentTypes /\ ExecuteAgentRegister(l, m.type)
        BY <1>5, <3>1, <3>2 DEF Handle, AgentRequests
      <4>2. ~Registered(l)
        BY <2>2, <3>1, <3>2 DEF RegisterFirst
      <4> HIDE DEF m
      <4> QED BY <2>2, <4>1, <4>2 DEF Next
    <3>3. CASE m.op = "answer"
      <4>1. m.id \in TalkerIds /\ m.type \in {"ACTION", "CANCEL"}
        BY <3>1, <3>3 DEF AgentRequests
      <4>2. \E s \in Decisions \cup {"EXCEPTION"} : ExecuteAgentAction(l, m.id, m.type, s)
        BY <1>5, <3>3 DEF Handle
      <4> HIDE DEF m
      <4> QED BY <2>2, <4>1, <4>2 DEF Next
    <3> QED BY <3>1, <3>2, <3>3 DEF AgentRequests
  <2> QED BY <2>1, <2>2 DEF Links
<1>6. ASSUME NEW l \in Links, HandleHangUp(l) PROVE [Next]_svars
  BY <1>6 DEF HandleHangUp, Next
<1>7. CASE Administrate
  BY <1>7, SystemAssumption DEF Administrate, Next
<1>8. CASE StopService \/ StartService
  BY <1>8, SystemAssumption DEF StopService, StartService, Next
<1>9. ASSUME NEW c \in Clients, NEW l \in ClientLinks, NEW k \in Keys, NEW simple \in BOOLEAN,
             CreateRequest(c, l, k, simple) PROVE [Next]_svars
  BY <1>1, <1>9 DEF CreateRequest
<1>10. ASSUME NEW c \in Clients, NEW l \in ClientLinks, NEW id \in CheckIds,
              CancelRequest(c, l, id) \/ Reconnect(c, l) PROVE [Next]_svars
  BY <1>1, <1>10 DEF CancelRequest, Reconnect
<1>11. ASSUME NEW c \in Clients, NEW l \in ClientLinks, Reconnect(c, l) PROVE [Next]_svars
  BY <1>1, <1>11 DEF Reconnect
<1>12. ASSUME NEW c \in Clients, ServiceNotAvailable(c) \/ Finish(c) PROVE [Next]_svars
  BY <1>12 DEF ServiceNotAvailable, Finish
<1>13. ASSUME NEW t \in AgentTypes, AgentLeave(t) \/ \E q \in todo[t] : AgentPutResponse(t, q)
       PROVE  [Next]_svars
  BY <1>13 DEF AgentLeave, AgentPutResponse
<1>14. CASE UNCHANGED vars
  BY <1>14 DEF vars
<1> QED BY <1>2, <1>3, <1>4, <1>5, <1>6, <1>7, <1>8, <1>9, <1>10, <1>11, <1>12, <1>13, <1>14 DEF SysNext

-----------------------------------------------------------------------------
\* What an API call works with has the right shape.
LEMMA LibraryTypes ==
  ASSUME Env, NEW c \in Clients
  PROVE  /\ Ids(c) \in SUBSET CheckIds /\ Kept(c) \in SUBSET Ids(c)
         /\ \A id \in Ids(c) : data[c][id] \in RequestData
         /\ Data(c) \in [CheckIds -> RequestData \cup {NoData}]
         /\ Used(c) \in SUBSET CheckIds
         /\ Cache(c) \in [Keys -> Decisions \cup {"MISS"}]
         /\ EmptyCache \in [Keys -> Decisions \cup {"MISS"}]
  BY SMTT(30) DEF Env, SysTypeOK, Ids, Kept, Data, Used, Cache, EmptyCache

\* prepareRequestsToSend sends each request it keeps once.
LEMMA ResentSound ==
  ASSUME Env, NEW c \in Clients
  PROVE  /\ Resent(c) \in Seq(ClientRequests)
         /\ \A i \in DOMAIN Resent(c) :
              /\ Resent(c)[i].id \in Kept(c)
              /\ Resent(c)[i] = RequestMsg(Resent(c)[i].id, data[c][Resent(c)[i].id])
         /\ \A i, j \in DOMAIN Resent(c) : Resent(c)[i].id = Resent(c)[j].id => i = j
<1> DEFINE ids == Ascending(Kept(c))
           n == Cardinality(Kept(c))
<1>1. Kept(c) \in SUBSET Nat /\ IsFiniteSet(Kept(c))
  BY LibraryTypes, SystemAssumption, LinksAssumption, FS_Subset
<1>2. ids \in [1 .. n -> Kept(c)] /\ n \in Nat /\ \A i, j \in 1 .. n : i < j => ids[i] < ids[j]
  BY <1>1, AscendingType
<1> HIDE DEF ids, n
<1>3. Resent(c) = [i \in 1 .. n |-> RequestMsg(ids[i], data[c][ids[i]])]
  BY <1>2 DEF Resent, ids
<1>4. ASSUME NEW i \in 1 .. n
      PROVE  /\ RequestMsg(ids[i], data[c][ids[i]]) \in ClientRequests
             /\ RequestMsg(ids[i], data[c][ids[i]]).id = ids[i]
  <2>1. ids[i] \in CheckIds /\ data[c][ids[i]] \in RequestData
    BY <1>2, LibraryTypes
  <2> QED BY <2>1 DEF RequestMsg, ClientRequests, RequestData
<1>5. Resent(c) \in Seq(ClientRequests) /\ DOMAIN Resent(c) = 1 .. n
  BY <1>2, <1>3, <1>4, SMTT(30)
<1>6. \A i \in 1 .. n : Resent(c)[i].id = ids[i] /\ Resent(c)[i] = RequestMsg(ids[i], data[c][ids[i]])
  BY <1>3, <1>4
<1>7. \A i, j \in 1 .. n : ids[i] = ids[j] => i = j
  <2> SUFFICES ASSUME NEW i \in 1 .. n, NEW j \in 1 .. n, ids[i] = ids[j], i # j PROVE FALSE
    OBVIOUS
  <2>1. ids[i] \in Nat /\ ids[j] \in Nat /\ (i < j \/ j < i)
    BY <1>1, <1>2, SMTT(30)
  <2> QED BY <1>2, <2>1, SMTT(30)
<1> QED BY <1>2, <1>5, <1>6, <1>7, SMTT(30)

-----------------------------------------------------------------------------
\* What a step leaves in the input of a link.
LEMMA InputsAt ==
  ASSUME NEW q, Inputs(q)
  PROVE  DOMAIN in' = Links /\ \A x \in Links : in'[x] = IF x \in open' THEN q[x] ELSE <<>>
  BY DEF Inputs

\* The input queues' messages, the empty queue included.
LEMMA InputTypes ==
  ASSUME Env
  PROVE  /\ \A l \in ClientLinks : in[l] \in Seq(ClientRequests) /\ <<>> \in Seq(ClientRequests)
         /\ \A a \in AgentLinks : in[a] \in Seq(AgentRequests) /\ <<>> \in Seq(AgentRequests)
<1>1. <<>> \in Seq(ClientRequests) /\ <<>> \in Seq(AgentRequests)
  BY SMTT(30)
<1> QED BY <1>1 DEF Env, SysTypeOK, InTyped

\* One link's input is replaced, the others keep theirs or lose it.
LEMMA InputsOne ==
  ASSUME Env, NEW l \in Links, NEW z, Inputs([in EXCEPT ![l] = z])
  PROVE  /\ DOMAIN in' = Links
         /\ in'[l] = IF l \in open' THEN z ELSE <<>>
         /\ \A x \in Links : x # l => in'[x] \in {in[x], <<>>}
  BY DEF Inputs, Env, SysTypeOK

\* The input of client links changes by requests, the input of agent links by
\* registrations and answers.
LEMMA InTypedClient ==
  ASSUME Env, NEW l \in ClientLinks, NEW z \in Seq(ClientRequests), Inputs([in EXCEPT ![l] = z])
  PROVE  InTyped' /\ \A a \in AgentLinks : in'[a] \in {in[a], <<>>}
<1>1. /\ in'[l] = IF l \in open' THEN z ELSE <<>>
      /\ \A x \in Links : x # l => in'[x] \in {in[x], <<>>}
  BY InputsOne DEF Links
<1>2. ASSUME NEW x \in ClientLinks PROVE in'[x] \in Seq(ClientRequests)
  <2>1. in'[x] = z \/ in'[x] = in[x] \/ in'[x] = <<>>
    BY <1>1 DEF Links
  <2> QED BY <2>1, InputTypes
<1>3. ASSUME NEW a \in AgentLinks PROVE in'[a] \in {in[a], <<>>}
  BY <1>1, LinksAssumption DEF Links
<1>4. ASSUME NEW a \in AgentLinks PROVE in'[a] \in Seq(AgentRequests)
  BY <1>3, InputTypes
<1> QED BY <1>2, <1>3, <1>4 DEF InTyped

\* The same after a change of one agent's input.
LEMMA InTypedAgent ==
  ASSUME Env, NEW l \in AgentLinks, NEW z \in Seq(AgentRequests), Inputs([in EXCEPT ![l] = z])
  PROVE  InTyped' /\ \A c \in ClientLinks : in'[c] \in {in[c], <<>>}
<1>1. /\ in'[l] = IF l \in open' THEN z ELSE <<>>
      /\ \A x \in Links : x # l => in'[x] \in {in[x], <<>>}
  BY InputsOne DEF Links
<1>2. ASSUME NEW x \in AgentLinks PROVE in'[x] \in Seq(AgentRequests)
  <2>1. in'[x] = z \/ in'[x] = in[x] \/ in'[x] = <<>>
    BY <1>1 DEF Links
  <2> QED BY <2>1, InputTypes
<1>3. ASSUME NEW c \in ClientLinks PROVE in'[c] \in {in[c], <<>>}
  BY <1>1, LinksAssumption DEF Links
<1>4. ASSUME NEW c \in ClientLinks PROVE in'[c] \in Seq(ClientRequests)
  BY <1>3, InputTypes
<1> QED BY <1>2, <1>3, <1>4 DEF InTyped

\* A step that only shortens or keeps inputs and registers nobody.
LEMMA InKept ==
  ASSUME Env, \A x \in Links : in'[x] \in {in[x], <<>>} PROVE InTyped'
  BY InputTypes DEF InTyped, Links

\* Closing an agent's link registers nobody.
LEMMA DropRegistered ==
  ASSUME IInv, NEW a, DropAgent(a) PROVE \A x \in AgentLinks : Registered(x)' => Registered(x)
<1> SUFFICES ASSUME NEW x \in AgentLinks, NEW u \in AgentTypes, agents'[u] = x PROVE agents[u] = x
  BY DEF Registered
<1> QED BY LinksAssumption DEF DropAgent, IInv, TypeOK

\* RegisterFirst survives a step that does not register an agent.
LEMMA RegisterFirstKept ==
  ASSUME Env, \A a \in AgentLinks : Registered(a)' => Registered(a),
         \A a \in AgentLinks : \A i \in DOMAIN in'[a] :
           in'[a][i].op = "register" => (i \in DOMAIN in[a] /\ in[a][i].op = "register") \/ (i = 1 /\ ~Registered(a))
  PROVE  RegisterFirst'
  BY DEF Env, RegisterFirst

\* The state of the client library after a call that ensures the connection.
LEMMA EnsureEnv ==
  ASSUME IInv, Env, OutTyped', ~running' => open' = {}, NEW c \in Clients, NEW l \in ClientLinks,
         Ensure(c, l), conn' = [conn EXCEPT ![c] = l], cache' = [cache EXCEPT ![c] = Cache(c)],
         NEW z \in Seq(ClientRequests), Inputs([in EXCEPT ![l] = z]),
         NEW d \in [CheckIds -> RequestData \cup {NoData}], data' = [data EXCEPT ![c] = d],
         NEW u \in SUBSET CheckIds, used' = [used EXCEPT ![c] = u],
         UNCHANGED <<hup, agConn, todo>>
  PROVE  Env'
<1>1. UNCHANGED agents /\ open \subseteq open'
  BY DEF Ensure, Accept, svars
<1>2. DOMAIN in' = Links /\ InTyped' /\ \A a \in AgentLinks : in'[a] \in {in[a], <<>>}
  BY InTypedClient, InputsOne DEF Links
<1>3. SysTypeOK'
  BY <1>1, <1>2, LibraryTypes DEF Env, SysTypeOK
<1>4. RegisterFirst'
  <2>1. \A a \in AgentLinks : Registered(a)' => Registered(a)
    BY <1>1 DEF Registered
  <2> QED BY <1>2, <2>1, RegisterFirstKept, SMTT(30)
<1>5. \A x, y \in Clients : conn'[x] # NoLink /\ conn'[x] = conn'[y] => x = y
  BY DEF Ensure, Held, Env, SysTypeOK, LinksApart
<1>6. LinksApart'
  BY <1>5 DEF Env, LinksApart
<1> QED BY <1>3, <1>4, <1>6 DEF Env

\* A check or simple check the client sends keeps the types of queues and libraries.
LEMMA CreateEnv ==
  ASSUME IInv, Env, OutTyped', ~running' => open' = {},
         NEW c \in Clients, NEW l \in ClientLinks, NEW k \in Keys, NEW simple \in BOOLEAN,
         CreateRequest(c, l, k, simple)
  PROVE  Env'
<1> DEFINE free == CheckIds \ Used(c)
           id == CHOOSE i \in free : \A j \in free : i <= j
           unused == {n \in Requests : status[n] = "none"}
           n == CHOOSE i \in unused : \A j \in unused : i <= j
           d == [req |-> n, key |-> k, simple |-> simple, cancelled |-> FALSE]
<1>1. n \in Requests
  <2>1. unused \in SUBSET Nat /\ unused # {}
    BY SystemAssumption, SMTT(30) DEF CreateRequest, Requests
  <2> QED BY <2>1, Least
<1>2. d \in RequestData
  BY <1>1 DEF RequestData
<1>3. Queue(c, l) \in Seq(ClientRequests)
  BY ResentSound, InputTypes DEF Queue
<1>4. CASE free = {}
  <2>1. /\ data' = [data EXCEPT ![c] = Data(c)] /\ used' = [used EXCEPT ![c] = Used(c)]
        /\ Inputs([in EXCEPT ![l] = Queue(c, l)])
    BY <1>4 DEF CreateRequest
  <2> QED BY <1>3, <2>1, LibraryTypes, EnsureEnv DEF CreateRequest
<1>5. CASE free # {}
  <2>1. id \in free
    <3>1. free \in SUBSET Nat
      BY SystemAssumption
    <3> QED BY <1>5, <3>1, Least
  <2> DEFINE dd == [Data(c) EXCEPT ![id] = d]
             uu == Used(c) \cup {id}
             zz == Append(Queue(c, l), RequestMsg(id, d))
  <2>2. data' = [data EXCEPT ![c] = dd] /\ used' = [used EXCEPT ![c] = uu] /\ Inputs([in EXCEPT ![l] = zz])
    BY <1>5 DEF CreateRequest
  <2> HIDE DEF id, free
  <2>3. id \in CheckIds
    BY <2>1 DEF free
  <2>4. dd \in [CheckIds -> RequestData \cup {NoData}] /\ uu \in SUBSET CheckIds
    <3> HIDE DEF d
    <3> QED BY <1>2, <2>3, LibraryTypes
  <2>5. RequestMsg(id, d) \in ClientRequests
    BY <2>3 DEF RequestMsg, ClientRequests
  <2>6. zz \in Seq(ClientRequests)
    <3> HIDE DEF d
    <3> QED BY <1>3, <2>5, SMTT(30)
  <2>7. /\ Ensure(c, l) /\ conn' = [conn EXCEPT ![c] = l] /\ cache' = [cache EXCEPT ![c] = Cache(c)]
        /\ UNCHANGED <<hup, agConn, todo>>
    BY DEF CreateRequest
  <2> HIDE DEF dd, uu, zz
  <2> QED BY <2>2, <2>4, <2>6, <2>7, EnsureEnv
<1> QED BY <1>4, <1>5

\* So does a request the client cancels.
LEMMA CancelEnv ==
  ASSUME IInv, Env, OutTyped', ~running' => open' = {},
         NEW c \in Clients, NEW l \in ClientLinks, NEW id \in CheckIds, CancelRequest(c, l, id)
  PROVE  Env'
<1>1. /\ Ensure(c, l) /\ conn' = [conn EXCEPT ![c] = l] /\ cache' = [cache EXCEPT ![c] = Cache(c)]
      /\ used' = [used EXCEPT ![c] = Used(c)] /\ UNCHANGED <<hup, agConn, todo>>
  BY DEF CancelRequest
<1>2. Queue(c, l) \in Seq(ClientRequests)
  BY ResentSound, InputTypes DEF Queue
<1>3. CASE Data(c)[id] = NoData \/ Data(c)[id].cancelled
  <2>1. data' = [data EXCEPT ![c] = Data(c)] /\ Inputs([in EXCEPT ![l] = Queue(c, l)])
    BY <1>3 DEF CancelRequest
  <2> QED BY <1>1, <1>2, <2>1, LibraryTypes, EnsureEnv
<1>4. CASE ~(Data(c)[id] = NoData \/ Data(c)[id].cancelled)
  <2> DEFINE dd == [Data(c) EXCEPT ![id].cancelled = TRUE]
             zz == Append(Queue(c, l), [op |-> "cancel", id |-> id])
  <2>1. data' = [data EXCEPT ![c] = dd] /\ Inputs([in EXCEPT ![l] = zz])
    BY <1>4 DEF CancelRequest
  <2>2. Data(c)[id] \in RequestData
    BY <1>4, LibraryTypes
  <2>3. [Data(c)[id] EXCEPT !.cancelled = TRUE] \in RequestData
    BY <2>2 DEF RequestData
  <2>4. dd \in [CheckIds -> RequestData \cup {NoData}]
    BY <2>3, LibraryTypes
  <2>5. zz \in Seq(ClientRequests)
    <3>1. [op |-> "cancel", id |-> id] \in ClientRequests
      BY DEF ClientRequests
    <3> QED BY <1>2, <3>1, SMTT(30)
  <2> HIDE DEF dd, zz
  <2> QED BY <1>1, <2>1, <2>4, <2>5, LibraryTypes, EnsureEnv
<1> QED BY <1>3, <1>4

\* So do the requests a client sends again over a new connection.
LEMMA ReconnectEnv ==
  ASSUME IInv, Env, OutTyped', ~running' => open' = {},
         NEW c \in Clients, NEW l \in ClientLinks, Reconnect(c, l)
  PROVE  Env'
<1>1. /\ Ensure(c, l) /\ conn' = [conn EXCEPT ![c] = l] /\ cache' = [cache EXCEPT ![c] = Cache(c)]
      /\ data' = [data EXCEPT ![c] = Data(c)] /\ used' = [used EXCEPT ![c] = Used(c)]
      /\ Inputs([in EXCEPT ![l] = Resent(c)]) /\ UNCHANGED <<hup, agConn, todo>>
  BY DEF Reconnect, Cache
<1> QED BY <1>1, ResentSound, LibraryTypes, EnsureEnv

-----------------------------------------------------------------------------
\* The steps of a client that need no new connection.
LEMMA ClientEnv ==
  ASSUME IInv, Env, OutTyped', ~running' => open' = {}, NEW c \in Clients,
         ServiceNotAvailable(c) \/ ProcessResponse(c) \/ Finish(c)
  PROVE  Env'
<1>1. UNCHANGED <<in, agents, open, agConn, todo>> /\ hup' \subseteq open'
  BY DEF ServiceNotAvailable, ProcessResponse, Read, Finish, svars, Env, SysTypeOK
<1>2. /\ conn' \in [Clients -> ClientLinks \cup {NoLink}]
      /\ \A x \in Clients : conn'[x] \in {conn[x], NoLink}
  BY DEF ServiceNotAvailable, ProcessResponse, Finish, Env, SysTypeOK
<1>3. /\ data' \in [Clients -> [CheckIds -> RequestData \cup {NoData}]]
      /\ used' \in [Clients -> SUBSET CheckIds]
  <2>1. CASE ProcessResponse(c)
    <3>1. /\ data' = [data EXCEPT ![c][Head(out[conn[c]]).id] = NoData]
          /\ used' = [used EXCEPT ![c] = @ \ {Head(out[conn[c]]).id}]
      BY <2>1 DEF ProcessResponse
    <3> QED BY <3>1 DEF Env, SysTypeOK
  <2>2. CASE ServiceNotAvailable(c) \/ Finish(c)
    <3>1. /\ data' = [data EXCEPT ![c] = [id \in CheckIds |-> NoData]]
          /\ used' = [used EXCEPT ![c] = {}]
      BY <2>2 DEF ServiceNotAvailable, Finish
    <3> QED BY <3>1 DEF Env, SysTypeOK
  <2> QED BY <2>1, <2>2
<1>4. cache' \in [Clients -> [Keys -> Decisions \cup {"MISS"}]]
  <2>1. CASE ProcessResponse(c)
    <3> DEFINE m == Head(out[conn[c]])
               k == data[c][m.id].key
    <3>1. UNCHANGED cache \/ (m.result \in Decisions /\ cache' = [cache EXCEPT ![c][k] = m.result])
      BY <2>1 DEF ProcessResponse
    <3> HIDE DEF m, k
    <3> DEFINE T == Decisions \cup {"MISS"}
    <3>2. cache \in [Clients -> [Keys -> T]] /\ (m.result \in Decisions => m.result \in T)
      BY DEF Env, SysTypeOK
    <3> HIDE DEF T
    <3>3. m.result \in Decisions => [cache[c] EXCEPT ![k] = m.result] \in [Keys -> T]
      BY <3>2
    <3>4. cache' \in [Clients -> [Keys -> T]]
      BY <3>1, <3>2, <3>3
    <3> QED BY <3>4 DEF T
  <2>2. CASE ServiceNotAvailable(c) \/ Finish(c)
    BY <2>2, LibraryTypes DEF ServiceNotAvailable, Finish, Env, SysTypeOK
  <2> QED BY <2>1, <2>2
<1>5. SysTypeOK'
  BY <1>1, <1>2, <1>3, <1>4 DEF Env, SysTypeOK, InTyped
<1>6. RegisterFirst'
  BY <1>1 DEF Env, RegisterFirst, Registered
<1>7. LinksApart'
  BY <1>1, <1>2 DEF Env, LinksApart
<1> QED BY <1>5, <1>6, <1>7 DEF Env

\* The steps of an agent.
LEMMA AgentConnectEnv ==
  ASSUME IInv, Env, OutTyped', ~running' => open' = {},
         NEW t \in AgentTypes, NEW a \in AgentLinks, AgentConnect(t, a)
  PROVE  Env'
<1> DEFINE z == <<[op |-> "register", type |-> t]>>
<1>1. UNCHANGED <<agents, hup, conn, data, used, cache>> /\ open' = open \cup {a} /\ ~Registered(a) /\ ~Held(a)
  BY DEF AgentConnect, Accept, Referenced
<1>2. z \in Seq(AgentRequests) /\ DOMAIN z = {1}
  BY SMTT(30) DEF AgentRequests
<1>3. Inputs([in EXCEPT ![a] = z])
  BY DEF AgentConnect
<1> HIDE DEF z
<1>4. /\ DOMAIN in' = Links /\ InTyped' /\ in'[a] = z
      /\ \A x \in AgentLinks : x # a => in'[x] \in {in[x], <<>>}
  BY <1>1, <1>2, <1>3, InTypedAgent, InputsOne DEF Links
<1>5. /\ agConn' \in [AgentTypes -> AgentLinks \cup {NoLink}]
      /\ todo' \in [AgentTypes -> SUBSET Questions]
  BY DEF AgentConnect, Env, SysTypeOK
<1>6. SysTypeOK'
  BY <1>1, <1>4, <1>5 DEF Env, SysTypeOK
<1>7. RegisterFirst'
  <2>1. \A x \in AgentLinks : Registered(x)' => Registered(x)
    BY <1>1 DEF Registered
  <2>2. ASSUME NEW x \in AgentLinks, NEW i \in DOMAIN in'[x], in'[x][i].op = "register"
        PROVE  (i \in DOMAIN in[x] /\ in[x][i].op = "register") \/ (i = 1 /\ ~Registered(x))
    <3>1. CASE x = a
      BY <1>1, <1>2, <1>4, <2>2, <3>1
    <3>2. CASE x # a
      BY <1>4, <2>2, <3>2, SMTT(30)
    <3> QED BY <3>1, <3>2
  <2> QED BY <2>1, <2>2, RegisterFirstKept
<1>8. \A u, v \in AgentTypes : agConn'[u] # NoLink /\ agConn'[u] = agConn'[v] => u = v
  BY <1>1 DEF AgentConnect, Held, Env, SysTypeOK, LinksApart
<1>9. LinksApart'
  BY <1>1, <1>8 DEF Env, LinksApart
<1> QED BY <1>6, <1>7, <1>9 DEF Env

\* So does the answer an agent gives.
LEMMA AgentPutEnv ==
  ASSUME IInv, Env, OutTyped', ~running' => open' = {},
         NEW t \in AgentTypes, NEW q \in todo[t], AgentPutResponse(t, q)
  PROVE  Env'
<1> DEFINE a == agConn[t]
           m == [op |-> "answer", id |-> q.id, type |-> q.type, key |-> q.key]
<1>1. UNCHANGED <<agents, open, hup, conn, data, used, cache, agConn>>
  BY DEF AgentPutResponse, svars
<1>2. m \in AgentRequests
  BY SMTT(30) DEF AgentRequests, Env, SysTypeOK, Questions
<1>3. todo' \in [AgentTypes -> SUBSET Questions]
  BY DEF AgentPutResponse, Env, SysTypeOK
<1>4. UNCHANGED in \/ (a \in open /\ in' = [in EXCEPT ![a] = Append(@, m)])
  BY DEF AgentPutResponse
<1>5. a \in open => a \in AgentLinks
  BY SystemAssumption, LinksAssumption DEF Env, SysTypeOK, IInv, TypeOK, Links
<1>6. m.op = "answer"
  OBVIOUS
<1> HIDE DEF a, m
<1>7. DOMAIN in' = Links /\ InTyped'
  <2>1. CASE UNCHANGED in
    BY <2>1 DEF Env, SysTypeOK, InTyped
  <2>2. CASE a \in open /\ in' = [in EXCEPT ![a] = Append(@, m)]
    <3>1. DOMAIN in' = Links /\ in'[a] = Append(in[a], m) /\ \A x \in Links : x # a => in'[x] = in[x]
      BY <1>5, <2>2 DEF Env, SysTypeOK, Links
    <3>2. in'[a] \in Seq(AgentRequests)
      BY <1>2, <1>5, <2>2, <3>1, InputTypes, SMTT(30)
    <3> QED BY <1>5, <2>2, <3>1, <3>2, InputTypes, LinksAssumption DEF InTyped, Links
  <2> QED BY <1>4, <2>1, <2>2
<1>8. SysTypeOK'
  BY <1>1, <1>3, <1>7 DEF Env, SysTypeOK
<1>9. RegisterFirst'
  <2>1. \A x \in AgentLinks : Registered(x)' => Registered(x)
    BY <1>1 DEF Registered
  <2>2. ASSUME NEW x \in AgentLinks, NEW i \in DOMAIN in'[x], in'[x][i].op = "register"
        PROVE  i \in DOMAIN in[x] /\ in[x][i].op = "register"
    <3>1. CASE in'[x] = in[x]
      BY <2>2, <3>1
    <3>2. CASE in'[x] = Append(in[x], m)
      BY <1>6, <2>2, <3>2, InputTypes, SMTT(30)
    <3> QED BY <1>4, <3>1, <3>2 DEF Env, SysTypeOK, Links
  <2> QED BY <2>1, <2>2, RegisterFirstKept
<1>10. LinksApart'
  BY <1>1 DEF Env, LinksApart
<1> QED BY <1>8, <1>9, <1>10 DEF Env

\* So do the questions an agent reads, and an agent that ends.
LEMMA AgentEnv ==
  ASSUME IInv, Env, OutTyped', ~running' => open' = {},
         NEW t \in AgentTypes, AgentGetRequest(t) \/ AgentLeave(t)
  PROVE  Env'
<1>1. UNCHANGED <<in, agents, open, conn, data, used, cache>> /\ hup' \subseteq open'
  BY DEF AgentGetRequest, AgentLeave, AgentHangUp, Read, svars, Env, SysTypeOK
<1>2. /\ agConn' \in [AgentTypes -> AgentLinks \cup {NoLink}]
      /\ \A u \in AgentTypes : agConn'[u] \in {agConn[u], NoLink}
  BY DEF AgentGetRequest, AgentLeave, AgentHangUp, Env, SysTypeOK
<1>3. todo' \in [AgentTypes -> SUBSET Questions]
  <2> DEFINE m == Head(out[agConn[t]])
  <2>1. CASE UNCHANGED todo \/ todo' = [todo EXCEPT ![t] = {}]
    BY <2>1 DEF Env, SysTypeOK
  <2>2. CASE /\ agConn[t] # NoLink /\ out[agConn[t]] # <<>> /\ m.op = "ACTION"
             /\ todo' = [todo EXCEPT ![t] = @ \cup {[id |-> m.id, key |-> m.key, type |-> "ACTION"]}]
    <3>1. m \in AgentMsgs
      BY <2>2, SMTT(30) DEF Env, SysTypeOK, OutTyped
    <3>2. [id |-> m.id, key |-> m.key, type |-> "ACTION"] \in Questions
      BY <2>2, <3>1 DEF AgentMsgs, Questions
    <3> HIDE DEF m
    <3> QED BY <2>2, <3>2 DEF Env, SysTypeOK
  <2>3. CASE todo' = [todo EXCEPT ![t] =
                        {[q EXCEPT !.type = IF q.id = m.id THEN "CANCEL" ELSE @] : q \in @}]
    <3>1. \A q \in todo[t] : [q EXCEPT !.type = IF q.id = m.id THEN "CANCEL" ELSE @] \in Questions
      BY SMTT(30) DEF Env, SysTypeOK, Questions
    <3> HIDE DEF m
    <3> QED BY <2>3, <3>1, SMTT(30) DEF Env, SysTypeOK
  <2> QED BY <2>1, <2>2, <2>3 DEF AgentGetRequest, AgentLeave, AgentHangUp
<1>4. SysTypeOK'
  BY <1>1, <1>2, <1>3 DEF Env, SysTypeOK, InTyped
<1>5. RegisterFirst'
  BY <1>1 DEF Env, RegisterFirst, Registered
<1>6. LinksApart'
  BY <1>1, <1>2 DEF Env, LinksApart
<1> QED BY <1>4, <1>5, <1>6 DEF Env

-----------------------------------------------------------------------------
\* A step of the daemon: the libraries do not move, and the daemon may read one
\* request.
LEMMA DaemonEnv ==
  ASSUME IInv, Env, OutTyped', ~running' => open' = {},
         \/ \E l \in Links : Handle(l) \/ HandleHangUp(l)
         \/ Administrate \/ StopService \/ StartService
  PROVE  Env'
<1>1. UNCHANGED <<conn, data, used, cache, agConn, todo>>
  BY DEF Handle, HandleHangUp, Administrate, StopService, StartService, pvars
<1>2. ASSUME DOMAIN in' = Links, InTyped', RegisterFirst', hup' \subseteq open' PROVE Env'
  BY <1>1, <1>2 DEF Env, SysTypeOK, LinksApart
<1>3. ASSUME DOMAIN in' = Links, \A x \in Links : in'[x] \in {in[x], <<>>}, hup' \subseteq open',
             \A x \in AgentLinks : Registered(x)' => Registered(x)
      PROVE  Env'
  <2>1. RegisterFirst'
    BY <1>3, RegisterFirstKept, SMTT(30) DEF Links
  <2> QED BY <1>2, <1>3, <2>1, InKept
<1>4. ASSUME Inputs(in) PROVE DOMAIN in' = Links /\ \A x \in Links : in'[x] \in {in[x], <<>>}
  BY <1>4 DEF Inputs
<1>5. ASSUME UNCHANGED agents PROVE \A x \in AgentLinks : Registered(x)' => Registered(x)
  BY <1>5 DEF Registered
<1>6. ASSUME NEW l \in Links, Handle(l) PROVE Env'
  <2>1. /\ hup' \subseteq open' /\ DOMAIN in' = Links
        /\ in'[l] \in {Tail(in[l]), <<>>} /\ in[l] # <<>>
        /\ \A x \in Links : x # l => in'[x] \in {in[x], <<>>}
    <3>1. Inputs([in EXCEPT ![l] = Tail(@)]) /\ hup' = hup \cap open' /\ in[l] # <<>>
      BY <1>6 DEF Handle
    <3>2. Inputs([in EXCEPT ![l] = Tail(in[l])])
      BY <3>1 DEF Env, SysTypeOK
    <3> QED BY <3>1, <3>2, InputsOne
  <2>2. CASE l \in ClientLinks
    <3>1. Tail(in[l]) \in Seq(ClientRequests) /\ Head(in[l]) \in ClientRequests
      BY <2>1, <2>2, InputTypes, SMTT(30)
    <3>2. InTyped'
      BY <2>1, <2>2, <3>1, InputTypes, LinksAssumption DEF InTyped, Links
    <3>3. Head(in[l]).op \in {"check", "simple", "cancel"}
      BY <3>1 DEF ClientRequests
    <3>4. UNCHANGED agents
      BY <1>6, <3>3 DEF Handle, ExecuteCheck, ExecuteSimpleCheck, ExecuteCancel
    <3>5. RegisterFirst'
      BY <1>5, <2>1, <2>2, <3>4, LinksAssumption, RegisterFirstKept, SMTT(30) DEF Links
    <3> QED BY <1>2, <2>1, <3>2, <3>5
  <2>3. CASE l \in AgentLinks
    <3>1. /\ Tail(in[l]) \in Seq(AgentRequests) /\ Head(in[l]) \in AgentRequests
          /\ \A i \in DOMAIN Tail(in[l]) : i # 0 /\ i + 1 # 1 /\ i + 1 \in DOMAIN in[l] /\ Tail(in[l])[i] = in[l][i + 1]
      BY <2>1, <2>3, InputTypes, SMTT(30)
    <3>2. InTyped'
      BY <2>1, <2>3, <3>1, InputTypes, LinksAssumption DEF InTyped, Links
    <3>3. \A i \in DOMAIN in'[l] : in'[l][i].op # "register"
      BY <2>1, <2>3, <3>1, SMTT(30) DEF Env, RegisterFirst
    <3>4. \A x \in AgentLinks : x # l /\ Registered(x)' => Registered(x)
      <4>1. CASE \E t \in AgentTypes : ExecuteAgentRegister(l, t)
        BY <4>1 DEF ExecuteAgentRegister, Registered, IInv, TypeOK
      <4>2. CASE \E id, type, st : ExecuteAgentAction(l, id, type, st)
        <5>1. UNCHANGED agents \/ DropAgent(l)
          BY <4>2 DEF ExecuteAgentAction
        <5> QED BY <1>5, <5>1, DropRegistered
      <4>3. Head(in[l]).op \in {"register", "answer"} /\ (Head(in[l]).op = "register" => Head(in[l]).type \in AgentTypes)
        BY <3>1 DEF AgentRequests
      <4> QED BY <1>6, <4>1, <4>2, <4>3 DEF Handle
    <3>5. RegisterFirst'
      <4> SUFFICES ASSUME NEW x \in AgentLinks, NEW i \in DOMAIN in'[x], in'[x][i].op = "register"
                   PROVE  i = 1 /\ ~Registered(x)'
        BY DEF RegisterFirst
      <4>1. x # l
        BY <3>3
      <4>2. in'[x] = in[x]
        BY <2>1, <4>1, SMTT(30) DEF Links
      <4> QED BY <3>4, <4>1, <4>2 DEF Env, RegisterFirst
    <3> QED BY <1>2, <2>1, <3>2, <3>5
  <2> QED BY <2>2, <2>3 DEF Links
<1>7. ASSUME NEW l \in Links, HandleHangUp(l) PROVE Env'
  <2>1. \A x \in AgentLinks : Registered(x)' => Registered(x)
    BY <1>5, <1>7, DropRegistered DEF HandleHangUp, CloseClient, CloseAgent
  <2>2. hup' \subseteq open'
    <3>1. open' = open \ {l} /\ hup' = hup \ {l}
      BY <1>7 DEF HandleHangUp, CloseClient, CloseAgent, CancelChecksOf, DropAgent
    <3> QED BY <3>1 DEF Env, SysTypeOK
  <2> QED BY <1>3, <1>4, <1>7, <2>1, <2>2 DEF HandleHangUp
<1>8. CASE Administrate
  BY <1>3, <1>4, <1>5, <1>8 DEF Administrate, ChangePolicies
<1>9. CASE StopService
  <2>1. \A x \in AgentLinks : ~Registered(x)'
    BY <1>9, LinksAssumption DEF StopService, Stop, Registered
  <2> QED BY <1>3, <1>4, <1>9, <2>1 DEF StopService
<1>10. CASE StartService
  <2>1. UNCHANGED <<in, hup, open, agents>>
    BY <1>10 DEF StartService, Start, pvars
  <2> QED BY <1>3, <1>5, <2>1 DEF Env, SysTypeOK
<1> QED BY <1>6, <1>7, <1>8, <1>9, <1>10

\* Env is preserved by every step.
LEMMA EnvStep ==
  ASSUME IInv, IInv', Env, FreshContexts, [SysNext]_vars PROVE Env'
<1>1. OutTyped' /\ (~running' => open' = {})
  BY SystemStep, OutTypedStep, RunningStep DEF Env, SysTypeOK, LinksApart
<1>2. CASE UNCHANGED vars
  BY <1>2 DEF vars, svars, pvars, Env, SysTypeOK, InTyped, OutTyped, RegisterFirst, Registered, LinksApart
<1> QED BY <1>1, <1>2, CreateEnv, CancelEnv, ReconnectEnv, ClientEnv, AgentConnectEnv, AgentPutEnv,
           AgentEnv, DaemonEnv DEF SysNext

-----------------------------------------------------------------------------
\* What the refinement needs, besides IInv, in every state.
RefInv == IInv /\ Env /\ FreshOut /\ FreshContexts

\* The invariant of the refinement holds initially.
LEMMA RefInit == SysInit => RefInv
<1> SUFFICES ASSUME SysInit PROVE RefInv
  OBVIOUS
<1>1. IInv
  BY InitIInv DEF SysInit
<1>2. \A S : <<>> \in Seq(S)
  BY SMTT(30)
<1>3. InTyped /\ OutTyped
  BY <1>2 DEF SysInit, Init, InTyped, OutTyped, Links
<1>4. SysTypeOK
  BY <1>3 DEF SysInit, SysTypeOK, EmptyCache
<1>5. RegisterFirst
  BY SMTT(30) DEF SysInit, RegisterFirst, Links
<1>6. LinksApart
  BY DEF SysInit, Init, LinksApart
<1>7. FreshOut /\ FreshContexts
  BY DEF SysInit, Init, FreshOut, FreshContexts, InProgress
<1> QED BY <1>1, <1>4, <1>5, <1>6, <1>7 DEF RefInv, Env

\* Every step of the system keeps it, and is one of the service's steps or none.
LEMMA RefStep == RefInv /\ [SysNext]_vars => RefInv' /\ [Next]_svars
<1> SUFFICES ASSUME RefInv, [SysNext]_vars PROVE RefInv' /\ [Next]_svars
  OBVIOUS
<1> USE DEF RefInv
<1>1. [Next]_svars
  BY SystemStep
<1>2. IInv'
  BY <1>1, NextIInv
<1>3. Env'
  BY <1>2, EnvStep
<1>4. FreshOut' /\ FreshContexts'
  BY <1>1, <1>2, FreshStep DEF Env, SysTypeOK, LinksApart
<1> QED BY <1>1, <1>2, <1>3, <1>4

\* The clients, the agents and the daemon together behave as the daemon's own
\* specification says: the two libraries only send requests it expects, so what
\* is proved of the daemon under arbitrary requests holds with them.
THEOREM SystemImplementsService == SysSpec => ServiceSpec
<1>1. SysInit => RefInv /\ Init
  BY RefInit DEF SysInit
<1>2. RefInv /\ [SysNext]_vars => RefInv' /\ [Next]_svars
  BY RefStep
<1> QED BY <1>1, <1>2, PTL DEF SysSpec, ServiceSpec, Spec

\* In the composed system, too, talkers and contexts correspond one to one,
\* every talker leads to a registered agent, and orphans are cancelled.
THEOREM SystemContextsSound == SysSpec => []ContextsSound
<1>1. SysSpec => Spec
  BY SystemImplementsService DEF ServiceSpec
<1> QED BY <1>1, ServiceContextsSound, PTL

=============================================================================
