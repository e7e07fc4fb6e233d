---------------------------- MODULE AgentLibrary ----------------------------
(***************************************************************************)
(* libcynara-agent: the thread of an agent that takes requests and sends   *)
(* responses, a second thread that interrupts its waiting, and the daemon  *)
(* at the other end of the connection.                                     *)
(***************************************************************************)
EXTENDS LibrarySocket, FiniteSets

CONSTANTS
  MaxRequests,   \* bound: requests the daemon sends to the agent
  MaxLosses,     \* bound: connections the daemon closes
  MaxCancels     \* bound: calls of cynara_agent_cancel_waiting

VARIABLES
  agent,      \* the main thread: where it is and what its last call returned
  notified,   \* the counter of m_notify is positive
  open,       \* requests handed to the program and not yet answered
  handed,     \* requests handed to the program, in order
  cancels,    \* calls of cancelWaiting so far
  peer        \* the daemon: registered or refused the agent, requests sent over
              \* this connection, all requests so far, answers, connections closed

agentOwn  == <<agent, notified, open, handed, cancels, peer>>
agentVars == <<socketVars, agentOwn>>

FreshPeer(p) == [p EXCEPT !.state = "unknown", !.sent = <<>>]

AgentInit ==
    /\ SocketInit
    /\ agent = [at |-> "idle", ret |-> "none"]
    /\ notified = FALSE
    /\ open = {} /\ handed = <<>> /\ cancels = 0
    /\ peer = [state |-> "unknown", sent |-> <<>>, requests |-> 0, answers |-> {}, losses |-> 0]

AgentGoto(at)     == agent' = [agent EXCEPT !.at = at]
AgentReturns(ret) == agent' = [at |-> "idle", ret |-> ret]

(***************************************************************************)
(* cynara_agent_get_request.                                               *)
(***************************************************************************)
\* The header asks the agent not to call again after it was denied.
GetRequest ==
    /\ agent.at = "idle" /\ agent.ret # "ACCESS_DENIED"
    /\ AgentGoto("ensure")
    /\ UNCHANGED <<socketVars, notified, open, handed, cancels, peer>>

\* ensureConnection and AgentSocketClient::connect: a new connection clears the
\* queues and must be registered.
EnsureAgentConnection ==
    /\ agent.at = "ensure"
    /\ \/ /\ IsConnected
          /\ AgentGoto("buffered")
          /\ UNCHANGED <<socketVars, peer>>
       \/ /\ ~IsConnected /\ listening
          /\ link' = FreshLink /\ readQueue' = <<>>
          /\ UNCHANGED listening
          /\ peer' = FreshPeer(peer)
          /\ AgentGoto("register")
       \/ /\ ~IsConnected /\ ConnectFails
          /\ \E ret \in {"SERVICE_NOT_AVAILABLE", "UNKNOWN_ERROR"} : AgentReturns(ret)
          /\ UNCHANGED peer
    /\ UNCHANGED <<notified, open, handed, cancels>>

\* registerInCynara: send, then wait for the answer.
Register ==
    /\ agent.at = "register"
    /\ \/ SendToServer([type |-> "register", id |-> 0]) /\ AgentGoto("registering")
       \/ SendLost /\ AgentReturns("SERVICE_NOT_AVAILABLE") /\ UNCHANGED socketVars
    /\ UNCHANGED <<notified, open, handed, cancels, peer>>

\* receiveResponseFromServer: nothing is in the queue of a new connection.
Registered ==
    /\ agent.at = "registering"
    /\ \/ /\ ReceiveTrue /\ TakeResponse
          /\ CASE Response.type = "done" -> AgentGoto("buffered")
               [] Response.type = "rejected" -> AgentReturns("ACCESS_DENIED")
               [] OTHER -> AgentReturns("UNKNOWN_ERROR")
       \/ EndOfStream /\ AgentReturns("SERVICE_NOT_AVAILABLE")
    /\ UNCHANGED <<notified, open, handed, cancels, peer>>

\* The program gets one request; what is not a request is an error.
HandOver(r) ==
    IF r.type # "request" THEN AgentReturns("UNKNOWN_ERROR") /\ UNCHANGED <<open, handed>>
    ELSE /\ AgentReturns("SUCCESS")
         /\ open' = open \union {r.id}
         /\ handed' = Append(handed, r.id)

\* Mutant: the queue is not looked at.
BufferedResponseSkipped ==
    /\ agent.at = "buffered"
    /\ AgentGoto("waiting")
    /\ UNCHANGED <<socketVars, notified, open, handed, cancels, peer>>
\* getBufferedResponse: a request that arrived together with an earlier one.
BufferedResponse ==
    /\ agent.at = "buffered"
    /\ IF readQueue = <<>>
       THEN AgentGoto("waiting") /\ UNCHANGED <<readQueue, open, handed>>
       ELSE /\ HandOver(Head(readQueue))
            /\ readQueue' = Tail(readQueue)
    /\ UNCHANGED <<listening, link, notified, cancels, peer>>

\* waitForEvent: the notification wins when there is data, too.
WaitForEvent ==
    /\ agent.at = "waiting"
    /\ \/ notified /\ notified' = FALSE /\ AgentReturns("INTERRUPTED")
       \/ ~notified /\ (ReceiveTrue \/ ReceiveFalse) /\ AgentGoto("receiving") /\ UNCHANGED notified
    /\ UNCHANGED <<socketVars, open, handed, cancels, peer>>

ReceiveRequest ==
    /\ agent.at = "receiving"
    /\ \/ ReceiveTrue /\ TakeResponse /\ HandOver(Response)
       \/ /\ EndOfStream /\ AgentReturns("SERVICE_NOT_AVAILABLE")
          /\ UNCHANGED <<open, handed>>
    /\ UNCHANGED <<notified, cancels, peer>>

(***************************************************************************)
(* cynara_agent_put_response and cynara_agent_cancel_waiting.              *)
(***************************************************************************)
PutResponse(id) ==
    /\ agent.at = "idle" /\ agent.ret # "ACCESS_DENIED"
    /\ id \in open
    /\ open' = open \ {id}
    /\ \/ SendToServer([type |-> "answer", id |-> id]) /\ AgentReturns("SUCCESS")
       \/ SendLost /\ AgentReturns("SERVICE_NOT_AVAILABLE") /\ UNCHANGED socketVars
    /\ UNCHANGED <<notified, handed, cancels, peer>>

\* Called by the other thread while getRequest runs.
CancelWaiting ==
    /\ agent.at # "idle" /\ cancels < MaxCancels
    /\ cancels' = cancels + 1
    /\ notified' = TRUE
    /\ UNCHANGED <<socketVars, agent, open, handed, peer>>

(***************************************************************************)
(* The daemon.                                                             *)
(***************************************************************************)
Answer(m) == link' = [link EXCEPT !.reqs = Tail(@), !.resps = @ \o m]

ServeAgent ==
    /\ IsConnected /\ link.reqs # <<>>
    /\ \/ /\ Head(link.reqs).type = "register"
          /\ \E state \in {"done", "rejected"} :
                 /\ peer' = [peer EXCEPT !.state = state]
                 /\ Answer(<<[type |-> state, id |-> 0]>>)
       \/ /\ Head(link.reqs).type = "answer"
          /\ peer' = [peer EXCEPT !.answers = @ \union {Head(link.reqs).id}]
          /\ Answer(<<>>)
    /\ UNCHANGED <<listening, readQueue, agent, notified, open, handed, cancels>>

\* A plugin asks the agent.
AskAgent ==
    /\ IsConnected /\ peer.state = "done" /\ peer.requests < MaxRequests
    /\ peer' = [peer EXCEPT !.requests = @ + 1, !.sent = Append(@, peer.requests + 1)]
    /\ link' = [link EXCEPT !.resps = Append(@, [type |-> "request", id |-> peer.requests + 1])]
    /\ UNCHANGED <<listening, readQueue, agent, notified, open, handed, cancels>>

LoseAgent ==
    /\ peer.losses < MaxLosses /\ link.open /\ ~link.closed
    /\ peer' = [peer EXCEPT !.losses = @ + 1, !.state = "unknown"]
    /\ link' = HangUp(link)
    /\ listening' \in BOOLEAN
    /\ UNCHANGED <<readQueue, agent, notified, open, handed, cancels>>

ListenAgain ==
    /\ ~listening /\ listening' = TRUE
    /\ UNCHANGED <<link, readQueue, agent, notified, open, handed, cancels, peer>>

AgentStep == EnsureAgentConnection \/ Register \/ Registered \/ BufferedResponse
               \/ WaitForEvent \/ ReceiveRequest

AgentNext ==
    \/ GetRequest \/ AgentStep
    \/ \E id \in 1 .. MaxRequests : PutResponse(id)
    \/ CancelWaiting
    \/ ServeAgent \/ AskAgent \/ LoseAgent \/ ListenAgain

AgentSpec == AgentInit /\ [][AgentNext]_agentVars
                /\ WF_agentVars(AgentStep) /\ WF_agentVars(GetRequest)
                /\ WF_agentVars(ServeAgent) /\ WF_agentVars(ListenAgain)

(***************************************************************************)
(* Properties.                                                             *)
(***************************************************************************)

\* cancelWaiting makes a getRequest that waits return, at the latest with the
\* next call.
CancelReturns == []<>(~notified \/ agent.at = "idle")

\* A request that the daemon sent is handed to the program or its connection is
\* lost: none is left lying in the queue while the library waits for another.
Fetched(id)    == \E i \in DOMAIN handed : handed[i] = id
RequestFetched ==
    \A n \in 1 .. MaxRequests :
        []<>(n \in DOMAIN peer.sent /\ IsConnected => Fetched(peer.sent[n]))
=============================================================================
