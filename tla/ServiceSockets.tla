--------------------------- MODULE ServiceSockets ---------------------------
(***************************************************************************)
(* The daemon's SocketManager: one thread that waits in select, walks the  *)
(* ready descriptors in ascending order, accepts, reads, cuts the stream   *)
(* of bytes into request frames, executes them, and writes the answers     *)
(* that have queued up.  Descriptors are numbers that the kernel reuses,   *)
(* and the ready sets are a snapshot: while they are walked a descriptor   *)
(* may be closed or come to stand for another connection.                  *)
(*                                                                         *)
(* A byte of a request stream is its position in the stream; a frame has   *)
(* FrameLength bytes, of which the first HeaderLength are the header.  A   *)
(* byte of an answer is <<number of the request, index>>.  Requests are    *)
(* reduced to what they do to sockets: a client's check is answered at     *)
(* once or when an agent has answered or is gone, an agent registers or    *)
(* answers, and an administrator's request closes the sockets of all       *)
(* clients if it changes policies (Logic::onPoliciesChanged).  A handler   *)
(* may throw, which closes the connection the request came from.  Left out *)
(* are the question sent to an agent, which is queued as an answer to a    *)
(* client is, the monitor's listening socket, which works as the agents'   *)
(* one, and the signal that ends the loop.                                 *)
(***************************************************************************)
EXTENDS Integers, SequencesExt

CONSTANTS
    ClientConns,   \* connections to the client socket
    AdminConns,    \* connections to the admin socket
    AgentConns,    \* connections to the agent socket
    OddConns,      \* connections that may send a request of an unknown code
    Leavers,       \* connections whose other end may hang up
    Slow,          \* connections whose bytes may come and go one by one
    MaxFd,         \* the highest descriptor the process may have
    HeaderLength,  \* bytes of a frame header
    FrameLength,   \* bytes of a request frame
    AnswerLength,  \* bytes of an answer
    MaxFrames,     \* bound on the requests of each connection
    Rosters,       \* sets of connections that come to the daemon together
    NoConn         \* a descriptor without a connection

Conns == ClientConns \cup AdminConns \cup AgentConns

ASSUME SocketsAssumption ==
    /\ IsFiniteSet(Conns) /\ NoConn \notin Conns
    /\ ClientConns \cap (AdminConns \cup AgentConns) = {}
    /\ AdminConns \cap AgentConns = {} /\ OddConns \cup Leavers \cup Slow \subseteq Conns
    /\ HeaderLength \in Nat \ {0} /\ FrameLength \in Nat /\ FrameLength > HeaderLength
    /\ AnswerLength \in Nat \ {0} /\ MaxFrames \in [Conns -> Nat]
    /\ MaxFd \in Nat /\ MaxFd >= 3 /\ Rosters \subseteq SUBSET Conns

VARIABLES
    fds,       \* SocketManager::m_fds
    readSet,   \* SocketManager::m_readSet
    writeSet,  \* SocketManager::m_writeSet
    walking,   \* a pass over the ready descriptors is under way
    ready,     \* what is left of the sets select returned
    current,   \* descriptor whose requests are being executed, or 0
    waiting,   \* contexts of checks: <<connection, request, agent it waits for>>
    conn,      \* kernel: the connection behind each descriptor
    stage,     \* kernel: "new", "queued", "open" or "closed" by the daemon
    peer,      \* kernel: whether the other end is open
    sent,      \* kernel: bytes the other end has sent
    taken,     \* kernel: bytes the daemon has read
    got,       \* the bytes written to the other end
    executed,  \* auxiliary: requests executed, per connection
    answered   \* auxiliary: requests answered, per connection, in order

daemon == <<fds, readSet, writeSet, walking, ready, current, waiting>>
kernel == <<conn, stage, peer, sent, taken, got>>
vars == <<daemon, kernel, executed, answered>>
-----------------------------------------------------------------------------
(* Descriptors *)

\* Created first, the listening sockets have the lowest descriptors.
ClientSocket == 1
AdminSocket == 2
AgentSocket == 3
Listening == {ClientSocket, AdminSocket, AgentSocket}
Fds == 1 .. MaxFd

ConnsOf(fd) == CASE fd = ClientSocket -> ClientConns
                 [] fd = AdminSocket -> AdminConns
                 [] fd = AgentSocket -> AgentConns

\* A descriptor that is not used; the protocol's frame header goes with it.
NoDescriptor == [used |-> FALSE, client |-> FALSE, readQueue |-> <<>>, header |-> 0,
                 writeQueue |-> <<>>, writeBuffer |-> <<>>]

CreateDescriptor(client) == [NoDescriptor EXCEPT !.used = TRUE, !.client = client]

HasDataToWrite(fd) == fds[fd].used /\ (fds[fd].writeQueue # <<>> \/ fds[fd].writeBuffer # <<>>)
-----------------------------------------------------------------------------
(* Frames *)

FrameOf(byte) == (byte - 1) \div FrameLength + 1
StartsFrame(byte) == (byte - 1) % FrameLength = 0
AnswerBytes(n) == [i \in 1 .. AnswerLength |-> <<n, i>>]

\* deserializeHeader: the header is consumed once it is all there.
WithHeader(d) ==
    IF d.header # 0 \/ Len(d.readQueue) < HeaderLength THEN d
    ELSE [d EXCEPT !.header = FrameOf(d.readQueue[1]),
                   !.readQueue = SubSeq(@, HeaderLength + 1, Len(@))]

BadSignature(d) ==
    d.header = 0 /\ Len(d.readQueue) >= HeaderLength /\ ~StartsFrame(d.readQueue[1])

FrameComplete(d) ==
    WithHeader(d).header # 0 /\ Len(WithHeader(d).readQueue) >= FrameLength - HeaderLength

\* The header has no signature, or the operation code is unknown.
InvalidRequest(d, c) == BadSignature(d) \/ (FrameComplete(d) /\ c \in OddConns)

\* The frame's body is consumed and the header forgotten.
ExtractRequest(d) ==
    [WithHeader(d) EXCEPT !.header = 0,
                          !.readQueue = SubSeq(@, FrameLength - HeaderLength + 1, Len(@))]
-----------------------------------------------------------------------------
(* Answers.  W is a set of contexts, or of pairs of a connection and a     *)
(* request; an answer goes to the queue of the connection the request came  *)
(* from, if that still exists, and to the oldest request first.             *)

Requests(c, W) == SetToSortSeq({w[2] : w \in {v \in W : v[1] = c}}, <)

Bytes(requests) == FlattenSeq([i \in DOMAIN requests |-> AnswerBytes(requests[i])])

Answered(ds, W) ==
    [fd \in Fds |-> IF conn[fd] = NoConn THEN ds[fd]
                    ELSE [ds[fd] EXCEPT !.writeQueue = @ \o Bytes(Requests(conn[fd], W))]]

Record(W) == answered' = [c \in Conns |-> answered[c] \o Requests(c, W)]
-----------------------------------------------------------------------------
(* closeSocket.  contextClosed makes the logic forget the checks of the     *)
(* connection and, when it is an agent's, deny those that wait for it.      *)

Closed(ds, F) == [fd \in Fds |-> IF fd \in F THEN NoDescriptor ELSE ds[fd]]

Unselect(F) == readSet' = readSet \ F /\ writeSet' = writeSet \ F

ContextsClosed(gone) == waiting' = {w \in waiting : w[1] \notin gone /\ w[3] \notin gone}

CloseSockets(F) ==
    LET gone == {conn[fd] : fd \in F} \ {NoConn}
    IN  /\ Unselect(F)
        /\ conn' = [fd \in Fds |-> IF fd \in F THEN NoConn ELSE conn[fd]]
        /\ stage' = [c \in Conns |-> IF c \in gone THEN "closed" ELSE stage[c]]
        /\ ContextsClosed(gone)

CloseSocket(fd) ==
    LET denied == {w \in waiting : w[3] = conn[fd]}
    IN  /\ fds' = Closed(Answered(fds, denied), {fd})
        /\ Record(denied)
        /\ CloseSockets({fd})

\* Mutant: whether it is a client is not asked.
ConnectedFds == {fd \in Fds : fds[fd].used /\ fd \notin Listening}

\* Those that disconnectAllClients closes.
ClientFds == {fd \in Fds : fds[fd].used /\ fds[fd].client /\ fd \notin Listening}
-----------------------------------------------------------------------------
(* The main loop *)

Init ==
    /\ fds = [fd \in Fds |-> IF fd \in Listening
                             THEN CreateDescriptor(fd = ClientSocket) ELSE NoDescriptor]
    /\ readSet = Listening /\ writeSet = {}
    /\ walking = FALSE /\ ready = [read |-> {}, write |-> {}]
    /\ current = 0 /\ waiting = {}
    /\ conn = [fd \in Fds |-> NoConn]
    /\ \E R \in Rosters : stage = [c \in Conns |-> IF c \in R THEN "new" ELSE "closed"]
    /\ peer = [c \in Conns |-> TRUE]
    /\ sent = [c \in Conns |-> 0] /\ taken = [c \in Conns |-> 0]
    /\ got = [c \in Conns |-> <<>>]
    /\ executed = [c \in Conns |-> 0] /\ answered = [c \in Conns |-> <<>>]

Readable(fd) ==
    IF fd \in Listening THEN \E c \in ConnsOf(fd) : stage[c] = "queued"
    ELSE conn[fd] # NoConn /\ (taken[conn[fd]] < sent[conn[fd]] \/ ~peer[conn[fd]])

\* select waits until a descriptor is ready and returns all that are.
Select ==
    LET found == [read |-> {fd \in readSet : Readable(fd)}, write |-> writeSet]
    IN  /\ ~walking /\ found.read \cup found.write # {}
        /\ walking' = TRUE /\ ready' = found
        /\ UNCHANGED <<fds, readSet, writeSet, current, waiting, kernel, executed, answered>>

\* The ready descriptors are visited in ascending order, reading first.
Turn == Min(ready.read \cup ready.write)
ReadTurn(fd) ==
    /\ walking /\ current = 0 /\ fd \in ready.read /\ fd = Turn
    /\ ready' = [ready EXCEPT !.read = @ \ {fd}]
WriteTurn(fd) ==
    /\ walking /\ current = 0 /\ fd \in ready.write \ ready.read /\ fd = Turn
    /\ ready' = [ready EXCEPT !.write = @ \ {fd}]

\* The kernel gives a new connection the lowest descriptor that is free.
FreeFds == {fd \in Fds \ Listening : conn[fd] = NoConn}

ReadyForAccept(fd) ==
    /\ fd \in Listening /\ ReadTurn(fd)
    /\ \/ /\ FreeFds # {}
          /\ \E c \in ConnsOf(fd) :
               /\ stage[c] = "queued"
               /\ stage' = [stage EXCEPT ![c] = "open"]
               /\ conn' = [conn EXCEPT ![Min(FreeFds)] = c]
          /\ fds' = [fds EXCEPT ![Min(FreeFds)] = CreateDescriptor(fds[fd].client)]
          /\ readSet' = readSet \cup {Min(FreeFds)}
       \/ /\ FreeFds = {}
          /\ UNCHANGED <<fds, readSet, conn, stage>>
    /\ UNCHANGED <<writeSet, walking, current, waiting, peer, sent, taken, got, executed, answered>>

\* Reading a descriptor that was closed during this pass fails, and it is
\* closed once more.  A read that is interrupted or finds nothing leaves all
\* as it is, and select returns the descriptor again.
ReadyForRead(fd) ==
    /\ fd \notin Listening /\ ReadTurn(fd)
    /\ \/ /\ conn[fd] # NoConn /\ taken[conn[fd]] < sent[conn[fd]]
          /\ fds' = [fds EXCEPT ![fd].readQueue =
                        @ \o [i \in 1 .. sent[conn[fd]] - taken[conn[fd]] |-> taken[conn[fd]] + i]]
          /\ taken' = [taken EXCEPT ![conn[fd]] = sent[conn[fd]]]
          /\ current' = fd
          /\ UNCHANGED <<readSet, writeSet, waiting, conn, stage, answered>>
       \/ /\ conn[fd] # NoConn => taken[conn[fd]] = sent[conn[fd]] /\ ~peer[conn[fd]]
          /\ CloseSocket(fd)
          /\ UNCHANGED <<current, taken>>
    /\ UNCHANGED <<walking, peer, sent, got, executed>>

\* handleRead: no complete request is left.
RequestsDone ==
    /\ current # 0
    /\ ~BadSignature(fds[current]) /\ ~FrameComplete(fds[current])
    /\ fds' = [fds EXCEPT ![current] = WithHeader(@)]
    /\ current' = 0
    /\ UNCHANGED <<readSet, writeSet, walking, ready, waiting, kernel, executed, answered>>

\* handleRead: what was received is no request of this protocol.
RequestInvalid ==
    /\ current # 0
    /\ InvalidRequest(fds[current], conn[current])
    /\ CloseSocket(current)
    /\ current' = 0
    /\ UNCHANGED <<walking, ready, peer, sent, taken, got, executed>>

\* handleRead: the next request is extracted and executed.
Execute(kind) ==
    /\ current # 0 /\ conn[current] \in kind
    /\ ~BadSignature(fds[current]) /\ FrameComplete(fds[current])
    /\ executed' = [executed EXCEPT ![conn[current]] = @ + 1]
    /\ UNCHANGED <<walking, ready, peer, sent, taken, got>>

Extracted == [fds EXCEPT ![current] = ExtractRequest(@)]
Request == WithHeader(fds[current]).header

\* Agents that can be asked: connected, and their registration answered.
Askable == {a \in AgentConns : stage[a] = "open" /\ answered[a] # <<>>}

ExecuteCheck ==
    LET c == conn[current]
    IN  /\ Execute(ClientConns)
        /\ \/ /\ fds' = Answered(Extracted, {<<c, Request>>})
              /\ Record({<<c, Request>>})
              /\ UNCHANGED waiting
           \/ /\ fds' = Extracted
              /\ \E a \in Askable : waiting' = waiting \cup {<<c, Request, a>>}
              /\ UNCHANGED answered
        /\ UNCHANGED <<readSet, writeSet, current, conn, stage>>

\* An agent registers, its answer is passed on to the client whose check
\* waited for it, or nothing waits for the answer any more.
ExecuteAgentRequest ==
    LET c == conn[current]
    IN  /\ Execute(AgentConns)
        /\ \/ /\ fds' = Answered(Extracted, {<<c, Request>>})
              /\ Record({<<c, Request>>})
              /\ UNCHANGED waiting
           \/ \E w \in waiting :
                /\ w[3] = c
                /\ fds' = Answered(Extracted, {w})
                /\ Record({w})
                /\ waiting' = waiting \ {w}
           \/ /\ fds' = Extracted
              /\ UNCHANGED <<answered, waiting>>
        /\ UNCHANGED <<readSet, writeSet, current, conn, stage>>

\* The clients are disconnected if policies changed, and the administrator
\* gets an answer.
ExecuteAdmin ==
    LET c == conn[current]
    IN  /\ Execute(AdminConns)
        /\ Record({<<c, Request>>})
        /\ \E F \in {ClientFds, {}} :
             /\ fds' = Closed(Answered(Extracted, {<<c, Request>>}), F)
             /\ CloseSockets(F)
        /\ UNCHANGED current

\* handleRead: the handler throws what it does not catch, and the connection is
\* closed without an answer.  It is a simple check on a corrupted database, a
\* change whose save fails before the clients are disconnected, or the answer of
\* an agent of which the plugin of a waiting check makes nothing.
RequestThrows ==
    /\ Execute(Conns)
    /\ conn[current] \in AgentConns => \E w \in waiting : w[3] = conn[current]
    /\ CloseSocket(current)
    /\ current' = 0

\* Mutant: the whole buffer is cleared.
UnwrittenLost(buffer, n) == <<>>

\* What stays in the buffer when n bytes were written.
Unwritten(buffer, n) == SubSeq(buffer, n + 1, Len(buffer))

\* prepareWriteBuffer moves the queue behind what is left in the buffer, and
\* the kernel takes it or, on a slow connection, a part of it.  Nothing is
\* written to a descriptor closed during this pass or to an end that is gone,
\* and both are closed.
ReadyForWrite(fd) ==
    LET c == conn[fd]
        buffer == fds[fd].writeBuffer \o fds[fd].writeQueue
    IN  /\ WriteTurn(fd)
        /\ \/ /\ c # NoConn /\ peer[c]
              /\ \E n \in IF c \in Slow THEN Min({1, Len(buffer)}) .. Len(buffer) ELSE {Len(buffer)} :
                   /\ got' = [got EXCEPT ![c] = @ \o SubSeq(buffer, 1, n)]
                   /\ fds' = [fds EXCEPT ![fd].writeQueue = <<>>,
                                         ![fd].writeBuffer = Unwritten(buffer, n)]
                   /\ writeSet' = IF Unwritten(buffer, n) = <<>> THEN writeSet \ {fd} ELSE writeSet
              /\ UNCHANGED <<readSet, waiting, conn, stage, answered>>
           \/ /\ c # NoConn => ~peer[c]
              /\ CloseSocket(fd)
              /\ UNCHANGED got
        /\ UNCHANGED <<walking, current, peer, sent, taken, executed>>

\* Mutant: no descriptor is added.
EndPassOnly ==
    /\ walking /\ current = 0 /\ ready.read \cup ready.write = {}
    /\ walking' = FALSE
    /\ UNCHANGED <<fds, readSet, writeSet, ready, current, waiting, kernel, executed, answered>>

\* At the end of a pass the descriptors with data to write are added.
EndPass ==
    /\ walking /\ current = 0 /\ ready.read \cup ready.write = {}
    /\ writeSet' = writeSet \cup {fd \in Fds : HasDataToWrite(fd)}
    /\ walking' = FALSE
    /\ UNCHANGED <<fds, readSet, ready, current, waiting, kernel, executed, answered>>
-----------------------------------------------------------------------------
(* The other ends.  What is sent before the connection is accepted is no    *)
(* different, for the daemon, from what is sent right after it.             *)

Connect(c) ==
    /\ stage[c] = "new"
    /\ stage' = [stage EXCEPT ![c] = "queued"]
    /\ UNCHANGED <<daemon, conn, peer, sent, taken, got, executed, answered>>

Send(c) ==
    /\ stage[c] = "open" /\ peer[c] /\ sent[c] < FrameLength * MaxFrames[c]
    /\ sent' = [sent EXCEPT ![c] = @ + (IF c \in Slow THEN 1 ELSE FrameLength)]
    /\ UNCHANGED <<daemon, conn, stage, peer, taken, got, executed, answered>>

HangUp(c) ==
    /\ c \in Leavers /\ stage[c] = "open" /\ peer[c]
    /\ peer' = [peer EXCEPT ![c] = FALSE]
    /\ UNCHANGED <<daemon, conn, stage, sent, taken, got, executed, answered>>

Peers == \E c \in Conns : Connect(c) \/ Send(c) \/ HangUp(c)

Daemon ==
    \/ Select \/ EndPass
    \/ \E fd \in Fds : ReadyForAccept(fd) \/ ReadyForRead(fd) \/ ReadyForWrite(fd)
    \/ RequestsDone \/ RequestInvalid \/ RequestThrows
    \/ ExecuteCheck \/ ExecuteAgentRequest \/ ExecuteAdmin

Next == Daemon \/ Peers

Spec == Init /\ [][Next]_vars

\* The daemon's thread goes on.
FairSpec == Spec /\ WF_vars(Daemon)
-----------------------------------------------------------------------------

(* What is written to a connection is exactly the answers to its own        *)
(* requests in the order they were given, across partial writes, queues     *)
(* moved into buffers, and descriptors that stood for another connection    *)
(* before.                                                                  *)
AnswersIntact ==
    \A c \in Conns :
        LET answers == Bytes(answered[c])
        IN  /\ \A fd \in Fds : conn[fd] = c =>
                  got[c] \o fds[fd].writeBuffer \o fds[fd].writeQueue = answers
            /\ IsPrefix(got[c], answers)

(* The daemon closes a connection only when the other end is gone, when its *)
(* own request just made a handler throw or is no request at all, which     *)
(* none is of a connection that keeps to the protocol, or, for a client,    *)
(* when a request of an administrator was just carried out and answered.    *)
(* A ready bit left from a connection that had the same descriptor, a frame *)
(* cut in the wrong place or a check denied because its agent is gone never *)
(* closes it.                                                               *)
ClosedForCause ==
    [][\A c \in Conns : stage[c] = "open" /\ stage'[c] = "closed" =>
          \/ ~peer[c]
          \/ /\ current # 0 /\ conn[current] = c
             /\ c \in OddConns \/ (executed'[c] > executed[c] /\ answered'[c] = answered[c])
          \/ /\ c \in ClientConns
             /\ \E a \in AdminConns : /\ executed'[a] > executed[a]
                                     /\ Len(answered'[a]) > Len(answered[a])]_vars

(* Every answer gets to its client, unless the connection is closed: a      *)
(* response queued for a descriptor that was already visited in this pass   *)
(* is not forgotten.                                                        *)
AnswersDelivered ==
    \A c \in ClientConns :
        (answered[c] # <<>> /\ stage[c] = "open")
            ~> (stage[c] = "closed" \/ Len(got[c]) = AnswerLength * Len(answered[c]))
=============================================================================
