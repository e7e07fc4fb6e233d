--------------------------- MODULE LibrarySocket ----------------------------
(***************************************************************************)
(* The connection of a synchronous library to the daemon: class Socket and *)
(* class SocketClient of src/common/sockets.  The poll timeout is -1, so a *)
(* send or a receive waits until it can do something; a send is all or     *)
(* nothing here, since what was written of a frame when the daemon closes  *)
(* the connection is dropped with it.                                      *)
(***************************************************************************)
EXTENDS Naturals, Sequences

VARIABLES
  listening,  \* the daemon (or systemd for it) accepts connections
  link,       \* the socket m_sock: whether it is open, closed by the daemon,
              \* and the whole messages in both directions
  readQueue   \* m_readQueue of the SocketClient: responses not yet extracted

socketVars == <<listening, link, readQueue>>

NoLink    == [open |-> FALSE, closed |-> FALSE, reqs |-> <<>>, resps |-> <<>>]
FreshLink == [NoLink EXCEPT !.open = TRUE]

SocketInit ==
    /\ listening \in BOOLEAN
    /\ link = NoLink
    /\ readQueue = <<>>

\* Socket::isConnected: the socket exists, has no error and no hang-up.
IsConnected == link.open /\ ~link.closed

\* SocketClient::connect: Socket::close, which drops what was to be sent, and a
\* new socket.  The queue of received responses is left as it is.
Connect ==
    /\ listening
    /\ link' = FreshLink
    /\ UNCHANGED <<listening, readQueue>>

\* Nobody listens: connect returns FALSE or throws, and the socket is closed.
ConnectFails ==
    /\ ~listening
    /\ link' = NoLink
    /\ UNCHANGED <<listening, readQueue>>

\* Socket::sendToServer returns ALL_DATA_SENT.
SendToServer(m) ==
    /\ IsConnected
    /\ link' = [link EXCEPT !.reqs = Append(@, m)]
    /\ UNCHANGED <<listening, readQueue>>

\* It returns CONNECTION_LOST (EPIPE).
SendLost == ~IsConnected

\* Socket::receiveFromServer moves all that has arrived to the queue, then
\* returns FALSE when it meets the end of the stream.
Arrived == readQueue \o link.resps
ReceiveTrue  == ~link.closed /\ link.resps # <<>>
ReceiveFalse == link.closed

\* askCynaraServer after receiveFromServer returned TRUE: the first response in
\* the queue is returned, whichever request it answers.
TakeResponse ==
    /\ readQueue' = Tail(Arrived)
    /\ link' = [link EXCEPT !.resps = <<>>]
    /\ UNCHANGED listening
Response == Head(Arrived)

\* receiveFromServer returned FALSE: the caller gets nothing, and what had
\* arrived stays in the queue.
EndOfStream ==
    /\ ReceiveFalse
    /\ readQueue' = Arrived
    /\ link' = [link EXCEPT !.resps = <<>>]
    /\ UNCHANGED listening

\* The daemon closes the connection: requests it did not read are lost,
\* responses it wrote can still be read.
HangUp(l) == [l EXCEPT !.closed = l.open, !.reqs = <<>>]
=============================================================================
