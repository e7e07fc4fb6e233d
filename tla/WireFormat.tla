----------------------------- MODULE WireFormat -----------------------------
(***************************************************************************)
(* One direction of one connection: the sender serializes messages, the    *)
(* socket hands the bytes over in chunks of any size, and the receiver     *)
(* appends each chunk to its read queue and calls the extract function of  *)
(* its protocol.  Which protocol and direction it is ("end") is chosen in  *)
(* the initial state.                                                      *)
(***************************************************************************)
EXTENDS ProtocolCodecs

CONSTANTS Ends,          \* the protocol ends considered
          Sendable(_),   \* the messages that the sender at an end may write
          MaxMessages,   \* bound: messages written
          MaxChunks      \* bound: chunks received before the rest arrives

VARIABLES
  end,      \* which extract function reads this direction
  sent,     \* messages written, in order
  wire,     \* bytes written and not received
  queue,    \* the read queue of the receiver
  header,   \* m_frameHeader of its protocol object
  got,      \* messages extracted
  outcome,  \* "ok", or why extract threw (the caller closes the connection)
  chunks    \* chunks received

wireVars == <<end, sent, wire, queue, header, got, outcome, chunks>>

WireInit ==
    /\ end \in Ends
    /\ sent = <<>> /\ wire = <<>> /\ got = <<>>
    /\ queue = EmptyQueue /\ header = FreshHeader
    /\ outcome = "ok" /\ chunks = 0

\* Message::execute on the protocol with the write queue of the connection.
\* When a string is too long the frame under construction is dropped with the
\* exception and the write queue is as it was.
Write(m) ==
    /\ Len(sent) < MaxMessages
    /\ outcome = "ok"
    /\ Serializable(Fields(m))
    /\ sent' = Append(sent, m)
    /\ wire' = wire \o Contents(Frame(Fields(m), m.seq))
    /\ UNCHANGED <<end, queue, header, got, outcome, chunks>>

\* A read from the socket returned n bytes: Descriptor::pushReadBuffer in the
\* daemon, Socket::receiveFromServer in a library.
Receive(n) ==
    /\ outcome = "ok"
    /\ n \in 1 .. Len(wire)
    /\ chunks < MaxChunks \/ n = Len(wire)
    /\ chunks' = IF chunks < MaxChunks THEN chunks + 1 ELSE chunks
    /\ queue' = AppendCopy(queue, SubSeq(wire, 1, n))
    /\ wire' = SubSeq(wire, n + 1, Len(wire))
    /\ UNCHANGED <<end, sent, header, got, outcome>>

\* The op code behind a header that was read, and the message it announces.
ReadMessage(op, seq) ==
    IF op.status # "ok" THEN Rebuilt(op, [type |-> "none"])
    ELSE Extract(end, op.vals[1], [op EXCEPT !.vals = <<>>], seq)

AwaitFrame(h) ==
    /\ queue' = h.q
    /\ header' = h.header
    /\ outcome' = h.status
    /\ UNCHANGED got

TakeFrame(h, x) ==
    /\ queue' = Consume(h.q, BytesRead(x.r))
    /\ header' = [h.header EXCEPT !.complete = FALSE]
    /\ outcome' = x.r.status
    /\ got' = IF x.r.status = "ok" THEN Append(got, x.m) ELSE got

\* One call of extractRequestFromBuffer or extractResponseFromBuffer.
ExtractFromBuffer ==
    /\ outcome = "ok"
    /\ LET h == DeserializeHeader(header, queue)
       IN  IF ~h.complete THEN AwaitFrame(h)
           ELSE TakeFrame(h, ReadMessage(Deserialize(Reader(h.q), <<"u8">>), h.header.seq))
    /\ UNCHANGED <<end, sent, wire, chunks>>

WireNext ==
    \/ \E m \in IF end \in Ends THEN Sendable(end) ELSE {} : Write(m)
    \/ \E n \in 1 .. Len(wire) : Receive(n)
    \/ ExtractFromBuffer

WireSpec == WireInit /\ [][WireNext]_wireVars

(***************************************************************************)
(* Properties.                                                             *)
(***************************************************************************)
\* Every list, and every map of buckets, is one that a 16-bit field count can
\* describe.
FitsCounts(m) ==
    LET Fits(list) == Len(list) < CountModulus
        FitsMap(map) == /\ Cardinality(DOMAIN map) < CountModulus
                        /\ \A b \in DOMAIN map : Fits(map[b])
    IN  CASE m.type \in {"MonitorEntriesPutRequest", "MonitorGetEntriesResponse"} ->
                 Fits(m.entries)
          [] m.type = "DescriptionListResponse" -> Fits(m.descriptions)
          [] m.type = "ListResponse" -> Fits(m.policies)
          [] m.type = "SetPoliciesRequest" -> FitsMap(m.insertOrUpdate) /\ FitsMap(m.remove)
          [] OTHER -> TRUE

Exact == \A i \in DOMAIN sent : FitsCounts(sent[i])

Remaining == SubSeq(sent, Len(got) + 1, Len(sent))

\* A connection implements the channel of whole messages.
Channel == INSTANCE MessageChannel WITH
    Message <- UNION {Sendable(e) : e \in Ends}, Representable <- FitsCounts,
    transit <- Remaining, received <- got, exact <- Exact
ImplementsChannel == Channel!Spec

\* When everything written has been received and another call of extract would
\* change nothing, every message has been delivered: the receiver never waits
\* for bytes that the sender does not owe.  extract throws only after a list too
\* long for its field count was written.
QuietMeansDelivered ==
    LET h == DeserializeHeader(header, queue)
        quiet == ~h.complete /\ h.q = queue /\ h.header = header
    IN  Exact => outcome = "ok" /\ (wire = <<>> /\ quiet => got = sent)
=============================================================================
