----------------------- MODULE ProtocolSerialization -----------------------
(***************************************************************************)
(* Primitive values, frames and frame headers on the wire                  *)
(* (src/common/protocol: ProtocolSerialization, ProtocolFrame,             *)
(* ProtocolFrameHeader, ProtocolFrameSerializer).                          *)
(*                                                                         *)
(* A field <<t, v>> is a value v written by the serialize overload t.  A   *)
(* byte is <<t, v, i>>, the i-th byte of its field, so that a chunk of the *)
(* stream may end anywhere.  Reading gives a value only when the next      *)
(* bytes are one field written by the matching overload; any other read    *)
(* would yield a number or a text that nobody sent, and is marked garbled. *)
(* A text (std::string, or the std::vector of plugin data) is              *)
(* <<length, name>>: its length and which text it is; on the wire it takes *)
(* four bytes of length and its characters.                                *)
(***************************************************************************)
EXTENDS BinaryQueue, Integers

CONSTANTS MaxIdLength,    \* CYNARA_MAX_ID_LENGTH and CYNARA_MAX_VECTOR_SIZE
          CountModulus    \* values of ProtocolFrameFieldsCount (2^16)

FieldWidth(f) ==
    CASE f[1] = "text"                       -> 4 + f[2][1]
      [] f[1] = "u8"                         -> 1
      [] f[1] = "u16"                        -> 2
      [] f[1] \in {"u32", "i32", "signature"} -> 4
      [] f[1] \in {"u64", "i64"}             -> 8

FieldBytes(f) == [i \in 1 .. FieldWidth(f) |-> <<f[1], f[2], i>>]

BytesOf(fields) == FlattenSeq([i \in DOMAIN fields |-> FieldBytes(fields[i])])

(***************************************************************************)
(* Writing: a message is serialized as a sequence of fields.               *)
(***************************************************************************)
Number(t, v) == <<<<t, v>>>>
Bool(b)      == <<<<"u8", IF b THEN 1 ELSE 0>>>>
Count(n)     == <<<<"u16", n % CountModulus>>>>
Text(s)      == <<<<"text", s>>>>

\* The overloads for std::string and std::vector throw when the value is too
\* long, before anything has reached the queue of the connection.
TooLong(f) == f[1] = "text" /\ f[2][1] > MaxIdLength
Serializable(fields) == \A i \in DOMAIN fields : ~TooLong(fields[i])

\* A list is its count and then its elements.
Listed(list, Element(_)) ==
    Count(Len(list)) \o FlattenSeq([i \in DOMAIN list |-> Element(list[i])])

(***************************************************************************)
(* Reading.  A reader is the fields found in the queue, how many of them   *)
(* were read, the values they gave and a status.  Where the queue does not *)
(* begin with the first byte of a field, the first one is torn.            *)
(***************************************************************************)
FieldsIn(bytes) ==
    LET Field(p) == <<IF bytes[p][3] = 1 THEN bytes[p][1] ELSE "torn", bytes[p][2], p>>
        starts == SelectSeq([p \in DOMAIN bytes |-> p],
                            LAMBDA p : p = 1 \/ bytes[p][3] = 1)
    IN  [j \in DOMAIN starts |-> Field(starts[j])]

Reader(q) ==
    [fields |-> FieldsIn(Flatten(q, q.size)), at |-> 0, vals |-> <<>>,
     status |-> "ok", size |-> q.size]

Fail(r, status) == [r EXCEPT !.status = status]

\* Bytes read so far.
BytesRead(r) ==
    IF r.at = 0 THEN 0
    ELSE r.fields[r.at][3] - 1 + FieldWidth(r.fields[r.at])

\* Consecutive deserialize calls, one per element of types.
Deserialize(r, types) ==
    LET next == SubSeq(r.fields, r.at + 1, r.at + Len(types))
        all  == [r EXCEPT !.at = @ + Len(types),
                          !.vals = @ \o [j \in DOMAIN types |-> next[j][2]]]
    IN  CASE r.status # "ok" -> r
          [] r.at + Len(types) > Len(r.fields) -> Fail(r, "out of data")
          [] \E j \in DOMAIN types : next[j][1] # types[j] -> Fail(r, "garbled")
          [] BytesRead(all) > r.size -> Fail(r, "out of data")
          [] \E j \in DOMAIN types : TooLong(next[j]) -> Fail(r, "too long")
          [] OTHER -> all

\* static_cast<bool> of the byte a bool was written as.
AsBool(v) == v # 0

\* n elements, each with the fields "types"; the list that Element makes of them
\* is appended to the values "before" as one value.
DeserializeElements(r, n, types, Element(_), before) ==
    LET k == Len(types)
        all == Deserialize(r, [j \in 1 .. n * k |-> types[((j - 1) % k) + 1]])
        list == [i \in 1 .. n |-> Element(SubSeq(all.vals, (i - 1) * k + 1, i * k))]
    IN  IF all.status = "ok" THEN [all EXCEPT !.vals = Append(before, list)] ELSE all

\* A count and that many elements.
DeserializeList(r, types, Element(_)) ==
    LET c == Deserialize([r EXCEPT !.vals = <<>>], <<"u16">>)
    IN  IF c.status # "ok" THEN c
        ELSE DeserializeElements([c EXCEPT !.vals = <<>>], c.vals[1], types, Element, r.vals)

(***************************************************************************)
(* Frames.                                                                 *)
(***************************************************************************)
HeaderTypes == <<"signature", "u32", "u16">>
FrameHeaderLength == 10

\* m_frameHeader of a protocol object: whether the header of the frame in
\* progress was read, and what it said.
FreshHeader == [complete |-> FALSE, length |-> 0, seq |-> 0]

\* startSerialization, the writes of the body and finishSerialization: header
\* and body are built apart, since the length is known only when the body is.
Frame(body, seq) ==
    LET bodyQueue == AppendCopy(EmptyQueue, BytesOf(body))
        header == <<<<"signature", "CPv1">>,
                    <<"u32", FrameHeaderLength + bodyQueue.size>>,
                    <<"u16", seq>>>>
    IN  AppendMoveFrom(AppendCopy(EmptyQueue, BytesOf(header)), bodyQueue)

\* deserializeHeader: the queue and the header afterwards, whether the frame is
\* complete, and the status.  A header is consumed as soon as all of it is
\* there, possibly long before its body.
DeserializeHeader(header, q) ==
    LET Result(queue, h, status) ==
            [q |-> queue, header |-> h, status |-> status,
             complete |-> h.complete /\ HasData(queue, h.length - FrameHeaderLength)]
        Read(r) == IF r.status = "ok"
                   THEN Result(Consume(q, FrameHeaderLength),
                               [complete |-> TRUE, length |-> r.vals[2], seq |-> r.vals[3]],
                               "ok")
                   ELSE Result(q, header, "bad signature")
    IN  IF header.complete \/ ~HasData(q, FrameHeaderLength) THEN Result(q, header, "ok")
        ELSE Read(Deserialize(Reader(q), HeaderTypes))
=============================================================================
