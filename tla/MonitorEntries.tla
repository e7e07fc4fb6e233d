--------------------------- MODULE MonitorEntries ---------------------------
(***************************************************************************)
(* The daemon's monitor: every policy check made by a client library is    *)
(* reported to the daemon as an entry, and monitor clients ask for batches *)
(* of entries.  The entries are kept in a ring of buckets (EntriesQueue),  *)
(* shared by all monitor clients; EntriesManager keeps one reading         *)
(* position per client and removes what every client has read, and         *)
(* MonitorLogic answers the clients that have enough entries.              *)
(*                                                                         *)
(* An entry is its serial number: the n-th entry stored since the start is *)
(* n.  A batch of entries put by one request is a run of PutEntry steps:   *)
(* the handler answers after each of them, and single-entry requests reach *)
(* the same states.                                                        *)
(***************************************************************************)
EXTENDS Integers, SequencesExt

CONSTANTS
    Clients,        \* ids of monitor clients (file descriptors)
    BufferSizes,    \* buffer sizes a client may ask for
    MaxQueueSize,   \* capacity of the queue, in entries
    MaxBucketSize,  \* capacity of a bucket, in entries
    MaxEntries      \* bound on the number of entries stored

ASSUME MonitorConstants ==
    /\ Clients \subseteq Nat /\ IsFiniteSet(Clients)
    /\ BufferSizes \subseteq Nat
    /\ MaxBucketSize \in Nat \ {0} /\ MaxQueueSize \in Nat
    /\ MaxBucketSize <= MaxQueueSize

VARIABLES
    container,   \* EntriesManager::m_container
    clients,     \* EntriesManager::m_clients: id -> position and buffer size
    registered,  \* EntriesManager::m_registeredClients: who awaits an answer
    counts,      \* EntriesManager::m_entryCountMap: entry id -> clients there
    sent,        \* the answers given by the last step
    alive,       \* FALSE once a copy loop of the daemon does not terminate
    stored,      \* auxiliary: number of entries stored so far
    due,         \* auxiliary: serial number each client must get next
    regular      \* auxiliary: the ring never met the two irregular situations

code == <<container, clients, registered, counts, sent, alive>>
vars == <<code, stored, due, regular>>

NoAnswer == <<0>>
-----------------------------------------------------------------------------
(* EntriesQueue *)

BucketCount == MaxQueueSize \div MaxBucketSize + 1
BucketIds == 0 .. BucketCount - 1

EmptyBucket == [entries |-> <<>>, offset |-> 0]

Clear == [buckets |-> [b \in BucketIds |-> EmptyBucket],
          first |-> 0, last |-> 0, size |-> 0]

NextBucketId(b) == (b + 1) % BucketCount
CountBucketId(id) == id \div MaxBucketSize
CountBucketOffset(id) == id % MaxBucketSize

FrontEntryId(q) == q.first * MaxBucketSize + q.buckets[q.first].offset
BackEntryId(q) == q.last * MaxBucketSize + Len(q.buckets[q.last].entries)

SizeFrom(q, id) ==
    IF id < FrontEntryId(q) THEN BackEntryId(q) - id
                            ELSE q.size - (id - FrontEntryId(q))

\* The bucket's offset is reset; whatever entries it has are left in it.
CreateBucket(q, b) == [q EXCEPT !.buckets[b].offset = 0]

EraseBucket(q, b) ==
    [q EXCEPT !.size = @ - (Len(q.buckets[b].entries) - q.buckets[b].offset),
              !.buckets[b] = EmptyBucket]

Overflows(q) == q.size + 1 > MaxQueueSize

CheckSize(q) ==
    LET popped == [q EXCEPT !.buckets[q.first].offset = @ + 1, !.size = @ - 1]
    IN  IF q.size <= MaxQueueSize THEN q
        ELSE IF popped.buckets[q.first].offset < MaxBucketSize THEN popped
        ELSE [EraseBucket(popped, q.first) EXCEPT !.first = NextBucketId(@)]

Push(q, e) ==
    LET added == [q EXCEPT !.buckets[q.last].entries = Append(@, e),
                           !.size = @ + 1]
        full == Len(added.buckets[q.last].entries) = MaxBucketSize
        next == NextBucketId(q.last)
    IN  CheckSize(IF full THEN CreateBucket([added EXCEPT !.last = next], next)
                          ELSE added)

\* What the copy loop meets when it walks the ring from a bucket and offset
\* until it has the amount it wants; each round adds to a non-empty ring.
Walk(q, b, offset, amount) ==
    FlattenSeq([i \in 1 .. BucketCount * (amount + 1) |->
        LET entries == q.buckets[(b + i - 1) % BucketCount].entries
        IN  IF i = 1 THEN SubSeq(entries, offset + 1, Len(entries)) ELSE entries])

\* The loop ends only with a non-negative amount and enough entries to copy,
\* starting inside its first bucket.
CopyEnds(q, b, offset, amount) ==
    /\ amount >= 0
    /\ amount > 0 => offset <= Len(q.buckets[b].entries)
    /\ Len(Walk(q, b, offset, amount)) >= amount

CopyEntries(q, b, offset, amount) == SubSeq(Walk(q, b, offset, amount), 1, amount)

RemoveEntries(q, endBucket, endOffset) ==
    LET dist == (endBucket - q.first) % BucketCount
        erased == FoldLeft(EraseBucket, q,
                           [i \in 1 .. dist |-> (q.first + i - 1) % BucketCount])
    IN  [erased EXCEPT !.size = @ - (endOffset - erased.buckets[endBucket].offset),
                       !.buckets[endBucket].offset = endOffset,
                       !.first = endBucket]

\* The id a fetch of that amount leaves the reader at.
NextEntryId(id, amount) == (id + amount) % (BucketCount * MaxBucketSize)

PopUntil(q, id) == RemoveEntries(q, CountBucketId(id), CountBucketOffset(id))
-----------------------------------------------------------------------------
(* EntriesManager.  Its operations turn a manager m (a record of the code   *)
(* variables, with the answers of the current step) into the next one.      *)

Manager == [container |-> container, clients |-> clients,
            registered |-> registered, counts |-> counts,
            sent |-> [c \in Clients |-> NoAnswer], alive |-> alive]

AddEntryCount(m, id, c) ==
    [m EXCEPT !.counts = (id :> (IF id \in DOMAIN @ THEN @[id] ELSE {}) \cup {c}) @@ @]

\* A list of one client is dropped whole, whoever the client is.
RemoveEntryCount(m, id, c) ==
    [m EXCEPT !.counts = IF Cardinality(@[id]) = 1
                         THEN Restrict(@, DOMAIN @ \ {id})
                         ELSE [@ EXCEPT ![id] = @ \ {c}]]

RegisterClient(m, c) == [m EXCEPT !.registered = @ \cup {c}]
UnregisterClient(m, c) == [m EXCEPT !.registered = @ \ {c}]

UpdateClient(m, c, id) ==
    AddEntryCount([RemoveEntryCount(m, m.clients[c].from, c)
                       EXCEPT !.clients[c].from = id], id, c)

\* The lowest id is the lowest number, although the ids are circular.
Cleanup(m) ==
    [m EXCEPT !.container =
        IF DOMAIN m.clients = {} THEN Clear
        ELSE IF DOMAIN m.counts = {} THEN @
        ELSE PopUntil(@, Min(DOMAIN m.counts))]

\* After an overflow, who waits for an id outside the queue waits for its
\* front.  Were the front itself such an id, its list would be appended to
\* while it is walked and the walk would not end.
Squash(m) ==
    LET front == FrontEntryId(m.container)
        back == BackEntryId(m.container)
        invalid == {id \in DOMAIN m.counts :
                      IF front > back THEN back <= id /\ id < front
                                      ELSE id < front \/ id >= back}
        moved == UNION {m.counts[id] : id \in invalid}
        atFront == IF front \in DOMAIN m.counts THEN m.counts[front] ELSE {}
    IN  [m EXCEPT
          !.alive = @ /\ ~(front \in invalid /\ atFront # {}),
          !.clients = [c \in DOMAIN @ |-> IF c \in moved
                                          THEN [@[c] EXCEPT !.from = front] ELSE @[c]],
          !.counts = (front :> atFront \cup moved) @@ Restrict(@, DOMAIN @ \ invalid)]

IsClientFilled(m, c) ==
    c \in m.registered /\ SizeFrom(m.container, m.clients[c].from) >= m.clients[c].bufferSize

FilledClients(m) == {c \in m.registered : IsClientFilled(m, c)}

\* The entries are copied, the client's position advances, and the client
\* leaves the waiting ones; without the force flag it has to be filled.
FetchEntriesForClient(m, c, force) ==
    LET from == m.clients[c].from
        amount == Min({SizeFrom(m.container, from), m.clients[c].bufferSize})
        bucket == CountBucketId(from)
        offset == CountBucketOffset(from)
        next == NextEntryId(from, amount)
    IN  IF c \notin m.registered \/ (~force /\ ~IsClientFilled(m, c))
        THEN [m EXCEPT !.sent[c] = <<>>]
        ELSE IF ~CopyEnds(m.container, bucket, offset, amount)
        THEN [m EXCEPT !.alive = FALSE]
        ELSE Cleanup(UnregisterClient(UpdateClient(
                [m EXCEPT !.sent[c] = CopyEntries(m.container, bucket, offset, amount)],
                c, next), c))

\* Mutant: a new client starts at the oldest entry stored.
AddClientAtFront(m, c, n) ==
    LET front == FrontEntryId(m.container)
    IN  RegisterClient(AddEntryCount(
            [m EXCEPT !.clients = (c :> [from |-> front, bufferSize |-> n]) @@ @],
            front, c), c)

AddClient(m, c, n) ==
    LET back == BackEntryId(m.container)
    IN  RegisterClient(AddEntryCount(
            [m EXCEPT !.clients = (c :> [from |-> back, bufferSize |-> n]) @@ @],
            back, c), c)

ModifyClient(m, c, n) == RegisterClient([m EXCEPT !.clients[c].bufferSize = n], c)

\* Mutant: what only the leaving client had not read stays in the queue.
RemoveClientOnly(m, c) ==
    LET uncounted == RemoveEntryCount(UnregisterClient(m, c), m.clients[c].from, c)
    IN  [uncounted EXCEPT !.clients = Restrict(@, DOMAIN @ \ {c})]

RemoveClient(m, c) ==
    LET uncounted == RemoveEntryCount(UnregisterClient(m, c), m.clients[c].from, c)
    IN  Cleanup([uncounted EXCEPT !.clients = Restrict(@, DOMAIN @ \ {c})])

AddEntry(m, e) ==
    LET pushed == [m EXCEPT !.container = Push(@, e)]
    IN  IF Overflows(m.container) THEN Squash(pushed) ELSE pushed
-----------------------------------------------------------------------------
(* MonitorLogic and the daemon's handlers.  Every answer made by a handler  *)
(* is sent before it returns.                                               *)

\* Mutant: one entry completes at most one client.
AnswerOneFilled(m) ==
    IF FilledClients(m) # {}
    THEN FetchEntriesForClient(m, Min(FilledClients(m)), FALSE) ELSE m

\* Answers the filled clients, lowest id first, until none is left.
AnswerFilled(m) ==
    FoldLeft(LAMBDA w, i : IF w.alive /\ FilledClients(w) # {}
                           THEN FetchEntriesForClient(w, Min(FilledClients(w)), FALSE)
                           ELSE w,
             m, [i \in 1 .. Cardinality(Clients) |-> i])

Become(m) ==
    /\ container' = m.container /\ clients' = m.clients
    /\ registered' = m.registered /\ counts' = m.counts
    /\ sent' = m.sent /\ alive' = m.alive

\* Auxiliary: the ring is irregular when the bucket being opened is the one
\* that holds the oldest entries, or when ids have wrapped around under
\* several clients.
Collides == /\ stored' > stored
            /\ container.last' = container.first /\ container.last # container.last'
StaysRegular ==
    /\ regular
    /\ ~Collides
    /\ Cardinality(DOMAIN clients') > 1 =>
         /\ container.last <= container.last'
         /\ FrontEntryId(container) <= BackEntryId(container)
         /\ FrontEntryId(container') <= BackEntryId(container')

\* Auxiliary: the positions after entry n is the newest stored.
DueAfter(n) ==
    [c \in DOMAIN clients' |->
        LET start == IF c \in DOMAIN due THEN due[c] ELSE n + 1
            oldest == Max({start, n + 1 - MaxQueueSize})
        IN  oldest + (IF sent'[c] = NoAnswer THEN 0 ELSE Len(sent'[c]))]

Account(n) == stored' = n /\ due' = DueAfter(n) /\ regular' = StaysRegular

Init ==
    /\ container = Clear /\ clients = <<>> /\ registered = {} /\ counts = <<>>
    /\ sent = [c \in Clients |-> NoAnswer] /\ alive = TRUE
    /\ stored = 0 /\ due = <<>> /\ regular = TRUE

GetEntries(c, n) ==
    LET m == IF c \in DOMAIN clients THEN ModifyClient(Manager, c, n)
                                     ELSE AddClient(Manager, c, n)
    IN  /\ alive
        /\ Become(IF IsClientFilled(m, c) THEN FetchEntriesForClient(m, c, FALSE) ELSE m)
        /\ Account(stored)

\* A flush is answered even when the client awaits nothing.
Flush(c) ==
    /\ alive /\ c \in DOMAIN clients
    /\ Become(FetchEntriesForClient(Manager, c, TRUE))
    /\ Account(stored)

PutEntry ==
    /\ alive /\ DOMAIN clients # {} /\ stored < MaxEntries
    /\ Become(AnswerFilled(AddEntry(Manager, stored + 1)))
    /\ Account(stored + 1)

ContextClosed(c) ==
    /\ alive /\ c \in DOMAIN clients
    /\ Become(RemoveClient(Manager, c))
    /\ Account(stored)

Next ==
    \/ \E c \in Clients, n \in BufferSizes : GetEntries(c, n)
    \/ \E c \in Clients : Flush(c)
    \/ PutEntry
    \/ \E c \in Clients : ContextClosed(c)

Spec == Init /\ [][Next]_vars
-----------------------------------------------------------------------------
(* Each answer continues the client's previous one: it holds the entries    *)
(* stored right after those, in the order stored, none twice and none left  *)
(* out but the ones an overflow removed, and the loops that produce it end. *)
(* This is fetchEntriesForClient on a ring that other clients, overflows    *)
(* and cleanups move under the position it keeps.                           *)
DeliveredInOrder ==
    regular =>
        /\ alive
        /\ \A c \in DOMAIN clients : sent[c] # NoAnswer =>
             sent[c] = [i \in 1 .. Len(sent[c]) |-> due[c] - Len(sent[c]) + i - 1]

(* No client is left waiting while its buffer's worth of entries, counted   *)
(* by what was stored and what it was given, is there: the loop of          *)
(* MonitorLogic::addEntry answers everyone that an entry completes.         *)
PromptDelivery ==
    regular => \A c \in registered : stored + 1 - due[c] < clients[c].bufferSize

(* The queue keeps exactly the entries that some client has yet to read:    *)
(* cleanup neither drops an unread entry nor keeps one everybody has read,  *)
(* and nothing is kept when nobody reads.                                   *)
QueueExact ==
    LET lag == IF due = <<>> THEN 0
               ELSE stored + 1 - Min({due[c] : c \in DOMAIN due})
    IN  regular =>
          /\ container.size = lag
          /\ CopyEntries(container, container.first,
                         container.buckets[container.first].offset, lag)
             = [i \in 1 .. lag |-> stored - lag + i]

(* What EntriesQueue.h says of push: "If capacity is reached, least         *)
(* recently pushed entry is removed", so the queue always holds the newest  *)
(* entries, in order, whatever its capacity has cost.                       *)
OverflowRemovesOldest ==
    LET front == container.buckets[container.first].offset
    IN  /\ CopyEnds(container, container.first, front, container.size)
        /\ CopyEntries(container, container.first, front, container.size)
             = [i \in 1 .. container.size |-> stored - container.size + i]
=============================================================================
