------------------------ MODULE CheckSystemExchange -------------------------
(***************************************************************************)
(* The exchange of requests and responses between the asynchronous client  *)
(* library and the daemon: every step of CheckSystem keeps the requests a  *)
(* client holds and what is under way on its link in agreement.            *)
(***************************************************************************)
EXTENDS CheckSystemRefinement

\* Zenon proves a leaf that names no other prover; it may take its time.
USE ZenonT(40)

\* The request of client data d and a request or response m about the same id.
Fits(d, m) == d # NoData /\ d.key = m.key /\ (d.simple <=> m.op = "simple")
Confirms(d) == d # NoData /\ d.cancelled

\* One connection of a client: the requests d it holds, the input q of the link,
\* its output o and the contexts h of its checks.  There is at most one response
\* for an id under way, and it fits.
ResponsesFit(d, o) ==
  \A i \in DOMAIN o :
    /\ IF o[i].op = "cancelled" THEN Confirms(d[o[i].id]) ELSE Fits(d[o[i].id], o[i])
    /\ \A j \in DOMAIN o : o[j].id = o[i].id => i = j

\* A request under way has no response yet and is the only one with its id; a
\* cancel behind it means the client cancelled it.
RequestsFit(d, q, o, h) ==
  \A i \in DOMAIN q : q[i].op # "cancel" =>
    /\ Fits(d[q[i].id], q[i])
    /\ \A j \in DOMAIN q : q[j].op # "cancel" /\ q[j].id = q[i].id => i = j
    /\ \A j \in DOMAIN q : q[j].op = "cancel" /\ q[j].id = q[i].id /\ i < j => d[q[i].id].cancelled
    /\ \A j \in DOMAIN o : o[j].id # q[i].id
    /\ h[q[i].id] # NoCheck => h[q[i].id].cancelled

\* A check that waits for an agent and is not cancelled is one the client waits
\* for, without a response; a cancel under way is the client's.
ContextsFit(d, q, o, h) ==
  \A id \in CheckIds : h[id] # NoCheck /\ ~h[id].cancelled =>
    /\ d[id] # NoData /\ d[id].key = h[id].key /\ ~d[id].simple
    /\ \A j \in DOMAIN q : q[j].op = "cancel" /\ q[j].id = id => d[id].cancelled
    /\ \A j \in DOMAIN o : o[j].id # id

ConnectionFits(d, q, o, h) == ResponsesFit(d, o) /\ RequestsFit(d, q, o, h) /\ ContextsFit(d, q, o, h)

ChecksOf(l) == [id \in CheckIds |-> checks[<<l, id>>]]
ClientFits(c) ==
  /\ Ids(c) \subseteq used[c]
  /\ conn[c] # NoLink => ConnectionFits(data[c], in[conn[c]], out[conn[c]], ChecksOf(conn[c]))
Exchange == \A c \in Clients : ClientFits(c)

-----------------------------------------------------------------------------
\* One connection of a client, as the four pieces of state ConnectionFits relates.
Pending == [CheckIds -> RequestData \cup {NoData}]
Waits == [CheckIds -> Contexts \cup {NoCheck}]

\* The daemon reads a request.
LEMMA FitsRead ==
  ASSUME NEW d \in Pending, NEW q \in Seq(ClientRequests), q # <<>>, NEW o \in Seq(ClientMsgs),
         NEW h \in Waits, ConnectionFits(d, q, o, h)
  PROVE  ConnectionFits(d, Tail(q), o, h)
<1>1. \A i \in DOMAIN Tail(q) : i \in Nat /\ i + 1 \in DOMAIN q /\ Tail(q)[i] = q[i + 1]
  BY SMTT(30)
<1>2. RequestsFit(d, Tail(q), o, h)
  BY <1>1, SMTT(30) DEF ConnectionFits, RequestsFit
<1>3. ContextsFit(d, Tail(q), o, h)
  BY <1>1, SMTT(30) DEF ConnectionFits, ContextsFit
<1> QED BY <1>2, <1>3 DEF ConnectionFits

\* Unread requests are lost with the link.
LEMMA FitsCut ==
  ASSUME NEW d, NEW q, NEW o, NEW h, ConnectionFits(d, q, o, h) PROVE ConnectionFits(d, <<>>, o, h)
  BY SMTT(30) DEF ConnectionFits, RequestsFit, ContextsFit

\* A response that fits, to a request without another one, is added.
LEMMA FitsAnswer ==
  ASSUME NEW d \in Pending, NEW q \in Seq(ClientRequests), NEW o \in Seq(ClientMsgs), NEW h \in Waits,
         ConnectionFits(d, q, o, h), NEW m \in ClientMsgs, NEW r, Grows(o, r, {m}),
         IF m.op = "cancelled" THEN Confirms(d[m.id]) ELSE Fits(d[m.id], m),
         \A i \in DOMAIN o : o[i].id # m.id,
         \A i \in DOMAIN q : q[i].op # "cancel" => q[i].id # m.id,
         h[m.id] # NoCheck => h[m.id].cancelled
  PROVE  ConnectionFits(d, q, r, h)
<1>1. \A i \in DOMAIN r : (i \in DOMAIN o /\ r[i] = o[i]) \/ (i \notin DOMAIN o /\ r[i] = m)
  BY DEF Grows
<1>2. \A i, j \in DOMAIN r : i \notin DOMAIN o /\ j \notin DOMAIN o => i = j
  BY SMTT(30) DEF Grows
<1>3. ResponsesFit(d, r)
  <2> SUFFICES ASSUME NEW i \in DOMAIN r
               PROVE  /\ IF r[i].op = "cancelled" THEN Confirms(d[r[i].id]) ELSE Fits(d[r[i].id], r[i])
                      /\ \A j \in DOMAIN r : r[j].id = r[i].id => i = j
    BY DEF ResponsesFit
  <2>1. CASE i \notin DOMAIN o
    BY <1>1, <1>2, <2>1
  <2>2. CASE i \in DOMAIN o
    BY <1>1, <2>2 DEF ConnectionFits, ResponsesFit
  <2> QED BY <2>1, <2>2
<1>4. RequestsFit(d, q, r, h)
  BY <1>1 DEF ConnectionFits, RequestsFit
<1>5. ContextsFit(d, q, r, h)
  BY <1>1, SMTT(30) DEF ConnectionFits, ContextsFit
<1> QED BY <1>3, <1>4, <1>5 DEF ConnectionFits

\* A check of the client starts to wait for an agent.
LEMMA FitsAsk ==
  ASSUME NEW d \in Pending, NEW q \in Seq(ClientRequests), NEW o \in Seq(ClientMsgs), NEW h \in Waits,
         NEW g \in Waits, NEW id \in CheckIds, \A i \in CheckIds : i # id => g[i] = h[i],
         ConnectionFits(d, q, o, h),
         d[id] # NoData, d[id].key = g[id].key, ~d[id].simple,
         \A i \in DOMAIN o : o[i].id # id,
         \A i \in DOMAIN q : q[i].op # "cancel" => q[i].id # id,
         \A i \in DOMAIN q : q[i].op = "cancel" /\ q[i].id = id => d[id].cancelled
  PROVE  ConnectionFits(d, q, o, g)
<1>1. \A i \in DOMAIN q : q[i] \in ClientRequests /\ q[i].id \in CheckIds
  BY SMTT(30) DEF ClientRequests
<1>2. RequestsFit(d, q, o, g)
  BY <1>1 DEF ConnectionFits, RequestsFit
<1>3. ContextsFit(d, q, o, g)
  BY DEF ConnectionFits, ContextsFit
<1> QED BY <1>2, <1>3 DEF ConnectionFits

\* Checks end, are cancelled or stay; those that end may be answered, once each.
LEMMA FitsQuiet ==
  ASSUME NEW d \in Pending, NEW q \in Seq(ClientRequests), NEW o \in Seq(ClientMsgs), NEW h \in Waits,
         NEW g \in Waits, NEW r \in Seq(ClientMsgs), NEW S \in SUBSET ClientMsgs, Grows(o, r, S),
         ConnectionFits(d, q, o, h),
         \A id \in CheckIds : g[id] \in {h[id], NoCheck} \/ g[id].cancelled,
         \A m \in S : m.op = "check" /\ h[m.id] # NoCheck /\ ~h[m.id].cancelled
                      /\ h[m.id].key = m.key /\ g[m.id] = NoCheck,
         \A m, n \in S : m.id = n.id => m = n
  PROVE  ConnectionFits(d, q, r, g)
<1>1. \A i \in DOMAIN q : q[i] \in ClientRequests /\ q[i].id \in CheckIds
  BY SMTT(30) DEF ClientRequests
<1>2. \A m \in S : m.id \in CheckIds
  BY DEF ClientMsgs
<1>3. \A i \in DOMAIN r : (i \in DOMAIN o /\ r[i] = o[i]) \/ (i \notin DOMAIN o /\ r[i] \in S)
  BY DEF Grows
<1>4. \A i, j \in DOMAIN r : i \notin DOMAIN o /\ j \notin DOMAIN o /\ r[i] = r[j] => i = j
  BY DEF Grows
<1>5. ResponsesFit(d, r)
  <2> SUFFICES ASSUME NEW i \in DOMAIN r
               PROVE  /\ IF r[i].op = "cancelled" THEN Confirms(d[r[i].id]) ELSE Fits(d[r[i].id], r[i])
                      /\ \A j \in DOMAIN r : r[j].id = r[i].id => i = j
    BY DEF ResponsesFit
  <2>1. \A m \in S : \A j \in DOMAIN o : o[j].id # m.id
    BY <1>2 DEF ConnectionFits, ContextsFit
  <2>2. CASE i \in DOMAIN o
    BY <1>3, <2>1, <2>2, SMTT(30) DEF ConnectionFits, ResponsesFit
  <2>3. CASE i \notin DOMAIN o
    <3>1. r[i] \in S
      BY <1>3, <2>3
    <3>2. Fits(d[r[i].id], r[i]) /\ r[i].op # "cancelled"
      BY <1>2, <3>1 DEF ConnectionFits, ContextsFit, Fits
    <3>3. ASSUME NEW j \in DOMAIN r, r[j].id = r[i].id PROVE i = j
      BY <1>3, <1>4, <2>1, <2>3, <3>1, <3>3, SMTT(30)
    <3> QED BY <3>2, <3>3
  <2> QED BY <2>2, <2>3
<1>6. RequestsFit(d, q, r, g)
  <2> SUFFICES ASSUME NEW i \in DOMAIN q, q[i].op # "cancel"
               PROVE  /\ \A j \in DOMAIN r : r[j].id # q[i].id
                      /\ g[q[i].id] # NoCheck => g[q[i].id].cancelled
    BY DEF ConnectionFits, RequestsFit
  <2>1. h[q[i].id] # NoCheck => h[q[i].id].cancelled
    BY DEF ConnectionFits, RequestsFit
  <2>2. \A j \in DOMAIN o : o[j].id # q[i].id
    BY DEF ConnectionFits, RequestsFit
  <2> QED BY <1>1, <1>3, <2>1, <2>2, SMTT(30)
<1>7. ContextsFit(d, q, r, g)
  <2> SUFFICES ASSUME NEW id \in CheckIds, g[id] # NoCheck, ~g[id].cancelled
               PROVE  /\ d[id] # NoData /\ d[id].key = g[id].key /\ ~d[id].simple
                      /\ \A j \in DOMAIN q : q[j].op = "cancel" /\ q[j].id = id => d[id].cancelled
                      /\ \A j \in DOMAIN r : r[j].id # id
    BY DEF ContextsFit
  <2>1. g[id] = h[id]
    OBVIOUS
  <2> QED BY <1>3, <2>1, SMTT(30) DEF ConnectionFits, ContextsFit
<1> QED BY <1>5, <1>6, <1>7 DEF ConnectionFits

\* The client handles a response: it forgets the request.
LEMMA FitsProcess ==
  ASSUME NEW d \in Pending, NEW q \in Seq(ClientRequests), NEW o \in Seq(ClientMsgs), NEW h \in Waits,
         o # <<>>, ConnectionFits(d, q, o, h)
  PROVE  ConnectionFits([d EXCEPT ![Head(o).id] = NoData], q, Tail(o), h)
<1> DEFINE n == Head(o).id
           e == [d EXCEPT ![n] = NoData]
           r == Tail(o)
<1>1. /\ \A i \in DOMAIN r : i \in Nat /\ i + 1 \in DOMAIN o /\ i + 1 # 1 /\ r[i] = o[i + 1]
      /\ 1 \in DOMAIN o /\ n = o[1].id
  BY SMTT(30)
<1>2. \A i \in DOMAIN o : o[i].id \in CheckIds
  BY SMTT(30) DEF ClientMsgs
<1>3. \A i \in DOMAIN q : q[i].id \in CheckIds
  BY SMTT(30) DEF ClientRequests
<1>4. \A i \in CheckIds : i # n => e[i] = d[i]
  BY DEF Pending
<1> HIDE DEF n, e, r
<1>5. \A i \in DOMAIN r : r[i].id # n
  BY <1>1 DEF ConnectionFits, ResponsesFit
<1>6. ResponsesFit(e, r)
  <2> SUFFICES ASSUME NEW i \in DOMAIN r
               PROVE  /\ IF r[i].op = "cancelled" THEN Confirms(e[r[i].id]) ELSE Fits(e[r[i].id], r[i])
                      /\ \A j \in DOMAIN r : r[j].id = r[i].id => i = j
    BY DEF ResponsesFit
  <2>1. e[r[i].id] = d[r[i].id]
    BY <1>1, <1>2, <1>4, <1>5
  <2> QED BY <1>1, <2>1, SMTT(30) DEF ConnectionFits, ResponsesFit
<1>7. RequestsFit(e, q, r, h)
  <2> SUFFICES ASSUME NEW i \in DOMAIN q, q[i].op # "cancel"
               PROVE  /\ e[q[i].id] = d[q[i].id]
                      /\ \A j \in DOMAIN r : r[j].id # q[i].id
    BY DEF ConnectionFits, RequestsFit
  <2>1. \A j \in DOMAIN o : o[j].id # q[i].id
    BY DEF ConnectionFits, RequestsFit
  <2> QED BY <1>1, <1>3, <1>4, <2>1
<1>8. ContextsFit(e, q, r, h)
  <2> SUFFICES ASSUME NEW id \in CheckIds, h[id] # NoCheck, ~h[id].cancelled
               PROVE  e[id] = d[id] /\ \A j \in DOMAIN r : r[j].id # id
    BY DEF ConnectionFits, ContextsFit
  <2>1. \A j \in DOMAIN o : o[j].id # id
    BY DEF ConnectionFits, ContextsFit
  <2> QED BY <1>1, <1>4, <2>1
<1> QED BY <1>6, <1>7, <1>8 DEF ConnectionFits, e, r, n

\* The client sends a new request, with an id it does not use.
LEMMA FitsCreate ==
  ASSUME NEW d \in Pending, NEW q \in Seq(ClientRequests), NEW o \in Seq(ClientMsgs), NEW h \in Waits,
         ConnectionFits(d, q, o, h), NEW id \in CheckIds, d[id] = NoData,
         NEW x \in RequestData
  PROVE  ConnectionFits([d EXCEPT ![id] = x], Append(q, RequestMsg(id, x)), o, h)
<1> DEFINE m == RequestMsg(id, x)
           e == [d EXCEPT ![id] = x]
           r == Append(q, m)
           n == Len(q) + 1
<1>1. /\ DOMAIN r = 1 .. n /\ DOMAIN q = 1 .. (n - 1) /\ n \in Nat /\ r[n] = m
      /\ \A i \in DOMAIN q : r[i] = q[i]
  BY SMTT(30)
<1>2. \A i \in DOMAIN r : i = n \/ (i \in DOMAIN q /\ i < n /\ r[i] = q[i])
  BY <1>1, SMTT(30)
<1>3. /\ m.id = id /\ m.key = x.key /\ (m.op = "simple" <=> x.simple) /\ m.op # "cancel"
      /\ x # NoData
  <2>1. x # NoData
    BY SystemAssumption DEF RequestData, Requests
  <2>2. x.simple \in BOOLEAN
    BY DEF RequestData
  <2> QED BY <2>1, <2>2 DEF RequestMsg
<1>4. \A i \in CheckIds : e[i] = IF i = id THEN x ELSE d[i]
  BY DEF Pending
<1>5. \A i \in DOMAIN o : o[i].id \in CheckIds
  BY SMTT(30) DEF ClientMsgs
<1>6. \A i \in DOMAIN q : q[i].id \in CheckIds
  BY SMTT(30) DEF ClientRequests
<1> HIDE DEF m, e, r, n
<1>7. \A i \in DOMAIN o : o[i].id # id
  BY DEF ConnectionFits, ResponsesFit, Confirms, Fits
<1>8. \A i \in DOMAIN q : q[i].op # "cancel" => q[i].id # id
  BY DEF ConnectionFits, RequestsFit, Fits
<1>9. h[id] # NoCheck => h[id].cancelled
  BY DEF ConnectionFits, ContextsFit
<1>10. ResponsesFit(e, o)
  BY <1>4, <1>5, <1>7 DEF ConnectionFits, ResponsesFit
<1>11. RequestsFit(e, r, o, h)
  <2> SUFFICES ASSUME NEW i \in DOMAIN r, r[i].op # "cancel"
               PROVE  /\ Fits(e[r[i].id], r[i])
                      /\ \A j \in DOMAIN r : r[j].op # "cancel" /\ r[j].id = r[i].id => i = j
                      /\ \A j \in DOMAIN r : r[j].op = "cancel" /\ r[j].id = r[i].id /\ i < j => e[r[i].id].cancelled
                      /\ \A j \in DOMAIN o : o[j].id # r[i].id
                      /\ h[r[i].id] # NoCheck => h[r[i].id].cancelled
    BY DEF RequestsFit
  <2>1. CASE i = n
    <3>1. Fits(e[r[i].id], r[i])
      BY <1>1, <1>3, <1>4, <2>1 DEF Fits
    <3>2. \A j \in DOMAIN r : r[j].op # "cancel" /\ r[j].id = r[i].id => i = j
      BY <1>1, <1>2, <1>3, <1>8, <2>1
    <3>3. \A j \in DOMAIN r : ~(i < j)
      BY <1>1, <2>1, SMTT(30)
    <3> QED BY <1>1, <1>3, <1>7, <1>9, <2>1, <3>1, <3>2, <3>3
  <2>2. CASE i \in DOMAIN q
    <3>1. r[i] = q[i] /\ q[i].id # id /\ e[q[i].id] = d[q[i].id]
      BY <1>1, <1>4, <1>6, <1>8, <2>2
    <3>2. \A j \in DOMAIN r : r[j].op # "cancel" /\ r[j].id = r[i].id => i = j
      <4> SUFFICES ASSUME NEW j \in DOMAIN r, r[j].op # "cancel", r[j].id = r[i].id PROVE i = j
        OBVIOUS
      <4>1. j \in DOMAIN q
        BY <1>1, <1>2, <1>3, <3>1
      <4> QED BY <1>1, <2>2, <3>1, <4>1 DEF ConnectionFits, RequestsFit
    <3>3. \A j \in DOMAIN r : r[j].op = "cancel" => j \in DOMAIN q /\ r[j] = q[j]
      BY <1>1, <1>2, <1>3
    <3>4. \A j \in DOMAIN r : r[j].op = "cancel" /\ r[j].id = r[i].id /\ i < j => e[r[i].id].cancelled
      BY <2>2, <3>1, <3>3 DEF ConnectionFits, RequestsFit
    <3> QED BY <2>2, <3>1, <3>2, <3>4 DEF ConnectionFits, RequestsFit
  <2> QED BY <1>2, <2>1, <2>2
<1>12. ContextsFit(e, r, o, h)
  <2> SUFFICES ASSUME NEW i \in CheckIds, h[i] # NoCheck, ~h[i].cancelled
               PROVE  e[i] = d[i] /\ \A j \in DOMAIN r : r[j].op = "cancel" => j \in DOMAIN q /\ r[j] = q[j]
    BY DEF ConnectionFits, ContextsFit
  <2> QED BY <1>2, <1>1, <1>3, <1>4, <1>9
<1> QED BY <1>10, <1>11, <1>12 DEF ConnectionFits, e, r, m

\* The client cancels a request it holds.
LEMMA FitsCancelled ==
  ASSUME NEW d \in Pending, NEW q \in Seq(ClientRequests), NEW o \in Seq(ClientMsgs), NEW h \in Waits,
         ConnectionFits(d, q, o, h), NEW id \in CheckIds, d[id] # NoData
  PROVE  ConnectionFits([d EXCEPT ![id].cancelled = TRUE], Append(q, [op |-> "cancel", id |-> id]), o, h)
<1> DEFINE m == [op |-> "cancel", id |-> id]
           x == [d[id] EXCEPT !.cancelled = TRUE]
           e == [d EXCEPT ![id].cancelled = TRUE]
           r == Append(q, m)
           n == Len(q) + 1
<1>1. /\ DOMAIN r = 1 .. n /\ DOMAIN q = 1 .. (n - 1) /\ n \in Nat /\ r[n] = m
      /\ \A i \in DOMAIN q : r[i] = q[i]
  BY SMTT(30)
<1>2. \A i \in DOMAIN r : i = n \/ (i \in DOMAIN q /\ r[i] = q[i])
  BY <1>1, SMTT(30)
<1>3. /\ d[id] \in RequestData /\ x \in RequestData /\ x # NoData
      /\ x.cancelled /\ x.key = d[id].key /\ x.simple = d[id].simple
  <2>1. d[id] \in RequestData
    BY DEF Pending
  <2>2. x \in RequestData /\ x.cancelled /\ x.key = d[id].key /\ x.simple = d[id].simple
    BY <2>1 DEF RequestData
  <2> QED BY <2>1, <2>2, SystemAssumption DEF RequestData, Requests
<1>4. \A i \in CheckIds : e[i] = IF i = id THEN x ELSE d[i]
  BY DEF Pending
<1>5. m.id = id /\ m.op = "cancel"
  OBVIOUS
<1>6. \A i \in DOMAIN o : o[i].id \in CheckIds
  BY SMTT(30) DEF ClientMsgs
<1>7. \A i \in DOMAIN q : q[i].id \in CheckIds
  BY SMTT(30) DEF ClientRequests
<1> HIDE DEF m, e, r, n, x
<1>8. ASSUME NEW i \in CheckIds, d[i] # NoData
      PROVE  /\ e[i] # NoData /\ e[i].key = d[i].key /\ (e[i].simple <=> d[i].simple)
             /\ d[i].cancelled => e[i].cancelled
  BY <1>3, <1>4, <1>8
<1>9. e[id].cancelled
  BY <1>3, <1>4
<1>10. ASSUME NEW i \in CheckIds, NEW y, Fits(d[i], y) PROVE Fits(e[i], y)
  BY <1>8, <1>10 DEF Fits
<1>11. ASSUME NEW i \in CheckIds, Confirms(d[i]) PROVE Confirms(e[i])
  BY <1>8, <1>11 DEF Confirms
<1>12. ResponsesFit(e, o)
  BY <1>6, <1>10, <1>11 DEF ConnectionFits, ResponsesFit
<1>13. RequestsFit(e, r, o, h)
  <2> SUFFICES ASSUME NEW i \in DOMAIN r, r[i].op # "cancel"
               PROVE  /\ Fits(e[r[i].id], r[i])
                      /\ \A j \in DOMAIN r : r[j].op # "cancel" /\ r[j].id = r[i].id => i = j
                      /\ \A j \in DOMAIN r : r[j].op = "cancel" /\ r[j].id = r[i].id /\ i < j => e[r[i].id].cancelled
                      /\ \A j \in DOMAIN o : o[j].id # r[i].id
                      /\ h[r[i].id] # NoCheck => h[r[i].id].cancelled
    BY DEF RequestsFit
  <2>1. i \in DOMAIN q /\ r[i] = q[i] /\ q[i].id \in CheckIds
    BY <1>1, <1>2, <1>5, <1>7
  <2>2. /\ Fits(d[q[i].id], q[i])
        /\ \A j \in DOMAIN q : q[j].op # "cancel" /\ q[j].id = q[i].id => i = j
        /\ \A j \in DOMAIN q : q[j].op = "cancel" /\ q[j].id = q[i].id /\ i < j => d[q[i].id].cancelled
        /\ \A j \in DOMAIN o : o[j].id # q[i].id
        /\ h[q[i].id] # NoCheck => h[q[i].id].cancelled
    BY <2>1 DEF ConnectionFits, RequestsFit
  <2>3. Fits(e[r[i].id], r[i])
    BY <1>10, <2>1, <2>2
  <2>4. \A j \in DOMAIN r : r[j].op # "cancel" /\ r[j].id = r[i].id => i = j
    BY <1>1, <1>2, <1>5, <2>1, <2>2, SMTT(30)
  <2>5. \A j \in DOMAIN r : r[j].op = "cancel" /\ r[j].id = r[i].id /\ i < j => e[r[i].id].cancelled
    <3> SUFFICES ASSUME NEW j \in DOMAIN r, r[j].op = "cancel", r[j].id = r[i].id, i < j
                 PROVE  e[r[i].id].cancelled
      OBVIOUS
    <3>1. CASE j = n
      BY <1>1, <1>5, <1>9, <3>1
    <3>2. CASE j \in DOMAIN q /\ r[j] = q[j]
      BY <1>8, <2>1, <2>2, <3>2 DEF Fits
    <3> QED BY <1>2, <3>1, <3>2
  <2> QED BY <2>1, <2>2, <2>3, <2>4, <2>5
<1>14. ContextsFit(e, r, o, h)
  <2> SUFFICES ASSUME NEW i \in CheckIds, h[i] # NoCheck, ~h[i].cancelled
               PROVE  /\ e[i] # NoData /\ e[i].key = h[i].key /\ ~e[i].simple
                      /\ \A j \in DOMAIN r : r[j].op = "cancel" /\ r[j].id = i => e[i].cancelled
                      /\ \A j \in DOMAIN o : o[j].id # i
    BY DEF ContextsFit
  <2>1. /\ d[i] # NoData /\ d[i].key = h[i].key /\ ~d[i].simple
        /\ \A j \in DOMAIN q : q[j].op = "cancel" /\ q[j].id = i => d[i].cancelled
        /\ \A j \in DOMAIN o : o[j].id # i
    BY DEF ConnectionFits, ContextsFit
  <2>2. \A j \in DOMAIN r : r[j].op = "cancel" /\ r[j].id = i => e[i].cancelled
    BY <1>1, <1>2, <1>5, <1>8, <1>9, <2>1
  <2> QED BY <1>8, <2>1, <2>2
<1> QED BY <1>12, <1>13, <1>14 DEF ConnectionFits, e, r, m

\* A new connection starts with the requests that are kept, each sent once.
LEMMA FitsResent ==
  ASSUME Env, NEW c \in Clients, ~Connected(c), NEW h \in Waits, \A id \in CheckIds : h[id] = NoCheck
  PROVE  ConnectionFits(Data(c), Resent(c), <<>>, h)
<1> DEFINE r == Resent(c)
           d == Data(c)
<1>1. \A i \in DOMAIN r : /\ r[i].id \in Kept(c)
                          /\ r[i] = RequestMsg(r[i].id, data[c][r[i].id])
  BY ResentSound
<1>2. \A i, j \in DOMAIN r : r[i].id = r[j].id => i = j
  BY ResentSound
<1>3. \A id \in Kept(c) : d[id] = data[c][id] /\ d[id] # NoData /\ d[id] \in RequestData /\ id \in CheckIds
  BY LibraryTypes DEF Data, Kept, Ids
<1> HIDE DEF r, d
<1>4. \A i \in DOMAIN r : r[i].op # "cancel" /\ Fits(d[r[i].id], r[i])
  <2> SUFFICES ASSUME NEW i \in DOMAIN r PROVE r[i].op # "cancel" /\ Fits(d[r[i].id], r[i])
    OBVIOUS
  <2>1. PICK n \in Kept(c) : n = r[i].id /\ r[i] = RequestMsg(n, d[n]) /\ d[n] # NoData /\ d[n] \in RequestData
    BY <1>1, <1>3, SMTT(30)
  <2>2. d[n].simple \in BOOLEAN
    BY <2>1 DEF RequestData
  <2>3. RequestMsg(n, d[n]).op = (IF d[n].simple THEN "simple" ELSE "check") /\ RequestMsg(n, d[n]).key = d[n].key
    BY DEF RequestMsg
  <2> QED BY <2>1, <2>2, <2>3 DEF Fits
<1>5. ResponsesFit(d, <<>>)
  BY SMTT(30) DEF ResponsesFit
<1>6. RequestsFit(d, r, <<>>, h)
  BY <1>1, <1>2, <1>3, <1>4, SMTT(30) DEF RequestsFit
<1>7. ContextsFit(d, r, <<>>, h)
  BY DEF ContextsFit
<1> QED BY <1>5, <1>6, <1>7 DEF ConnectionFits, r, d

-----------------------------------------------------------------------------
\* What most steps of the daemon do to client link l: its checks stay, end or
\* are cancelled, and each one that ends is answered at most once.
Ends(l, m) ==
  /\ m.op = "check" /\ m.id \in CheckIds
  /\ checks[<<l, m.id>>] # NoCheck /\ ~checks[<<l, m.id>>].cancelled
  /\ checks[<<l, m.id>>].key = m.key /\ checks'[<<l, m.id>>] = NoCheck
Quiet(l) ==
  /\ \E S \in SUBSET ClientMsgs :
       /\ Grows(out[l], out'[l], S)
       /\ \A m \in S : Ends(l, m)
       /\ \A m, n \in S : m.id = n.id => m = n
  /\ \A id \in CheckIds :
       checks'[<<l, id>>] \in {checks[<<l, id>>], NoCheck} \/ checks'[<<l, id>>].cancelled

\* Nothing is sent over l.
LEMMA SilentQuiet ==
  ASSUME NEW l, Grows(out[l], out'[l], {}),
         \A id \in CheckIds :
           checks'[<<l, id>>] \in {checks[<<l, id>>], NoCheck} \/ checks'[<<l, id>>].cancelled
  PROVE  Quiet(l)
<1>1. {} \in SUBSET ClientMsgs
  OBVIOUS
<1> QED BY <1>1 DEF Quiet

\* Neither l nor its checks are touched.
LEMMA SameQuiet ==
  ASSUME NEW l, out'[l] = out[l], \A id \in CheckIds : checks'[<<l, id>>] = checks[<<l, id>>]
  PROVE  Quiet(l)
  BY NothingGrows, SilentQuiet

\* Closing client links cancels their checks.
LEMMA CancelChecksQuiet ==
  ASSUME IInv, NEW C \in SUBSET ClientLinks, CancelChecksOf(C), NEW l \in ClientLinks
  PROVE  Quiet(l)
<1>1. Grows(out[l], out'[l], {})
  BY CancelChecksSends
<1>2. ASSUME NEW id \in CheckIds
      PROVE  checks'[<<l, id>>] \in {checks[<<l, id>>], NoCheck} \/ checks'[<<l, id>>].cancelled
  <2>1. <<l, id>> \in CheckRefs
    BY DEF CheckRefs
  <2>2. checks'[<<l, id>>] \in {checks[<<l, id>>], [checks[<<l, id>>] EXCEPT !.cancelled = TRUE]}
    BY <2>1 DEF CancelChecksOf
  <2>3. CASE checks'[<<l, id>>] = checks[<<l, id>>]
    BY <2>3
  <2>4. CASE checks'[<<l, id>>] # checks[<<l, id>>]
    <3>1. <<l, id>> \in InProgress /\ checks'[<<l, id>>] = [checks[<<l, id>>] EXCEPT !.cancelled = TRUE]
      BY <2>1, <2>4 DEF CancelChecksOf
    <3>2. checks[<<l, id>>] \in Contexts
      BY <3>1, ContextType DEF IInv
    <3> QED BY <3>1, <3>2 DEF Contexts
  <2> QED BY <2>3, <2>4
<1> QED BY <1>1, <1>2, SilentQuiet

\* Closing an agent's link denies the checks that wait for it.
LEMMA DropAgentQuiet ==
  ASSUME IInv, NEW a \in AgentLinks, DropAgent(a), NEW l \in ClientLinks
  PROVE  Quiet(l)
<1> DEFINE X == {p \in InProgress : checks[p].talker \in talkers /\ checks[p].talker[1] = a}
<1>1. Grows(out[l], out'[l], Denials(a, l))
  BY DropAgentSends
<1>2. \A p \in CheckRefs : checks'[p] = IF p \in X THEN NoCheck ELSE checks[p]
  BY DEF DropAgent
<1>3. \A id \in CheckIds : <<l, id>> \in CheckRefs
  BY DEF CheckRefs
<1>4. ASSUME NEW m \in Denials(a, l)
      PROVE  \E p \in X : /\ p[1] = l /\ ~checks[p].cancelled
                          /\ m = [op |-> "check", id |-> p[2], key |-> checks[p].key, result |-> "DENY"]
  BY <1>4 DEF Denials, IInv, TalkersMatchContexts
<1>5. ASSUME NEW m \in Denials(a, l)
      PROVE  /\ m \in ClientMsgs /\ Ends(l, m)
             /\ m = [op |-> "check", id |-> m.id, key |-> checks[<<l, m.id>>].key, result |-> "DENY"]
  <2>1. PICK p \in X : /\ p[1] = l /\ ~checks[p].cancelled
                       /\ m = [op |-> "check", id |-> p[2], key |-> checks[p].key, result |-> "DENY"]
    BY <1>4, <1>5
  <2>2. p \in CheckRefs /\ p = <<l, m.id>> /\ m.id \in CheckIds /\ checks[p].key \in Keys /\ checks[p] # NoCheck
    BY <2>1, ContextType DEF IInv, InProgress
  <2>3. checks'[<<l, m.id>>] = NoCheck
    BY <1>2, <2>1, <2>2
  <2>4. m \in ClientMsgs
    BY <2>1, <2>2 DEF ClientMsgs, Decisions
  <2>5. m.op = "check" /\ m.key = checks[<<l, m.id>>].key
    BY <2>1, <2>2
  <2> QED BY <2>1, <2>2, <2>3, <2>4, <2>5 DEF Ends
<1>6. \A m, n \in Denials(a, l) : m.id = n.id => m = n
  BY <1>5
<1>7. \A id \in CheckIds : checks'[<<l, id>>] \in {checks[<<l, id>>], NoCheck}
  BY <1>2, <1>3
<1> HIDE DEF X
<1>8. Denials(a, l) \in SUBSET ClientMsgs
  BY <1>5
<1> QED BY <1>1, <1>5, <1>6, <1>7, <1>8 DEF Quiet

\* An agent's answer, as the links of clients see it.
LEMMA AgentActionQuiet ==
  ASSUME IInv, NEW a \in AgentLinks, NEW id \in TalkerIds, NEW type \in {"ACTION", "CANCEL"},
         NEW st \in Decisions \cup {"EXCEPTION"}, ExecuteAgentAction(a, id, type, st), NEW l \in ClientLinks
  PROVE  Quiet(l)
<1>1. CASE UNCHANGED <<checks, out>>
  BY <1>1, SameQuiet
<1>2. CASE DropAgent(a)
  BY <1>2, DropAgentQuiet
<1>3. ASSUME NEW p \in InProgress, checks' = [checks EXCEPT ![p] = NoCheck],
             UNCHANGED out \/ (~checks[p].cancelled /\ st \in Decisions /\ Answer(p[1], p[2], checks[p].key, st))
      PROVE  Quiet(l)
  <2>1. /\ p \in CheckRefs /\ p[1] \in ClientLinks /\ p[2] \in CheckIds /\ p = <<p[1], p[2]>>
        /\ checks[p].key \in Keys /\ checks[p] # NoCheck
    BY ContextType DEF IInv, InProgress
  <2>2. \A r \in CheckRefs : checks'[r] = IF r = p THEN NoCheck ELSE checks[r]
    BY <1>3 DEF IInv, TypeOK
  <2>3. \A i \in CheckIds : <<l, i>> \in CheckRefs
    BY DEF CheckRefs
  <2>4. \A i \in CheckIds : checks'[<<l, i>>] \in {checks[<<l, i>>], NoCheck}
    BY <2>2, <2>3
  <2>5. CASE UNCHANGED out
    BY <2>4, <2>5, NothingGrows, SilentQuiet
  <2>6. CASE ~checks[p].cancelled /\ st \in Decisions /\ Answer(p[1], p[2], checks[p].key, st)
    <3> DEFINE m == [op |-> "check", id |-> p[2], key |-> checks[p].key, result |-> st]
    <3>1. m \in ClientMsgs /\ m \in Msgs
      BY <2>1, <2>6 DEF ClientMsgs, Msgs
    <3>2. Send(p[1], m)
      BY <2>6 DEF Answer
    <3>3. Grows(out[l], out'[l], IF l = p[1] THEN {m} ELSE {})
      BY <2>1, <3>1, <3>2, SendGrows DEF Links, IInv
    <3>4. CASE l = p[1]
      <4>1. Ends(l, m)
        BY <2>1, <2>2, <2>6, <3>4 DEF Ends
      <4>2. {m} \in SUBSET ClientMsgs /\ Grows(out[l], out'[l], {m})
        BY <3>1, <3>3, <3>4
      <4> HIDE DEF m
      <4> QED BY <2>4, <4>1, <4>2 DEF Quiet
    <3>5. CASE l # p[1]
      BY <2>4, <3>3, <3>5, SilentQuiet
    <3> QED BY <3>4, <3>5
  <2> QED BY <1>3, <2>5, <2>6
<1> QED BY <1>1, <1>2, <1>3 DEF ExecuteAgentAction

\* What is known of the request the daemon reads next.
LEMMA HeadFits ==
  ASSUME NEW d \in Pending, NEW q \in Seq(ClientRequests), q # <<>>, NEW o \in Seq(ClientMsgs),
         NEW h \in Waits, ConnectionFits(d, q, o, h), Head(q).op # "cancel"
  PROVE  /\ Fits(d[Head(q).id], Head(q))
         /\ \A i \in DOMAIN o : o[i].id # Head(q).id
         /\ \A i \in DOMAIN Tail(q) : Tail(q)[i].op # "cancel" => Tail(q)[i].id # Head(q).id
         /\ \A i \in DOMAIN Tail(q) :
              Tail(q)[i].op = "cancel" /\ Tail(q)[i].id = Head(q).id => d[Head(q).id].cancelled
         /\ h[Head(q).id] # NoCheck => h[Head(q).id].cancelled
<1>1. /\ 1 \in DOMAIN q /\ Head(q) = q[1]
      /\ \A i \in DOMAIN Tail(q) : i + 1 \in DOMAIN q /\ i + 1 # 1 /\ 1 < i + 1 /\ Tail(q)[i] = q[i + 1]
  BY SMTT(30)
<1> QED BY <1>1, SMTT(30) DEF ConnectionFits, RequestsFit

\* The contexts of a client link have the right shape.
LEMMA ChecksOfType ==
  ASSUME TypeOK, NEW l \in ClientLinks
  PROVE  /\ ChecksOf(l) \in Waits
         /\ \A id \in CheckIds : ChecksOf(l)[id] = checks[<<l, id>>]
  BY DEF ChecksOf, Waits, TypeOK, CheckRefs

\* A quiet step of the others keeps the connection of client c fitting.
LEMMA QuietFits ==
  ASSUME IInv, IInv', Env, OutTyped', NEW c \in Clients, NEW l \in ClientLinks, Quiet(l),
         ConnectionFits(data[c], in[l], out[l], ChecksOf(l)), NEW q \in {in[l], <<>>}
  PROVE  ConnectionFits(data[c], q, out'[l], ChecksOf(l)')
<1> DEFINE h == ChecksOf(l)
           g == ChecksOf(l)'
<1>1. h \in Waits /\ \A id \in CheckIds : h[id] = checks[<<l, id>>]
  BY ChecksOfType DEF IInv
<1>2. g \in Waits /\ \A id \in CheckIds : g[id] = checks'[<<l, id>>]
  BY ChecksOfType DEF IInv, ChecksOf, Waits, TypeOK, CheckRefs
<1>3. data[c] \in Pending /\ in[l] \in Seq(ClientRequests) /\ out[l] \in Seq(ClientMsgs) /\ out'[l] \in Seq(ClientMsgs)
  BY DEF Env, SysTypeOK, InTyped, OutTyped, Pending
<1>4. PICK S \in SUBSET ClientMsgs :
        /\ Grows(out[l], out'[l], S)
        /\ \A m \in S : Ends(l, m)
        /\ \A m, n \in S : m.id = n.id => m = n
  BY DEF Quiet
<1>5. \A id \in CheckIds : g[id] \in {h[id], NoCheck} \/ g[id].cancelled
  BY <1>1, <1>2 DEF Quiet
<1>6. ConnectionFits(data[c], in[l], out[l], h)
  OBVIOUS
<1> HIDE DEF h, g
<1>7. \A m \in S : m.op = "check" /\ h[m.id] # NoCheck /\ ~h[m.id].cancelled
                   /\ h[m.id].key = m.key /\ g[m.id] = NoCheck
  BY <1>1, <1>2, <1>4 DEF Ends
<1>8. ConnectionFits(data[c], in[l], out'[l], g)
  BY <1>1, <1>2, <1>3, <1>4, <1>5, <1>6, <1>7, FitsQuiet, SMTT(30)
<1> QED BY <1>8, FitsCut DEF g

\* The daemon executes a check of client c.
LEMMA CheckFits ==
  ASSUME IInv, IInv', Env, OutTyped', NEW c \in Clients, NEW l \in ClientLinks,
         ConnectionFits(data[c], in[l], out[l], ChecksOf(l)), in[l] # <<>>, Head(in[l]).op = "check",
         ExecuteCheck(l, Head(in[l]).id, Head(in[l]).key)
  PROVE  ConnectionFits(data[c], Tail(in[l]), out'[l], ChecksOf(l)')
<1> DEFINE h == ChecksOf(l)
           g == ChecksOf(l)'
           d == data[c]
           q == Tail(in[l])
           o == out[l]
           n == Head(in[l]).id
           k == Head(in[l]).key
<1>1. h \in Waits /\ \A id \in CheckIds : h[id] = checks[<<l, id>>]
  BY ChecksOfType DEF IInv
<1>2. g \in Waits /\ \A id \in CheckIds : g[id] = checks'[<<l, id>>]
  BY ChecksOfType DEF IInv, ChecksOf, Waits, TypeOK, CheckRefs
<1>3. d \in Pending /\ in[l] \in Seq(ClientRequests) /\ o \in Seq(ClientMsgs) /\ out'[l] \in Seq(ClientMsgs)
  BY DEF Env, SysTypeOK, InTyped, OutTyped, Pending
<1>4. Head(in[l]) \in ClientRequests /\ q \in Seq(ClientRequests)
  BY <1>3, SMTT(30)
<1>5. n \in CheckIds /\ k \in Keys
  BY <1>4 DEF ClientRequests
<1>6. /\ Fits(d[n], Head(in[l]))
      /\ \A i \in DOMAIN o : o[i].id # n
      /\ \A i \in DOMAIN q : q[i].op # "cancel" => q[i].id # n
      /\ \A i \in DOMAIN q : q[i].op = "cancel" /\ q[i].id = n => d[n].cancelled
      /\ h[n] # NoCheck => h[n].cancelled
  BY <1>1, <1>3, HeadFits
<1>7. ConnectionFits(d, q, o, h)
  BY <1>1, <1>3, FitsRead
<1>8. d[n] # NoData /\ d[n].key = k /\ ~d[n].simple
  BY <1>6 DEF Fits
<1> HIDE DEF h, g, d, q, o, n, k
<1>9. CASE UNCHANGED <<checks, out>>
  <2>1. g = h /\ out'[l] = o
    BY <1>9 DEF g, h, o, ChecksOf
  <2> QED BY <1>7, <2>1 DEF d, q, g
<1>10. ASSUME NEW r \in Decisions, UNCHANGED checks, checks[<<l, n>>] = NoCheck, Answer(l, n, k, r)
       PROVE  ConnectionFits(d, q, out'[l], g)
  <2> DEFINE m == [op |-> "check", id |-> n, key |-> k, result |-> r]
  <2>1. m \in ClientMsgs /\ m.id = n /\ m.op = "check" /\ m.key = k
    BY <1>5 DEF ClientMsgs
  <2>2. Fits(d[m.id], m)
    BY <1>8, <2>1 DEF Fits
  <2>3. g = h
    BY <1>10 DEF g, h, ChecksOf
  <2>4. Grows(o, out'[l], {m})
    <3>1. Send(l, m) /\ m \in Msgs /\ l \in Links /\ TypeOK
      BY <1>10, <2>1 DEF Answer, Msgs, Links, IInv
    <3> QED BY <3>1, SendGrows DEF o
  <2> HIDE DEF m
  <2>5. ConnectionFits(d, q, out'[l], h)
    BY <1>1, <1>3, <1>4, <1>6, <1>7, <2>1, <2>2, <2>4, FitsAnswer
  <2> QED BY <2>3, <2>5
<1>11. CASE Asks(l, n, k) /\ checks[<<l, n>>] = NoCheck
  <2>1. out'[l] = o
    BY <1>11, LinksAssumption DEF Asks, o, Send, IInv, TypeOK, Links
  <2>2. g[n].key = k /\ \A i \in CheckIds : i # n => g[i] = h[i]
    <3>1. PICK a \in AgentLinks :
            checks' = [checks EXCEPT ![<<l, n>>] = [talker |-> <<a, seqNo>>, key |-> k, cancelled |-> FALSE]]
      BY <1>11 DEF Asks
    <3>2. \A i \in CheckIds : <<l, i>> \in CheckRefs
      BY DEF CheckRefs
    <3>3. checks'[<<l, n>>].key = k /\ \A i \in CheckIds : i # n => checks'[<<l, i>>] = checks[<<l, i>>]
      BY <1>5, <3>1, <3>2 DEF IInv, TypeOK
    <3> QED BY <1>1, <1>2, <1>5, <3>3
  <2>3. d[n].key = g[n].key
    BY <1>8, <2>2
  <2>4. ConnectionFits(d, q, o, g)
    BY <1>1, <1>2, <1>3, <1>4, <1>5, <1>6, <1>7, <1>8, <2>2, <2>3, FitsAsk
  <2> QED BY <2>1, <2>4 DEF d, q, g
<1> QED BY <1>5, <1>9, <1>10, <1>11, CheckCases DEF d, q, n, k, g

\* The daemon executes a simple check of client c, or closes its link instead.
LEMMA SimpleFits ==
  ASSUME IInv, IInv', Env, OutTyped', NEW c \in Clients, NEW l \in ClientLinks,
         ConnectionFits(data[c], in[l], out[l], ChecksOf(l)), in[l] # <<>>, Head(in[l]).op = "simple",
         ExecuteSimpleCheck(l, Head(in[l]).id, Head(in[l]).key)
  PROVE  \/ l \notin open' /\ ConnectionFits(data[c], <<>>, out'[l], ChecksOf(l)')
         \/ ConnectionFits(data[c], Tail(in[l]), out'[l], ChecksOf(l)')
<1> DEFINE h == ChecksOf(l)
           g == ChecksOf(l)'
           d == data[c]
           q == Tail(in[l])
           o == out[l]
           n == Head(in[l]).id
           k == Head(in[l]).key
<1>1. h \in Waits
  BY ChecksOfType DEF IInv
<1>2. d \in Pending /\ in[l] \in Seq(ClientRequests) /\ o \in Seq(ClientMsgs)
  BY DEF Env, SysTypeOK, InTyped, OutTyped, Pending
<1>3. Head(in[l]) \in ClientRequests /\ q \in Seq(ClientRequests)
  BY <1>2, SMTT(30)
<1>4. n \in CheckIds /\ k \in Keys
  BY <1>3 DEF ClientRequests
<1>5. /\ Fits(d[n], Head(in[l]))
      /\ \A i \in DOMAIN o : o[i].id # n
      /\ \A i \in DOMAIN q : q[i].op # "cancel" => q[i].id # n
      /\ h[n] # NoCheck => h[n].cancelled
  BY <1>1, <1>2, HeadFits
<1>6. ConnectionFits(d, q, o, h)
  BY <1>1, <1>2, FitsRead
<1>7. d[n] # NoData /\ d[n].key = k /\ d[n].simple
  BY <1>5 DEF Fits
<1> HIDE DEF h, g, d, q, o, n, k
<1>8. CASE CancelChecksOf({l})
  <2>1. Quiet(l)
    BY <1>8, CancelChecksQuiet
  <2>2. <<>> \in {in[l], <<>>}
    OBVIOUS
  <2> QED BY <1>8, <2>1, <2>2, QuietFits DEF CancelChecksOf
<1>9. ASSUME NEW r \in Decisions \cup {"NOT_RESOLVED"}, UNCHANGED checks,
             Send(l, [op |-> "simple", id |-> n, key |-> k, result |-> r])
      PROVE  ConnectionFits(d, q, out'[l], g)
  <2> DEFINE m == [op |-> "simple", id |-> n, key |-> k, result |-> r]
  <2>1. m \in ClientMsgs /\ m.id = n /\ m.op = "simple" /\ m.key = k
    BY <1>4 DEF ClientMsgs
  <2>2. Fits(d[m.id], m)
    BY <1>7, <2>1 DEF Fits
  <2>3. g = h
    BY <1>9 DEF g, h, ChecksOf
  <2>4. Grows(o, out'[l], {m})
    <3>1. Send(l, m) /\ m \in Msgs /\ l \in Links /\ TypeOK
      BY <1>9, <2>1 DEF Msgs, Links, IInv
    <3> QED BY <3>1, SendGrows DEF o
  <2> HIDE DEF m
  <2>5. ConnectionFits(d, q, out'[l], h)
    BY <1>1, <1>2, <1>3, <1>5, <1>6, <2>1, <2>2, <2>4, FitsAnswer, SMTT(30)
  <2> QED BY <2>3, <2>5
<1> QED BY <1>8, <1>9 DEF ExecuteSimpleCheck, d, q, n, k, g

\* The daemon executes a cancel of client c: the confirmation is the response.
LEMMA CancelFits ==
  ASSUME IInv, IInv', Env, OutTyped', NEW c \in Clients, NEW l \in ClientLinks,
         ConnectionFits(data[c], in[l], out[l], ChecksOf(l)), in[l] # <<>>, Head(in[l]).op = "cancel",
         l \in open, ExecuteCancel(l, Head(in[l]).id)
  PROVE  ConnectionFits(data[c], Tail(in[l]), out'[l], ChecksOf(l)')
<1> DEFINE h == ChecksOf(l)
           g == ChecksOf(l)'
           d == data[c]
           q == Tail(in[l])
           o == out[l]
           n == Head(in[l]).id
<1>1. h \in Waits /\ \A id \in CheckIds : h[id] = checks[<<l, id>>]
  BY ChecksOfType DEF IInv
<1>2. g \in Waits /\ \A id \in CheckIds : g[id] = checks'[<<l, id>>]
  BY ChecksOfType DEF IInv, ChecksOf, Waits, TypeOK, CheckRefs
<1>3. d \in Pending /\ in[l] \in Seq(ClientRequests) /\ o \in Seq(ClientMsgs) /\ out'[l] \in Seq(ClientMsgs)
  BY DEF Env, SysTypeOK, InTyped, OutTyped, Pending
<1>4. Head(in[l]) \in ClientRequests /\ q \in Seq(ClientRequests)
  BY <1>3, SMTT(30)
<1>5. n \in CheckIds /\ <<l, n>> \in CheckRefs
  BY <1>4 DEF ClientRequests, CheckRefs
<1>6. ConnectionFits(d, q, o, h)
  BY <1>1, <1>3, FitsRead
<1>7. CASE h[n] = NoCheck \/ h[n].cancelled
  <2>1. UNCHANGED <<checks, out>>
    BY <1>1, <1>5, <1>7 DEF ExecuteCancel
  <2>2. g = h /\ out'[l] = o
    BY <2>1 DEF ChecksOf
  <2> QED BY <1>6, <2>2
<1>8. CASE h[n] # NoCheck /\ ~h[n].cancelled
  <2> DEFINE m == [op |-> "cancelled", id |-> n]
  <2>1. checks' = [checks EXCEPT ![<<l, n>>].cancelled = TRUE]
    BY <1>1, <1>5, <1>8 DEF ExecuteCancel
  <2>2. g[n] = [h[n] EXCEPT !.cancelled = TRUE] /\ \A i \in CheckIds : i # n => g[i] = h[i]
    <3>1. \A i \in CheckIds : <<l, i>> \in CheckRefs
      BY DEF CheckRefs
    <3>2. /\ checks'[<<l, n>>] = [checks[<<l, n>>] EXCEPT !.cancelled = TRUE]
          /\ \A i \in CheckIds : i # n => checks'[<<l, i>>] = checks[<<l, i>>]
      BY <1>5, <2>1, <3>1 DEF IInv, TypeOK
    <3> HIDE DEF h, g
    <3> QED BY <1>1, <1>2, <1>5, <3>2
  <2>3. h[n] \in Contexts
    BY <1>1, <1>5, <1>8 DEF Waits
  <2>4. g[n].cancelled
    BY <2>2, <2>3 DEF Contexts
  <2>5. /\ d[n] # NoData /\ d[n].cancelled
        /\ \A j \in DOMAIN o : o[j].id # n
        /\ \A i \in DOMAIN q : q[i].op # "cancel" => q[i].id # n
    <3>1. 1 \in DOMAIN in[l] /\ in[l][1] = Head(in[l])
      BY <1>3, SMTT(30)
    <3>2. d[n] # NoData /\ d[n].cancelled /\ \A j \in DOMAIN o : o[j].id # n
      BY <1>5, <1>8, <3>1 DEF ConnectionFits, ContextsFit
    <3>3. \A i \in DOMAIN q : q[i].op # "cancel" => q[i].id # n
      <4> HIDE DEF q, h, n, o, d
      <4> QED BY <1>6, <1>8 DEF ConnectionFits, RequestsFit
    <3> QED BY <3>2, <3>3
  <2>6. m \in ClientMsgs /\ m.op = "cancelled" /\ m.id = n
    BY <1>5 DEF ClientMsgs
  <2>7. Grows(o, out'[l], {m})
    BY <1>1, <1>5, <1>8, CancelSends
  <2> HIDE DEF h, g, d, q, o, n
  <2>8. ConnectionFits(d, q, o, g)
    <3>1. Grows(o, o, {}) /\ {} \in SUBSET ClientMsgs
      BY NothingGrows
    <3>2. \A i \in CheckIds : g[i] \in {h[i], NoCheck} \/ g[i].cancelled
      BY <2>2, <2>4
    <3> QED BY <1>1, <1>2, <1>3, <1>4, <1>6, <3>1, <3>2, FitsQuiet
  <2>9. Confirms(d[m.id])
    BY <2>5, <2>6 DEF Confirms
  <2> HIDE DEF m
  <2>10. ConnectionFits(d, q, out'[l], g)
    BY <1>2, <1>3, <1>4, <2>4, <2>5, <2>6, <2>7, <2>8, <2>9, FitsAnswer
  <2> QED BY <2>10 DEF d, q, g
<1> QED BY <1>7, <1>8

-----------------------------------------------------------------------------
\* The state of client c after a step, written out.
LEMMA ClientFitsNext ==
  ASSUME IInv', NEW c \in Clients, NEW l \in ClientLinks, conn'[c] = l,
         {id \in CheckIds : data'[c][id] # NoData} \subseteq used'[c],
         ConnectionFits(data'[c], in'[l], out'[l], ChecksOf(l)')
  PROVE  ClientFits(c)'
<1>1. Ids(c)' \subseteq used'[c]
  BY DEF Ids
<1>2. ChecksOf(conn[c])' = ChecksOf(l)'
  BY DEF ChecksOf
<1> QED BY <1>1, <1>2 DEF ClientFits

\* A client the step does not concern.
LEMMA OtherFits ==
  ASSUME IInv, IInv', Env, OutTyped', NEW c \in Clients, ClientFits(c),
         conn'[c] = conn[c], data'[c] = data[c], used'[c] = used[c],
         conn[c] # NoLink => Quiet(conn[c]) /\ in'[conn[c]] \in {in[conn[c]], <<>>}
  PROVE  ClientFits(c)'
<1>1. conn[c] \in ClientLinks \cup {NoLink}
  BY DEF Env, SysTypeOK
<1>2. Ids(c)' \subseteq used'[c]
  BY DEF Ids, ClientFits
<1>3. CASE conn[c] = NoLink
  BY <1>2, <1>3 DEF ClientFits
<1>4. CASE conn[c] # NoLink
  <2> DEFINE l == conn[c]
             q == in'[l]
  <2>1. l \in ClientLinks /\ Quiet(l) /\ q \in {in[l], <<>>}
    BY <1>1, <1>4
  <2>2. ConnectionFits(data[c], in[l], out[l], ChecksOf(l))
    BY <1>4 DEF ClientFits
  <2>3. PICK x \in ClientLinks : x = l
    BY <2>1
  <2>4. ConnectionFits(data[c], q, out'[x], ChecksOf(x)')
    <3> HIDE DEF l, q
    <3> QED BY <2>1, <2>2, <2>3, QuietFits
  <2>5. {id \in CheckIds : data'[c][id] # NoData} \subseteq used'[c]
    BY <1>2 DEF Ids
  <2>6. ConnectionFits(data'[c], in'[x], out'[x], ChecksOf(x)')
    BY <2>3, <2>4
  <2> QED BY <2>3, <2>5, <2>6, ClientFitsNext
<1> QED BY <1>3, <1>4

\* ensureConnection: the connection of the client that calls it.
LEMMA EnsureFits ==
  ASSUME IInv, Env, NEW c \in Clients, NEW l \in ClientLinks, Ensure(c, l), ClientFits(c)
  PROVE  /\ ConnectionFits(Data(c), Queue(c, l), out'[l], ChecksOf(l)') /\ l \in open'
         /\ Data(c) \in Pending /\ Queue(c, l) \in Seq(ClientRequests)
         /\ out'[l] \in Seq(ClientMsgs) /\ ChecksOf(l)' \in Waits
         /\ \A id \in CheckIds : Data(c)[id] # NoData => id \in Used(c)
<1>1. UNCHANGED checks
  BY DEF Ensure, Accept, svars
<1>2. ChecksOf(l)' = ChecksOf(l) /\ ChecksOf(l) \in Waits /\ \A id \in CheckIds : ChecksOf(l)[id] = checks[<<l, id>>]
  <2>1. ChecksOf(l)' = ChecksOf(l)
    BY <1>1 DEF ChecksOf
  <2> QED BY <2>1, ChecksOfType DEF IInv
<1>3. Data(c) \in Pending
  BY LibraryTypes DEF Pending
<1>4. CASE Connected(c)
  <2>1. /\ l = conn[c] /\ UNCHANGED <<out, open>> /\ l \in open /\ l # NoLink
        /\ Data(c) = data[c] /\ Queue(c, l) = in[l] /\ Used(c) = used[c]
    BY <1>4, SystemAssumption DEF Ensure, svars, Connected, Data, Queue, Used
  <2>2. in[l] \in Seq(ClientRequests) /\ out[l] \in Seq(ClientMsgs)
    BY DEF Env, SysTypeOK, InTyped, OutTyped
  <2>3. \A id \in CheckIds : data[c][id] # NoData => id \in used[c]
    BY DEF ClientFits, Ids
  <2> QED BY <1>2, <1>3, <2>1, <2>2, <2>3 DEF ClientFits
<1>5. CASE ~Connected(c)
  <2>1. /\ out'[l] = <<>> /\ l \in open' /\ ~Referenced(l)
        /\ Queue(c, l) = Resent(c)
    BY <1>5 DEF Ensure, Accept, Queue, IInv, TypeOK, Links
  <2>2. \A id \in CheckIds : checks[<<l, id>>] = NoCheck
    BY <2>1, SMTT(30) DEF Referenced, InProgress, CheckRefs
  <2>3. ConnectionFits(Data(c), Resent(c), <<>>, ChecksOf(l))
    BY <1>2, <1>5, <2>2, FitsResent
  <2>4. Resent(c) \in Seq(ClientRequests) /\ <<>> \in Seq(ClientMsgs)
    BY ResentSound, SMTT(30)
  <2>5. \A id \in CheckIds : Data(c)[id] # NoData => id \in Used(c)
    BY <1>5 DEF Data, Used, ClientFits, Kept, Ids
  <2> QED BY <1>2, <1>3, <2>1, <2>3, <2>4, <2>5
<1> QED BY <1>4, <1>5

\* ensureConnection: the other clients.
LEMMA EnsureOthers ==
  ASSUME IInv, IInv', Env, OutTyped', Exchange, NEW c \in Clients, NEW l \in ClientLinks, Ensure(c, l),
         NEW z, Inputs([in EXCEPT ![l] = z]),
         \A e \in Clients : e # c => conn'[e] = conn[e] /\ data'[e] = data[e] /\ used'[e] = used[e],
         NEW e \in Clients, e # c
  PROVE  ClientFits(e)'
<1>1. CASE conn[e] = NoLink
  BY <1>1, OtherFits DEF Exchange
<1>2. CASE conn[e] # NoLink
  <2>1. conn[e] \in ClientLinks
    BY <1>2 DEF Env, SysTypeOK
  <2>2. conn[e] # l
    BY <1>2 DEF Ensure, Held, Env, LinksApart
  <2>3. in'[conn[e]] \in {in[conn[e]], <<>>}
    BY <2>1, <2>2, InputsOne DEF Links
  <2>4. UNCHANGED checks /\ out'[conn[e]] = out[conn[e]]
    BY <2>1, <2>2 DEF Ensure, svars, Accept, IInv, TypeOK, Links
  <2>5. Quiet(conn[e])
    BY <2>4, SameQuiet
  <2> QED BY <2>3, <2>5, OtherFits DEF Exchange
<1> QED BY <1>1, <1>2

\* createCheckRequest and createSimpleRequest.
LEMMA CreateExchange ==
  ASSUME IInv, IInv', Env, OutTyped', Exchange,
         NEW c \in Clients, NEW l \in ClientLinks, NEW k \in Keys, NEW simple \in BOOLEAN,
         CreateRequest(c, l, k, simple)
  PROVE  Exchange'
<1> DEFINE free == CheckIds \ Used(c)
           id == CHOOSE i \in free : \A j \in free : i <= j
           unused == {n \in Requests : status[n] = "none"}
           n == CHOOSE i \in unused : \A j \in unused : i <= j
           d == [req |-> n, key |-> k, simple |-> simple, cancelled |-> FALSE]
<1>1. Ensure(c, l) /\ conn' = [conn EXCEPT ![c] = l] /\ ClientFits(c)
  BY DEF CreateRequest, Exchange
<1>2. /\ ConnectionFits(Data(c), Queue(c, l), out'[l], ChecksOf(l)') /\ l \in open'
      /\ Data(c) \in Pending /\ Queue(c, l) \in Seq(ClientRequests)
      /\ out'[l] \in Seq(ClientMsgs) /\ ChecksOf(l)' \in Waits
      /\ \A i \in CheckIds : Data(c)[i] # NoData => i \in Used(c)
  BY <1>1, EnsureFits
<1>3. conn'[c] = l
  BY <1>1 DEF Env, SysTypeOK
<1>4. CASE free = {}
  <2>1. /\ data' = [data EXCEPT ![c] = Data(c)] /\ used' = [used EXCEPT ![c] = Used(c)]
        /\ Inputs([in EXCEPT ![l] = Queue(c, l)])
    BY <1>4 DEF CreateRequest
  <2>2. data'[c] = Data(c) /\ used'[c] = Used(c)
    BY <2>1 DEF Env, SysTypeOK
  <2>3. in'[l] = Queue(c, l)
    BY <1>2, <2>1, InputsOne DEF Links
  <2>4. ClientFits(c)'
    BY <1>2, <1>3, <2>2, <2>3, ClientFitsNext
  <2>5. \A e \in Clients : e # c => conn'[e] = conn[e] /\ data'[e] = data[e] /\ used'[e] = used[e]
    BY <1>1, <2>1 DEF Env, SysTypeOK
  <2>6. ASSUME NEW e \in Clients, e # c PROVE ClientFits(e)'
    BY <1>1, <2>1, <2>5, <2>6, EnsureOthers
  <2> QED BY <2>4, <2>6 DEF Exchange
<1>5. CASE free # {}
  <2>1. /\ data' = [data EXCEPT ![c] = [Data(c) EXCEPT ![id] = d]]
        /\ used' = [used EXCEPT ![c] = Used(c) \cup {id}]
        /\ Inputs([in EXCEPT ![l] = Append(Queue(c, l), RequestMsg(id, d))])
    BY <1>5 DEF CreateRequest
  <2>2. id \in free
    <3>1. free \in SUBSET Nat
      BY SystemAssumption
    <3> HIDE DEF free
    <3> QED BY <1>5, <3>1, Least
  <2>3. d \in RequestData
    <3>1. unused \in SUBSET Nat /\ unused # {}
      BY SystemAssumption, SMTT(30) DEF CreateRequest, Requests
    <3>2. n \in unused
      <4> HIDE DEF unused
      <4> QED BY <3>1, Least
    <3> QED BY <3>2 DEF RequestData
  <2> HIDE DEF id, n, d
  <2>4. id \in CheckIds /\ Data(c)[id] = NoData
    BY <1>2, <2>2
  <2>5. ConnectionFits([Data(c) EXCEPT ![id] = d], Append(Queue(c, l), RequestMsg(id, d)), out'[l], ChecksOf(l)')
    BY <1>2, <2>3, <2>4, FitsCreate
  <2>6. data'[c] = [Data(c) EXCEPT ![id] = d] /\ used'[c] = Used(c) \cup {id}
    BY <2>1 DEF Env, SysTypeOK
  <2>7. in'[l] = Append(Queue(c, l), RequestMsg(id, d))
    BY <1>2, <2>1, InputsOne DEF Links
  <2>8. {i \in CheckIds : data'[c][i] # NoData} \subseteq used'[c]
    BY <1>2, <2>4, <2>6 DEF Pending
  <2>9. ClientFits(c)'
    BY <1>3, <2>5, <2>6, <2>7, <2>8, ClientFitsNext
  <2>10. \A e \in Clients : e # c => conn'[e] = conn[e] /\ data'[e] = data[e] /\ used'[e] = used[e]
    BY <1>1, <2>1 DEF Env, SysTypeOK
  <2>11. ASSUME NEW e \in Clients, e # c PROVE ClientFits(e)'
    BY <1>1, <2>1, <2>10, <2>11, EnsureOthers
  <2> QED BY <2>9, <2>11 DEF Exchange
<1> QED BY <1>4, <1>5

\* cancelRequest, and process after the connection broke.
LEMMA CancelExchange ==
  ASSUME IInv, IInv', Env, OutTyped', Exchange,
         NEW c \in Clients, NEW l \in ClientLinks, NEW id \in CheckIds, CancelRequest(c, l, id)
  PROVE  Exchange'
<1>1. /\ Ensure(c, l) /\ conn' = [conn EXCEPT ![c] = l] /\ used' = [used EXCEPT ![c] = Used(c)]
      /\ ClientFits(c)
  BY DEF CancelRequest, Exchange
<1>2. /\ ConnectionFits(Data(c), Queue(c, l), out'[l], ChecksOf(l)') /\ l \in open'
      /\ Data(c) \in Pending /\ Queue(c, l) \in Seq(ClientRequests)
      /\ out'[l] \in Seq(ClientMsgs) /\ ChecksOf(l)' \in Waits
      /\ \A i \in CheckIds : Data(c)[i] # NoData => i \in Used(c)
  BY <1>1, EnsureFits
<1>3. conn'[c] = l /\ used'[c] = Used(c)
  BY <1>1 DEF Env, SysTypeOK
<1>4. PICK d, z : /\ data' = [data EXCEPT ![c] = d] /\ Inputs([in EXCEPT ![l] = z])
                  /\ \/ d = Data(c) /\ z = Queue(c, l)
                     \/ /\ Data(c)[id] # NoData /\ d = [Data(c) EXCEPT ![id].cancelled = TRUE]
                        /\ z = Append(Queue(c, l), [op |-> "cancel", id |-> id])
  BY DEF CancelRequest
<1>5. ConnectionFits(d, z, out'[l], ChecksOf(l)')
  <2>1. Data(c)[id] # NoData =>
          ConnectionFits([Data(c) EXCEPT ![id].cancelled = TRUE],
                         Append(Queue(c, l), [op |-> "cancel", id |-> id]), out'[l], ChecksOf(l)')
    BY <1>2, FitsCancelled
  <2> QED BY <1>2, <1>4, <2>1
<1>6. \A i \in CheckIds : d[i] # NoData => i \in Used(c)
  BY <1>2, <1>4 DEF Pending
<1>7. data'[c] = d
  BY <1>4 DEF Env, SysTypeOK
<1>8. in'[l] = z
  BY <1>2, <1>4, InputsOne DEF Links
<1>9. ClientFits(c)'
  BY <1>3, <1>5, <1>6, <1>7, <1>8, ClientFitsNext
<1>10. \A e \in Clients : e # c => conn'[e] = conn[e] /\ data'[e] = data[e] /\ used'[e] = used[e]
  BY <1>1, <1>4 DEF Env, SysTypeOK
<1>11. ASSUME NEW e \in Clients, e # c PROVE ClientFits(e)'
  BY <1>1, <1>4, <1>10, <1>11, EnsureOthers
<1> QED BY <1>9, <1>11 DEF Exchange

\* A client that sends everything again over a new connection.
LEMMA ReconnectExchange ==
  ASSUME IInv, IInv', Env, OutTyped', Exchange,
         NEW c \in Clients, NEW l \in ClientLinks, Reconnect(c, l)
  PROVE  Exchange'
<1>1. /\ Ensure(c, l) /\ conn' = [conn EXCEPT ![c] = l] /\ used' = [used EXCEPT ![c] = Used(c)]
      /\ data' = [data EXCEPT ![c] = Data(c)] /\ Inputs([in EXCEPT ![l] = Queue(c, l)])
      /\ ClientFits(c)
  BY DEF Reconnect, Exchange, Queue
<1>2. /\ ConnectionFits(Data(c), Queue(c, l), out'[l], ChecksOf(l)') /\ l \in open'
      /\ \A i \in CheckIds : Data(c)[i] # NoData => i \in Used(c)
  BY <1>1, EnsureFits
<1>3. conn'[c] = l /\ used'[c] = Used(c) /\ data'[c] = Data(c)
  BY <1>1 DEF Env, SysTypeOK
<1>4. in'[l] = Queue(c, l)
  BY <1>1, <1>2, InputsOne DEF Links
<1>5. ClientFits(c)'
  BY <1>2, <1>3, <1>4, ClientFitsNext
<1>6. \A e \in Clients : e # c => conn'[e] = conn[e] /\ data'[e] = data[e] /\ used'[e] = used[e]
  BY <1>1 DEF Env, SysTypeOK
<1>7. ASSUME NEW e \in Clients, e # c PROVE ClientFits(e)'
  BY <1>1, <1>6, <1>7, EnsureOthers
<1> QED BY <1>5, <1>7 DEF Exchange

\* The steps of a client that need no new connection.
LEMMA ClientExchange ==
  ASSUME IInv, IInv', Env, OutTyped', Exchange, NEW c \in Clients,
         ServiceNotAvailable(c) \/ ProcessResponse(c) \/ Finish(c)
  PROVE  Exchange'
<1>1. ASSUME NEW e \in Clients, e # c PROVE ClientFits(e)'
  <2>1. /\ conn'[e] = conn[e] /\ data'[e] = data[e] /\ used'[e] = used[e] /\ UNCHANGED <<in, checks>>
        /\ UNCHANGED out \/ (conn[c] # NoLink /\ out' = [out EXCEPT ![conn[c]] = Tail(@)])
    BY <1>1 DEF ServiceNotAvailable, ProcessResponse, Finish, Read, svars, Env, SysTypeOK
  <2>2. conn[e] # NoLink => out'[conn[e]] = out[conn[e]]
    BY <1>1, <2>1 DEF Env, SysTypeOK, LinksApart, IInv, TypeOK, Links
  <2>3. conn[e] # NoLink => Quiet(conn[e])
    BY <2>1, <2>2, SameQuiet
  <2> QED BY <2>1, <2>3, OtherFits DEF Exchange
<1>2. CASE ServiceNotAvailable(c) \/ Finish(c)
  <2>1. conn'[c] = NoLink /\ \A id \in CheckIds : data'[c][id] = NoData
    BY <1>2, SMTT(30) DEF ServiceNotAvailable, Finish, Env, SysTypeOK
  <2>2. ClientFits(c)'
    BY <2>1 DEF ClientFits, Ids
  <2> QED BY <1>1, <2>2 DEF Exchange
<1>3. CASE ProcessResponse(c)
  <2>1. PICK l \in ClientLinks : l = conn[c] /\ l # NoLink
    BY <1>3 DEF ProcessResponse, Env, SysTypeOK
  <2> DEFINE n == Head(out[l]).id
  <2>2. /\ out[l] # <<>> /\ out' = [out EXCEPT ![l] = Tail(@)] /\ UNCHANGED <<checks, in, conn>>
        /\ data' = [data EXCEPT ![c][n] = NoData] /\ used' = [used EXCEPT ![c] = @ \ {n}]
    BY <1>3, <2>1 DEF ProcessResponse, Read
  <2>3. /\ data[c] \in Pending /\ in[l] \in Seq(ClientRequests) /\ out[l] \in Seq(ClientMsgs)
        /\ ChecksOf(l) \in Waits /\ ChecksOf(l)' = ChecksOf(l)
    <3>1. ChecksOf(l)' = ChecksOf(l)
      BY <2>2 DEF ChecksOf
    <3> QED BY <3>1, ChecksOfType DEF Env, SysTypeOK, InTyped, OutTyped, Pending, IInv
  <2>4. ConnectionFits(data[c], in[l], out[l], ChecksOf(l))
    BY <2>1 DEF Exchange, ClientFits
  <2>5. ConnectionFits([data[c] EXCEPT ![n] = NoData], in[l], Tail(out[l]), ChecksOf(l))
    BY <2>2, <2>3, <2>4, FitsProcess
  <2>6. /\ data'[c] = [data[c] EXCEPT ![n] = NoData] /\ used'[c] = used[c] \ {n}
        /\ out'[l] = Tail(out[l]) /\ in'[l] = in[l] /\ conn'[c] = l
    BY <2>1, <2>2 DEF Env, SysTypeOK, IInv, TypeOK, Links
  <2> HIDE DEF n
  <2>7. {id \in CheckIds : data'[c][id] # NoData} \subseteq used'[c]
    BY <2>3, <2>6 DEF Exchange, ClientFits, Ids, Pending
  <2>8. ConnectionFits(data'[c], in'[l], out'[l], ChecksOf(l)')
    BY <2>3, <2>5, <2>6
  <2>9. ClientFits(c)'
    BY <2>6, <2>7, <2>8, ClientFitsNext
  <2> QED BY <1>1, <2>9 DEF Exchange
<1> QED BY <1>2, <1>3

\* A step that is quiet for every client link and moves no client.
LEMMA QuietExchange ==
  ASSUME IInv, IInv', Env, OutTyped', Exchange, UNCHANGED <<conn, data, used>>,
         \A l \in ClientLinks : Quiet(l) /\ in'[l] \in {in[l], <<>>}
  PROVE  Exchange'
<1> SUFFICES ASSUME NEW c \in Clients PROVE ClientFits(c)'
  BY DEF Exchange
<1>1. conn[c] \in ClientLinks \cup {NoLink}
  BY DEF Env, SysTypeOK
<1> QED BY <1>1, OtherFits DEF Exchange

\* Agents do not touch what clients and daemon exchange.
LEMMA AgentExchange ==
  ASSUME IInv, IInv', Env, OutTyped', Exchange, NEW t \in AgentTypes,
         \/ \E a \in AgentLinks : AgentConnect(t, a)
         \/ AgentGetRequest(t)
         \/ \E q \in todo[t] : AgentPutResponse(t, q)
         \/ AgentLeave(t)
  PROVE  Exchange'
<1>1. UNCHANGED <<conn, data, used, checks>>
  BY DEF AgentConnect, AgentGetRequest, AgentPutResponse, AgentLeave, AgentHangUp, Accept, Read, svars
<1>2. ASSUME NEW l \in ClientLinks PROVE out'[l] = out[l] /\ in'[l] \in {in[l], <<>>}
  <2>1. agConn[t] \in AgentLinks \cup {NoLink}
    BY DEF Env, SysTypeOK
  <2>2. ASSUME NEW a \in AgentLinks, AgentConnect(t, a) PROVE out'[l] = out[l] /\ in'[l] \in {in[l], <<>>}
    <3>1. l # a /\ l \in Links /\ a \in Links
      BY LinksAssumption DEF Links
    <3>2. out'[l] = out[l]
      BY <2>2, <3>1 DEF AgentConnect, Accept, IInv, TypeOK
    <3>3. Inputs([in EXCEPT ![a] = <<[op |-> "register", type |-> t]>>])
      BY <2>2 DEF AgentConnect
    <3> QED BY <3>1, <3>2, <3>3, InputsOne
  <2>3. CASE AgentGetRequest(t)
    BY <2>1, <2>3, LinksAssumption DEF AgentGetRequest, AgentHangUp, Read, IInv, TypeOK, Links
  <2>4. CASE \E q \in todo[t] : AgentPutResponse(t, q)
    <3>1. l \in Links /\ l # agConn[t]
      BY <2>1, LinksAssumption, SystemAssumption DEF Links
    <3> QED BY <2>4, <3>1 DEF AgentPutResponse, svars, Env, SysTypeOK
  <2>5. CASE AgentLeave(t)
    BY <2>5 DEF AgentLeave, AgentHangUp, svars
  <2> QED BY <2>2, <2>3, <2>4, <2>5
<1>3. \A l \in ClientLinks : Quiet(l)
  BY <1>1, <1>2, SameQuiet
<1> QED BY <1>1, <1>2, <1>3, QuietExchange

\* A request of one client does not touch the links of the others.
LEMMA RequestQuiet ==
  ASSUME IInv, NEW x \in ClientLinks, NEW id \in CheckIds, NEW l \in ClientLinks, l # x,
         \/ \E k \in Keys : ExecuteCheck(x, id, k) \/ ExecuteSimpleCheck(x, id, k)
         \/ ExecuteCancel(x, id)
  PROVE  Quiet(l)
<1>1. \A i \in CheckIds : <<l, i>> \in CheckRefs /\ <<l, i>> # <<x, id>>
  BY DEF CheckRefs
<1>2. l \in Links /\ x \in Links /\ l \notin AgentLinks
  BY LinksAssumption DEF Links
<1>3. ASSUME NEW k \in Keys, ExecuteCheck(x, id, k) PROVE Quiet(l)
  <2>1. \A i \in CheckIds : checks'[<<l, i>>] = checks[<<l, i>>]
    <3>1. CASE UNCHANGED checks
      BY <3>1
    <3>2. CASE Asks(x, id, k)
      BY <1>1, <3>2 DEF Asks, IInv, TypeOK
    <3> QED BY <1>3, <3>1, <3>2, CheckCases
  <2>2. out'[l] = out[l]
    <3>1. CASE UNCHANGED out
      BY <3>1
    <3>2. CASE \E r \in Decisions : Answer(x, id, k, r)
      BY <1>2, <3>2 DEF Answer, Send, IInv, TypeOK
    <3>3. CASE Asks(x, id, k)
      BY <1>2, <3>3 DEF Asks, Send, IInv, TypeOK
    <3> QED BY <1>3, <3>1, <3>2, <3>3, CheckCases
  <2> QED BY <2>1, <2>2, SameQuiet
<1>4. ASSUME NEW k \in Keys, ExecuteSimpleCheck(x, id, k) PROVE Quiet(l)
  <2>1. CASE CancelChecksOf({x})
    BY <2>1, CancelChecksQuiet
  <2>2. ASSUME NEW m, Send(x, m), UNCHANGED checks PROVE Quiet(l)
    <3>1. out'[l] = out[l]
      BY <1>2, <2>2 DEF Send, IInv, TypeOK
    <3> QED BY <2>2, <3>1, SameQuiet
  <2> QED BY <1>4, <2>1, <2>2 DEF ExecuteSimpleCheck
<1>5. CASE ExecuteCancel(x, id)
  <2>1. CASE UNCHANGED <<checks, out>>
    BY <2>1, SameQuiet
  <2>2. CASE checks[<<x, id>>] # NoCheck /\ ~checks[<<x, id>>].cancelled
    <3>1. Grows(out[l], out'[l], {})
      BY <1>5, <2>2, CancelSends
    <3>2. checks' = [checks EXCEPT ![<<x, id>>].cancelled = TRUE]
      BY <1>5, <2>2 DEF ExecuteCancel
    <3>3. \A i \in CheckIds : checks'[<<l, i>>] = checks[<<l, i>>]
      BY <1>1, <3>2 DEF IInv, TypeOK
    <3> QED BY <3>1, <3>3, SilentQuiet
  <2> QED BY <1>5, <2>1, <2>2 DEF ExecuteCancel
<1> QED BY <1>3, <1>4, <1>5

\* The steps of the daemon.
LEMMA DaemonExchange ==
  ASSUME IInv, IInv', Env, OutTyped', Exchange,
         \/ \E l \in Links : Handle(l) \/ HandleHangUp(l)
         \/ Administrate \/ StopService \/ StartService
  PROVE  Exchange'
<1>1. UNCHANGED <<conn, data, used>>
  BY DEF Handle, HandleHangUp, Administrate, StopService, StartService, pvars
<1>2. ASSUME Inputs(in) PROVE \A l \in ClientLinks : in'[l] \in {in[l], <<>>}
  BY <1>2 DEF Inputs, Links
<1>3. ASSUME NEW x \in Links, Handle(x) PROVE Exchange'
  <2>1. /\ in[x] # <<>> /\ Inputs([in EXCEPT ![x] = Tail(in[x])])
    BY <1>3 DEF Handle, Env, SysTypeOK
  <2>2. /\ in'[x] = IF x \in open' THEN Tail(in[x]) ELSE <<>>
        /\ \A y \in Links : y # x => in'[y] \in {in[y], <<>>}
    BY <2>1, InputsOne
  <2>3. CASE x \in AgentLinks
    <3>1. \A y \in ClientLinks : in'[y] \in {in[y], <<>>}
      BY <2>2, <2>3, LinksAssumption DEF Links
    <3>2. Head(in[x]) \in AgentRequests
      BY <2>1, <2>3, InputTypes, SMTT(30)
    <3>3. ASSUME NEW y \in ClientLinks PROVE Quiet(y)
      <4>1. ASSUME NEW u \in AgentTypes, ExecuteAgentRegister(x, u) PROVE Quiet(y)
        <5>1. y # x /\ y \in Links /\ x \in Links
          BY <2>3, LinksAssumption DEF Links
        <5>2. UNCHANGED checks /\ out'[y] = out[y]
          BY <4>1, <5>1 DEF ExecuteAgentRegister, Send, IInv, TypeOK
        <5> QED BY <5>2, SameQuiet
      <4>2. CASE Head(in[x]).op = "register"
        <5>1. ExecuteAgentRegister(x, Head(in[x]).type) /\ Head(in[x]).type \in AgentTypes
          BY <1>3, <3>2, <4>2 DEF Handle, AgentRequests
        <5> QED BY <4>1, <5>1
      <4>3. CASE Head(in[x]).op = "answer"
        <5>1. PICK s \in Decisions \cup {"EXCEPTION"} : ExecuteAgentAction(x, Head(in[x]).id, Head(in[x]).type, s)
          BY <1>3, <4>3 DEF Handle
        <5>2. Head(in[x]).id \in TalkerIds /\ Head(in[x]).type \in {"ACTION", "CANCEL"}
          BY <3>2, <4>3 DEF AgentRequests
        <5> QED BY <2>3, <5>1, <5>2, AgentActionQuiet
      <4> QED BY <3>2, <4>2, <4>3 DEF AgentRequests
    <3> QED BY <1>1, <3>1, <3>3, QuietExchange
  <2>4. CASE x \in ClientLinks
    <3> DEFINE m == Head(in[x])
    <3>1. m \in ClientRequests /\ in[x] \in Seq(ClientRequests)
      BY <2>1, <2>4, InputTypes, SMTT(30)
    <3>2. m.op \in {"check", "simple", "cancel"} /\ m.id \in CheckIds /\ (m.op # "cancel" => m.key \in Keys)
      BY <3>1 DEF ClientRequests
    <3>3. /\ m.op = "check" => ExecuteCheck(x, m.id, m.key)
          /\ m.op = "simple" => ExecuteSimpleCheck(x, m.id, m.key)
          /\ m.op = "cancel" => ExecuteCancel(x, m.id)
          /\ x \in open
      BY <1>3 DEF Handle
    <3>4. ASSUME NEW l \in ClientLinks, l # x PROVE Quiet(l) /\ in'[l] \in {in[l], <<>>}
      <4>1. Quiet(l)
        BY <2>4, <3>2, <3>3, <3>4, RequestQuiet
      <4> QED BY <2>2, <3>4, <4>1 DEF Links
    <3>5. ASSUME NEW c \in Clients, conn[c] = x PROVE ClientFits(c)'
      <4>1. x # NoLink /\ ConnectionFits(data[c], in[x], out[x], ChecksOf(x))
        BY <2>4, <3>5, SystemAssumption DEF Exchange, ClientFits
      <4>2. \/ x \notin open' /\ ConnectionFits(data[c], <<>>, out'[x], ChecksOf(x)')
            \/ ConnectionFits(data[c], Tail(in[x]), out'[x], ChecksOf(x)')
        <5>1. CASE m.op = "check"
          BY <2>1, <2>4, <3>3, <4>1, <5>1, CheckFits
        <5>2. CASE m.op = "simple"
          BY <2>1, <2>4, <3>3, <4>1, <5>2, SimpleFits
        <5>3. CASE m.op = "cancel"
          BY <2>1, <2>4, <3>3, <4>1, <5>3, CancelFits
        <5> QED BY <3>2, <5>1, <5>2, <5>3
      <4>3. ConnectionFits(data[c], in'[x], out'[x], ChecksOf(x)')
        BY <2>2, <4>2, FitsCut
      <4>4. {id \in CheckIds : data'[c][id] # NoData} \subseteq used'[c]
        BY <1>1 DEF Exchange, ClientFits, Ids
      <4> QED BY <1>1, <2>4, <3>5, <4>3, <4>4, ClientFitsNext
    <3>6. ASSUME NEW c \in Clients, conn[c] # x PROVE ClientFits(c)'
      <4>1. conn[c] \in ClientLinks \cup {NoLink}
        BY DEF Env, SysTypeOK
      <4> QED BY <1>1, <3>4, <3>6, <4>1, OtherFits DEF Exchange
    <3> QED BY <3>5, <3>6 DEF Exchange
  <2> QED BY <2>3, <2>4 DEF Links
<1>4. ASSUME NEW x \in Links, HandleHangUp(x) PROVE Exchange'
  <2>1. ASSUME NEW l \in ClientLinks PROVE Quiet(l)
    BY <1>4, CancelChecksQuiet, DropAgentQuiet DEF HandleHangUp, CloseClient, CloseAgent
  <2> QED BY <1>1, <1>2, <1>4, <2>1, QuietExchange DEF HandleHangUp
<1>5. CASE Administrate
  <2>1. ASSUME NEW l \in ClientLinks PROVE Quiet(l)
    <3>1. CASE UNCHANGED <<checks, out>>
      BY <3>1, SameQuiet
    <3>2. CASE CancelChecksOf(open \cap ClientLinks)
      BY <3>2, CancelChecksQuiet
    <3> QED BY <1>5, <3>1, <3>2 DEF Administrate, ChangePolicies
  <2> QED BY <1>1, <1>2, <1>5, <2>1, QuietExchange DEF Administrate
<1>6. CASE StopService
  <2>1. ASSUME NEW l \in ClientLinks PROVE Quiet(l)
    <3>1. \A i \in CheckIds : checks'[<<l, i>>] = NoCheck
      BY <1>6 DEF StopService, Stop, CheckRefs
    <3>2. Grows(out[l], out'[l], {})
      BY <1>6, NothingGrows DEF StopService, Stop
    <3> QED BY <3>1, <3>2, SilentQuiet
  <2> QED BY <1>1, <1>2, <1>6, <2>1, QuietExchange DEF StopService
<1>7. CASE StartService
  <2>1. UNCHANGED <<in, checks, out>>
    BY <1>7 DEF StartService, Start, pvars
  <2> QED BY <1>1, <2>1, SameQuiet, QuietExchange
<1> QED BY <1>3, <1>4, <1>5, <1>6, <1>7

\* Every step keeps requests, contexts and responses matched.
LEMMA ExchangeStep ==
  ASSUME IInv, IInv', Env, Env', Exchange, [SysNext]_vars PROVE Exchange'
<1>1. OutTyped'
  BY DEF Env, SysTypeOK
<1>2. CASE UNCHANGED vars
  <2>1. UNCHANGED <<conn, data, used, in, checks, out>>
    BY <1>2 DEF vars, svars, pvars
  <2> QED BY <1>1, <2>1, SameQuiet, QuietExchange
<1> QED BY <1>1, <1>2, CreateExchange, CancelExchange, ReconnectExchange, ClientExchange, AgentExchange,
           DaemonExchange DEF SysNext

=============================================================================
