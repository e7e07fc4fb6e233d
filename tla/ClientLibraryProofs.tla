------------------------ MODULE ClientLibraryProofs -------------------------
(***************************************************************************)
(* ClientLibrary for any keys, policies, plugins and capacities: decisions *)
(* are for the key that was asked and not older than the call, the cache   *)
(* never uses an erased element, and the daemon gets no entry twice.       *)
(***************************************************************************)
EXTENDS ClientLibrary, TLAPS

\* Zenon proves a leaf that names no other prover; it may take its time.
USE ZenonT(40)

KeySet   == {q.key : q \in Questions} \cup {"none"}
Sessions == {q.session : q \in Questions} \cup {"none"}
Entry    == [seq : Nat, entry : [key : KeySet, result : {"ACCESS_ALLOWED", "ACCESS_DENIED"}]]
Requests == {m \in [type : {"check", "simple", "put"}, key : KeySet, seq : Nat, entries : Seq(Entry)] :
               m.type # "put" => m.entries = <<>>}
Answers  == [type : {"check", "simple"}, key : KeySet, seq : Nat, version : Nat,
             ret : {"SUCCESS", "ACCESS_NOT_RESOLVED"}]
NoAnswer == [type |-> "none"]
Places   == {"idle", "ensure", "lookup", "send", "wait", "reconnect", "record", "store", "flush",
             "put", "delete", "crashed"}
Returns  == {"none", "SUCCESS", "ACCESS_NOT_RESOLVED", "ACCESS_ALLOWED", "ACCESS_DENIED",
             "SERVICE_NOT_AVAILABLE", "UNKNOWN_ERROR"}
Calls    == [at : Places, op : {"none", "check", "simple", "finish"}, key : KeySet, session : Sessions,
             then : {"none", "idle", "store", "delete"}, seq : Nat, answer : Answers \cup {NoAnswer},
             ret : Returns, since : Nat]
Links    == [open : BOOLEAN, closed : BOOLEAN, reqs : Seq(Requests), resps : Seq(Answers)]

-----------------------------------------------------------------------------
\* A cache whose list and map fit: every key of the list is in the map, and once
\* in the list.
Sound(c) ==
    /\ DOMAIN c = {"usage", "value", "null"} /\ c.null \in BOOLEAN
    /\ c.usage \in Seq(KeySet)
    /\ \A i, j \in DOMAIN c.usage : c.usage[i] = c.usage[j] => i = j
    /\ \A i \in DOMAIN c.usage : c.usage[i] \in DOMAIN c.value
    /\ \A k \in DOMAIN c.value : c.value[k].result.answer \in Answers

\* Places of a check that has not found its key in the cache.
Asking ==
    \/ call.at \in {"send", "wait", "reconnect", "store"}
    \/ call.at \in {"record", "flush", "put"} /\ call.then = "store"

\* What a call knows where it is: its kind, how it goes on and its answer.
Steps ==
    /\ call.at \in {"ensure", "lookup", "send", "wait", "reconnect", "record", "store"} =>
         call.op \in {"check", "simple"}
    /\ call.at \in {"record", "store"} => call.answer \in Answers
    /\ call.at = "record" => call.then \in {"idle", "store"}
    /\ call.at \in {"flush", "put"} =>
         /\ call.then \in {"idle", "store", "delete"}
         /\ call.then = "store" => call.op \in {"check", "simple"} /\ call.answer \in Answers
         /\ call.then = "delete" => call.op = "finish"
    /\ call.at = "delete" => call.op = "finish"
    /\ call.op = "finish" => call.answer = NoAnswer

ClientTypeOK ==
    /\ link \in Links /\ readQueue \in Seq(Answers)
    /\ listening \in BOOLEAN /\ monitoring \in BOOLEAN /\ leftover \in BOOLEAN
    /\ call \in Calls /\ version \in Nat /\ calls \in Nat
    /\ entries \in Seq(Entry) /\ logged \in Seq(Entry) /\ parting \in Seq(Requests)
    /\ link.closed => link.reqs = <<>>
    /\ ~link.open => link.reqs = <<>> /\ link.resps = <<>>
    /\ Steps

CacheInv ==
    /\ Sound(cache)
    /\ Asking => call.key \notin DOMAIN cache.value
    /\ CrashOnlyByMissingPlugin

\* At most one request or response of the call is on the way.
Exchange ==
    /\ readQueue = <<>>
    /\ call.at # "wait" => link.resps = <<>> /\ \A i \in DOMAIN link.reqs : link.reqs[i].type = "put"
    /\ \A i \in DOMAIN link.reqs : link.reqs[i].type # "put" =>
         /\ link.reqs[i].key = call.key /\ link.resps = <<>>
         /\ \A j \in DOMAIN link.reqs : link.reqs[j].type # "put" => j = i
    /\ Len(link.resps) <= 1
    /\ \A i \in DOMAIN link.resps :
         /\ link.resps[i].key = call.key /\ link.resps[i].version >= call.since
         /\ IsConnected => link.resps[i].version = version

\* What is cached, and the answer that is about to be, is of the present version
\* as long as the connection is.
Fresh ==
    /\ \A k \in DOMAIN cache.value : cache.value[k].result.answer.key = k
    /\ call.answer # NoAnswer => call.answer.key = call.key
    /\ ~monitoring =>
         /\ call.at \notin {"flush", "put"}
         /\ call.answer # NoAnswer => call.answer.version >= call.since
         /\ IsConnected =>
              /\ \A k \in DOMAIN cache.value : cache.value[k].result.answer.version = version
              /\ call.at \in {"record", "store"} => call.answer.version = version
         /\ call.at = "lookup" =>
              \A k \in DOMAIN cache.value : cache.value[k].result.answer.version >= call.since

FreshInv == call.since <= version /\ (~leftover => Exchange /\ Fresh)

-----------------------------------------------------------------------------
\* The sequence numbers in a list of entries and in the requests of a queue, and
\* that each is there once.
In(s) == {s[i].seq : i \in DOMAIN s}
Distinct(s) == \A i, j \in DOMAIN s : s[i].seq = s[j].seq => i = j
SentIn(q) == UNION {In(q[i].entries) : i \in DOMAIN q}
SentOnce(q) ==
    /\ \A i \in DOMAIN q : Distinct(q[i].entries)
    /\ \A i, j \in DOMAIN q : i # j => In(q[i].entries) \cap In(q[j].entries) = {}

Once(L, P, Q, B) ==
    /\ Distinct(L) /\ SentOnce(P) /\ SentOnce(Q) /\ Distinct(B)
    /\ In(L) \cap SentIn(P) = {} /\ In(L) \cap SentIn(Q) = {} /\ In(L) \cap In(B) = {}
    /\ SentIn(P) \cap SentIn(Q) = {} /\ SentIn(P) \cap In(B) = {} /\ SentIn(Q) \cap In(B) = {}

Noted == In(logged) \cup SentIn(parting) \cup SentIn(link.reqs) \cup In(entries)

\* A call numbers its entry before it is in the buffer.
OnceInv ==
    /\ Once(logged, parting, link.reqs, entries)
    /\ \A n \in Noted : n <= calls
    /\ call.seq <= calls
    /\ call.at \in {"ensure", "lookup", "send", "wait", "reconnect", "record"} => call.seq \notin Noted

ClientInv == ClientTypeOK /\ CacheInv /\ FreshInv /\ OnceInv

-----------------------------------------------------------------------------
\* The list without a key has no other keys, and each once.
LEMMA OthersKeys ==
  ASSUME NEW K, NEW u \in Seq(K), NEW k, \A i, j \in DOMAIN u : u[i] = u[j] => i = j
  PROVE  /\ Others(u, k) \in Seq(K)
         /\ \A i \in DOMAIN Others(u, k) : Others(u, k)[i] # k /\ \E j \in DOMAIN u : Others(u, k)[i] = u[j]
         /\ \A i, j \in DOMAIN Others(u, k) : Others(u, k)[i] = Others(u, k)[j] => i = j
<1>1. CASE ~\E i \in DOMAIN u : u[i] = k
  BY <1>1 DEF Others
<1>2. CASE \E i \in DOMAIN u : u[i] = k
  <2> DEFINE a == CHOOSE i \in DOMAIN u : u[i] = k
             w == [i \in 1 .. Len(u) - 1 |-> u[IF i < a THEN i ELSE i + 1]]
  <2>1. a \in 1 .. Len(u) /\ u[a] = k /\ DOMAIN u = 1 .. Len(u) /\ Len(u) \in Nat
    BY <1>2, SMTT(30)
  <2>2. Others(u, k) = w
    BY <1>2 DEF Others
  <2> HIDE DEF a
  <2>3. \A i \in 1 .. Len(u) - 1 : w[i] = u[IF i < a THEN i ELSE i + 1] /\ (IF i < a THEN i ELSE i + 1) \in 1 .. Len(u)
    BY <2>1, SMTT(30)
  <2>4. Len(u) - 1 \in Nat /\ w \in [1 .. Len(u) - 1 -> K]
    BY <2>1, <2>3, SMTT(30)
  <2>5. w \in Seq(K) /\ DOMAIN w = 1 .. Len(u) - 1
    BY <2>4, SMTT(30)
  <2>6. \A i \in DOMAIN w : w[i] # k /\ \E j \in DOMAIN u : w[i] = u[j]
    BY <2>1, <2>3, <2>5, SMTT(30)
  <2>7. ASSUME NEW i \in DOMAIN w, NEW j \in DOMAIN w, w[i] = w[j] PROVE i = j
    <3>1. i \in 1 .. Len(u) - 1 /\ j \in 1 .. Len(u) - 1
      BY <2>5
    <3>2. u[IF i < a THEN i ELSE i + 1] = u[IF j < a THEN j ELSE j + 1]
      BY <2>3, <2>7, <3>1
    <3>3. (IF i < a THEN i ELSE i + 1) = (IF j < a THEN j ELSE j + 1)
      BY <2>1, <2>3, <3>1, <3>2
    <3> QED BY <2>1, <3>1, <3>3, SMTT(30)
  <2> HIDE DEF w
  <2> QED BY <2>2, <2>5, <2>6, <2>7
<1> QED BY <1>1, <1>2

\* Moving a key to the front of the list keeps each key once.
LEMMA FrontKeys ==
  ASSUME NEW K, NEW u \in Seq(K), NEW k \in K, \A i, j \in DOMAIN u : u[i] = u[j] => i = j
  PROVE  /\ <<k>> \o Others(u, k) \in Seq(K)
         /\ \A i \in DOMAIN (<<k>> \o Others(u, k)) :
              (<<k>> \o Others(u, k))[i] = k \/ \E j \in DOMAIN u : (<<k>> \o Others(u, k))[i] = u[j]
         /\ \A i, j \in DOMAIN (<<k>> \o Others(u, k)) :
              (<<k>> \o Others(u, k))[i] = (<<k>> \o Others(u, k))[j] => i = j
<1> DEFINE o == Others(u, k)
           w == <<k>> \o o
<1>1. /\ o \in Seq(K)
      /\ \A i \in DOMAIN o : o[i] # k /\ \E j \in DOMAIN u : o[i] = u[j]
      /\ \A i, j \in DOMAIN o : o[i] = o[j] => i = j
  BY OthersKeys
<1> HIDE DEF o
<1>2. /\ w \in Seq(K) /\ Len(w) = Len(o) + 1 /\ Len(o) \in Nat /\ DOMAIN o = 1 .. Len(o)
      /\ w[1] = k /\ \A i \in 2 .. Len(o) + 1 : w[i] = o[i - 1]
  BY <1>1, SMTT(30)
<1>3. DOMAIN w = 1 .. Len(o) + 1
  BY <1>2, SMTT(30)
<1> HIDE DEF w
<1>4. \A i \in DOMAIN w : i = 1 \/ (i \in 2 .. Len(o) + 1 /\ i - 1 \in DOMAIN o)
  BY <1>2, <1>3, SMTT(30)
<1>5. \A i \in DOMAIN w : w[i] = k \/ \E j \in DOMAIN u : w[i] = u[j]
  BY <1>1, <1>2, <1>4, SMTT(30)
<1>6. \A i, j \in DOMAIN w : w[i] = w[j] => i = j
  BY <1>1, <1>2, <1>3, <1>4, SMTT(30)
<1> QED BY <1>2, <1>5, <1>6 DEF w, o

\* Dropping a key keeps list and map in step.
LEMMA DropSound ==
  ASSUME NEW c, Sound(c), NEW k
  PROVE  /\ Sound(Drop(c, k)) /\ Drop(c, k).null = c.null
         /\ DOMAIN Drop(c, k).value = DOMAIN c.value \ {k}
         /\ \A m \in DOMAIN Drop(c, k).value : Drop(c, k).value[m] = c.value[m]
<1> DEFINE d == Drop(c, k)
<1>1. DOMAIN c = {"usage", "value", "null"}
  BY DEF Sound
<1>2. /\ DOMAIN d = {"usage", "value", "null"} /\ d.null = c.null
      /\ d.usage = Others(c.usage, k) /\ d.value = [m \in DOMAIN c.value \ {k} |-> c.value[m]]
  BY <1>1 DEF Drop
<1> HIDE DEF d
<1>3. /\ d.usage \in Seq(KeySet)
      /\ \A i \in DOMAIN d.usage : d.usage[i] # k /\ \E j \in DOMAIN c.usage : d.usage[i] = c.usage[j]
      /\ \A i, j \in DOMAIN d.usage : d.usage[i] = d.usage[j] => i = j
  BY <1>2, OthersKeys, SMTT(30) DEF Sound
<1>4. DOMAIN d.value = DOMAIN c.value \ {k} /\ \A m \in DOMAIN d.value : d.value[m] = c.value[m]
  BY <1>2
<1>5. \A i \in DOMAIN d.usage : d.usage[i] \in DOMAIN d.value
  BY <1>3, <1>4 DEF Sound
<1>6. Sound(d)
  BY <1>2, <1>3, <1>4, <1>5 DEF Sound
<1> QED BY <1>2, <1>4, <1>6 DEF d
\* What a plugin makes of a result is a decision.
LEMMA ResultDecides ==
  ASSUME NEW plugin, NEW type PROVE ToResult(plugin, type) \in {"ACCESS_ALLOWED", "ACCESS_DENIED"}
BY DEF ToResult

\* Looking a plugin up only touches the plugin map.
LEMMA FindSound ==
  ASSUME NEW c, Sound(c), NEW type
  PROVE  /\ Sound(AfterFind(c, type)) /\ AfterFind(c, type).usage = c.usage
         /\ AfterFind(c, type).value = c.value /\ (c.null => AfterFind(c, type).null)
<1> DEFINE d == AfterFind(c, type)
<1>1. DOMAIN c = {"usage", "value", "null"} /\ c.null \in BOOLEAN
  BY DEF Sound
<1>2. /\ DOMAIN d = {"usage", "value", "null"} /\ d.null = (c.null \/ PluginOf(type) = "none")
      /\ d.usage = c.usage /\ d.value = c.value
  BY <1>1 DEF AfterFind
<1> HIDE DEF d
<1>3. d.null \in BOOLEAN /\ (c.null => d.null)
  BY <1>1, <1>2
<1>4. Sound(d)
  BY <1>2, <1>3 DEF Sound
<1> QED BY <1>2, <1>3, <1>4 DEF d

\* get finds a kept result of the key, or misses and the key is not in the cache.
LEMMA GetSound ==
  ASSUME NEW c, Sound(c), NEW session, NEW k \in KeySet
  PROVE  LET got == Get(c, session, k) IN
         /\ Sound(got.cache) /\ (c.null => got.cache.null)
         /\ \A m \in DOMAIN got.cache.value : m \in DOMAIN c.value /\ got.cache.value[m] = c.value[m]
         /\ got.ret \in {"CACHE_MISS", "ACCESS_ALLOWED", "ACCESS_DENIED"}
         /\ got.ret = "CACHE_MISS" => k \notin DOMAIN got.cache.value
         /\ got.ret # "CACHE_MISS" => k \in DOMAIN c.value /\ got.result = c.value[k].result
<1> DEFINE v == c.value[k]
           plugin == PluginOf(v.result.type)
           found == AfterFind(c, v.result.type)
           got == Get(c, session, k)
           front == [found EXCEPT !.usage = <<k>> \o Others(@, k)]
<1>1. Sound(found) /\ found.usage = c.usage /\ found.value = c.value /\ (c.null => found.null)
  BY FindSound
<1> HIDE DEF found
<1>2. CASE k \notin DOMAIN c.value
  <2>1. got = [ret |-> "CACHE_MISS", cache |-> c]
    BY <1>2 DEF Get
  <2>2. got.ret = "CACHE_MISS" /\ got.cache = c
    BY <2>1, SMTT(30)
  <2> HIDE DEF got
  <2> QED BY <1>2, <2>2 DEF got
<1>3. CASE k \in DOMAIN c.value /\ plugin = "none"
  <2>1. got = [ret |-> "ACCESS_DENIED", cache |-> found, result |-> v.result]
    BY <1>3 DEF Get, found
  <2>2. got.ret = "ACCESS_DENIED" /\ got.cache = found /\ got.result = c.value[k].result
    BY <2>1, SMTT(30)
  <2> HIDE DEF got
  <2> QED BY <1>1, <1>3, <2>2 DEF got
<1>4. CASE k \in DOMAIN c.value /\ plugin # "none" /\ IsUsable(plugin, session, v.session)
  <2>1. got = [ret |-> ToResult(plugin, v.result.type), result |-> v.result, cache |-> front]
    BY <1>4 DEF Get, found
  <2>2. got.ret = ToResult(plugin, v.result.type) /\ got.cache = front /\ got.result = c.value[k].result
    BY <2>1, SMTT(30)
  <2>3. got.ret \in {"ACCESS_ALLOWED", "ACCESS_DENIED"}
    BY <2>2, ResultDecides
  <2>4. /\ DOMAIN front = {"usage", "value", "null"} /\ front.null = found.null
        /\ front.usage = <<k>> \o Others(found.usage, k) /\ front.value = found.value
    BY <1>1 DEF Sound
  <2> HIDE DEF got, front
  <2>5. /\ front.usage \in Seq(KeySet)
        /\ \A i \in DOMAIN front.usage : front.usage[i] = k \/ \E j \in DOMAIN c.usage : front.usage[i] = c.usage[j]
        /\ \A i, j \in DOMAIN front.usage : front.usage[i] = front.usage[j] => i = j
    BY <1>1, <2>4, FrontKeys, SMTT(30) DEF Sound
  <2>6. Sound(front)
    BY <1>1, <1>4, <2>4, <2>5 DEF Sound
  <2> QED BY <1>1, <1>4, <2>2, <2>3, <2>4, <2>6 DEF got
<1>5. CASE k \in DOMAIN c.value /\ plugin # "none" /\ ~IsUsable(plugin, session, v.session)
  <2>1. got = [ret |-> "CACHE_MISS", cache |-> Drop(found, k)]
    BY <1>5 DEF Get, found
  <2>2. got.ret = "CACHE_MISS" /\ got.cache = Drop(found, k)
    BY <2>1, SMTT(30)
  <2> HIDE DEF got
  <2> QED BY <1>1, <2>2, DropSound, SMTT(30) DEF got
<1> QED BY <1>2, <1>3, <1>4, <1>5

\* update keeps what is cached for other keys, and keeps at most the new result
\* for this one.
LEMMA UpdateSound ==
  ASSUME NEW c, Sound(c), NEW session, NEW k \in KeySet, NEW result, result.answer \in Answers,
         NEW done, done = Update(c, session, k, result)
  PROVE  /\ Sound(done.cache) /\ done.ret \in {"ACCESS_ALLOWED", "ACCESS_DENIED"}
         /\ \A m \in DOMAIN done.cache.value :
              \/ m \in DOMAIN c.value /\ done.cache.value[m] = c.value[m]
              \/ m = k /\ done.cache.value[m].result = result
<1> DEFINE plugin == PluginOf(result.type)
           found == AfterFind(c, result.type)
           room == IF Cardinality(DOMAIN found.value) = Capacity THEN Evict(found) ELSE found
           kept == [room EXCEPT
                      !.usage = <<k>> \o Others(@, k),
                      !.value = [m \in DOMAIN @ \union {k} |->
                                    IF m = k THEN [result |-> result, session |-> session] ELSE @[m]]]
<1>1. done.ret = ToResult(plugin, result.type)
  BY DEF Update
<1>2. done.cache \in {found, kept, Drop(found, k)}
  BY DEF Update
<1>3. Sound(found) /\ found.value = c.value
  BY FindSound
<1> HIDE DEF found, plugin
<1>4. Sound(room) /\ \A m \in DOMAIN room.value : m \in DOMAIN c.value /\ room.value[m] = c.value[m]
  BY <1>3, DropSound, SMTT(30) DEF Evict
<1> HIDE DEF room
<1>5. Sound(Drop(found, k)) /\ \A m \in DOMAIN Drop(found, k).value : m \in DOMAIN c.value /\ Drop(found, k).value[m] = c.value[m]
  BY <1>3, DropSound, SMTT(30)
<1>6. /\ DOMAIN kept = {"usage", "value", "null"} /\ kept.null = room.null
      /\ kept.usage = <<k>> \o Others(room.usage, k)
      /\ kept.value = [m \in DOMAIN room.value \union {k} |->
                         IF m = k THEN [result |-> result, session |-> session] ELSE room.value[m]]
  BY <1>4 DEF Sound
<1> HIDE DEF kept
<1>7. /\ kept.usage \in Seq(KeySet)
      /\ \A i \in DOMAIN kept.usage : kept.usage[i] = k \/ \E j \in DOMAIN room.usage : kept.usage[i] = room.usage[j]
      /\ \A i, j \in DOMAIN kept.usage : kept.usage[i] = kept.usage[j] => i = j
  BY <1>4, <1>6, FrontKeys, SMTT(30) DEF Sound
<1>8. /\ DOMAIN kept.value = DOMAIN room.value \cup {k}
      /\ \A m \in DOMAIN kept.value : IF m = k THEN kept.value[m].result = result ELSE kept.value[m] = room.value[m]
  BY <1>6, SMTT(30)
<1>9. Sound(kept)
  <2>1. \A i \in DOMAIN kept.usage : kept.usage[i] \in DOMAIN kept.value
    BY <1>4, <1>7, <1>8 DEF Sound
  <2>2. \A m \in DOMAIN kept.value : kept.value[m].result.answer \in Answers
    BY <1>4, <1>8 DEF Sound
  <2>3. kept.null \in BOOLEAN
    BY <1>4, <1>6 DEF Sound
  <2> QED BY <1>6, <1>7, <2>1, <2>2, <2>3 DEF Sound
<1>10. \A m \in DOMAIN done.cache.value :
         \/ m \in DOMAIN c.value /\ done.cache.value[m] = c.value[m]
         \/ m = k /\ done.cache.value[m].result = result
  BY <1>2, <1>3, <1>4, <1>5, <1>8
<1>11. done.ret \in {"ACCESS_ALLOWED", "ACCESS_DENIED"}
  BY <1>1, ResultDecides
<1>12. Sound(done.cache)
  BY <1>2, <1>3, <1>5, <1>9
<1> QED BY <1>10, <1>11, <1>12

\* clear leaves an empty cache.
LEMMA ClearSound ==
  ASSUME NEW c, Sound(c) PROVE Sound(Clear(c)) /\ DOMAIN Clear(c).value = {} /\ Clear(c).null = c.null
<1> DEFINE d == Clear(c)
<1>1. /\ DOMAIN d = {"usage", "value", "null"} /\ d.null = c.null
      /\ d.usage = <<>> /\ d.value = [k \in {} |-> 0]
  BY DEF Clear, Sound
<1> HIDE DEF d
<1>2. DOMAIN d.value = {} /\ DOMAIN d.usage = {} /\ d.usage \in Seq(KeySet) /\ d.null \in BOOLEAN
  BY <1>1, SMTT(30) DEF Sound
<1> QED BY <1>1, <1>2 DEF Sound, d
-----------------------------------------------------------------------------
\* The sequence numbers of two lists one after the other.
LEMMA InConcat ==
  ASSUME NEW s \in Seq(Entry), NEW t \in Seq(Entry)
  PROVE  /\ s \o t \in Seq(Entry) /\ In(s \o t) = In(s) \cup In(t)
         /\ Distinct(s) /\ Distinct(t) /\ In(s) \cap In(t) = {} => Distinct(s \o t)
<1> DEFINE u == s \o t
<1>1. u \in Seq(Entry) /\ DOMAIN s = 1 .. Len(s) /\ DOMAIN t = 1 .. Len(t) /\ DOMAIN u = 1 .. Len(s) + Len(t)
  BY SMTT(30)
<1>2. /\ Len(s) \in Nat /\ Len(t) \in Nat
      /\ \A i \in 1 .. Len(s) + Len(t) : u[i] = IF i <= Len(s) THEN s[i] ELSE t[i - Len(s)]
  BY SMTT(30)
<1> HIDE DEF u
<1>3. \A i \in DOMAIN s : i \in DOMAIN u /\ u[i] = s[i]
  BY <1>1, <1>2, SMTT(30)
<1>4. \A i \in DOMAIN t : Len(s) + i \in DOMAIN u /\ u[Len(s) + i] = t[i]
  BY <1>1, <1>2, SMTT(30)
<1>5. \A i \in DOMAIN u : \/ i \in DOMAIN s /\ u[i] = s[i]
                          \/ i - Len(s) \in DOMAIN t /\ i > Len(s) /\ u[i] = t[i - Len(s)]
  BY <1>1, <1>2, SMTT(30)
<1>6. In(u) = In(s) \cup In(t)
  <2>1. In(s) \subseteq In(u) /\ In(t) \subseteq In(u)
    BY <1>3, <1>4 DEF In
  <2>2. In(u) \subseteq In(s) \cup In(t)
    BY <1>5 DEF In
  <2> QED BY <2>1, <2>2
<1>7. ASSUME Distinct(s), Distinct(t), In(s) \cap In(t) = {} PROVE Distinct(u)
  <2>1. \A i \in DOMAIN s, j \in DOMAIN t : s[i].seq # t[j].seq
    BY <1>7 DEF In
  <2> SUFFICES ASSUME NEW i \in DOMAIN u, NEW j \in DOMAIN u, u[i].seq = u[j].seq PROVE i = j
    BY DEF Distinct
  <2>2. i \in Nat /\ j \in Nat
    BY <1>1, <1>2, SMTT(30)
  <2>3. CASE i \in DOMAIN s /\ u[i] = s[i] /\ j \in DOMAIN s /\ u[j] = s[j]
    BY <1>7, <2>3 DEF Distinct
  <2>4. CASE /\ i - Len(s) \in DOMAIN t /\ u[i] = t[i - Len(s)]
             /\ j - Len(s) \in DOMAIN t /\ u[j] = t[j - Len(s)]
    <3>1. i - Len(s) = j - Len(s)
      BY <1>7, <2>4 DEF Distinct
    <3> QED BY <1>2, <2>2, <3>1, SMTT(30)
  <2> QED BY <1>5, <2>1, <2>3, <2>4
<1> QED BY <1>1, <1>6, <1>7 DEF u

\* The sequence numbers of a list that grows by one entry.
LEMMA InAppend ==
  ASSUME NEW s \in Seq(Entry), NEW e \in Entry
  PROVE  /\ Append(s, e) \in Seq(Entry) /\ In(Append(s, e)) = In(s) \cup {e.seq}
         /\ Distinct(s) /\ e.seq \notin In(s) => Distinct(Append(s, e))
<1> DEFINE u == Append(s, e)
<1>1. /\ u \in Seq(Entry) /\ DOMAIN s = 1 .. Len(s) /\ Len(s) \in Nat /\ DOMAIN u = 1 .. Len(s) + 1
      /\ u[Len(s) + 1] = e /\ \A i \in 1 .. Len(s) : u[i] = s[i]
  BY SMTT(30)
<1> HIDE DEF u
<1>2. \A i \in DOMAIN u : (i \in DOMAIN s /\ u[i] = s[i]) \/ (i = Len(s) + 1 /\ u[i] = e)
  BY <1>1, SMTT(30)
<1>3. \A i \in DOMAIN s : i \in DOMAIN u /\ u[i] = s[i]
  BY <1>1, SMTT(30)
<1>4. Len(s) + 1 \in DOMAIN u
  BY <1>1, SMTT(30)
<1>5. In(u) = In(s) \cup {e.seq}
  BY <1>1, <1>2, <1>3, <1>4 DEF In
<1>6. Distinct(s) /\ e.seq \notin In(s) => Distinct(u)
  BY <1>2 DEF Distinct, In
<1> QED BY <1>1, <1>5, <1>6 DEF u

\* The entries of two queues of requests one after the other.
LEMMA SentConcat ==
  ASSUME NEW p \in Seq(Requests), NEW q \in Seq(Requests)
  PROVE  /\ p \o q \in Seq(Requests) /\ SentIn(p \o q) = SentIn(p) \cup SentIn(q)
         /\ SentOnce(p) /\ SentOnce(q) /\ SentIn(p) \cap SentIn(q) = {} => SentOnce(p \o q)
<1> DEFINE u == p \o q
<1>1. u \in Seq(Requests) /\ DOMAIN p = 1 .. Len(p) /\ DOMAIN q = 1 .. Len(q) /\ DOMAIN u = 1 .. Len(p) + Len(q)
  BY SMTT(30)
<1>2. /\ Len(p) \in Nat /\ Len(q) \in Nat
      /\ \A i \in 1 .. Len(p) + Len(q) : u[i] = IF i <= Len(p) THEN p[i] ELSE q[i - Len(p)]
  BY SMTT(30)
<1> HIDE DEF u
<1>3. \A i \in DOMAIN p : i \in DOMAIN u /\ u[i] = p[i]
  BY <1>1, <1>2, SMTT(30)
<1>4. \A i \in DOMAIN q : Len(p) + i \in DOMAIN u /\ u[Len(p) + i] = q[i]
  BY <1>1, <1>2, SMTT(30)
<1>5. \A i \in DOMAIN u : \/ i \in DOMAIN p /\ u[i] = p[i]
                          \/ i - Len(p) \in DOMAIN q /\ i > Len(p) /\ u[i] = q[i - Len(p)]
  BY <1>1, <1>2, SMTT(30)
<1>6. SentIn(u) = SentIn(p) \cup SentIn(q)
  <2>1. SentIn(p) \subseteq SentIn(u) /\ SentIn(q) \subseteq SentIn(u)
    BY <1>3, <1>4 DEF SentIn
  <2>2. SentIn(u) \subseteq SentIn(p) \cup SentIn(q)
    BY <1>5 DEF SentIn
  <2> QED BY <2>1, <2>2
<1>7. ASSUME SentOnce(p), SentOnce(q), SentIn(p) \cap SentIn(q) = {} PROVE SentOnce(u)
  <2>1. \A i \in DOMAIN p, j \in DOMAIN q : In(p[i].entries) \cap In(q[j].entries) = {}
    BY <1>7 DEF SentIn
  <2>2. \A i \in DOMAIN u : Distinct(u[i].entries)
    BY <1>5, <1>7 DEF SentOnce
  <2>3. ASSUME NEW i \in DOMAIN u, NEW j \in DOMAIN u, i # j PROVE In(u[i].entries) \cap In(u[j].entries) = {}
    <3>1. i \in Nat /\ j \in Nat
      BY <1>1, <1>2, SMTT(30)
    <3>2. CASE i \in DOMAIN p /\ u[i] = p[i] /\ j \in DOMAIN p /\ u[j] = p[j]
      BY <1>7, <2>3, <3>2 DEF SentOnce
    <3>3. CASE /\ i - Len(p) \in DOMAIN q /\ u[i] = q[i - Len(p)]
               /\ j - Len(p) \in DOMAIN q /\ u[j] = q[j - Len(p)]
      <4>1. i - Len(p) # j - Len(p)
        BY <1>2, <2>3, <3>1, SMTT(30)
      <4> QED BY <1>7, <3>3, <4>1 DEF SentOnce
    <3> QED BY <1>5, <2>1, <3>2, <3>3
  <2> QED BY <2>2, <2>3 DEF SentOnce
<1> QED BY <1>1, <1>6, <1>7 DEF u

\* The entries of a queue that grows by one request.
LEMMA SentAppend ==
  ASSUME NEW q \in Seq(Requests), NEW m \in Requests
  PROVE  /\ Append(q, m) \in Seq(Requests) /\ SentIn(Append(q, m)) = SentIn(q) \cup In(m.entries)
         /\ SentOnce(q) /\ Distinct(m.entries) /\ SentIn(q) \cap In(m.entries) = {} => SentOnce(Append(q, m))
<1> DEFINE u == Append(q, m)
<1>1. /\ u \in Seq(Requests) /\ DOMAIN q = 1 .. Len(q) /\ Len(q) \in Nat /\ DOMAIN u = 1 .. Len(q) + 1
      /\ u[Len(q) + 1] = m /\ \A i \in 1 .. Len(q) : u[i] = q[i]
  BY SMTT(30)
<1> HIDE DEF u
<1>2. \A i \in DOMAIN u : (i \in DOMAIN q /\ u[i] = q[i]) \/ (i = Len(q) + 1 /\ u[i] = m)
  BY <1>1, SMTT(30)
<1>3. \A i \in DOMAIN q : i \in DOMAIN u /\ u[i] = q[i]
  BY <1>1, SMTT(30)
<1>4. Len(q) + 1 \in DOMAIN u
  BY <1>1, SMTT(30)
<1>5. SentIn(u) = SentIn(q) \cup In(m.entries)
  <2>1. SentIn(q) \subseteq SentIn(u) /\ In(m.entries) \subseteq SentIn(u)
    BY <1>1, <1>3, <1>4 DEF SentIn
  <2>2. SentIn(u) \subseteq SentIn(q) \cup In(m.entries)
    BY <1>2 DEF SentIn
  <2> QED BY <2>1, <2>2
<1>6. ASSUME SentOnce(q), Distinct(m.entries), SentIn(q) \cap In(m.entries) = {} PROVE SentOnce(u)
  <2>1. \A i \in DOMAIN q : In(q[i].entries) \cap In(m.entries) = {}
    BY <1>6 DEF SentIn
  <2>2. \A i \in DOMAIN u : Distinct(u[i].entries)
    BY <1>2, <1>6 DEF SentOnce
  <2>3. \A i, j \in DOMAIN u : i # j => In(u[i].entries) \cap In(u[j].entries) = {}
    BY <1>2, <1>6, <2>1 DEF SentOnce
  <2> QED BY <2>2, <2>3 DEF SentOnce
<1> QED BY <1>1, <1>5, <1>6 DEF u

\* The entries of a queue and of its first request.
LEMMA SentTail ==
  ASSUME NEW q \in Seq(Requests), q # <<>>
  PROVE  /\ Head(q) \in Requests /\ Tail(q) \in Seq(Requests)
         /\ SentIn(q) = In(Head(q).entries) \cup SentIn(Tail(q))
         /\ SentOnce(q) => /\ Distinct(Head(q).entries) /\ SentOnce(Tail(q))
                           /\ In(Head(q).entries) \cap SentIn(Tail(q)) = {}
<1> DEFINE u == Tail(q)
           m == Head(q)
<1>1. /\ m \in Requests /\ u \in Seq(Requests) /\ DOMAIN q = 1 .. Len(q) /\ Len(q) \in Nat /\ Len(q) >= 1
      /\ m = q[1] /\ DOMAIN u = 1 .. Len(q) - 1 /\ \A i \in 1 .. Len(q) - 1 : u[i] = q[i + 1]
  BY SMTT(30)
<1> HIDE DEF u, m
<1>2. \A i \in DOMAIN u : i \in Nat /\ i + 1 \in DOMAIN q /\ i + 1 # 1 /\ u[i] = q[i + 1]
  BY <1>1, SMTT(30)
<1>3. \A i \in DOMAIN q : i = 1 \/ (i - 1 \in DOMAIN u /\ u[i - 1] = q[i])
  BY <1>1, SMTT(30)
<1>4. 1 \in DOMAIN q
  BY <1>1, SMTT(30)
<1>5. SentIn(q) = In(m.entries) \cup SentIn(u)
  <2>1. SentIn(u) \subseteq SentIn(q) /\ In(m.entries) \subseteq SentIn(q)
    BY <1>1, <1>2, <1>4 DEF SentIn
  <2>2. SentIn(q) \subseteq SentIn(u) \cup In(m.entries)
    BY <1>1, <1>3, SMTT(30) DEF SentIn
  <2> QED BY <2>1, <2>2
<1>6. ASSUME SentOnce(q) PROVE Distinct(m.entries) /\ SentOnce(u) /\ In(m.entries) \cap SentIn(u) = {}
  <2>1. Distinct(m.entries) /\ \A i \in DOMAIN u : Distinct(u[i].entries)
    BY <1>1, <1>2, <1>4, <1>6 DEF SentOnce
  <2>2. \A i \in DOMAIN u : In(m.entries) \cap In(u[i].entries) = {}
    BY <1>1, <1>2, <1>4, <1>6 DEF SentOnce
  <2>3. ASSUME NEW i \in DOMAIN u, NEW j \in DOMAIN u, i # j PROVE In(u[i].entries) \cap In(u[j].entries) = {}
    <3>1. i + 1 # j + 1
      BY <1>2, <2>3, SMTT(30)
    <3> QED BY <1>2, <1>6, <3>1 DEF SentOnce
  <2>4. In(m.entries) \cap SentIn(u) = {}
    BY <2>2 DEF SentIn
  <2> QED BY <2>1, <2>3, <2>4 DEF SentOnce
<1> QED BY <1>1, <1>5, <1>6 DEF u, m

\* Nothing is in an empty list or queue.
LEMMA EmptyLists == In(<<>>) = {} /\ Distinct(<<>>) /\ SentIn(<<>>) = {} /\ SentOnce(<<>>)
BY SMTT(30) DEF In, Distinct, SentIn, SentOnce
\* What the steps do with the lists: the log, the requests of earlier objects, of
\* this one, and the buffer.  A call is recorded, ...
LEMMA OnceRecord ==
  ASSUME NEW L \in Seq(Entry), NEW P \in Seq(Requests), NEW Q \in Seq(Requests), NEW B \in Seq(Entry),
         Once(L, P, Q, B), NEW e \in Entry,
         e.seq \notin In(L) \cup SentIn(P) \cup SentIn(Q) \cup In(B)
  PROVE  Once(L, P, Q, Append(B, e)) /\ In(Append(B, e)) = In(B) \cup {e.seq}
BY InAppend, SMTT(30) DEF Once

\* ... the buffer is sent, ...
LEMMA OncePut ==
  ASSUME NEW L \in Seq(Entry), NEW P \in Seq(Requests), NEW Q \in Seq(Requests), NEW B \in Seq(Entry),
         Once(L, P, Q, B), NEW m \in Requests, m.entries = B
  PROVE  Once(L, P, Append(Q, m), <<>>) /\ SentIn(Append(Q, m)) = SentIn(Q) \cup In(B)
BY SentAppend, EmptyLists DEF Once

\* ... a request without entries is sent, ...
LEMMA OnceSend ==
  ASSUME NEW L \in Seq(Entry), NEW P \in Seq(Requests), NEW Q \in Seq(Requests), NEW B \in Seq(Entry),
         Once(L, P, Q, B), NEW m \in Requests, m.entries = <<>>
  PROVE  Once(L, P, Append(Q, m), B) /\ SentIn(Append(Q, m)) = SentIn(Q)
<1>1. SentIn(Append(Q, m)) = SentIn(Q) \cup In(m.entries) /\ In(m.entries) = {} /\ Distinct(m.entries)
  BY SentAppend, EmptyLists
<1>2. SentIn(Append(Q, m)) = SentIn(Q) /\ SentOnce(Append(Q, m))
  BY <1>1, SentAppend DEF Once
<1> QED BY <1>2 DEF Once

\* ... the daemon reads a request of this object ...
LEMMA OnceServe ==
  ASSUME NEW L \in Seq(Entry), NEW P \in Seq(Requests), NEW Q \in Seq(Requests), NEW B \in Seq(Entry),
         Once(L, P, Q, B), Q # <<>>
  PROVE  /\ Once(L \o Head(Q).entries, P, Tail(Q), B)
         /\ Once(L, P, Tail(Q), B)
         /\ In(L \o Head(Q).entries) \cup SentIn(Tail(Q)) = In(L) \cup SentIn(Q)
         /\ SentIn(Tail(Q)) \subseteq SentIn(Q)
<1>1. /\ Head(Q) \in Requests /\ SentIn(Q) = In(Head(Q).entries) \cup SentIn(Tail(Q))
      /\ Distinct(Head(Q).entries) /\ SentOnce(Tail(Q)) /\ In(Head(Q).entries) \cap SentIn(Tail(Q)) = {}
  BY SentTail DEF Once
<1>2. Head(Q).entries \in Seq(Entry)
  BY <1>1 DEF Requests
<1>3. In(L \o Head(Q).entries) = In(L) \cup In(Head(Q).entries)
  BY <1>2, InConcat
<1>4. Distinct(L \o Head(Q).entries)
  BY <1>1, <1>2, InConcat DEF Once
<1>5. In(L \o Head(Q).entries) \cup SentIn(Tail(Q)) = In(L) \cup SentIn(Q) /\ SentIn(Tail(Q)) \subseteq SentIn(Q)
  BY <1>1, <1>3
<1>6. Once(L, P, Tail(Q), B)
  BY <1>1 DEF Once
<1>7. Once(L \o Head(Q).entries, P, Tail(Q), B)
  BY <1>1, <1>3, <1>4 DEF Once
<1> QED BY <1>5, <1>6, <1>7

\* ... or of an earlier one, ...
LEMMA OnceServeParting ==
  ASSUME NEW L \in Seq(Entry), NEW P \in Seq(Requests), NEW Q \in Seq(Requests), NEW B \in Seq(Entry),
         Once(L, P, Q, B), P # <<>>
  PROVE  /\ Once(L \o Head(P).entries, Tail(P), Q, B)
         /\ In(L \o Head(P).entries) \cup SentIn(Tail(P)) = In(L) \cup SentIn(P)
<1>1. /\ Head(P) \in Requests /\ SentIn(P) = In(Head(P).entries) \cup SentIn(Tail(P))
      /\ Distinct(Head(P).entries) /\ SentOnce(Tail(P)) /\ In(Head(P).entries) \cap SentIn(Tail(P)) = {}
  BY SentTail DEF Once
<1>2. Head(P).entries \in Seq(Entry)
  BY <1>1 DEF Requests
<1>3. In(L \o Head(P).entries) = In(L) \cup In(Head(P).entries)
  BY <1>2, InConcat
<1>4. Distinct(L \o Head(P).entries)
  BY <1>1, <1>2, InConcat DEF Once
<1>5. In(L \o Head(P).entries) \cup SentIn(Tail(P)) = In(L) \cup SentIn(P)
  BY <1>1, <1>3
<1>6. Once(L \o Head(P).entries, Tail(P), Q, B)
  BY <1>1, <1>3, <1>4 DEF Once
<1> QED BY <1>5, <1>6

\* ... the object is deleted, ...
LEMMA OnceDelete ==
  ASSUME NEW L \in Seq(Entry), NEW P \in Seq(Requests), NEW Q \in Seq(Requests), NEW B \in Seq(Entry),
         Once(L, P, Q, B)
  PROVE  Once(L, P \o Q, <<>>, <<>>) /\ SentIn(P \o Q) = SentIn(P) \cup SentIn(Q)
BY SentConcat, EmptyLists DEF Once

\* ... or connections are lost.
LEMMA OnceLost ==
  ASSUME NEW L, NEW P, NEW Q, NEW B, Once(L, P, Q, B)
  PROVE  Once(L, P, <<>>, B) /\ Once(L, <<>>, <<>>, B)
BY EmptyLists DEF Once
-----------------------------------------------------------------------------
\* A call that goes on to another place, maybe with a return code.
Moved(c, d, at) ==
    /\ d \in Calls /\ d.at = at /\ d.op = c.op /\ d.key = c.key /\ d.session = c.session
    /\ d.then = c.then /\ d.seq = c.seq /\ d.answer = c.answer /\ d.since = c.since

\* Goto and Return are such moves.
LEMMA MoveFields ==
  ASSUME NEW c \in Calls, NEW at \in Places, NEW ret \in Returns
  PROVE  Moved(c, [c EXCEPT !.at = at], at) /\ Moved(c, [c EXCEPT !.at = at, !.ret = ret], at)
<1>1. Moved(c, [c EXCEPT !.at = at], at)
  BY DEF Moved, Calls
<1>2. Moved(c, [c EXCEPT !.at = at, !.ret = ret], at)
  BY DEF Moved, Calls
<1> QED BY <1>1, <1>2

\* The numbers of entries stay what they are when no list gains one.
LEMMA OnceKept ==
  ASSUME OnceInv, Once(logged', parting', link'.reqs, entries'), Noted' \subseteq Noted,
         calls' = calls, call'.seq = call.seq,
         call'.at \in {"ensure", "lookup", "send", "wait", "reconnect", "record"} =>
           call.at \in {"ensure", "lookup", "send", "wait", "reconnect", "record"}
  PROVE  OnceInv'
BY DEF OnceInv

\* The same when the lists do not change.
LEMMA OnceSame ==
  ASSUME OnceInv, logged' = logged, parting' = parting, link'.reqs = link.reqs, entries' = entries,
         calls' = calls, call'.seq = call.seq,
         call'.at \in {"ensure", "lookup", "send", "wait", "reconnect", "record"} =>
           call.at \in {"ensure", "lookup", "send", "wait", "reconnect", "record"}
  PROVE  OnceInv'
<1>1. Noted' = Noted
  BY DEF Noted
<1>2. Once(logged', parting', link'.reqs, entries')
  BY DEF OnceInv
<1> QED BY <1>1, <1>2, OnceKept

\* The empty entry of a plugin that is missing ends the program.
LEMMA CrashStep ==
  ASSUME ClientInv, call.at # "wait", ClearCrashes(cache), Goto("crashed"),
         UNCHANGED <<socketVars, monitoring, cache, entries, old, daemonVars, calls, leftover>>
  PROVE  ClientInv'
<1>1. Moved(call, call', "crashed")
  BY MoveFields DEF ClientInv, ClientTypeOK, Goto, Places, Returns
<1>2. ClientTypeOK'
  BY <1>1 DEF ClientInv, ClientTypeOK, Steps, Moved, socketVars, daemonVars
<1>3. CacheInv'
  BY <1>1 DEF ClientInv, CacheInv, CrashOnlyByMissingPlugin, ClearCrashes, Asking, Moved
<1>4. FreshInv'
  <2>1. ASSUME ~leftover PROVE Exchange' /\ Fresh'
    <3>1. Exchange /\ Fresh
      BY <2>1 DEF ClientInv, FreshInv
    <3>2. Exchange'
      BY <1>1, <3>1 DEF Exchange, Moved, socketVars, IsConnected, daemonVars
    <3>3. Fresh'
      BY <1>1, <3>1 DEF Fresh, Moved, socketVars, IsConnected, daemonVars
    <3> QED BY <3>2, <3>3
  <2> QED BY <1>1, <2>1 DEF ClientInv, FreshInv, Moved, daemonVars
<1>5. OnceInv'
  BY <1>1, OnceSame DEF ClientInv, Moved, socketVars, daemonVars
<1> QED BY <1>2, <1>3, <1>4, <1>5 DEF ClientInv

\* A new socket has nothing on it.
LEMMA LinkFields ==
  /\ NoLink \in Links /\ ~NoLink.open /\ ~NoLink.closed /\ NoLink.reqs = <<>> /\ NoLink.resps = <<>>
  /\ \A l \in Links : /\ [l EXCEPT !.open = TRUE] \in Links /\ [l EXCEPT !.open = TRUE].closed = l.closed
                      /\ [l EXCEPT !.open = TRUE].reqs = l.reqs /\ [l EXCEPT !.open = TRUE].resps = l.resps
<1>1. <<>> \in Seq(Requests) /\ <<>> \in Seq(Answers)
  BY SMTT(30)
<1>2. NoLink \in Links /\ ~NoLink.open /\ ~NoLink.closed /\ NoLink.reqs = <<>> /\ NoLink.resps = <<>>
  BY <1>1 DEF NoLink, Links
<1>3. \A l \in Links : /\ [l EXCEPT !.open = TRUE] \in Links /\ [l EXCEPT !.open = TRUE].closed = l.closed
                      /\ [l EXCEPT !.open = TRUE].reqs = l.reqs /\ [l EXCEPT !.open = TRUE].resps = l.resps
  BY DEF Links
<1> QED BY <1>2, <1>3

\* Where a call goes on after a connection attempt.
After(x) ==
    \/ x = "idle"
    \/ x = "lookup" /\ call.at = "ensure"
    \/ x = "send" /\ call.at \in {"send", "reconnect"}
    \/ x \in {"put", call.then} /\ call.at = "flush"

\* A new connection, or none: the cache is empty, and nothing is on the way.
LEMMA ResetStep ==
  ASSUME ClientInv, ~ClearCrashes(cache), cache' = Clear(cache), link' \in {FreshLink, NoLink},
         NEW x, After(x), Moved(call, call', x),
         UNCHANGED <<listening, readQueue, monitoring, entries, old, daemonVars, calls, leftover>>
  PROVE  ClientInv'
<1>1. Sound(cache) /\ Sound(cache') /\ DOMAIN cache'.value = {}
  BY ClearSound DEF ClientInv, CacheInv
<1>2. link' \in Links /\ link'.reqs = <<>> /\ link'.resps = <<>> /\ ~link'.closed
  BY LinkFields DEF FreshLink
<1>3. ClientTypeOK'
  BY <1>2 DEF ClientInv, ClientTypeOK, Steps, Moved, After, daemonVars
<1>4. CacheInv'
  <2>1. x # "crashed"
    BY DEF ClientInv, ClientTypeOK, Steps, After
  <2> QED BY <1>1, <2>1 DEF ClientInv, CacheInv, CrashOnlyByMissingPlugin, Asking, Moved
<1>5. FreshInv'
  <2>1. ASSUME ~leftover PROVE Exchange' /\ Fresh'
    <3>1. Exchange /\ Fresh
      BY <2>1 DEF ClientInv, FreshInv
    <3>2. Exchange'
      BY <1>2, <3>1, SMTT(30) DEF Exchange
    <3>3. x \notin {"record"} /\ (x \in {"flush", "put", "store"} => call.at = "flush")
      BY DEF ClientInv, ClientTypeOK, Steps, After
    <3>4. monitoring' = monitoring /\ version' = version
      BY DEF daemonVars
    <3>5. Fresh'
      BY <1>1, <3>1, <3>3, <3>4, SMTT(30) DEF Fresh, Moved
    <3> QED BY <3>2, <3>5
  <2> QED BY <2>1 DEF ClientInv, FreshInv, Moved, daemonVars
<1>6. OnceInv'
  <2>1. logged' = logged /\ parting' = parting /\ entries' = entries /\ calls' = calls /\ call'.seq = call.seq
    BY DEF daemonVars, Moved
  <2>2. Once(logged', parting', link'.reqs, entries')
    BY <1>2, <2>1, OnceLost DEF ClientInv, OnceInv
  <2>3. Noted' \subseteq Noted
    BY <1>2, <2>1, EmptyLists DEF Noted
  <2>4. call'.at \in {"ensure", "lookup", "send", "wait", "reconnect", "record"} =>
           call.at \in {"ensure", "lookup", "send", "wait", "reconnect", "record"}
    BY DEF ClientInv, ClientTypeOK, Steps, After, Moved
  <2> QED BY <2>1, <2>2, <2>3, <2>4, OnceKept DEF ClientInv
<1> QED BY <1>3, <1>4, <1>5, <1>6 DEF ClientInv
\* A step that connects again is one of the two.
LEMMA ReconnectMoves ==
  ASSUME call \in Calls, NEW next \in Places, NEW ret \in Returns
  PROVE  /\ Goto(next) => Moved(call, call', next)
         /\ Return(ret) => Moved(call, call', "idle")
BY MoveFields DEF Goto, Return, Places

\* A step that connects again is one of the two: it went on, or it failed.
LEMMA ReconnectStep ==
  ASSUME ClientInv, call.at # "wait", NEW next \in Places, After(next), NEW next2 \in Places, After(next2),
         \/ Reconnect(next, NotAvailable)
         \/ Reconnect(next, Goto(next2) \/ Return("UNKNOWN_ERROR"))
  PROVE  ClientInv'
<1>0. call \in Calls
  BY DEF ClientInv, ClientTypeOK
<1>1. CASE ClearCrashes(cache)
  BY <1>1, CrashStep DEF Reconnect
<1>2. CASE ~ClearCrashes(cache)
  <2>1. /\ cache' = Clear(cache) /\ link' \in {FreshLink, NoLink}
        /\ Goto(next) \/ Goto(next2) \/ Return("SERVICE_NOT_AVAILABLE") \/ Return("UNKNOWN_ERROR")
        /\ UNCHANGED <<listening, readQueue, monitoring, entries, old, daemonVars, calls, leftover>>
    BY <1>2 DEF Reconnect, NotAvailable, Connect, ConnectFails
  <2>2. PICK x : After(x) /\ Moved(call, call', x)
    BY <1>0, <2>1, ReconnectMoves DEF After, Returns
  <2> QED BY <1>2, <2>1, <2>2, ResetStep
<1> QED BY <1>1, <1>2

\* ensureConnection, the loop of requestResponse and flushMonitor connect.
LEMMA EnsureConnectionStep == ASSUME ClientInv, EnsureConnection PROVE ClientInv'
<1>0. call \in Calls /\ call.at = "ensure"
  BY DEF ClientInv, ClientTypeOK, EnsureConnection
<1>1. CASE /\ IsConnected /\ Goto("lookup")
           /\ UNCHANGED <<socketVars, monitoring, cache, entries, old, daemonVars, calls, leftover>>
  <2>1. Moved(call, call', "lookup")
    BY <1>0, <1>1, MoveFields DEF Goto, Places, Returns
  <2>2. ClientTypeOK'
    BY <1>0, <1>1, <2>1 DEF ClientInv, ClientTypeOK, Steps, Moved, socketVars, daemonVars
  <2>3. CacheInv'
    BY <1>1, <2>1 DEF ClientInv, CacheInv, CrashOnlyByMissingPlugin, Asking, Moved
  <2>4. FreshInv'
    <3>1. ASSUME ~leftover PROVE Exchange' /\ Fresh'
      <4>1. Exchange /\ Fresh
        BY <3>1 DEF ClientInv, FreshInv
      <4>2. Exchange'
        BY <1>0, <1>1, <2>1, <4>1 DEF Exchange, Moved, socketVars, IsConnected, daemonVars
      <4>3. version \in Nat /\ call.since \in Nat /\ call.since <= version
        BY DEF ClientInv, ClientTypeOK, FreshInv, Calls
      <4>4. Fresh'
        BY <1>0, <1>1, <2>1, <4>1, <4>3 DEF Fresh, Moved, socketVars, IsConnected, daemonVars
      <4> QED BY <4>2, <4>4
    <3> QED BY <1>1, <2>1, <3>1 DEF ClientInv, FreshInv, Moved, daemonVars
  <2>5. OnceInv'
    BY <1>0, <1>1, <2>1, OnceSame DEF ClientInv, Moved, socketVars, daemonVars
  <2> QED BY <2>2, <2>3, <2>4, <2>5 DEF ClientInv
<1>2. CASE Reconnect("lookup", NotAvailable)
  <2>1. After("lookup") /\ "lookup" \in Places /\ call.at # "wait"
    BY <1>0 DEF After, Places
  <2> QED BY <1>2, <2>1, ReconnectStep
<1> QED BY <1>1, <1>2 DEF EnsureConnection
\* The loop of requestResponse connects again.
LEMMA RequestAgainStep == ASSUME ClientInv, RequestAgain PROVE ClientInv'
<1>1. After("send") /\ "send" \in Places /\ call.at # "wait" /\ Reconnect("send", NotAvailable)
  BY DEF After, Places, RequestAgain
<1> QED BY <1>1, ReconnectStep

\* The cache has the decision, or the daemon is asked.
LEMMA LookupStep == ASSUME ClientInv, Lookup PROVE ClientInv'
<1> DEFINE got == Get(cache, call.session, call.key)
<1>0. call \in Calls /\ call.at = "lookup" /\ call.op \in {"check", "simple"} /\ Sound(cache)
  BY DEF ClientInv, ClientTypeOK, Steps, CacheInv, Lookup
<1>1. /\ Sound(got.cache) /\ (cache.null => got.cache.null)
      /\ \A m \in DOMAIN got.cache.value : m \in DOMAIN cache.value /\ got.cache.value[m] = cache.value[m]
      /\ got.ret \in {"CACHE_MISS", "ACCESS_ALLOWED", "ACCESS_DENIED"}
      /\ got.ret = "CACHE_MISS" => call.key \notin DOMAIN got.cache.value
      /\ got.ret # "CACHE_MISS" => call.key \in DOMAIN cache.value /\ got.result = cache.value[call.key].result
  BY <1>0, GetSound, SMTT(30) DEF Calls
<1>2. /\ cache' = got.cache
      /\ call' = IF got.ret = "CACHE_MISS" THEN [call EXCEPT !.at = "send"]
                 ELSE IF call.op = "check"
                 THEN [call EXCEPT !.at = "record", !.ret = got.ret, !.then = "idle",
                                   !.answer = got.result.answer]
                 ELSE [call EXCEPT !.at = "idle", !.ret = got.ret, !.answer = got.result.answer]
      /\ UNCHANGED <<socketVars, monitoring, entries, old, daemonVars, calls, leftover>>
  BY DEF Lookup
<1> HIDE DEF got
<1>3. /\ listening' = listening /\ link' = link /\ readQueue' = readQueue /\ monitoring' = monitoring
      /\ entries' = entries /\ calls' = calls /\ leftover' = leftover /\ version' = version
      /\ logged' = logged /\ parting' = parting
  BY <1>2 DEF socketVars, daemonVars
<1>4. CASE got.ret = "CACHE_MISS"
  <2>1. Moved(call, call', "send")
    BY <1>0, <1>2, <1>4, MoveFields DEF Places, Returns
  <2>2. ClientTypeOK'
    BY <1>0, <1>3, <2>1 DEF ClientInv, ClientTypeOK, Steps, Moved
  <2>3. CacheInv'
    BY <1>1, <1>2, <1>4, <2>1 DEF CacheInv, CrashOnlyByMissingPlugin, Moved
  <2>4. FreshInv'
    <3>1. ASSUME ~leftover PROVE Exchange' /\ Fresh'
      <4>1. Exchange /\ Fresh
        BY <3>1 DEF ClientInv, FreshInv
      <4>2. Exchange'
        BY <1>0, <1>3, <2>1, <4>1 DEF Exchange, Moved, IsConnected
      <4>3. Fresh'
        BY <1>0, <1>1, <1>2, <1>3, <2>1, <4>1, SMTT(30) DEF Fresh, Moved, IsConnected
      <4> QED BY <4>2, <4>3
    <3> QED BY <1>3, <2>1, <3>1 DEF ClientInv, FreshInv, Moved
  <2>5. OnceInv'
    BY <1>0, <1>3, <2>1, OnceSame DEF ClientInv, Moved
  <2> QED BY <2>2, <2>3, <2>4, <2>5 DEF ClientInv
<1>5. CASE got.ret # "CACHE_MISS"
  <2> DEFINE answer == cache.value[call.key].result.answer
             at == IF call.op = "check" THEN "record" ELSE "idle"
  <2>1. answer \in Answers /\ call.key \in DOMAIN cache.value /\ got.result.answer = answer
    BY <1>0, <1>1, <1>5 DEF Sound
  <2> HIDE DEF answer
  <2>2. /\ call' \in Calls /\ call'.at = at /\ call'.op = call.op /\ call'.key = call.key
        /\ call'.seq = call.seq /\ call'.since = call.since /\ call'.answer = answer
        /\ call.op = "check" => call'.then = "idle"
    <3>1. got.ret \in Returns /\ "idle" \in Places /\ "record" \in Places
      BY <1>1, <1>5 DEF Returns, Places
    <3>2. CASE call.op = "check"
      BY <1>0, <1>2, <1>5, <2>1, <3>1, <3>2 DEF Calls
    <3>3. CASE call.op # "check"
      BY <1>0, <1>2, <1>5, <2>1, <3>1, <3>3 DEF Calls
    <3> QED BY <3>2, <3>3
  <2>3. ClientTypeOK'
    BY <1>0, <1>3, <2>1, <2>2 DEF ClientInv, ClientTypeOK, Steps
  <2>4. CacheInv'
    BY <1>0, <1>1, <1>2, <2>2, SMTT(30) DEF CacheInv, CrashOnlyByMissingPlugin, Asking
  <2>5. FreshInv'
    <3>1. ASSUME ~leftover PROVE Exchange' /\ Fresh'
      <4>1. Exchange /\ Fresh
        BY <3>1 DEF ClientInv, FreshInv
      <4>2. Exchange'
        BY <1>0, <1>3, <2>2, <4>1 DEF Exchange, IsConnected
      <4>3. answer.key = call.key
        BY <2>1, <4>1 DEF Fresh, answer
      <4>4. ~monitoring => answer.version >= call.since /\ (IsConnected => answer.version = version)
        BY <1>0, <2>1, <4>1 DEF Fresh, answer
      <4>5. Fresh'
        BY <1>0, <1>1, <1>2, <1>3, <2>2, <4>1, <4>3, <4>4, SMTT(30) DEF Fresh, IsConnected
      <4> QED BY <4>2, <4>5
    <3> QED BY <1>3, <2>2, <3>1 DEF ClientInv, FreshInv
  <2>6. OnceInv'
    BY <1>0, <1>3, <2>2, OnceSame DEF ClientInv
  <2> QED BY <2>3, <2>4, <2>5, <2>6 DEF ClientInv
<1> QED BY <1>4, <1>5
\* The link after requests, responses or the connection change.
LEMMA LinkUpdates ==
  ASSUME NEW l \in Links, NEW reqs \in Seq(Requests), NEW resps \in Seq(Answers)
  PROVE  /\ LET m == [l EXCEPT !.reqs = reqs] IN
            m \in Links /\ m.open = l.open /\ m.closed = l.closed /\ m.reqs = reqs /\ m.resps = l.resps
         /\ LET m == [l EXCEPT !.resps = resps] IN
            m \in Links /\ m.open = l.open /\ m.closed = l.closed /\ m.reqs = l.reqs /\ m.resps = resps
         /\ LET m == HangUp(l) IN
            m \in Links /\ m.open = l.open /\ m.closed = l.open /\ m.reqs = <<>> /\ m.resps = l.resps
<1>1. LET m == [l EXCEPT !.reqs = reqs] IN
      m \in Links /\ m.open = l.open /\ m.closed = l.closed /\ m.reqs = reqs /\ m.resps = l.resps
  BY DEF Links
<1>2. LET m == [l EXCEPT !.resps = resps] IN
      m \in Links /\ m.open = l.open /\ m.closed = l.closed /\ m.reqs = l.reqs /\ m.resps = resps
  BY DEF Links
<1>3. LET m == HangUp(l) IN
      m \in Links /\ m.open = l.open /\ m.closed = l.open /\ m.reqs = <<>> /\ m.resps = l.resps
  <2>1. <<>> \in Seq(Requests)
    BY SMTT(30)
  <2> QED BY <2>1 DEF Links, HangUp
<1> QED BY <1>1, <1>2, <1>3

\* The request is sent, or the connection turns out to be lost.
LEMMA SendStep == ASSUME ClientInv, Send PROVE ClientInv'
<1> DEFINE m == [type |-> call.op, key |-> call.key, seq |-> call.seq, entries |-> <<>>]
<1>0. call \in Calls /\ call.at = "send" /\ call.op \in {"check", "simple"} /\ link \in Links
  BY DEF ClientInv, ClientTypeOK, Steps, Send
<1>1. CASE /\ SendToServer(m) /\ Goto("wait")
           /\ UNCHANGED <<monitoring, cache, entries, old, daemonVars, calls, leftover>>
  <2>1. m \in Requests /\ m.type # "put" /\ m.entries = <<>> /\ m.key = call.key
    <3>1. <<>> \in Seq(Entry)
      BY SMTT(30)
    <3> QED BY <1>0, <3>1 DEF Requests, Calls
  <2>2. IsConnected /\ link' = [link EXCEPT !.reqs = Append(link.reqs, m)] /\ listening' = listening /\ readQueue' = readQueue
    BY <1>1 DEF SendToServer
  <2> HIDE DEF m
  <2>3. link.reqs \in Seq(Requests) /\ link.resps \in Seq(Answers) /\ Append(link.reqs, m) \in Seq(Requests)
    BY <1>0, <2>1, SMTT(30) DEF Links
  <2>4. /\ link' \in Links /\ link'.open = link.open /\ link'.closed = link.closed
        /\ link'.reqs = Append(link.reqs, m) /\ link'.resps = link.resps
    BY <1>0, <2>2, <2>3, LinkUpdates
  <2>5. Moved(call, call', "wait")
    BY <1>0, <1>1, MoveFields DEF Goto, Places, Returns
  <2>6. /\ monitoring' = monitoring /\ entries' = entries /\ calls' = calls /\ leftover' = leftover
        /\ version' = version /\ logged' = logged /\ parting' = parting /\ cache' = cache
    BY <1>1 DEF daemonVars
  <2>7. link'.open /\ ~link'.closed /\ IsConnected' /\ IsConnected
    BY <2>2, <2>4 DEF IsConnected
  <2>8. ClientTypeOK'
    BY <1>0, <2>2, <2>4, <2>5, <2>6, <2>7 DEF ClientInv, ClientTypeOK, Steps, Moved
  <2>9. CacheInv'
    BY <1>0, <2>5, <2>6 DEF ClientInv, CacheInv, CrashOnlyByMissingPlugin, Asking, Moved
  <2>10. FreshInv'
    <3>1. ASSUME ~leftover PROVE Exchange' /\ Fresh'
      <4>1. Exchange /\ Fresh
        BY <3>1 DEF ClientInv, FreshInv
      <4>2. link.resps = <<>> /\ \A i \in DOMAIN link.reqs : link.reqs[i].type = "put"
        BY <1>0, <4>1 DEF Exchange
      <4>3. \A i \in DOMAIN link'.reqs : \/ i \in DOMAIN link.reqs /\ link'.reqs[i] = link.reqs[i]
                                         \/ i = Len(link.reqs) + 1 /\ link'.reqs[i] = m
        BY <2>3, <2>4, SMTT(30)
      <4>4. Exchange'
        BY <2>1, <2>2, <2>4, <2>5, <4>1, <4>2, <4>3, SMTT(30) DEF Exchange, Moved
      <4>5. Fresh'
        BY <1>0, <2>5, <2>6, <2>7, <4>1 DEF Fresh, Moved
      <4> QED BY <4>4, <4>5
    <3> QED BY <2>5, <2>6, <3>1 DEF ClientInv, FreshInv, Moved
  <2>11. OnceInv'
    <3>1. Once(logged, parting, Append(link.reqs, m), entries) /\ SentIn(Append(link.reqs, m)) = SentIn(link.reqs)
      BY <2>1, <2>3, OnceSend DEF ClientInv, ClientTypeOK, OnceInv
    <3>2. Noted' = Noted
      BY <2>4, <2>6, <3>1 DEF Noted
    <3> QED BY <1>0, <2>4, <2>5, <2>6, <3>1, <3>2, OnceKept DEF ClientInv, Moved
  <2> QED BY <2>8, <2>9, <2>10, <2>11 DEF ClientInv
<1>2. CASE Reconnect("send", NotAvailable)
  <2>1. After("send") /\ "send" \in Places /\ call.at # "wait"
    BY <1>0 DEF After, Places
  <2> QED BY <1>2, <2>1, ReconnectStep
<1> QED BY <1>1, <1>2 DEF Send

\* The connection ends while the call waits: what had arrived is left behind.
LEMMA ReceiveLostStep == ASSUME ClientInv, ReceiveLost PROVE ClientInv'
<1>0. call \in Calls /\ call.at = "wait" /\ call.op \in {"check", "simple"} /\ link \in Links /\ leftover \in BOOLEAN
  BY DEF ClientInv, ClientTypeOK, Steps, ReceiveLost
<1>1. Moved(call, call', "reconnect")
  BY <1>0, MoveFields DEF ReceiveLost, Goto, Places, Returns
<1>2. /\ link.closed /\ readQueue' = readQueue \o link.resps /\ link' = [link EXCEPT !.resps = <<>>]
      /\ listening' = listening /\ leftover' = (leftover \/ readQueue \o link.resps # <<>>)
  BY DEF ReceiveLost, EndOfStream, ReceiveFalse, Arrived
<1>3. /\ link' \in Links /\ link'.open = link.open /\ link'.closed = link.closed
      /\ link'.reqs = link.reqs /\ link'.resps = <<>>
  <2>1. <<>> \in Seq(Answers)
    BY SMTT(30)
  <2> QED BY <1>0, <1>2, <2>1, LinkUpdates DEF Links
<1>4. /\ monitoring' = monitoring /\ entries' = entries /\ calls' = calls /\ cache' = cache
      /\ version' = version /\ logged' = logged /\ parting' = parting
  BY DEF ReceiveLost, daemonVars
<1>5. readQueue \in Seq(Answers) /\ link.resps \in Seq(Answers) /\ readQueue' \in Seq(Answers) /\ leftover' \in BOOLEAN
  <2>1. readQueue \in Seq(Answers) /\ link.resps \in Seq(Answers)
    BY <1>0 DEF ClientInv, ClientTypeOK, Links
  <2>2. leftover' \in BOOLEAN
    BY <1>0, <1>2
  <2> QED BY <1>2, <2>1, <2>2, SMTT(30)
<1>6. ClientTypeOK'
  BY <1>0, <1>1, <1>2, <1>3, <1>4, <1>5 DEF ClientInv, ClientTypeOK, Steps, Moved
<1>7. CacheInv'
  BY <1>0, <1>1, <1>4 DEF ClientInv, CacheInv, CrashOnlyByMissingPlugin, Asking, Moved
<1>8. FreshInv'
  <2>1. ASSUME ~leftover' PROVE Exchange' /\ Fresh'
    <3>1. ~leftover /\ readQueue' = <<>>
      BY <1>2, <2>1
    <3>2. Exchange /\ Fresh
      BY <3>1 DEF ClientInv, FreshInv
    <3>3. link.reqs = <<>>
      BY <1>2 DEF ClientInv, ClientTypeOK
    <3>4. Exchange'
      BY <1>3, <3>1, <3>3, SMTT(30) DEF Exchange
    <3>5. Fresh'
      BY <1>0, <1>1, <1>3, <1>4, <3>2 DEF Fresh, Moved, IsConnected
    <3> QED BY <3>4, <3>5
  <2> QED BY <1>1, <1>4, <2>1 DEF ClientInv, FreshInv, Moved
<1>9. OnceInv'
  BY <1>0, <1>1, <1>3, <1>4, OnceSame DEF ClientInv, Moved
<1> QED BY <1>6, <1>7, <1>8, <1>9 DEF ClientInv
\* A response is taken.
LEMMA ReceiveStep == ASSUME ClientInv, Receive PROVE ClientInv'
<1> DEFINE r == Response
           at == IF Response.type # call.op \/ Response.ret # "SUCCESS" THEN "idle"
                 ELSE IF call.op = "check" THEN "record" ELSE "store"
<1>0. call \in Calls /\ call.at = "wait" /\ call.op \in {"check", "simple"} /\ link \in Links
  BY DEF ClientInv, ClientTypeOK, Steps, Receive
<1>1. /\ ~link.closed /\ link.resps # <<>> /\ readQueue' = Tail(readQueue \o link.resps)
      /\ link' = [link EXCEPT !.resps = <<>>] /\ listening' = listening /\ r = Head(readQueue \o link.resps)
  BY DEF Receive, ReceiveTrue, TakeResponse, Response, Arrived
<1>2. /\ monitoring' = monitoring /\ entries' = entries /\ calls' = calls /\ cache' = cache
      /\ version' = version /\ logged' = logged /\ parting' = parting /\ leftover' = leftover
  BY DEF Receive, daemonVars
<1>3. readQueue \in Seq(Answers) /\ link.resps \in Seq(Answers) /\ r \in Answers /\ readQueue' \in Seq(Answers)
  <2>1. readQueue \in Seq(Answers) /\ link.resps \in Seq(Answers)
    BY <1>0 DEF ClientInv, ClientTypeOK, Links
  <2>2. readQueue \o link.resps \in Seq(Answers) /\ readQueue \o link.resps # <<>>
    BY <1>1, <2>1, SMTT(30)
  <2> QED BY <1>1, <2>1, <2>2, SMTT(30)
<1>4. /\ call' \in Calls /\ call'.at = at /\ call'.op = call.op /\ call'.key = call.key
      /\ call'.seq = call.seq /\ call'.since = call.since /\ call'.answer \in {call.answer, r}
      /\ at # "idle" => call'.then = "store" /\ call'.answer = r
  <2>1. call' = IF r.type # call.op
               THEN [call EXCEPT !.at = "idle", !.ret = "SERVICE_NOT_AVAILABLE"]
               ELSE IF r.ret # "SUCCESS"
               THEN [call EXCEPT !.at = "idle", !.ret = r.ret, !.answer = r]
               ELSE [call EXCEPT !.at = IF call.op = "check" THEN "record" ELSE "store",
                                 !.answer = r, !.ret = "SUCCESS", !.then = "store"]
    BY DEF Receive
  <2>2. /\ {"SERVICE_NOT_AVAILABLE", "SUCCESS", "ACCESS_NOT_RESOLVED"} \subseteq Returns
        /\ {"idle", "record", "store"} \subseteq Places /\ r.ret \in {"SUCCESS", "ACCESS_NOT_RESOLVED"}
    BY <1>3 DEF Returns, Places, Answers
  <2> HIDE DEF r
  <2>3. CASE r.type # call.op
    BY <1>0, <1>3, <2>1, <2>2, <2>3 DEF Calls, r
  <2>4. CASE r.type = call.op /\ r.ret # "SUCCESS"
    BY <1>0, <1>3, <2>1, <2>2, <2>4 DEF Calls, r
  <2>5. CASE r.type = call.op /\ r.ret = "SUCCESS"
    BY <1>0, <1>3, <2>1, <2>2, <2>5 DEF Calls, r
  <2> QED BY <2>3, <2>4, <2>5
<1>5. at \in {"idle", "record", "store"}
  OBVIOUS
<1> HIDE DEF r, at
<1>6. /\ link' \in Links /\ link'.open = link.open /\ link'.closed = link.closed
      /\ link'.reqs = link.reqs /\ link'.resps = <<>>
  <2>1. <<>> \in Seq(Answers)
    BY SMTT(30)
  <2> QED BY <1>0, <1>1, <2>1, LinkUpdates DEF Links
<1>7. ClientTypeOK'
  BY <1>0, <1>1, <1>2, <1>3, <1>4, <1>5, <1>6 DEF ClientInv, ClientTypeOK, Steps
<1>8. CacheInv'
  BY <1>0, <1>2, <1>4, <1>5 DEF ClientInv, CacheInv, CrashOnlyByMissingPlugin, Asking
<1>9. FreshInv'
  <2>1. ASSUME ~leftover PROVE Exchange' /\ Fresh'
    <3>1. Exchange /\ Fresh
      BY <2>1 DEF ClientInv, FreshInv
    <3>2. Len(link.resps) = 1 /\ readQueue = <<>>
      <4>1. Len(link.resps) <= 1
        BY <3>1 DEF Exchange
      <4>2. readQueue = <<>>
        BY <3>1 DEF Exchange
      <4>3. Len(link.resps) \in Nat /\ Len(link.resps) # 0
        BY <1>1, <1>3, SMTT(30)
      <4>4. Len(link.resps) = 1
        <5> DEFINE n == Len(link.resps)
        <5>1. n \in Nat /\ n # 0 /\ n <= 1
          BY <4>1, <4>3
        <5> HIDE DEF n
        <5>2. n = 1
          BY <5>1, SMTT(30)
        <5> QED BY <5>2 DEF n
      <4> QED BY <4>2, <4>4
    <3>3. readQueue' = <<>> /\ r = link.resps[1] /\ 1 \in DOMAIN link.resps
      BY <1>1, <1>3, <3>2, SMTT(30)
    <3>4. IsConnected /\ IsConnected'
      BY <1>1, <1>6 DEF ClientInv, ClientTypeOK, IsConnected
    <3>5. r.key = call.key /\ r.version >= call.since /\ r.version = version
      BY <3>1, <3>3, <3>4 DEF Exchange
    <3>6. \A i \in DOMAIN link.reqs : link.reqs[i].type = "put"
      BY <1>1, <3>1 DEF Exchange
    <3>7. Exchange'
      BY <1>6, <3>3, <3>6, SMTT(30) DEF Exchange
    <3>8. Fresh'
      BY <1>2, <1>4, <1>5, <3>1, <3>4, <3>5 DEF Fresh
    <3> QED BY <3>7, <3>8
  <2> QED BY <1>2, <1>4, <2>1 DEF ClientInv, FreshInv
<1>10. OnceInv'
  BY <1>0, <1>2, <1>4, <1>6, OnceSame DEF ClientInv
<1> QED BY <1>7, <1>8, <1>9, <1>10 DEF ClientInv

\* An entry for the monitor goes to the buffer.
LEMMA RecordStep == ASSUME ClientInv, Record PROVE ClientInv'
<1> DEFINE e == [seq |-> call.seq, entry |-> MonitorEntry(call.key, call.ret)]
<1>0. /\ call \in Calls /\ call.at = "record" /\ call.op \in {"check", "simple"} /\ call.then \in {"idle", "store"}
      /\ call.answer \in Answers
  BY DEF ClientInv, ClientTypeOK, Steps, Record
<1>1. /\ listening' = listening /\ link' = link /\ readQueue' = readQueue /\ monitoring' = monitoring
      /\ calls' = calls /\ leftover' = leftover /\ version' = version
      /\ logged' = logged /\ parting' = parting /\ cache' = cache
  BY DEF Record, socketVars, daemonVars
<1>2. e \in Entry /\ e.seq = call.seq
  BY <1>0 DEF Entry, MonitorEntry, Calls
<1>3. PICK at \in {"flush", call.then} :
        /\ Goto(at) /\ (~monitoring => at = call.then) /\ entries' \in {entries, Append(entries, e)}
  BY DEF Record
<1> HIDE DEF e
<1>4. Moved(call, call', at)
  BY <1>0, <1>3, MoveFields DEF Goto, Places, Returns
<1>5. entries \in Seq(Entry) /\ entries' \in Seq(Entry)
  BY <1>2, <1>3, SMTT(30) DEF ClientInv, ClientTypeOK
<1>6. ClientTypeOK'
  BY <1>0, <1>1, <1>3, <1>4, <1>5 DEF ClientInv, ClientTypeOK, Steps, Moved
<1>7. CacheInv'
  BY <1>0, <1>1, <1>3, <1>4 DEF ClientInv, CacheInv, CrashOnlyByMissingPlugin, Asking, Moved
<1>8. FreshInv'
  <2>1. ASSUME ~leftover PROVE Exchange' /\ Fresh'
    <3>1. Exchange /\ Fresh
      BY <2>1 DEF ClientInv, FreshInv
    <3>2. Exchange'
      BY <1>0, <1>1, <1>3, <1>4, <3>1 DEF Exchange, Moved, IsConnected
    <3>3. Fresh'
      BY <1>0, <1>1, <1>3, <1>4, <3>1 DEF Fresh, Moved, IsConnected
    <3> QED BY <3>2, <3>3
  <2> QED BY <1>1, <1>4, <2>1 DEF ClientInv, FreshInv, Moved
<1>9. OnceInv'
  <2>1. call.seq \notin Noted /\ call.seq <= calls
    BY <1>0 DEF ClientInv, OnceInv
  <2>2. /\ Once(logged, parting, link.reqs, Append(entries, e))
        /\ In(Append(entries, e)) = In(entries) \cup {call.seq}
    BY <1>2, <1>5, <2>1, OnceRecord, SMTT(30) DEF ClientInv, ClientTypeOK, OnceInv, Noted, Links
  <2>3. Once(logged', parting', link'.reqs, entries')
    BY <1>1, <1>3, <2>2 DEF ClientInv, OnceInv
  <2>4. Noted' \subseteq Noted \cup {call.seq}
    BY <1>1, <1>3, <2>2 DEF Noted
  <2> QED BY <1>0, <1>1, <1>3, <1>4, <2>1, <2>3, <2>4 DEF ClientInv, OnceInv, Moved
<1> QED BY <1>6, <1>7, <1>8, <1>9 DEF ClientInv

\* The answer goes to the cache, which has no element for its key.
LEMMA StoreStep == ASSUME ClientInv, Store PROVE ClientInv'
<1> DEFINE result == [type |-> AnswerType(call.answer), answer |-> call.answer]
           done == Update(cache, call.session, call.key, result)
<1>0. call \in Calls /\ call.at = "store" /\ call.answer \in Answers /\ Sound(cache) /\ call.key \notin DOMAIN cache.value
  BY DEF ClientInv, ClientTypeOK, Steps, CacheInv, Asking, Store
<1>1. /\ listening' = listening /\ link' = link /\ readQueue' = readQueue /\ monitoring' = monitoring
      /\ calls' = calls /\ leftover' = leftover /\ version' = version /\ entries' = entries
      /\ logged' = logged /\ parting' = parting
  BY DEF Store, socketVars, daemonVars
<1>2. result.answer = call.answer
  OBVIOUS
<1>3. IF UsesErased(cache, call.key, result)
      THEN Goto("crashed") /\ UNCHANGED cache
      ELSE Return(done.ret) /\ cache' = done.cache
  BY DEF Store
<1> HIDE DEF result
<1>4. /\ Sound(done.cache) /\ done.ret \in {"ACCESS_ALLOWED", "ACCESS_DENIED"}
      /\ \A m \in DOMAIN done.cache.value :
           \/ m \in DOMAIN cache.value /\ done.cache.value[m] = cache.value[m]
           \/ m = call.key /\ done.cache.value[m].result = result
  <2>1. call.key \in KeySet /\ result.answer \in Answers
    BY <1>0, <1>2 DEF Calls
  <2>2. done = Update(cache, call.session, call.key, result)
    OBVIOUS
  <2> HIDE DEF done
  <2> QED BY <1>0, <2>1, <2>2, UpdateSound, SMTT(30)
<1> HIDE DEF done
<1>5. ~UsesErased(cache, call.key, result)
  <2> SUFFICES ASSUME Len(cache.usage) > 0, cache.usage[Len(cache.usage)] = call.key PROVE FALSE
    BY DEF UsesErased
  <2>1. Len(cache.usage) \in DOMAIN cache.usage
    BY <1>0, SMTT(30) DEF Sound
  <2> QED BY <1>0, <2>1 DEF Sound
<1>6. cache' = done.cache /\ Moved(call, call', "idle")
  BY <1>0, <1>3, <1>4, <1>5, MoveFields DEF Return, Places, Returns
<1>7. ClientTypeOK'
  BY <1>0, <1>1, <1>6 DEF ClientInv, ClientTypeOK, Steps, Moved
<1>8. CacheInv'
  BY <1>4, <1>6 DEF CacheInv, CrashOnlyByMissingPlugin, Asking, Moved
<1>9. FreshInv'
  <2>1. ASSUME ~leftover PROVE Exchange' /\ Fresh'
    <3>1. Exchange /\ Fresh
      BY <2>1 DEF ClientInv, FreshInv
    <3>2. Exchange'
      BY <1>0, <1>1, <1>6, <3>1 DEF Exchange, Moved, IsConnected
    <3>3. call.answer # NoAnswer /\ call.answer.key = call.key
      <4>1. NoAnswer \notin Answers
        BY DEF NoAnswer, Answers
      <4> QED BY <1>0, <3>1, <4>1 DEF Fresh
    <3>4. ~monitoring /\ IsConnected => call.answer.version = version
      BY <1>0, <3>1 DEF Fresh
    <3>5. Fresh'
      BY <1>1, <1>2, <1>4, <1>6, <3>1, <3>3, <3>4 DEF Fresh, Moved, IsConnected
    <3> QED BY <3>2, <3>5
  <2> QED BY <1>1, <1>6, <2>1 DEF ClientInv, FreshInv, Moved
<1>10. OnceInv'
  BY <1>0, <1>1, <1>6, OnceSame DEF ClientInv, Moved
<1> QED BY <1>7, <1>8, <1>9, <1>10 DEF ClientInv
\* The cache of a new object is sound.
LEMMA EmptySound == Sound(EmptyCache) /\ DOMAIN EmptyCache.value = {}
<1> DEFINE d == EmptyCache
<1>1. /\ DOMAIN d = {"usage", "value", "null"} /\ d.null = FALSE
      /\ d.usage = <<>> /\ d.value = [k \in {} |-> 0]
  BY DEF EmptyCache
<1> HIDE DEF d
<1>2. DOMAIN d.value = {} /\ DOMAIN d.usage = {} /\ d.usage \in Seq(KeySet)
  BY <1>1, SMTT(30)
<1>3. d.null \in BOOLEAN
  BY <1>1
<1> QED BY <1>1, <1>2, <1>3 DEF Sound, d

\* flushMonitor connects when it has to.
LEMMA FlushStep == ASSUME ClientInv, Flush PROVE ClientInv'
<1>0. call \in Calls /\ call.at = "flush" /\ call.then \in {"idle", "store", "delete"}
  BY DEF ClientInv, ClientTypeOK, Steps, Flush
<1>1. CASE /\ IsConnected /\ Goto("put")
           /\ UNCHANGED <<socketVars, monitoring, cache, entries, old, daemonVars, calls, leftover>>
  <2>1. Moved(call, call', "put")
    BY <1>0, <1>1, MoveFields DEF Goto, Places, Returns
  <2>2. ClientTypeOK'
    BY <1>0, <1>1, <2>1 DEF ClientInv, ClientTypeOK, Steps, Moved, socketVars, daemonVars
  <2>3. CacheInv'
    BY <1>0, <1>1, <2>1 DEF ClientInv, CacheInv, CrashOnlyByMissingPlugin, Asking, Moved
  <2>4. FreshInv'
    <3>1. ASSUME ~leftover PROVE Exchange' /\ Fresh'
      <4>1. Exchange /\ Fresh
        BY <3>1 DEF ClientInv, FreshInv
      <4>2. Exchange'
        BY <1>0, <1>1, <2>1, <4>1 DEF Exchange, Moved, socketVars, IsConnected, daemonVars
      <4>3. Fresh'
        BY <1>0, <1>1, <2>1, <4>1 DEF Fresh, Moved, socketVars, IsConnected, daemonVars
      <4> QED BY <4>2, <4>3
    <3> QED BY <1>1, <2>1, <3>1 DEF ClientInv, FreshInv, Moved, daemonVars
  <2>5. OnceInv'
    BY <1>0, <1>1, <2>1, OnceSame DEF ClientInv, Moved, socketVars, daemonVars
  <2> QED BY <2>2, <2>3, <2>4, <2>5 DEF ClientInv
<1>2. CASE Reconnect("put", FlushFails)
  <2>1. After("put") /\ "put" \in Places /\ After(call.then) /\ call.then \in Places /\ call.at # "wait"
    BY <1>0 DEF After, Places
  <2>2. Reconnect("put", Goto(call.then) \/ Return("UNKNOWN_ERROR"))
    BY <1>2 DEF Reconnect, FlushFails
  <2> QED BY <2>1, <2>2, ReconnectStep
<1> QED BY <1>1, <1>2 DEF Flush

\* The buffer is sent and emptied, or kept when the connection is lost.
LEMMA PutEntriesStep == ASSUME ClientInv, PutEntries PROVE ClientInv'
<1> DEFINE m == [type |-> "put", key |-> "none", seq |-> call.seq, entries |-> entries]
<1>0. call \in Calls /\ call.at = "put" /\ call.then \in {"idle", "store", "delete"} /\ link \in Links
  BY DEF ClientInv, ClientTypeOK, Steps, PutEntries
<1>1. Moved(call, call', call.then)
  BY <1>0, MoveFields DEF PutEntries, Goto, Places, Returns
<1>2. /\ monitoring' = monitoring /\ calls' = calls /\ leftover' = leftover
      /\ version' = version /\ logged' = logged /\ parting' = parting /\ cache' = cache
  BY DEF PutEntries, daemonVars
<1>3. m \in Requests /\ m.type = "put" /\ m.entries = entries /\ entries \in Seq(Entry)
  BY <1>0 DEF ClientInv, ClientTypeOK, Requests, Calls, KeySet
<1>4. /\ listening' = listening /\ readQueue' = readQueue
      /\ \/ IsConnected /\ link' = [link EXCEPT !.reqs = Append(link.reqs, m)] /\ entries' = <<>>
         \/ link' = link /\ entries' = entries
  BY DEF PutEntries, SendToServer, socketVars
<1> HIDE DEF m
<1>5. link.reqs \in Seq(Requests) /\ link.resps \in Seq(Answers) /\ Append(link.reqs, m) \in Seq(Requests)
  BY <1>0, <1>3, SMTT(30) DEF Links
<1>6. /\ link' \in Links /\ link'.open = link.open /\ link'.closed = link.closed /\ link'.resps = link.resps
      /\ \/ IsConnected /\ link'.reqs = Append(link.reqs, m) /\ entries' = <<>>
         \/ link'.reqs = link.reqs /\ entries' = entries
  <2>1. CASE IsConnected /\ link' = [link EXCEPT !.reqs = Append(link.reqs, m)] /\ entries' = <<>>
    BY <1>0, <1>5, <2>1, LinkUpdates
  <2>2. CASE link' = link /\ entries' = entries
    BY <1>0, <2>2
  <2> QED BY <1>4, <2>1, <2>2
<1>7. entries' \in Seq(Entry)
  <2>1. <<>> \in Seq(Entry)
    BY SMTT(30)
  <2>2. entries' = <<>> \/ entries' = entries
    BY <1>4
  <2> QED BY <1>3, <2>1, <2>2
<1>8. ClientTypeOK'
  <2>1. Steps'
    BY <1>0, <1>1 DEF ClientInv, ClientTypeOK, Steps, Moved
  <2>2. /\ link'.closed => link'.reqs = <<>>
        /\ ~link'.open => link'.reqs = <<>> /\ link'.resps = <<>>
    BY <1>6 DEF ClientInv, ClientTypeOK, IsConnected
  <2> QED BY <1>1, <1>2, <1>4, <1>6, <1>7, <2>1, <2>2 DEF ClientInv, ClientTypeOK, Moved
<1>9. CacheInv'
  BY <1>0, <1>1, <1>2 DEF ClientInv, CacheInv, CrashOnlyByMissingPlugin, Asking, Moved
<1>10. FreshInv'
  <2>1. ASSUME ~leftover PROVE Exchange' /\ Fresh'
    <3>1. Exchange /\ Fresh
      BY <2>1 DEF ClientInv, FreshInv
    <3>2. link.resps = <<>> /\ \A i \in DOMAIN link.reqs : link.reqs[i].type = "put"
      BY <1>0, <3>1 DEF Exchange
    <3>3. \A i \in DOMAIN link'.reqs : link'.reqs[i].type = "put"
      BY <1>3, <1>5, <1>6, <3>2, SMTT(30)
    <3>4. Exchange'
      BY <1>4, <1>6, <3>1, <3>2, <3>3, SMTT(30) DEF Exchange
    <3>5. Fresh'
      BY <1>0, <1>1, <1>2, <1>6, <3>1 DEF Fresh, Moved, IsConnected
    <3> QED BY <3>4, <3>5
  <2> QED BY <1>1, <1>2, <2>1 DEF ClientInv, FreshInv, Moved
<1>11. OnceInv'
  <2>1. Once(logged, parting, Append(link.reqs, m), <<>>) /\ SentIn(Append(link.reqs, m)) = SentIn(link.reqs) \cup In(entries)
    <3>1. Once(logged, parting, link.reqs, entries)
      BY DEF ClientInv, OnceInv
    <3>2. logged \in Seq(Entry) /\ parting \in Seq(Requests)
      BY DEF ClientInv, ClientTypeOK
    <3> QED BY <1>3, <1>5, <3>1, <3>2, OncePut, SMTT(30)
  <2>2. Noted' \subseteq Noted
    BY <1>2, <1>6, <2>1, EmptyLists DEF Noted
  <2>3. Once(logged', parting', link'.reqs, entries')
    BY <1>2, <1>6, <2>1 DEF ClientInv, OnceInv
  <2> QED BY <1>0, <1>1, <1>2, <2>2, <2>3, OnceKept DEF ClientInv, Moved
<1> QED BY <1>8, <1>9, <1>10, <1>11 DEF ClientInv

\* A new object has nothing of the old one but what is on its way to the daemon.
LEMMA DeleteStep == ASSUME ClientInv, Delete PROVE ClientInv'
<1>0. call \in Calls /\ call.at = "delete" /\ call.op = "finish" /\ call.answer = NoAnswer
  BY DEF ClientInv, ClientTypeOK, Steps, Delete
<1>1. Moved(call, call', "idle")
  BY <1>0, MoveFields DEF Delete, Return, Places, Returns
<1>2. /\ link' = NoLink /\ readQueue' = <<>> /\ cache' = EmptyCache /\ entries' = <<>> /\ leftover' = FALSE
      /\ parting' = parting \o link.reqs /\ listening' = listening /\ monitoring' = monitoring
      /\ version' = version /\ logged' = logged /\ calls' = calls
  BY DEF Delete
<1>3. link.reqs \in Seq(Requests) /\ parting \in Seq(Requests) /\ parting' \in Seq(Requests)
  <2>1. link.reqs \in Seq(Requests) /\ parting \in Seq(Requests)
    BY DEF ClientInv, ClientTypeOK, Links
  <2> QED BY <1>2, <2>1, SMTT(30)
<1>4. /\ link' \in Links /\ ~link'.open /\ ~link'.closed /\ link'.reqs = <<>> /\ link'.resps = <<>>
      /\ readQueue' \in Seq(Answers) /\ entries' \in Seq(Entry)
  BY <1>2, LinkFields, SMTT(30)
<1>5. Sound(cache') /\ DOMAIN cache'.value = {}
  BY <1>2, EmptySound
<1>6. ClientTypeOK'
  BY <1>0, <1>1, <1>2, <1>3, <1>4 DEF ClientInv, ClientTypeOK, Steps, Moved
<1>7. CacheInv'
  BY <1>1, <1>5 DEF CacheInv, CrashOnlyByMissingPlugin, Asking, Moved
<1>8. FreshInv'
  <2>1. Exchange'
    BY <1>2, <1>4, SMTT(30) DEF Exchange
  <2>2. Fresh'
    BY <1>0, <1>1, <1>5 DEF Fresh, Moved
  <2> QED BY <1>1, <1>2, <2>1, <2>2 DEF ClientInv, FreshInv, Moved
<1>9. OnceInv'
  <2>1. Once(logged, parting \o link.reqs, <<>>, <<>>) /\ SentIn(parting \o link.reqs) = SentIn(parting) \cup SentIn(link.reqs)
    BY <1>3, OnceDelete, SMTT(30) DEF ClientInv, ClientTypeOK, OnceInv
  <2>2. Noted' \subseteq Noted
    BY <1>2, <1>4, <2>1, EmptyLists DEF Noted
  <2>3. Once(logged', parting', link'.reqs, entries')
    BY <1>2, <1>4, <2>1
  <2> QED BY <1>0, <1>1, <1>2, <2>2, <2>3, OnceKept DEF ClientInv, Moved
<1> QED BY <1>6, <1>7, <1>8, <1>9 DEF ClientInv

\* While no answer is waited for, the daemon has nothing but entries to read.
LEMMA NothingExpected ==
  ASSUME readQueue' = <<>>, link'.resps = <<>>, \A i \in DOMAIN link'.reqs : link'.reqs[i].type = "put"
  PROVE  Exchange'
<1>1. DOMAIN link'.resps = {} /\ Len(link'.resps) = 0
  BY SMTT(30)
<1> QED BY <1>1, SMTT(30) DEF Exchange

\* Sequence numbers are numbers.
LEMMA NotedNat == ASSUME ClientTypeOK PROVE Noted \subseteq Nat
<1>1. ASSUME NEW s \in Seq(Entry) PROVE In(s) \subseteq Nat
  <2>1. \A i \in DOMAIN s : s[i] \in Entry
    BY SMTT(30)
  <2> QED BY <2>1 DEF In, Entry
<1>2. ASSUME NEW q \in Seq(Requests) PROVE SentIn(q) \subseteq Nat
  <2>1. \A i \in DOMAIN q : q[i] \in Requests
    BY SMTT(30)
  <2>2. \A i \in DOMAIN q : q[i].entries \in Seq(Entry)
    BY <2>1 DEF Requests
  <2> QED BY <1>1, <2>2 DEF SentIn
<1> QED BY <1>1, <1>2 DEF Noted, ClientTypeOK, Links

\* A call begins: check or simple check ...
LEMMA BeginStep ==
  ASSUME ClientInv, NEW op \in {"check", "simple"}, NEW q \in Questions, Begin(op, q.key, q.session)
  PROVE  ClientInv'
<1>0. call \in Calls /\ call.at = "idle" /\ calls \in Nat /\ version \in Nat
  BY DEF ClientInv, ClientTypeOK, Begin
<1>1. /\ listening' = listening /\ link' = link /\ readQueue' = readQueue /\ monitoring' = monitoring
      /\ leftover' = leftover /\ version' = version /\ entries' = entries
      /\ logged' = logged /\ parting' = parting /\ cache' = cache /\ calls' = calls + 1
  BY DEF Begin, socketVars, daemonVars
<1>2. /\ call' \in Calls /\ call'.at = "ensure" /\ call'.op = op /\ call'.seq = calls + 1 /\ call'.since = version
      /\ call'.answer = NoAnswer
  <2>1. call' = [at |-> "ensure", op |-> op, key |-> q.key, session |-> q.session, then |-> "none",
                 seq |-> calls + 1, answer |-> NoAnswer, ret |-> "none", since |-> version]
    BY DEF Begin, Idle, NoAnswer
  <2>2. q.key \in KeySet /\ q.session \in Sessions /\ calls + 1 \in Nat /\ "ensure" \in Places /\ "none" \in Returns
    BY <1>0, SMTT(30) DEF KeySet, Sessions, Places, Returns
  <2> QED BY <1>0, <2>1, <2>2 DEF Calls
<1>3. ClientTypeOK'
  <2>1. Steps'
    BY <1>2 DEF Steps
  <2>2. calls' \in Nat
    BY <1>0, <1>1, SMTT(30)
  <2> QED BY <1>1, <1>2, <2>1, <2>2 DEF ClientInv, ClientTypeOK
<1>4. CacheInv'
  BY <1>1, <1>2 DEF ClientInv, CacheInv, CrashOnlyByMissingPlugin, Asking
<1>5. FreshInv'
  <2>1. ASSUME ~leftover PROVE Exchange' /\ Fresh'
    <3>1. Exchange /\ Fresh
      BY <2>1 DEF ClientInv, FreshInv
    <3>2. readQueue = <<>> /\ link.resps = <<>> /\ \A i \in DOMAIN link.reqs : link.reqs[i].type = "put"
      BY <1>0, <3>1 DEF Exchange
    <3>3. Exchange'
      BY <1>1, <3>2, NothingExpected
    <3>4. Fresh'
      BY <1>1, <1>2, <3>1 DEF Fresh, IsConnected
    <3> QED BY <3>3, <3>4
  <2> QED BY <1>0, <1>1, <1>2, <2>1, SMTT(30) DEF FreshInv
<1>6. OnceInv'
  <2>1. Noted' = Noted
    BY <1>1 DEF Noted
  <2>2. \A n \in Noted : n \in Nat /\ n <= calls
    <3>1. \A n \in Noted : n <= calls
      BY DEF ClientInv, OnceInv
    <3>2. Noted \subseteq Nat
      BY NotedNat DEF ClientInv
    <3> QED BY <3>1, <3>2
  <2>3. calls + 1 \notin Noted /\ \A n \in Noted : n <= calls + 1
    BY <1>0, <2>2, SMTT(30)
  <2>4. Once(logged', parting', link'.reqs, entries')
    BY <1>1 DEF ClientInv, OnceInv
  <2> QED BY <1>0, <1>1, <1>2, <2>1, <2>3, <2>4, SMTT(30) DEF OnceInv
<1> QED BY <1>3, <1>4, <1>5, <1>6 DEF ClientInv

\* ... or finish.
LEMMA FinishStep == ASSUME ClientInv, Finish PROVE ClientInv'
<1> DEFINE at == IF monitoring /\ entries # <<>> THEN "flush" ELSE "delete"
<1>0. call \in Calls /\ call.at = "idle" /\ calls \in Nat /\ version \in Nat
  BY DEF ClientInv, ClientTypeOK, Finish
<1>1. /\ listening' = listening /\ link' = link /\ readQueue' = readQueue /\ monitoring' = monitoring
      /\ leftover' = leftover /\ version' = version /\ entries' = entries
      /\ logged' = logged /\ parting' = parting /\ cache' = cache /\ calls' = calls + 1
  BY DEF Finish, socketVars, daemonVars
<1>2. at \in {"flush", "delete"} /\ (~monitoring => at = "delete")
  OBVIOUS
<1>3. /\ call' \in Calls /\ call'.at = at /\ call'.op = "finish" /\ call'.seq = 0 /\ call'.since = version
      /\ call'.answer = NoAnswer /\ call'.then = "delete"
  <2>1. call' = [at |-> at, op |-> "finish", key |-> "none", session |-> "none", then |-> "delete",
                 seq |-> 0, answer |-> NoAnswer, ret |-> "none", since |-> version]
    BY DEF Finish, Idle, NoAnswer
  <2> HIDE DEF at
  <2>2. "none" \in KeySet /\ "none" \in Sessions /\ at \in Places /\ "none" \in Returns
    BY <1>2 DEF KeySet, Sessions, Places, Returns
  <2> QED BY <1>0, <2>1, <2>2 DEF Calls
<1> HIDE DEF at
<1>4. ClientTypeOK'
  <2>1. Steps'
    BY <1>0, <1>2, <1>3 DEF Steps
  <2>2. calls' \in Nat
    BY <1>0, <1>1, SMTT(30)
  <2> QED BY <1>1, <1>3, <2>1, <2>2 DEF ClientInv, ClientTypeOK
<1>5. CacheInv'
  BY <1>1, <1>2, <1>3 DEF ClientInv, CacheInv, CrashOnlyByMissingPlugin, Asking
<1>6. FreshInv'
  <2>1. ASSUME ~leftover PROVE Exchange' /\ Fresh'
    <3>1. Exchange /\ Fresh
      BY <2>1 DEF ClientInv, FreshInv
    <3>2. readQueue = <<>> /\ link.resps = <<>> /\ \A i \in DOMAIN link.reqs : link.reqs[i].type = "put"
      BY <1>0, <3>1 DEF Exchange
    <3>3. Exchange'
      BY <1>1, <3>2, NothingExpected
    <3>4. Fresh'
      BY <1>1, <1>2, <1>3, <3>1 DEF Fresh, IsConnected
    <3> QED BY <3>3, <3>4
  <2> QED BY <1>0, <1>1, <1>3, <2>1, SMTT(30) DEF FreshInv
<1>7. OnceInv'
  <2>1. Noted' = Noted
    BY <1>1 DEF Noted
  <2>2. \A n \in Noted : n \in Nat /\ n <= calls
    <3>1. \A n \in Noted : n <= calls
      BY DEF ClientInv, OnceInv
    <3>2. Noted \subseteq Nat
      BY NotedNat DEF ClientInv
    <3> QED BY <3>1, <3>2
  <2>3. \A n \in Noted : n <= calls + 1
    BY <1>0, <2>2, SMTT(30)
  <2>4. Once(logged', parting', link'.reqs, entries')
    BY <1>1 DEF ClientInv, OnceInv
  <2> QED BY <1>0, <1>1, <1>2, <1>3, <2>1, <2>3, <2>4, SMTT(30) DEF OnceInv
<1> QED BY <1>4, <1>5, <1>6, <1>7 DEF ClientInv
\* What holds of the call and the cache is not touched by the daemon.
LEMMA CallKept == ASSUME ClientInv, call' = call, cache' = cache PROVE CacheInv' /\ Steps' /\ call' \in Calls
<1>1. Steps' /\ call' \in Calls
  BY DEF ClientInv, ClientTypeOK, Steps
<1>2. CacheInv'
  BY DEF ClientInv, CacheInv, CrashOnlyByMissingPlugin, Asking
<1> QED BY <1>1, <1>2

\* The daemon hangs up on a simple check of a corrupted database.
HangsUp == Head(link.reqs).type = "simple" /\ corrupted

\* The daemon reads a request, and answers it when it is a check.
LEMMA ServeStep == ASSUME ClientInv, Serve, ~HangsUp PROVE ClientInv'
<1> DEFINE m == Head(link.reqs)
           rest == [link EXCEPT !.reqs = Tail(link.reqs)]
<1>0. link \in Links /\ link.reqs \in Seq(Requests) /\ link.resps \in Seq(Answers) /\ IsConnected /\ link.reqs # <<>>
  BY DEF ClientInv, ClientTypeOK, Serve, Links
<1>1. /\ listening' = listening /\ readQueue' = readQueue /\ monitoring' = monitoring /\ calls' = calls
      /\ leftover' = leftover /\ version' = version /\ entries' = entries /\ parting' = parting
      /\ cache' = cache /\ call' = call
  BY DEF Serve
<1>2. m \in Requests /\ Tail(link.reqs) \in Seq(Requests)
  BY <1>0, SentTail
<1>3. /\ rest \in Links /\ rest.open = link.open /\ rest.closed = link.closed
      /\ rest.reqs = Tail(link.reqs) /\ rest.resps = link.resps
  BY <1>0, <1>2, LinkUpdates
<1>4. PICK a \in Answers :
        \/ m.type = "put" /\ logged' = logged \o m.entries /\ link' = rest
        \/ /\ m.type # "put" /\ logged' = logged /\ a.key = m.key /\ a.version = version
           /\ link' = [rest EXCEPT !.resps = Append(link.resps, a)]
  <2>1. CASE m.type = "put"
    <3>1. logged' = logged \o m.entries /\ link' = rest
      BY <2>1 DEF Serve
    <3>2. \E a : a \in Answers
      <4>1. [type |-> "check", key |-> "none", seq |-> 0, version |-> 0, ret |-> "SUCCESS"] \in Answers
        BY DEF Answers, KeySet
      <4> QED BY <4>1
    <3> QED BY <2>1, <3>1, <3>2
  <2>2. CASE m.type # "put"
    <3>1. PICK ret \in {"SUCCESS", "ACCESS_NOT_RESOLVED"} :
            /\ link' = [rest EXCEPT !.resps = Append(@, [type |-> m.type, key |-> m.key, seq |-> m.seq,
                                                         version |-> version, ret |-> ret])]
            /\ logged' = logged
      BY <2>2 DEF Serve, HangsUp
    <3> DEFINE a == [type |-> m.type, key |-> m.key, seq |-> m.seq, version |-> version, ret |-> ret]
    <3>2. a \in Answers /\ a.key = m.key /\ a.version = version
      BY <1>2, <2>2 DEF Answers, Requests, ClientInv, ClientTypeOK
    <3>3. link' = [rest EXCEPT !.resps = Append(link.resps, a)]
      <4> HIDE DEF rest
      <4>1. link' = [rest EXCEPT !.resps = Append(rest.resps, a)]
        BY <3>1
      <4> QED BY <1>3, <4>1
    <3> HIDE DEF a, rest, m
    <3> QED BY <2>2, <3>1, <3>2, <3>3
  <2> QED BY <2>1, <2>2
<1> HIDE DEF m, rest
<1>5. /\ link' \in Links /\ link'.open = link.open /\ link'.closed = link.closed /\ link'.reqs = Tail(link.reqs)
      /\ link'.resps = IF m.type = "put" THEN link.resps ELSE Append(link.resps, a)
      /\ logged' = IF m.type = "put" THEN logged \o m.entries ELSE logged
  <2>1. Append(link.resps, a) \in Seq(Answers)
    BY <1>0, SMTT(30)
  <2>2. CASE m.type = "put"
    BY <1>3, <1>4, <2>2
  <2>3. CASE m.type # "put"
    <3>1. link' = [rest EXCEPT !.resps = Append(link.resps, a)] /\ logged' = logged
      BY <1>4, <2>3
    <3>2. /\ link' \in Links /\ link'.open = rest.open /\ link'.closed = rest.closed
          /\ link'.reqs = rest.reqs /\ link'.resps = Append(link.resps, a)
      BY <1>2, <1>3, <2>1, <3>1, LinkUpdates
    <3> QED BY <1>3, <2>3, <3>1, <3>2
  <2> QED BY <2>2, <2>3
<1>6. logged \in Seq(Entry) /\ logged' \in Seq(Entry)
  <2>1. logged \in Seq(Entry) /\ m.entries \in Seq(Entry)
    BY <1>2 DEF ClientInv, ClientTypeOK, Requests
  <2> QED BY <1>5, <2>1, SMTT(30)
<1>7. ClientTypeOK'
  <2>1. link'.open /\ ~link'.closed
    BY <1>0, <1>5 DEF IsConnected
  <2> QED BY <1>1, <1>5, <1>6, <2>1, CallKept DEF ClientInv, ClientTypeOK
<1>8. CacheInv'
  BY <1>1, CallKept
<1>9. FreshInv'
  <2>1. ASSUME ~leftover PROVE Exchange' /\ Fresh'
    <3>1. Exchange /\ Fresh
      BY <2>1 DEF ClientInv, FreshInv
    <3>2. Fresh'
      BY <1>1, <1>5, <3>1 DEF Fresh, IsConnected
    <3>3. \A i \in DOMAIN link'.reqs : i \in Nat /\ i + 1 \in DOMAIN link.reqs /\ i + 1 # 1 /\ link'.reqs[i] = link.reqs[i + 1]
      BY <1>0, <1>5, SMTT(30)
    <3>4. m = link.reqs[1] /\ 1 \in DOMAIN link.reqs
      BY <1>0, SMTT(30) DEF m
    <3>5. CASE m.type = "put"
      <4>1. /\ call.at # "wait" => link'.resps = <<>> /\ \A i \in DOMAIN link'.reqs : link'.reqs[i].type = "put"
            /\ Len(link'.resps) <= 1
        BY <1>5, <3>1, <3>3, <3>5 DEF Exchange
      <4>2. \A i \in DOMAIN link'.resps :
              /\ link'.resps[i].key = call.key /\ link'.resps[i].version >= call.since
              /\ link'.resps[i].version = version
        BY <1>0, <1>5, <3>1, <3>5 DEF Exchange
      <4>3. ASSUME NEW i \in DOMAIN link'.reqs, link'.reqs[i].type # "put"
            PROVE  /\ link'.reqs[i].key = call.key /\ link'.resps = <<>>
                   /\ \A j \in DOMAIN link'.reqs : link'.reqs[j].type # "put" => j = i
        <5>1. link'.reqs[i].key = call.key /\ link'.resps = <<>>
          BY <1>5, <3>1, <3>3, <3>5, <4>3 DEF Exchange
        <5>2. ASSUME NEW j \in DOMAIN link'.reqs, link'.reqs[j].type # "put" PROVE j = i
          <6>1. j + 1 = i + 1
            BY <3>1, <3>3, <4>3, <5>2 DEF Exchange
          <6> QED BY <3>3, <6>1, SMTT(30)
        <5> QED BY <5>1, <5>2
      <4> QED BY <1>1, <3>1, <3>2, <4>1, <4>2, <4>3 DEF Exchange
    <3>6. CASE m.type # "put"
      <4>1. /\ m.key = call.key /\ link.resps = <<>>
            /\ \A j \in DOMAIN link.reqs : link.reqs[j].type # "put" => j = 1
        BY <3>1, <3>4, <3>6 DEF Exchange
      <4>2. \A i \in DOMAIN link'.reqs : link'.reqs[i].type = "put"
        BY <3>3, <4>1
      <4>3. call.at = "wait"
        BY <3>1, <3>4, <3>6 DEF Exchange
      <4>4. link'.resps = <<a>> /\ a.key = call.key /\ a.version = version
        BY <1>4, <1>5, <3>6, <4>1, SMTT(30)
      <4>5. version >= call.since
        BY DEF ClientInv, ClientTypeOK, FreshInv, Calls
      <4>6. /\ Len(link'.resps) <= 1
            /\ \A i \in DOMAIN link'.resps :
                 /\ link'.resps[i].key = call.key /\ link'.resps[i].version >= call.since
                 /\ link'.resps[i].version = version
        BY <4>4, <4>5, SMTT(30)
      <4> QED BY <1>1, <3>1, <3>2, <4>2, <4>3, <4>6 DEF Exchange
    <3> QED BY <3>5, <3>6
  <2> QED BY <1>1, <2>1 DEF ClientInv, FreshInv
<1>10. OnceInv'
  <2>1. /\ Once(logged \o m.entries, parting, Tail(link.reqs), entries)
        /\ Once(logged, parting, Tail(link.reqs), entries)
        /\ In(logged \o m.entries) \cup SentIn(Tail(link.reqs)) = In(logged) \cup SentIn(link.reqs)
        /\ SentIn(Tail(link.reqs)) \subseteq SentIn(link.reqs)
    BY <1>0, OnceServe DEF ClientInv, ClientTypeOK, OnceInv, m
  <2>2. Noted' \subseteq Noted
    <3>1. In(logged') \cup SentIn(link'.reqs) \subseteq In(logged) \cup SentIn(link.reqs)
      BY <1>5, <2>1
    <3> QED BY <1>1, <3>1 DEF Noted
  <2>3. Once(logged', parting', link'.reqs, entries')
    BY <1>1, <1>5, <2>1
  <2> QED BY <1>1, <2>2, <2>3, OnceKept DEF ClientInv
<1> QED BY <1>7, <1>8, <1>9, <1>10 DEF ClientInv

\* The daemon reads what an earlier object sent.
LEMMA ServePartingStep == ASSUME ClientInv, ServeParting PROVE ClientInv'
<1>0. parting \in Seq(Requests) /\ parting # <<>> /\ logged \in Seq(Entry)
  BY DEF ClientInv, ClientTypeOK, ServeParting
<1>1. /\ listening' = listening /\ readQueue' = readQueue /\ link' = link /\ monitoring' = monitoring /\ calls' = calls
      /\ leftover' = leftover /\ version' = version /\ entries' = entries
      /\ cache' = cache /\ call' = call
      /\ logged' = logged \o Head(parting).entries /\ parting' = Tail(parting)
  BY DEF ServeParting, socketVars
<1>2. parting' \in Seq(Requests) /\ logged' \in Seq(Entry)
  <2>1. Head(parting) \in Requests /\ Tail(parting) \in Seq(Requests)
    BY <1>0, SentTail
  <2>2. Head(parting).entries \in Seq(Entry)
    BY <2>1 DEF Requests
  <2> QED BY <1>0, <1>1, <2>1, <2>2, SMTT(30)
<1>3. ClientTypeOK'
  BY <1>1, <1>2, CallKept DEF ClientInv, ClientTypeOK
<1>4. CacheInv'
  BY <1>1, CallKept
<1>5. FreshInv'
  <2>1. ASSUME ~leftover PROVE Exchange' /\ Fresh'
    <3>1. Exchange /\ Fresh
      BY <2>1 DEF ClientInv, FreshInv
    <3>2. Exchange'
      BY <1>1, <3>1 DEF Exchange, IsConnected
    <3>3. Fresh'
      BY <1>1, <3>1 DEF Fresh, IsConnected
    <3> QED BY <3>2, <3>3
  <2> QED BY <1>1, <2>1 DEF ClientInv, FreshInv
<1>6. OnceInv'
  <2>1. /\ Once(logged \o Head(parting).entries, Tail(parting), link.reqs, entries)
        /\ In(logged \o Head(parting).entries) \cup SentIn(Tail(parting)) = In(logged) \cup SentIn(parting)
    BY <1>0, OnceServeParting DEF ClientInv, ClientTypeOK, OnceInv, Links
  <2>2. Noted' \subseteq Noted
    <3>1. In(logged') \cup SentIn(parting') \subseteq In(logged) \cup SentIn(parting)
      BY <1>1, <2>1
    <3> QED BY <1>1, <3>1 DEF Noted
  <2>3. Once(logged', parting', link'.reqs, entries')
    BY <1>1, <2>1
  <2> QED BY <1>1, <2>2, <2>3, OnceKept DEF ClientInv
<1> QED BY <1>3, <1>4, <1>5, <1>6 DEF ClientInv

\* The daemon closes the connections, with new policies or because it stops, or
\* only this one.
LEMMA HangUpStep ==
  ASSUME ClientInv, link' = HangUp(link), parting' \in {parting, <<>>}, version' \in {version, version + 1}, listening' \in BOOLEAN,
         UNCHANGED <<readQueue, monitoring, cache, entries, old, call, logged, calls, leftover>>
  PROVE  ClientInv'
<1>1. version \in Nat /\ call \in Calls /\ link \in Links /\ call.since <= version
  BY DEF ClientInv, ClientTypeOK, FreshInv
<1>2. /\ link' \in Links /\ link'.open = link.open /\ link'.closed = link.open /\ link'.reqs = <<>>
      /\ link'.resps = link.resps
  BY <1>1, LinkUpdates DEF Links
<1>3. version' \in Nat /\ call'.since <= version' /\ ~IsConnected'
  <2>1. call.since \in Nat
    BY <1>1 DEF Calls
  <2>2. call.since <= version' /\ version' \in Nat
    BY <1>1, <2>1, SMTT(30)
  <2> QED BY <1>2, <2>2 DEF IsConnected
<1>4. ClientTypeOK'
  <2>1. Steps' /\ call' \in Calls
    BY CallKept
  <2>2. parting' \in Seq(Requests)
    <3>1. parting \in Seq(Requests)
      BY DEF ClientInv, ClientTypeOK
    <3>2. <<>> \in Seq(Requests)
      BY SMTT(30)
    <3> QED BY <3>1, <3>2
  <2>3. ~link'.open => link'.reqs = <<>> /\ link'.resps = <<>>
    BY <1>2 DEF ClientInv, ClientTypeOK
  <2> QED BY <1>2, <1>3, <2>1, <2>2, <2>3 DEF ClientInv, ClientTypeOK
<1>5. CacheInv'
  BY CallKept
<1>6. FreshInv'
  <2>1. ASSUME ~leftover PROVE Exchange' /\ Fresh'
    <3>1. Exchange /\ Fresh
      BY <2>1 DEF ClientInv, FreshInv
    <3>2. Exchange'
      <4>1. DOMAIN link'.reqs = {}
        BY <1>2, SMTT(30)
      <4>2. link'.resps = link.resps /\ readQueue' = readQueue /\ call' = call
        BY <1>2
      <4> QED BY <1>3, <3>1, <4>1, <4>2 DEF Exchange
    <3>3. Fresh'
      BY <1>3, <3>1 DEF Fresh
    <3> QED BY <3>2, <3>3
  <2> QED BY <1>3, <2>1 DEF FreshInv
<1>7. OnceInv'
  <2>1. Once(logged', parting', link'.reqs, entries')
    BY <1>2, OnceLost DEF ClientInv, OnceInv
  <2>2. Noted' \subseteq Noted
    BY <1>2, EmptyLists DEF Noted
  <2> QED BY <2>1, <2>2, OnceKept DEF ClientInv
<1> QED BY <1>4, <1>5, <1>6, <1>7 DEF ClientInv

\* A step that changes none of this.
LEMMA SameStep ==
  ASSUME ClientInv, listening' \in BOOLEAN,
         readQueue' = readQueue, link' = link, monitoring' = monitoring, calls' = calls, leftover' = leftover,
         version' = version, entries' = entries, cache' = cache, call' = call, logged' = logged, parting' = parting
  PROVE  ClientInv'
<1>1. ClientTypeOK'
  BY CallKept DEF ClientInv, ClientTypeOK
<1>2. CacheInv'
  BY CallKept
<1>3. FreshInv'
  <2>1. ASSUME ~leftover PROVE Exchange' /\ Fresh'
    <3>1. Exchange /\ Fresh
      BY <2>1 DEF ClientInv, FreshInv
    <3>2. Exchange'
      BY <3>1 DEF Exchange, IsConnected
    <3>3. Fresh'
      BY <3>1 DEF Fresh, IsConnected
    <3> QED BY <3>2, <3>3
  <2> QED BY <2>1 DEF ClientInv, FreshInv
<1>4. OnceInv'
  BY OnceSame DEF ClientInv
<1> QED BY <1>1, <1>2, <1>3, <1>4 DEF ClientInv

\* The daemon starts again.
LEMMA StartDaemonStep == ASSUME ClientInv, StartDaemon PROVE ClientInv'
<1>1. /\ readQueue' = readQueue /\ link' = link /\ monitoring' = monitoring /\ calls' = calls
      /\ leftover' = leftover /\ version' = version /\ entries' = entries /\ listening' \in BOOLEAN
      /\ cache' = cache /\ call' = call /\ logged' = logged /\ parting' = parting
  BY DEF StartDaemon, daemonVars
<1> QED BY <1>1, SameStep
-----------------------------------------------------------------------------
\* At the start nothing is cached, recorded or on the way.
LEMMA ClientInitially == ASSUME ClientInit PROVE ClientInv
<1>1. /\ link = NoLink /\ readQueue = <<>> /\ listening \in BOOLEAN /\ monitoring \in BOOLEAN /\ cache = EmptyCache
      /\ entries = <<>> /\ call = Idle /\ version = 0 /\ logged = <<>> /\ parting = <<>> /\ calls = 0
      /\ leftover = FALSE
  BY DEF ClientInit, SocketInit
<1>2. link \in Links /\ ~link.open /\ ~link.closed /\ link.reqs = <<>> /\ link.resps = <<>>
  BY <1>1, LinkFields
<1>3. Sound(cache) /\ DOMAIN cache.value = {}
  BY <1>1, EmptySound
<1>4. call \in Calls /\ call.at = "idle" /\ call.op = "none" /\ call.seq = 0 /\ call.since = 0 /\ call.answer = NoAnswer
  BY <1>1 DEF Idle, Calls, Places, Returns, KeySet, Sessions, NoAnswer
<1>5. /\ readQueue \in Seq(Answers) /\ entries \in Seq(Entry) /\ logged \in Seq(Entry) /\ parting \in Seq(Requests)
      /\ version \in Nat /\ calls \in Nat
  BY <1>1, SMTT(30)
<1>6. leftover \in BOOLEAN
  BY <1>1
<1>7. Steps
  BY <1>4 DEF Steps
<1>8. ClientTypeOK
  BY <1>1, <1>2, <1>4, <1>5, <1>6, <1>7 DEF ClientTypeOK
<1>9. CacheInv
  BY <1>3, <1>4 DEF CacheInv, CrashOnlyByMissingPlugin, Asking
<1>10. Exchange
  BY <1>1, <1>2, SMTT(30) DEF Exchange
<1>11. Fresh
  BY <1>3, <1>4 DEF Fresh
<1>12. FreshInv
  BY <1>1, <1>4, <1>10, <1>11, SMTT(30) DEF FreshInv
<1>13. OnceInv
  <2>1. Once(logged, parting, link.reqs, entries) /\ Noted = {}
    BY <1>1, <1>2, EmptyLists DEF Once, Noted
  <2> QED BY <1>1, <1>4, <2>1, SMTT(30) DEF OnceInv
<1> QED BY <1>8, <1>9, <1>12, <1>13 DEF ClientInv

\* Every step keeps the invariant.
LEMMA ClientSteps == ASSUME ClientInv, [ClientNext]_clientVars PROVE ClientInv'
<1>1. ASSUME NEW q \in Questions, Check(q.key, q.session) \/ SimpleCheck(q.key, q.session) PROVE ClientInv'
  BY <1>1, BeginStep DEF Check, SimpleCheck
<1>2. CASE Finish
  BY <1>2, FinishStep
<1>3. CASE Library
  BY <1>3, EnsureConnectionStep, LookupStep, SendStep, ReceiveLostStep, RequestAgainStep, ReceiveStep,
     RecordStep, StoreStep, FlushStep, PutEntriesStep, DeleteStep DEF Library
<1>4. CASE Serve
  <2>1. CASE ~HangsUp
    BY <1>4, <2>1, ServeStep
  <2>2. CASE HangsUp
    <3>1. Head(link.reqs).type = "simple" /\ Head(link.reqs).type # "put" /\ corrupted
      BY <2>2 DEF HangsUp
    <3>2. /\ link' = HangUp(link) /\ parting' = parting /\ version' = version /\ listening' = listening
          /\ UNCHANGED <<readQueue, monitoring, cache, entries, old, call, logged, calls, leftover>>
      BY <1>4, <3>1 DEF Serve
    <3>3. listening' \in BOOLEAN
      BY <3>2 DEF ClientInv, ClientTypeOK
    <3> QED BY <3>2, <3>3, HangUpStep
  <2> QED BY <2>1, <2>2
<1>5. CASE ServeParting
  BY <1>5, ServePartingStep
<1>6. CASE ChangePolicies
  <2>1. listening' \in BOOLEAN
    BY <1>6 DEF ChangePolicies, ClientInv, ClientTypeOK
  <2> QED BY <1>6, <2>1, HangUpStep DEF ChangePolicies
<1>7. CASE StopDaemon
  <2>1. listening' \in BOOLEAN
    BY <1>7 DEF StopDaemon
  <2> QED BY <1>7, <2>1, HangUpStep DEF StopDaemon
<1>8. CASE StartDaemon
  BY <1>8, StartDaemonStep
<1>9. CASE UNCHANGED clientVars
  <2>1. /\ readQueue' = readQueue /\ link' = link /\ monitoring' = monitoring /\ calls' = calls
        /\ leftover' = leftover /\ version' = version /\ entries' = entries /\ listening' = listening
        /\ cache' = cache /\ call' = call /\ logged' = logged /\ parting' = parting
    BY <1>9 DEF clientVars, socketVars, clientOwn
  <2>2. listening' \in BOOLEAN
    BY <2>1 DEF ClientInv, ClientTypeOK
  <2> QED BY <2>1, <2>2, SameStep
<1> QED BY <1>1, <1>2, <1>3, <1>4, <1>5, <1>6, <1>7, <1>8, <1>9 DEF ClientNext

\* The inductive invariant holds in every state.
LEMMA ClientAlways == ClientSpec => []ClientInv
<1>1. ClientInit => ClientInv
  BY ClientInitially
<1>2. ClientInv /\ [ClientNext]_clientVars => ClientInv'
  BY ClientSteps
<1> QED BY <1>1, <1>2, PTL DEF ClientSpec

\* A list of entries holds none twice, and two lists have none in common.
LEMMA ListsApart ==
  ASSUME ClientInv, NEW l \in Lists
  PROVE  Distinct(EntriesIn(l)) /\ \A m \in Lists : m # l => In(EntriesIn(l)) \cap In(EntriesIn(m)) = {}
<1>1. Once(logged, parting, link.reqs, entries)
  BY DEF ClientInv, OnceInv
<1>2. ASSUME NEW m \in Lists
      PROVE  \/ m = <<"logged", 1>> /\ EntriesIn(m) = logged
             \/ m = <<"buffer", 1>> /\ EntriesIn(m) = entries
             \/ /\ m[1] = "parting" /\ m[2] \in DOMAIN parting /\ EntriesIn(m) = parting[m[2]].entries
                /\ m = <<m[1], m[2]>>
             \/ /\ m[1] = "link" /\ m[2] \in DOMAIN link.reqs /\ EntriesIn(m) = link.reqs[m[2]].entries
                /\ m = <<m[1], m[2]>>
  <2>1. CASE m = <<"logged", 1>>
    BY <2>1 DEF EntriesIn
  <2>2. CASE m = <<"buffer", 1>>
    BY <2>2 DEF EntriesIn
  <2>3. CASE m \in {"parting"} \X Puts(parting)
    BY <2>3, SMTT(30) DEF EntriesIn, Puts
  <2>4. CASE m \in {"link"} \X Puts(link.reqs)
    BY <2>4, SMTT(30) DEF EntriesIn, Puts
  <2> QED BY <2>1, <2>2, <2>3, <2>4 DEF Lists
<1>3. /\ \A i \in DOMAIN parting : Distinct(parting[i].entries) /\ In(parting[i].entries) \subseteq SentIn(parting)
      /\ \A i, j \in DOMAIN parting : i # j => In(parting[i].entries) \cap In(parting[j].entries) = {}
  BY <1>1 DEF Once, SentOnce, SentIn
<1>4. /\ \A i \in DOMAIN link.reqs : Distinct(link.reqs[i].entries) /\ In(link.reqs[i].entries) \subseteq SentIn(link.reqs)
      /\ \A i, j \in DOMAIN link.reqs : i # j => In(link.reqs[i].entries) \cap In(link.reqs[j].entries) = {}
  BY <1>1 DEF Once, SentOnce, SentIn
<1>5. Distinct(EntriesIn(l))
  BY <1>1, <1>2, <1>3, <1>4 DEF Once
<1>6. ASSUME NEW m \in Lists, m # l PROVE In(EntriesIn(l)) \cap In(EntriesIn(m)) = {}
  <2>1. CASE l[1] = "parting" /\ m[1] = "parting"
    <3>1. /\ l[2] \in DOMAIN parting /\ EntriesIn(l) = parting[l[2]].entries
          /\ m[2] \in DOMAIN parting /\ EntriesIn(m) = parting[m[2]].entries /\ l[2] # m[2]
      BY <1>2, <1>6, <2>1, SMTT(30)
    <3> QED BY <1>3, <3>1
  <2>2. CASE l[1] = "link" /\ m[1] = "link"
    <3>1. /\ l[2] \in DOMAIN link.reqs /\ EntriesIn(l) = link.reqs[l[2]].entries
          /\ m[2] \in DOMAIN link.reqs /\ EntriesIn(m) = link.reqs[m[2]].entries /\ l[2] # m[2]
      BY <1>2, <1>6, <2>2, SMTT(30)
    <3> QED BY <1>4, <3>1
  <2>3. CASE ~(l[1] = "parting" /\ m[1] = "parting") /\ ~(l[1] = "link" /\ m[1] = "link")
    <3>1. \A x \in Lists : \/ x = <<"logged", 1>> /\ In(EntriesIn(x)) \subseteq In(logged)
                           \/ x = <<"buffer", 1>> /\ In(EntriesIn(x)) \subseteq In(entries)
                           \/ x[1] = "parting" /\ In(EntriesIn(x)) \subseteq SentIn(parting)
                           \/ x[1] = "link" /\ In(EntriesIn(x)) \subseteq SentIn(link.reqs)
      BY <1>2, <1>3, <1>4
    <3> QED BY <1>1, <1>6, <2>3, <3>1 DEF Once
  <2> QED BY <2>1, <2>2, <2>3
<1> QED BY <1>5, <1>6

\* cynara_check and cynara_simple_check decide for the key that was asked, and
\* without a monitor never from policies older than the call, whatever is cached
\* and however often the connection is lost or the policies change in between.
THEOREM ClientDecisionFresh == ClientSpec => []DecisionFresh
<1>1. ClientInv => DecisionFresh
  <2>1. NoAnswer.type = "none"
    BY DEF NoAnswer
  <2> QED BY <2>1 DEF ClientInv, FreshInv, Fresh, DecisionFresh, Answered
<1> QED BY <1>1, ClientAlways, PTL

\* CapacityCache::update never follows an iterator to the element it has just
\* evicted; only the empty plugin entry ends the program.
THEOREM ClientCrashOnlyByMissingPlugin == ClientSpec => []CrashOnlyByMissingPlugin
<1>1. ClientInv => CrashOnlyByMissingPlugin
  BY DEF ClientInv, CacheInv
<1> QED BY <1>1, ClientAlways, PTL

\* No monitor entry is in two of the daemon's log, the requests on their way and
\* the buffer, so the daemon gets it at most once, whichever flush is interrupted.
THEOREM ClientEntriesOnce == ClientSpec => []EntriesOnce
<1>1. ASSUME ClientInv PROVE EntriesOnce
  <2> SUFFICES ASSUME NEW l \in Lists, NEW m \in Lists, NEW i \in DOMAIN EntriesIn(l), NEW j \in DOMAIN EntriesIn(m),
                      EntriesIn(l)[i].seq = EntriesIn(m)[j].seq
               PROVE  l = m /\ i = j
    BY DEF EntriesOnce
  <2>1. l = m
    <3>1. EntriesIn(l)[i].seq \in In(EntriesIn(l)) /\ EntriesIn(l)[i].seq \in In(EntriesIn(m))
      BY DEF In
    <3> QED BY <1>1, <3>1, ListsApart
  <2>2. i = j
    BY <1>1, <2>1, ListsApart DEF Distinct
  <2> QED BY <2>1, <2>2
<1> QED BY <1>1, ClientAlways, PTL
=============================================================================
