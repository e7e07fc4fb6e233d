------------------------- MODULE AsyncLibraryProofs -------------------------
(***************************************************************************)
(* Proofs about the asynchronous client library, for any keys and ids, any *)
(* number of requests and calls, and callbacks that call the library to    *)
(* any depth: no request is called back twice, and finish deletes the      *)
(* object only when no other function of the library runs.                 *)
(***************************************************************************)
EXTENDS AsyncLibrary, WellFoundedInduction, TLAPS

\* Zenon proves a leaf that names no other prover; it may take its time.
USE ZenonT(40)

\* The stack is a sequence of records, each with a function and a place in it.
IsList(s)  == Len(s) \in Nat /\ s = [i \in 1 .. Len(s) |-> s[i]]
IsFrame(f) ==
    /\ f = [x \in DOMAIN f |-> f[x]] /\ {"fn", "at"} \subseteq DOMAIN f
    /\ f.fn # "none"
    /\ f.fn = "cancel" => "saved" \in DOMAIN f
    /\ f.fn = "create" => "req" \in DOMAIN f

\* The functions that run with m_operationPermitted cleared, those of them that
\* set it again, and those that put m_inAnswerCancelResponseCallback back.
Blocks(f) ==
    \/ f.fn \in {"status", "telling"}
    \/ f.fn = "finish" /\ f.at \in {"status", "delete"}
Frees(f) == f.fn = "status" \/ (f.fn = "telling" /\ f.cause # "FINISH")
Restores(f) == f.fn \in {"cancel", "answer"} /\ f.at = "restore"

Open(s) == \A i \in 1 .. Len(s) : ~Blocks(s[i])
Bottoms == ApiFunctions \cup {"status"}

\* How the frames of a stack lie on each other, with m_operationPermitted p and
\* m_inAnswerCancelResponseCallback a: a callback runs for a function that bars
\* some calls, such a function has only callbacks and its like above it, the
\* flag that bars finish is saved as TRUE by all but the lowest, and finish is
\* the lowest function.
NestedAt(s, p, a, i) ==
    /\ IsFrame(s[i])
    /\ s[i].fn = "callback" => Blocks(s[i + 1]) \/ Restores(s[i + 1])
    /\ Blocks(s[i]) => ~p /\ \A j \in 1 .. i - 1 : s[j].fn = "callback" \/ Blocks(s[j])
    /\ Frees(s[i]) => \A j \in i + 1 .. Len(s) : ~Blocks(s[j])
    /\ Restores(s[i]) => a = TRUE /\ \A j \in 1 .. i - 1 : Restores(s[j]) => s[j].saved = TRUE
    /\ s[i].fn = "finish" => i = Len(s)
Nested(s, p, a) ==
    /\ IsList(s)
    /\ Len(s) > 0 => s[Len(s)].fn \in Bottoms
    /\ \A i \in 1 .. Len(s) : NestedAt(s, p, a, i)

\* A check of m_checks, and those that were not cancelled.
IsCheck(c) ==
    /\ c = [key |-> c.key, simple |-> c.simple, req |-> c.req, cancelled |-> c.cancelled]
    /\ c.req \in 1 .. MaxRequests
KeptOf(c) == {id \in DOMAIN c : ~c[id].cancelled}

\* Frames that owe a callback: a function that tells all who are left, an answer
\* that was taken from m_checks, and a request that is not yet in it.
Telling(f) == f.fn = "telling"
Due(f)     == f.fn = "answer" /\ f.at = "tell" /\ f.told
Fresh(f)   == f.fn = "create"
\* The destructor has told everybody.
Ending(f)  == f.fn = "finish" /\ f.at \in {"status", "delete"}

OwingAt(f, c, o, r) ==
    /\ Telling(f) => /\ {"left", "cause"} \subseteq DOMAIN f /\ f.left \subseteq KeptOf(c)
                     /\ \A id \in f.left : o[c[id].req] = "pending"
                     /\ f.at = "next" /\ f.cause \in {"FINISH", "SERVICE_NOT_AVAILABLE"}
    /\ Due(f)     => /\ f.req \in 1 .. MaxRequests /\ o[f.req] = "pending"
                     /\ \A id \in DOMAIN c : c[id].req # f.req
    /\ Fresh(f)   => f.req \in 1 .. MaxRequests /\ o[f.req] = "none" /\ f.req <= r
\* No request is owed a callback by two frames.
OwingApart(f, g) ==
    /\ ~(Telling(f) /\ Telling(g))
    /\ Due(f) /\ Due(g) => f.req # g.req
    /\ Fresh(f) /\ Fresh(g) => f.req # g.req
Owing(s, c, o, r) ==
    /\ \A i \in 1 .. Len(s) :
        /\ OwingAt(s[i], c, o, r)
        /\ Telling(s[i]) /\ s[i].cause = "FINISH" => i < Len(s) /\ Ending(s[i + 1])
    /\ \A i, j \in 1 .. Len(s) : i < j => OwingApart(s[i], s[j])

\* The requests of m_checks, c, and what was told, o, after r calls: each check
\* is a request of its own that was made.
Counted(c, o, r) ==
    /\ o = [n \in 1 .. MaxRequests |-> o[n]]
    /\ \A n \in 1 .. MaxRequests : o[n] # "TWICE" /\ (n > r => o[n] = "none")
    /\ r \in Nat
    /\ c = [id \in DOMAIN c |-> c[id]] /\ DOMAIN c \subseteq Ids
    /\ \A id \in DOMAIN c : IsCheck(c[id]) /\ o[c[id].req] # "none"
    /\ \A id, jd \in DOMAIN c : c[id].req = c[jd].req => id = jd
Pending(c, o) == \A id \in KeptOf(c) : o[c[id].req] = "pending"

Quiet(s) == \A i \in 1 .. Len(s) : ~Telling(s[i]) /\ ~Ending(s[i])
Sound(s, p, a, c, o, r) == Nested(s, p, a) /\ Owing(s, c, o, r)

\* The inductive invariant.
Calls ==
    /\ Sound(stack, permitted, answering, checks, outcome, budget.requests)
    /\ Counted(checks, outcome, budget.requests)
    /\ Quiet(stack) /\ object = "live" => Pending(checks, outcome)
    /\ budget = [requests |-> budget.requests, others |-> budget.others, stops |-> budget.stops]
    /\ FinishWhenQuiet

-----------------------------------------------------------------------------
\* A sequence with an element put before it.
LEMMA Pushed ==
  ASSUME NEW s, IsList(s), NEW f
  PROVE  /\ IsList(<<f>> \o s) /\ Len(<<f>> \o s) = Len(s) + 1 /\ <<f>> \o s # <<>>
         /\ (<<f>> \o s)[1] = f
         /\ \A i \in 1 .. Len(s) : (<<f>> \o s)[i + 1] = s[i]
         /\ \A i \in 2 .. Len(s) + 1 : (<<f>> \o s)[i] = s[i - 1]
<1> DEFINE S == {s[i] : i \in 1 .. Len(s)} \cup {f}
<1>1. s \in Seq(S) /\ <<f>> \in Seq(S)
  BY SMTT(30) DEF IsList
<1> HIDE DEF S
<1> QED BY <1>1, SMTT(30) DEF IsList

\* A sequence with two elements put before it.
LEMMA PushedTwo ==
  ASSUME NEW s, IsList(s), NEW f, NEW g
  PROVE  /\ <<f, g>> \o s = <<f>> \o (<<g>> \o s) /\ <<f>> \o <<g>> \o s = <<f>> \o (<<g>> \o s)
         /\ <<>> \o s = s
<1> DEFINE S == {s[i] : i \in 1 .. Len(s)} \cup {f, g}
<1>1. s \in Seq(S) /\ <<f>> \in Seq(S) /\ <<g>> \in Seq(S) /\ <<f, g>> \in Seq(S)
  BY SMTT(30) DEF IsList
<1> DEFINE u == <<f, g>> \o s
           v == <<f>> \o (<<g>> \o s)
           x == <<f>> \o <<g>> \o s
           w == <<>> \o s
<1> HIDE DEF S
<1>2. /\ u \in Seq(S) /\ v \in Seq(S) /\ x \in Seq(S) /\ w \in Seq(S)
      /\ Len(u) = Len(s) + 2 /\ Len(v) = Len(s) + 2 /\ Len(x) = Len(s) + 2
      /\ Len(w) = Len(s) /\ Len(s) \in Nat
  BY <1>1, SMTT(30)
<1>3. \A i \in 1 .. Len(s) + 2 : u[i] = v[i] /\ x[i] = v[i]
  BY <1>1, SMTT(30)
<1>4. \A i \in 1 .. Len(s) : w[i] = s[i]
  BY <1>1, SMTT(30)
<1> HIDE DEF u, v, w, x
<1>5. u = v /\ x = v
  BY <1>2, <1>3, SMTT(30)
<1>6. w = s
  BY <1>1, <1>2, <1>4, SMTT(30)
<1> QED BY <1>5, <1>6 DEF u, v, w, x

\* One fact of these at a time.
LEMMA PushedPair ==
  ASSUME NEW s, IsList(s), NEW f, NEW g PROVE <<f, g>> \o s = <<f>> \o (<<g>> \o s)
BY PushedTwo, ZenonT(120)
LEMMA PushedAfter ==
  ASSUME NEW s, IsList(s), NEW f, NEW g PROVE <<f>> \o <<g>> \o s = <<f>> \o (<<g>> \o s)
BY PushedTwo, ZenonT(120)
LEMMA PushedFirst ==
  ASSUME NEW s, IsList(s), NEW f
  PROVE  <<f>> \o s # <<>> /\ (<<f>> \o s)[1] = f /\ Len(<<f>> \o s) = Len(s) + 1
BY Pushed, SMTT(30)
LEMMA PushedSecond ==
  ASSUME NEW s, IsList(s), NEW f
  PROVE  \A i \in 2 .. Len(s) + 1 : (<<f>> \o s)[i] = s[i - 1]
BY Pushed, SMTT(30)

\* A sequence that is not empty without its first element.
LEMMA Popped ==
  ASSUME NEW s, IsList(s), s # <<>>
  PROVE  /\ IsList(Tail(s)) /\ Len(s) >= 1 /\ Len(Tail(s)) = Len(s) - 1 /\ Head(s) = s[1]
         /\ \A i \in 1 .. Len(s) - 1 : Tail(s)[i] = s[i + 1]
<1> DEFINE S == {s[i] : i \in 1 .. Len(s)}
<1>1. s \in Seq(S)
  BY SMTT(30) DEF IsList
<1> HIDE DEF S
<1>2. /\ Tail(s) \in Seq(S) /\ Len(s) >= 1 /\ Len(Tail(s)) = Len(s) - 1 /\ Head(s) = s[1]
      /\ \A i \in 1 .. Len(s) - 1 : Tail(s)[i] = s[i + 1]
  BY <1>1, SMTT(30)
<1>3. \A t \in Seq(S) : IsList(t)
  BY SMTT(30) DEF IsList
<1> QED BY <1>2, <1>3

\* The end of a sequence.
LEMMA Suffix ==
  ASSUME NEW s, IsList(s), NEW k \in 1 .. Len(s)
  PROVE  /\ IsList(SubSeq(s, k + 1, Len(s))) /\ Len(SubSeq(s, k + 1, Len(s))) = Len(s) - k
         /\ \A i \in 1 .. Len(s) - k : SubSeq(s, k + 1, Len(s))[i] = s[i + k]
<1> DEFINE S == {s[i] : i \in 1 .. Len(s)}
<1>1. s \in Seq(S)
  BY SMTT(30) DEF IsList
<1> DEFINE t == SubSeq(s, k + 1, Len(s))
<1> HIDE DEF S
<1>2. t \in Seq(S) /\ Len(t) = Len(s) - k
  BY <1>1, SMTT(30)
<1>3. \A i \in 1 .. Len(s) - k : t[i] = s[i + k]
  BY <1>1, SMTT(30)
<1>4. IsList(t)
  <2> HIDE DEF t
  <2> QED BY <1>2, SMTT(30) DEF IsList
<1> QED BY <1>2, <1>3, <1>4

\* A set of naturals that is not empty has a least element.
LEMMA MinIn ==
  ASSUME NEW T \in SUBSET Nat, T # {} PROVE Min(T) \in T /\ \A y \in T : Min(T) <= y
<1> DEFINE R == OpToRel(<, Nat)
<1>1. IsWellFoundedOn(R, Nat)
  BY NatLessThanWellFounded
<1>2. PICK x \in T : \A y \in T : ~(<<y, x>> \in R)
  <2> HIDE DEF R
  <2> QED BY <1>1, WFMin
<1>3. \A y \in T : ~(y < x)
  BY <1>2 DEF OpToRel
<1>4. \A y \in T : x <= y
  BY <1>3, SMTT(30)
<1> QED BY <1>4 DEF Min
-----------------------------------------------------------------------------
\* A frame is put on a stack.
LEMMA GrowNested ==
  ASSUME NEW t, NEW p, NEW a, Nested(t, p, a), NEW f, IsFrame(f),
         t = <<>> => f.fn \in Bottoms,
         f.fn = "callback" => Blocks(t[1]) \/ Restores(t[1]),
         Blocks(f) => ~p,
         Frees(f) \/ (f.fn # "callback" /\ ~Blocks(f)) => Open(t),
         Restores(f) => a = TRUE /\ \A j \in 1 .. Len(t) : Restores(t[j]) => f.saved = TRUE,
         f.fn = "finish" => t = <<>>
  PROVE  Nested(<<f>> \o t, p, a)
<1> DEFINE s == <<f>> \o t
<1>1. IsList(t) /\ Len(t) \in Nat
  BY DEF Nested, IsList
<1>2. /\ IsList(s) /\ Len(s) = Len(t) + 1 /\ s[1] = f
      /\ \A i \in 2 .. Len(t) + 1 : s[i] = t[i - 1]
  BY <1>1, Pushed, SMTT(30)
<1> HIDE DEF s
<1>3. t = <<>> \/ Len(t) > 0
  BY <1>1, SMTT(30) DEF IsList
<1>4. s[Len(s)].fn \in Bottoms
  <2>1. CASE t = <<>>
    <3>1. Len(s) = 1
      BY <2>1, <1>2, SMTT(30)
    <3> QED BY <3>1, <2>1, <1>2
  <2>2. CASE Len(t) > 0
    <3>1. s[Len(s)] = t[Len(t)]
      BY <2>2, <1>1, <1>2, SMTT(30)
    <3> QED BY <3>1, <2>2 DEF Nested
  <2> QED BY <1>3, <2>1, <2>2
<1>5. NestedAt(s, p, a, 1)
  <2>1. f.fn = "callback" => s[1 + 1] = t[1]
    <3> SUFFICES ASSUME f.fn = "callback" PROVE s[1 + 1] = t[1]
      OBVIOUS
    <3>1. Len(t) > 0
      BY <1>3 DEF Bottoms, ApiFunctions
    <3> QED BY <3>1, <1>1, <1>2, SMTT(30)
  <2>2. \A j \in 1 .. 1 - 1 : FALSE
    BY SMTT(30)
  <2>3. Frees(f) => \A j \in 1 + 1 .. Len(s) : ~Blocks(s[j])
    <3> SUFFICES ASSUME Open(t), NEW j \in 1 + 1 .. Len(s) PROVE ~Blocks(s[j])
      OBVIOUS
    <3>1. s[j] = t[j - 1] /\ j - 1 \in 1 .. Len(t)
      BY <1>1, <1>2, SMTT(30)
    <3> QED BY <3>1 DEF Open
  <2>4. f.fn = "finish" => 1 = Len(s)
    BY <1>2, SMTT(30)
  <2> QED BY <2>1, <2>2, <2>3, <2>4, <1>2 DEF NestedAt
<1>6. ASSUME NEW i \in 2 .. Len(s) PROVE NestedAt(s, p, a, i)
  <2> DEFINE k == i - 1
  <2>1. k \in 1 .. Len(t) /\ i = k + 1 /\ s[i] = t[k] /\ k \in Nat
    BY <1>1, <1>2, <1>6, SMTT(30)
  <2> HIDE DEF k
  <2>2. NestedAt(t, p, a, k)
    BY <2>1 DEF Nested
  <2>3. s[i].fn = "callback" => Blocks(s[i + 1]) \/ Restores(s[i + 1])
    <3> SUFFICES ASSUME t[k].fn = "callback" PROVE Blocks(s[i + 1]) \/ Restores(s[i + 1])
      BY <2>1
    <3>1. k # Len(t)
      <4>1. Len(t) > 0
        BY <2>1, <1>1, SMTT(30)
      <4> QED BY <4>1 DEF Nested, Bottoms, ApiFunctions
    <3>2. s[i + 1] = t[k + 1]
      BY <3>1, <1>1, <1>2, <2>1, SMTT(30)
    <3> QED BY <2>2, <3>2 DEF NestedAt
  <2>4. ASSUME NEW j \in 1 .. i - 1 PROVE j = 1 \/ (j - 1 \in 1 .. k - 1 /\ s[j] = t[j - 1])
    BY <1>1, <1>2, <2>1, SMTT(30)
  <2>5. Blocks(s[i]) => ~p /\ \A j \in 1 .. i - 1 : s[j].fn = "callback" \/ Blocks(s[j])
    <3> SUFFICES ASSUME Blocks(t[k]) PROVE ~p /\ \A j \in 1 .. i - 1 : s[j].fn = "callback" \/ Blocks(s[j])
      BY <2>1
    <3>1. ~Open(t)
      BY <2>1 DEF Open
    <3>2. f.fn = "callback" \/ Blocks(f)
      BY <3>1
    <3> QED BY <2>2, <2>4, <3>2, <1>2 DEF NestedAt
  <2>6. Frees(s[i]) => \A j \in i + 1 .. Len(s) : ~Blocks(s[j])
    <3> SUFFICES ASSUME Frees(t[k]), NEW j \in i + 1 .. Len(s) PROVE ~Blocks(s[j])
      BY <2>1
    <3>1. s[j] = t[j - 1] /\ j - 1 \in k + 1 .. Len(t)
      BY <1>1, <1>2, <2>1, SMTT(30)
    <3> QED BY <3>1, <2>2 DEF NestedAt
  <2>7. Restores(s[i]) => a = TRUE /\ \A j \in 1 .. i - 1 : Restores(s[j]) => s[j].saved = TRUE
    <3> SUFFICES ASSUME Restores(t[k])
                 PROVE  a = TRUE /\ \A j \in 1 .. i - 1 : Restores(s[j]) => s[j].saved = TRUE
      BY <2>1
    <3> QED BY <2>1, <2>2, <2>4, <1>2 DEF NestedAt
  <2>8. s[i].fn = "finish" => i = Len(s)
    <3> SUFFICES ASSUME t[k].fn = "finish" PROVE i = Len(s)
      BY <2>1
    <3>1. k = Len(t)
      BY <2>2 DEF NestedAt
    <3> QED BY <3>1, <2>1, <1>2
  <2> QED BY <2>1, <2>2, <2>3, <2>5, <2>6, <2>7, <2>8 DEF NestedAt
<1>7. \A i \in 1 .. Len(s) : i = 1 \/ i \in 2 .. Len(s)
  BY <1>1, <1>2, SMTT(30)
<1> QED BY <1>2, <1>4, <1>5, <1>6, <1>7 DEF Nested, s

\* The same for what the frames owe.
LEMMA GrowOwing ==
  ASSUME NEW t, IsList(t), NEW c, NEW o, NEW r, Owing(t, c, o, r), NEW f, OwingAt(f, c, o, r),
         Telling(f) /\ f.cause = "FINISH" => t # <<>> /\ Ending(t[1]),
         \A j \in 1 .. Len(t) : OwingApart(f, t[j])
  PROVE  Owing(<<f>> \o t, c, o, r)
<1> DEFINE s == <<f>> \o t
<1>1. Len(t) \in Nat /\ (t # <<>> => Len(t) > 0)
  BY SMTT(30) DEF IsList
<1>2. /\ Len(s) = Len(t) + 1 /\ s[1] = f
      /\ \A i \in 2 .. Len(t) + 1 : s[i] = t[i - 1]
  BY PushedFirst, PushedSecond
<1> HIDE DEF s
<1>3. \A i \in 1 .. Len(s) : i = 1 \/ (i - 1 \in 1 .. Len(t) /\ s[i] = t[i - 1])
  BY <1>1, <1>2, SMTT(30)
<1>4. ASSUME NEW i \in 1 .. Len(s)
      PROVE  /\ OwingAt(s[i], c, o, r)
             /\ Telling(s[i]) /\ s[i].cause = "FINISH" => i < Len(s) /\ Ending(s[i + 1])
  <2>1. CASE i = 1
    <3>1. Len(t) > 0 => 1 < Len(s) /\ s[1 + 1] = t[1]
      BY <1>1, <1>2, SMTT(30)
    <3> QED BY <2>1, <3>1, <1>1, <1>2
  <2>2. CASE i - 1 \in 1 .. Len(t) /\ s[i] = t[i - 1]
    <3>1. i - 1 < Len(t) => i < Len(s) /\ s[i + 1] = t[(i - 1) + 1]
      BY <1>1, <1>2, <2>2, SMTT(30)
    <3> QED BY <2>2, <3>1 DEF Owing
  <2> QED BY <1>3, <2>1, <2>2
<1>5. ASSUME NEW i \in 1 .. Len(s), NEW j \in 1 .. Len(s), i < j PROVE OwingApart(s[i], s[j])
  <2>1. j # 1
    BY <1>5, <1>1, <1>2, SMTT(30)
  <2>2. j - 1 \in 1 .. Len(t) /\ s[j] = t[j - 1]
    BY <1>3, <2>1
  <2>3. CASE i = 1
    BY <2>2, <2>3, <1>2
  <2>4. CASE i - 1 \in 1 .. Len(t) /\ s[i] = t[i - 1]
    <3>1. i - 1 < j - 1
      BY <1>5, SMTT(30)
    <3> QED BY <2>2, <2>4, <3>1 DEF Owing
  <2> QED BY <1>3, <2>3, <2>4
<1> QED BY <1>4, <1>5 DEF Owing, s

\* The stack t is what is left of s without its k top frames.
Drops(s, k, t) ==
    /\ k \in 1 .. Len(s) /\ IsList(t) /\ Len(t) = Len(s) - k
    /\ \A i \in 1 .. Len(t) : t[i] = s[i + k]

\* What is left of a sound stack when its top frames end.
LEMMA DropSound ==
  ASSUME NEW s, NEW p, NEW a, NEW c, NEW o, NEW r, Sound(s, p, a, c, o, r),
         NEW k, NEW t, Drops(s, k, t)
  PROVE  Sound(t, p, a, c, o, r) /\ (Open(s) => Open(t))
<1>1. Len(s) \in Nat /\ Len(t) \in Nat /\ k \in 1 .. Len(s) /\ IsList(t) /\ Len(t) = Len(s) - k
  BY DEF Sound, Nested, IsList, Drops
<1>8. \A i \in 1 .. Len(t) : i + k \in 1 .. Len(s)
  BY <1>1, SMTT(30)
<1>2. \A i \in 1 .. Len(t) : i + k \in 1 .. Len(s) /\ t[i] = s[i + k]
  BY <1>8 DEF Drops
<1>3. Len(t) > 0 => t[Len(t)].fn \in Bottoms
  <2> SUFFICES ASSUME Len(t) > 0 PROVE t[Len(t)].fn \in Bottoms
    OBVIOUS
  <2>1. Len(t) \in 1 .. Len(t) /\ Len(t) + k = Len(s) /\ Len(s) > 0
    BY <1>1, SMTT(30)
  <2> QED BY <1>2, <2>1 DEF Sound, Nested
<1>4. ASSUME NEW i \in 1 .. Len(t) PROVE NestedAt(t, p, a, i)
  <2>1. NestedAt(s, p, a, i + k)
    BY <1>2 DEF Sound, Nested
  <2>2. t[i].fn = "callback" => t[i + 1] = s[(i + k) + 1]
    <3> SUFFICES ASSUME t[i].fn = "callback" PROVE t[i + 1] = s[(i + k) + 1]
      OBVIOUS
    <3>1. Len(t) > 0
      BY <1>1, SMTT(30)
    <3>2. i # Len(t)
      BY <1>3, <3>1 DEF Bottoms, ApiFunctions
    <3>3. i + 1 \in 1 .. Len(t) /\ (i + 1) + k = (i + k) + 1
      BY <3>2, <1>1, SMTT(30)
    <3>4. t[i + 1] = s[(i + 1) + k]
      BY <3>3, <1>2
    <3> QED BY <3>3, <3>4, SMTT(30)
  <2>3. \A j \in 1 .. i - 1 : j \in 1 .. Len(t) /\ j + k \in 1 .. (i + k) - 1
    BY <1>1, SMTT(30)
  <2>4. \A j \in i + 1 .. Len(t) : j \in 1 .. Len(t) /\ j + k \in (i + k) + 1 .. Len(s)
    BY <1>1, SMTT(30)
  <2>5. i + k = Len(s) => i = Len(t)
    BY <1>1, SMTT(30)
  <2> QED BY <1>2, <2>1, <2>2, <2>3, <2>4, <2>5 DEF NestedAt
<1>5. ASSUME NEW i \in 1 .. Len(t)
      PROVE  /\ OwingAt(t[i], c, o, r)
             /\ Telling(t[i]) /\ t[i].cause = "FINISH" => i < Len(t) /\ Ending(t[i + 1])
  <2>1. i + k < Len(s) => i < Len(t) /\ i + 1 \in 1 .. Len(t) /\ (i + 1) + k = (i + k) + 1
    BY <1>1, SMTT(30)
  <2> QED BY <1>2, <2>1 DEF Sound, Owing
<1>6. ASSUME NEW i \in 1 .. Len(t), NEW j \in 1 .. Len(t), i < j PROVE OwingApart(t[i], t[j])
  <2>1. i + k < j + k
    BY <1>1, <1>6, SMTT(30)
  <2> QED BY <1>2, <2>1 DEF Sound, Owing
<1>7. Open(s) => Open(t)
  BY <1>2 DEF Open
<1> QED BY <1>1, <1>3, <1>4, <1>5, <1>6, <1>7 DEF Sound, Nested, Owing
\* A stack without its top frame.
LEMMA PopSound ==
  ASSUME NEW s, NEW p, NEW a, NEW c, NEW o, NEW r, Sound(s, p, a, c, o, r), s # <<>>
  PROVE  Sound(Tail(s), p, a, c, o, r) /\ (Open(s) => Open(Tail(s)))
<1>1. IsList(s)
  BY DEF Sound, Nested
<1>2. /\ IsList(Tail(s)) /\ Len(s) >= 1 /\ Len(Tail(s)) = Len(s) - 1
      /\ \A i \in 1 .. Len(s) - 1 : Tail(s)[i] = s[i + 1]
  BY <1>1, Popped
<1>3. 1 \in 1 .. Len(s)
  BY <1>1, <1>2, SMTT(30) DEF IsList
<1>4. Drops(s, 1, Tail(s))
  BY <1>2, <1>3 DEF Drops
<1> QED BY <1>4, DropSound

\* While a function runs that neither is a callback nor bars all calls, and while
\* calls are permitted, no function bars all calls.
LEMMA OpenTop ==
  ASSUME NEW s, NEW p, NEW a, Nested(s, p, a),
         p \/ s = <<>> \/ (s[1].fn # "callback" /\ ~Blocks(s[1]))
  PROVE  Open(s)
<1> SUFFICES ASSUME NEW i \in 1 .. Len(s), Blocks(s[i]) PROVE FALSE
  BY DEF Open
<1>1. ~p /\ \A j \in 1 .. i - 1 : s[j].fn = "callback" \/ Blocks(s[j])
  BY DEF Nested, NestedAt
<1>2. s # <<>>
  <2> SUFFICES ASSUME s = <<>> PROVE FALSE
    OBVIOUS
  <2> QED BY SMTT(30)
<1>3. i = 1 \/ 1 \in 1 .. i - 1
  BY SMTT(30)
<1> QED BY <1>1, <1>2, <1>3

\* Then it may change whether calls are permitted.
LEMMA AnyFlag ==
  ASSUME NEW s, NEW p, NEW a, NEW c, NEW o, NEW r, Sound(s, p, a, c, o, r), Open(s), NEW q
  PROVE  Sound(s, q, a, c, o, r)
BY DEF Sound, Nested, NestedAt, Open

\* A function within one that answers.
LEMMA NowAnswering ==
  ASSUME NEW s, NEW p, NEW a, NEW c, NEW o, NEW r, Sound(s, p, a, c, o, r)
  PROVE  Sound(s, p, TRUE, c, o, r)
BY DEF Sound, Nested, NestedAt

\* Frames that the invariant says nothing about.
Plain(f) ==
    /\ IsFrame(f)
    /\ f.fn \notin {"callback", "status", "telling", "finish", "create"}
    /\ f.at \notin {"restore", "tell"}

\* Such a frame is put on a stack.
LEMMA PlainSound ==
  ASSUME NEW t, NEW p, NEW a, NEW c, NEW o, NEW r, Sound(t, p, a, c, o, r), Open(t),
         NEW f, Plain(f), t # <<>> \/ f.fn \in ApiFunctions
  PROVE  Sound(<<f>> \o t, p, a, c, o, r) /\ Open(<<f>> \o t) /\ <<f>> \o t # <<>>
<1>1. /\ ~Blocks(f) /\ ~Frees(f) /\ ~Restores(f) /\ ~Telling(f) /\ ~Due(f) /\ ~Fresh(f)
      /\ f.fn # "callback" /\ f.fn # "finish" /\ IsFrame(f)
  BY DEF Plain, Blocks, Frees, Restores, Telling, Due, Fresh
<1>2. Nested(t, p, a) /\ Owing(t, c, o, r) /\ IsList(t)
  BY DEF Sound, Nested
<1>3. Nested(<<f>> \o t, p, a)
  <2>1. t = <<>> => f.fn \in Bottoms
    BY DEF Bottoms
  <2> QED BY <1>1, <1>2, <2>1, GrowNested
<1>4. Owing(<<f>> \o t, c, o, r)
  <2>1. OwingAt(f, c, o, r) /\ \A j \in 1 .. Len(t) : OwingApart(f, t[j])
    BY <1>1 DEF OwingAt, OwingApart
  <2> QED BY <1>1, <1>2, <2>1, GrowOwing
<1>5. <<f>> \o t # <<>> /\ (<<f>> \o t)[1] = f
  BY <1>2, Pushed
<1>6. Open(<<f>> \o t)
  BY <1>1, <1>3, <1>5, OpenTop
<1> QED BY <1>3, <1>4, <1>5, <1>6 DEF Sound

\* The top function goes on at another place, where it owes nothing new.
LEMMA MovedSound ==
  ASSUME NEW s, NEW p, NEW a, NEW c, NEW o, NEW r, Sound(s, p, a, c, o, r), Open(s), s # <<>>,
         NEW x, x \notin {"restore", "tell", "status", "delete"}, NEW g, g = [s[1] EXCEPT !.at = x]
  PROVE  Sound(<<g>> \o Tail(s), p, a, c, o, r) /\ Open(<<g>> \o Tail(s)) /\ <<g>> \o Tail(s) # <<>>
<1> DEFINE t == Tail(s)
<1>1. Nested(s, p, a) /\ Owing(s, c, o, r) /\ IsList(s)
  BY DEF Sound, Nested
<1>2. /\ IsList(t) /\ Len(s) >= 1 /\ Len(t) = Len(s) - 1
      /\ \A i \in 1 .. Len(s) - 1 : t[i] = s[i + 1]
  BY <1>1, Popped
<1>3. Sound(t, p, a, c, o, r) /\ Open(t)
  BY PopSound
<1> HIDE DEF t
<1>4. 1 \in 1 .. Len(s) /\ Len(s) \in Nat
  BY <1>1, <1>2, SMTT(30) DEF IsList
<1>5. IsFrame(s[1]) /\ ~Blocks(s[1]) /\ NestedAt(s, p, a, 1) /\ OwingAt(s[1], c, o, r)
  BY <1>1, <1>4 DEF Nested, NestedAt, Open, Owing
<1>6. /\ IsFrame(g) /\ g.fn = s[1].fn /\ g.at = x
      /\ g.fn = "create" => g.req = s[1].req
  BY <1>5 DEF IsFrame
<1>7. ~Blocks(g) /\ ~Frees(g) /\ ~Restores(g) /\ ~Telling(g) /\ ~Due(g)
  BY <1>5, <1>6 DEF Blocks, Frees, Restores, Telling, Due
<1>8. t = <<>> => Len(s) = 1
  BY <1>2, <1>4, SMTT(30)
<1>9. t # <<>> => Len(s) # 1
  BY <1>2, <1>4, SMTT(30) DEF IsList
<1>10. Nested(<<g>> \o t, p, a)
  <2>1. t = <<>> => g.fn \in Bottoms
    <3>1. s[Len(s)].fn \in Bottoms
      <4>1. Len(s) > 0
        BY <1>2, <1>4, SMTT(30)
      <4> QED BY <1>1, <4>1 DEF Nested
    <3> QED BY <1>6, <1>8, <3>1
  <2>2. g.fn = "callback" => Blocks(t[1]) \/ Restores(t[1])
    <3> SUFFICES ASSUME g.fn = "callback" PROVE Blocks(t[1]) \/ Restores(t[1])
      OBVIOUS
    <3>1. t # <<>>
      BY <2>1 DEF Bottoms, ApiFunctions
    <3>2. t[1] = s[1 + 1]
      BY <3>1, <1>9, <1>2, <1>4, SMTT(30)
    <3> QED BY <3>2, <1>5, <1>6 DEF NestedAt
  <2>3. g.fn = "finish" => t = <<>>
    BY <1>5, <1>6, <1>9 DEF NestedAt
  <2> QED BY <1>3, <1>6, <1>7, <2>1, <2>2, <2>3, GrowNested DEF Sound
<1>11. Owing(<<g>> \o t, c, o, r)
  <2>1. OwingAt(g, c, o, r)
    BY <1>5, <1>6, <1>7 DEF OwingAt, Fresh
  <2>2. ASSUME NEW j \in 1 .. Len(t) PROVE OwingApart(g, t[j])
    <3>1. j + 1 \in 1 .. Len(s) /\ 1 < j + 1 /\ j \in 1 .. Len(s) - 1
      BY <1>2, <1>4, SMTT(30)
    <3>2. OwingApart(s[1], t[j])
      BY <3>1, <1>1, <1>2, <1>4 DEF Owing
    <3> QED BY <3>2, <1>6, <1>7 DEF OwingApart, Fresh
  <2> QED BY <1>2, <1>3, <1>7, <2>1, <2>2, GrowOwing DEF Sound
<1>12. <<g>> \o t # <<>> /\ (<<g>> \o t)[1] = g
  BY <1>2, PushedFirst
<1>13. Open(<<g>> \o t)
  <2> SUFFICES ASSUME NEW i \in 1 .. Len(<<g>> \o t) PROVE ~Blocks((<<g>> \o t)[i])
    BY DEF Open
  <2>1. Len(<<g>> \o t) = Len(t) + 1 /\ \A k \in 2 .. Len(t) + 1 : (<<g>> \o t)[k] = t[k - 1]
    BY <1>2, Pushed, SMTT(30)
  <2>2. i = 1 \/ (i \in 2 .. Len(t) + 1 /\ i - 1 \in 1 .. Len(t))
    BY <2>1, <1>2, <1>4, SMTT(30)
  <2> QED BY <2>1, <2>2, <1>7, <1>12, <1>3 DEF Open
<1> QED BY <1>10, <1>11, <1>12, <1>13 DEF Sound, t
\* A callback runs for the top function.
LEMMA CalledSound ==
  ASSUME NEW t, NEW p, NEW a, NEW c, NEW o, NEW r, Sound(t, p, a, c, o, r),
         t # <<>>, Blocks(t[1]) \/ Restores(t[1])
  PROVE  Sound(<<Callback>> \o t, p, a, c, o, r)
<1>1. Nested(t, p, a) /\ Owing(t, c, o, r) /\ IsList(t)
  BY DEF Sound, Nested
<1> DEFINE f == Callback
<1>2. f.fn = "callback" /\ IsFrame(f)
  BY DEF Callback, Frame, IsFrame
<1> HIDE DEF f
<1>3. /\ ~Blocks(f) /\ ~Frees(f) /\ ~Restores(f) /\ ~Telling(f) /\ ~Due(f) /\ ~Fresh(f)
      /\ f.fn # "finish"
  BY <1>2 DEF Blocks, Frees, Restores, Telling, Due, Fresh
<1>4. Nested(<<f>> \o t, p, a)
  BY <1>1, <1>2, <1>3, GrowNested
<1>5. OwingAt(f, c, o, r) /\ \A j \in 1 .. Len(t) : OwingApart(f, t[j])
  BY <1>3 DEF OwingAt, OwingApart
<1>6. Owing(<<f>> \o t, c, o, r)
  BY <1>1, <1>3, <1>5, GrowOwing
<1> QED BY <1>4, <1>6 DEF Sound, f

\* onStatusChange, from a function that is about to return or to go on.
LEMMA StatusSound ==
  ASSUME NEW t, NEW a, NEW c, NEW o, NEW r, Sound(t, permitted, a, c, o, r), Open(t),
         NEW new, OnStatusChange(new, t)
  PROVE  Sound(stack', permitted', a, c, o, r)
<1>1. CASE shown = new
  BY <1>1 DEF OnStatusChange
<1>2. CASE shown # new
  <2> DEFINE g == [fn |-> "status", at |-> "set", new |-> new]
  <2>1. Sound(t, FALSE, a, c, o, r) /\ Nested(t, FALSE, a) /\ Owing(t, c, o, r) /\ IsList(t)
    BY AnyFlag DEF Sound, Nested
  <2>2. permitted' = FALSE /\ stack' = <<Callback, g>> \o t
    BY <1>2 DEF OnStatusChange
  <2>3. g.fn = "status" /\ IsFrame(g)
    BY DEF IsFrame
  <2> HIDE DEF g
  <2>4. Blocks(g) /\ ~Restores(g) /\ ~Telling(g) /\ ~Due(g) /\ ~Fresh(g) /\ g.fn \in Bottoms
    BY <2>3 DEF Blocks, Restores, Telling, Due, Fresh, Bottoms
  <2>5. Nested(<<g>> \o t, FALSE, a)
    <3>1. g.fn # "callback" /\ g.fn # "finish"
      BY <2>3
    <3> QED BY <2>1, <2>3, <2>4, <3>1, GrowNested
  <2>6. OwingAt(g, c, o, r) /\ \A j \in 1 .. Len(t) : OwingApart(g, t[j])
    BY <2>4 DEF OwingAt, OwingApart
  <2>7. Owing(<<g>> \o t, c, o, r)
    BY <2>1, <2>4, <2>6, GrowOwing
  <2>8. <<g>> \o t # <<>> /\ (<<g>> \o t)[1] = g
    BY <2>1, PushedFirst
  <2>9. Sound(<<Callback>> \o (<<g>> \o t), FALSE, a, c, o, r)
    BY <2>4, <2>5, <2>7, <2>8, CalledSound DEF Sound
  <2>10. stack' = <<Callback>> \o (<<g>> \o t)
    BY <2>1, <2>2, PushedPair
  <2> QED BY <2>2, <2>9, <2>10
<1> QED BY <1>1, <1>2

\* An exception while no function bars all calls.
LEMMA UnwindSound ==
  ASSUME NEW p, NEW a, NEW c, NEW o, NEW r, Sound(stack, p, a, c, o, r), Open(stack), stack # <<>>,
         Unwind
  PROVE  Sound(stack', p, a, c, o, r)
<1> DEFINE api == {i \in DOMAIN stack : stack[i].fn \in ApiFunctions}
           inner == CHOOSE i \in api : \A j \in api : i <= j
           n == Len(stack)
<1>1. IsList(stack)
  BY DEF Sound, Nested
<1>2. n \in Nat /\ n > 0 /\ n \in 1 .. n /\ DOMAIN stack = 1 .. n
  BY <1>1, SMTT(30) DEF IsList
<1>3. n \in api
  <2>1. stack[n].fn \in Bottoms /\ ~Blocks(stack[n])
    BY <1>2 DEF Sound, Nested, Open
  <2>2. stack[n].fn \in ApiFunctions
    BY <2>1 DEF Bottoms, Blocks
  <2> QED BY <1>2, <2>2
<1>4. api \in SUBSET Nat
  BY <1>2, SMTT(30)
<1> HIDE DEF api
<1>5. \E i \in api : \A j \in api : i <= j
  BY <1>3, <1>4, MinIn
<1>6. inner \in api
  BY <1>5
<1> HIDE DEF inner
<1>7. inner \in 1 .. n
  BY <1>2, <1>6 DEF api
<1> DEFINE t == SubSeq(stack, inner + 1, Len(stack))
<1>8. stack' = t
  BY DEF Unwind, inner, api
<1>9. IsList(t) /\ Len(t) = Len(stack) - inner /\ \A i \in 1 .. Len(stack) - inner : t[i] = stack[i + inner]
  BY <1>1, <1>7, Suffix
<1> HIDE DEF t
<1>10. Drops(stack, inner, t)
  BY <1>7, <1>9 DEF Drops
<1> QED BY <1>8, <1>10, DropSound

-----------------------------------------------------------------------------
\* What a step finds at the top of the stack.
LEMMA AtTop ==
  ASSUME Calls, object = "live", Top.fn # "none"
  PROVE  /\ stack # <<>> /\ Top = stack[1] /\ IsList(stack) /\ IsFrame(Top) /\ 1 \in 1 .. Len(stack)
         /\ OwingAt(Top, checks, outcome, budget.requests)
         /\ Sound(Below, permitted, answering, checks, outcome, budget.requests)
         /\ Top.fn # "callback" /\ ~Blocks(Top) =>
              Open(stack) /\ Open(Below) /\ Pending(checks, outcome)
<1>1. stack # <<>>
  BY DEF Top, Frame
<1>2. Sound(stack, permitted, answering, checks, outcome, budget.requests) /\ IsList(stack)
  BY DEF Calls, Sound, Nested
<1>3. Top = stack[1] /\ Len(stack) >= 1 /\ Len(stack) \in Nat
  BY <1>1, <1>2, Popped DEF Top, IsList
<1>4. 1 \in 1 .. Len(stack)
  BY <1>3, SMTT(30)
<1>5. IsFrame(Top) /\ OwingAt(Top, checks, outcome, budget.requests)
  BY <1>2, <1>3, <1>4 DEF Sound, Nested, NestedAt, Owing
<1>6. Sound(Below, permitted, answering, checks, outcome, budget.requests) /\ (Open(stack) => Open(Below))
  BY <1>1, <1>2, PopSound DEF Below
<1>7. ASSUME Top.fn # "callback", ~Blocks(Top) PROVE Open(stack) /\ Pending(checks, outcome)
  <2>1. Open(stack)
    BY <1>2, <1>3, <1>7, OpenTop DEF Sound
  <2>2. Quiet(stack)
    BY <2>1 DEF Open, Quiet, Blocks, Telling, Ending
  <2> QED BY <2>1, <2>2 DEF Calls
<1> QED BY <1>1, <1>2, <1>3, <1>4, <1>5, <1>6, <1>7

\* A step of a function that bars no calls and changes neither m_checks nor what
\* was told.
LEMMA StackStep ==
  ASSUME Calls, Pending(checks, outcome), object' # "deleted", UNCHANGED <<checks, outcome, budget>>,
         Sound(stack', permitted', answering', checks, outcome, budget.requests)
  PROVE  Calls'
BY DEF Calls, FinishWhenQuiet
Movers == {"create", "cancel", "cache", "process", "answer", "flush", "reconnect"}

\* A function that bars no calls is about to make a step.
LEMMA AtPlace ==
  ASSUME Calls, NEW f, NEW x, At(f, x), f \in Movers \/ (f = "finish" /\ x = "flush")
  PROVE  /\ object = "live" /\ Top.fn = f /\ Top.at = x /\ stack # <<>> /\ Top = stack[1]
         /\ IsList(stack) /\ IsFrame(Top) /\ OwingAt(Top, checks, outcome, budget.requests)
         /\ Sound(stack, permitted, answering, checks, outcome, budget.requests) /\ Open(stack)
         /\ Sound(Below, permitted, answering, checks, outcome, budget.requests) /\ Open(Below)
         /\ Pending(checks, outcome)
<1>1. object = "live" /\ Top.fn = f /\ Top.at = x
  BY DEF At
<1>2. f # "none" /\ f # "callback" /\ ~Blocks(Top)
  BY <1>1 DEF Blocks, Movers
<1> QED BY <1>1, <1>2, AtTop DEF Calls

\* It goes on at another place.
LEMMA ToSound ==
  ASSUME Sound(stack, permitted, answering, checks, outcome, budget.requests), Open(stack),
         stack # <<>>, Top = stack[1], NEW x, x \notin {"restore", "tell", "status", "delete"}
  PROVE  /\ Sound(To(x), permitted, answering, checks, outcome, budget.requests)
         /\ Open(To(x)) /\ To(x) # <<>>
BY MovedSound DEF To, Below

\* A call begins.
LEMMA Frames ==
  /\ \A fn \in Movers : \A x : x \notin {"restore", "tell"} /\ fn \notin {"create", "cancel"} =>
       Plain(Frame(fn, x))
  /\ Frame("finish", "flush").fn = "finish" /\ Frame("finish", "flush").at = "flush"
  /\ IsFrame(Frame("finish", "flush"))
BY DEF Plain, IsFrame, Frame, Movers

\* The steps of the functions that bar no calls and leave m_checks alone.
LEMMA EnsuredStep == Calls /\ Ensured => Calls'
<1> SUFFICES ASSUME Calls, Ensured PROVE Calls'
  OBVIOUS
<1>1. PICK f \in {"create", "cancel", "flush"} : At(f, "ensure")
  BY DEF Ensured, At
<1>2. /\ object = "live" /\ stack # <<>> /\ Top = stack[1] /\ Open(stack) /\ Pending(checks, outcome)
      /\ Sound(stack, permitted, answering, checks, outcome, budget.requests)
  <2>1. f \in Movers
    BY DEF Movers
  <2> QED BY <1>1, <2>1, AtPlace
<1>3. Sound(To("go"), permitted, answering, checks, outcome, budget.requests) /\ Open(To("go")) /\ To("go") # <<>>
  BY <1>2, ToSound
<1>4. Sound(<<Frame("reconnect", "disconnected")>> \o To("go"), permitted, answering, checks, outcome, budget.requests)
  <2>1. Plain(Frame("reconnect", "disconnected"))
    BY Frames DEF Movers
  <2> QED BY <1>3, <2>1, PlainSound
<1>5. <<>> \o To("go") = To("go")
  BY <1>3, PushedTwo DEF Sound, Nested
<1>6. Sound(stack', permitted', answering', checks, outcome, budget.requests)
  BY <1>3, <1>4, <1>5 DEF Ensured
<1> QED BY <1>2, <1>6, StackStep DEF Ensured

\* onDisconnected.
LEMMA OnDisconnectedStep == Calls /\ OnDisconnected => Calls'
<1> SUFFICES ASSUME Calls, OnDisconnected PROVE Calls'
  OBVIOUS
<1>1. PICK x \in {"disconnected", "incomplete"} : At("reconnect", x)
  BY DEF OnDisconnected, At
<1>2. /\ object = "live" /\ stack # <<>> /\ Top = stack[1] /\ Open(stack) /\ Pending(checks, outcome)
      /\ Sound(stack, permitted, answering, checks, outcome, budget.requests)
  BY <1>1, AtPlace DEF Movers
<1>3. UNCHANGED <<checks, outcome, budget, answering>>
  BY DEF OnDisconnected
<1>4. CASE ClearCrashes(cache)
  <2>1. object' = "crashed" /\ UNCHANGED <<stack, permitted>>
    BY <1>4 DEF OnDisconnected
  <2> QED BY <1>2, <1>3, <2>1, StackStep
<1>5. CASE ~ClearCrashes(cache)
  <2> DEFINE y == IF Top.at = "disconnected" THEN "connect" ELSE "unavailable"
  <2>1. object' = object /\ OnStatusChange(Unshown, To(y))
    BY <1>5 DEF OnDisconnected
  <2>2. y \notin {"restore", "tell", "status", "delete"}
    OBVIOUS
  <2> HIDE DEF y
  <2>3. Sound(To(y), permitted, answering, checks, outcome, budget.requests) /\ Open(To(y))
    BY <1>2, <2>2, ToSound
  <2>4. Sound(stack', permitted', answering, checks, outcome, budget.requests)
    BY <2>1, <2>3, StatusSound
  <2>5. object' # "deleted"
    BY <1>2, <2>1
  <2> QED BY <1>2, <1>3, <2>4, <2>5, StackStep
<1> QED BY <1>4, <1>5

\* Nobody listens.
LEMMA ConnectRefusedStep == Calls /\ ConnectRefused => Calls'
<1> SUFFICES ASSUME Calls, ConnectRefused PROVE Calls'
  OBVIOUS
<1>1. At("reconnect", "connect")
  BY DEF ConnectRefused
<1>2. /\ object = "live" /\ stack # <<>> /\ Top = stack[1] /\ Open(stack) /\ Pending(checks, outcome)
      /\ Sound(stack, permitted, answering, checks, outcome, budget.requests)
  BY <1>1, AtPlace DEF Movers
<1>3. UNCHANGED <<checks, outcome, budget, answering, permitted>> /\ object' # "deleted"
  BY <1>2 DEF ConnectRefused
<1>4. CASE stack' = To("unavailable")
  BY <1>2, <1>3, <1>4, ToSound, StackStep
<1>5. CASE Unwind
  BY <1>2, <1>3, <1>5, UnwindSound, StackStep
<1> QED BY <1>4, <1>5 DEF ConnectRefused

\* completeConnection.
LEMMA CompleteConnectionStep == Calls /\ CompleteConnection => Calls'
<1> SUFFICES ASSUME Calls, CompleteConnection PROVE Calls'
  OBVIOUS
<1>1. At("process", "complete")
  BY DEF CompleteConnection
<1>2. /\ object = "live" /\ stack # <<>> /\ Top = stack[1] /\ Open(stack) /\ Pending(checks, outcome)
      /\ Sound(stack, permitted, answering, checks, outcome, budget.requests)
      /\ Sound(Below, permitted, answering, checks, outcome, budget.requests)
  BY <1>1, AtPlace DEF Movers
<1>3. UNCHANGED <<checks, outcome, budget, answering>> /\ object' # "deleted"
  BY <1>2 DEF CompleteConnection
<1>4. Sound(To("out"), permitted, answering, checks, outcome, budget.requests) /\ Open(To("out"))
  BY <1>2, ToSound
<1>5. CASE stack' = To("out") /\ UNCHANGED permitted
  BY <1>2, <1>3, <1>4, <1>5, StackStep
<1>6. CASE stack' = Below /\ UNCHANGED permitted
  BY <1>2, <1>3, <1>6, StackStep
<1>7. ASSUME NEW new, OnStatusChange(new, To("out")) PROVE Calls'
  BY <1>2, <1>3, <1>4, <1>7, StatusSound, StackStep
<1>8. CASE stack' = <<Frame("reconnect", "incomplete")>> \o stack /\ UNCHANGED permitted
  <2>1. Plain(Frame("reconnect", "incomplete"))
    BY Frames DEF Movers
  <2> QED BY <1>2, <1>3, <1>8, <2>1, PlainSound, StackStep
<1> QED BY <1>5, <1>6, <1>7, <1>8 DEF CompleteConnection

\* processOut.
LEMMA ProcessOutStep == Calls /\ ProcessOut => Calls'
<1> SUFFICES ASSUME Calls, ProcessOut PROVE Calls'
  OBVIOUS
<1>1. At("process", "out")
  BY DEF ProcessOut
<1>2. /\ object = "live" /\ stack # <<>> /\ Top = stack[1] /\ Open(stack) /\ Pending(checks, outcome)
      /\ Sound(stack, permitted, answering, checks, outcome, budget.requests)
  BY <1>1, AtPlace DEF Movers
<1>3. UNCHANGED <<checks, outcome, budget, answering>> /\ object' # "deleted"
  BY <1>2 DEF ProcessOut
<1>4. ASSUME NEW x \in {"in", "lost"}
      PROVE  Sound(To(x), permitted, answering, checks, outcome, budget.requests) /\ Open(To(x))
  BY <1>2, ToSound
<1>5. CASE OnStatusChange(Shown("READ"), To("in"))
  BY <1>2, <1>3, <1>4, <1>5, StatusSound, StackStep
<1>6. CASE (stack' = To("in") \/ stack' = To("lost")) /\ UNCHANGED permitted
  BY <1>2, <1>3, <1>4, <1>6, StackStep
<1> QED BY <1>5, <1>6 DEF ProcessOut

\* processIn, and what follows the loss of the connection.
LEMMA ProcessInStep == Calls /\ (ProcessIn \/ ProcessLost) => Calls'
<1> SUFFICES ASSUME Calls, ProcessIn \/ ProcessLost PROVE Calls'
  OBVIOUS
<1>1. At("process", "in") \/ At("process", "lost")
  BY DEF ProcessIn, ProcessLost
<1>2. /\ object = "live" /\ stack # <<>> /\ Top = stack[1] /\ Open(stack) /\ Pending(checks, outcome)
      /\ Sound(stack, permitted, answering, checks, outcome, budget.requests)
  BY <1>1, AtPlace DEF Movers
<1>3. UNCHANGED <<checks, outcome, budget, answering, permitted>> /\ object' # "deleted"
  BY <1>2 DEF ProcessIn, ProcessLost
<1>4. ASSUME NEW x \in {"lost", "responses", "complete"}
      PROVE  Sound(To(x), permitted, answering, checks, outcome, budget.requests) /\ Open(To(x)) /\ To(x) # <<>>
  BY <1>2, ToSound
<1>5. CASE Unwind
  BY <1>2, <1>3, <1>5, UnwindSound, StackStep
<1>6. CASE stack' = To("lost") \/ stack' = To("responses")
  BY <1>2, <1>3, <1>4, <1>6, StackStep
<1>7. CASE stack' = <<Frame("reconnect", "disconnected")>> \o To("complete")
  <2>1. Plain(Frame("reconnect", "disconnected"))
    BY Frames DEF Movers
  <2> QED BY <1>2, <1>3, <1>4, <1>7, <2>1, PlainSound, StackStep
<1> QED BY <1>5, <1>6, <1>7 DEF ProcessIn, ProcessLost

\* The end of processResponses.
LEMMA ResponsesEndStep == Calls /\ ResponsesEnd => Calls'
<1> SUFFICES ASSUME Calls, ResponsesEnd PROVE Calls'
  OBVIOUS
<1>1. At("process", "responses")
  BY DEF ResponsesEnd
<1>2. /\ object = "live" /\ stack # <<>> /\ Open(stack) /\ Pending(checks, outcome)
      /\ Sound(stack, permitted, answering, checks, outcome, budget.requests)
      /\ Sound(Below, permitted, answering, checks, outcome, budget.requests)
  BY <1>1, AtPlace DEF Movers
<1>3. UNCHANGED <<checks, outcome, budget, answering, permitted>> /\ object' # "deleted"
  BY <1>2 DEF ResponsesEnd
<1>4. CASE stack' = Below
  BY <1>2, <1>3, <1>4, StackStep
<1>5. CASE Unwind
  BY <1>2, <1>3, <1>5, UnwindSound, StackStep
<1> QED BY <1>4, <1>5 DEF ResponsesEnd
\* processResponses and process end, and the callback of an answer returns.
LEMMA AnswerRestoreStep == Calls /\ (AnswerRestore \/ CancelRestore) => Calls'
<1> SUFFICES ASSUME Calls, AnswerRestore \/ CancelRestore PROVE Calls'
  OBVIOUS
<1>1. At("answer", "restore") \/ At("cancel", "restore")
  BY DEF AnswerRestore, CancelRestore
<1>2. /\ object = "live" /\ stack # <<>> /\ Top = stack[1] /\ Pending(checks, outcome)
      /\ IsList(stack) /\ Top.fn \in {"answer", "cancel"} /\ Top.at = "restore"
      /\ Sound(stack, permitted, answering, checks, outcome, budget.requests)
      /\ Sound(Below, permitted, answering, checks, outcome, budget.requests) /\ Open(Below)
  BY <1>1, AtPlace DEF Movers
<1>3. UNCHANGED <<checks, outcome, budget>> /\ object' # "deleted" /\ answering' = Top.saved
  BY <1>2 DEF AnswerRestore, CancelRestore
<1>4. Sound(Below, permitted, Top.saved, checks, outcome, budget.requests)
  <2> DEFINE t == Below
  <2>1. /\ Len(stack) \in Nat /\ Len(stack) >= 1 /\ Len(t) = Len(stack) - 1
        /\ \A i \in 1 .. Len(stack) - 1 : t[i] = stack[i + 1]
    BY <1>2, Popped DEF Below, IsList
  <2> HIDE DEF t
  <2>2. Restores(Top)
    BY <1>2 DEF Restores
  <2>3. ASSUME NEW i \in 1 .. Len(t), Restores(t[i]) PROVE Top.saved = TRUE
    <3>1. i \in 1 .. Len(stack) - 1 /\ i + 1 \in 1 .. Len(stack) /\ 1 \in 1 .. (i + 1) - 1
      BY <2>1, SMTT(30)
    <3>2. NestedAt(stack, permitted, answering, i + 1) /\ Restores(stack[i + 1])
      BY <1>2, <2>1, <2>3, <3>1 DEF Sound, Nested
    <3> QED BY <1>2, <2>2, <3>1, <3>2 DEF NestedAt
  <2>4. Nested(t, permitted, answering) /\ Owing(t, checks, outcome, budget.requests)
    BY <1>2 DEF Sound, t
  <2>5. Nested(t, permitted, Top.saved)
    BY <2>3, <2>4 DEF Nested, NestedAt
  <2> QED BY <2>4, <2>5 DEF Sound, t
<1>5. CASE stack' = Below /\ UNCHANGED permitted
  BY <1>2, <1>3, <1>4, <1>5, StackStep
<1>6. CASE OnStatusChange(Shown("RW"), Below)
  BY <1>2, <1>3, <1>4, <1>6, StatusSound, StackStep
<1> QED BY <1>5, <1>6 DEF AnswerRestore, CancelRestore

\* A look at the cache, and the flush of the monitor's entries.
LEMMA CacheStep == Calls /\ (CacheGet \/ CacheFlush \/ FlushGo) => Calls'
<1> SUFFICES ASSUME Calls, CacheGet \/ CacheFlush \/ FlushGo PROVE Calls'
  OBVIOUS
<1>1. At("cache", "get") \/ At("cache", "again") \/ At("flush", "go")
  BY DEF CacheGet, CacheFlush, FlushGo
<1>2. /\ object = "live" /\ stack # <<>> /\ Top = stack[1] /\ Open(stack) /\ Pending(checks, outcome)
      /\ Sound(stack, permitted, answering, checks, outcome, budget.requests)
      /\ Sound(Below, permitted, answering, checks, outcome, budget.requests) /\ Open(Below)
  BY <1>1, AtPlace DEF Movers
<1>3. UNCHANGED <<checks, outcome, budget, answering>> /\ object' # "deleted"
  BY <1>2 DEF CacheGet, CacheFlush, FlushGo
<1>4. ASSUME NEW x \in {"again", "end"}
      PROVE  /\ Sound(To(x), permitted, answering, checks, outcome, budget.requests)
             /\ Sound(<<Frame("flush", "ensure")>> \o To(x), permitted, answering, checks, outcome, budget.requests)
             /\ <<>> \o To(x) = To(x)
  <2>1. Sound(To(x), permitted, answering, checks, outcome, budget.requests) /\ Open(To(x)) /\ To(x) # <<>>
    BY <1>2, ToSound
  <2>2. Plain(Frame("flush", "ensure"))
    BY Frames DEF Movers
  <2>3. <<>> \o To(x) = To(x)
    BY <2>1, PushedTwo DEF Sound, Nested
  <2> QED BY <2>1, <2>2, <2>3, PlainSound
<1>5. CASE stack' = Below /\ UNCHANGED permitted
  BY <1>2, <1>3, <1>5, StackStep
<1>6. ASSUME NEW x \in {"again", "end"}, UNCHANGED permitted,
             \/ stack' = To(x)
             \/ stack' = <<>> \o To(x)
             \/ stack' = <<Frame("flush", "ensure")>> \o To(x)
      PROVE  Calls'
  BY <1>2, <1>3, <1>4, <1>6, StackStep
<1>7. CASE OnStatusChange(Shown("RW"), Below)
  BY <1>2, <1>3, <1>7, StatusSound, StackStep
<1>8. CASE CacheGet
  <2>1. UNCHANGED permitted
    BY <1>8 DEF CacheGet
  <2>2. \/ stack' = Below
        \/ stack' = To("again")
        \/ stack' = (IF ShouldFlush(entries', old') THEN <<Frame("flush", "ensure")>> ELSE <<>>) \o To("again")
    BY <1>8 DEF CacheGet, UpdateMonitor
  <2> QED BY <1>5, <1>6, <2>1, <2>2
<1>9. CASE CacheFlush
  <2>1. /\ UNCHANGED permitted
        /\ stack' = (IF ShouldFlush(entries, old) THEN <<Frame("flush", "ensure")>> ELSE <<>>) \o To("end")
    BY <1>9 DEF CacheFlush
  <2> QED BY <1>6, <2>1
<1> QED BY <1>7, <1>8, <1>9 DEF FlushGo

\* All requests that were not cancelled are to be told.
LEMMA TellSound ==
  ASSUME NEW t, NEW a, Sound(t, FALSE, a, checks, outcome, budget.requests), Pending(checks, outcome),
         t # <<>>, \A j \in 1 .. Len(t) : ~Telling(t[j]),
         NEW cause \in {"FINISH", "SERVICE_NOT_AVAILABLE"},
         cause = "FINISH" => Ending(t[1]), cause # "FINISH" => Open(t),
         NEW f, f = [fn |-> "telling", at |-> "next", left |-> Kept, cause |-> cause]
  PROVE  /\ Sound(<<f>> \o t, FALSE, a, checks, outcome, budget.requests)
         /\ ~Quiet(<<f>> \o t)
<1>1. Nested(t, FALSE, a) /\ Owing(t, checks, outcome, budget.requests) /\ IsList(t)
  BY DEF Sound, Nested
<1>2. /\ f.fn = "telling" /\ f.at = "next" /\ f.left = Kept /\ f.cause = cause /\ IsFrame(f)
      /\ {"left", "cause"} \subseteq DOMAIN f
  BY DEF IsFrame
<1>3. Blocks(f) /\ ~Restores(f) /\ Telling(f) /\ ~Due(f) /\ ~Fresh(f) /\ (Frees(f) => Open(t))
  BY <1>2 DEF Blocks, Restores, Telling, Due, Fresh, Frees
<1>4. Nested(<<f>> \o t, FALSE, a)
  BY <1>1, <1>2, <1>3, GrowNested
<1>5. OwingAt(f, checks, outcome, budget.requests)
  BY <1>2, <1>3 DEF OwingAt, Pending, KeptOf, Kept
<1>6. Owing(<<f>> \o t, checks, outcome, budget.requests)
  BY <1>1, <1>2, <1>3, <1>5, GrowOwing DEF OwingApart
<1>7. ~Quiet(<<f>> \o t)
  <2>1. Len(<<f>> \o t) = Len(t) + 1 /\ (<<f>> \o t)[1] = f
    BY <1>1, Pushed, SMTT(30)
  <2>2. 1 \in 1 .. Len(<<f>> \o t)
    BY <1>1, <2>1, SMTT(30) DEF IsList
  <2> QED BY <1>3, <2>1, <2>2 DEF Quiet
<1> QED BY <1>4, <1>6, <1>7 DEF Sound

\* While everybody is told, or when everybody was.
LEMMA LoudStep ==
  ASSUME Calls, object' # "deleted", UNCHANGED <<checks, outcome, budget>>, ~Quiet(stack'),
         Sound(stack', permitted', answering', checks, outcome, budget.requests)
  PROVE  Calls'
BY DEF Calls, FinishWhenQuiet

\* onServiceNotAvailable begins.
LEMMA OnServiceNotAvailableStep == Calls /\ OnServiceNotAvailable => Calls'
<1> SUFFICES ASSUME Calls, OnServiceNotAvailable PROVE Calls'
  OBVIOUS
<1>1. At("reconnect", "unavailable")
  BY DEF OnServiceNotAvailable
<1>2. /\ object = "live" /\ stack # <<>> /\ Top = stack[1] /\ Top.fn = "reconnect" /\ IsList(stack)
      /\ Pending(checks, outcome)
      /\ Sound(stack, permitted, answering, checks, outcome, budget.requests)
      /\ Sound(Below, permitted, answering, checks, outcome, budget.requests) /\ Open(Below)
  BY <1>1, AtPlace DEF Movers
<1>3. UNCHANGED <<checks, outcome, budget, answering>> /\ object' # "deleted" /\ permitted' = FALSE
  BY <1>2 DEF OnServiceNotAvailable
<1>4. Below # <<>>
  <2> SUFFICES ASSUME Below = <<>> PROVE FALSE
    OBVIOUS
  <2>1. Len(stack) \in Nat /\ Len(stack) >= 1 /\ Len(Below) = Len(stack) - 1
    BY <1>2, Popped DEF Below, IsList
  <2>2. Len(stack) = 1 /\ Len(stack) > 0
    BY <2>1, SMTT(30)
  <2>3. stack[1].fn \in Bottoms
    BY <1>2, <2>2 DEF Sound, Nested
  <2> QED BY <1>2, <2>3 DEF Bottoms, ApiFunctions
<1> DEFINE g == [Below[1] EXCEPT !.at = "failed"]
           t == <<g>> \o Tail(Below)
           f == [fn |-> "telling", at |-> "next", left |-> Kept, cause |-> "SERVICE_NOT_AVAILABLE"]
<1>5. Sound(t, permitted, answering, checks, outcome, budget.requests) /\ Open(t) /\ t # <<>>
  BY <1>2, <1>4, MovedSound
<1>6. stack' = <<f>> \o t
  <2>1. stack' = <<f>> \o <<g>> \o Tail(Below)
    BY DEF OnServiceNotAvailable
  <2>2. IsList(Tail(Below))
    BY <1>2, <1>4, Popped DEF Sound, Nested
  <2> HIDE DEF f, g
  <2> QED BY <2>1, <2>2, PushedAfter
<1> HIDE DEF t
<1>7. Sound(t, FALSE, answering, checks, outcome, budget.requests)
  BY <1>5, AnyFlag
<1>8. \A j \in 1 .. Len(t) : ~Telling(t[j])
  BY <1>5 DEF Open, Blocks, Telling
<1>9. Sound(<<f>> \o t, FALSE, answering, checks, outcome, budget.requests) /\ ~Quiet(<<f>> \o t)
  BY <1>2, <1>5, <1>7, <1>8, TellSound
<1> HIDE DEF f
<1> QED BY <1>3, <1>6, <1>9, LoudStep
\* finish is the only function that runs.
LEMMA FinishAlone ==
  ASSUME Calls, object = "live", Top.fn = "finish"
  PROVE  /\ stack # <<>> /\ Top = stack[1] /\ Below = <<>> /\ IsFrame(Top)
         /\ Blocks(Top) => ~permitted
         /\ Sound(<<>>, permitted, answering, checks, outcome, budget.requests)
<1>1. /\ stack # <<>> /\ Top = stack[1] /\ IsList(stack) /\ IsFrame(Top) /\ 1 \in 1 .. Len(stack)
      /\ Sound(Below, permitted, answering, checks, outcome, budget.requests)
  BY AtTop
<1>2. NestedAt(stack, permitted, answering, 1)
  BY <1>1 DEF Calls, Sound, Nested
<1>3. Len(stack) = 1
  BY <1>1, <1>2 DEF NestedAt
<1>4. IsList(Below) /\ Len(Below) = Len(stack) - 1
  BY <1>1, Popped DEF Below
<1>5. Below = <<>>
  BY <1>3, <1>4, SMTT(30) DEF IsList
<1> QED BY <1>1, <1>2, <1>5 DEF NestedAt

\* The destructor's place after everybody was told.
LEMMA EndingSound ==
  ASSUME NEW p, ~p, NEW a, NEW c, NEW o, NEW r, Sound(<<>>, p, a, c, o, r),
         NEW f, IsFrame(f), f.fn = "finish", NEW x \in {"status", "delete"}, NEW g, g = [f EXCEPT !.at = x]
  PROVE  /\ Sound(<<g>> \o <<>>, p, a, c, o, r) /\ IsList(<<g>> \o <<>>) /\ <<g>> \o <<>> # <<>>
         /\ Ending(g) /\ Blocks(g) /\ (<<g>> \o <<>>)[1] = g /\ Len(<<g>> \o <<>>) = 1
<1>1. g.fn = "finish" /\ g.at = x /\ IsFrame(g)
  BY DEF IsFrame
<1>2. /\ Ending(g) /\ Blocks(g) /\ ~Frees(g) /\ ~Restores(g) /\ ~Telling(g) /\ ~Due(g) /\ ~Fresh(g)
      /\ g.fn # "callback" /\ g.fn \in Bottoms
  BY <1>1 DEF Ending, Blocks, Frees, Restores, Telling, Due, Fresh, Bottoms, ApiFunctions
<1>3. Nested(<<>>, p, a) /\ Owing(<<>>, c, o, r) /\ IsList(<<>>)
  BY DEF Sound, Nested
<1>4. Nested(<<g>> \o <<>>, p, a)
  BY <1>1, <1>2, <1>3, GrowNested
<1>5. OwingAt(g, c, o, r) /\ \A j \in 1 .. Len(<<>>) : OwingApart(g, <<>>[j])
  BY <1>2 DEF OwingAt, OwingApart
<1>6. Owing(<<g>> \o <<>>, c, o, r)
  BY <1>2, <1>3, <1>5, GrowOwing
<1>7. IsList(<<g>> \o <<>>) /\ <<g>> \o <<>> # <<>> /\ (<<g>> \o <<>>)[1] = g
  BY <1>3, Pushed
<1>8. Len(<<g>> \o <<>>) = 1
  BY SMTT(30)
<1> QED BY <1>2, <1>4, <1>6, <1>7, <1>8 DEF Sound

\* finish tries to flush, then begins to tell everybody.
LEMMA TryFlushMonitorStep == Calls /\ TryFlushMonitor => Calls'
<1> SUFFICES ASSUME Calls, TryFlushMonitor PROVE Calls'
  OBVIOUS
<1>1. At("finish", "flush")
  BY DEF TryFlushMonitor
<1>2. /\ object = "live" /\ Top.fn = "finish" /\ stack # <<>> /\ Top = stack[1] /\ Open(stack)
      /\ Pending(checks, outcome) /\ Sound(stack, permitted, answering, checks, outcome, budget.requests)
  BY <1>1, AtPlace
<1>3. UNCHANGED <<checks, outcome, budget, answering>> /\ object' # "deleted"
  BY <1>2 DEF TryFlushMonitor
<1>4. CASE Unwind /\ UNCHANGED permitted
  BY <1>2, <1>3, <1>4, UnwindSound, StackStep
<1> DEFINE f == [fn |-> "telling", at |-> "next", left |-> Kept, cause |-> "FINISH"]
           g == [Top EXCEPT !.at = "status"]
           t == <<g>> \o <<>>
<1>5. CASE stack' = <<f>> \o To("status") /\ permitted' = FALSE
  <2>1. Below = <<>> /\ IsFrame(Top) /\ Sound(<<>>, permitted, answering, checks, outcome, budget.requests)
    BY <1>2, FinishAlone
  <2>2. Open(<<>>)
    BY SMTT(30) DEF Open
  <2>3. PICK p : p = FALSE /\ Sound(<<>>, p, answering, checks, outcome, budget.requests)
    BY <2>1, <2>2, AnyFlag
  <2>4. /\ Sound(t, FALSE, answering, checks, outcome, budget.requests) /\ t # <<>>
        /\ Ending(g) /\ t[1] = g /\ Len(t) = 1
    <3>1. ~p /\ Top.fn = "finish"
      BY <1>2, <2>3
    <3>2. /\ Sound(t, p, answering, checks, outcome, budget.requests) /\ t # <<>>
          /\ Ending(g) /\ t[1] = g /\ Len(t) = 1
      BY <2>1, <2>3, <3>1, EndingSound, SMTT(30)
    <3> QED BY <2>3, <3>2
  <2>5. To("status") = t
    BY <2>1 DEF To
  <2> HIDE DEF t
  <2>6. \A j \in 1 .. Len(t) : ~Telling(t[j])
    <3>1. \A j \in 1 .. Len(t) : j = 1
      BY <2>4, SMTT(30)
    <3> QED BY <2>4, <3>1 DEF Telling, Ending
  <2>7. Sound(<<f>> \o t, FALSE, answering, checks, outcome, budget.requests) /\ ~Quiet(<<f>> \o t)
    <3> HIDE DEF g
    <3> QED BY <1>2, <2>4, <2>6, TellSound
  <2> HIDE DEF f
  <2> QED BY <1>3, <1>5, <2>5, <2>7, LoudStep
<1> QED BY <1>4, <1>5 DEF TryFlushMonitor

\* finish tells the status callback, and deletes the object.
LEMMA FinishStatusStep == Calls /\ (FinishStatus \/ Delete) => Calls'
<1> SUFFICES ASSUME Calls, FinishStatus \/ Delete PROVE Calls'
  OBVIOUS
<1>1. object = "live" /\ Top.fn = "finish" /\ Top.at \in {"status", "delete"}
  BY DEF FinishStatus, Delete, At
<1>2. /\ stack # <<>> /\ Top = stack[1] /\ Below = <<>> /\ IsFrame(Top)
      /\ Blocks(Top) => ~permitted
      /\ Sound(<<>>, permitted, answering, checks, outcome, budget.requests)
  BY <1>1, FinishAlone
<1>3. UNCHANGED <<checks, outcome, budget, answering, permitted>>
  BY DEF FinishStatus, Delete
<1>4. CASE FinishStatus
  <2> DEFINE g == [Top EXCEPT !.at = "delete"]
             t == <<g>> \o <<>>
  <2>1. ~permitted /\ Top.fn = "finish" /\ IsFrame(Top)
    BY <1>1, <1>2 DEF Blocks
  <2>2. Sound(<<>>, permitted, answering, checks, outcome, budget.requests)
    BY <1>2
  <2>3. /\ Sound(t, permitted, answering, checks, outcome, budget.requests) /\ t # <<>> /\ IsList(t)
        /\ Ending(g) /\ Blocks(g) /\ t[1] = g /\ Len(t) = 1
    BY <2>1, <2>2, EndingSound, SMTT(30)
  <2>4. To("delete") = t
    BY <1>2 DEF To
  <2> HIDE DEF g, t
  <2>5. Sound(<<Callback>> \o t, permitted, answering, checks, outcome, budget.requests)
    BY <2>3, CalledSound
  <2>6. ~Quiet(t) /\ ~Quiet(<<Callback>> \o t)
    <3>1. 1 \in 1 .. Len(t) /\ 2 \in 1 .. Len(t) + 1 /\ 1 + 1 = 2
      BY <2>3, SMTT(30)
    <3>2. Len(<<Callback>> \o t) = Len(t) + 1 /\ (<<Callback>> \o t)[1 + 1] = t[1]
      <4>1. IsList(t)
        BY <2>3
      <4>2. Len(<<Callback>> \o t) = Len(t) + 1
        BY <4>1, PushedFirst
      <4>3. (<<Callback>> \o t)[2] = t[2 - 1]
        <5>1. 2 \in 2 .. Len(t) + 1
          BY <3>1, SMTT(30)
        <5> QED BY ONLY <4>1, <5>1, PushedSecond, ZenonT(40)
      <4>4. 2 - 1 = 1
        BY SMTT(30)
      <4> QED BY <3>1, <4>2, <4>3, <4>4
    <3> QED BY <2>3, <3>1, <3>2 DEF Quiet
  <2>7. stack' = t \/ stack' = <<Callback>> \o t
    <3>1. <<>> \o t = t
      BY <2>3, PushedTwo
    <3> QED BY <1>4, <2>4, <3>1 DEF FinishStatus
  <2>8. Sound(stack', permitted', answering', checks, outcome, budget.requests)
    BY <1>3, <2>3, <2>5, <2>7
  <2>9. object' # "deleted"
    BY <1>1, <1>4 DEF FinishStatus
  <2> QED BY <1>3, <2>6, <2>7, <2>8, <2>9, LoudStep
<1>5. CASE Delete
  <2>1. stack' = <<>> /\ object' = "deleted"
    BY <1>2, <1>5 DEF Delete
  <2> QED BY <1>2, <1>3, <2>1 DEF Calls, FinishWhenQuiet
<1> QED BY <1>4, <1>5

-----------------------------------------------------------------------------
\* A frame that tells nobody is gone.
LEMMA QuietBelow ==
  ASSUME NEW s, IsList(s), s # <<>>, ~Telling(s[1]), ~Ending(s[1]), Quiet(Tail(s)) PROVE Quiet(s)
<1>1. /\ Len(s) >= 1 /\ Len(Tail(s)) = Len(s) - 1 /\ Len(s) \in Nat
      /\ \A i \in 1 .. Len(s) - 1 : Tail(s)[i] = s[i + 1]
  BY Popped DEF IsList
<1> SUFFICES ASSUME NEW i \in 1 .. Len(s) PROVE ~Telling(s[i]) /\ ~Ending(s[i])
  BY DEF Quiet
<1>2. CASE i = 1
  BY <1>2
<1>3. CASE i # 1
  <2>1. i - 1 \in 1 .. Len(Tail(s)) /\ i - 1 \in 1 .. Len(s) - 1 /\ (i - 1) + 1 = i
    BY <1>1, <1>3, SMTT(30)
  <2>2. Tail(s)[i - 1] = s[i]
    BY <1>1, <2>1
  <2> QED BY <2>1, <2>2 DEF Quiet
<1> QED BY <1>2, <1>3

\* A callback returns, the status callback has returned, a function ends.
LEMMA ReturnStep == Calls /\ (CallbackReturns \/ StatusChanged \/ FunctionReturns) => Calls'
<1> SUFFICES ASSUME Calls, CallbackReturns \/ StatusChanged \/ FunctionReturns PROVE Calls'
  OBVIOUS
<1>1. object = "live" /\ (Top.fn \in {"callback", "status"} \/ Top.at \in {"failed", "end"})
  BY DEF CallbackReturns, StatusChanged, FunctionReturns, At
<1>2. stack # <<>>
  BY <1>1 DEF Top, Frame
<1>3. Top = stack[1] /\ IsList(stack)
  <2>1. IsList(stack)
    BY DEF Calls, Sound, Nested
  <2> QED BY <1>2, <2>1, Popped DEF Top
<1>4. Top.fn # "none"
  <2>1. 1 \in 1 .. Len(stack)
    BY <1>2, <1>3, SMTT(30) DEF IsList
  <2> QED BY <1>3, <2>1 DEF Calls, Sound, Nested, NestedAt, IsFrame
<1>5. /\ Sound(Below, permitted, answering, checks, outcome, budget.requests)
      /\ OwingAt(Top, checks, outcome, budget.requests) /\ 1 \in 1 .. Len(stack)
  BY <1>1, <1>4, AtTop
<1>6. ~Telling(Top) /\ ~Ending(Top)
  BY <1>1, <1>5 DEF OwingAt, Telling, Ending
<1>7. Quiet(Below) => Quiet(stack)
  BY <1>2, <1>3, <1>6, QuietBelow DEF Below
<1>8. UNCHANGED <<checks, outcome, budget, answering, object>> /\ stack' = Below
  BY DEF CallbackReturns, StatusChanged, FunctionReturns
<1>9. Sound(Below, permitted', answering, checks, outcome, budget.requests)
  <2>1. CASE UNCHANGED permitted
    BY <1>5, <2>1
  <2>2. CASE StatusChanged
    <3>1. Frees(stack[1])
      BY <1>3, <2>2 DEF StatusChanged, At, Frees
    <3>2. \A j \in 1 + 1 .. Len(stack) : ~Blocks(stack[j])
      BY <1>5, <3>1 DEF Calls, Sound, Nested, NestedAt
    <3>3. /\ Len(Below) = Len(stack) - 1 /\ \A i \in 1 .. Len(stack) - 1 : Below[i] = stack[i + 1]
      BY <1>2, <1>3, Popped DEF Below
    <3>4. \A i \in 1 .. Len(Below) : i \in 1 .. Len(stack) - 1 /\ i + 1 \in 1 + 1 .. Len(stack)
      BY <1>3, <3>3, SMTT(30) DEF IsList
    <3>5. Open(Below)
      BY <3>2, <3>3, <3>4 DEF Open
    <3> QED BY <1>5, <3>5, AnyFlag
  <2> QED BY <2>1, <2>2 DEF CallbackReturns, FunctionReturns
<1> QED BY <1>1, <1>7, <1>8, <1>9 DEF Calls, FinishWhenQuiet
-----------------------------------------------------------------------------
\* The frames below the top one.
LEMMA BelowTop ==
  ASSUME Calls, stack # <<>>
  PROVE  /\ \A j \in 1 .. Len(Below) : OwingApart(stack[1], Below[j])
         /\ stack[1].fn \notin Bottoms => Below # <<>>
<1>1. /\ IsList(stack) /\ Nested(stack, permitted, answering)
      /\ Owing(stack, checks, outcome, budget.requests)
  BY DEF Calls, Sound, Nested
<1>2. /\ Len(stack) \in Nat /\ Len(stack) >= 1 /\ Len(Below) = Len(stack) - 1
      /\ \A i \in 1 .. Len(stack) - 1 : Below[i] = stack[i + 1]
  BY <1>1, Popped DEF Below, IsList
<1>3. ASSUME NEW j \in 1 .. Len(Below) PROVE OwingApart(stack[1], Below[j])
  <2>1. /\ j \in 1 .. Len(stack) - 1 /\ j + 1 \in 1 .. Len(stack)
        /\ 1 \in 1 .. Len(stack) /\ 1 < j + 1
    BY <1>2, SMTT(30)
  <2> QED BY <1>1, <1>2, <2>1 DEF Owing
<1>4. ASSUME Below = <<>> PROVE stack[1].fn \in Bottoms
  <2>1. Len(stack) = 1 /\ Len(stack) > 0
    BY <1>2, <1>4, SMTT(30)
  <2> QED BY <1>1, <2>1 DEF Nested
<1> QED BY <1>3, <1>4

\* No function tells everybody.
Silent(s) == \A j \in 1 .. Len(s) : ~Telling(s[j])

\* None does where calls are permitted.
LEMMA OpenSilent == ASSUME NEW s, Open(s) PROVE Silent(s) /\ Quiet(s)
BY DEF Open, Silent, Quiet, Blocks, Telling, Ending

\* m_checks and what was told change; the frames that owe a callback still do.
LEMMA ChangeSound ==
  ASSUME NEW t, NEW p, NEW a, NEW c, NEW o, NEW r, Sound(t, p, a, c, o, r), Silent(t),
         NEW c2, NEW o2, NEW r2,
         \A j \in 1 .. Len(t) : Due(t[j]) =>
             o2[t[j].req] = "pending" /\ \A id \in DOMAIN c2 : c2[id].req # t[j].req,
         \A j \in 1 .. Len(t) : Fresh(t[j]) => o2[t[j].req] = "none" /\ t[j].req <= r2
  PROVE  Sound(t, p, a, c2, o2, r2)
<1>1. \A j \in 1 .. Len(t) : ~Telling(t[j])
  BY DEF Silent
<1>2. Nested(t, p, a) /\ Owing(t, c, o, r)
  BY DEF Sound
<1>3. \A j \in 1 .. Len(t) : OwingAt(t[j], c2, o2, r2)
  BY <1>1, <1>2 DEF Owing, OwingAt
<1>4. Owing(t, c2, o2, r2)
  BY <1>1, <1>2, <1>3 DEF Owing
<1> QED BY <1>2, <1>4 DEF Sound

\* Checks are taken from m_checks.
LEMMA NarrowSound ==
  ASSUME NEW t, NEW p, NEW a, NEW c, NEW o, NEW r, Sound(t, p, a, c, o, r), Open(t),
         Counted(c, o, r), Pending(c, o), NEW D \in SUBSET DOMAIN c, NEW c2, c2 = [i \in D |-> c[i]]
  PROVE  Sound(t, p, a, c2, o, r) /\ Counted(c2, o, r) /\ Pending(c2, o)
<1>1. DOMAIN c2 = D /\ \A i \in D : c2[i] = c[i]
  OBVIOUS
<1>2. c2 = [i \in DOMAIN c2 |-> c2[i]]
  OBVIOUS
<1>3. Counted(c2, o, r)
  BY <1>1, <1>2 DEF Counted
<1>4. Pending(c2, o)
  BY <1>1 DEF Pending, KeptOf
<1>5. Owing(t, c, o, r)
  BY DEF Sound
<1>6. \A j \in 1 .. Len(t) : Due(t[j]) =>
        o[t[j].req] = "pending" /\ \A id \in DOMAIN c2 : c2[id].req # t[j].req
  BY <1>1, <1>5 DEF Owing, OwingAt
<1>7. \A j \in 1 .. Len(t) : Fresh(t[j]) => o[t[j].req] = "none" /\ t[j].req <= r
  BY <1>5 DEF Owing, OwingAt
<1>8. Sound(t, p, a, c2, o, r)
  BY <1>6, <1>7, ChangeSound, OpenSilent
<1> QED BY <1>3, <1>4, <1>8

Causes == {"ANSWER", "CANCEL", "FINISH", "SERVICE_NOT_AVAILABLE"}

\* A request that waits for its callback is called back.
LEMMA ToldOnce ==
  ASSUME NEW c, NEW r, Counted(c, outcome, r), NEW n \in 1 .. MaxRequests, outcome[n] = "pending",
         NEW x \in Causes, Told(n, x)
  PROVE  /\ Counted(c, outcome', r) /\ outcome'[n] = x
         /\ \A m \in 1 .. MaxRequests : m # n => outcome'[m] = outcome[m]
<1>1. outcome = [m \in 1 .. MaxRequests |-> outcome[m]]
  BY DEF Counted
<1>2. outcome' = [outcome EXCEPT ![n] = x]
  BY DEF Told
<1>3. /\ outcome' = [m \in 1 .. MaxRequests |-> outcome'[m]] /\ outcome'[n] = x
      /\ \A m \in 1 .. MaxRequests : m # n => outcome'[m] = outcome[m]
  BY <1>1, <1>2
<1>4. x # "TWICE" /\ x # "none"
  BY DEF Causes
<1>5. \A m \in 1 .. MaxRequests : outcome'[m] # "TWICE" /\ (m > r => outcome'[m] = "none")
  BY <1>3, <1>4 DEF Counted
<1>6. \A id \in DOMAIN c : IsCheck(c[id]) /\ outcome'[c[id].req] # "none"
  BY <1>3, <1>4 DEF Counted, IsCheck
<1> QED BY <1>3, <1>5, <1>6 DEF Counted

\* A callback of a request runs, and m_inAnswerCancelResponseCallback was saved.
LEMMA RestoreSound ==
  ASSUME NEW t, NEW p, NEW a, NEW c, NEW o, NEW r, Sound(t, p, a, c, o, r), Open(t),
         NEW g, IsFrame(g), g.fn \in {"cancel", "answer"}, g.at = "restore", g.saved = a,
         t = <<>> => g.fn = "cancel"
  PROVE  Sound(<<Callback, g>> \o t, p, TRUE, c, o, r)
<1>1. Nested(t, p, a) /\ Nested(t, p, TRUE) /\ Owing(t, c, o, r) /\ IsList(t)
  BY NowAnswering DEF Sound, Nested
<1>2. /\ ~Blocks(g) /\ Restores(g) /\ ~Frees(g) /\ ~Telling(g) /\ ~Due(g) /\ ~Fresh(g)
      /\ g.fn # "callback" /\ g.fn # "finish" /\ (t = <<>> => g.fn \in Bottoms)
  BY DEF Blocks, Restores, Frees, Telling, Due, Fresh, Bottoms, ApiFunctions
<1>3. \A j \in 1 .. Len(t) : Restores(t[j]) => g.saved = TRUE
  BY <1>1 DEF Nested, NestedAt
<1>4. Nested(<<g>> \o t, p, TRUE)
  BY <1>1, <1>2, <1>3, GrowNested
<1>5. OwingAt(g, c, o, r) /\ \A j \in 1 .. Len(t) : OwingApart(g, t[j])
  BY <1>2 DEF OwingAt, OwingApart
<1>6. Owing(<<g>> \o t, c, o, r)
  BY <1>1, <1>2, <1>5, GrowOwing
<1>7. <<g>> \o t # <<>> /\ (<<g>> \o t)[1] = g
  BY <1>1, PushedFirst
<1>8. Sound(<<Callback>> \o (<<g>> \o t), p, TRUE, c, o, r)
  <2>1. Sound(<<g>> \o t, p, TRUE, c, o, r)
    BY <1>4, <1>6 DEF Sound
  <2> DEFINE u == <<g>> \o t
  <2>2. u # <<>> /\ Restores(u[1]) /\ Sound(u, p, TRUE, c, o, r)
    BY <1>2, <1>7, <2>1
  <2> HIDE DEF u
  <2>3. Sound(<<Callback>> \o u, p, TRUE, c, o, r)
    BY <2>2, CalledSound
  <2> QED BY <2>3 DEF u
<1>9. <<Callback, g>> \o t = <<Callback>> \o (<<g>> \o t)
  BY ONLY <1>1, PushedPair, ZenonT(40)
<1> QED BY <1>8, <1>9

\* The callback of an answer begins.
LEMMA TellAnswerStep == Calls /\ TellAnswer => Calls'
<1> SUFFICES ASSUME Calls, TellAnswer PROVE Calls'
  OBVIOUS
<1>1. At("answer", "tell")
  BY DEF TellAnswer
<1>2. /\ object = "live" /\ Top.fn = "answer" /\ Top.at = "tell" /\ stack # <<>> /\ Top = stack[1]
      /\ OwingAt(Top, checks, outcome, budget.requests) /\ Pending(checks, outcome)
      /\ Sound(Below, permitted, answering, checks, outcome, budget.requests) /\ Open(Below)
  BY <1>1, AtPlace DEF Movers
<1>3. UNCHANGED <<checks, budget, permitted>> /\ object' # "deleted"
  BY <1>2 DEF TellAnswer
<1>4. CASE ~Top.told
  <2>1. stack' = Below /\ UNCHANGED <<answering, outcome>>
    BY <1>4 DEF TellAnswer
  <2> QED BY <1>2, <1>3, <2>1, StackStep
<1>5. CASE Top.told
  <2> DEFINE n == Top.req
             g == [fn |-> "answer", at |-> "restore", saved |-> answering]
  <2>1. answering' = TRUE /\ Told(n, "ANSWER") /\ stack' = <<Callback, g>> \o Below
    BY <1>5 DEF TellAnswer
  <2>2. Due(Top)
    BY <1>2, <1>5 DEF Due
  <2>3. /\ n \in 1 .. MaxRequests /\ outcome[n] = "pending"
        /\ \A id \in DOMAIN checks : checks[id].req # n
    BY <1>2, <2>2 DEF OwingAt
  <2>4. /\ \A j \in 1 .. Len(Below) : Due(Below[j]) => Below[j].req # n
        /\ Below # <<>>
    <3>1. stack[1].fn \notin Bottoms
      BY <1>2 DEF Bottoms, ApiFunctions
    <3> QED BY <1>2, <2>2, <3>1, BelowTop DEF OwingApart
  <2>5. g.fn = "answer" /\ g.at = "restore" /\ g.saved = answering /\ IsFrame(g)
    BY DEF IsFrame
  <2> HIDE DEF n, g
  <2>6. Counted(checks, outcome, budget.requests)
    BY DEF Calls
  <2>7. /\ Counted(checks, outcome', budget.requests)
        /\ \A m \in 1 .. MaxRequests : m # n => outcome'[m] = outcome[m]
    BY <2>1, <2>3, <2>6, ToldOnce DEF Causes
  <2>8. Owing(Below, checks, outcome, budget.requests)
    BY <1>2 DEF Sound
  <2>9. Sound(Below, permitted, answering, checks, outcome', budget.requests)
    <3>1. \A j \in 1 .. Len(Below) : Due(Below[j]) =>
            /\ outcome'[Below[j].req] = "pending"
            /\ \A id \in DOMAIN checks : checks[id].req # Below[j].req
      BY <2>4, <2>7, <2>8 DEF Owing, OwingAt
    <3>2. \A j \in 1 .. Len(Below) : Fresh(Below[j]) =>
            outcome'[Below[j].req] = "none" /\ Below[j].req <= budget.requests
      <4>1. \A m : m = n => outcome[m] # "none"
        BY <2>3
      <4> QED BY <4>1, <2>7, <2>8 DEF Owing, OwingAt
    <3> QED BY <1>2, <3>1, <3>2, ChangeSound, OpenSilent
  <2>10. Sound(stack', permitted, TRUE, checks, outcome', budget.requests)
    BY <1>2, <2>1, <2>4, <2>5, <2>9, RestoreSound
  <2>11. Pending(checks, outcome')
    <3> SUFFICES ASSUME NEW i \in KeptOf(checks) PROVE outcome'[checks[i].req] = "pending"
      BY DEF Pending
    <3>1. i \in DOMAIN checks /\ outcome[checks[i].req] = "pending"
      BY <1>2 DEF Pending, KeptOf
    <3>2. checks[i].req # n /\ checks[i].req \in 1 .. MaxRequests
      BY <2>3, <2>6, <3>1 DEF Counted, IsCheck
    <3> QED BY <2>7, <3>1, <3>2
  <2> QED BY <1>3, <2>1, <2>7, <2>10, <2>11 DEF Calls, FinishWhenQuiet
<1> QED BY <1>4, <1>5

\* cancelRequest, up to its callback.
LEMMA CancelGoStep == Calls /\ CancelGo => Calls'
<1> SUFFICES ASSUME Calls, CancelGo PROVE Calls'
  OBVIOUS
<1>1. At("cancel", "go")
  BY DEF CancelGo
<1>2. /\ object = "live" /\ Top.fn = "cancel" /\ stack # <<>> /\ Top = stack[1] /\ IsFrame(Top)
      /\ Pending(checks, outcome)
      /\ Sound(Below, permitted, answering, checks, outcome, budget.requests) /\ Open(Below)
  BY <1>1, AtPlace DEF Movers
<1>3. UNCHANGED <<budget, permitted>> /\ object' # "deleted"
  BY <1>2 DEF CancelGo
<1>4. CASE Top.id \notin Kept
  <2>1. stack' = Below /\ UNCHANGED <<checks, answering, outcome>>
    BY <1>4 DEF CancelGo
  <2> QED BY <1>2, <1>3, <2>1, StackStep
<1>5. CASE Top.id \in Kept
  <2> DEFINE id == Top.id
             n == checks[id].req
             g == [Top EXCEPT !.at = "restore", !.saved = answering]
  <2>1. /\ answering' = TRUE /\ Told(n, "CANCEL") /\ stack' = <<Callback, g>> \o Below
        /\ checks' = [checks EXCEPT ![id].cancelled = TRUE]
    BY <1>5 DEF CancelGo
  <2>2. g.fn = "cancel" /\ g.at = "restore" /\ g.saved = answering /\ IsFrame(g)
    BY <1>2 DEF IsFrame
  <2>3. Counted(checks, outcome, budget.requests) /\ id \in DOMAIN checks
    BY <1>5 DEF Calls, Kept
  <2>4. /\ n \in 1 .. MaxRequests /\ outcome[n] = "pending"
    BY <1>2, <1>5, <2>3 DEF Pending, KeptOf, Kept, Counted, IsCheck
  <2>5. /\ DOMAIN checks' = DOMAIN checks /\ checks' = [i \in DOMAIN checks |-> checks'[i]]
        /\ checks'[id] = [checks[id] EXCEPT !.cancelled = TRUE]
        /\ \A i \in DOMAIN checks : i # id => checks'[i] = checks[i]
    <3>1. checks = [i \in DOMAIN checks |-> checks[i]]
      BY <2>3 DEF Counted
    <3>2. checks' = [checks EXCEPT ![id].cancelled = TRUE]
      BY <2>1
    <3> HIDE DEF id, n, g
    <3>3. DOMAIN checks' = DOMAIN checks /\ checks' = [i \in DOMAIN checks |-> checks'[i]]
      BY <3>1, <3>2
    <3>4. checks'[id] = [checks[id] EXCEPT !.cancelled = TRUE]
      BY <2>3, <3>1, <3>2
    <3>5. \A i \in DOMAIN checks : i # id => checks'[i] = checks[i]
      BY <3>1, <3>2
    <3> QED BY <3>3, <3>4, <3>5
  <2> HIDE DEF id, g
  <2>6. IsCheck(checks'[id]) /\ checks'[id].req = checks[id].req /\ checks'[id].cancelled = TRUE
    <3>1. IsCheck(checks[id])
      BY <2>3 DEF Counted
    <3> QED BY <2>5, <3>1 DEF IsCheck
  <2>7. \A i \in DOMAIN checks : IsCheck(checks'[i]) /\ checks'[i].req = checks[i].req
    <3> SUFFICES ASSUME NEW i \in DOMAIN checks
                 PROVE  IsCheck(checks'[i]) /\ checks'[i].req = checks[i].req
      OBVIOUS
    <3>1. CASE i = id
      BY <2>6, <3>1
    <3>2. CASE i # id
      BY <2>3, <2>5, <3>2 DEF Counted
    <3> QED BY <3>1, <3>2
  <2>8. Counted(checks', outcome, budget.requests)
    <3>1. \A i \in DOMAIN checks' : IsCheck(checks'[i]) /\ outcome[checks'[i].req] # "none"
      BY <2>3, <2>5, <2>7 DEF Counted
    <3>2. \A i, k \in DOMAIN checks' : checks'[i].req = checks'[k].req => i = k
      <4>1. \A i, k \in DOMAIN checks : checks[i].req = checks[k].req => i = k
        BY <2>3 DEF Counted
      <4> QED BY <2>5, <2>7, <4>1
    <3> QED BY <2>3, <2>5, <3>1, <3>2 DEF Counted
  <2>9. /\ Counted(checks', outcome', budget.requests)
        /\ \A m \in 1 .. MaxRequests : m # n => outcome'[m] = outcome[m]
    <3> HIDE DEF n
    <3> QED BY <2>1, <2>4, <2>8, ToldOnce DEF Causes
  <2>10. Owing(Below, checks, outcome, budget.requests)
    BY <1>2 DEF Sound
  <2>11. Sound(Below, permitted, answering, checks', outcome', budget.requests)
    <3>1. \A j \in 1 .. Len(Below) : Due(Below[j]) =>
            /\ outcome'[Below[j].req] = "pending"
            /\ \A i \in DOMAIN checks' : checks'[i].req # Below[j].req
      <4>1. \A j \in 1 .. Len(Below) : Due(Below[j]) =>
              /\ Below[j].req \in 1 .. MaxRequests /\ outcome[Below[j].req] = "pending"
              /\ \A i \in DOMAIN checks : checks[i].req # Below[j].req
        BY <2>10 DEF Owing, OwingAt
      <4>2. \A j \in 1 .. Len(Below) : Due(Below[j]) => Below[j].req # n
        BY <2>3, <4>1
      <4>3. \A j \in 1 .. Len(Below) : Due(Below[j]) => outcome'[Below[j].req] = "pending"
        BY <2>9, <4>1, <4>2
      <4>4. \A j \in 1 .. Len(Below) : Due(Below[j]) =>
              \A i \in DOMAIN checks' : checks'[i].req # Below[j].req
        <5> SUFFICES ASSUME NEW j \in 1 .. Len(Below), Due(Below[j]), NEW i \in DOMAIN checks'
                     PROVE  checks'[i].req # Below[j].req
          OBVIOUS
        <5>1. i \in DOMAIN checks
          BY <2>5
        <5>2. checks'[i].req = checks[i].req /\ checks[i].req # Below[j].req
          BY <2>7, <4>1, <5>1
        <5> QED BY <5>2
      <4> QED BY <4>3, <4>4
    <3>2. \A j \in 1 .. Len(Below) : Fresh(Below[j]) =>
            outcome'[Below[j].req] = "none" /\ Below[j].req <= budget.requests
      <4>1. \A m : m = n => outcome[m] # "none"
        BY <2>4
      <4> QED BY <4>1, <2>9, <2>10 DEF Owing, OwingAt
    <3> QED BY <1>2, <3>1, <3>2, ChangeSound, OpenSilent
  <2>12. Sound(stack', permitted, TRUE, checks', outcome', budget.requests)
    BY <1>2, <2>1, <2>2, <2>11, RestoreSound
  <2>13. Pending(checks', outcome')
    <3> SUFFICES ASSUME NEW i \in KeptOf(checks') PROVE outcome'[checks'[i].req] = "pending"
      BY DEF Pending
    <3>1. i \in DOMAIN checks /\ i # id /\ i \in KeptOf(checks)
      BY <2>5, <2>6 DEF KeptOf
    <3>2. checks[i].req # n /\ checks[i].req \in 1 .. MaxRequests
      BY <2>3, <3>1 DEF Counted, IsCheck
    <3> QED BY <1>2, <2>5, <2>9, <3>1, <3>2 DEF Pending
  <2> QED BY <1>3, <2>1, <2>9, <2>12, <2>13 DEF Calls, FinishWhenQuiet
<1> QED BY <1>4, <1>5
\* connect succeeds: the cancelled checks are dropped.
LEMMA ConnectAsyncStep == Calls /\ ConnectAsync => Calls'
<1> SUFFICES ASSUME Calls, ConnectAsync PROVE Calls'
  OBVIOUS
<1>1. At("reconnect", "connect")
  BY DEF ConnectAsync
<1>2. /\ object = "live" /\ Pending(checks, outcome)
      /\ Sound(Below, permitted, answering, checks, outcome, budget.requests) /\ Open(Below)
  BY <1>1, AtPlace DEF Movers
<1>3. /\ UNCHANGED <<budget, outcome, answering>> /\ object' # "deleted"
      /\ checks' = [id \in Kept |-> checks[id]]
  BY <1>2 DEF ConnectAsync, PrepareRequestsToSend
<1>4. PICK new : OnStatusChange(new, Below)
  BY DEF ConnectAsync
<1>5. Kept \in SUBSET DOMAIN checks /\ Counted(checks, outcome, budget.requests)
  BY DEF Kept, Calls
<1>6. /\ Sound(Below, permitted, answering, checks', outcome, budget.requests)
      /\ Counted(checks', outcome, budget.requests) /\ Pending(checks', outcome)
  BY <1>2, <1>3, <1>5, NarrowSound
<1>7. Sound(stack', permitted', answering, checks', outcome, budget.requests)
  BY <1>2, <1>4, <1>6, StatusSound
<1> QED BY <1>3, <1>6, <1>7 DEF Calls, FinishWhenQuiet

\* The confirmation of a cancellation.
LEMMA ProcessCancelResponseStep == Calls /\ ProcessCancelResponse => Calls'
<1> SUFFICES ASSUME Calls, ProcessCancelResponse PROVE Calls'
  OBVIOUS
<1>1. At("process", "responses")
  BY DEF ProcessCancelResponse
<1>2. /\ object = "live" /\ Pending(checks, outcome)
      /\ Sound(stack, permitted, answering, checks, outcome, budget.requests) /\ Open(stack)
  BY <1>1, AtPlace DEF Movers
<1>3. UNCHANGED <<budget, outcome, answering, permitted, stack>> /\ object' # "deleted"
  BY <1>2 DEF ProcessCancelResponse
<1>4. PICK id : checks' = [i \in DOMAIN checks \ {id} |-> checks[i]]
  BY DEF ProcessCancelResponse, Release
<1>5. DOMAIN checks \ {id} \in SUBSET DOMAIN checks /\ Counted(checks, outcome, budget.requests)
  BY DEF Calls
<1>6. /\ Sound(stack, permitted, answering, checks', outcome, budget.requests)
      /\ Counted(checks', outcome, budget.requests) /\ Pending(checks', outcome)
  BY <1>2, <1>4, <1>5, NarrowSound
<1> QED BY <1>3, <1>6 DEF Calls, FinishWhenQuiet

\* The answer of a check.
LEMMA ProcessCheckResponseStep == Calls /\ ProcessCheckResponse => Calls'
<1> SUFFICES ASSUME Calls, ProcessCheckResponse PROVE Calls'
  OBVIOUS
<1>1. At("process", "responses")
  BY DEF ProcessCheckResponse
<1>2. /\ object = "live" /\ Pending(checks, outcome) /\ stack # <<>>
      /\ Sound(stack, permitted, answering, checks, outcome, budget.requests) /\ Open(stack)
  BY <1>1, AtPlace DEF Movers
<1>3. UNCHANGED <<budget, outcome, answering, permitted>> /\ object' # "deleted"
  BY <1>2 DEF ProcessCheckResponse
<1> DEFINE id == Head(readQueue).id
           f == [fn |-> "answer", at |-> "tell", req |-> checks[id].req,
                 told |-> ~checks[id].cancelled]
<1>4. /\ id \in DOMAIN checks /\ checks' = [i \in DOMAIN checks \ {id} |-> checks[i]]
      /\ \/ stack' = <<f>> \o stack
         \/ stack' = <<>> \o (<<f>> \o stack)
         \/ stack' = <<Frame("flush", "ensure")>> \o (<<f>> \o stack)
  BY DEF ProcessCheckResponse, Release, UpdateMonitor
<1>5. /\ f.fn = "answer" /\ f.at = "tell" /\ f.req = checks[id].req /\ IsFrame(f)
      /\ f.told = ~checks[id].cancelled
  BY DEF IsFrame
<1> HIDE DEF id, f
<1>6. DOMAIN checks \ {id} \in SUBSET DOMAIN checks /\ Counted(checks, outcome, budget.requests)
  BY DEF Calls
<1>7. /\ Sound(stack, permitted, answering, checks', outcome, budget.requests)
      /\ Counted(checks', outcome, budget.requests) /\ Pending(checks', outcome)
  BY <1>2, <1>4, <1>6, NarrowSound
<1>8. /\ ~Blocks(f) /\ ~Restores(f) /\ ~Frees(f) /\ ~Telling(f) /\ ~Fresh(f)
      /\ f.fn # "callback" /\ f.fn # "finish"
  BY <1>5 DEF Blocks, Restores, Frees, Telling, Fresh
<1>9. /\ Nested(stack, permitted, answering) /\ Owing(stack, checks', outcome, budget.requests)
      /\ Owing(stack, checks, outcome, budget.requests) /\ IsList(stack)
  BY <1>2, <1>7 DEF Sound, Nested
<1>10. /\ Nested(<<f>> \o stack, permitted, answering) /\ <<f>> \o stack # <<>>
       /\ Open(<<f>> \o stack)
  <2>1. Nested(<<f>> \o stack, permitted, answering)
    BY <1>2, <1>5, <1>8, <1>9, GrowNested
  <2>2. <<f>> \o stack # <<>> /\ (<<f>> \o stack)[1] = f
    BY <1>9, PushedFirst
  <2> DEFINE u == <<f>> \o stack
  <2>3. Nested(u, permitted, answering) /\ u[1].fn # "callback" /\ ~Blocks(u[1])
    BY <1>8, <2>1, <2>2
  <2> HIDE DEF u
  <2>4. Open(u)
    BY <2>3, OpenTop
  <2> QED BY <2>1, <2>2, <2>4 DEF u
<1>11. Due(f) => /\ f.req \in 1 .. MaxRequests /\ outcome[f.req] = "pending"
                 /\ \A i \in DOMAIN checks' : checks'[i].req # f.req
  <2> SUFFICES ASSUME Due(f) PROVE /\ f.req \in 1 .. MaxRequests /\ outcome[f.req] = "pending"
                                   /\ \A i \in DOMAIN checks' : checks'[i].req # f.req
    OBVIOUS
  <2>1. id \in KeptOf(checks)
    BY <1>4, <1>5 DEF Due, KeptOf
  <2>2. f.req \in 1 .. MaxRequests /\ outcome[f.req] = "pending"
    <3>1. outcome[checks[id].req] = "pending"
      BY <1>2, <2>1 DEF Pending
    <3>2. IsCheck(checks[id])
      BY <1>4, <1>6 DEF Counted
    <3> QED BY <1>5, <3>1, <3>2 DEF IsCheck
  <2>3. \A i \in DOMAIN checks : i # id => checks[i].req # checks[id].req
    BY <1>4, <1>6 DEF Counted
  <2> QED BY <1>4, <1>5, <2>2, <2>3
<1>12. OwingAt(f, checks', outcome, budget.requests)
  BY <1>8, <1>11 DEF OwingAt
<1>13. \A j \in 1 .. Len(stack) : OwingApart(f, stack[j])
  <2>1. \A j \in 1 .. Len(stack) : Due(stack[j]) => stack[j].req # f.req
    <3>1. \A j \in 1 .. Len(stack) : Due(stack[j]) =>
            \A i \in DOMAIN checks : checks[i].req # stack[j].req
      BY <1>9 DEF Owing, OwingAt
    <3> QED BY <1>4, <1>5, <3>1
  <2> QED BY <1>8, <2>1 DEF OwingApart
<1>14. Owing(<<f>> \o stack, checks', outcome, budget.requests)
  BY <1>8, <1>9, <1>12, <1>13, GrowOwing
<1>15. Sound(<<f>> \o stack, permitted, answering, checks', outcome, budget.requests)
  BY <1>10, <1>14 DEF Sound
<1>16. Sound(stack', permitted, answering, checks', outcome, budget.requests)
  <2> DEFINE u == <<f>> \o stack
             h == Frame("flush", "ensure")
  <2>1. /\ Sound(u, permitted, answering, checks', outcome, budget.requests)
        /\ Open(u) /\ u # <<>>
    BY <1>10, <1>15
  <2>2. stack' = u \/ stack' = <<>> \o u \/ stack' = <<h>> \o u
    BY <1>4
  <2>3. Plain(h)
    BY Frames DEF Movers
  <2> HIDE DEF u, h
  <2>4. <<>> \o u = u
    <3>1. IsList(u)
      BY <2>1 DEF Sound, Nested
    <3> QED BY ONLY <3>1, PushedTwo, ZenonT(40)
  <2>5. Sound(<<h>> \o u, permitted, answering, checks', outcome, budget.requests)
    BY <2>1, <2>3, PlainSound
  <2> QED BY <2>1, <2>2, <2>4, <2>5
<1> QED BY <1>3, <1>7, <1>16 DEF Calls, FinishWhenQuiet

\* createRequest, once there is a connection.
LEMMA CreateGoStep == Calls /\ CreateGo => Calls'
<1> SUFFICES ASSUME Calls, CreateGo PROVE Calls'
  OBVIOUS
<1>1. At("create", "go")
  BY DEF CreateGo
<1>2. /\ object = "live" /\ Top.fn = "create" /\ stack # <<>> /\ Top = stack[1]
      /\ OwingAt(Top, checks, outcome, budget.requests) /\ Pending(checks, outcome)
      /\ Sound(Below, permitted, answering, checks, outcome, budget.requests) /\ Open(Below)
  BY <1>1, AtPlace DEF Movers
<1>3. UNCHANGED <<budget, answering>> /\ object' # "deleted"
  BY <1>2 DEF CreateGo
<1>4. CASE FreeIds = {}
  <2>1. stack' = Below /\ UNCHANGED <<checks, permitted, outcome>>
    BY <1>4 DEF CreateGo
  <2> QED BY <1>2, <1>3, <2>1, StackStep
<1>5. CASE FreeIds # {}
  <2> DEFINE id == Min(FreeIds)
             c  == [key |-> Top.key, simple |-> Top.simple, req |-> Top.req, cancelled |-> FALSE]
             n  == Top.req
  <2>1. /\ checks' = [i \in DOMAIN checks \cup {id} |-> IF i = id THEN c ELSE checks[i]]
        /\ outcome' = [outcome EXCEPT ![n] = "pending"]
        /\ OnStatusChange(Shown("RW"), Below)
    BY <1>5 DEF CreateGo
  <2>2. id \in Ids /\ id \notin DOMAIN checks
    <3>1. FreeIds \in SUBSET Nat
      BY AsyncConstants DEF FreeIds
    <3>2. id \in FreeIds
      BY <1>5, <3>1, MinIn
    <3> QED BY <3>2 DEF FreeIds
  <2>3. Fresh(Top)
    BY <1>2 DEF Fresh
  <2>4. n \in 1 .. MaxRequests /\ outcome[n] = "none" /\ n <= budget.requests
    BY <1>2, <2>3 DEF OwingAt
  <2>5. IsCheck(c) /\ c.req = n /\ c.cancelled = FALSE
    BY <2>4 DEF IsCheck
  <2>6. Counted(checks, outcome, budget.requests)
    BY DEF Calls
  <2> HIDE DEF id, c, n
  <2>7. /\ DOMAIN checks' = DOMAIN checks \cup {id} /\ checks'[id] = c
        /\ checks' = [i \in DOMAIN checks' |-> checks'[i]]
        /\ \A i \in DOMAIN checks : checks'[i] = checks[i]
    BY <2>1, <2>2
  <2>8. /\ outcome' = [m \in 1 .. MaxRequests |-> outcome'[m]] /\ outcome'[n] = "pending"
        /\ \A m \in 1 .. MaxRequests : m # n => outcome'[m] = outcome[m]
    <3>1. outcome = [m \in 1 .. MaxRequests |-> outcome[m]]
      BY <2>6 DEF Counted
    <3> QED BY <2>1, <2>4, <3>1
  <2>9. \A i \in DOMAIN checks : IsCheck(checks[i]) /\ checks[i].req # n
                                 /\ outcome'[checks[i].req] = outcome[checks[i].req]
    <3> SUFFICES ASSUME NEW i \in DOMAIN checks
                 PROVE  IsCheck(checks[i]) /\ checks[i].req # n
                        /\ outcome'[checks[i].req] = outcome[checks[i].req]
      OBVIOUS
    <3>1. IsCheck(checks[i]) /\ outcome[checks[i].req] # "none"
      BY <2>6 DEF Counted
    <3>2. checks[i].req # n /\ checks[i].req \in 1 .. MaxRequests
      BY <2>4, <3>1 DEF IsCheck
    <3> QED BY <2>8, <3>1, <3>2
  <2>10. Counted(checks', outcome', budget.requests)
    <3>1. \A m \in 1 .. MaxRequests : outcome'[m] # "TWICE" /\ (m > budget.requests => outcome'[m] = "none")
      <4> SUFFICES ASSUME NEW m \in 1 .. MaxRequests
                   PROVE  outcome'[m] # "TWICE" /\ (m > budget.requests => outcome'[m] = "none")
        OBVIOUS
      <4>1. CASE m # n
        BY <2>6, <2>8, <4>1 DEF Counted
      <4>2. CASE m = n
        <5>1. budget.requests \in Nat
          BY <2>6 DEF Counted
        <5>2. ~(m > budget.requests)
          BY <2>4, <4>2, <5>1, SMTT(30)
        <5> QED BY <2>8, <4>2, <5>2
      <4> QED BY <4>1, <4>2
    <3>2. \A i \in DOMAIN checks' : IsCheck(checks'[i]) /\ outcome'[checks'[i].req] # "none"
      <4> SUFFICES ASSUME NEW i \in DOMAIN checks'
                   PROVE  IsCheck(checks'[i]) /\ outcome'[checks'[i].req] # "none"
        OBVIOUS
      <4>1. CASE i = id
        BY <2>5, <2>7, <2>8, <4>1
      <4>2. CASE i # id
        <5>1. i \in DOMAIN checks /\ checks'[i] = checks[i]
          BY <2>7, <4>2
        <5>2. outcome[checks[i].req] # "none"
          BY <2>6, <5>1 DEF Counted
        <5> QED BY <2>9, <5>1, <5>2
      <4> QED BY <4>1, <4>2
    <3>3. \A i, k \in DOMAIN checks' : checks'[i].req = checks'[k].req => i = k
      <4>1. \A i, k \in DOMAIN checks : checks[i].req = checks[k].req => i = k
        BY <2>6 DEF Counted
      <4> SUFFICES ASSUME NEW i \in DOMAIN checks', NEW k \in DOMAIN checks',
                          checks'[i].req = checks'[k].req
                   PROVE  i = k
        OBVIOUS
      <4>2. CASE i = id
        BY <2>5, <2>7, <2>9, <4>2
      <4>3. CASE i # id
        <5>1. i \in DOMAIN checks /\ checks'[i] = checks[i] /\ checks[i].req # n
          BY <2>7, <2>9, <4>3
        <5>2. k # id
          BY <2>5, <2>7, <5>1
        <5>3. k \in DOMAIN checks /\ checks'[k] = checks[k]
          BY <2>7, <5>2
        <5> QED BY <4>1, <5>1, <5>3
      <4> QED BY <4>2, <4>3
    <3>4. DOMAIN checks' \subseteq Ids /\ budget.requests \in Nat
      BY <2>2, <2>6, <2>7 DEF Counted
    <3> QED BY <2>7, <2>8, <3>1, <3>2, <3>3, <3>4 DEF Counted
  <2>11. Pending(checks', outcome')
    <3> SUFFICES ASSUME NEW i \in KeptOf(checks') PROVE outcome'[checks'[i].req] = "pending"
      BY DEF Pending
    <3>1. CASE i = id
      BY <2>5, <2>7, <2>8, <3>1
    <3>2. CASE i # id
      <4>1. i \in KeptOf(checks)
        BY <2>7, <3>2 DEF KeptOf
      <4> QED BY <1>2, <2>7, <2>9, <4>1 DEF Pending, KeptOf
    <3> QED BY <3>1, <3>2
  <2>12. Owing(Below, checks, outcome, budget.requests)
    BY <1>2 DEF Sound
  <2>13. Sound(Below, permitted, answering, checks', outcome', budget.requests)
    <3>1. ASSUME NEW j \in 1 .. Len(Below), Due(Below[j])
          PROVE  /\ outcome'[Below[j].req] = "pending"
                 /\ \A i \in DOMAIN checks' : checks'[i].req # Below[j].req
      <4>1. /\ Below[j].req \in 1 .. MaxRequests /\ outcome[Below[j].req] = "pending"
            /\ \A i \in DOMAIN checks : checks[i].req # Below[j].req
        BY <2>12, <3>1 DEF Owing, OwingAt
      <4>2. Below[j].req # n
        BY <2>4, <4>1
      <4>3. outcome'[Below[j].req] = "pending"
        BY <2>8, <4>1, <4>2
      <4>4. \A i \in DOMAIN checks' : checks'[i].req # Below[j].req
        BY <2>5, <2>7, <4>1, <4>2
      <4> QED BY <4>3, <4>4
    <3>2. ASSUME NEW j \in 1 .. Len(Below), Fresh(Below[j])
          PROVE  outcome'[Below[j].req] = "none" /\ Below[j].req <= budget.requests
      <4>1. Below[j].req # n
        BY <1>2, <2>3, <3>2, BelowTop DEF OwingApart, n
      <4>2. /\ Below[j].req \in 1 .. MaxRequests /\ outcome[Below[j].req] = "none"
            /\ Below[j].req <= budget.requests
        BY <2>12, <3>2 DEF Owing, OwingAt
      <4> QED BY <2>8, <4>1, <4>2
    <3> QED BY <1>2, <3>1, <3>2, ChangeSound, OpenSilent
  <2>14. Sound(stack', permitted', answering, checks', outcome', budget.requests)
    BY <1>2, <2>1, <2>13, StatusSound
  <2> QED BY <1>3, <2>10, <2>11, <2>14 DEF Calls, FinishWhenQuiet
<1> QED BY <1>4, <1>5
\* Below a function that permits calls again no other one bars them.
LEMMA FreedBelow == ASSUME Calls, stack # <<>>, Frees(stack[1]) PROVE Open(Below)
<1>1. IsList(stack) /\ Nested(stack, permitted, answering)
  BY DEF Calls, Sound, Nested
<1>2. /\ Len(stack) >= 1 /\ Len(stack) \in Nat /\ Len(Below) = Len(stack) - 1
      /\ \A i \in 1 .. Len(stack) - 1 : Below[i] = stack[i + 1]
  BY <1>1, Popped DEF Below, IsList
<1>3. /\ \A i \in 1 .. Len(Below) : i \in 1 .. Len(stack) - 1 /\ i + 1 \in 1 + 1 .. Len(stack)
      /\ 1 \in 1 .. Len(stack)
  BY <1>2, SMTT(30)
<1>4. \A j \in 1 + 1 .. Len(stack) : ~Blocks(stack[j])
  BY <1>1, <1>3 DEF Nested, NestedAt
<1> QED BY <1>2, <1>3, <1>4 DEF Open

\* A callback runs on a stack that is not quiet.
LEMMA LoudBelow ==
  ASSUME NEW t, IsList(t), NEW f, NEW g, Telling(g) \/ Ending(g)
  PROVE  ~Quiet(<<f>> \o (<<g>> \o t))
<1> DEFINE u == <<g>> \o t
<1>1. IsList(u) /\ Len(u) = Len(t) + 1 /\ u[1] = g
  BY Pushed
<1>2. 1 \in 1 .. Len(u) /\ 1 + 1 \in 1 .. Len(u) + 1
  BY <1>1, SMTT(30) DEF IsList
<1> HIDE DEF u
<1>3. Len(<<f>> \o u) = Len(u) + 1 /\ (<<f>> \o u)[1 + 1] = u[1]
  <2>1. Len(<<f>> \o u) = Len(u) + 1 /\ \A i \in 1 .. Len(u) : (<<f>> \o u)[i + 1] = u[i]
    BY <1>1, Pushed, SMTT(30)
  <2> QED BY <1>2, <2>1
<1> QED BY <1>1, <1>2, <1>3 DEF Quiet, u

\* One request after the other is told; then m_checks is emptied, or the
\* destructor goes on.
LEMMA TellNextStep == Calls /\ TellNext => Calls'
<1> SUFFICES ASSUME Calls, TellNext PROVE Calls'
  OBVIOUS
<1>1. object = "live" /\ Top.fn = "telling"
  BY DEF TellNext, At
<1>2. /\ stack # <<>> /\ Top = stack[1] /\ IsList(stack) /\ IsFrame(Top) /\ 1 \in 1 .. Len(stack)
      /\ OwingAt(Top, checks, outcome, budget.requests)
      /\ Sound(Below, permitted, answering, checks, outcome, budget.requests)
  BY <1>1, AtTop
<1>3. /\ {"left", "cause"} \subseteq DOMAIN Top /\ Top.left \subseteq KeptOf(checks)
      /\ \A id \in Top.left : outcome[checks[id].req] = "pending"
      /\ Top.at = "next" /\ Top.cause \in {"FINISH", "SERVICE_NOT_AVAILABLE"}
  BY <1>1, <1>2 DEF OwingAt, Telling
<1>4. Silent(Below) /\ Below # <<>>
  <2>1. Telling(stack[1]) /\ stack[1].fn \notin Bottoms
    BY <1>1, <1>2 DEF Telling, Bottoms, ApiFunctions
  <2> QED BY <1>2, <2>1, BelowTop DEF Silent, OwingApart
<1>5. ~permitted
  <2>1. Blocks(stack[1])
    BY <1>1, <1>2 DEF Blocks
  <2> QED BY <1>2, <2>1 DEF Calls, Sound, Nested, NestedAt
<1>6. Top.cause # "FINISH" => Open(Below)
  BY <1>1, <1>2, FreedBelow DEF Frees
<1>7. /\ IsList(Below) /\ 1 \in 1 .. Len(Below)
      /\ Top.cause = "FINISH" => Ending(Below[1])
  <2>1. /\ IsList(Below) /\ Len(stack) >= 1 /\ Len(Below) = Len(stack) - 1 /\ Len(stack) \in Nat
        /\ \A i \in 1 .. Len(stack) - 1 : Below[i] = stack[i + 1]
    BY <1>2, Popped DEF Below, IsList
  <2>2. 1 \in 1 .. Len(Below)
    BY <1>4, <2>1, SMTT(30) DEF IsList
  <2>3. Below[1] = stack[1 + 1]
    BY <2>1, <2>2
  <2>4. Top.cause = "FINISH" => Ending(stack[1 + 1])
    BY <1>1, <1>2 DEF Calls, Sound, Owing, Telling
  <2> QED BY <2>1, <2>2, <2>3, <2>4
<1>8. UNCHANGED <<budget, answering, object>> /\ Counted(checks, outcome, budget.requests)
  BY DEF TellNext, Calls
<1>9. CASE Top.left = {}
  <2>1. stack' = Below /\ UNCHANGED outcome
    BY <1>9 DEF TellNext
  <2>2. CASE Top.cause = "FINISH"
    <3>1. UNCHANGED <<permitted, checks>>
      BY <1>9, <2>2 DEF TellNext
    <3>2. ~Quiet(stack')
      BY <1>7, <2>1, <2>2 DEF Quiet
    <3> QED BY <1>1, <1>2, <1>8, <2>1, <3>1, <3>2, LoudStep
  <2>3. CASE Top.cause # "FINISH"
    <3>1. permitted' = TRUE /\ checks' = [id \in {} |-> 0]
      BY <1>9, <2>3 DEF TellNext
    <3>2. DOMAIN checks' = {} /\ checks' = [id \in DOMAIN checks' |-> checks'[id]]
      BY <3>1
    <3>3. Counted(checks', outcome, budget.requests) /\ Pending(checks', outcome)
      BY <1>8, <3>2 DEF Counted, Pending, KeptOf
    <3>4. Sound(Below, permitted', answering, checks, outcome, budget.requests)
      BY <1>2, <1>6, <2>3, AnyFlag
    <3>5. Owing(Below, checks, outcome, budget.requests)
      BY <1>2 DEF Sound
    <3>6. \A j \in 1 .. Len(Below) : Due(Below[j]) =>
            outcome[Below[j].req] = "pending" /\ \A id \in DOMAIN checks' : checks'[id].req # Below[j].req
      BY <3>2, <3>5 DEF Owing, OwingAt
    <3>7. \A j \in 1 .. Len(Below) : Fresh(Below[j]) =>
            outcome[Below[j].req] = "none" /\ Below[j].req <= budget.requests
      BY <3>5 DEF Owing, OwingAt
    <3>8. Sound(Below, permitted', answering, checks', outcome, budget.requests)
      BY <1>4, <3>4, <3>6, <3>7, ChangeSound
    <3> QED BY <1>1, <1>8, <2>1, <3>3, <3>8 DEF Calls, FinishWhenQuiet
  <2> QED BY <2>2, <2>3
<1>10. CASE Top.left # {}
  <2> DEFINE id == Min(Top.left)
             n == checks[id].req
             g == [Top EXCEPT !.left = @ \ {Min(@)}]
  <2>1. /\ Told(n, Top.cause) /\ stack' = <<Callback, g>> \o Below
        /\ UNCHANGED <<permitted, checks>>
    BY <1>10 DEF TellNext
  <2>2. id \in Top.left /\ id \in DOMAIN checks
    <3>1. Top.left \in SUBSET Nat
      BY <1>3, <1>8, AsyncConstants DEF KeptOf, Counted
    <3>2. id \in Top.left
      BY <1>10, <3>1, MinIn
    <3> QED BY <1>3, <3>2 DEF KeptOf
  <2>3. outcome[n] = "pending" /\ n \in 1 .. MaxRequests
    BY <1>3, <1>8, <2>2 DEF Counted, IsCheck
  <2>4. /\ g.fn = "telling" /\ g.at = "next" /\ g.cause = Top.cause /\ g.left = Top.left \ {id}
        /\ DOMAIN g = DOMAIN Top /\ IsFrame(g)
    BY <1>1, <1>2, <1>3 DEF IsFrame
  <2>5. \A i \in DOMAIN checks : i # id => checks[i].req # n /\ checks[i].req \in 1 .. MaxRequests
    BY <1>8, <2>2 DEF Counted, IsCheck
  <2> HIDE DEF id, n, g
  <2>6. Top.cause \in Causes
    BY <1>3 DEF Causes
  <2>7. /\ Counted(checks, outcome', budget.requests)
        /\ \A m \in 1 .. MaxRequests : m # n => outcome'[m] = outcome[m]
    BY <1>8, <2>1, <2>3, <2>6, ToldOnce
  <2>8. Owing(Below, checks, outcome, budget.requests)
    BY <1>2 DEF Sound
  <2>9. ASSUME NEW j \in 1 .. Len(Below), Due(Below[j])
        PROVE  /\ outcome'[Below[j].req] = "pending"
               /\ \A i \in DOMAIN checks : checks[i].req # Below[j].req
    <3>1. /\ Below[j].req \in 1 .. MaxRequests /\ outcome[Below[j].req] = "pending"
          /\ \A i \in DOMAIN checks : checks[i].req # Below[j].req
      BY <2>8, <2>9 DEF Owing, OwingAt
    <3>2. Below[j].req # n
      BY <2>2, <3>1 DEF n
    <3> QED BY <2>7, <3>1, <3>2
  <2>10. ASSUME NEW j \in 1 .. Len(Below), Fresh(Below[j])
         PROVE  outcome'[Below[j].req] = "none" /\ Below[j].req <= budget.requests
    <3>1. /\ Below[j].req \in 1 .. MaxRequests /\ outcome[Below[j].req] = "none"
          /\ Below[j].req <= budget.requests
      BY <2>8, <2>10 DEF Owing, OwingAt
    <3>2. Below[j].req # n
      BY <2>3, <3>1
    <3> QED BY <2>7, <3>1, <3>2
  <2>11. Sound(Below, permitted, answering, checks, outcome', budget.requests)
    BY <1>2, <1>4, <2>9, <2>10, ChangeSound
  <2>12. OwingAt(g, checks, outcome', budget.requests)
    <3>1. g.left \subseteq KeptOf(checks) /\ \A i \in g.left : outcome'[checks[i].req] = "pending"
      <4>1. \A i \in g.left : i \in KeptOf(checks) /\ i \in DOMAIN checks /\ i # id
                              /\ outcome[checks[i].req] = "pending"
        BY <1>3, <2>4 DEF KeptOf
      <4> QED BY <2>5, <2>7, <4>1
    <3>2. ~Due(g) /\ ~Fresh(g)
      BY <2>4 DEF Due, Fresh
    <3> QED BY <1>3, <2>4, <3>1, <3>2 DEF OwingAt
  <2>13. /\ Blocks(g) /\ ~Restores(g) /\ g.fn # "callback" /\ g.fn # "finish" /\ Telling(g)
         /\ Frees(g) => Open(Below)
         /\ \A j \in 1 .. Len(Below) : OwingApart(g, Below[j])
    BY <1>4, <1>6, <2>4 DEF Blocks, Restores, Frees, Telling, OwingApart, Silent, Due, Fresh
  <2>14. Nested(<<g>> \o Below, permitted, answering)
    <3>1. Nested(Below, permitted, answering)
      BY <1>2 DEF Sound
    <3> QED BY <1>4, <1>5, <2>4, <2>13, <3>1, GrowNested
  <2>15. Owing(<<g>> \o Below, checks, outcome', budget.requests)
    <3>1. Owing(Below, checks, outcome', budget.requests)
      BY <2>11 DEF Sound
    <3> QED BY <1>4, <1>7, <2>4, <2>12, <2>13, <3>1, GrowOwing
  <2>16. <<g>> \o Below # <<>> /\ (<<g>> \o Below)[1] = g
    BY <1>7, PushedFirst
  <2>17. Sound(<<Callback>> \o (<<g>> \o Below), permitted, answering, checks, outcome', budget.requests)
    <3> DEFINE u == <<g>> \o Below
    <3>1. /\ u # <<>> /\ Blocks(u[1])
          /\ Sound(u, permitted, answering, checks, outcome', budget.requests)
      BY <2>13, <2>14, <2>15, <2>16 DEF Sound
    <3> HIDE DEF u
    <3>2. Sound(<<Callback>> \o u, permitted, answering, checks, outcome', budget.requests)
      BY <3>1, CalledSound
    <3> QED BY <3>2 DEF u
  <2>18. ~Quiet(<<Callback>> \o (<<g>> \o Below))
    BY <1>7, <2>13, LoudBelow
  <2>19. <<Callback, g>> \o Below = <<Callback>> \o (<<g>> \o Below)
    BY ONLY <1>7, PushedPair, ZenonT(40)
  <2> QED BY <1>1, <1>8, <2>1, <2>7, <2>17, <2>18, <2>19 DEF Calls, FinishWhenQuiet
<1> QED BY <1>9, <1>10
-----------------------------------------------------------------------------
\* The program calls the library: nothing on the stack bars it.
LEMMA BeginOpen ==
  ASSUME Calls, NEW f, Begin(f)
  PROVE  /\ object = "live" /\ permitted /\ Open(stack) /\ Pending(checks, outcome) /\ InApp
         /\ Sound(stack, permitted, answering, checks, outcome, budget.requests)
         /\ stack' = <<f>> \o stack
         /\ UNCHANGED <<permitted, answering, checks, outcome, object>>
<1>1. /\ object = "live" /\ permitted /\ stack' = <<f>> \o stack /\ InApp
      /\ UNCHANGED <<permitted, answering, checks, outcome, object>>
  BY DEF Begin, InApp
<1>2. Open(stack)
  <2>1. Nested(stack, permitted, answering)
    BY DEF Calls, Sound
  <2> QED BY <1>1, <2>1, OpenTop
<1>3. Quiet(stack)
  BY <1>2, OpenSilent
<1> QED BY <1>1, <1>2, <1>3 DEF Calls

\* The calls are counted.
LEMMA CountedCall ==
  ASSUME Calls, NEW x, budget' = budget \/ budget' = [budget EXCEPT !.others = x]
                       \/ budget' = [budget EXCEPT !.stops = x]
  PROVE  /\ budget'.requests = budget.requests
         /\ budget' = [requests |-> budget'.requests, others |-> budget'.others, stops |-> budget'.stops]
<1>1. budget = [requests |-> budget.requests, others |-> budget.others, stops |-> budget.stops]
  BY DEF Calls
<1> QED BY <1>1

\* cancelRequest, checkCache and process are called.
LEMMA PlainCallStep ==
  ASSUME Calls, (\E key \in Keys : CheckCache(key)) \/ (\E id \in Ids : CancelRequest(id))
                \/ ProcessReady \/ ProcessInCallback
  PROVE  Calls'
<1>1. PICK f : Begin(f) /\ Plain(f) /\ f.fn \in ApiFunctions
  <2>1. ASSUME NEW key, CheckCache(key) PROVE \E f : Begin(f) /\ Plain(f) /\ f.fn \in ApiFunctions
    <3> DEFINE f == [fn |-> "cache", at |-> "get", key |-> key]
    <3>1. Begin(f)
      BY <2>1 DEF CheckCache
    <3>2. Plain(f) /\ f.fn \in ApiFunctions
      BY DEF Plain, IsFrame, ApiFunctions
    <3> HIDE DEF f
    <3> QED BY <3>1, <3>2
  <2>2. ASSUME NEW id, CancelRequest(id) PROVE \E f : Begin(f) /\ Plain(f) /\ f.fn \in ApiFunctions
    <3> DEFINE f == [fn |-> "cancel", at |-> "ensure", id |-> id, saved |-> answering]
    <3>1. Begin(f)
      BY <2>2 DEF CancelRequest
    <3>2. Plain(f) /\ f.fn \in ApiFunctions
      BY DEF Plain, IsFrame, ApiFunctions
    <3> HIDE DEF f
    <3> QED BY <3>1, <3>2
  <2>3. ASSUME ProcessReady \/ ProcessInCallback
        PROVE  \E f : Begin(f) /\ Plain(f) /\ f.fn \in ApiFunctions
    <3> DEFINE f == Frame("process", "complete")
    <3>1. Begin(f)
      BY <2>3 DEF ProcessReady, ProcessInCallback
    <3>2. Plain(f) /\ f.fn \in ApiFunctions
      BY Frames DEF Movers, Frame, ApiFunctions
    <3> HIDE DEF f
    <3> QED BY <3>1, <3>2
  <2> QED BY <2>1, <2>2, <2>3
<1>2. /\ budget'.requests = budget.requests
      /\ budget' = [requests |-> budget'.requests, others |-> budget'.others, stops |-> budget'.stops]
  BY CountedCall DEF CheckCache, CancelRequest, ProcessReady, ProcessInCallback
<1>3. /\ object = "live" /\ Open(stack) /\ Pending(checks, outcome) /\ stack' = <<f>> \o stack
      /\ Sound(stack, permitted, answering, checks, outcome, budget.requests)
      /\ UNCHANGED <<permitted, answering, checks, outcome, object>>
  BY <1>1, BeginOpen
<1>4. Sound(<<f>> \o stack, permitted, answering, checks, outcome, budget.requests)
  BY <1>1, <1>3, PlainSound
<1> QED BY <1>2, <1>3, <1>4 DEF Calls, FinishWhenQuiet

\* createRequest is called: the request has the next number.
LEMMA CreateRequestStep ==
  ASSUME Calls, NEW key, NEW simple, CreateRequest(key, simple) PROVE Calls'
<1> DEFINE r == budget.requests
           n == r + 1
           f == [fn |-> "create", at |-> "ensure", key |-> key, simple |-> simple, req |-> n]
<1>1. Begin(f) /\ r < MaxRequests /\ budget' = [budget EXCEPT !.requests = n]
  BY DEF CreateRequest
<1>2. /\ object = "live" /\ Open(stack) /\ Pending(checks, outcome) /\ stack' = <<f>> \o stack
      /\ Sound(stack, permitted, answering, checks, outcome, r)
      /\ UNCHANGED <<permitted, answering, checks, outcome, object>>
  BY <1>1, BeginOpen
<1>3. Counted(checks, outcome, r) /\ r \in Nat
  BY DEF Calls, Counted
<1>4. /\ budget'.requests = n
      /\ budget' = [requests |-> budget'.requests, others |-> budget'.others, stops |-> budget'.stops]
  <2>1. budget = [requests |-> budget.requests, others |-> budget.others, stops |-> budget.stops]
    BY DEF Calls
  <2> QED BY <1>1, <2>1
<1>5. /\ n \in Nat /\ n \in 1 .. MaxRequests /\ n > r /\ n <= n
      /\ \A m \in 1 .. MaxRequests : (m > n => m > r) /\ (m <= r => m <= n /\ m # n)
  <2> HIDE DEF f
  <2> QED BY <1>1, <1>3, AsyncConstants, SMTT(30)
<1>6. /\ f.fn = "create" /\ f.at = "ensure" /\ f.req = n /\ IsFrame(f)
  BY DEF IsFrame
<1> HIDE DEF r, n, f
<1>7. outcome[n] = "none" /\ Counted(checks, outcome, n)
  BY <1>3, <1>5 DEF Counted
<1>8. /\ ~Blocks(f) /\ ~Restores(f) /\ ~Frees(f) /\ ~Telling(f) /\ ~Due(f)
      /\ f.fn # "callback" /\ f.fn # "finish" /\ f.fn \in Bottoms
  BY <1>6 DEF Blocks, Restores, Frees, Telling, Due, Bottoms, ApiFunctions
<1>9. Nested(stack, permitted, answering) /\ Owing(stack, checks, outcome, r) /\ IsList(stack)
  BY <1>2 DEF Sound, Nested
<1>10. ASSUME NEW j \in 1 .. Len(stack), Fresh(stack[j])
       PROVE  outcome[stack[j].req] = "none" /\ stack[j].req <= n /\ stack[j].req # n
  <2>1. stack[j].req \in 1 .. MaxRequests /\ outcome[stack[j].req] = "none" /\ stack[j].req <= r
    BY <1>9, <1>10 DEF Owing, OwingAt
  <2> QED BY <1>5, <2>1
<1>11. Owing(stack, checks, outcome, n)
  <2>1. \A j \in 1 .. Len(stack) : Due(stack[j]) =>
          outcome[stack[j].req] = "pending" /\ \A id \in DOMAIN checks : checks[id].req # stack[j].req
    BY <1>9 DEF Owing, OwingAt
  <2>2. Sound(stack, permitted, answering, checks, outcome, n)
    BY <1>2, <1>10, <2>1, ChangeSound, OpenSilent
  <2> QED BY <2>2 DEF Sound
<1>12. OwingAt(f, checks, outcome, n) /\ \A j \in 1 .. Len(stack) : OwingApart(f, stack[j])
  BY <1>5, <1>6, <1>7, <1>8, <1>10 DEF OwingAt, OwingApart
<1>13. Nested(<<f>> \o stack, permitted, answering)
  BY <1>2, <1>6, <1>8, <1>9, GrowNested
<1>14. Owing(<<f>> \o stack, checks, outcome, n)
  BY <1>8, <1>9, <1>11, <1>12, GrowOwing
<1> QED BY <1>2, <1>4, <1>7, <1>13, <1>14 DEF Calls, Sound, FinishWhenQuiet

\* finish is called, and no function of the library runs.
LEMMA FinishStep == Calls /\ Finish => Calls'
<1> SUFFICES ASSUME Calls, Finish PROVE Calls'
  OBVIOUS
<1> DEFINE f == Frame("finish", "flush")
<1>1. Begin(f) /\ permitted /\ ~answering
  BY DEF Finish, IsFinishPermitted
<1>2. /\ object = "live" /\ Open(stack) /\ Pending(checks, outcome) /\ stack' = <<f>> \o stack /\ InApp
      /\ Sound(stack, permitted, answering, checks, outcome, budget.requests)
      /\ UNCHANGED <<permitted, answering, checks, outcome, object>>
  BY <1>1, BeginOpen
<1>3. /\ budget'.requests = budget.requests
      /\ budget' = [requests |-> budget'.requests, others |-> budget'.others, stops |-> budget'.stops]
  BY CountedCall DEF Finish
<1>4. f.fn = "finish" /\ f.at = "flush" /\ IsFrame(f)
  BY Frames
<1> HIDE DEF f
<1>5. Nested(stack, permitted, answering) /\ Owing(stack, checks, outcome, budget.requests) /\ IsList(stack)
  BY <1>2 DEF Sound, Nested
<1>6. stack = <<>>
  <2> SUFFICES ASSUME stack # <<>> PROVE FALSE
    OBVIOUS
  <2>1. Len(stack) \in Nat /\ Len(stack) >= 1 /\ Top = stack[1]
    BY <1>5, Popped DEF Top, IsList
  <2>2. 1 \in 1 .. Len(stack)
    BY <2>1, SMTT(30)
  <2>3. stack[1].fn = "callback"
    <3>1. Top.fn \in {"none", "callback"}
      BY <1>2 DEF InApp
    <3>2. stack[1].fn # "none"
      BY <1>5, <2>2 DEF Nested, NestedAt, IsFrame
    <3> QED BY <2>1, <3>1, <3>2
  <2>4. Blocks(stack[1 + 1]) \/ Restores(stack[1 + 1])
    BY <1>5, <2>2, <2>3 DEF Nested, NestedAt
  <2>5. Len(stack) # 1
    <3>1. Len(stack) > 0
      BY <2>1, SMTT(30)
    <3>2. stack[Len(stack)].fn \in Bottoms
      BY <1>5, <3>1 DEF Nested
    <3> QED BY <2>3, <3>2 DEF Bottoms, ApiFunctions
  <2>6. 1 + 1 \in 1 .. Len(stack)
    BY <2>1, <2>5, SMTT(30)
  <2> QED BY <1>1, <1>5, <2>4, <2>6 DEF Nested, NestedAt
<1>7. /\ ~Blocks(f) /\ ~Restores(f) /\ ~Frees(f) /\ ~Telling(f) /\ ~Due(f) /\ ~Fresh(f)
      /\ f.fn # "callback" /\ f.fn \in Bottoms
  BY <1>4 DEF Blocks, Restores, Frees, Telling, Due, Fresh, Bottoms, ApiFunctions
<1>8. OwingAt(f, checks, outcome, budget.requests) /\ \A j \in 1 .. Len(stack) : OwingApart(f, stack[j])
  BY <1>7 DEF OwingAt, OwingApart
<1>9. Nested(<<f>> \o stack, permitted, answering)
  <2> QED BY <1>2, <1>4, <1>5, <1>6, <1>7, GrowNested
<1>10. Owing(<<f>> \o stack, checks, outcome, budget.requests)
  BY <1>5, <1>7, <1>8, GrowOwing
<1> QED BY <1>2, <1>3, <1>9, <1>10 DEF Calls, Sound, FinishWhenQuiet

\* The kernel and the daemon touch nothing of the object; nor does stuttering.
LEMMA OutsideStep ==
  ASSUME Calls, Environment \/ DaemonGone(TRUE) \/ DaemonGone(FALSE) \/ DaemonStarts
                \/ UNCHANGED asyncVars
  PROVE  Calls'
<1>1. UNCHANGED <<permitted, answering, checks, stack, object, outcome>>
  BY DEF Environment, ConnectionDone, ServeRequest, AnswerHeld, DaemonGone, DaemonStarts,
         libraryVars, asyncVars, asyncOwn
<1>2. /\ budget'.requests = budget.requests
      /\ budget' = [requests |-> budget'.requests, others |-> budget'.others, stops |-> budget'.stops]
  BY CountedCall DEF Environment, ConnectionDone, ServeRequest, AnswerHeld, DaemonGone, DaemonStarts,
         asyncVars, asyncOwn
<1> QED BY <1>1, <1>2 DEF Calls, FinishWhenQuiet

\* At the start nothing runs and no request was made.
LEMMA CallsInit == AsyncInit => Calls
<1> SUFFICES ASSUME AsyncInit PROVE Calls
  OBVIOUS
<1>1. /\ stack = <<>> /\ object = "live" /\ checks = [id \in {} |-> 0]
      /\ outcome = [n \in 1 .. MaxRequests |-> "none"]
      /\ budget = [requests |-> 0, others |-> 0, stops |-> 0]
  BY DEF AsyncInit
<1>2. IsList(<<>>) /\ Len(<<>>) = 0 /\ 1 .. Len(<<>>) = {} /\ ~(Len(<<>>) > 0)
  BY SMTT(30) DEF IsList
<1>3. Sound(stack, permitted, answering, checks, outcome, budget.requests)
  <2>1. Nested(<<>>, permitted, answering) /\ Owing(<<>>, checks, outcome, budget.requests)
    <3> QED BY <1>2 DEF Nested, Owing
  <2> QED BY <1>1, <2>1 DEF Sound
<1>4. DOMAIN checks = {} /\ checks = [id \in DOMAIN checks |-> checks[id]]
  BY <1>1
<1>5. /\ outcome = [n \in 1 .. MaxRequests |-> outcome[n]]
      /\ \A n \in 1 .. MaxRequests : outcome[n] = "none"
  BY <1>1
<1>6. budget.requests = 0 /\ 0 \in Nat
      /\ budget = [requests |-> budget.requests, others |-> budget.others, stops |-> budget.stops]
  BY <1>1
<1>7. Counted(checks, outcome, budget.requests)
  BY <1>4, <1>5, <1>6 DEF Counted
<1>8. Pending(checks, outcome)
  BY <1>4 DEF Pending, KeptOf
<1> QED BY <1>1, <1>3, <1>6, <1>7, <1>8 DEF Calls, FinishWhenQuiet

\* Every step keeps the invariant.
LEMMA CallsStep == Calls /\ [AsyncNext]_asyncVars => Calls'
<1> SUFFICES ASSUME Calls, [AsyncNext]_asyncVars PROVE Calls'
  OBVIOUS
<1>1. ASSUME AsyncStep PROVE Calls'
  BY <1>1, ReturnStep, EnsuredStep, OnDisconnectedStep, ConnectAsyncStep, ConnectRefusedStep,
     OnServiceNotAvailableStep, TellNextStep, CreateGoStep, CancelGoStep, AnswerRestoreStep,
     CompleteConnectionStep, ProcessOutStep, ProcessInStep, ResponsesEndStep,
     ProcessCancelResponseStep, ProcessCheckResponseStep, TellAnswerStep, CacheStep,
     TryFlushMonitorStep, FinishStatusStep DEF AsyncStep
<1>2. ASSUME NEW key \in Keys, CreateRequest(key, TRUE) \/ CreateRequest(key, FALSE) PROVE Calls'
  BY <1>2, CreateRequestStep
<1> QED BY <1>1, <1>2, PlainCallStep, FinishStep, OutsideStep DEF AsyncNext

-----------------------------------------------------------------------------
\* The response callback of a request is never run twice, whatever the program
\* calls from its callbacks and to whatever depth, and however the daemon
\* answers, hangs up and restarts.
THEOREM AsyncOneCallbackEach == AsyncSpec => []OneCallbackEach
<1>1. Calls => OneCallbackEach
  BY DEF Calls, Counted, OneCallbackEach
<1> QED BY <1>1, CallsInit, CallsStep, PTL DEF AsyncSpec

\* The object is deleted only when no other function of the library runs.
THEOREM AsyncFinishWhenQuiet == AsyncSpec => []FinishWhenQuiet
<1>1. Calls => FinishWhenQuiet
  BY DEF Calls
<1> QED BY <1>1, CallsInit, CallsStep, PTL DEF AsyncSpec
=============================================================================
