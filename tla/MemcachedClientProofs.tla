----------------------- MODULE MemcachedClientProofs -----------------------
(***************************************************************************)
(* The safety properties of MemcachedClient, for every number of servers,  *)
(* calls, values of a Stat and request ids.                                *)
(*                                                                         *)
(* None of them is inductive.  IInv follows each request from its call to  *)
(* its answer: in the queue of handlers, in the buffers of its connection, *)
(* at the server, back in a response, in a posted lambda.  Its parts are   *)
(* TypeInv; TableInv, the entries of mRequests; SendInv, requests leave in *)
(* the order of the calls and the server has answered none of them yet;    *)
(* MsgInv, responses belong to the connection and have the status said;    *)
(* OpInv, one read and one write at a time; WayInv, nothing gets lost;     *)
(* OneInv and AlignInv, what a response can do while ids do not collide    *)
(* (Calm); FreshInv, the iterators in posted lambdas are valid (Fresh).    *)
(*                                                                         *)
(* Most handlers change one connection and the two ends of the queue: the  *)
(* lemmas named ...Moves are about any such step.  The ones named Lost...  *)
(* are about the loss of a server, Issued... about a call, Served... about *)
(* the server.                                                             *)
(***************************************************************************)
EXTENDS MemcachedClient, SequenceTheorems, WellFoundedInduction, TLAPS

Reqs == 1..Len(calls)
Conns == 1..Len(conn)

-----------------------------------------------------------------------------
(* Types.                                                                  *)

CallRec == [kind : AllKinds, c : Nat, more : BOOLEAN]
Msg == [of : Nat, shape : {"empty", "value", "extras"}, raw : Nat]
JobRec == [kind : {"finish", "send", "write", "connect", "header", "body"},
           c : Nat, ok : BOOLEAN, msg : Msg, it : Nat]
ConnRec == [host : Hosts, rop : {"none", "connect", "header", "body"},
            open : BOOLEAN, wop : BOOLEAN, msg : Msg,
            mPendingBuffers : Seq(Nat), mWriteBuffers : Seq(Nat),
            mPendingRequests : Seq(Nat), wire : Seq(Nat), resp : Seq(Msg),
            fit : Fits, swallowed : SUBSET Nat, deaf : BOOLEAN]
Codes == {ERequest_SUCCESS, ERequest_KEY_ENOENT, ERequest_EINVAL}

\* A handler is that of a connection ever created, the lambda of
\* FinishRequest that of none; neither it nor that of Send can fail.
Shaped(j) == /\ j.kind = "finish" => j.c = 0 /\ j.ok
             /\ j.kind = "send" => j.ok
             /\ j.kind # "finish" => j.c \in Conns

TypeInv ==
    /\ calls \in Seq(CallRec) /\ Len(calls) <= MaxCalls
    /\ mRequests \subseteq Reqs /\ refused \subseteq Reqs
    /\ conn \in Seq(ConnRec) /\ mServers \subseteq Conns
    /\ ready \in Seq(JobRec)
    /\ answers \in [1..MaxCalls -> Seq([of : Nat, st : Nat])]
    /\ said \in [1..MaxCalls -> Codes \cup {Unsaid, Silent}]
    /\ \A r \in 1..MaxCalls : r \notin Reqs => said[r] = Unsaid
    /\ \A r \in Reqs : /\ calls[r].c \in Conns
                       /\ calls[r].more => calls[r].kind = "Stat"
    /\ \A k \in 1..Len(ready) : Shaped(ready[k])

-----------------------------------------------------------------------------
(* The table: one entry per id; a call is in it, was refused or answered.  *)

TableInv ==
    /\ \A r \in mRequests, q \in mRequests : Id(r) = Id(q) => r = q
    /\ \A r \in Reqs : r \in mRequests \/ r \in refused \/ Answered(r)
    /\ \A r \in Reqs : Find(Id(r)) # {} \/ \E q \in 1..MaxCalls : Answered(q)
    /\ \A c \in Conns : \A k \in 1..Len(conn[c].mPendingRequests) :
          LET r == conn[c].mPendingRequests[k]
          IN  r \in Reqs /\ calls[r].c = c
    /\ \A r \in Reqs : \E k \in 1..Len(conn[calls[r].c].mPendingRequests) :
          conn[calls[r].c].mPendingRequests[k] = r

-----------------------------------------------------------------------------
(* Requests on their way out, in the order of the calls.                   *)

Out(c) == IF conn[c].wop THEN conn[c].mWriteBuffers ELSE <<>>
Incr(s) == \A i \in 1..Len(s), j \in 1..Len(s) : i < j => s[i] < s[j]
Before(s, t) == \A i \in 1..Len(s), j \in 1..Len(t) : s[i] < t[j]
Waits(r, c) == r \in Reqs /\ calls[r].c = c /\ said[r] = Unsaid
Unserved(s, c) == \A i \in 1..Len(s) : Waits(s[i], c)

Line(w, o, p, c) ==
    /\ Incr(w) /\ Incr(o) /\ Incr(p)
    /\ Before(w, o) /\ Before(w, p) /\ Before(o, p)
    /\ Unserved(w, c) /\ Unserved(o, c) /\ Unserved(p, c)

\* r comes after all of s.
Under(s, r) == \A i \in 1..Len(s) : s[i] < r

SendInv ==
    /\ \A c \in Conns :
          Line(conn[c].wire, Out(c), conn[c].mPendingBuffers, c)
    /\ \A k \in 1..Len(ready) : ready[k].kind = "send" =>
          LET c == ready[k].c
              r == ready[k].it
          IN  /\ Waits(r, c)
              /\ Under(conn[c].wire, r) /\ Under(Out(c), r)
              /\ Under(conn[c].mPendingBuffers, r)
    /\ \A k \in 1..Len(ready), l \in 1..Len(ready) :
          ready[k].kind = "send" /\ ready[l].kind = "send" /\ k < l
             => ready[k].it < ready[l].it

-----------------------------------------------------------------------------
(* Responses.                                                              *)

Reading(j) == j.ok /\ j.kind \in {"header", "body"}

MsgOK(m, c) ==
    /\ m.of \in Reqs /\ calls[m.of].c = c
    /\ said[m.of] \in Codes /\ m.raw = Swap16(said[m.of])
    /\ calls[m.of].kind \notin {"Get", "Stat"} => m.shape \in {"empty", "value"}

Own(it, of, st) ==
    /\ of \in Reqs
    /\ \/ of = it
       \/ /\ Id(of) = Id(it)
          /\ of \in refused \/ Answered(of) \/ st = ERequest_NETWORK_ERROR
    /\ st # ERequest_NETWORK_ERROR => said[of] \in Codes /\ st = Swap16(said[of])

MsgInv ==
    /\ \A c \in Conns :
          /\ conn[c].rop = "body" => MsgOK(conn[c].msg, c)
          /\ \A k \in 1..Len(conn[c].resp) : MsgOK(conn[c].resp[k], c)
    /\ \A k \in 1..Len(ready) :
          LET j == ready[k]
          IN  /\ Reading(j) => MsgOK(j.msg, j.c)
              /\ j.kind = "finish" => j.it \in Reqs /\ Own(j.it, j.msg.of, j.msg.raw)
    /\ \A r \in 1..MaxCalls : \A k \in 1..Len(answers[r]) :
          Own(r, answers[r][k].of, answers[r][k].st)

-----------------------------------------------------------------------------
(* One read and one write at a time.                                       *)

ReadJob(j) == j.kind \in {"connect", "header", "body"}

OpInv ==
    /\ \A k \in 1..Len(ready) :
          /\ ReadJob(ready[k]) => conn[ready[k].c].rop = "none"
          /\ ready[k].kind = "write" =>
                ~conn[ready[k].c].wop /\ conn[ready[k].c].mWriteBuffers # <<>>
    /\ \A k \in 1..Len(ready), l \in 1..Len(ready) :
          k # l /\ ready[k].c = ready[l].c =>
             /\ ~(ReadJob(ready[k]) /\ ReadJob(ready[l]))
             /\ ~(ready[k].kind = "write" /\ ready[l].kind = "write")
    /\ \A c \in Conns : conn[c].wop => conn[c].mWriteBuffers # <<>>

-----------------------------------------------------------------------------
(* Where a request is.                                                     *)

Among(r, s) == \E k \in 1..Len(s) : s[k] = r

\* The handler has r with it, or is about to lose the connection.
Carries(j, r) == \/ j.kind = "send" /\ j.it = r
                 \/ Reading(j) /\ j.msg.of = r
                 \/ ~j.ok

\* The connection u has r in a buffer, or a response to it, or put that into
\* the buffer of a Get.
Holds(u, r) ==
    \/ Among(r, u.mPendingBuffers) \/ Among(r, u.wire)
    \/ u.wop /\ Among(r, u.mWriteBuffers)
    \/ \E k \in 1..Len(u.resp) : u.resp[k].of = r
    \/ u.rop = "body" /\ u.msg.of = r
    \/ r \in u.swallowed

Underway(r, c) ==
    \/ \E k \in 1..Len(ready) : ready[k].c = c /\ Carries(ready[k], r)
    \/ Holds(conn[c], r)

WayInv ==
    \A r \in mRequests :
       \/ Posted(r) \/ calls[r].kind = "Stat"
       \/ calls[r].c \in mServers /\ (said[r] = Silent \/ Underway(r, calls[r].c))

-----------------------------------------------------------------------------
(* Calm: what holds as long as none of the causes has come up.             *)

Calm == /\ refused = {} /\ ~Called({"Stat"})
        /\ Removed = {} \/ ~Reused

Alive(r) == r \in mRequests /\ ~Posted(r)

OneInv ==
    Calm =>
       /\ \A r \in Reqs : calls[r].c \in mServers /\ said[r] = Unsaid => Alive(r)
       /\ \A c \in mServers :
             /\ \A i \in 1..Len(conn[c].resp) :
                   /\ Alive(conn[c].resp[i].of)
                   /\ \A j \in 1..Len(conn[c].resp) :
                         i # j => conn[c].resp[i].of # conn[c].resp[j].of
             /\ conn[c].rop = "body" =>
                   /\ Alive(conn[c].msg.of)
                   /\ \A i \in 1..Len(conn[c].resp) :
                         conn[c].resp[i].of # conn[c].msg.of
       /\ \A k \in 1..Len(ready) :
             Reading(ready[k]) /\ ready[k].c \in mServers =>
                /\ Alive(ready[k].msg.of)
                /\ \A i \in 1..Len(conn[ready[k].c].resp) :
                      conn[ready[k].c].resp[i].of # ready[k].msg.of

AlignInv == Calm /\ ~Called({"Get"}) => \A c \in Conns : conn[c].fit = "fits"

Fresh == Removed = {} /\ refused = {} /\ ~(Reused /\ Called({"Stat"}))

FreshInv ==
    Fresh =>
       \A k \in 1..Len(ready) : ready[k].kind = "finish" =>
          /\ ready[k].it \in mRequests
          /\ \A l \in 1..Len(ready) :
                ready[l].kind = "finish" /\ l # k => ready[l].it # ready[k].it
          /\ \A l \in 1..(k - 1) :
                Reading(ready[l]) => Id(ready[l].msg.of) # Id(ready[k].it)

IInv == /\ TypeInv /\ TableInv /\ SendInv /\ MsgInv /\ OpInv /\ WayInv
        /\ OneInv /\ AlignInv /\ FreshInv /\ FaultsExplained

-----------------------------------------------------------------------------
(* The queue of handlers.                                                  *)

\* t is s without its first d elements, followed by new.
Queued(s, d, new, t) ==
    /\ Len(t) = Len(s) - d + Len(new)
    /\ \A k \in 1..Len(t) :
          \/ k \in 1..(Len(s) - d) /\ k + d \in 1..Len(s) /\ t[k] = s[k + d]
          \/ /\ k - (Len(s) - d) \in 1..Len(new)
             /\ t[k] = new[k - (Len(s) - d)]
    /\ \A k \in 1..Len(s) : k > d => k - d \in 1..Len(t) /\ t[k - d] = s[k]
    /\ \A k \in 1..Len(new) : /\ k + (Len(s) - d) \in 1..Len(t)
                              /\ t[k + (Len(s) - d)] = new[k]

LEMMA QueuedConcat ==
    ASSUME NEW S, NEW s \in Seq(S), NEW new \in Seq(S)
    PROVE  s \o new \in Seq(S) /\ Queued(s, 0, new, s \o new)
<1>1. /\ s \o new \in Seq(S) /\ Len(s \o new) = Len(s) + Len(new)
      /\ \A i \in 1..(Len(s) + Len(new)) :
            (s \o new)[i] = IF i <= Len(s) THEN s[i] ELSE new[i - Len(s)]
  BY ConcatProperties
<1>2. Len(s) \in Nat /\ Len(new) \in Nat
  BY LenProperties
<1> DEFINE t == s \o new
<1> HIDE DEF t
<1> QED BY <1>1, <1>2 DEF Queued, t

LEMMA QueuedTail ==
    ASSUME NEW S, NEW s \in Seq(S), s # <<>>, NEW new \in Seq(S)
    PROVE  Tail(s) \o new \in Seq(S) /\ Queued(s, 1, new, Tail(s) \o new)
<1> DEFINE r == Tail(s)
<1>0. /\ r \in Seq(S) /\ Len(r) = Len(s) - 1
      /\ \A i \in 1..Len(r) : r[i] = s[i + 1]
  BY HeadTailProperties
<1>2. Len(s) \in Nat /\ Len(new) \in Nat /\ Len(r) \in Nat
  BY <1>0, LenProperties
<1> HIDE DEF r
<1> DEFINE t == r \o new
<1>1. /\ t \in Seq(S) /\ Len(t) = Len(r) + Len(new)
      /\ \A i \in 1..(Len(r) + Len(new)) :
            t[i] = IF i <= Len(r) THEN r[i] ELSE new[i - Len(r)]
  BY <1>0, ConcatProperties
<1> HIDE DEF t
<1>4. ASSUME NEW k \in 1..Len(t)
      PROVE  \/ k \in 1..(Len(s) - 1) /\ k + 1 \in 1..Len(s) /\ t[k] = s[k + 1]
             \/ /\ k - (Len(s) - 1) \in 1..Len(new)
                /\ t[k] = new[k - (Len(s) - 1)]
  BY <1>0, <1>1, <1>2
<1>5. ASSUME NEW k \in 1..Len(s), k > 1
      PROVE  k - 1 \in 1..Len(t) /\ t[k - 1] = s[k]
  <2>1. k - 1 \in 1..Len(r) /\ k - 1 \in 1..(Len(r) + Len(new))
    BY <1>0, <1>2, <1>5
  <2>2. t[k - 1] = r[k - 1] /\ r[k - 1] = s[(k - 1) + 1]
    BY <1>0, <1>1, <2>1, SMTT(20)
  <2> QED BY <1>0, <1>1, <1>2, <2>1, <2>2
<1>6. ASSUME NEW k \in 1..Len(new)
      PROVE  k + (Len(s) - 1) \in 1..Len(t) /\ t[k + (Len(s) - 1)] = new[k]
  <2> DEFINE i == k + (Len(s) - 1)
  <2>1. i \in 1..(Len(r) + Len(new)) /\ ~(i <= Len(r)) /\ i - Len(r) = k
    BY <1>0, <1>2
  <2> HIDE DEF i
  <2>2. i \in 1..Len(t) /\ t[i] = new[k]
    BY <1>1, <2>1
  <2> QED BY <2>2 DEF i
<1>7. Len(t) = Len(s) - 1 + Len(new)
  BY <1>0, <1>1, <1>2
<1>3. Queued(s, 1, new, t)
  BY <1>4, <1>5, <1>6, <1>7, Zenon DEF Queued
<1> QED BY <1>1, <1>3 DEF t, r

\* A queue may also be described without its new elements.
LEMMA QueuedNone ==
    ASSUME NEW S, NEW s \in Seq(S), s # <<>>
    PROVE  Tail(s) \in Seq(S) /\ Queued(s, 1, <<>>, Tail(s))
<1>1. <<>> \in Seq(S) /\ Tail(s) \in Seq(S)
  BY EmptySeq, HeadTailProperties
<1>2. Tail(s) \o <<>> = Tail(s)
  BY <1>1, ConcatEmptySeq
<1> QED BY <1>1, <1>2, QueuedTail

LEMMA QueuedAppend ==
    ASSUME NEW S, NEW s \in Seq(S), NEW e \in S
    PROVE  Append(s, e) \in Seq(S) /\ Queued(s, 0, <<e>>, Append(s, e))
<1>1. <<e>> \in Seq(S)
  OBVIOUS
<1>2. Append(s, e) = s \o <<e>>
  BY AppendIsConcat
<1>3. s \o <<e>> \in Seq(S) /\ Queued(s, 0, <<e>>, s \o <<e>>)
  BY <1>1, QueuedConcat
<1> QED BY <1>2, <1>3, Zenon

LEMMA QueuedTailAppend ==
    ASSUME NEW S, NEW s \in Seq(S), s # <<>>, NEW e \in S
    PROVE  /\ Append(Tail(s), e) \in Seq(S)
           /\ Queued(s, 1, <<e>>, Append(Tail(s), e))
<1>1. <<e>> \in Seq(S) /\ Tail(s) \in Seq(S)
  BY HeadTailProperties
<1>2. Append(Tail(s), e) = Tail(s) \o <<e>>
  BY <1>1, AppendIsConcat
<1>3. Tail(s) \o <<e>> \in Seq(S) /\ Queued(s, 1, <<e>>, Tail(s) \o <<e>>)
  BY <1>1, QueuedTail
<1> QED BY <1>2, <1>3, Zenon

LEMMA SeqFacts ==
    ASSUME NEW S, NEW s \in Seq(S)
    PROVE  /\ Len(s) \in Nat /\ \A k \in 1..Len(s) : s[k] \in S
           /\ s # <<>> => 1 \in 1..Len(s) /\ Head(s) = s[1]
           /\ s = <<>> <=> Len(s) = 0
<1>1. Len(s) \in Nat /\ \A k \in 1..Len(s) : s[k] \in S
  BY LenProperties, ElementOfSeq
<1>2. s = <<>> <=> Len(s) = 0
  BY EmptySeq
<1> QED BY <1>1, <1>2

LEMMA OneElement ==
    ASSUME NEW e
    PROVE  /\ Len(<<e>>) = 1
           /\ \A k \in 1..Len(<<e>>) : k = 1 /\ <<e>>[k] = e
OBVIOUS

LEMMA NoElement == Len(<<>>) = 0 /\ \A k \in 1..Len(<<>>) : FALSE
OBVIOUS

-----------------------------------------------------------------------------
(* What FinishAll posts.                                                   *)

LEMMA LeastExists ==
    ASSUME NEW T, T \subseteq Nat, T # {}
    PROVE  \E x \in T : \A y \in T : x <= y
<1> DEFINE Less == {ss \in Nat \X Nat : ss[1] < ss[2]}
<1>1. OpToRel(<, Nat) = Less
  BY Zenon DEF OpToRel
<1>2. IsWellFoundedOn(Less, Nat)
  BY <1>1, NatLessThanWellFounded, Zenon
<1> HIDE DEF Less
<1>3. PICK x \in T : \A y \in T : ~ (<<y, x>> \in Less)
  BY <1>2, WFMin
<1>4. ASSUME NEW y \in T PROVE x <= y
  <2>1. x \in Nat /\ y \in Nat /\ ~(<<y, x>> \in Less)
    BY <1>3
  <2> QED BY <2>1 DEF Less
<1> QED BY <1>3, <1>4

\* f has the concatenations of the first sequences of g.
Flat(g, n, f) ==
    f = [k \in 0..n |-> IF k = 0 THEN <<>> ELSE f[k - 1] \o g[k]]

LEMMA FlatExists ==
    ASSUME NEW g, NEW n \in Nat
    PROVE  \E f : Flat(g, n, f)
<1> DEFINE T == {m \in Nat : ~ \E f : Flat(g, m, f)}
<1>1. SUFFICES ASSUME T # {} PROVE FALSE
  OBVIOUS
<1>2. PICK m \in T : \A y \in T : m <= y
  BY <1>1, LeastExists
<1>3. CASE m = 0
  <2> DEFINE f == [k \in 0..0 |-> <<>>]
  <2>1. Flat(g, 0, f)
    BY DEF Flat
  <2> QED BY <1>2, <1>3, <2>1
<1>4. CASE m # 0
  <2>1. m \in Nat /\ m - 1 \in Nat /\ ~(m - 1 \in T)
    BY <1>2, <1>4
  <2>2. PICK e : Flat(g, m - 1, e)
    BY <2>1
  <2> DEFINE f == [k \in 0..m |-> IF k = m THEN e[m - 1] \o g[m] ELSE e[k]]
  <2>3. ASSUME NEW k \in 0..m
        PROVE  f[k] = IF k = 0 THEN <<>> ELSE f[k - 1] \o g[k]
    <3>1. CASE k = m
      <4>1. f[m] = e[m - 1] \o g[m] /\ k # 0
        BY <1>4, <2>1, <3>1
      <4>2. f[m - 1] = e[m - 1]
        <5>1. m - 1 \in 0..m /\ m - 1 # m
          BY <2>1
        <5> QED BY <5>1
      <4> QED BY <3>1, <4>1, <4>2
    <3>2. CASE k # m
      <4>1. k \in 0..(m - 1) /\ f[k] = e[k]
        BY <2>1, <3>2
      <4>2. e[k] = IF k = 0 THEN <<>> ELSE e[k - 1] \o g[k]
        BY <2>1, <2>2, <4>1 DEF Flat
      <4>3. k # 0 => k - 1 \in 0..m /\ k - 1 # m
        BY <2>1, <4>1
      <4> QED BY <4>1, <4>2, <4>3
    <3> QED BY <3>1, <3>2
  <2>4. Flat(g, m, f)
    <3> DEFINE h == [k \in 0..m |-> IF k = 0 THEN <<>> ELSE f[k - 1] \o g[k]]
    <3>1. \A k \in 0..m : f[k] = h[k]
      BY <2>3
    <3>2. f = h
      BY <3>1
    <3> QED BY <3>2 DEF Flat
  <2> QED BY <1>2, <2>4
<1> QED BY <1>3, <1>4

\* s has the elements of the first m sequences of g, and no other.
Collects(g, m, s) ==
    /\ \A i \in 1..Len(s) :
          \E k \in 1..m : \E l \in 1..Len(g[k]) : s[i] = g[k][l]
    /\ \A k \in 1..m : \A l \in 1..Len(g[k]) :
          \E i \in 1..Len(s) : s[i] = g[k][l]

LEMMA FlatCollects ==
    ASSUME NEW S, NEW n \in Nat, NEW g, \A k \in 1..n : g[k] \in Seq(S),
           NEW f, Flat(g, n, f)
    PROVE  f[n] \in Seq(S) /\ Collects(g, n, f[n])
<1> DEFINE P(m) == f[m] \in Seq(S) /\ Collects(g, m, f[m])
           T == {m \in 0..n : ~P(m)}
<1>1. SUFFICES ASSUME T # {} PROVE FALSE
  OBVIOUS
<1>2. PICK m \in T : \A y \in T : m <= y
  <2>1. T \subseteq Nat
    OBVIOUS
  <2> QED BY <1>1, <2>1, LeastExists
<1>3. m \in 0..n /\ ~P(m)
  BY <1>2
<1>4. CASE m = 0
  <2>1. f[0] = <<>>
    BY DEF Flat
  <2>2. <<>> \in Seq(S) /\ Collects(g, 0, <<>>)
    BY EmptySeq DEF Collects
  <2> QED BY <1>3, <1>4, <2>1, <2>2
<1>5. CASE m # 0
  <2>1. m - 1 \in 0..n /\ m \in 1..n
    BY <1>3, <1>5
  <2>2. P(m - 1)
    BY <1>2, <2>1
  <2>3. f[m] = f[m - 1] \o g[m]
    BY <1>5, <2>1 DEF Flat
  <2> DEFINE a == f[m - 1]
             b == g[m]
  <2>4. a \in Seq(S) /\ b \in Seq(S) /\ Collects(g, m - 1, a)
    BY <2>1, <2>2
  <2> HIDE DEF P, a, b
  <2>5. a \o b \in Seq(S) /\ Queued(a, 0, b, a \o b)
    BY <2>4, QueuedConcat
  <2>6. Len(a) \in Nat /\ Len(b) \in Nat
    BY <2>4, LenProperties
  <2> DEFINE t == a \o b
  <2>7. t \in Seq(S) /\ Queued(a, 0, b, t)
    BY <2>5
  <2> HIDE DEF t
  <2>8. ASSUME NEW i \in 1..Len(t)
        PROVE  \E k \in 1..m : \E l \in 1..Len(g[k]) : t[i] = g[k][l]
    <3>1. CASE i + 0 \in 1..Len(a) /\ t[i] = a[i + 0]
      <4>1. PICK k \in 1..(m - 1) : \E l \in 1..Len(g[k]) : a[i + 0] = g[k][l]
        BY <2>4, <3>1 DEF Collects
      <4>2. k \in 1..m
        BY <2>1
      <4> QED BY <3>1, <4>1, <4>2
    <3>2. CASE i - (Len(a) - 0) \in 1..Len(b) /\ t[i] = b[i - (Len(a) - 0)]
      BY <2>1, <3>2 DEF b
    <3> QED BY <2>7, <3>1, <3>2 DEF Queued
  <2>9. ASSUME NEW k \in 1..m, NEW l \in 1..Len(g[k])
        PROVE  \E i \in 1..Len(t) : t[i] = g[k][l]
    <3>1. CASE k = m
      BY <2>7, <3>1 DEF Queued, b
    <3>2. CASE k # m
      <4>1. k \in 1..(m - 1)
        BY <2>1, <3>2
      <4>2. PICK i \in 1..Len(a) : a[i] = g[k][l]
        BY <2>4, <4>1 DEF Collects
      <4>3. i > 0
        BY <2>6
      <4> QED BY <2>7, <4>2, <4>3 DEF Queued
    <3> QED BY <3>1, <3>2
  <2>10. f[m] = t
    BY <2>3 DEF t, a, b
  <2> QED BY <1>3, <2>7, <2>8, <2>9, <2>10 DEF P, Collects
<1> QED BY <1>4, <1>5

\* The jobs posted are one per id, for the entry that has the id, unless its
\* result says that there is more to come.
LEMMA FinishAllFlat ==
    ASSUME NEW c, conn[c].mPendingRequests \in Seq(Nat),
           NEW S, \A k \in 1..Len(conn[c].mPendingRequests) :
                     LET p == conn[c].mPendingRequests[k]
                     IN  FinishRequest(Entry(Id(p)), p, ERequest_NETWORK_ERROR)
                            \in Seq(S)
    PROVE  LET ids == conn[c].mPendingRequests
               g == [k \in 1..Len(ids) |->
                       FinishRequest(Entry(Id(ids[k])), ids[k],
                                     ERequest_NETWORK_ERROR)]
           IN  FinishAll(c) \in Seq(S) /\ Collects(g, Len(ids), FinishAll(c))
<1> DEFINE ids == conn[c].mPendingRequests
           n == Len(ids)
           h(k) == FinishRequest(Entry(Id(ids[k])), ids[k],
                                 ERequest_NETWORK_ERROR)
           g == [k \in 1..n |-> h(k)]
           F(f) == f = [k \in 0..n |-> IF k = 0 THEN <<>> ELSE f[k - 1] \o h(k)]
<1>1. n \in Nat
  BY LenProperties
<1>2. \A k \in 1..n : g[k] = h(k) /\ g[k] \in Seq(S)
  OBVIOUS
<1> HIDE DEF h, n, ids
<1>3. \A f : Flat(g, n, f) <=> F(f)
  <2> TAKE f
  <2> DEFINE a == [k \in 0..n |-> IF k = 0 THEN <<>> ELSE f[k - 1] \o g[k]]
             b == [k \in 0..n |-> IF k = 0 THEN <<>> ELSE f[k - 1] \o h(k)]
  <2>1. \A k \in 0..n : k # 0 => k \in 1..n
    BY <1>1
  <2> HIDE DEF g
  <2>2. a = b
    BY <1>2, <2>1
  <2> QED BY <2>2 DEF Flat
<1>4. \E f : F(f)
  BY <1>1, <1>3, FlatExists
<1> DEFINE j == CHOOSE f : F(f)
<1>5. F(j)
  BY <1>4
<1>6. FinishAll(c) = j[n]
  BY DEF FinishAll, h, n, ids
<1> HIDE DEF j, g, F
<1>7. Flat(g, n, j)
  BY <1>3, <1>5
<1>8. j[n] \in Seq(S) /\ Collects(g, n, j[n])
  BY <1>1, <1>2, <1>7, FlatCollects
<1> QED BY <1>6, <1>8 DEF g, h, n, ids

LEMMA EntryFound ==
    ASSUME NEW r, Find(Id(r)) # {}
    PROVE  Entry(Id(r)) \in mRequests /\ Id(Entry(Id(r))) = Id(r)
BY DEF Entry, Find

LEMMA EntryIsOwn ==
    ASSUME TableInv, NEW r \in mRequests, NEW q, Id(q) = Id(r)
    PROVE  /\ Find(Id(q)) # {} /\ Entry(Id(q)) = r
           /\ \A it \in Find(Id(q)) : it = r
<1>1. r \in Find(Id(q))
  BY DEF Find
<1>2. \A it \in Find(Id(q)) : it = r
  BY DEF Find, TableInv
<1> QED BY <1>1, <1>2 DEF Entry

LEMMA FinishJobType ==
    ASSUME NEW it \in Nat, NEW of \in Nat, NEW st \in Nat
    PROVE  /\ FinishJob(it, of, st) \in JobRec
           /\ FinishJob(it, of, st).kind = "finish"
           /\ FinishJob(it, of, st).c = 0 /\ FinishJob(it, of, st).ok
           /\ FinishJob(it, of, st).it = it
           /\ FinishJob(it, of, st).msg.of = of
           /\ FinishJob(it, of, st).msg.raw = st
BY DEF FinishJob, Job, JobRec, Msg

\* What the type invariant says of the parts.
LEMMA Typed ==
    ASSUME TypeInv
    PROVE  /\ Len(calls) \in Nat /\ Len(conn) \in Nat /\ Len(ready) \in Nat
           /\ \A r \in Reqs : calls[r] \in CallRec /\ r \in 1..MaxCalls
           /\ \A c \in Conns : conn[c] \in ConnRec
           /\ \A k \in 1..Len(ready) : ready[k] \in JobRec
           /\ ready # <<>> => 1 \in 1..Len(ready) /\ Head(ready) = ready[1]
BY SeqFacts, ClientAssumption DEF TypeInv, Reqs, Conns

LEMMA FinishAllJobs ==
    ASSUME TypeInv, TableInv, NEW c \in Conns,
           \A k \in 1..Len(conn[c].mPendingRequests) :
              Find(Id(conn[c].mPendingRequests[k])) # {}
    PROVE  /\ FinishAll(c) \in Seq(JobRec)
           /\ \A i \in 1..Len(FinishAll(c)) : \E e \in mRequests, p \in Reqs :
                 /\ Id(e) = Id(p) /\ calls[p].c = c
                 /\ FinishAll(c)[i] = FinishJob(e, p, ERequest_NETWORK_ERROR)
           /\ \A r \in mRequests : calls[r].c = c /\ ~calls[r].more =>
                 \E i \in 1..Len(FinishAll(c)) :
                    /\ FinishAll(c)[i].kind = "finish"
                    /\ FinishAll(c)[i].it = r
<1> DEFINE ids == conn[c].mPendingRequests
           h(k) == FinishRequest(Entry(Id(ids[k])), ids[k],
                                 ERequest_NETWORK_ERROR)
           g == [k \in 1..Len(ids) |-> h(k)]
           all == FinishAll(c)
<1>1. conn[c] \in ConnRec /\ ids \in Seq(Nat)
  <2>1. conn[c] \in ConnRec
    BY Typed
  <2> QED BY <2>1 DEF ConnRec
<1>2. ASSUME NEW k \in 1..Len(ids)
      PROVE  /\ ids[k] \in Reqs /\ calls[ids[k]].c = c
             /\ Entry(Id(ids[k])) \in mRequests
             /\ Id(Entry(Id(ids[k]))) = Id(ids[k])
  BY <1>2, EntryFound DEF TableInv
<1>3. Reqs \subseteq Nat /\ mRequests \subseteq Nat
      /\ ERequest_NETWORK_ERROR \in Nat
  BY DEF TypeInv, Reqs, ERequest_NETWORK_ERROR
<1>4. ASSUME NEW k \in 1..Len(ids)
      PROVE  /\ h(k) \in Seq(JobRec)
             /\ \A l \in 1..Len(h(k)) :
                   h(k)[l] = FinishJob(Entry(Id(ids[k])), ids[k],
                                       ERequest_NETWORK_ERROR)
             /\ ~calls[Entry(Id(ids[k]))].more =>
                   1 \in 1..Len(h(k))
  <2> DEFINE j == FinishJob(Entry(Id(ids[k])), ids[k], ERequest_NETWORK_ERROR)
  <2>1. j \in JobRec
    BY <1>2, <1>3, FinishJobType
  <2> HIDE DEF j
  <2>2. h(k) = IF calls[Entry(Id(ids[k]))].more THEN <<>> ELSE <<j>>
    BY DEF FinishRequest, HasMoreResult, j
  <2> HIDE DEF h
  <2>3. h(k) \in Seq(JobRec) /\ \A l \in 1..Len(h(k)) : h(k)[l] = j
    BY <2>1, <2>2
  <2>4. ~calls[Entry(Id(ids[k]))].more => 1 \in 1..Len(h(k))
    BY <2>2
  <2> QED BY <2>3, <2>4 DEF j
<1>5. all \in Seq(JobRec) /\ Collects(g, Len(ids), all)
  <2>1. \A k \in 1..Len(conn[c].mPendingRequests) :
           LET p == conn[c].mPendingRequests[k]
           IN  FinishRequest(Entry(Id(p)), p, ERequest_NETWORK_ERROR)
                  \in Seq(JobRec)
    BY <1>4
  <2> QED BY <1>1, <2>1, FinishAllFlat
<1>6. \A k \in 1..Len(ids) : g[k] = h(k)
  OBVIOUS
<1> HIDE DEF h, g, all
<1>7. ASSUME NEW i \in 1..Len(all)
      PROVE  \E e \in mRequests, p \in Reqs :
                /\ Id(e) = Id(p) /\ calls[p].c = c
                /\ all[i] = FinishJob(e, p, ERequest_NETWORK_ERROR)
  <2>1. PICK k \in 1..Len(ids) : \E l \in 1..Len(g[k]) : all[i] = g[k][l]
    BY <1>5 DEF Collects
  <2>2. all[i] = FinishJob(Entry(Id(ids[k])), ids[k], ERequest_NETWORK_ERROR)
    BY <1>4, <1>6, <2>1
  <2> QED BY <1>2, <2>2
<1>8. ASSUME NEW r \in mRequests, calls[r].c = c, ~calls[r].more
      PROVE  \E i \in 1..Len(all) : all[i].kind = "finish" /\ all[i].it = r
  <2>1. r \in Reqs
    BY DEF TypeInv
  <2>2. PICK k \in 1..Len(ids) : ids[k] = r
    BY <1>8, <2>1 DEF TableInv
  <2>3. Entry(Id(ids[k])) = r
    BY <2>2, EntryIsOwn
  <2>4. 1 \in 1..Len(g[k]) /\ g[k][1] = FinishJob(r, r, ERequest_NETWORK_ERROR)
    BY <1>4, <1>6, <1>8, <2>2, <2>3
  <2>5. PICK i \in 1..Len(all) : all[i] = g[k][1]
    BY <1>5, <2>4 DEF Collects
  <2>6. r \in Nat
    BY <1>3
  <2>7. all[i].kind = "finish" /\ all[i].it = r
    BY <1>3, <2>4, <2>5, <2>6, FinishJobType
  <2> QED BY <2>7
<1> QED BY <1>5, <1>7, <1>8 DEF all

-----------------------------------------------------------------------------
(* Steps that change one connection and the queue.                         *)

\* Connection c becomes u, the first d handlers leave the queue, those of
\* new enter it.
Moves(c, u, d, new) ==
    /\ c \in Conns /\ u \in ConnRec /\ d \in {0, 1} /\ new \in Seq(JobRec)
    /\ conn' \in Seq(ConnRec) /\ Len(conn') = Len(conn)
    /\ conn'[c] = u /\ \A x \in Conns : x # c => conn'[x] = conn[x]
    /\ ready' \in Seq(JobRec) /\ Queued(ready, d, new, ready')
    /\ d = 1 => /\ 1 \in 1..Len(ready) /\ ready[1] = Head(ready)
                /\ ready[1].kind # "finish" /\ ready[1].c = c
    /\ Len(new) <= 1
    /\ \A k \in 1..Len(new) : /\ Shaped(new[k])
                              /\ new[k].kind # "finish" => new[k].c = c

LEMMA Updated ==
    ASSUME TypeInv, NEW c \in Conns, NEW u \in ConnRec,
           conn' = [conn EXCEPT ![c] = u]
    PROVE  /\ conn' \in Seq(ConnRec) /\ Len(conn') = Len(conn)
           /\ conn'[c] = u /\ \A x \in Conns : x # c => conn'[x] = conn[x]
<1>1. conn \in Seq(ConnRec) /\ c \in 1..Len(conn)
  BY DEF TypeInv, Conns
<1> QED BY <1>1, ExceptSeq DEF Conns

\* The table as long as no call is entered or answered.
LEMMA TableSame ==
    ASSUME TableInv, Conns' = Conns, Reqs' = Reqs,
           UNCHANGED <<calls, mRequests, refused, answers>>,
           \A r \in Reqs : calls[r].c \in Conns,
           \A x \in Conns :
              conn'[x].mPendingRequests = conn[x].mPendingRequests
    PROVE  TableInv'
<1>1. (\A x \in Conns : \A k \in 1..Len(conn[x].mPendingRequests) :
          LET r == conn[x].mPendingRequests[k]
          IN  r \in Reqs /\ calls[r].c = x)'
  BY DEF TableInv
<1>2. (\A r \in Reqs : \E k \in 1..Len(conn[calls[r].c].mPendingRequests) :
          conn[calls[r].c].mPendingRequests[k] = r)'
  BY SMTT(20) DEF TableInv
<1>3. (/\ \A r \in mRequests, q \in mRequests : Id(r) = Id(q) => r = q
       /\ \A r \in Reqs : r \in mRequests \/ r \in refused \/ Answered(r)
       /\ \A r \in Reqs : Find(Id(r)) # {} \/ \E q \in 1..MaxCalls : Answered(q))'
  BY DEF TableInv, Find, Id, Answered
<1> QED BY <1>1, <1>2, <1>3 DEF TableInv

\* A handler of the queue after the step was in it, one place (or none)
\* further, or is new; all but the one that ran are still there.
LEMMA QueueFacts ==
    ASSUME NEW c, NEW u, NEW d, NEW new, Moves(c, u, d, new), TypeInv
    PROVE  /\ Len(ready') \in Nat /\ Len(ready) \in Nat /\ Len(new) \in Nat
           /\ \A k \in 1..Len(ready') :
                 \/ k + d \in 1..Len(ready) /\ ready'[k] = ready[k + d]
                 \/ /\ 1 \in 1..Len(new) /\ ready'[k] = new[1]
                    /\ k = Len(ready') /\ k = Len(ready) - d + 1
           /\ \A k \in 1..Len(ready) :
                 \/ k > d /\ k - d \in 1..Len(ready') /\ ready'[k - d] = ready[k]
                 \/ /\ d = 1 /\ k = 1 /\ ready[k] = Head(ready)
                    /\ ready[1].kind # "finish" /\ ready[1].c = c
           /\ \A k \in 1..Len(new) :
                 k = 1 /\ Len(ready') \in 1..Len(ready') /\ ready'[Len(ready')] = new[k]
<1>1. Len(ready') \in Nat /\ Len(ready) \in Nat /\ Len(new) \in Nat
  BY LenProperties DEF Moves, TypeInv
<1>2. d \in {0, 1} /\ Len(new) <= 1 /\ Queued(ready, d, new, ready')
      /\ (d = 1 => /\ 1 \in 1..Len(ready) /\ ready[1] = Head(ready)
                   /\ ready[1].kind # "finish" /\ ready[1].c = c)
  BY DEF Moves
<1>3. ASSUME NEW k \in 1..Len(ready')
      PROVE  \/ k + d \in 1..Len(ready) /\ ready'[k] = ready[k + d]
             \/ /\ 1 \in 1..Len(new) /\ ready'[k] = new[1]
                /\ k = Len(ready') /\ k = Len(ready) - d + 1
  <2>1. CASE k - (Len(ready) - d) \in 1..Len(new)
             /\ ready'[k] = new[k - (Len(ready) - d)]
    <3>1. k - (Len(ready) - d) = 1
      BY <1>1, <1>2, <2>1
    <3>2. Len(ready') = Len(ready) - d + 1 /\ k = Len(ready) - d + 1
      BY <1>1, <1>2, <2>1, <3>1 DEF Queued
    <3> QED BY <2>1, <3>1, <3>2
  <2> QED BY <1>2, <2>1 DEF Queued
<1>4. ASSUME NEW k \in 1..Len(ready)
      PROVE  \/ k > d /\ k - d \in 1..Len(ready') /\ ready'[k - d] = ready[k]
             \/ /\ d = 1 /\ k = 1 /\ ready[k] = Head(ready)
                /\ ready[1].kind # "finish" /\ ready[1].c = c
  <2>1. CASE k > d
    BY <1>2, <2>1 DEF Queued
  <2>2. CASE ~(k > d)
    BY <1>1, <1>2, <2>2
  <2> QED BY <2>1, <2>2
<1>5. ASSUME NEW k \in 1..Len(new)
      PROVE  k = 1 /\ Len(ready') \in 1..Len(ready') /\ ready'[Len(ready')] = new[k]
  <2>0. Len(new) \in Nat /\ Len(new) <= 1
    BY <1>1, <1>2
  <2>1. k = 1 /\ Len(new) = 1
    <3> DEFINE n == Len(new)
    <3>1. n \in Nat /\ n <= 1 /\ k \in 1..n
      BY <2>0
    <3> HIDE DEF n
    <3>2. k = 1 /\ n = 1
      BY <3>1
    <3> QED BY <3>2 DEF n
  <2>2. /\ k + (Len(ready) - d) \in 1..Len(ready')
        /\ ready'[k + (Len(ready) - d)] = new[k]
        /\ Len(ready') = Len(ready) - d + Len(new)
    BY <1>2 DEF Queued
  <2>3. k + (Len(ready) - d) = Len(ready')
    BY <1>1, <1>2, <2>1, <2>2
  <2> QED BY <2>1, <2>2, <2>3
<1> QED BY <1>1, <1>3, <1>4, <1>5

LEMMA TypeMoves ==
    ASSUME NEW c, NEW u, NEW d, NEW new, Moves(c, u, d, new), TypeInv, Rest
    PROVE  TypeInv'
<1>1. Conns' = Conns
  BY DEF Conns, Moves
<1>2. \A j : Shaped(j) => Shaped(j)'
  BY <1>1 DEF Shaped
<1>3. ASSUME NEW k \in 1..Len(ready') PROVE Shaped(ready[k])'
  <2>1. CASE k + d \in 1..Len(ready) /\ ready'[k] = ready[k + d]
    BY <1>2, <2>1 DEF TypeInv
  <2>2. CASE 1 \in 1..Len(new) /\ ready'[k] = new[1]
    BY <1>2, <2>2 DEF Moves
  <2> QED BY <2>1, <2>2, QueueFacts
<1>4. ready' \in Seq(JobRec) /\ conn' \in Seq(ConnRec)
  BY DEF Moves
<1> QED BY <1>1, <1>3, <1>4 DEF TypeInv, Rest, Reqs

LEMMA TableMoves ==
    ASSUME NEW c, NEW u, NEW d, NEW new, Moves(c, u, d, new), TypeInv, Rest,
           TableInv, u.mPendingRequests = conn[c].mPendingRequests
    PROVE  TableInv'
<1>1. Conns' = Conns /\ Reqs' = Reqs
  BY DEF Conns, Reqs, Moves, Rest
<1>2. \A x \in Conns : conn'[x].mPendingRequests = conn[x].mPendingRequests
  BY DEF Moves
<1>3. \A r \in Reqs : calls[r].c \in Conns
  BY DEF TypeInv
<1> QED BY <1>1, <1>2, <1>3, TableSame DEF Rest

-----------------------------------------------------------------------------
(* One read and one write at a time.                                       *)

LEMMA OpMoves ==
    ASSUME NEW c, NEW u, NEW d, NEW new, Moves(c, u, d, new), TypeInv, OpInv,
           \A k \in 1..Len(new) :
              /\ ReadJob(new[k]) => conn[c].rop # "none" /\ u.rop = "none"
              /\ new[k].kind = "write" => ~u.wop,
           u.rop # "none" => \/ conn[c].rop # "none"
                             \/ d = 1 /\ ReadJob(ready[1]),
           u.wop \/ u.mWriteBuffers = <<>> \/
              (\E k \in 1..Len(new) : new[k].kind = "write")
                => \/ conn[c].wop \/ conn[c].mWriteBuffers = <<>>
                   \/ d = 1 /\ ready[1].kind = "write",
           u.wop \/ (\E k \in 1..Len(new) : new[k].kind = "write")
                => u.mWriteBuffers # <<>>
    PROVE  OpInv'
<1> DEFINE Rd(j) == ReadJob(j) /\ j.c = c
           Wr(j) == j.kind = "write" /\ j.c = c
<1>1. /\ Conns' = Conns /\ c \in Conns /\ conn'[c] = u
      /\ \A x \in Conns : x # c => conn'[x] = conn[x]
  BY DEF Conns, Moves
<1>2. \A k \in 1..Len(ready) : ready[k].kind # "finish" => ready[k].c \in Conns
  BY DEF TypeInv, Shaped
<1>3. \A k \in 1..Len(new) : new[k].kind # "finish" => new[k].c = c
  BY DEF Moves
<1>4. d \in {0, 1}
  BY DEF Moves
\* what is left of c in the queue
<1>5. ASSUME NEW k \in 1..Len(ready'), k + d \in 1..Len(ready),
             ready'[k] = ready[k + d], Rd(ready'[k])
      PROVE  u.rop = "none" /\ ~ \E l \in 1..Len(new) : ReadJob(new[l])
  <2>1. conn[c].rop = "none"
    BY <1>5 DEF OpInv
  <2>2. ~(d = 1 /\ ReadJob(ready[1]))
    <3>1. SUFFICES ASSUME d = 1, ReadJob(ready[1]) PROVE FALSE
      OBVIOUS
    <3>2. 1 \in 1..Len(ready) /\ ready[1].c = c
      BY <3>1 DEF Moves
    <3>3. k + d # 1
      BY <3>1, QueueFacts
    <3> QED BY <1>5, <3>1, <3>2, <3>3 DEF OpInv
  <2> QED BY <2>1, <2>2
<1>6. ASSUME NEW k \in 1..Len(ready'), k + d \in 1..Len(ready),
             ready'[k] = ready[k + d], Wr(ready'[k])
      PROVE  /\ ~u.wop /\ u.mWriteBuffers # <<>>
             /\ ~ \E l \in 1..Len(new) : new[l].kind = "write"
  <2>1. ~conn[c].wop /\ conn[c].mWriteBuffers # <<>>
    BY <1>6 DEF OpInv
  <2>2. ~(d = 1 /\ ready[1].kind = "write")
    <3>1. SUFFICES ASSUME d = 1, ready[1].kind = "write" PROVE FALSE
      OBVIOUS
    <3>2. 1 \in 1..Len(ready) /\ ready[1].c = c
      BY <3>1 DEF Moves
    <3>3. k + d # 1
      BY <3>1, QueueFacts
    <3> QED BY <1>6, <3>1, <3>2, <3>3 DEF OpInv
  <2> QED BY <2>1, <2>2
<1>7. ASSUME NEW k \in 1..Len(ready')
      PROVE  /\ ReadJob(ready'[k]) => conn'[ready'[k].c].rop = "none"
             /\ ready'[k].kind = "write" =>
                   /\ ~conn'[ready'[k].c].wop
                   /\ conn'[ready'[k].c].mWriteBuffers # <<>>
  <2>1. CASE k + d \in 1..Len(ready) /\ ready'[k] = ready[k + d]
    <3>1. CASE ready'[k].c = c
      BY <1>1, <1>5, <1>6, <2>1, <3>1
    <3>2. CASE ready'[k].c # c
      BY <1>1, <1>2, <2>1, <3>2 DEF OpInv, ReadJob
    <3> QED BY <3>1, <3>2
  <2>2. CASE 1 \in 1..Len(new) /\ ready'[k] = new[1]
    BY <1>1, <1>3, <2>2 DEF ReadJob
  <2> QED BY <2>1, <2>2, QueueFacts
<1>8. ASSUME NEW k \in 1..Len(ready'), NEW l \in 1..Len(ready'), k # l,
             ready'[k].c = ready'[l].c
      PROVE  /\ ~(ReadJob(ready'[k]) /\ ReadJob(ready'[l]))
             /\ ~(ready'[k].kind = "write" /\ ready'[l].kind = "write")
  <2>1. CASE /\ k + d \in 1..Len(ready) /\ ready'[k] = ready[k + d]
             /\ l + d \in 1..Len(ready) /\ ready'[l] = ready[l + d]
    <3>1. k + d # l + d
      BY <1>4, <1>8, QueueFacts
    <3> QED BY <1>8, <2>1, <3>1 DEF OpInv
  <2>2. CASE /\ k + d \in 1..Len(ready) /\ ready'[k] = ready[k + d]
             /\ 1 \in 1..Len(new) /\ ready'[l] = new[1]
    BY <1>3, <1>5, <1>6, <1>8, <2>2 DEF ReadJob
  <2>3. CASE /\ l + d \in 1..Len(ready) /\ ready'[l] = ready[l + d]
             /\ 1 \in 1..Len(new) /\ ready'[k] = new[1]
    BY <1>3, <1>5, <1>6, <1>8, <2>3 DEF ReadJob
  <2> QED BY <1>8, <2>1, <2>2, <2>3, QueueFacts
<1>9. \A x \in Conns : conn'[x].wop => conn'[x].mWriteBuffers # <<>>
  BY <1>1 DEF OpInv
<1> QED BY <1>1, <1>7, <1>8, <1>9 DEF OpInv, ReadJob

-----------------------------------------------------------------------------
(* Responses and answers.                                                  *)

LEMMA MsgMoves ==
    ASSUME NEW c, NEW u, NEW d, NEW new, Moves(c, u, d, new), TypeInv, Rest,
           MsgInv, u.rop = "body" => MsgOK(u.msg, c),
           \A k \in 1..Len(u.resp) : MsgOK(u.resp[k], c),
           \A k \in 1..Len(new) :
              /\ Reading(new[k]) => MsgOK(new[k].msg, c)
              /\ new[k].kind = "finish" =>
                    /\ new[k].it \in Reqs
                    /\ Own(new[k].it, new[k].msg.of, new[k].msg.raw)
    PROVE  MsgInv'
<1>1. /\ Conns' = Conns /\ c \in Conns /\ conn'[c] = u
      /\ \A x \in Conns : x # c => conn'[x] = conn[x]
      /\ \A k \in 1..Len(new) : new[k].kind # "finish" => new[k].c = c
  BY DEF Conns, Moves
<1>2. \A m, x : MsgOK(m, x) => MsgOK(m, x)'
  BY DEF MsgOK, Rest, Reqs
<1>3. \A it, of, st : Own(it, of, st) => Own(it, of, st)'
  BY DEF Own, Rest, Reqs, Answered, Id
<1>4. ASSUME NEW k \in 1..Len(ready')
      PROVE  LET j == ready'[k]
             IN  /\ Reading(j) => MsgOK(j.msg, j.c)
                 /\ j.kind = "finish" =>
                       j.it \in Reqs /\ Own(j.it, j.msg.of, j.msg.raw)
  <2>1. CASE k + d \in 1..Len(ready) /\ ready'[k] = ready[k + d]
    BY <2>1 DEF MsgInv
  <2>2. CASE 1 \in 1..Len(new) /\ ready'[k] = new[1]
    BY <1>1, <2>2 DEF Reading
  <2> QED BY <2>1, <2>2, QueueFacts
<1>5. ASSUME NEW x \in Conns
      PROVE  (/\ conn[x].rop = "body" => MsgOK(conn[x].msg, x)
              /\ \A k \in 1..Len(conn[x].resp) : MsgOK(conn[x].resp[k], x))'
  <2>1. CASE x = c
    BY <1>1, <1>2, <2>1
  <2>2. CASE x # c
    BY <1>1, <1>2, <2>2 DEF MsgInv
  <2> QED BY <2>1, <2>2
<1>6. Reqs' = Reqs /\ answers' = answers
  BY DEF Reqs, Rest
<1>7. ASSUME NEW r \in 1..MaxCalls, NEW k \in 1..Len(answers'[r])
      PROVE  Own(r, answers[r][k].of, answers[r][k].st)'
  BY <1>3, <1>6 DEF MsgInv
<1> QED BY <1>1, <1>2, <1>3, <1>4, <1>5, <1>6, <1>7 DEF MsgInv, Reading

-----------------------------------------------------------------------------
(* Requests on their way out.                                              *)

LEMMA SendMoves ==
    ASSUME NEW c, NEW u, NEW d, NEW new, Moves(c, u, d, new), TypeInv, Rest,
           SendInv, NEW o, o = (IF u.wop THEN u.mWriteBuffers ELSE <<>>),
           Line(u.wire, o, u.mPendingBuffers, c),
           \A k \in 1..Len(ready) :
              ready[k].kind = "send" /\ ready[k].c = c /\ k > d =>
                 /\ Under(u.wire, ready[k].it) /\ Under(o, ready[k].it)
                 /\ Under(u.mPendingBuffers, ready[k].it),
           \A k \in 1..Len(new) : new[k].kind # "send"
    PROVE  SendInv'
<1>1. /\ Conns' = Conns /\ c \in Conns /\ conn'[c] = u /\ d \in {0, 1}
      /\ \A x \in Conns : x # c => conn'[x] = conn[x]
  BY DEF Conns, Moves
<1>2. \A r, x : Waits(r, x)' <=> Waits(r, x)
  BY DEF Waits, Rest, Reqs
<1>3. \A w, p, q, x : Line(w, p, q, x) => Line(w, p, q, x)'
  BY <1>2, SMTT(20) DEF Line, Unserved, Incr, Before
<1>4. Out(c)' = o /\ \A x \in Conns : x # c => Out(x)' = Out(x)
  BY <1>1 DEF Out
<1>5. ASSUME NEW k \in 1..Len(ready'), ready'[k].kind = "send"
      PROVE  k + d \in 1..Len(ready) /\ ready'[k] = ready[k + d] /\ k + d > d
  <2>1. k + d \in 1..Len(ready) /\ ready'[k] = ready[k + d]
    BY <1>5, QueueFacts
  <2>2. k + d > d
    BY <1>1, QueueFacts
  <2> QED BY <2>1, <2>2
<1>6. ASSUME NEW x \in Conns
      PROVE  Line(conn[x].wire, Out(x), conn[x].mPendingBuffers, x)'
  <2>1. CASE x = c
    BY <1>1, <1>3, <1>4, <2>1
  <2>2. CASE x # c
    BY <1>1, <1>3, <1>4, <2>2 DEF SendInv
  <2> QED BY <2>1, <2>2
<1>7. ASSUME NEW k \in 1..Len(ready'), ready'[k].kind = "send"
      PROVE  (/\ Waits(ready[k].it, ready[k].c)
              /\ Under(conn[ready[k].c].wire, ready[k].it)
              /\ Under(Out(ready[k].c), ready[k].it)
              /\ Under(conn[ready[k].c].mPendingBuffers, ready[k].it))'
  <2>1. k + d \in 1..Len(ready) /\ ready'[k] = ready[k + d] /\ k + d > d
    BY <1>5, <1>7
  <2> DEFINE j == ready[k + d]
  <2>2. /\ Waits(j.it, j.c) /\ j.kind = "send" /\ j.c \in Conns
        /\ Under(conn[j.c].wire, j.it) /\ Under(Out(j.c), j.it)
        /\ Under(conn[j.c].mPendingBuffers, j.it)
    BY <1>7, <2>1 DEF SendInv, TypeInv, Shaped
  <2>3. Waits(ready[k].it, ready[k].c)'
    BY <1>2, <2>1, <2>2
  <2>4. CASE j.c = c
    <3>1. /\ Under(u.wire, j.it) /\ Under(o, j.it)
          /\ Under(u.mPendingBuffers, j.it)
      BY <2>1, <2>2, <2>4
    <3> HIDE DEF j
    <3>2. ready'[k] = j
      BY <2>1 DEF j
    <3> QED BY <1>1, <1>4, <2>3, <2>4, <3>1, <3>2 DEF Under
  <2>5. CASE j.c # c
    <3> HIDE DEF j
    <3>2. ready'[k] = j
      BY <2>1 DEF j
    <3> QED BY <1>1, <1>4, <2>2, <2>3, <2>5, <3>2 DEF Under
  <2> QED BY <2>4, <2>5
<1>8. ASSUME NEW k \in 1..Len(ready'), NEW l \in 1..Len(ready'), k < l,
             ready'[k].kind = "send", ready'[l].kind = "send"
      PROVE  ready'[k].it < ready'[l].it
  <2>1. /\ k + d \in 1..Len(ready) /\ ready'[k] = ready[k + d]
        /\ l + d \in 1..Len(ready) /\ ready'[l] = ready[l + d]
    BY <1>5, <1>8
  <2>2. k + d < l + d
    BY <1>1, <1>8, QueueFacts
  <2> QED BY <1>8, <2>1, <2>2 DEF SendInv
<1> QED BY <1>1, <1>6, <1>7, <1>8 DEF SendInv

LEMMA SendKept ==
    ASSUME NEW c, NEW u, NEW d, NEW new, Moves(c, u, d, new), TypeInv, Rest,
           SendInv, u.wire = conn[c].wire,
           u.mPendingBuffers = conn[c].mPendingBuffers,
           u.wop => conn[c].wop /\ u.mWriteBuffers = conn[c].mWriteBuffers,
           \A k \in 1..Len(new) : new[k].kind # "send"
    PROVE  SendInv'
<1> DEFINE o == IF u.wop THEN u.mWriteBuffers ELSE <<>>
<1>1. c \in Conns
  BY DEF Moves
<1>2. o = Out(c) \/ o = <<>>
  BY DEF Out
<1>3. Line(u.wire, o, u.mPendingBuffers, c)
  BY <1>1, <1>2 DEF SendInv, Line, Incr, Before, Unserved
<1>4. \A k \in 1..Len(ready) :
         ready[k].kind = "send" /\ ready[k].c = c /\ k > d =>
            /\ Under(u.wire, ready[k].it) /\ Under(o, ready[k].it)
            /\ Under(u.mPendingBuffers, ready[k].it)
  BY <1>1, <1>2 DEF SendInv, Under
<1> HIDE DEF o
<1> QED BY <1>3, <1>4, SendMoves DEF o

-----------------------------------------------------------------------------
(* Where a request is.                                                     *)

LEMMA WayMoves ==
    ASSUME NEW c, NEW u, NEW d, NEW new, Moves(c, u, d, new), TypeInv, Rest,
           WayInv,
           \A r \in mRequests :
              /\ calls[r].c = c /\ calls[r].kind # "Stat"
              /\ Holds(conn[c], r) \/ (d = 1 /\ Carries(ready[1], r))
              => \/ Holds(u, r)
                 \/ \E k \in 1..Len(new) :
                       \/ Carries(new[k], r) /\ new[k].c = c
                       \/ new[k].kind = "finish" /\ new[k].it = r
    PROVE  WayInv'
<1>1. /\ Conns' = Conns /\ c \in Conns /\ conn'[c] = u
      /\ \A x \in Conns : x # c => conn'[x] = conn[x]
  BY DEF Conns, Moves
<1>2. ASSUME NEW r, Posted(r) PROVE Posted(r)'
  <2>1. PICK k \in 1..Len(ready) : ready[k].kind = "finish" /\ ready[k].it = r
    BY <1>2 DEF Posted
  <2>2. k - d \in 1..Len(ready') /\ ready'[k - d] = ready[k]
    BY <2>1, QueueFacts
  <2> QED BY <2>1, <2>2 DEF Posted
<1>3. ASSUME NEW r \in mRequests, NEW x \in Conns, calls[r].c = x,
             calls[r].kind # "Stat", Underway(r, x)
      PROVE  Underway(r, x)' \/ Posted(r)'
  <2>1. \A j : Carries(j, r)' <=> Carries(j, r)
    BY DEF Carries, Reading
  <2>2. \A v : Holds(v, r)' <=> Holds(v, r)
    BY DEF Holds, Among
  <2>3. CASE x = c /\ (Holds(conn[c], r) \/ (d = 1 /\ Carries(ready[1], r)))
    <3>1. CASE Holds(u, r)
      BY <1>1, <2>2, <2>3, <3>1 DEF Underway
    <3>2. CASE \E k \in 1..Len(new) :
                  \/ Carries(new[k], r) /\ new[k].c = c
                  \/ new[k].kind = "finish" /\ new[k].it = r
      <4>1. PICK k \in 1..Len(new) :
                  \/ Carries(new[k], r) /\ new[k].c = c
                  \/ new[k].kind = "finish" /\ new[k].it = r
        BY <3>2
      <4>2. Len(ready') \in 1..Len(ready') /\ ready'[Len(ready')] = new[k]
        BY QueueFacts
      <4> QED BY <2>1, <2>3, <4>1, <4>2 DEF Underway, Posted
    <3> QED BY <1>3, <2>3, <3>1, <3>2
  <2>4. CASE x # c /\ Holds(conn[x], r)
    BY <1>1, <2>2, <2>4 DEF Underway
  <2>5. CASE /\ ~(x = c /\ (Holds(conn[c], r) \/ (d = 1 /\ Carries(ready[1], r))))
             /\ ~(x # c /\ Holds(conn[x], r))
    <3>1. PICK k \in 1..Len(ready) : ready[k].c = x /\ Carries(ready[k], r)
      BY <1>3, <2>5 DEF Underway
    <3>2. k - d \in 1..Len(ready') /\ ready'[k - d] = ready[k]
      BY <2>5, <3>1, QueueFacts
    <3> QED BY <2>1, <3>1, <3>2 DEF Underway
  <2> QED BY <2>3, <2>4, <2>5
<1>4. ASSUME NEW r \in mRequests
      PROVE  (\/ Posted(r) \/ calls[r].kind = "Stat"
              \/ /\ calls[r].c \in mServers
                 /\ said[r] = Silent \/ Underway(r, calls[r].c))'
  <2>1. calls[r].c \in Conns
    BY DEF TypeInv
  <2>2. /\ calls' = calls /\ mServers' = mServers /\ said' = said
    BY DEF Rest
  <2> QED BY <1>2, <1>3, <2>1, <2>2 DEF WayInv
<1>5. mRequests' = mRequests
  BY DEF Rest
<1> QED BY <1>4, <1>5 DEF WayInv

-----------------------------------------------------------------------------
(* Alignment and freshness.                                                *)

LEMMA CalmSame ==
    ASSUME Rest, Len(conn') = Len(conn)
    PROVE  /\ Calm' = Calm
           /\ Fresh' = Fresh
           /\ \A S : Called(S)' = Called(S)
BY DEF Rest, Calm, Fresh, Called, Removed, Reused

LEMMA AlignMoves ==
    ASSUME NEW c, NEW u, NEW d, NEW new, Moves(c, u, d, new), Rest, AlignInv,
           Calm /\ ~Called({"Get"}) /\ conn[c].fit = "fits" => u.fit = "fits"
    PROVE  AlignInv'
<1>1. /\ Conns' = Conns /\ c \in Conns /\ conn'[c] = u
      /\ \A x \in Conns : x # c => conn'[x] = conn[x]
      /\ Len(conn') = Len(conn)
  BY DEF Conns, Moves
<1>2. Calm' = Calm /\ Called({"Get"})' = Called({"Get"})
  BY <1>1, CalmSame
<1> QED BY <1>1, <1>2 DEF AlignInv

LEMMA FreshMoves ==
    ASSUME NEW c, NEW u, NEW d, NEW new, Moves(c, u, d, new), TypeInv, Rest,
           FreshInv,
           Fresh => \A i \in 1..Len(new) : new[i].kind = "finish" =>
              /\ new[i].it \in mRequests
              /\ \A k \in 1..Len(ready) :
                    /\ ready[k].kind = "finish" => ready[k].it # new[i].it
                    /\ k > d /\ Reading(ready[k]) =>
                          Id(ready[k].msg.of) # Id(new[i].it)
    PROVE  FreshInv'
<1>1. Len(conn') = Len(conn) /\ d \in {0, 1}
  BY DEF Moves
<1>2. Fresh' = Fresh
  BY <1>1, CalmSame
<1>3. SUFFICES ASSUME Fresh, NEW k \in 1..Len(ready'),
                      ready'[k].kind = "finish"
               PROVE  /\ ready'[k].it \in mRequests
                      /\ \A l \in 1..Len(ready') :
                            ready'[l].kind = "finish" /\ l # k =>
                               ready'[l].it # ready'[k].it
                      /\ \A l \in 1..(k - 1) :
                            Reading(ready'[l]) =>
                               Id(ready'[l].msg.of) # Id(ready'[k].it)
  BY <1>2 DEF FreshInv, Rest, Reading, Id
<1>4. CASE k + d \in 1..Len(ready) /\ ready'[k] = ready[k + d]
  <2>1. ready[k + d].it \in mRequests
    BY <1>3, <1>4 DEF FreshInv
  <2>2. ASSUME NEW l \in 1..Len(ready'), ready'[l].kind = "finish", l # k
        PROVE  ready'[l].it # ready'[k].it
    <3>1. CASE l + d \in 1..Len(ready) /\ ready'[l] = ready[l + d]
      <4>1. l + d # k + d
        BY <1>1, <2>2, QueueFacts
      <4> QED BY <1>3, <1>4, <2>2, <3>1, <4>1 DEF FreshInv
    <3>2. CASE 1 \in 1..Len(new) /\ ready'[l] = new[1]
      BY <1>3, <1>4, <2>2, <3>2
    <3> QED BY <3>1, <3>2, QueueFacts
  <2>3. ASSUME NEW l \in 1..(k - 1), Reading(ready'[l])
        PROVE  Id(ready'[l].msg.of) # Id(ready'[k].it)
    <3>1. l \in 1..Len(ready') /\ l # Len(ready')
      BY QueueFacts
    <3>2. l + d \in 1..Len(ready) /\ ready'[l] = ready[l + d]
      BY <3>1, QueueFacts
    <3> DEFINE a == l + d
               b == k + d
    <3>3. a \in 1..(b - 1) /\ b \in 1..Len(ready)
      BY <1>1, <1>4, QueueFacts
    <3>4. ready[b].kind = "finish" /\ Reading(ready[a])
      BY <1>3, <1>4, <2>3, <3>2
    <3> HIDE DEF a, b
    <3>5. Id(ready[a].msg.of) # Id(ready[b].it)
      BY <1>3, <3>3, <3>4 DEF FreshInv
    <3> QED BY <1>4, <3>2, <3>5 DEF a, b
  <2> QED BY <1>4, <2>1, <2>2, <2>3
<1>5. CASE 1 \in 1..Len(new) /\ ready'[k] = new[1] /\ k = Len(ready')
  <2>1. new[1].it \in mRequests
    BY <1>3, <1>5
  <2>2. ASSUME NEW l \in 1..Len(ready'), l # k
        PROVE  l + d \in 1..Len(ready) /\ ready'[l] = ready[l + d] /\ l + d > d
    <3>1. l + d \in 1..Len(ready) /\ ready'[l] = ready[l + d]
      BY <1>5, <2>2, QueueFacts
    <3>2. l + d > d
      BY <1>1, QueueFacts
    <3> QED BY <3>1, <3>2
  <2>3. ASSUME NEW l \in 1..Len(ready'), ready'[l].kind = "finish", l # k
        PROVE  ready'[l].it # ready'[k].it
    BY <1>3, <1>5, <2>2, <2>3
  <2>4. ASSUME NEW l \in 1..(k - 1), Reading(ready'[l])
        PROVE  Id(ready'[l].msg.of) # Id(ready'[k].it)
    <3>1. l \in 1..Len(ready') /\ l # k
      BY QueueFacts
    <3> QED BY <1>3, <1>5, <2>2, <2>4, <3>1
  <2> QED BY <1>5, <2>1, <2>3, <2>4
<1> QED BY <1>4, <1>5, QueueFacts

-----------------------------------------------------------------------------
(* One response per request, while it is calm.                             *)

Apart(resp, r) == \A i \in 1..Len(resp) : resp[i].of # r

LEMMA OneMoves ==
    ASSUME NEW c, NEW u, NEW d, NEW new, Moves(c, u, d, new), TypeInv, Rest,
           OneInv, MsgInv, c \in mServers,
           Calm => /\ \A i \in 1..Len(u.resp) :
                         /\ Alive(u.resp[i].of)
                         /\ \A j \in 1..Len(u.resp) :
                               i # j => u.resp[i].of # u.resp[j].of
                   /\ u.rop = "body" =>
                         Alive(u.msg.of) /\ Apart(u.resp, u.msg.of)
                   /\ \A k \in 1..Len(ready) :
                         k > d /\ Reading(ready[k]) /\ ready[k].c = c =>
                            Apart(u.resp, ready[k].msg.of),
           Calm => \A i \in 1..Len(new) :
              /\ Reading(new[i]) => /\ Alive(new[i].msg.of)
                                    /\ Apart(u.resp, new[i].msg.of)
              /\ new[i].kind = "finish" =>
                    /\ new[i].it \in Reqs /\ calls[new[i].it].c = c
                    /\ said[new[i].it] # Unsaid
                    /\ Apart(u.resp, new[i].it) /\ u.rop # "body"
                    /\ \A k \in 1..Len(ready) :
                          ~(k > d /\ Reading(ready[k]) /\ ready[k].c = c)
    PROVE  OneInv'
<1>1. /\ Conns' = Conns /\ c \in Conns /\ conn'[c] = u /\ d \in {0, 1}
      /\ \A x \in Conns : x # c => conn'[x] = conn[x]
      /\ Len(conn') = Len(conn)
      /\ \A i \in 1..Len(new) : new[i].kind # "finish" => new[i].c = c
  BY DEF Conns, Moves
<1>2. SUFFICES ASSUME Calm, Calm' PROVE OneInv'
  BY <1>1, CalmSame DEF OneInv
<1>3. /\ calls' = calls /\ mRequests' = mRequests /\ mServers' = mServers
      /\ said' = said /\ Reqs' = Reqs /\ mServers \subseteq Conns
  BY DEF Rest, Reqs, TypeInv
<1>4. ASSUME NEW r, Alive(r),
             \A i \in 1..Len(new) : new[i].kind = "finish" => new[i].it # r
      PROVE  Alive(r)'
  <2>1. SUFFICES ASSUME NEW k \in 1..Len(ready'),
                        ready'[k].kind = "finish", ready'[k].it = r
                 PROVE  FALSE
    BY <1>3, <1>4 DEF Alive, Posted
  <2>2. CASE k + d \in 1..Len(ready) /\ ready'[k] = ready[k + d]
    BY <1>4, <2>1, <2>2 DEF Alive, Posted
  <2>3. CASE 1 \in 1..Len(new) /\ ready'[k] = new[1]
    BY <1>4, <2>1, <2>3
  <2> QED BY <2>2, <2>3, QueueFacts
\* the request finished is of c
<1>5. ASSUME NEW m, NEW x \in Conns, MsgOK(m, x), x # c, Alive(m.of)
      PROVE  Alive(m.of)'
  BY <1>2, <1>4, <1>5 DEF MsgOK
<1>6. ASSUME NEW r \in Reqs, calls[r].c \in mServers, said[r] = Unsaid
      PROVE  Alive(r)'
  <2>1. Alive(r)
    BY <1>2, <1>6 DEF OneInv
  <2> QED BY <1>2, <1>4, <1>6, <2>1
<1>7. ASSUME NEW x \in mServers
      PROVE  (/\ \A i \in 1..Len(conn[x].resp) :
                    /\ Alive(conn[x].resp[i].of)
                    /\ \A j \in 1..Len(conn[x].resp) :
                          i # j => conn[x].resp[i].of # conn[x].resp[j].of
              /\ conn[x].rop = "body" =>
                    /\ Alive(conn[x].msg.of)
                    /\ \A i \in 1..Len(conn[x].resp) :
                          conn[x].resp[i].of # conn[x].msg.of)'
  <2>1. CASE x = c
    <3>1. \A i \in 1..Len(u.resp) : Alive(u.resp[i].of)'
      BY <1>2, <1>4 DEF Apart
    <3>2. u.rop = "body" => Alive(u.msg.of)'
      BY <1>2, <1>4
    <3> QED BY <1>1, <1>2, <2>1, <3>1, <3>2 DEF Apart
  <2>2. CASE x # c
    <3>1. x \in Conns /\ conn'[x] = conn[x]
      BY <1>1, <1>3, <2>2
    <3>2. \A i \in 1..Len(conn[x].resp) : Alive(conn[x].resp[i].of)'
      <4> TAKE i \in 1..Len(conn[x].resp)
      <4>1. MsgOK(conn[x].resp[i], x) /\ Alive(conn[x].resp[i].of)
        BY <1>2, <3>1 DEF MsgInv, OneInv
      <4> QED BY <1>5, <2>2, <3>1, <4>1
    <3>3. conn[x].rop = "body" => Alive(conn[x].msg.of)'
      <4>1. conn[x].rop = "body" => MsgOK(conn[x].msg, x) /\ Alive(conn[x].msg.of)
        BY <1>2, <3>1 DEF MsgInv, OneInv
      <4> QED BY <1>5, <2>2, <3>1, <4>1
    <3> QED BY <1>2, <3>1, <3>2, <3>3 DEF OneInv
  <2> QED BY <2>1, <2>2
<1>8. ASSUME NEW k \in 1..Len(ready'), Reading(ready'[k]),
             ready'[k].c \in mServers
      PROVE  (/\ Alive(ready[k].msg.of)
              /\ \A i \in 1..Len(conn[ready[k].c].resp) :
                    conn[ready[k].c].resp[i].of # ready[k].msg.of)'
  <2>1. CASE k + d \in 1..Len(ready) /\ ready'[k] = ready[k + d]
    <3>1. /\ Alive(ready[k + d].msg.of)
          /\ MsgOK(ready[k + d].msg, ready[k + d].c)
          /\ \A i \in 1..Len(conn[ready[k + d].c].resp) :
                conn[ready[k + d].c].resp[i].of # ready[k + d].msg.of
      BY <1>2, <1>8, <2>1 DEF OneInv, MsgInv
    <3>2. k + d > d
      BY <1>1, QueueFacts
    <3>3. CASE ready'[k].c = c
      <4>1. Apart(u.resp, ready'[k].msg.of)
        BY <1>2, <1>8, <2>1, <3>2, <3>3
      <4>2. Alive(ready[k].msg.of)'
        BY <1>2, <1>4, <1>8, <2>1, <3>1, <3>2, <3>3
      <4> QED BY <1>1, <3>3, <4>1, <4>2 DEF Apart
    <3>4. CASE ready'[k].c # c
      <4>1. Alive(ready[k].msg.of)'
        BY <1>3, <1>5, <1>8, <2>1, <3>1, <3>4
      <4>2. conn'[ready'[k].c] = conn[ready'[k].c]
        BY <1>1, <1>3, <1>8, <3>4
      <4> QED BY <2>1, <3>1, <4>1, <4>2
    <3> QED BY <3>3, <3>4
  <2>2. CASE 1 \in 1..Len(new) /\ ready'[k] = new[1]
    <3>1. /\ Alive(new[1].msg.of) /\ Apart(u.resp, new[1].msg.of)
          /\ new[1].kind # "finish" /\ new[1].c = c
      BY <1>1, <1>2, <1>8, <2>2 DEF Reading
    <3>2. \A i \in 1..Len(new) : i = 1
      BY QueueFacts
    <3>3. Alive(ready[k].msg.of)'
      BY <1>4, <2>2, <3>1, <3>2
    <3> QED BY <1>1, <2>2, <3>1, <3>3 DEF Apart
  <2> QED BY <2>1, <2>2, QueueFacts
<1> QED BY <1>3, <1>6, <1>7, <1>8 DEF OneInv, Reading

\* Nothing of it changes when no response is taken from the stream or lost.
LEMMA OneKept ==
    ASSUME NEW c, NEW u, NEW d, NEW new, Moves(c, u, d, new), TypeInv, Rest,
           OneInv, MsgInv, c \in mServers, u.resp = conn[c].resp,
           u.rop = "body" => conn[c].rop = "body" /\ u.msg = conn[c].msg,
           \A i \in 1..Len(new) : new[i].kind # "finish" /\ ~Reading(new[i])
    PROVE  OneInv'
<1>1. Calm => /\ \A i \in 1..Len(u.resp) :
                    /\ Alive(u.resp[i].of)
                    /\ \A j \in 1..Len(u.resp) :
                          i # j => u.resp[i].of # u.resp[j].of
              /\ u.rop = "body" =>
                    Alive(u.msg.of) /\ Apart(u.resp, u.msg.of)
              /\ \A k \in 1..Len(ready) :
                    k > d /\ Reading(ready[k]) /\ ready[k].c = c =>
                       Apart(u.resp, ready[k].msg.of)
  BY SMTT(20) DEF OneInv, Apart
<1> QED BY <1>1, OneMoves

-----------------------------------------------------------------------------
(* The actions of the kernel.                                              *)

LEMMA MovesAppend ==
    ASSUME TypeInv, NEW c \in Conns, NEW u \in ConnRec, NEW e \in JobRec,
           conn' = [conn EXCEPT ![c] = u], ready' = Append(ready, e),
           Shaped(e), e.kind # "finish" => e.c = c
    PROVE  Moves(c, u, 0, <<e>>)
<1>1. /\ conn' \in Seq(ConnRec) /\ Len(conn') = Len(conn)
      /\ conn'[c] = u /\ \A x \in Conns : x # c => conn'[x] = conn[x]
  BY Updated
<1>2. ready' \in Seq(JobRec) /\ Queued(ready, 0, <<e>>, ready')
  BY QueuedAppend DEF TypeInv
<1>3. <<e>> \in Seq(JobRec)
  OBVIOUS
<1> QED BY <1>1, <1>2, <1>3, OneElement DEF Moves

LEMMA MovesTail ==
    ASSUME TypeInv, NEW c \in Conns, NEW u \in ConnRec,
           conn' = [conn EXCEPT ![c] = u], ready # <<>>, ready' = Tail(ready),
           Head(ready).kind # "finish", Head(ready).c = c
    PROVE  Moves(c, u, 1, <<>>)
<1>1. /\ conn' \in Seq(ConnRec) /\ Len(conn') = Len(conn)
      /\ conn'[c] = u /\ \A x \in Conns : x # c => conn'[x] = conn[x]
  BY Updated
<1>2. ready' \in Seq(JobRec) /\ Queued(ready, 1, <<>>, ready')
  BY QueuedNone DEF TypeInv
<1>3. <<>> \in Seq(JobRec)
  BY EmptySeq
<1>4. 1 \in 1..Len(ready) /\ ready[1] = Head(ready)
  BY Typed
<1> QED BY <1>1, <1>2, <1>3, <1>4, NoElement DEF Moves

LEMMA MovesTailAppend ==
    ASSUME TypeInv, NEW c \in Conns, NEW u \in ConnRec, NEW e \in JobRec,
           conn' = [conn EXCEPT ![c] = u],
           ready # <<>>, ready' = Append(Tail(ready), e),
           Head(ready).kind # "finish", Head(ready).c = c,
           Shaped(e), e.kind # "finish" => e.c = c
    PROVE  Moves(c, u, 1, <<e>>)
<1>1. /\ conn' \in Seq(ConnRec) /\ Len(conn') = Len(conn)
      /\ conn'[c] = u /\ \A x \in Conns : x # c => conn'[x] = conn[x]
  BY Updated
<1>2. ready' \in Seq(JobRec) /\ Queued(ready, 1, <<e>>, ready')
  BY QueuedTailAppend DEF TypeInv
<1>3. <<e>> \in Seq(JobRec)
  OBVIOUS
<1>4. 1 \in 1..Len(ready) /\ ready[1] = Head(ready)
  BY Typed
<1> QED BY <1>1, <1>2, <1>3, <1>4, OneElement DEF Moves

\* All parts but FaultsExplained, which says nothing while fault = "none".
LEMMA Gather ==
    ASSUME fault' = "none", TypeInv', TableInv', SendInv', MsgInv', OpInv',
           WayInv', OneInv', AlignInv', FreshInv'
    PROVE  IInv'
BY DEF IInv, FaultsExplained

LEMMA NoMsgType == NoMsg \in Msg /\ NoMsg.of = 0
BY DEF NoMsg, Msg

\* The jobs of a connection.
LEMMA JobType ==
    ASSUME NEW kind \in {"send", "write", "connect", "header", "body"},
           NEW c \in Conns, TypeInv, NEW ok \in BOOLEAN, NEW m \in Msg,
           NEW it \in Nat, kind = "send" => ok
    PROVE  LET e == Job(kind, c, ok, m, it)
           IN  /\ e \in JobRec /\ Shaped(e) /\ e.kind = kind /\ e.c = c
               /\ e.ok = ok /\ e.msg = m /\ e.it = it
<1>1. c \in Nat
  BY Typed DEF Conns
<1> QED BY <1>1 DEF Job, JobRec, Shaped

LEMMA GoodJob ==
    ASSUME NEW kind \in {"send", "write", "connect", "header", "body"},
           NEW c \in Conns, TypeInv, NEW m \in Msg, NEW it \in Nat
    PROVE  LET e == Job(kind, c, TRUE, m, it)
           IN  /\ e \in JobRec /\ Shaped(e) /\ e.kind = kind /\ e.c = c
               /\ e.ok /\ e.msg = m /\ e.it = it
<1>1. c \in Nat
  BY Typed DEF Conns
<1> QED BY <1>1 DEF Job, JobRec, Shaped

LEMMA FailedJob ==
    ASSUME NEW kind \in {"write", "connect", "header", "body"},
           NEW c \in Conns, TypeInv
    PROVE  LET e == Job(kind, c, FALSE, NoMsg, 0)
           IN  /\ e \in JobRec /\ Shaped(e) /\ e.kind = kind /\ e.c = c
               /\ ~e.ok
<1>1. c \in Nat
  BY Typed DEF Conns
<1> QED BY <1>1, NoMsgType DEF Job, JobRec, Shaped

\* The two halves of a connection: writing and reading.
SameLine(u, v) == /\ u.wire = v.wire /\ u.wop = v.wop
                  /\ u.mPendingBuffers = v.mPendingBuffers
                  /\ u.mWriteBuffers = v.mWriteBuffers
                  /\ u.mPendingRequests = v.mPendingRequests
                  /\ v.swallowed \subseteq u.swallowed
SameRead(u, v) == /\ u.rop = v.rop /\ u.msg = v.msg /\ u.resp = v.resp
                  /\ u.fit = v.fit /\ u.swallowed = v.swallowed
                  /\ u.mPendingRequests = v.mPendingRequests

\* A step of the writing half.
LEMMA LineStep ==
    ASSUME NEW c \in mServers, NEW u, NEW d, NEW new, Moves(c, u, d, new),
           IInv, fault = "none", Rest, SameRead(u, conn[c]),
           \A k \in 1..Len(new) : new[k].kind = "write" /\ ~(u.wop /\ new[k].ok),
           d = 1 => ~Reading(ready[1]),
           SendInv', OpInv',
           \A r \in mRequests :
              \/ Among(r, conn[c].mPendingBuffers) \/ Among(r, conn[c].wire)
              \/ conn[c].wop /\ Among(r, conn[c].mWriteBuffers)
              \/ d = 1 /\ Carries(ready[1], r)
              => \/ Among(r, u.mPendingBuffers) \/ Among(r, u.wire)
                 \/ u.wop /\ Among(r, u.mWriteBuffers)
                 \/ \E k \in 1..Len(new) : ~new[k].ok
    PROVE  IInv'
<1> USE DEF IInv
<1>1. c \in Conns
  BY DEF TypeInv
<1>2. TypeInv' /\ TableInv'
  BY TypeMoves, TableMoves DEF SameRead
<1>3. \A k \in 1..Len(new) : ~Reading(new[k]) /\ new[k].kind # "finish"
  BY DEF Reading
<1>4. MsgInv'
  <2>1. u.rop = "body" => MsgOK(u.msg, c)
    BY <1>1 DEF SameRead, MsgInv
  <2>2. \A k \in 1..Len(u.resp) : MsgOK(u.resp[k], c)
    BY <1>1 DEF SameRead, MsgInv
  <2> QED BY <1>3, <2>1, <2>2, MsgMoves
<1>5. WayInv'
  <2>1. ASSUME NEW r \in mRequests,
               Holds(conn[c], r) \/ (d = 1 /\ Carries(ready[1], r))
        PROVE  \/ Holds(u, r)
               \/ \E k \in 1..Len(new) :
                     \/ Carries(new[k], r) /\ new[k].c = c
                     \/ new[k].kind = "finish" /\ new[k].it = r
    <3>1. \A k \in 1..Len(new) : new[k].c = c /\ (~new[k].ok => Carries(new[k], r))
      BY DEF Moves, Carries
    <3>2. CASE \/ Among(r, conn[c].mPendingBuffers) \/ Among(r, conn[c].wire)
               \/ conn[c].wop /\ Among(r, conn[c].mWriteBuffers)
               \/ d = 1 /\ Carries(ready[1], r)
      BY <3>1, <3>2 DEF Holds
    <3>3. CASE \/ \E k \in 1..Len(conn[c].resp) : conn[c].resp[k].of = r
               \/ conn[c].rop = "body" /\ conn[c].msg.of = r
               \/ r \in conn[c].swallowed
      BY <3>3 DEF Holds, SameRead
    <3> QED BY <2>1, <3>2, <3>3 DEF Holds
  <2> QED BY <2>1, WayMoves
<1>6. OneInv'
  BY <1>3, OneKept DEF SameRead
<1>7. AlignInv'
  BY AlignMoves DEF SameRead
<1>8. FreshInv'
  BY <1>3, FreshMoves
<1>9. fault' = "none"
  BY DEF Rest
<1> QED BY <1>2, <1>4, <1>5, <1>6, <1>7, <1>8, <1>9, Gather

\* A response the connection had, it still has, or new carries it on.
Forwards(c, u, d, new) ==
    \A r \in mRequests :
       /\ calls[r].c = c /\ calls[r].kind # "Stat"
       /\ \/ \E k \in 1..Len(conn[c].resp) : conn[c].resp[k].of = r
          \/ conn[c].rop = "body" /\ conn[c].msg.of = r
          \/ d = 1 /\ Carries(ready[1], r)
       => \/ Holds(u, r)
          \/ \E k \in 1..Len(new) :
                \/ Carries(new[k], r)
                \/ new[k].kind = "finish" /\ new[k].it = r

\* A step of the reading half.
LEMMA ReadStep ==
    ASSUME NEW c \in mServers, NEW u, NEW d, NEW new, Moves(c, u, d, new),
           IInv, fault = "none", Rest, SameLine(u, conn[c]),
           \A k \in 1..Len(new) :
              \/ new[k].kind = "finish"
              \/ ReadJob(new[k]) /\ conn[c].rop # "none" /\ u.rop = "none",
           d = 1 => ReadJob(ready[1]),
           u.rop # "none" => conn[c].rop # "none" \/ d = 1,
           Forwards(c, u, d, new),
           Calm /\ ~Called({"Get"}) /\ conn[c].fit = "fits" => u.fit = "fits",
           MsgInv', OneInv', FreshInv'
    PROVE  IInv'
<1> USE DEF IInv
<1>1. c \in Conns /\ d \in {0, 1}
  BY DEF TypeInv, Moves
<1>2. TypeInv' /\ TableInv'
  BY TypeMoves, TableMoves DEF SameLine
<1>3. \A k \in 1..Len(new) : new[k].kind # "send" /\ new[k].kind # "write"
  BY DEF ReadJob
<1>4. SendInv'
  BY <1>3, SendKept DEF SameLine
<1>5. OpInv'
  <2>1. conn[c].wop => conn[c].mWriteBuffers # <<>>
    BY <1>1 DEF OpInv
  <2>2. \A k \in 1..Len(new) :
           /\ ReadJob(new[k]) => conn[c].rop # "none" /\ u.rop = "none"
           /\ new[k].kind = "write" => ~u.wop
    BY <1>3 DEF ReadJob
  <2> QED BY <1>3, <2>1, <2>2, OpMoves DEF SameLine
<1>6. WayInv'
  <2>1. ASSUME NEW r \in mRequests, calls[r].c = c, calls[r].kind # "Stat",
               Holds(conn[c], r) \/ (d = 1 /\ Carries(ready[1], r))
        PROVE  \/ Holds(u, r)
               \/ \E k \in 1..Len(new) :
                     \/ Carries(new[k], r) /\ new[k].c = c
                     \/ new[k].kind = "finish" /\ new[k].it = r
    <3>1. \A k \in 1..Len(new) :
             new[k].c = c \/ (new[k].kind = "finish" /\ ~Carries(new[k], r))
      BY DEF Moves, Carries, Reading, Shaped
    <3>2. CASE \/ Among(r, conn[c].mPendingBuffers) \/ Among(r, conn[c].wire)
               \/ conn[c].wop /\ Among(r, conn[c].mWriteBuffers)
               \/ r \in conn[c].swallowed
      BY <3>2 DEF Holds, SameLine
    <3>3. CASE \/ \E k \in 1..Len(conn[c].resp) : conn[c].resp[k].of = r
               \/ conn[c].rop = "body" /\ conn[c].msg.of = r
               \/ d = 1 /\ Carries(ready[1], r)
      BY <2>1, <3>1, <3>3 DEF Forwards
    <3> QED BY <2>1, <3>2, <3>3 DEF Holds
  <2> QED BY <2>1, WayMoves
<1>7. AlignInv'
  BY AlignMoves
<1>8. fault' = "none"
  BY DEF Rest
<1> QED BY <1>2, <1>4, <1>5, <1>6, <1>7, <1>8, Gather

\* A step of the reading half that reads no response.
LEMMA ReadKept ==
    ASSUME NEW c \in mServers, NEW u, NEW d, NEW new, Moves(c, u, d, new),
           IInv, fault = "none", Rest, SameLine(u, conn[c]),
           u.resp = conn[c].resp, u.rop # "body",
           \A k \in 1..Len(new) :
              /\ ReadJob(new[k]) /\ conn[c].rop # "none" /\ u.rop = "none"
              /\ ~Reading(new[k]),
           d = 1 => ReadJob(ready[1]),
           u.rop # "none" => conn[c].rop # "none" \/ d = 1,
           \A r \in mRequests :
              /\ calls[r].c = c /\ calls[r].kind # "Stat"
              /\ \/ conn[c].rop = "body" /\ conn[c].msg.of = r
                 \/ d = 1 /\ Carries(ready[1], r)
              => \E k \in 1..Len(new) : Carries(new[k], r),
           Calm /\ ~Called({"Get"}) /\ conn[c].fit = "fits" => u.fit = "fits"
    PROVE  IInv'
<1> USE DEF IInv
<1>1. c \in Conns
  BY DEF TypeInv
<1>2. \A k \in 1..Len(new) : new[k].kind # "finish" /\ ~Reading(new[k])
  BY DEF ReadJob
<1>3. MsgInv'
  <2>1. \A k \in 1..Len(u.resp) : MsgOK(u.resp[k], c)
    BY <1>1 DEF MsgInv
  <2> QED BY <1>2, <2>1, MsgMoves
<1>4. OneInv'
  BY <1>2, OneKept
<1>5. FreshInv'
  BY <1>2, FreshMoves
<1>6. \A r : (\E k \in 1..Len(conn[c].resp) : conn[c].resp[k].of = r) => Holds(u, r)
  BY DEF Holds
<1> QED BY <1>3, <1>4, <1>5, <1>6, ReadStep DEF Forwards

LEMMA ConnectEndsStep ==
    ASSUME IInv, fault = "none", NEW c \in mServers, ConnectEnds(c)
    PROVE  IInv'
<1> USE DEF IInv
<1>1. c \in Conns /\ conn[c] \in ConnRec /\ conn[c].rop = "connect"
  BY Typed DEF TypeInv, ConnectEnds
<1>2. PICK ok \in BOOLEAN :
         /\ conn' = [conn EXCEPT ![c].rop = "none", ![c].open = ok]
         /\ ready' = Append(ready, Job("connect", c, ok, NoMsg, 0))
         /\ Rest
  BY DEF ConnectEnds, Completes
<1> DEFINE u == [conn[c] EXCEPT !.rop = "none", !.open = ok]
           e == Job("connect", c, ok, NoMsg, 0)
<1>3. conn' = [conn EXCEPT ![c] = u]
  BY <1>1, <1>2 DEF TypeInv
<1>4. /\ u \in ConnRec /\ u.rop = "none" /\ u.resp = conn[c].resp
      /\ u.fit = conn[c].fit /\ SameLine(u, conn[c])
  BY <1>1 DEF ConnRec, SameLine
<1>5. e \in JobRec /\ Shaped(e) /\ e.kind = "connect" /\ e.c = c
  BY <1>1, JobType, NoMsgType
<1> HIDE DEF u, e
<1>6. Moves(c, u, 0, <<e>>)
  BY <1>1, <1>2, <1>3, <1>4, <1>5, MovesAppend DEF e
<1>7. \A k \in 1..Len(<<e>>) : ReadJob(<<e>>[k]) /\ ~Reading(<<e>>[k])
  BY <1>5, OneElement DEF ReadJob, Reading
<1> QED BY <1>1, <1>2, <1>4, <1>6, <1>7, ReadKept

LEMMA ReadFailsStep ==
    ASSUME IInv, fault = "none", NEW c \in mServers, ReadFails(c)
    PROVE  IInv'
<1> USE DEF IInv
<1>1. c \in Conns /\ conn[c] \in ConnRec /\ conn[c].rop \in {"header", "body"}
  BY Typed DEF TypeInv, ReadFails
<1> DEFINE u == [conn[c] EXCEPT !.rop = "none"]
           e == Job(conn[c].rop, c, FALSE, NoMsg, 0)
<1>2. conn' = [conn EXCEPT ![c] = u] /\ ready' = Append(ready, e) /\ Rest
  BY <1>1 DEF ReadFails, Completes, TypeInv
<1>3. /\ u \in ConnRec /\ u.rop = "none" /\ u.resp = conn[c].resp
      /\ u.fit = conn[c].fit /\ SameLine(u, conn[c])
  BY <1>1 DEF ConnRec, SameLine
<1>4. /\ e \in JobRec /\ Shaped(e) /\ e.kind \in {"header", "body"}
      /\ e.c = c /\ ~e.ok
  BY <1>1, FailedJob DEF Job
<1> HIDE DEF u, e
<1>5. Moves(c, u, 0, <<e>>)
  BY <1>1, <1>2, <1>3, <1>4, MovesAppend
<1>6. /\ \A k \in 1..Len(<<e>>) : ReadJob(<<e>>[k]) /\ ~Reading(<<e>>[k])
      /\ \A r : \E k \in 1..Len(<<e>>) : Carries(<<e>>[k], r)
  <2>1. 1 \in 1..Len(<<e>>) /\ <<e>>[1] = e
    BY OneElement
  <2>2. \A r : Carries(e, r)
    BY <1>4 DEF Carries
  <2>3. \A r : \E k \in 1..Len(<<e>>) : Carries(<<e>>[k], r)
    BY <2>1, <2>2, Zenon
  <2> QED BY <1>4, <2>3, OneElement DEF ReadJob, Reading
<1> QED BY <1>1, <1>2, <1>3, <1>5, <1>6, ReadKept

LEMMA BodyArrivesStep ==
    ASSUME IInv, fault = "none", NEW c \in mServers, BodyArrives(c)
    PROVE  IInv'
<1> USE DEF IInv
<1>1. /\ c \in Conns /\ conn[c] \in ConnRec /\ conn[c].rop = "body"
      /\ conn[c].msg \in Msg
  BY Typed DEF TypeInv, BodyArrives, ConnRec
<1> DEFINE u == [conn[c] EXCEPT !.rop = "none"]
           e == Job("body", c, TRUE, conn[c].msg, 0)
<1>2. conn' = [conn EXCEPT ![c] = u] /\ ready' = Append(ready, e) /\ Rest
  BY <1>1 DEF BodyArrives, Completes, TypeInv
<1>3. /\ u \in ConnRec /\ u.rop = "none" /\ u.resp = conn[c].resp
      /\ u.fit = conn[c].fit /\ SameLine(u, conn[c])
  BY <1>1 DEF ConnRec, SameLine
<1>4. /\ e \in JobRec /\ Shaped(e) /\ e.kind = "body" /\ e.c = c /\ e.ok
      /\ e.msg = conn[c].msg
  BY <1>1, GoodJob DEF Job
<1> HIDE DEF u, e
<1>5. Moves(c, u, 0, <<e>>)
  BY <1>1, <1>2, <1>3, <1>4, MovesAppend
<1>6. /\ 1 \in 1..Len(<<e>>) /\ \A k \in 1..Len(<<e>>) : <<e>>[k] = e
  BY OneElement
<1> DEFINE new == <<e>>
<1> HIDE DEF new
<1>7. MsgInv'
  <2>1. \A k \in 1..Len(u.resp) : MsgOK(u.resp[k], c)
    BY <1>1, <1>3 DEF MsgInv
  <2>2. MsgOK(e.msg, c)
    BY <1>1, <1>4 DEF MsgInv
  <2> QED BY <1>2, <1>3, <1>4, <1>5, <1>6, <2>1, <2>2, MsgMoves DEF new
<1>8. OneInv'
  <2>1. Calm => /\ \A i \in 1..Len(u.resp) :
                      /\ Alive(u.resp[i].of)
                      /\ \A j \in 1..Len(u.resp) :
                            i # j => u.resp[i].of # u.resp[j].of
                /\ \A k \in 1..Len(ready) :
                      Reading(ready[k]) /\ ready[k].c = c =>
                         Apart(u.resp, ready[k].msg.of)
                /\ Alive(e.msg.of) /\ Apart(u.resp, e.msg.of)
    BY <1>1, <1>3, <1>4 DEF OneInv, Apart
  <2> QED BY <1>2, <1>3, <1>4, <1>5, <1>6, <2>1, OneMoves DEF new
<1>9. FreshInv'
  BY <1>2, <1>4, <1>5, <1>6, FreshMoves DEF new
<1>10. ASSUME NEW r, \/ \E k \in 1..Len(conn[c].resp) : conn[c].resp[k].of = r
                     \/ conn[c].rop = "body" /\ conn[c].msg.of = r
       PROVE  Holds(u, r) \/ \E k \in 1..Len(new) : Carries(new[k], r)
  <2>1. CASE \E k \in 1..Len(conn[c].resp) : conn[c].resp[k].of = r
    BY <1>3, <2>1 DEF Holds
  <2>2. CASE conn[c].msg.of = r
    BY <1>4, <1>6, <2>2 DEF Carries, Reading, new
  <2> QED BY <1>10, <2>1, <2>2
<1>11. \A k \in 1..Len(new) : ReadJob(new[k])
  BY <1>4, <1>6 DEF ReadJob, new
<1>12. Moves(c, u, 0, new)
  BY <1>5 DEF new
<1> QED BY <1>1, <1>2, <1>3, <1>7, <1>8, <1>9, <1>10, <1>11, <1>12, ReadStep DEF Forwards

\* OpInv leaves no handler of a read in the queue while a read is pending.
LEMMA NoReadQueued ==
    ASSUME OpInv, NEW c, conn[c].rop # "none"
    PROVE  \A k \in 1..Len(ready) : ~(ReadJob(ready[k]) /\ ready[k].c = c)
BY DEF OpInv

LEMMA HeaderArrivesStep ==
    ASSUME IInv, fault = "none", NEW c \in mServers, HeaderArrives(c),
           conn[c].fit = "fits"
    PROVE  IInv'
<1> USE DEF IInv
<1>1. /\ c \in Conns /\ conn[c] \in ConnRec /\ conn[c].rop = "header"
      /\ conn[c].resp \in Seq(Msg) /\ conn[c].resp # <<>>
  BY Typed DEF TypeInv, HeaderArrives, ConnRec
<1> DEFINE resp == conn[c].resp
           m == resp[1]
           u == [conn[c] EXCEPT !.rop = "none", !.resp = Tail(resp)]
           e == Job("header", c, TRUE, Head(resp), 0)
<1>2. conn' = [conn EXCEPT ![c] = u] /\ ready' = Append(ready, e) /\ Rest
  BY <1>1 DEF HeaderArrives, Completes, TypeInv
<1>3. /\ Tail(resp) \in Seq(Msg) /\ Len(Tail(resp)) = Len(resp) - 1
      /\ \A i \in 1..Len(Tail(resp)) : Tail(resp)[i] = resp[i + 1]
      /\ Head(resp) = m /\ m \in Msg /\ Len(resp) \in Nat /\ 1 \in 1..Len(resp)
  BY <1>1, HeadTailProperties, SeqFacts
<1>4. /\ u \in ConnRec /\ u.rop = "none" /\ u.resp = Tail(resp)
      /\ u.fit = conn[c].fit /\ SameLine(u, conn[c])
  BY <1>1, <1>3 DEF ConnRec, SameLine
<1>5. /\ e \in JobRec /\ Shaped(e) /\ e.kind = "header" /\ e.c = c /\ e.ok
      /\ e.msg = m
  BY <1>1, <1>3, GoodJob DEF Job
<1> HIDE DEF u, e
<1>6. Moves(c, u, 0, <<e>>)
  BY <1>1, <1>2, <1>4, <1>5, MovesAppend
<1>7. /\ 1 \in 1..Len(<<e>>) /\ \A k \in 1..Len(<<e>>) : <<e>>[k] = e
  BY OneElement
<1> DEFINE new == <<e>>
<1> HIDE DEF new, resp, m
\* what is left of the stream
<1>8. \A i \in 1..Len(u.resp) : /\ i + 1 \in 1..Len(resp) /\ i + 1 # 1
                                /\ u.resp[i] = resp[i + 1]
  BY <1>3, <1>4
<1>9. MsgInv'
  <2>1. \A k \in 1..Len(resp) : MsgOK(resp[k], c)
    BY <1>1 DEF MsgInv, resp
  <2>2. \A k \in 1..Len(u.resp) : MsgOK(u.resp[k], c)
    BY <1>8, <2>1
  <2>3. MsgOK(e.msg, c)
    BY <1>3, <1>5, <2>1 DEF m
  <2> QED BY <1>2, <1>4, <1>5, <1>6, <1>7, <2>2, <2>3, MsgMoves
<1>10. OneInv'
  <2>1. Calm => \A i \in 1..Len(resp) :
                   /\ Alive(resp[i].of)
                   /\ \A j \in 1..Len(resp) : i # j => resp[i].of # resp[j].of
    BY DEF OneInv, resp
  <2>2. Calm => \A i \in 1..Len(u.resp) :
                   /\ Alive(u.resp[i].of)
                   /\ \A j \in 1..Len(u.resp) :
                         i # j => u.resp[i].of # u.resp[j].of
    <3>1. \A i \in 1..Len(u.resp), j \in 1..Len(u.resp) : i # j => i + 1 # j + 1
      OBVIOUS
    <3>2. SUFFICES ASSUME Calm, NEW i \in 1..Len(u.resp)
                   PROVE  /\ Alive(u.resp[i].of)
                          /\ \A j \in 1..Len(u.resp) :
                                i # j => u.resp[i].of # u.resp[j].of
      OBVIOUS
    <3>3. Alive(u.resp[i].of)
      BY <1>8, <2>1, <3>2
    <3>4. ASSUME NEW j \in 1..Len(u.resp), i # j
          PROVE  u.resp[i].of # u.resp[j].of
      <4>1. /\ i + 1 \in 1..Len(resp) /\ u.resp[i] = resp[i + 1]
            /\ j + 1 \in 1..Len(resp) /\ u.resp[j] = resp[j + 1]
            /\ i + 1 # j + 1
        BY <1>8, <3>1, <3>4
      <4> QED BY <2>1, <3>2, <4>1
    <3> QED BY <3>3, <3>4
  <2>3. Calm => Alive(e.msg.of) /\ Apart(u.resp, e.msg.of)
    BY <1>3, <1>5, <1>8, <2>1 DEF Apart, m
  <2>4. \A k \in 1..Len(ready) : ~(Reading(ready[k]) /\ ready[k].c = c)
    BY <1>1, NoReadQueued DEF Reading, ReadJob
  <2> QED BY <1>2, <1>4, <1>5, <1>6, <1>7, <2>2, <2>3, <2>4, OneMoves
<1>11. FreshInv'
  BY <1>2, <1>5, <1>6, <1>7, FreshMoves
<1>12. ASSUME NEW r, \E k \in 1..Len(resp) : resp[k].of = r
       PROVE  Holds(u, r) \/ \E k \in 1..Len(new) : Carries(new[k], r)
  <2>1. PICK k \in 1..Len(resp) : resp[k].of = r
    BY <1>12
  <2>2. CASE k = 1
    BY <1>5, <1>7, <2>1, <2>2 DEF Carries, Reading, new, m
  <2>3. CASE k # 1
    <3>1. k - 1 \in 1..Len(u.resp) /\ u.resp[k - 1] = resp[(k - 1) + 1]
          /\ (k - 1) + 1 = k
      BY <1>3, <1>4, <2>3
    <3> QED BY <2>1, <3>1 DEF Holds
  <2> QED BY <2>2, <2>3
<1>13. \A k \in 1..Len(new) : ReadJob(new[k])
  BY <1>5, <1>7 DEF ReadJob, new
<1>14. Moves(c, u, 0, new)
  BY <1>6 DEF new
<1>15. ASSUME NEW r \in mRequests,
              \/ \E k \in 1..Len(conn[c].resp) : conn[c].resp[k].of = r
              \/ conn[c].rop = "body" /\ conn[c].msg.of = r
       PROVE  Holds(u, r) \/ \E k \in 1..Len(new) : Carries(new[k], r)
  BY <1>1, <1>12, <1>15 DEF resp
<1>16. SameLine(u, conn[c]) /\ u.rop = "none" /\ u.fit = "fits" /\ conn[c].rop # "none"
  BY <1>1, <1>4
<1> QED BY <1>2, <1>9, <1>10, <1>11, <1>13, <1>14, <1>15, <1>16, ReadStep DEF Forwards

LEMMA MovesStill ==
    ASSUME TypeInv, NEW c \in Conns, NEW u \in ConnRec,
           conn' = [conn EXCEPT ![c] = u], ready' = ready
    PROVE  Moves(c, u, 0, <<>>)
<1>1. /\ conn' \in Seq(ConnRec) /\ Len(conn') = Len(conn)
      /\ conn'[c] = u /\ \A x \in Conns : x # c => conn'[x] = conn[x]
  BY Updated
<1>2. ready' \in Seq(JobRec) /\ Queued(ready, 0, <<>>, ready')
  <2>1. ready \in Seq(JobRec) /\ Len(ready) \in Nat
    BY DEF TypeInv
  <2> QED BY <2>1, NoElement DEF Queued
<1>3. <<>> \in Seq(JobRec)
  BY EmptySeq
<1> QED BY <1>1, <1>2, <1>3, NoElement DEF Moves

LEMMA SwallowResponseStep ==
    ASSUME IInv, fault = "none", NEW c \in mServers, SwallowResponse(c)
    PROVE  IInv'
<1> USE DEF IInv
<1>1. /\ c \in Conns /\ conn[c] \in ConnRec /\ conn[c].rop = "body"
      /\ conn[c].fit = "long" /\ conn[c].resp \in Seq(Msg) /\ conn[c].resp # <<>>
  BY Typed DEF TypeInv, SwallowResponse, ConnRec
<1>2. PICK fit \in Fits :
         conn' = [conn EXCEPT
                    ![c].fit = fit, ![c].resp = Tail(@),
                    ![c].swallowed = @ \cup {Head(conn[c].resp).of}]
  BY DEF SwallowResponse
<1>3. ready' = ready /\ Rest
  BY DEF SwallowResponse
<1> DEFINE resp == conn[c].resp
           m == resp[1]
           u == [conn[c] EXCEPT !.fit = fit, !.resp = Tail(resp),
                                !.swallowed = @ \cup {Head(resp).of}]
           new == <<>>
<1>4. conn' = [conn EXCEPT ![c] = u]
  BY <1>1, <1>2 DEF TypeInv
<1>5. /\ Tail(resp) \in Seq(Msg) /\ Len(Tail(resp)) = Len(resp) - 1
      /\ \A i \in 1..Len(Tail(resp)) : Tail(resp)[i] = resp[i + 1]
      /\ Head(resp) = m /\ m \in Msg /\ Len(resp) \in Nat /\ 1 \in 1..Len(resp)
  BY <1>1, HeadTailProperties, SeqFacts
<1>6. m.of \in Nat
  BY <1>5 DEF Msg
<1>7. /\ u \in ConnRec /\ u.rop = "body" /\ u.msg = conn[c].msg
      /\ u.resp = Tail(resp) /\ u.swallowed = conn[c].swallowed \cup {m.of}
      /\ SameLine(u, conn[c])
  BY <1>1, <1>5, <1>6 DEF ConnRec, SameLine
<1> HIDE DEF u
<1>8. Moves(c, u, 0, new) /\ \A k \in 1..Len(new) : FALSE
  BY <1>1, <1>3, <1>4, <1>7, MovesStill, NoElement
<1> HIDE DEF new, resp, m
\* what is left of the stream
<1>9. \A i \in 1..Len(u.resp) : /\ i + 1 \in 1..Len(resp) /\ i + 1 # 1
                                /\ u.resp[i] = resp[i + 1]
  BY <1>5, <1>7
<1>10. MsgInv'
  <2>1. /\ \A k \in 1..Len(resp) : MsgOK(resp[k], c)
        /\ MsgOK(conn[c].msg, c)
    BY <1>1 DEF MsgInv, resp
  <2>2. \A k \in 1..Len(u.resp) : MsgOK(u.resp[k], c)
    BY <1>9, <2>1
  <2> QED BY <1>3, <1>7, <1>8, <2>1, <2>2, MsgMoves
<1>11. OneInv'
  <2>1. Calm => /\ \A i \in 1..Len(resp) :
                      /\ Alive(resp[i].of)
                      /\ \A j \in 1..Len(resp) : i # j => resp[i].of # resp[j].of
                      /\ resp[i].of # conn[c].msg.of
                /\ Alive(conn[c].msg.of)
    BY <1>1 DEF OneInv, resp
  <2>2. Calm => \A i \in 1..Len(u.resp) :
                   /\ Alive(u.resp[i].of)
                   /\ \A j \in 1..Len(u.resp) :
                         i # j => u.resp[i].of # u.resp[j].of
    <3>1. \A i \in 1..Len(u.resp), j \in 1..Len(u.resp) : i # j => i + 1 # j + 1
      OBVIOUS
    <3>2. SUFFICES ASSUME Calm, NEW i \in 1..Len(u.resp)
                   PROVE  /\ Alive(u.resp[i].of)
                          /\ \A j \in 1..Len(u.resp) :
                                i # j => u.resp[i].of # u.resp[j].of
      OBVIOUS
    <3>3. Alive(u.resp[i].of)
      BY <1>9, <2>1, <3>2
    <3>4. ASSUME NEW j \in 1..Len(u.resp), i # j
          PROVE  u.resp[i].of # u.resp[j].of
      <4>1. /\ i + 1 \in 1..Len(resp) /\ u.resp[i] = resp[i + 1]
            /\ j + 1 \in 1..Len(resp) /\ u.resp[j] = resp[j + 1]
            /\ i + 1 # j + 1
        BY <1>9, <3>1, <3>4
      <4> QED BY <2>1, <3>2, <4>1
    <3> QED BY <3>3, <3>4
  <2>3. Calm => Alive(u.msg.of) /\ Apart(u.resp, u.msg.of)
    BY <1>7, <1>9, <2>1 DEF Apart
  <2>4. \A k \in 1..Len(ready) : ~(Reading(ready[k]) /\ ready[k].c = c)
    BY <1>1, NoReadQueued DEF Reading, ReadJob
  <2> QED BY <1>3, <1>7, <1>8, <2>2, <2>3, <2>4, OneMoves
<1>12. FreshInv'
  BY <1>3, <1>8, FreshMoves
<1>13. ASSUME NEW r \in mRequests,
              \/ \E k \in 1..Len(conn[c].resp) : conn[c].resp[k].of = r
              \/ conn[c].rop = "body" /\ conn[c].msg.of = r
       PROVE  Holds(u, r)
  <2>1. CASE conn[c].msg.of = r
    BY <1>7, <2>1 DEF Holds
  <2>2. CASE \E k \in 1..Len(resp) : resp[k].of = r
    <3>1. PICK k \in 1..Len(resp) : resp[k].of = r
      BY <2>2
    <3>2. CASE k = 1
      BY <1>7, <3>1, <3>2 DEF Holds, m
    <3>3. CASE k # 1
      <4>1. k - 1 \in 1..Len(u.resp) /\ u.resp[k - 1] = resp[(k - 1) + 1]
            /\ (k - 1) + 1 = k
        BY <1>5, <1>7, <3>3
      <4> QED BY <3>1, <4>1 DEF Holds
    <3> QED BY <3>2, <3>3
  <2> QED BY <1>13, <2>1, <2>2 DEF resp
<1>14. conn[c].rop # "none" /\ conn[c].fit # "fits" /\ SameLine(u, conn[c])
  BY <1>1, <1>7
<1> QED BY <1>3, <1>8, <1>10, <1>11, <1>12, <1>13, <1>14, ReadStep DEF Forwards

-----------------------------------------------------------------------------
(* The writing half.                                                       *)

LEMMA LineSent ==
    ASSUME NEW w \in Seq(Nat), NEW o \in Seq(Nat), NEW p \in Seq(Nat), NEW c,
           Line(w, o, p, c), NEW q \in Seq(Nat), Len(q) <= Len(o),
           \A i \in 1..Len(q) : q[i] = o[i]
    PROVE  /\ w \o q \in Seq(Nat) /\ Line(w \o q, <<>>, p, c)
           /\ \A r : Under(w, r) /\ Under(o, r) => Under(w \o q, r)
           /\ \A r : Among(r, w) \/ Among(r, q) => Among(r, w \o q)
<1>1. w \o q \in Seq(Nat) /\ Queued(w, 0, q, w \o q)
  BY QueuedConcat
<1> DEFINE t == w \o q
<1>2. /\ t \in Seq(Nat) /\ Len(w) \in Nat /\ Len(o) \in Nat /\ Len(q) \in Nat
      /\ Len(t) \in Nat
      /\ \A i \in 1..Len(q) : i \in 1..Len(o)
  BY <1>1, LenProperties
<1>3. \A i \in 1..Len(t) :
         \/ i \in 1..Len(w) /\ t[i] = w[i]
         \/ i - Len(w) \in 1..Len(q) /\ t[i] = q[i - Len(w)] /\ i > Len(w)
  BY <1>1, <1>2 DEF Queued
<1>4. /\ \A i \in 1..Len(w) : i \in 1..Len(t) /\ t[i] = w[i]
      /\ \A i \in 1..Len(q) : i + Len(w) \in 1..Len(t) /\ t[i + Len(w)] = q[i]
  BY <1>1, <1>2 DEF Queued
<1> HIDE DEF t
<1>5. /\ \A i, j \in 1..Len(q) : i < j => q[i] < q[j]
      /\ \A i \in 1..Len(w), j \in 1..Len(q) : w[i] < q[j]
      /\ \A i \in 1..Len(q), j \in 1..Len(p) : q[i] < p[j]
      /\ \A i \in 1..Len(q) : Waits(q[i], c)
  BY <1>2 DEF Line, Incr, Before, Unserved
<1>6. Incr(t)
  <2>1. SUFFICES ASSUME NEW i \in 1..Len(t), NEW j \in 1..Len(t), i < j
                 PROVE  t[i] < t[j]
    BY DEF Incr
  <2>2. CASE i \in 1..Len(w) /\ t[i] = w[i] /\ j \in 1..Len(w) /\ t[j] = w[j]
    BY <2>1, <2>2 DEF Line, Incr
  <2>3. CASE /\ i \in 1..Len(w) /\ t[i] = w[i]
             /\ j - Len(w) \in 1..Len(q) /\ t[j] = q[j - Len(w)]
    BY <1>5, <2>3
  <2>4. CASE /\ i - Len(w) \in 1..Len(q) /\ t[i] = q[i - Len(w)]
             /\ j - Len(w) \in 1..Len(q) /\ t[j] = q[j - Len(w)]
    <3>1. i - Len(w) < j - Len(w)
      BY <1>2, <2>1
    <3> QED BY <1>5, <2>4, <3>1
  <2>5. CASE i > Len(w) /\ j \in 1..Len(w)
    BY <1>2, <2>1, <2>5
  <2> QED BY <1>3, <2>2, <2>3, <2>4, <2>5
<1>7. Before(t, p) /\ Unserved(t, c)
  <2>1. \A i \in 1..Len(t) : \A j \in 1..Len(p) : t[i] < p[j]
    BY <1>3, <1>5 DEF Line, Before
  <2>2. \A i \in 1..Len(t) : Waits(t[i], c)
    BY <1>3, <1>5 DEF Line, Unserved
  <2> QED BY <2>1, <2>2 DEF Before, Unserved
<1>8. Line(t, <<>>, p, c)
  BY <1>6, <1>7 DEF Line, Incr, Before, Unserved
<1>9. \A r : Under(w, r) /\ Under(o, r) => Under(t, r)
  BY <1>2, <1>3 DEF Under
<1>10. \A r : Among(r, w) \/ Among(r, q) => Among(r, t)
  BY <1>4 DEF Among
<1> QED BY <1>1, <1>8, <1>9, <1>10 DEF t

LEMMA AppendFacts ==
    ASSUME NEW p \in Seq(Nat), NEW r \in Nat
    PROVE  /\ Append(p, r) \in Seq(Nat) /\ Append(p, r) # <<>>
           /\ Len(Append(p, r)) = Len(p) + 1
           /\ \A i \in 1..Len(p) : Append(p, r)[i] = p[i]
           /\ Append(p, r)[Len(p) + 1] = r
OBVIOUS

LEMMA LineAppend ==
    ASSUME NEW w \in Seq(Nat), NEW o \in Seq(Nat), NEW p \in Seq(Nat), NEW c,
           Line(w, o, p, c), NEW r \in Nat, Waits(r, c),
           Under(w, r), Under(o, r), Under(p, r)
    PROVE  /\ Append(p, r) \in Seq(Nat) /\ Append(p, r) # <<>>
           /\ Line(w, o, Append(p, r), c)
           /\ \A q \in Nat : Under(p, q) /\ r < q => Under(Append(p, r), q)
           /\ \A q : Among(q, p) \/ q = r => Among(q, Append(p, r))
<1> DEFINE t == Append(p, r)
<1>0. Len(p) \in Nat
  BY LenProperties
<1>1. /\ t \in Seq(Nat) /\ t # <<>> /\ Len(t) = Len(p) + 1
      /\ \A i \in 1..Len(p) : t[i] = p[i]
      /\ t[Len(p) + 1] = r
  BY AppendFacts
<1> HIDE DEF t
<1>2. \A i \in 1..Len(t) : \/ i \in 1..Len(p) /\ t[i] = p[i]
                           \/ i = Len(p) + 1 /\ t[i] = r
  BY <1>0, <1>1
<1>3. Incr(t)
  <2>1. SUFFICES ASSUME NEW i \in 1..Len(t), NEW j \in 1..Len(t), i < j
                 PROVE  t[i] < t[j]
    BY DEF Incr
  <2>2. i \in 1..Len(p) /\ t[i] = p[i]
    BY <1>0, <1>1, <2>1, SMTT(20)
  <2> QED BY <1>2, <2>1, <2>2 DEF Line, Incr, Under
<1>4. Before(w, t) /\ Before(o, t) /\ Unserved(t, c)
  BY <1>2 DEF Line, Before, Under, Unserved
<1>5. \A q \in Nat : Under(p, q) /\ r < q => Under(t, q)
  BY <1>2 DEF Under
<1>6. \A q : Among(q, p) \/ q = r => Among(q, t)
  <2>1. Len(p) + 1 \in 1..Len(t) /\ \A i \in 1..Len(p) : i \in 1..Len(t)
    BY <1>0, <1>1
  <2>2. \A q : Among(q, p) => Among(q, t)
    BY <1>1, <2>1 DEF Among
  <2>3. Among(r, t)
    BY <1>1, <2>1 DEF Among
  <2> QED BY <2>2, <2>3
<1>7. Line(w, o, t, c)
  BY <1>3, <1>4 DEF Line
<1> QED BY <1>1, <1>5, <1>6, <1>7 DEF t

LEMMA LineStart ==
    ASSUME NEW w, NEW o, NEW p, NEW c, Line(w, o, p, c)
    PROVE  Line(w, p, <<>>, c) /\ Line(w, <<>>, <<>>, c)
BY NoElement DEF Line, Incr, Before, Unserved

LEMMA ConnFields ==
    ASSUME TypeInv, NEW c \in Conns
    PROVE  /\ conn[c] \in ConnRec
           /\ conn[c].wire \in Seq(Nat) /\ conn[c].mPendingBuffers \in Seq(Nat)
           /\ conn[c].mWriteBuffers \in Seq(Nat) /\ Out(c) \in Seq(Nat)
           /\ conn[c].resp \in Seq(Msg) /\ conn[c].msg \in Msg
           /\ conn[c].wop \in BOOLEAN /\ conn[c].open \in BOOLEAN
<1>1. conn[c] \in ConnRec
  BY Typed
<1> QED BY <1>1, EmptySeq DEF ConnRec, Out

LEMMA WriteEndsStep ==
    ASSUME IInv, fault = "none", NEW c \in mServers, WriteEnds(c)
    PROVE  IInv'
<1> USE DEF IInv
<1>1. c \in Conns /\ conn[c] \in ConnRec /\ conn[c].wop
  BY Typed DEF TypeInv, WriteEnds, WriteDone, WriteFails
<1> DEFINE wb == conn[c].mWriteBuffers
           w == conn[c].wire
           p == conn[c].mPendingBuffers
           U(q) == [conn[c] EXCEPT !.wop = FALSE, !.wire = w \o q]
           E(ok) == Job("write", c, ok, NoMsg, 0)
<1>2. \E q \in Seq(Nat), ok \in BOOLEAN :
         /\ Len(q) <= Len(wb) /\ \A i \in 1..Len(q) : q[i] = wb[i]
         /\ ok => q = wb
         /\ conn' = [conn EXCEPT ![c] = U(q)]
         /\ ready' = Append(ready, E(ok)) /\ Rest
  <2>0. wb \in Seq(Nat) /\ Len(wb) \in Nat
    BY <1>1, ConnFields, LenProperties
  <2>1. CASE WriteDone(c)
    <3>1. /\ conn' = [conn EXCEPT ![c] = U(wb)]
          /\ ready' = Append(ready, E(TRUE)) /\ Rest
      BY <1>1, <2>1 DEF WriteDone, Completes, TypeInv
    <3>2. Len(wb) <= Len(wb) /\ \A i \in 1..Len(wb) : wb[i] = wb[i]
      BY <2>0
    <3> HIDE DEF U, E
    <3> USE <2>0
    <3> WITNESS wb \in Seq(Nat), TRUE \in BOOLEAN
    <3> QED BY <3>1, <3>2
  <2>2. CASE WriteFails(c)
    <3>1. PICK n \in 0..(Len(wb) - 1) :
             Completes(Job("write", c, FALSE, NoMsg, 0),
                       [conn EXCEPT ![c].wop = FALSE,
                          ![c].wire = @ \o SubSeq(conn[c].mWriteBuffers, 1, n)])
      BY <2>2 DEF WriteFails
    <3> DEFINE q == SubSeq(wb, 1, n)
    <3>2. /\ conn' = [conn EXCEPT ![c] = U(q)]
          /\ ready' = Append(ready, E(FALSE)) /\ Rest
      BY <1>1, <3>1 DEF Completes, TypeInv
    <3>3. n \in Int /\ n <= Len(wb) /\ n >= 0
      BY <2>0
    <3>4. \A i \in 1..n : wb[i] \in Nat
      BY <2>0, <3>3, ElementOfSeq, SMTT(20)
    <3>5. /\ q \in Seq(Nat) /\ Len(q) = IF 1 <= n THEN n - 1 + 1 ELSE 0
          /\ \A i \in 1..(n - 1 + 1) : q[i] = wb[1 + i - 1]
      BY <3>3, <3>4, SubSeqProperties
    <3>6. Len(q) <= Len(wb) /\ \A i \in 1..Len(q) : q[i] = wb[i]
      BY <3>3, <3>5
    <3> HIDE DEF U, E, q
    <3> USE <3>5
    <3> WITNESS q \in Seq(Nat), FALSE \in BOOLEAN
    <3> QED BY <3>2, <3>6
  <2> QED BY <2>1, <2>2 DEF WriteEnds
<1>3. PICK q \in Seq(Nat), ok \in BOOLEAN :
         /\ Len(q) <= Len(wb) /\ \A i \in 1..Len(q) : q[i] = wb[i]
         /\ ok => q = wb
         /\ conn' = [conn EXCEPT ![c] = U(q)]
         /\ ready' = Append(ready, E(ok)) /\ Rest
  BY <1>2
<1> DEFINE u == U(q)
           e == E(ok)
<1>4. /\ w \in Seq(Nat) /\ p \in Seq(Nat) /\ wb \in Seq(Nat) /\ Out(c) = wb
      /\ Line(w, wb, p, c)
  <2>1. Out(c) = wb /\ Line(w, Out(c), p, c)
    BY <1>1 DEF Out, SendInv
  <2> QED BY <1>1, <2>1, ConnFields
<1>5. /\ w \o q \in Seq(Nat) /\ Line(w \o q, <<>>, p, c)
      /\ \A r : Under(w, r) /\ Under(wb, r) => Under(w \o q, r)
      /\ \A r : Among(r, w) \/ Among(r, q) => Among(r, w \o q)
  BY <1>3, <1>4, LineSent
<1>6. /\ u \in ConnRec /\ u.wire = w \o q /\ u.wop = FALSE
      /\ u.mPendingBuffers = p /\ u.mWriteBuffers = wb /\ SameRead(u, conn[c])
  BY <1>1, <1>5 DEF ConnRec, SameRead
<1>7. /\ e \in JobRec /\ Shaped(e) /\ e.kind = "write" /\ e.c = c /\ e.ok = ok
  BY <1>1, JobType, NoMsgType DEF Job
<1>8. conn' = [conn EXCEPT ![c] = u] /\ ready' = Append(ready, e) /\ Rest
  BY <1>3
<1> HIDE DEF u, e, wb, w, p, U, E
<1>9. Moves(c, u, 0, <<e>>)
  BY <1>1, <1>6, <1>7, <1>8, MovesAppend
<1>10. /\ 1 \in 1..Len(<<e>>) /\ \A k \in 1..Len(<<e>>) : <<e>>[k] = e
  BY OneElement
<1> DEFINE new == <<e>>
<1>11. Moves(c, u, 0, new) /\ 1 \in 1..Len(new) /\ \A k \in 1..Len(new) : new[k] = e
  BY <1>9, <1>10
<1> HIDE DEF new
<1>12. SendInv'
  <2>1. Under(<<>>, 0) /\ \A r : Under(<<>>, r)
    BY NoElement DEF Under
  <2>2. ASSUME NEW k \in 1..Len(ready), ready[k].kind = "send", ready[k].c = c
        PROVE  /\ Under(u.wire, ready[k].it) /\ Under(<<>>, ready[k].it)
               /\ Under(u.mPendingBuffers, ready[k].it)
    <3>1. /\ Under(w, ready[k].it) /\ Under(wb, ready[k].it)
          /\ Under(p, ready[k].it)
      BY <1>4, <2>2 DEF SendInv, w, p
    <3> QED BY <1>5, <1>6, <2>1, <3>1
  <2>3. <<>> = IF u.wop THEN u.mWriteBuffers ELSE <<>>
    BY <1>6
  <2>4. Line(u.wire, <<>>, u.mPendingBuffers, c)
    BY <1>5, <1>6
  <2>5. \A k \in 1..Len(new) : new[k].kind # "send"
    BY <1>7, <1>11
  <2> QED BY <1>8, <1>11, <2>2, <2>3, <2>4, <2>5, SendMoves
<1>13. OpInv'
  <2>1. conn[c].wop /\ u.mWriteBuffers # <<>> /\ ~u.wop
    BY <1>1, <1>6 DEF OpInv, wb
  <2>2. u.rop # "none" => conn[c].rop # "none"
    BY <1>6 DEF SameRead
  <2>3. \A k \in 1..Len(new) : ~ReadJob(new[k])
    BY <1>7, <1>11 DEF ReadJob
  <2> QED BY <1>11, <2>1, <2>2, <2>3, OpMoves
<1>14. ASSUME NEW r \in mRequests,
              \/ Among(r, conn[c].mPendingBuffers) \/ Among(r, conn[c].wire)
              \/ conn[c].wop /\ Among(r, conn[c].mWriteBuffers)
       PROVE  \/ Among(r, u.mPendingBuffers) \/ Among(r, u.wire)
              \/ \E k \in 1..Len(new) : ~new[k].ok
  BY <1>3, <1>5, <1>6, <1>7, <1>11, <1>14 DEF wb, w, p
<1>15. \A k \in 1..Len(new) : new[k].kind = "write" /\ ~(u.wop /\ new[k].ok)
  BY <1>6, <1>7, <1>11
<1>16. SameRead(u, conn[c])
  BY <1>6
<1> QED BY <1>8, <1>11, <1>12, <1>13, <1>14, <1>15, <1>16, LineStep

\* TcpClient::Send() with the buffers bufs, the old and the new ones.
LEMMA StartWriteStep ==
    ASSUME IInv, fault = "none", NEW c \in mServers, ready # <<>>,
           Head(ready).kind \in {"send", "write"}, Head(ready).c = c,
           Head(ready).ok, NEW bufs \in Seq(Nat), bufs # <<>>,
           StartWrite(c, bufs), Rest,
           NEW o, Line(conn[c].wire, o, bufs, c),
           \A k \in 1..Len(ready) :
              ready[k].kind = "send" /\ ready[k].c = c /\ k > 1 =>
                 Under(bufs, ready[k].it),
           conn[c].mWriteBuffers = <<>> \/ Head(ready).kind = "write",
           \A r \in mRequests : \/ Among(r, conn[c].mPendingBuffers)
                                \/ Carries(Head(ready), r)
                                => Among(r, bufs)
    PROVE  IInv'
<1> USE DEF IInv
<1>1. /\ c \in Conns /\ conn[c] \in ConnRec /\ 1 \in 1..Len(ready)
      /\ Head(ready) = ready[1]
  BY Typed DEF TypeInv
<1> DEFINE opened == conn[c].open \/ conn[c].rop = "connect"
           u == [conn[c] EXCEPT !.mWriteBuffers = bufs,
                                !.mPendingBuffers = <<>>, !.wop = opened]
           e == Job("write", c, FALSE, NoMsg, 0)
<1>2. conn' = [conn EXCEPT ![c] = u]
  BY <1>1 DEF StartWrite, TypeInv
<1>3. opened \in BOOLEAN
  OBVIOUS
<1>4. ready' = IF opened THEN Tail(ready) ELSE Append(Tail(ready), e)
  BY DEF StartWrite
<1> HIDE DEF opened
<1>5. /\ u \in ConnRec /\ u.wire = conn[c].wire /\ u.wop = opened
      /\ u.mPendingBuffers = <<>> /\ u.mWriteBuffers = bufs
      /\ SameRead(u, conn[c])
  BY <1>1, <1>3, EmptySeq DEF ConnRec, SameRead
<1>6. e \in JobRec /\ Shaped(e) /\ e.kind = "write" /\ e.c = c /\ ~e.ok
  BY <1>1, FailedJob DEF Job
<1> HIDE DEF u, e
<1>7. PICK new : /\ Moves(c, u, 1, new) /\ \A k \in 1..Len(new) : new[k] = e
                 /\ ~opened => 1 \in 1..Len(new)
                 /\ opened => ~ \E k \in 1..Len(new) : TRUE
  <2>1. CASE opened
    <3>1. Moves(c, u, 1, <<>>)
      BY <1>1, <1>2, <1>4, <1>5, <2>1, MovesTail
    <3> QED BY <2>1, <3>1, NoElement
  <2>2. CASE ~opened
    <3>1. Moves(c, u, 1, <<e>>)
      BY <1>1, <1>2, <1>4, <1>5, <1>6, <2>2, MovesTailAppend
    <3>2. 1 \in 1..Len(<<e>>) /\ \A k \in 1..Len(<<e>>) : <<e>>[k] = e
      BY OneElement
    <3> QED BY <2>2, <3>1, <3>2, Zenon
  <2> QED BY <2>1, <2>2
<1>8. ~conn[c].wop
  <2>1. CASE conn[c].mWriteBuffers = <<>>
    BY <1>1, <2>1 DEF OpInv
  <2>2. CASE Head(ready).kind = "write"
    BY <1>1, <2>2 DEF OpInv
  <2> QED BY <2>1, <2>2
<1>9. SendInv'
  <2> DEFINE p == IF u.wop THEN u.mWriteBuffers ELSE <<>>
  <2>1. Line(u.wire, p, u.mPendingBuffers, c)
    BY <1>5, LineStart
  <2>2. \A r : Under(<<>>, r)
    BY NoElement DEF Under
  <2>3. ASSUME NEW k \in 1..Len(ready), ready[k].kind = "send",
               ready[k].c = c, k > 1
        PROVE  /\ Under(u.wire, ready[k].it) /\ Under(p, ready[k].it)
               /\ Under(u.mPendingBuffers, ready[k].it)
    <3>1. Under(u.wire, ready[k].it)
      BY <1>5, <2>3 DEF SendInv
    <3> QED BY <1>5, <2>2, <2>3, <3>1
  <2>4. \A k \in 1..Len(new) : new[k].kind # "send"
    BY <1>6, <1>7
  <2> QED BY <1>7, <2>1, <2>3, <2>4, SendMoves
<1>10. OpInv'
  <2>1. u.mWriteBuffers # <<>>
    BY <1>5
  <2>2. \A k \in 1..Len(new) : ~ReadJob(new[k]) /\ ~u.wop
    BY <1>5, <1>6, <1>7 DEF ReadJob
  <2>3. u.rop # "none" => conn[c].rop # "none"
    BY <1>5 DEF SameRead
  <2>4. conn[c].mWriteBuffers = <<>> \/ ready[1].kind = "write"
    BY <1>1
  <2> QED BY <1>7, <2>1, <2>2, <2>3, <2>4, OpMoves
<1>11. ASSUME NEW r \in mRequests,
              \/ Among(r, conn[c].mPendingBuffers) \/ Among(r, conn[c].wire)
              \/ conn[c].wop /\ Among(r, conn[c].mWriteBuffers)
              \/ Carries(ready[1], r)
       PROVE  \/ Among(r, u.wire)
              \/ u.wop /\ Among(r, u.mWriteBuffers)
              \/ \E k \in 1..Len(new) : ~new[k].ok
  BY <1>1, <1>5, <1>6, <1>7, <1>8, <1>11
<1>12. /\ \A k \in 1..Len(new) : new[k].kind = "write" /\ ~(u.wop /\ new[k].ok)
       /\ ~Reading(ready[1]) /\ SameRead(u, conn[c])
  BY <1>1, <1>5, <1>6, <1>7 DEF Reading
<1> QED BY <1>7, <1>9, <1>10, <1>11, <1>12, LineStep

LEMMA RunSendStep ==
    ASSUME IInv, fault = "none", ready # <<>>, Head(ready).kind = "send",
           Head(ready).c \in mServers, RunSend(Head(ready))
    PROVE  IInv'
<1> USE DEF IInv
<1> DEFINE j == Head(ready)
           c == j.c
           r == j.it
           pend == Append(conn[c].mPendingBuffers, r)
<1>1. /\ c \in Conns /\ conn[c] \in ConnRec /\ 1 \in 1..Len(ready)
      /\ j = ready[1] /\ j \in JobRec /\ j.ok /\ r \in Nat
  <2>1. 1 \in 1..Len(ready) /\ j = ready[1] /\ j \in JobRec
    BY Typed
  <2> QED BY <2>1, Typed DEF TypeInv, Shaped, JobRec
<1>2. /\ conn[c].wire \in Seq(Nat) /\ conn[c].mPendingBuffers \in Seq(Nat)
      /\ Out(c) \in Seq(Nat)
  BY <1>1, ConnFields
<1>3. /\ Waits(r, c) /\ Under(conn[c].wire, r) /\ Under(Out(c), r)
      /\ Under(conn[c].mPendingBuffers, r)
      /\ Line(conn[c].wire, Out(c), conn[c].mPendingBuffers, c)
  BY <1>1 DEF SendInv
<1>4. /\ pend \in Seq(Nat) /\ pend # <<>>
      /\ Line(conn[c].wire, Out(c), pend, c)
      /\ \A q \in Nat : Under(conn[c].mPendingBuffers, q) /\ r < q =>
            Under(pend, q)
      /\ \A q : Among(q, conn[c].mPendingBuffers) \/ q = r => Among(q, pend)
  <2> HIDE DEF c, r
  <2> QED BY <1>1, <1>2, <1>3, LineAppend
<1>5. ASSUME NEW k \in 1..Len(ready), ready[k].kind = "send", ready[k].c = c,
             k > 1
      PROVE  /\ Under(pend, ready[k].it)
             /\ Under(conn[c].wire, ready[k].it) /\ Under(Out(c), ready[k].it)
  <2>1. ready[k].it \in Nat
    BY Typed DEF JobRec
  <2>2. r < ready[k].it /\ Under(conn[c].mPendingBuffers, ready[k].it)
        /\ Under(conn[c].wire, ready[k].it) /\ Under(Out(c), ready[k].it)
    BY <1>1, <1>5 DEF SendInv
  <2> QED BY <1>4, <2>1, <2>2
<1>6. \A q : Carries(j, q) => q = r
  BY <1>1 DEF Carries, Reading
<1>7. Rest
  BY DEF RunSend
<1> HIDE DEF pend
<1>8. CASE conn[c].mWriteBuffers = <<>> /\ StartWrite(c, pend)
  BY <1>1, <1>4, <1>5, <1>6, <1>7, <1>8, StartWriteStep
<1>9. CASE /\ conn[c].mWriteBuffers # <<>>
           /\ conn' = [conn EXCEPT ![c].mPendingBuffers = pend]
           /\ ready' = Tail(ready)
  <2> DEFINE u == [conn[c] EXCEPT !.mPendingBuffers = pend]
  <2>1. conn' = [conn EXCEPT ![c] = u]
    BY <1>1, <1>9 DEF TypeInv
  <2>2. /\ u \in ConnRec /\ u.wire = conn[c].wire /\ u.wop = conn[c].wop
        /\ u.mPendingBuffers = pend
        /\ u.mWriteBuffers = conn[c].mWriteBuffers /\ SameRead(u, conn[c])
    BY <1>1, <1>4 DEF ConnRec, SameRead
  <2> HIDE DEF u, c, j
  <2>3. Moves(c, u, 1, <<>>)
    BY <1>1, <1>9, <2>1, <2>2, MovesTail DEF c, j
  <2> DEFINE new == <<>>
  <2>4. Moves(c, u, 1, new) /\ \A k \in 1..Len(new) : FALSE
    BY <2>3, NoElement
  <2> HIDE DEF new
  <2>5. SendInv'
    <3>1. Out(c) = IF u.wop THEN u.mWriteBuffers ELSE <<>>
      BY <2>2 DEF Out
    <3> QED BY <1>4, <1>5, <1>7, <2>2, <2>4, <3>1, SendMoves
  <2>6. OpInv'
    <3>1. u.mWriteBuffers # <<>> /\ (u.rop # "none" => conn[c].rop # "none")
      BY <1>9, <2>2 DEF SameRead
    <3> QED BY <2>2, <2>4, <3>1, OpMoves
  <2>7. c \in mServers /\ ~Reading(ready[1])
    BY <1>1 DEF c, j, Reading
  <2>8. ASSUME NEW q \in mRequests,
               \/ Among(q, conn[c].mPendingBuffers) \/ Among(q, conn[c].wire)
               \/ conn[c].wop /\ Among(q, conn[c].mWriteBuffers)
               \/ Carries(ready[1], q)
        PROVE  \/ Among(q, u.mPendingBuffers) \/ Among(q, u.wire)
               \/ u.wop /\ Among(q, u.mWriteBuffers)
    BY <1>1, <1>4, <1>6, <2>2, <2>8
  <2> QED BY <1>7, <2>2, <2>4, <2>5, <2>6, <2>7, <2>8, LineStep
<1> QED BY <1>8, <1>9 DEF RunSend, pend

LEMMA RunWriteStep ==
    ASSUME IInv, fault = "none", ready # <<>>, Head(ready).kind = "write",
           Head(ready).c \in mServers, RunWrite(Head(ready)), Head(ready).ok
    PROVE  IInv'
<1> USE DEF IInv
<1> DEFINE j == Head(ready)
           c == j.c
           pend == conn[c].mPendingBuffers
<1>1. /\ c \in Conns /\ conn[c] \in ConnRec /\ 1 \in 1..Len(ready)
      /\ j = ready[1] /\ j.ok /\ j.kind = "write"
  BY Typed DEF TypeInv
<1>2. pend \in Seq(Nat)
  BY <1>1, ConnFields
<1>3. ~conn[c].wop /\ Line(conn[c].wire, Out(c), pend, c)
  BY <1>1 DEF OpInv, SendInv
<1>4. \A q : ~Carries(j, q)
  BY <1>1 DEF Carries, Reading
<1>5. CASE pend # <<>> /\ StartWrite(c, pend) /\ Rest
  <2>1. \A k \in 1..Len(ready) :
           ready[k].kind = "send" /\ ready[k].c = c /\ k > 1 =>
              Under(pend, ready[k].it)
    BY DEF SendInv
  <2> HIDE DEF c
  <2> QED BY <1>1, <1>2, <1>3, <1>4, <1>5, <2>1, StartWriteStep DEF c
<1>6. CASE /\ pend = <<>> /\ conn' = [conn EXCEPT ![c].mWriteBuffers = <<>>]
           /\ ready' = Tail(ready) /\ Rest
  <2> DEFINE u == [conn[c] EXCEPT !.mWriteBuffers = <<>>]
  <2>1. conn' = [conn EXCEPT ![c] = u]
    BY <1>1, <1>6 DEF TypeInv
  <2>2. /\ u \in ConnRec /\ u.wire = conn[c].wire /\ u.wop = conn[c].wop
        /\ u.mPendingBuffers = pend /\ SameRead(u, conn[c])
    BY <1>1, EmptySeq DEF ConnRec, SameRead
  <2> HIDE DEF u, c, j, pend
  <2>3. Moves(c, u, 1, <<>>)
    BY <1>1, <1>6, <2>1, <2>2, MovesTail DEF c, j
  <2> DEFINE new == <<>>
  <2>4. Moves(c, u, 1, new) /\ \A k \in 1..Len(new) : FALSE
    BY <2>3, NoElement
  <2> HIDE DEF new
  <2>5. SendInv'
    BY <1>3, <1>6, <2>2, <2>4, SendKept DEF pend
  <2>6. OpInv'
    <3>1. u.rop # "none" => conn[c].rop # "none"
      BY <2>2 DEF SameRead
    <3> QED BY <1>1, <1>3, <2>2, <2>4, <3>1, OpMoves
  <2>7. c \in mServers /\ ~Reading(ready[1])
    BY <1>1 DEF c, j, Reading
  <2>8. ASSUME NEW q \in mRequests,
               \/ Among(q, conn[c].mPendingBuffers) \/ Among(q, conn[c].wire)
               \/ conn[c].wop /\ Among(q, conn[c].mWriteBuffers)
               \/ Carries(ready[1], q)
        PROVE  Among(q, u.mPendingBuffers) \/ Among(q, u.wire)
    BY <1>1, <1>3, <1>4, <2>2, <2>8 DEF pend
  <2> QED BY <1>6, <2>2, <2>4, <2>5, <2>6, <2>7, <2>8, LineStep
<1> QED BY <1>1, <1>5, <1>6 DEF RunWrite

-----------------------------------------------------------------------------
(* The reading half.                                                       *)

LEMMA MovesTailConcat ==
    ASSUME TypeInv, NEW c \in Conns, NEW u \in ConnRec, NEW new \in Seq(JobRec),
           conn' = [conn EXCEPT ![c] = u],
           ready # <<>>, ready' = Tail(ready) \o new,
           Head(ready).kind # "finish", Head(ready).c = c, Len(new) <= 1,
           \A k \in 1..Len(new) : /\ Shaped(new[k])
                                  /\ new[k].kind # "finish" => new[k].c = c
    PROVE  Moves(c, u, 1, new)
<1>1. /\ conn' \in Seq(ConnRec) /\ Len(conn') = Len(conn)
      /\ conn'[c] = u /\ \A x \in Conns : x # c => conn'[x] = conn[x]
  BY Updated
<1>2. ready' \in Seq(JobRec) /\ Queued(ready, 1, new, ready')
  BY QueuedTail DEF TypeInv
<1>4. 1 \in 1..Len(ready) /\ ready[1] = Head(ready)
  BY Typed
<1> QED BY <1>1, <1>2, <1>4 DEF Moves

LEMMA RunConnectStep ==
    ASSUME IInv, fault = "none", ready # <<>>, Head(ready).kind = "connect",
           Head(ready).c \in mServers, RunConnect(Head(ready)), Head(ready).ok
    PROVE  IInv'
<1> USE DEF IInv
<1> DEFINE j == Head(ready)
           c == j.c
           u == [conn[c] EXCEPT !.rop = "header"]
           new == <<>>
<1>1. /\ c \in Conns /\ conn[c] \in ConnRec /\ 1 \in 1..Len(ready)
      /\ j = ready[1] /\ j.ok /\ j.kind = "connect"
  BY Typed DEF TypeInv
<1>2. conn' = [conn EXCEPT ![c] = u] /\ ready' = Tail(ready) /\ Rest
  BY <1>1 DEF RunConnect, TypeInv
<1>3. /\ u \in ConnRec /\ u.rop = "header" /\ u.resp = conn[c].resp
      /\ u.fit = conn[c].fit /\ SameLine(u, conn[c])
  BY <1>1 DEF ConnRec, SameLine
<1> HIDE DEF u, c, j
<1>4. Moves(c, u, 1, new) /\ \A k \in 1..Len(new) : FALSE
  BY <1>1, <1>2, <1>3, MovesTail, NoElement DEF c, j
<1> HIDE DEF new
<1>5. /\ conn[c].rop = "none" /\ ReadJob(ready[1]) /\ c \in mServers
      /\ \A r : ~Carries(ready[1], r)
  <2>1. conn[ready[1].c].rop = "none"
    BY <1>1 DEF OpInv, ReadJob
  <2> QED BY <1>1, <2>1 DEF c, j, ReadJob, Carries, Reading
<1> QED BY <1>2, <1>3, <1>4, <1>5, ReadKept

LEMMA SwapTwice ==
    ASSUME NEW s \in Codes
    PROVE  AdjustEndian(Swap16(s)) = Swap16(s) /\ Swap16(s) \in Nat
BY DEF Codes, AdjustEndian, ntohs, Swap16, ERequest_SUCCESS,
       ERequest_KEY_ENOENT, ERequest_EINVAL

\* Without a reuse of ids they tell the calls apart.
LEMMA IdsDiffer ==
    ASSUME ~Reused, NEW r \in Reqs, NEW q \in Reqs, Id(r) = Id(q), TypeInv
    PROVE  r = q
<1>1. Len(calls) \in Nat /\ IdSpace \in Nat \ {0} /\ Len(calls) <= IdSpace
  BY Typed, ClientAssumption DEF Reused
<1>2. r \in Nat /\ q \in Nat /\ r - 1 \in 0..(IdSpace - 1) /\ q - 1 \in 0..(IdSpace - 1)
  BY <1>1 DEF Reqs
<1>3. (r - 1) % IdSpace = r - 1 /\ (q - 1) % IdSpace = q - 1
  BY <1>1, <1>2
<1> QED BY <1>2, <1>3 DEF Id

\* The response at the head of the queue.
LEMMA HeadResponse ==
    ASSUME IInv, ready # <<>>, Reading(Head(ready)), Head(ready).c \in mServers
    PROVE  LET j == Head(ready)
               c == j.c
               m == j.msg
           IN  /\ c \in Conns /\ conn[c] \in ConnRec /\ 1 \in 1..Len(ready)
               /\ j = ready[1] /\ j \in JobRec /\ m \in Msg /\ j.kind # "finish"
               /\ MsgOK(m, c) /\ conn[c].rop = "none" /\ ReadJob(j)
               /\ \A k \in 1..Len(ready) :
                     k > 1 => ~(ReadJob(ready[k]) /\ ready[k].c = c)
               /\ Calm => Alive(m.of) /\ Apart(conn[c].resp, m.of)
               /\ \A r : Carries(j, r) => r = m.of
<1> USE DEF IInv
<1> DEFINE j == Head(ready)
<1>1. 1 \in 1..Len(ready) /\ j = ready[1] /\ j \in JobRec /\ Len(ready) \in Nat
  BY Typed
<1>2. j.c \in Conns /\ conn[j.c] \in ConnRec
  BY Typed DEF TypeInv
<1>3. ReadJob(j) /\ j.kind # "finish" /\ j.msg \in Msg
  BY <1>1 DEF Reading, ReadJob, JobRec
<1>4. MsgOK(j.msg, j.c)
  BY <1>1 DEF MsgInv
<1>5. conn[j.c].rop = "none"
  BY <1>1, <1>3 DEF OpInv
<1>6. ASSUME NEW k \in 1..Len(ready), k > 1
      PROVE  ~(ReadJob(ready[k]) /\ ready[k].c = j.c)
  <2>1. k # 1
    BY <1>1, <1>6
  <2> QED BY <1>1, <1>3, <2>1 DEF OpInv
<1>7. Calm => Alive(j.msg.of) /\ Apart(conn[j.c].resp, j.msg.of)
  BY <1>1 DEF OneInv, Apart
<1>8. \A r : Carries(j, r) => r = j.msg.of
  BY DEF Carries, Reading
<1> QED BY <1>1, <1>2, <1>3, <1>4, <1>5, <1>6, <1>7, <1>8

\* OnHeaderReaded or OnBodayReaded, and ReadHeader again.
LEMMA ReadOnStep ==
    ASSUME IInv, fault = "none", ready # <<>>, Reading(Head(ready)),
           NEW c, c = Head(ready).c, c \in mServers,
           NEW m, m = Head(ready).msg,
           NEW clean \in BOOLEAN, ReadOn(c, clean), Rest,
           Calm /\ ~Called({"Get"}) => clean,
           \/ EntryOf(m) = {} /\ ready' = Tail(ready)
           \/ \E it \in EntryOf(m) :
                 ready' = Tail(ready) \o
                          FinishRequest(it, m.of, AdjustEndian(m.raw))
    PROVE  IInv'
<1> USE DEF IInv
<1> DEFINE u == [conn[c] EXCEPT !.rop = "header", !.fit = IF clean THEN @ ELSE "short"]
<1>1. /\ c \in Conns /\ conn[c] \in ConnRec /\ 1 \in 1..Len(ready)
      /\ Head(ready) = ready[1] /\ m \in Msg /\ Head(ready).kind # "finish"
      /\ MsgOK(m, c) /\ conn[c].rop = "none" /\ ReadJob(ready[1])
      /\ \A k \in 1..Len(ready) :
            k > 1 => ~(ReadJob(ready[k]) /\ ready[k].c = c)
      /\ Calm => Alive(m.of) /\ Apart(conn[c].resp, m.of)
      /\ \A r : Carries(ready[1], r) => r = m.of
  BY HeadResponse
<1>2. conn' = [conn EXCEPT ![c] = u]
  BY <1>1 DEF ReadOn, TypeInv
<1>3. /\ u \in ConnRec /\ u.rop = "header" /\ u.resp = conn[c].resp
      /\ (conn[c].fit = "fits" /\ clean => u.fit = "fits") /\ SameLine(u, conn[c])
  BY <1>1 DEF ConnRec, Fits, SameLine
<1> HIDE DEF u
\* what is posted
<1>4. ASSUME NEW it \in EntryOf(m)
      PROVE  LET f == FinishJob(it, m.of, AdjustEndian(m.raw))
             IN  /\ it \in mRequests /\ it \in Reqs /\ Id(it) = Id(m.of)
                 /\ f \in JobRec /\ Shaped(f) /\ f.kind = "finish" /\ f.it = it
                 /\ Own(f.it, f.msg.of, f.msg.raw)
                 /\ m.of \in mRequests => it = m.of
  <2>1. it \in mRequests /\ it \in Reqs /\ Id(it) = Id(m.of)
    BY DEF EntryOf, Find, TypeInv
  <2>2. m.of \in Reqs /\ said[m.of] \in Codes /\ m.raw = Swap16(said[m.of])
    BY <1>1 DEF MsgOK
  <2>3. AdjustEndian(m.raw) = Swap16(said[m.of]) /\ AdjustEndian(m.raw) \in Nat
    BY <2>2, SwapTwice
  <2>4. it \in Nat /\ m.of \in Nat
    BY <2>1, <2>2 DEF Reqs
  <2> DEFINE f == FinishJob(it, m.of, AdjustEndian(m.raw))
  <2>5. /\ f \in JobRec /\ f.kind = "finish" /\ f.c = 0 /\ f.ok /\ f.it = it
        /\ f.msg.of = m.of /\ f.msg.raw = AdjustEndian(m.raw)
    BY <2>3, <2>4 DEF FinishJob, Job, JobRec, Msg
  <2> HIDE DEF f
  <2>6. m.of \in mRequests => it = m.of
    BY <2>1 DEF TableInv
  <2>7. it # m.of => m.of \in refused \/ Answered(m.of)
    BY <2>2, <2>6 DEF TableInv
  <2>8. Own(it, m.of, AdjustEndian(m.raw))
    BY <2>1, <2>2, <2>3, <2>7 DEF Own
  <2>9. Shaped(f)
    BY <2>5 DEF Shaped
  <2> QED BY <2>1, <2>5, <2>6, <2>8, <2>9 DEF f
<1>5. PICK new \in Seq(JobRec) :
         /\ Len(new) <= 1 /\ ready' = Tail(ready) \o new
         /\ \A k \in 1..Len(new) : \E it \in EntryOf(m) :
               new[k] = FinishJob(it, m.of, AdjustEndian(m.raw))
         /\ \A r \in EntryOf(m) :
               r \in mRequests /\ calls[r].kind # "Stat" /\ r = m.of =>
                  \E k \in 1..Len(new) :
                     new[k].kind = "finish" /\ new[k].it = r
  <2>1. Tail(ready) \o <<>> = Tail(ready) /\ <<>> \in Seq(JobRec)
    <3>1. Tail(ready) \in Seq(JobRec)
      BY HeadTailProperties DEF TypeInv
    <3> QED BY <3>1, ConcatEmptySeq, EmptySeq
  <2>2. CASE EntryOf(m) = {} /\ ready' = Tail(ready)
    <3>1. Len(<<>>) <= 1
      BY NoElement
    <3> QED BY <2>1, <2>2, <3>1, NoElement
  <2>3. ASSUME NEW it \in EntryOf(m),
               ready' = Tail(ready) \o
                        FinishRequest(it, m.of, AdjustEndian(m.raw))
        PROVE  \E new \in Seq(JobRec) :
         /\ Len(new) <= 1 /\ ready' = Tail(ready) \o new
         /\ \A k \in 1..Len(new) : \E q \in EntryOf(m) :
               new[k] = FinishJob(q, m.of, AdjustEndian(m.raw))
         /\ \A r \in EntryOf(m) :
               r \in mRequests /\ calls[r].kind # "Stat" /\ r = m.of =>
                  \E k \in 1..Len(new) :
                     new[k].kind = "finish" /\ new[k].it = r
    <3> DEFINE f == FinishJob(it, m.of, AdjustEndian(m.raw))
    <3>1. f \in JobRec /\ f.kind = "finish" /\ f.it = it
      BY <1>4
    <3>2. FinishRequest(it, m.of, AdjustEndian(m.raw)) =
             IF calls[it].more THEN <<>> ELSE <<f>>
      BY DEF FinishRequest, HasMoreResult
    <3>3. it \in Reqs /\ (m.of \in mRequests => it = m.of)
          /\ (calls[it].more => calls[it].kind = "Stat")
      BY <1>4 DEF TypeInv
    <3> HIDE DEF f
    <3>4. CASE calls[it].more
      <4>0. FinishRequest(it, m.of, AdjustEndian(m.raw)) = <<>>
        BY <3>2, <3>4
      <4>1. Len(<<>>) <= 1 /\ ready' = Tail(ready) \o <<>>
        <5>1. Len(<<>>) <= 1
          OBVIOUS
        <5> QED BY <2>3, <4>0, <5>1, Zenon
      <4>2. \A r \in EntryOf(m) :
               ~(r \in mRequests /\ calls[r].kind # "Stat" /\ r = m.of)
        BY <3>3, <3>4
      <4> QED BY <2>1, <4>1, <4>2, NoElement
    <3>5. CASE ~calls[it].more
      <4> DEFINE n == <<f>>
      <4>0. FinishRequest(it, m.of, AdjustEndian(m.raw)) = n
        BY <3>2, <3>5
      <4>1. /\ n \in Seq(JobRec) /\ Len(n) <= 1 /\ ready' = Tail(ready) \o n
            /\ 1 \in 1..Len(n) /\ \A k \in 1..Len(n) : n[k] = f
        <5>1. /\ n \in Seq(JobRec) /\ Len(n) <= 1
              /\ 1 \in 1..Len(n) /\ \A k \in 1..Len(n) : n[k] = f
          BY <3>1
        <5>2. ready' = Tail(ready) \o n
          BY <2>3, <4>0, Zenon
        <5> QED BY <5>1, <5>2
      <4> HIDE DEF n
      <4>2. \A k \in 1..Len(n) : \E q \in EntryOf(m) :
               n[k] = FinishJob(q, m.of, AdjustEndian(m.raw))
        BY <4>1 DEF f
      <4>3. \A r \in EntryOf(m) :
               r \in mRequests /\ calls[r].kind # "Stat" /\ r = m.of =>
                  \E k \in 1..Len(n) : n[k].kind = "finish" /\ n[k].it = r
        BY <3>1, <3>3, <4>1
      <4> QED BY <4>1, <4>2, <4>3
    <3> QED BY <3>4, <3>5
  <2> QED BY <2>2, <2>3
<1>6. \A k \in 1..Len(new) :
         /\ Shaped(new[k]) /\ new[k].kind = "finish" /\ new[k].it \in Reqs
         /\ new[k].it \in mRequests /\ Id(new[k].it) = Id(m.of)
         /\ Own(new[k].it, new[k].msg.of, new[k].msg.raw)
         /\ m.of \in mRequests => new[k].it = m.of
  <2> TAKE k \in 1..Len(new)
  <2>1. PICK it \in EntryOf(m) :
           new[k] = FinishJob(it, m.of, AdjustEndian(m.raw))
    BY <1>5
  <2> DEFINE f == FinishJob(it, m.of, AdjustEndian(m.raw))
  <2>2. /\ it \in mRequests /\ it \in Reqs /\ Id(it) = Id(m.of)
        /\ f \in JobRec /\ Shaped(f) /\ f.kind = "finish" /\ f.it = it
        /\ Own(f.it, f.msg.of, f.msg.raw)
        /\ m.of \in mRequests => it = m.of
    BY <1>4
  <2> HIDE DEF f
  <2>3. new[k] = f
    BY <2>1 DEF f
  <2> QED BY <2>2, <2>3
<1>7. Moves(c, u, 1, new)
  BY <1>1, <1>2, <1>3, <1>5, <1>6, MovesTailConcat
<1>8. MsgInv'
  <2>1. \A k \in 1..Len(u.resp) : MsgOK(u.resp[k], c)
    BY <1>1, <1>3 DEF MsgInv
  <2> QED BY <1>3, <1>6, <1>7, <2>1, MsgMoves DEF Reading
<1>9. OneInv'
  <2>1. Calm => /\ \A i \in 1..Len(u.resp) :
                      /\ Alive(u.resp[i].of)
                      /\ \A j \in 1..Len(u.resp) :
                            i # j => u.resp[i].of # u.resp[j].of
    <3> DEFINE resp == conn[c].resp
    <3>1. Calm => \A i \in 1..Len(resp) :
                     /\ Alive(resp[i].of)
                     /\ \A j \in 1..Len(resp) : i # j => resp[i].of # resp[j].of
      BY DEF OneInv
    <3>2. u.resp = resp
      BY <1>3
    <3> HIDE DEF resp
    <3> QED BY <3>1, <3>2
  <2>2. ASSUME Calm, NEW i \in 1..Len(new)
        PROVE  /\ ~Reading(new[i]) /\ new[i].it \in Reqs
               /\ calls[new[i].it].c = c /\ said[new[i].it] # Unsaid
               /\ Apart(u.resp, new[i].it)
               /\ \A k \in 1..Len(ready) :
                     ~(k > 1 /\ Reading(ready[k]) /\ ready[k].c = c)
    <3>1. new[i].it = m.of /\ Apart(u.resp, new[i].it)
      BY <1>1, <1>3, <1>6, <2>2 DEF Alive
    <3>2. said[m.of] # Unsaid /\ calls[m.of].c = c
      BY <1>1 DEF MsgOK, Codes, Unsaid, ERequest_SUCCESS,
                  ERequest_KEY_ENOENT, ERequest_EINVAL
    <3>3. ~Reading(new[i]) /\ new[i].it \in Reqs
      BY <1>6 DEF Reading
    <3>4. \A k \in 1..Len(ready) :
             ~(k > 1 /\ Reading(ready[k]) /\ ready[k].c = c)
      BY <1>1 DEF Reading, ReadJob
    <3> QED BY <3>1, <3>2, <3>3, <3>4
  <2>3. \A k \in 1..Len(ready) :
           ~(k > 1 /\ Reading(ready[k]) /\ ready[k].c = c)
    BY <1>1 DEF Reading, ReadJob
  <2>4. u.rop # "body"
    BY <1>3
  <2> QED BY <1>7, <2>1, <2>2, <2>3, <2>4, OneMoves
<1>10. FreshInv'
  <2>1. ASSUME Fresh, NEW i \in 1..Len(new), NEW k \in 1..Len(ready)
        PROVE  /\ ready[k].kind = "finish" => ready[k].it # new[i].it
               /\ k > 1 /\ Reading(ready[k]) =>
                     Id(ready[k].msg.of) # Id(new[i].it)
    <3>1. Id(new[i].it) = Id(m.of)
      BY <1>6
    <3>2. ASSUME ready[k].kind = "finish" PROVE ready[k].it # new[i].it
      <4>1. 1 \in 1..(k - 1)
        BY <1>1, <3>2
      <4>2. Id(ready[1].msg.of) # Id(ready[k].it)
        BY <1>1, <2>1, <3>2, <4>1 DEF FreshInv
      <4> QED BY <1>1, <3>1, <4>2
    <3>3. ASSUME k > 1, Reading(ready[k]), Id(ready[k].msg.of) = Id(m.of)
          PROVE  FALSE
      <4>1. ready[k].c # c
        BY <1>1, <3>3 DEF Reading, ReadJob
      <4>2. MsgOK(ready[k].msg, ready[k].c)
        BY <3>3 DEF MsgInv
      <4>3. ready[k].msg.of # m.of
        BY <1>1, <4>1, <4>2 DEF MsgOK
      <4>4. CASE ~Reused
        BY <1>1, <3>3, <4>2, <4>3, <4>4, IdsDiffer DEF MsgOK
      <4>5. CASE ~Called({"Stat"})
        <5>1. Calm
          BY <2>1, <4>5 DEF Calm, Fresh
        <5>2. ready[k].c \in Conns
          BY <3>3 DEF TypeInv, Shaped, Reading
        <5>3. ready[k].c \in mServers
          BY <2>1, <5>2 DEF Fresh, Removed, Conns
        <5>4. ready[k].msg.of \in mRequests /\ m.of \in mRequests
          BY <1>1, <3>3, <5>1, <5>3 DEF OneInv, Alive
        <5> QED BY <3>3, <4>3, <5>4 DEF TableInv
      <4> QED BY <2>1, <4>4, <4>5 DEF Fresh
    <3> QED BY <3>1, <3>2, <3>3
  <2> QED BY <1>6, <1>7, <2>1, FreshMoves
<1>11. ASSUME NEW r \in mRequests, calls[r].kind # "Stat",
              \/ \E k \in 1..Len(conn[c].resp) : conn[c].resp[k].of = r
              \/ conn[c].rop = "body" /\ conn[c].msg.of = r
              \/ Carries(ready[1], r)
       PROVE  \/ Holds(u, r)
              \/ \E k \in 1..Len(new) :
                    new[k].kind = "finish" /\ new[k].it = r
  <2>1. CASE \E k \in 1..Len(conn[c].resp) : conn[c].resp[k].of = r
    BY <1>3, <2>1 DEF Holds
  <2>2. CASE Carries(ready[1], r)
    <3>1. r = m.of /\ r \in EntryOf(m)
      BY <1>1, <2>2 DEF EntryOf, Find
    <3> QED BY <1>5, <1>11, <3>1
  <2> QED BY <1>1, <1>11, <2>1, <2>2
<1>12. \A k \in 1..Len(new) : new[k].kind = "finish"
  BY <1>6
<1>13. SameLine(u, conn[c]) /\ ReadJob(ready[1])
       /\ (Calm /\ ~Called({"Get"}) /\ conn[c].fit = "fits" => u.fit = "fits")
  BY <1>1, <1>3
<1>14. Forwards(c, u, 1, new)
  BY <1>11 DEF Forwards
<1>15. /\ \A k \in 1..Len(new) :
             \/ new[k].kind = "finish"
             \/ ReadJob(new[k]) /\ conn[c].rop # "none" /\ u.rop = "none"
       /\ 1 = 1 => ReadJob(ready[1])
       /\ u.rop # "none" => conn[c].rop # "none" \/ 1 = 1
  BY <1>12, <1>13
<1> HIDE DEF IInv
<1> QED BY <1>7, <1>8, <1>9, <1>10, <1>13, <1>14, <1>15, ReadStep

\* OnHeaderReaded of a response with a value: ReadBody.
LEMMA ReadBodyStep ==
    ASSUME IInv, fault = "none", ready # <<>>, Reading(Head(ready)),
           NEW c, c = Head(ready).c, c \in mServers,
           NEW m, m = Head(ready).msg, Rest, ready' = Tail(ready),
           NEW fit \in Fits, Calm /\ ~Called({"Get"}) => fit = "fits",
           conn' = [conn EXCEPT ![c].rop = "body", ![c].msg = m,
                                ![c].fit = fit]
    PROVE  IInv'
<1> USE DEF IInv
<1> DEFINE u == [conn[c] EXCEPT !.rop = "body", !.msg = m, !.fit = fit]
           new == <<>>
<1>1. /\ c \in Conns /\ conn[c] \in ConnRec /\ 1 \in 1..Len(ready)
      /\ Head(ready) = ready[1] /\ m \in Msg /\ Head(ready).kind # "finish"
      /\ MsgOK(m, c) /\ conn[c].rop = "none" /\ ReadJob(ready[1])
      /\ \A k \in 1..Len(ready) :
            k > 1 => ~(ReadJob(ready[k]) /\ ready[k].c = c)
      /\ Calm => Alive(m.of) /\ Apart(conn[c].resp, m.of)
      /\ \A r : Carries(ready[1], r) => r = m.of
  BY HeadResponse
<1>2. conn' = [conn EXCEPT ![c] = u]
  BY <1>1 DEF TypeInv
<1>3. /\ u \in ConnRec /\ u.rop = "body" /\ u.msg = m /\ u.resp = conn[c].resp
      /\ u.fit = fit /\ SameLine(u, conn[c])
  BY <1>1 DEF ConnRec, SameLine
<1> HIDE DEF u
<1>4. Moves(c, u, 1, new) /\ \A k \in 1..Len(new) : FALSE
  BY <1>1, <1>2, <1>3, MovesTail, NoElement
<1> HIDE DEF new
<1>5. MsgInv'
  <2>1. \A k \in 1..Len(u.resp) : MsgOK(u.resp[k], c)
    BY <1>1, <1>3 DEF MsgInv
  <2> QED BY <1>1, <1>3, <1>4, <2>1, MsgMoves
<1>6. OneInv'
  <2> DEFINE resp == conn[c].resp
  <2>1. Calm => \A i \in 1..Len(resp) :
                   /\ Alive(resp[i].of)
                   /\ \A j \in 1..Len(resp) : i # j => resp[i].of # resp[j].of
    BY DEF OneInv
  <2>2. u.resp = resp
    BY <1>3
  <2> HIDE DEF resp
  <2>3. \A k \in 1..Len(ready) :
           ~(k > 1 /\ Reading(ready[k]) /\ ready[k].c = c)
    BY <1>1 DEF Reading, ReadJob
  <2>4. Calm => \A i \in 1..Len(u.resp) :
                   /\ Alive(u.resp[i].of)
                   /\ \A j \in 1..Len(u.resp) :
                         i # j => u.resp[i].of # u.resp[j].of
    BY <2>1, <2>2
  <2>5. Calm => Alive(u.msg.of) /\ Apart(u.resp, u.msg.of)
    BY <1>1, <1>3
  <2> QED BY <1>4, <2>3, <2>4, <2>5, OneMoves
<1>7. FreshInv'
  BY <1>4, FreshMoves
<1>8. ASSUME NEW r \in mRequests,
             \/ \E k \in 1..Len(conn[c].resp) : conn[c].resp[k].of = r
             \/ conn[c].rop = "body" /\ conn[c].msg.of = r
             \/ Carries(ready[1], r)
      PROVE  Holds(u, r)
  BY <1>1, <1>3, <1>8 DEF Holds
<1> QED BY <1>1, <1>3, <1>4, <1>5, <1>6, <1>7, <1>8, ReadStep, SMTT(20) DEF Forwards

\* The stream is left in place if there is no Get and no Stat.
LEMMA PlainShape ==
    ASSUME NEW m, NEW c, MsgOK(m, c), ~Called({"Get"}), ~Called({"Stat"})
    PROVE  m.shape \in {"empty", "value"}
BY DEF MsgOK, Called, Reqs

\* The buffers for an answer to anything but a Get have its size, as long as
\* it finds its own entry.
LEMMA OwnFits ==
    ASSUME TypeInv, TableInv, NEW m, NEW c, MsgOK(m, c), m.of \in mRequests,
           ~Called({"Get"}), NEW it \in Find(Id(m.of)),
           NEW fit \in FillReceiveBuffer(it, m)
    PROVE  fit = "fits"
<1>1. it = m.of
  BY EntryIsOwn
<1>2. calls[m.of].kind # "Get"
  BY DEF MsgOK, Called, Reqs
<1> QED BY <1>1, <1>2 DEF FillReceiveBuffer

LEMMA RunHeaderStep ==
    ASSUME IInv, fault = "none", ready # <<>>, Head(ready).kind = "header",
           Head(ready).c \in mServers, RunHeader(Head(ready)), Head(ready).ok
    PROVE  IInv'
<1> USE DEF IInv
<1> DEFINE j == Head(ready)
           m == j.msg
           c == j.c
<1>1. Reading(Head(ready))
  BY DEF Reading
<1>2. MsgOK(m, c) /\ (Calm => m.of \in mRequests)
  BY <1>1, HeadResponse DEF Alive
<1>3. CASE /\ EntryOf(m) # {} /\ ~HasValue(m)
           /\ \E it \in EntryOf(m) :
                 ready' = Tail(ready) \o
                          FinishRequest(it, m.of, AdjustEndian(m.raw))
           /\ ReadOn(c, m.shape = "empty") /\ Rest
  <2> DEFINE clean == m.shape = "empty"
  <2>1. clean \in BOOLEAN /\ ReadOn(c, clean)
    BY <1>3
  <2>2. Calm /\ ~Called({"Get"}) => clean
    BY <1>2, <1>3, PlainShape DEF Calm, HasValue
  <2> HIDE DEF clean, c, m
  <2> QED BY <1>1, <1>3, <2>1, <2>2, ReadOnStep DEF c, m
<1>4. ASSUME NEW it \in EntryOf(m), NEW fit \in FillReceiveBuffer(it, m),
             conn' = [conn EXCEPT ![c].rop = "body", ![c].msg = m,
                                  ![c].fit = fit],
             ready' = Tail(ready), Rest
      PROVE  IInv'
  <2>1. fit \in Fits
    BY DEF FillReceiveBuffer, Fits
  <2>2. Calm /\ ~Called({"Get"}) => fit = "fits"
    BY <1>2, OwnFits DEF EntryOf
  <2> HIDE DEF c, m
  <2> QED BY <1>1, <1>4, <2>1, <2>2, ReadBodyStep DEF c, m
<1>5. CASE /\ EntryOf(m) = {} /\ ReadOn(c, m.shape = "empty")
           /\ ready' = Tail(ready) /\ Rest
  <2> DEFINE clean == m.shape = "empty"
  <2>1. clean \in BOOLEAN /\ ReadOn(c, clean)
    BY <1>5
  <2>2. ~Calm
    BY <1>2, <1>5 DEF EntryOf, Find
  <2> HIDE DEF clean, c, m
  <2> QED BY <1>1, <1>5, <2>1, <2>2, ReadOnStep DEF c, m
<1> QED BY <1>3, <1>4, <1>5 DEF RunHeader

LEMMA RunBodyStep ==
    ASSUME IInv, fault = "none", ready # <<>>, Head(ready).kind = "body",
           Head(ready).c \in mServers, RunBody(Head(ready)), Head(ready).ok
    PROVE  IInv'
<1> USE DEF IInv
<1> DEFINE j == Head(ready)
           m == j.msg
           c == j.c
<1>1. Reading(Head(ready))
  BY DEF Reading
<1>2. ReadOn(c, TRUE) /\ Rest
  BY DEF RunBody
<1>3. \/ EntryOf(m) = {} /\ ready' = Tail(ready)
      \/ \E it \in EntryOf(m) :
            ready' = Tail(ready) \o FinishRequest(it, m.of, AdjustEndian(m.raw))
  <2>1. CASE EntryOf(m) = {}
    BY <2>1 DEF RunBody
  <2>2. CASE EntryOf(m) # {}
    <3> DEFINE it == CHOOSE q \in EntryOf(m) : TRUE
    <3>1. it \in EntryOf(m)
      BY <2>2
    <3>2. ready' = Tail(ready) \o FinishRequest(it, m.of, AdjustEndian(m.raw))
      BY <2>2 DEF RunBody
    <3> HIDE DEF it
    <3> QED BY <3>1, <3>2
  <2> QED BY <2>1, <2>2
<1> HIDE DEF c, m
<1> QED BY <1>1, <1>2, <1>3, ReadOnStep DEF c, m

-----------------------------------------------------------------------------
(* Losing a server.                                                        *)

FinishOf(j, c) == \E e \in mRequests, p \in Reqs :
    /\ Id(e) = Id(p) /\ calls[p].c = c
    /\ j = FinishJob(e, p, ERequest_NETWORK_ERROR)

AbortOf(j, c) ==
    /\ j.c = c /\ ~j.ok
    /\ \/ ReadJob(j) /\ conn[c].rop # "none"
       \/ j.kind = "write" /\ conn[c].wop

\* What the loss of c adds to the queue.
LossOf(new, c) ==
    /\ new \in Seq(JobRec)
    /\ \A k \in 1..Len(new) : FinishOf(new[k], c) \/ AbortOf(new[k], c)
    /\ \A k \in 1..Len(new), l \in 1..Len(new) : k # l =>
          /\ ~(ReadJob(new[k]) /\ ReadJob(new[l]))
          /\ ~(new[k].kind = "write" /\ new[l].kind = "write")
    /\ \A r \in mRequests : calls[r].c = c /\ ~calls[r].more =>
          \E k \in 1..Len(new) : new[k].kind = "finish" /\ new[k].it = r

LEMMA FinishOfFacts ==
    ASSUME TypeInv, NEW c, NEW j, FinishOf(j, c)
    PROVE  /\ j.kind = "finish" /\ j.c = 0 /\ j.ok /\ ~ReadJob(j)
           /\ j.it \in mRequests /\ j.it \in Reqs
           /\ j.msg.of \in Reqs /\ Id(j.it) = Id(j.msg.of)
           /\ calls[j.msg.of].c = c /\ j.msg.raw = ERequest_NETWORK_ERROR
<1>1. PICK e \in mRequests, p \in Reqs :
         /\ Id(e) = Id(p) /\ calls[p].c = c
         /\ j = FinishJob(e, p, ERequest_NETWORK_ERROR)
  BY DEF FinishOf
<1>2. e \in Reqs /\ e \in Nat /\ p \in Nat /\ ERequest_NETWORK_ERROR \in Nat
  BY DEF TypeInv, Reqs, ERequest_NETWORK_ERROR
<1>3. /\ j.kind = "finish" /\ j.c = 0 /\ j.ok /\ j.it = e /\ j.msg.of = p
      /\ j.msg.raw = ERequest_NETWORK_ERROR
  BY <1>1, <1>2, FinishJobType
<1> QED BY <1>1, <1>2, <1>3 DEF ReadJob

\* The step as far as the invariant is concerned.
Loses(c, d, new) ==
    /\ d \in {0, 1} /\ LossOf(new, c)
    /\ ready' \in Seq(JobRec) /\ Queued(ready, d, new, ready')
    /\ d = 1 => /\ 1 \in 1..Len(ready)
                /\ ready[1].kind # "finish" /\ ready[1].c = c
    /\ mServers' = mServers \ {c}
    /\ conn' = [conn EXCEPT ![c].rop = "none", ![c].wop = FALSE]
    /\ fault' \in {"none", "freed_host"}
    /\ UNCHANGED <<calls, mRequests, refused, answers, said>>

LEMMA LostConn ==
    ASSUME TypeInv, NEW c \in mServers, NEW d, NEW new, Loses(c, d, new)
    PROVE  /\ c \in Conns /\ Conns' = Conns /\ Reqs' = Reqs
           /\ conn' \in Seq(ConnRec) /\ Len(conn') = Len(conn)
           /\ \A x \in Conns : x # c => conn'[x] = conn[x]
           /\ conn'[c].rop = "none" /\ ~conn'[c].wop
           /\ \A x \in Conns :
                 /\ conn'[x].wire = conn[x].wire
                 /\ conn'[x].mPendingBuffers = conn[x].mPendingBuffers
                 /\ conn'[x].mPendingRequests = conn[x].mPendingRequests
                 /\ conn'[x].mWriteBuffers = conn[x].mWriteBuffers
                 /\ conn'[x].resp = conn[x].resp
                 /\ conn'[x].fit = conn[x].fit
           /\ mServers' \subseteq mServers /\ c \notin mServers'
           /\ Removed' # {}
<1> DEFINE u == [conn[c] EXCEPT !.rop = "none", !.wop = FALSE]
<1>1. c \in Conns /\ conn[c] \in ConnRec /\ Reqs' = Reqs
  BY Typed DEF TypeInv, Loses, Reqs
<1>2. conn' = [conn EXCEPT ![c] = u]
  BY <1>1 DEF Loses, TypeInv
<1>3. /\ u \in ConnRec /\ u.rop = "none" /\ ~u.wop /\ u.wire = conn[c].wire
      /\ u.mPendingBuffers = conn[c].mPendingBuffers
      /\ u.mPendingRequests = conn[c].mPendingRequests
      /\ u.mWriteBuffers = conn[c].mWriteBuffers
      /\ u.resp = conn[c].resp /\ u.fit = conn[c].fit
  BY <1>1 DEF ConnRec
<1> HIDE DEF u
<1>4. /\ conn' \in Seq(ConnRec) /\ Len(conn') = Len(conn)
      /\ conn'[c] = u /\ \A x \in Conns : x # c => conn'[x] = conn[x]
  BY <1>1, <1>2, <1>3, Updated
<1>5. mServers' \subseteq mServers /\ c \notin mServers'
  BY DEF Loses
<1>6. Removed' # {}
  BY <1>1, <1>4, <1>5 DEF Removed, Conns
<1> QED BY <1>1, <1>3, <1>4, <1>5, <1>6 DEF Conns

\* A handler of the queue afterwards is an old one, or was added.
LEMMA LostQueue ==
    ASSUME TypeInv, NEW c, NEW d, NEW new, Loses(c, d, new)
    PROVE  /\ Len(ready) \in Nat /\ Len(ready') \in Nat /\ Len(new) \in Nat
           /\ d \in {0, 1}
           /\ \A k \in 1..Len(ready') :
                 \/ k + d \in 1..Len(ready) /\ ready'[k] = ready[k + d]
                 \/ \E i \in 1..Len(new) :
                       k = i + (Len(ready) - d) /\ ready'[k] = new[i]
           /\ \A k \in 1..Len(ready) :
                 \/ k - d \in 1..Len(ready') /\ ready'[k - d] = ready[k]
                 \/ /\ d = 1 /\ k = 1
                    /\ ready[1].kind # "finish" /\ ready[1].c = c
           /\ \A i \in 1..Len(new) : \E k \in 1..Len(ready') : ready'[k] = new[i]
<1>1. /\ Len(ready) \in Nat /\ Len(ready') \in Nat /\ Len(new) \in Nat
      /\ d \in {0, 1}
  BY LenProperties DEF TypeInv, Loses, LossOf
<1>2. Queued(ready, d, new, ready')
      /\ (d = 1 => ready[1].kind # "finish" /\ ready[1].c = c)
  BY DEF Loses
<1>3. ASSUME NEW k \in 1..Len(ready')
      PROVE  \/ k + d \in 1..Len(ready) /\ ready'[k] = ready[k + d]
             \/ \E i \in 1..Len(new) :
                   k = i + (Len(ready) - d) /\ ready'[k] = new[i]
  <2>1. CASE k - (Len(ready) - d) \in 1..Len(new)
             /\ ready'[k] = new[k - (Len(ready) - d)]
    <3> DEFINE i == k - (Len(ready) - d)
    <3>1. i \in 1..Len(new) /\ k = i + (Len(ready) - d) /\ ready'[k] = new[i]
      BY <1>1, <2>1
    <3> HIDE DEF i
    <3> QED BY <3>1
  <2> QED BY <1>2, <2>1 DEF Queued
<1>4. ASSUME NEW k \in 1..Len(ready)
      PROVE  \/ k - d \in 1..Len(ready') /\ ready'[k - d] = ready[k]
             \/ /\ d = 1 /\ k = 1
                /\ ready[1].kind # "finish" /\ ready[1].c = c
  <2>1. CASE k > d
    BY <1>2, <2>1 DEF Queued
  <2>2. CASE ~(k > d)
    BY <1>1, <1>2, <2>2
  <2> QED BY <2>1, <2>2
<1>5. \A i \in 1..Len(new) : \E k \in 1..Len(ready') : ready'[k] = new[i]
  BY <1>2 DEF Queued
<1> QED BY <1>1, <1>3, <1>4, <1>5

LEMMA LostType ==
    ASSUME TypeInv, TableInv, NEW c \in mServers, NEW d, NEW new,
           Loses(c, d, new)
    PROVE  TypeInv' /\ TableInv'
<1>1. /\ c \in Conns /\ Conns' = Conns /\ Reqs' = Reqs
      /\ conn' \in Seq(ConnRec) /\ mServers' \subseteq mServers
      /\ \A x \in Conns : conn'[x].mPendingRequests = conn[x].mPendingRequests
  BY LostConn
<1>2. /\ UNCHANGED <<calls, mRequests, refused, answers, said>>
      /\ ready' \in Seq(JobRec) /\ LossOf(new, c)
  BY DEF Loses
<1>3. \A j : Shaped(j) => Shaped(j)'
  BY <1>1 DEF Shaped
<1>4. ASSUME NEW k \in 1..Len(ready') PROVE Shaped(ready[k])'
  <2>1. CASE k + d \in 1..Len(ready) /\ ready'[k] = ready[k + d]
    BY <1>3, <2>1 DEF TypeInv
  <2>2. ASSUME NEW i \in 1..Len(new), ready'[k] = new[i]
        PROVE  Shaped(ready[k])'
    <3>1. CASE FinishOf(new[i], c)
      BY <1>3, <2>2, <3>1, FinishOfFacts DEF Shaped
    <3>2. CASE AbortOf(new[i], c)
      BY <1>1, <1>3, <2>2, <3>2 DEF Shaped, AbortOf, ReadJob
    <3> QED BY <1>2, <3>1, <3>2 DEF LossOf
  <2> QED BY <2>1, <2>2, LostQueue
<1>5. TypeInv'
  BY <1>1, <1>2, <1>4 DEF TypeInv
<1>6. \A r \in Reqs : calls[r].c \in Conns
  BY DEF TypeInv
<1>7. TableInv'
  BY <1>1, <1>2, <1>6, TableSame
<1> QED BY <1>5, <1>7

LEMMA LostSend ==
    ASSUME TypeInv, SendInv, NEW c \in mServers, NEW d, NEW new,
           Loses(c, d, new)
    PROVE  SendInv'
<1>1. /\ Conns' = Conns /\ Reqs' = Reqs /\ c \in Conns /\ ~conn'[c].wop
      /\ \A x \in Conns : x # c => conn'[x] = conn[x]
      /\ \A x \in Conns :
            /\ conn'[x].wire = conn[x].wire
            /\ conn'[x].mPendingBuffers = conn[x].mPendingBuffers
  BY LostConn
<1>2. \A r, x : Waits(r, x)' <=> Waits(r, x)
  BY <1>1 DEF Waits, Loses
<1>3. \A x \in Conns : Out(x)' = Out(x) \/ Out(x)' = <<>>
  BY <1>1 DEF Out
<1>4. ASSUME NEW x \in Conns
      PROVE  Line(conn[x].wire, Out(x), conn[x].mPendingBuffers, x)'
  <2> DEFINE w == conn[x].wire
             p == conn[x].mPendingBuffers
             o == Out(x)
  <2>1. Line(w, o, p, x)
    BY DEF SendInv
  <2>2. Line(w, <<>>, p, x)
    BY <2>1, NoElement DEF Line, Incr, Before, Unserved
  <2>3. w' = w /\ p' = p /\ (o' = o \/ o' = <<>>)
    BY <1>1, <1>3
  <2> HIDE DEF w, p, o
  <2>4. Line(w, o, p, x)'
    BY <1>2, <2>1, <2>2, <2>3 DEF Line, Unserved, Incr, Before
  <2> QED BY <2>4 DEF w, p, o
<1>5. ASSUME NEW k \in 1..Len(ready'), ready'[k].kind = "send"
      PROVE  k + d \in 1..Len(ready) /\ ready'[k] = ready[k + d]
  <2>1. ASSUME NEW i \in 1..Len(new) PROVE new[i].kind # "send"
    <3>1. FinishOf(new[i], c) \/ AbortOf(new[i], c)
      BY DEF Loses, LossOf
    <3> QED BY <3>1, FinishOfFacts DEF AbortOf, ReadJob
  <2>2. \/ k + d \in 1..Len(ready) /\ ready'[k] = ready[k + d]
        \/ \E i \in 1..Len(new) : ready'[k] = new[i]
    BY LostQueue
  <2> QED BY <1>5, <2>1, <2>2
<1>6. ASSUME NEW k \in 1..Len(ready'), ready'[k].kind = "send"
      PROVE  (/\ Waits(ready[k].it, ready[k].c)
              /\ Under(conn[ready[k].c].wire, ready[k].it)
              /\ Under(Out(ready[k].c), ready[k].it)
              /\ Under(conn[ready[k].c].mPendingBuffers, ready[k].it))'
  <2>1. PICK j : /\ k + d \in 1..Len(ready) /\ ready'[k] = j
                 /\ j = ready[k + d] /\ j.kind = "send"
    BY <1>5, <1>6
  <2>2. /\ Waits(j.it, j.c) /\ j.c \in Conns
        /\ Under(conn[j.c].wire, j.it) /\ Under(Out(j.c), j.it)
        /\ Under(conn[j.c].mPendingBuffers, j.it)
    BY <2>1 DEF SendInv, TypeInv, Shaped
  <2>3. Under(Out(j.c), j.it)'
    <3>1. Out(j.c)' = Out(j.c) \/ Out(j.c)' = <<>>
      BY <1>3, <2>2
    <3>2. Under(<<>>, j.it)
      BY NoElement DEF Under
    <3> QED BY <2>2, <3>1, <3>2 DEF Under
  <2>4. (Waits(j.it, j.c) /\ Under(conn[j.c].wire, j.it)
            /\ Under(conn[j.c].mPendingBuffers, j.it))'
    BY <1>1, <1>2, <2>2 DEF Under
  <2> QED BY <2>1, <2>3, <2>4
<1>7. ASSUME NEW k \in 1..Len(ready'), NEW l \in 1..Len(ready'), k < l,
             ready'[k].kind = "send", ready'[l].kind = "send"
      PROVE  ready'[k].it < ready'[l].it
  <2>1. /\ k + d \in 1..Len(ready) /\ ready'[k] = ready[k + d]
        /\ l + d \in 1..Len(ready) /\ ready'[l] = ready[l + d]
    BY <1>5, <1>7
  <2>2. k + d < l + d
    <3>1. d \in {0, 1}
      BY LostQueue
    <3> QED BY <1>7, <3>1
  <2> QED BY <1>7, <2>1, <2>2 DEF SendInv
<1> QED BY <1>1, <1>4, <1>6, <1>7 DEF SendInv

LEMMA LostMsg ==
    ASSUME TypeInv, MsgInv, NEW c \in mServers, NEW d, NEW new,
           Loses(c, d, new)
    PROVE  MsgInv'
<1>1. /\ Conns' = Conns /\ Reqs' = Reqs /\ c \in Conns
      /\ conn'[c].rop = "none" /\ conn'[c].resp = conn[c].resp
      /\ \A x \in Conns : x # c => conn'[x] = conn[x]
  BY LostConn
<1>2. UNCHANGED <<calls, mRequests, refused, answers, said>>
  BY DEF Loses
<1>3. \A m, x : MsgOK(m, x) => MsgOK(m, x)'
  BY <1>1, <1>2 DEF MsgOK
<1>4. \A it, of, st : Own(it, of, st) => Own(it, of, st)'
  BY <1>1, <1>2 DEF Own, Answered, Id
<1>5. ASSUME NEW k \in 1..Len(ready')
      PROVE  LET j == ready'[k]
             IN  /\ Reading(j) => MsgOK(j.msg, j.c)
                 /\ j.kind = "finish" =>
                       j.it \in Reqs /\ Own(j.it, j.msg.of, j.msg.raw)
  <2>1. CASE k + d \in 1..Len(ready) /\ ready'[k] = ready[k + d]
    BY <2>1 DEF MsgInv
  <2>2. ASSUME NEW i \in 1..Len(new), ready'[k] = new[i]
        PROVE  LET j == new[i]
               IN  /\ ~Reading(j)
                   /\ j.kind = "finish" =>
                         j.it \in Reqs /\ Own(j.it, j.msg.of, j.msg.raw)
    <3>1. CASE FinishOf(new[i], c)
      BY <3>1, FinishOfFacts DEF Reading, Own
    <3>2. CASE AbortOf(new[i], c)
      BY <3>2 DEF AbortOf, ReadJob, Reading
    <3>3. FinishOf(new[i], c) \/ AbortOf(new[i], c)
      BY DEF Loses, LossOf
    <3> QED BY <3>1, <3>2, <3>3
  <2>3. \/ k + d \in 1..Len(ready) /\ ready'[k] = ready[k + d]
        \/ \E i \in 1..Len(new) : ready'[k] = new[i]
    BY LostQueue
  <2> QED BY <2>1, <2>2, <2>3
<1>6. ASSUME NEW x \in Conns
      PROVE  (/\ conn[x].rop = "body" => MsgOK(conn[x].msg, x)
              /\ \A k \in 1..Len(conn[x].resp) : MsgOK(conn[x].resp[k], x))'
  <2>1. CASE x = c
    BY <1>1, <1>3, <2>1 DEF MsgInv
  <2>2. CASE x # c
    BY <1>1, <1>3, <2>2 DEF MsgInv
  <2> QED BY <2>1, <2>2
<1>7. ASSUME NEW r \in 1..MaxCalls, NEW k \in 1..Len(answers'[r])
      PROVE  Own(r, answers[r][k].of, answers[r][k].st)'
  BY <1>2, <1>4 DEF MsgInv
<1> QED BY <1>1, <1>3, <1>4, <1>5, <1>6, <1>7 DEF MsgInv, Reading

LEMMA LostOp ==
    ASSUME TypeInv, OpInv, NEW c \in mServers, NEW d, NEW new,
           Loses(c, d, new)
    PROVE  OpInv'
<1>1. /\ Conns' = Conns /\ c \in Conns
      /\ conn'[c].rop = "none" /\ ~conn'[c].wop
      /\ conn'[c].mWriteBuffers = conn[c].mWriteBuffers
      /\ \A x \in Conns : x # c => conn'[x] = conn[x]
  BY LostConn
<1>2. \A i \in 1..Len(new) :
         /\ ReadJob(new[i]) => new[i].c = c /\ conn[c].rop # "none"
         /\ new[i].kind = "write" => new[i].c = c /\ conn[c].wop
  <2> TAKE i \in 1..Len(new)
  <2>1. FinishOf(new[i], c) \/ AbortOf(new[i], c)
    BY DEF Loses, LossOf
  <2> QED BY <2>1, FinishOfFacts DEF AbortOf, ReadJob
<1>3. \A i \in 1..Len(new), l \in 1..Len(new) : i # l =>
         /\ ~(ReadJob(new[i]) /\ ReadJob(new[l]))
         /\ ~(new[i].kind = "write" /\ new[l].kind = "write")
  BY DEF Loses, LossOf
<1>4. \A k \in 1..Len(ready) :
         /\ ReadJob(ready[k]) => /\ ready[k].c \in Conns
                                 /\ conn[ready[k].c].rop = "none"
         /\ ready[k].kind = "write" =>
               /\ ready[k].c \in Conns /\ ~conn[ready[k].c].wop
               /\ conn[ready[k].c].mWriteBuffers # <<>>
  BY DEF OpInv, TypeInv, Shaped, ReadJob
<1>5. ASSUME NEW k \in 1..Len(ready')
      PROVE  /\ ReadJob(ready'[k]) => conn'[ready'[k].c].rop = "none"
             /\ ready'[k].kind = "write" =>
                   /\ ~conn'[ready'[k].c].wop
                   /\ conn'[ready'[k].c].mWriteBuffers # <<>>
  <2>1. CASE k + d \in 1..Len(ready) /\ ready'[k] = ready[k + d]
    BY <1>1, <1>4, <2>1
  <2>2. ASSUME NEW i \in 1..Len(new), ready'[k] = new[i]
        PROVE  /\ ReadJob(ready'[k]) => conn'[ready'[k].c].rop = "none"
               /\ ready'[k].kind = "write" =>
                     /\ ~conn'[ready'[k].c].wop
                     /\ conn'[ready'[k].c].mWriteBuffers # <<>>
    <3>1. conn[c].wop => conn[c].mWriteBuffers # <<>>
      BY <1>1 DEF OpInv
    <3> QED BY <1>1, <1>2, <2>2, <3>1
  <2> QED BY <2>1, <2>2, LostQueue
<1>6. ASSUME NEW k \in 1..Len(ready'), NEW l \in 1..Len(ready'), k # l,
             ready'[k].c = ready'[l].c
      PROVE  /\ ~(ReadJob(ready'[k]) /\ ReadJob(ready'[l]))
             /\ ~(ready'[k].kind = "write" /\ ready'[l].kind = "write")
  <2>1. CASE /\ k + d \in 1..Len(ready) /\ ready'[k] = ready[k + d]
             /\ l + d \in 1..Len(ready) /\ ready'[l] = ready[l + d]
    <3>1. k + d # l + d
      BY <1>6, LostQueue
    <3> QED BY <1>6, <2>1, <3>1 DEF OpInv
  <2>2. ASSUME k + d \in 1..Len(ready), ready'[k] = ready[k + d],
               NEW i \in 1..Len(new), ready'[l] = new[i]
        PROVE  /\ ~(ReadJob(ready'[k]) /\ ReadJob(ready'[l]))
               /\ ~(ready'[k].kind = "write" /\ ready'[l].kind = "write")
    BY <1>2, <1>4, <1>6, <2>2
  <2>3. ASSUME l + d \in 1..Len(ready), ready'[l] = ready[l + d],
               NEW i \in 1..Len(new), ready'[k] = new[i]
        PROVE  /\ ~(ReadJob(ready'[k]) /\ ReadJob(ready'[l]))
               /\ ~(ready'[k].kind = "write" /\ ready'[l].kind = "write")
    BY <1>2, <1>4, <1>6, <2>3
  <2>4. ASSUME NEW i \in 1..Len(new), NEW h \in 1..Len(new),
               k = i + (Len(ready) - d), ready'[k] = new[i],
               l = h + (Len(ready) - d), ready'[l] = new[h]
        PROVE  /\ ~(ReadJob(ready'[k]) /\ ReadJob(ready'[l]))
               /\ ~(ready'[k].kind = "write" /\ ready'[l].kind = "write")
    <3>1. i # h
      BY <1>6, <2>4
    <3> QED BY <1>3, <2>4, <3>1
  <2> QED BY <2>1, <2>2, <2>3, <2>4, LostQueue
<1>7. \A x \in Conns : conn'[x].wop => conn'[x].mWriteBuffers # <<>>
  BY <1>1 DEF OpInv
<1> QED BY <1>1, <1>5, <1>6, <1>7 DEF OpInv, ReadJob

LEMMA LostWay ==
    ASSUME TypeInv, WayInv, NEW c \in mServers, NEW d, NEW new,
           Loses(c, d, new)
    PROVE  WayInv'
<1>1. /\ c \in Conns /\ Conns' = Conns
      /\ \A x \in Conns : x # c => conn'[x] = conn[x]
  BY LostConn
<1>2. /\ UNCHANGED <<calls, mRequests, said>> /\ mServers' = mServers \ {c}
      /\ LossOf(new, c)
  BY DEF Loses
<1>3. ASSUME NEW r, Posted(r) PROVE Posted(r)'
  <2>1. PICK k \in 1..Len(ready) : ready[k].kind = "finish" /\ ready[k].it = r
    BY <1>3 DEF Posted
  <2>2. k - d \in 1..Len(ready') /\ ready'[k - d] = ready[k]
    BY <2>1, LostQueue
  <2> QED BY <2>1, <2>2 DEF Posted
<1>4. ASSUME NEW r, NEW x \in Conns, x # c, Underway(r, x)
      PROVE  Underway(r, x)'
  <2>1. \A j : Carries(j, r)' <=> Carries(j, r)
    BY DEF Carries, Reading
  <2>2. \A v : Holds(v, r)' <=> Holds(v, r)
    BY DEF Holds, Among
  <2>3. CASE Holds(conn[x], r)
    BY <1>1, <1>4, <2>2, <2>3 DEF Underway
  <2>4. CASE ~Holds(conn[x], r)
    <3>1. PICK k \in 1..Len(ready) : ready[k].c = x /\ Carries(ready[k], r)
      BY <1>4, <2>4 DEF Underway
    <3>2. k - d \in 1..Len(ready') /\ ready'[k - d] = ready[k]
      BY <1>4, <3>1, LostQueue
    <3> QED BY <2>1, <3>1, <3>2 DEF Underway
  <2> QED BY <2>3, <2>4
<1>5. ASSUME NEW r \in mRequests, calls[r].c = c, calls[r].kind # "Stat"
      PROVE  Posted(r)'
  <2>1. ~calls[r].more
    BY <1>5 DEF TypeInv
  <2>2. PICK i \in 1..Len(new) : new[i].kind = "finish" /\ new[i].it = r
    BY <1>2, <1>5, <2>1 DEF LossOf
  <2>3. \E k \in 1..Len(ready') : ready'[k] = new[i]
    BY LostQueue
  <2> QED BY <2>2, <2>3 DEF Posted
<1>6. ASSUME NEW r \in mRequests
      PROVE  (\/ Posted(r) \/ calls[r].kind = "Stat"
              \/ /\ calls[r].c \in mServers
                 /\ said[r] = Silent \/ Underway(r, calls[r].c))'
  <2>1. calls[r].c \in Conns
    BY DEF TypeInv
  <2>2. CASE calls[r].c = c
    BY <1>2, <1>5, <2>2
  <2>3. CASE calls[r].c # c
    BY <1>2, <1>3, <1>4, <2>1, <2>3 DEF WayInv
  <2> QED BY <2>2, <2>3
<1> QED BY <1>2, <1>6 DEF WayInv

\* It can only be calm afterwards if no id was reused: then the requests
\* finished are those of the server lost.
LEMMA LostOne ==
    ASSUME TypeInv, MsgInv, OneInv, NEW c \in mServers, NEW d, NEW new,
           Loses(c, d, new)
    PROVE  OneInv'
<1>1. /\ c \in Conns /\ Reqs' = Reqs /\ Removed' # {}
      /\ \A x \in Conns : x # c => conn'[x] = conn[x]
  BY LostConn
<1>2. /\ UNCHANGED <<calls, mRequests, refused, said>>
      /\ mServers' = mServers \ {c} /\ LossOf(new, c)
      /\ mServers \subseteq Conns
  BY DEF Loses, TypeInv
<1>3. SUFFICES ASSUME Calm' PROVE OneInv'
  BY DEF OneInv
<1>4. ~Reused /\ Calm
  BY <1>1, <1>2, <1>3 DEF Calm, Reused, Called
<1>5. ASSUME NEW r \in Reqs, calls[r].c # c, Alive(r)
      PROVE  Alive(r)'
  <2>1. SUFFICES ASSUME NEW k \in 1..Len(ready'),
                        ready'[k].kind = "finish", ready'[k].it = r
                 PROVE  FALSE
    BY <1>2, <1>5 DEF Alive, Posted
  <2>2. CASE k + d \in 1..Len(ready) /\ ready'[k] = ready[k + d]
    BY <1>5, <2>1, <2>2 DEF Alive, Posted
  <2>3. ASSUME NEW i \in 1..Len(new), ready'[k] = new[i]
        PROVE  FALSE
    <3>1. FinishOf(new[i], c)
      BY <1>2, <2>1, <2>3 DEF LossOf, AbortOf, ReadJob
    <3>2. /\ r \in Reqs /\ new[i].msg.of \in Reqs
          /\ Id(r) = Id(new[i].msg.of) /\ calls[new[i].msg.of].c = c
      BY <2>1, <2>3, <3>1, FinishOfFacts
    <3>3. r = new[i].msg.of
      BY <1>4, <3>2, IdsDiffer
    <3> QED BY <1>5, <3>2, <3>3
  <2>4. \/ k + d \in 1..Len(ready) /\ ready'[k] = ready[k + d]
        \/ \E i \in 1..Len(new) : ready'[k] = new[i]
    BY LostQueue
  <2> QED BY <2>2, <2>3, <2>4
<1>6. ASSUME NEW r \in Reqs, calls[r].c \in mServers', said[r] = Unsaid
      PROVE  Alive(r)'
  <2>1. Alive(r) /\ calls[r].c # c
    BY <1>2, <1>4, <1>6 DEF OneInv
  <2> QED BY <1>5, <2>1
<1>7. ASSUME NEW m, NEW x, x # c, MsgOK(m, x), Alive(m.of)
      PROVE  Alive(m.of)'
  BY <1>5, <1>7 DEF MsgOK
<1>8. ASSUME NEW x \in mServers'
      PROVE  (/\ \A i \in 1..Len(conn[x].resp) :
                    /\ Alive(conn[x].resp[i].of)
                    /\ \A j \in 1..Len(conn[x].resp) :
                          i # j => conn[x].resp[i].of # conn[x].resp[j].of
              /\ conn[x].rop = "body" =>
                    /\ Alive(conn[x].msg.of)
                    /\ \A i \in 1..Len(conn[x].resp) :
                          conn[x].resp[i].of # conn[x].msg.of)'
  <2>1. x \in mServers /\ x \in Conns /\ x # c /\ conn'[x] = conn[x]
    BY <1>1, <1>2
  <2>2. \A i \in 1..Len(conn[x].resp) : Alive(conn[x].resp[i].of)'
    <3> TAKE i \in 1..Len(conn[x].resp)
    <3>1. MsgOK(conn[x].resp[i], x) /\ Alive(conn[x].resp[i].of)
      BY <1>4, <2>1 DEF MsgInv, OneInv
    <3> QED BY <1>7, <2>1, <3>1
  <2>3. conn[x].rop = "body" => Alive(conn[x].msg.of)'
    <3>1. conn[x].rop = "body" => MsgOK(conn[x].msg, x) /\ Alive(conn[x].msg.of)
      BY <1>4, <2>1 DEF MsgInv, OneInv
    <3> QED BY <1>7, <2>1, <3>1
  <2> QED BY <1>4, <2>1, <2>2, <2>3 DEF OneInv
<1>9. ASSUME NEW k \in 1..Len(ready'), Reading(ready'[k]),
             ready'[k].c \in mServers'
      PROVE  (/\ Alive(ready[k].msg.of)
              /\ \A i \in 1..Len(conn[ready[k].c].resp) :
                    conn[ready[k].c].resp[i].of # ready[k].msg.of)'
  <2>1. \/ k + d \in 1..Len(ready) /\ ready'[k] = ready[k + d]
        \/ \E i \in 1..Len(new) : ready'[k] = new[i]
    BY LostQueue
  <2>2. \A i \in 1..Len(new) : ~Reading(new[i])
    <3> TAKE i \in 1..Len(new)
    <3>1. FinishOf(new[i], c) \/ AbortOf(new[i], c)
      BY <1>2 DEF LossOf
    <3> QED BY <3>1, FinishOfFacts DEF AbortOf, Reading
  <2>3. PICK j : /\ k + d \in 1..Len(ready) /\ j = ready[k + d]
                 /\ ready'[k] = j /\ Reading(j)
    BY <1>9, <2>1, <2>2
  <2>4. /\ j.c \in mServers /\ j.c # c /\ conn'[j.c] = conn[j.c]
    BY <1>1, <1>2, <1>9, <2>3
  <2>5. /\ MsgOK(j.msg, j.c) /\ Alive(j.msg.of)
        /\ \A i \in 1..Len(conn[j.c].resp) : conn[j.c].resp[i].of # j.msg.of
    BY <1>4, <2>3, <2>4 DEF MsgInv, OneInv
  <2>6. Alive(j.msg.of)'
    BY <1>7, <2>4, <2>5
  <2> QED BY <2>3, <2>4, <2>5, <2>6
<1> QED BY <1>1, <1>2, <1>6, <1>8, <1>9 DEF OneInv, Reading

LEMMA LostStep ==
    ASSUME IInv, NEW c \in mServers, NEW d, NEW new, Loses(c, d, new)
    PROVE  IInv'
<1> USE DEF IInv
<1>1. /\ TypeInv' /\ TableInv' /\ SendInv' /\ MsgInv' /\ OpInv' /\ WayInv'
      /\ OneInv'
  BY LostType, LostSend, LostMsg, LostOp, LostWay, LostOne
<1>2. /\ Removed' # {} /\ Conns' = Conns
      /\ \A x \in Conns : conn'[x].fit = conn[x].fit
  BY LostConn
<1>3. FreshInv'
  BY <1>2 DEF FreshInv, Fresh
<1>4. AlignInv'
  <2>1. Calm' => Calm
    BY <1>2 DEF Calm, Loses, Reused, Called
  <2>2. Called({"Get"})' = Called({"Get"})
    BY DEF Called, Loses
  <2> QED BY <1>2, <2>1, <2>2 DEF AlignInv
<1>5. FaultsExplained'
  BY <1>2 DEF FaultsExplained, Loses
<1> QED BY <1>1, <1>3, <1>4, <1>5

\* At most one aborted read and one aborted write.
LEMMA AbortedFacts ==
    ASSUME TypeInv, NEW c \in Conns
    PROVE  LET s == AbortedJobs(c)
           IN  /\ s \in Seq(JobRec)
               /\ \A k \in 1..Len(s) : AbortOf(s[k], c)
               /\ \A k \in 1..Len(s), l \in 1..Len(s) : k # l =>
                     /\ ~(ReadJob(s[k]) /\ ReadJob(s[l]))
                     /\ ~(s[k].kind = "write" /\ s[l].kind = "write")
<1> DEFINE a == Job(conn[c].rop, c, FALSE, NoMsg, 0)
           b == Job("write", c, FALSE, NoMsg, 0)
           x == IF conn[c].rop = "none" THEN <<>> ELSE <<a>>
           y == IF conn[c].wop THEN <<b>> ELSE <<>>
           s == AbortedJobs(c)
<1>1. conn[c] \in ConnRec
  BY Typed
<1>2. conn[c].rop # "none" =>
         /\ a \in JobRec /\ AbortOf(a, c) /\ ReadJob(a) /\ a.kind # "write"
  <2>1. conn[c].rop # "none" => conn[c].rop \in {"connect", "header", "body"}
    BY <1>1 DEF ConnRec
  <2>2. conn[c].rop # "none" =>
           a \in JobRec /\ a.kind = conn[c].rop /\ a.c = c /\ ~a.ok
    BY <2>1, FailedJob DEF Job
  <2> QED BY <2>1, <2>2 DEF AbortOf, ReadJob
<1>3. conn[c].wop =>
         /\ b \in JobRec /\ AbortOf(b, c) /\ ~ReadJob(b) /\ b.kind = "write"
  <2>1. b \in JobRec /\ b.kind = "write" /\ b.c = c /\ ~b.ok
    BY FailedJob DEF Job
  <2> QED BY <2>1 DEF AbortOf, ReadJob
<1>4. s = x \o y
  BY DEF AbortedJobs
<1> HIDE DEF a, b
<1>5. /\ x \in Seq(JobRec) /\ Len(x) \in Nat /\ Len(x) <= 1
      /\ \A k \in 1..Len(x) :
            k = 1 /\ AbortOf(x[k], c) /\ ReadJob(x[k]) /\ x[k].kind # "write"
  BY <1>2, OneElement, NoElement
<1>6. /\ y \in Seq(JobRec) /\ Len(y) \in Nat /\ Len(y) <= 1
      /\ \A k \in 1..Len(y) :
            k = 1 /\ AbortOf(y[k], c) /\ ~ReadJob(y[k]) /\ y[k].kind = "write"
  BY <1>3, OneElement, NoElement
<1> HIDE DEF x, y, s
<1>7. s \in Seq(JobRec) /\ Queued(x, 0, y, s)
  BY <1>4, <1>5, <1>6, QueuedConcat
<1>8. Len(s) = Len(x) + Len(y)
  BY <1>5, <1>6, <1>7 DEF Queued
<1>9. ASSUME NEW k \in 1..Len(s)
      PROVE  /\ AbortOf(s[k], c)
             /\ ReadJob(s[k]) => k = 1 /\ Len(x) = 1
             /\ s[k].kind = "write" => k = Len(x) + 1
  <2>1. CASE k \in 1..Len(x) /\ s[k] = x[k]
    <3>1. AbortOf(x[k], c) /\ x[k].kind # "write" /\ k = 1
      BY <1>5, <2>1
    <3>2. Len(x) = 1
      <4> DEFINE n == Len(x)
      <4>1. n \in Nat /\ n <= 1 /\ k \in 1..n
        BY <1>5, <2>1
      <4> HIDE DEF n
      <4>2. n = 1
        BY <4>1
      <4> QED BY <4>2 DEF n
    <3> QED BY <2>1, <3>1, <3>2
  <2>2. CASE k - Len(x) \in 1..Len(y) /\ s[k] = y[k - Len(x)]
    <3>1. k - Len(x) = 1
      BY <1>6, <2>2
    <3> QED BY <1>5, <1>6, <2>2, <3>1
  <2> QED BY <1>5, <1>7, <2>1, <2>2 DEF Queued
<1>10. ASSUME NEW k \in 1..Len(s), NEW l \in 1..Len(s), k # l
       PROVE  /\ ~(ReadJob(s[k]) /\ ReadJob(s[l]))
              /\ ~(s[k].kind = "write" /\ s[l].kind = "write")
  BY <1>9, <1>10
<1> QED BY <1>7, <1>9, <1>10 DEF s

\* The lambdas and the aborted operations, in either order.
LEMMA LossConcat ==
    ASSUME TypeInv, NEW c, NEW s \in Seq(JobRec), NEW t \in Seq(JobRec),
           \A k \in 1..Len(s) : FinishOf(s[k], c),
           \A r \in mRequests : calls[r].c = c /\ ~calls[r].more =>
              \E k \in 1..Len(s) : s[k].kind = "finish" /\ s[k].it = r,
           \A k \in 1..Len(t) : AbortOf(t[k], c),
           \A k \in 1..Len(t), l \in 1..Len(t) : k # l =>
              /\ ~(ReadJob(t[k]) /\ ReadJob(t[l]))
              /\ ~(t[k].kind = "write" /\ t[l].kind = "write")
    PROVE  LossOf(s \o t, c) /\ LossOf(t \o s, c)
<1>1. Len(s) \in Nat /\ Len(t) \in Nat
  BY LenProperties
<1>2. \A k \in 1..Len(s) : ~ReadJob(s[k]) /\ s[k].kind # "write"
  BY FinishOfFacts
<1>3. LossOf(s \o t, c)
  <2> DEFINE q == s \o t
  <2>1. q \in Seq(JobRec) /\ Queued(s, 0, t, q)
    BY QueuedConcat
  <2> HIDE DEF q
  <2>2. \A k \in 1..Len(q) :
           \/ k \in 1..Len(s) /\ q[k] = s[k]
           \/ k - Len(s) \in 1..Len(t) /\ q[k] = t[k - Len(s)]
    BY <1>1, <2>1 DEF Queued
  <2>3. \A k \in 1..Len(s) : k \in 1..Len(q) /\ q[k] = s[k]
    BY <1>1, <2>1 DEF Queued
  <2>4. \A k \in 1..Len(q) : FinishOf(q[k], c) \/ AbortOf(q[k], c)
    BY <2>2
  <2>5. ASSUME NEW k \in 1..Len(q), NEW l \in 1..Len(q), k # l
        PROVE  /\ ~(ReadJob(q[k]) /\ ReadJob(q[l]))
               /\ ~(q[k].kind = "write" /\ q[l].kind = "write")
    <3>1. CASE \/ k \in 1..Len(s) /\ q[k] = s[k]
               \/ l \in 1..Len(s) /\ q[l] = s[l]
      BY <1>2, <3>1
    <3>2. CASE /\ k - Len(s) \in 1..Len(t) /\ q[k] = t[k - Len(s)]
               /\ l - Len(s) \in 1..Len(t) /\ q[l] = t[l - Len(s)]
      <4>1. k - Len(s) # l - Len(s)
        BY <1>1, <2>5
      <4> QED BY <3>2, <4>1
    <3> QED BY <2>2, <3>1, <3>2
  <2>6. \A r \in mRequests : calls[r].c = c /\ ~calls[r].more =>
           \E k \in 1..Len(q) : q[k].kind = "finish" /\ q[k].it = r
    BY <2>3
  <2> QED BY <2>1, <2>4, <2>5, <2>6 DEF LossOf, q
<1>4. LossOf(t \o s, c)
  <2> DEFINE q == t \o s
  <2>1. q \in Seq(JobRec) /\ Queued(t, 0, s, q)
    BY QueuedConcat
  <2> HIDE DEF q
  <2>2. \A k \in 1..Len(q) :
           \/ k \in 1..Len(t) /\ q[k] = t[k]
           \/ k - Len(t) \in 1..Len(s) /\ q[k] = s[k - Len(t)]
    BY <1>1, <2>1 DEF Queued
  <2>3. \A k \in 1..Len(s) : k + Len(t) \in 1..Len(q) /\ q[k + Len(t)] = s[k]
    BY <1>1, <2>1 DEF Queued
  <2>4. \A k \in 1..Len(q) : FinishOf(q[k], c) \/ AbortOf(q[k], c)
    BY <2>2
  <2>5. ASSUME NEW k \in 1..Len(q), NEW l \in 1..Len(q), k # l
        PROVE  /\ ~(ReadJob(q[k]) /\ ReadJob(q[l]))
               /\ ~(q[k].kind = "write" /\ q[l].kind = "write")
    <3>1. CASE \/ k - Len(t) \in 1..Len(s) /\ q[k] = s[k - Len(t)]
               \/ l - Len(t) \in 1..Len(s) /\ q[l] = s[l - Len(t)]
      BY <1>2, <3>1
    <3>2. CASE /\ k \in 1..Len(t) /\ q[k] = t[k]
               /\ l \in 1..Len(t) /\ q[l] = t[l]
      BY <2>5, <3>2
    <3> QED BY <2>2, <3>1, <3>2
  <2>6. \A r \in mRequests : calls[r].c = c /\ ~calls[r].more =>
           \E k \in 1..Len(q) : q[k].kind = "finish" /\ q[k].it = r
    BY <2>3
  <2> QED BY <2>1, <2>4, <2>5, <2>6 DEF LossOf, q
<1> QED BY <1>3, <1>4

LEMMA LossJobs ==
    ASSUME TypeInv, TableInv, NEW c \in Conns,
           \A k \in 1..Len(conn[c].mPendingRequests) :
              Find(Id(conn[c].mPendingRequests[k])) # {}
    PROVE  /\ FinishAll(c) \in Seq(JobRec) /\ AbortedJobs(c) \in Seq(JobRec)
           /\ LossOf(FinishAll(c) \o AbortedJobs(c), c)
           /\ LossOf(AbortedJobs(c) \o FinishAll(c), c)
<1> DEFINE s == FinishAll(c)
           t == AbortedJobs(c)
<1>1. /\ s \in Seq(JobRec) /\ \A k \in 1..Len(s) : FinishOf(s[k], c)
      /\ \A r \in mRequests : calls[r].c = c /\ ~calls[r].more =>
            \E k \in 1..Len(s) : s[k].kind = "finish" /\ s[k].it = r
  BY FinishAllJobs DEF FinishOf
<1>2. /\ t \in Seq(JobRec) /\ \A k \in 1..Len(t) : AbortOf(t[k], c)
      /\ \A k \in 1..Len(t), l \in 1..Len(t) : k # l =>
            /\ ~(ReadJob(t[k]) /\ ReadJob(t[l]))
            /\ ~(t[k].kind = "write" /\ t[l].kind = "write")
  BY AbortedFacts
<1> HIDE DEF s, t
<1>3. LossOf(s \o t, c) /\ LossOf(t \o s, c)
  BY <1>1, <1>2, LossConcat, SMTT(20)
<1> QED BY <1>1, <1>2, <1>3 DEF s, t

-----------------------------------------------------------------------------
(* Steps that end in undefined behaviour.                                  *)

LEMMA FaultStep ==
    ASSUME IInv, NEW f, Faulty(f),
           /\ f = "end_iterator" => \E r \in 1..MaxCalls : Answered(r)
           /\ f \in {"freed_client", "freed_host"} => Removed # {}
           /\ f = "null_server" => Removed # {}
           /\ f = "dangling_iterator" =>
                 Removed # {} \/ refused # {} \/ (Reused /\ Called({"Stat"}))
           /\ f = "desync" => \/ refused # {} \/ Called({"Get", "Stat"})
                              \/ Removed # {} /\ Reused
    PROVE  IInv'
<1>1. /\ fault' = f
      /\ UNCHANGED <<calls, mRequests, refused, conn, mServers, ready,
                     answers, said>>
  BY DEF Faulty
<1>2. FaultsExplained'
  BY <1>1 DEF FaultsExplained, Removed, Reused, Called, Answered
<1>3. TypeInv' /\ TableInv'
  BY <1>1 DEF IInv, TypeInv, TableInv, Reqs, Conns, Shaped, Find, Id, Answered
<1>4. SendInv'
  BY <1>1, SMTT(20)
     DEF IInv, SendInv, Reqs, Conns, Line, Incr, Before, Unserved, Waits,
              Under, Out
<1>5. MsgInv' /\ OpInv'
  BY <1>1, SMTT(20)
     DEF IInv, MsgInv, OpInv, Reqs, Conns, MsgOK, Own, Reading, ReadJob,
              Answered, Id
<1>6. WayInv'
  BY <1>1 DEF IInv, WayInv, Posted, Underway, Carries, Holds, Reading, Among
<1>7. OneInv' /\ AlignInv' /\ FreshInv'
  BY <1>1 DEF IInv, OneInv, AlignInv, FreshInv, Calm, Fresh, Alive, Posted,
              Reading, Called, Removed, Reused, Reqs, Conns, Id
<1> QED BY <1>2, <1>3, <1>4, <1>5, <1>6, <1>7 DEF IInv

\* ServerList::Remove in either order of the lambdas and the aborted
\* operations.
LEMMA RemoveStep ==
    ASSUME IInv, fault = "none", NEW c \in mServers, NEW d \in {0, 1},
           NEW s \in Seq(JobRec),
           \/ d = 0 /\ s = ready
           \/ /\ d = 1 /\ ready # <<>> /\ s = Tail(ready)
              /\ Head(ready).kind # "finish" /\ Head(ready).c = c,
           NEW before, NEW after, NEW log, log \subseteq {"none", "freed_host"},
           \/ before = s /\ after = AbortedJobs(c)
           \/ before = s \o AbortedJobs(c) /\ after = <<>>,
           RemoveServer(c, before, after, log)
    PROVE  IInv'
<1> USE DEF IInv
<1>1. c \in Conns
  BY DEF TypeInv
<1>2. CASE /\ \E k \in 1..Len(conn[c].mPendingRequests) :
                 Find(Id(conn[c].mPendingRequests[k])) = {}
           /\ Faulty("end_iterator")
  <2>1. \E r \in 1..MaxCalls : Answered(r)
    BY <1>1, <1>2 DEF TableInv
  <2> QED BY <1>2, <2>1, FaultStep
<1>3. CASE /\ \A k \in 1..Len(conn[c].mPendingRequests) :
                 Find(Id(conn[c].mPendingRequests[k])) # {}
           /\ mServers' = mServers \ {c}
           /\ ready' = before \o FinishAll(c) \o after
           /\ conn' = [conn EXCEPT ![c].rop = "none", ![c].wop = FALSE]
           /\ fault' \in log
           /\ UNCHANGED <<calls, mRequests, refused, answers, said>>
  <2> DEFINE f == FinishAll(c)
             a == AbortedJobs(c)
  <2>1. /\ f \in Seq(JobRec) /\ a \in Seq(JobRec)
        /\ LossOf(f \o a, c) /\ LossOf(a \o f, c)
    BY <1>1, <1>3, LossJobs
  <2> HIDE DEF f, a
  <2>2. PICK new : LossOf(new, c) /\ ready' = s \o new
    <3>1. CASE before = s /\ after = a
      <4>1. ready' = (s \o f) \o a
        BY <1>3, <3>1 DEF f
      <4>2. ready' = s \o (f \o a)
        BY <2>1, <4>1, ConcatAssociative, SMTT(20)
      <4> QED BY <2>1, <4>2
    <3>2. CASE before = s \o a /\ after = <<>>
      <4>1. ready' = ((s \o a) \o f) \o <<>>
        BY <1>3, <3>2 DEF f
      <4>2. (s \o a) \o f = s \o (a \o f) /\ (s \o a) \o f \in Seq(JobRec)
        <5>1. s \o a \in Seq(JobRec) /\ (s \o a) \o f \in Seq(JobRec)
          BY <2>1, ConcatProperties
        <5> QED BY <2>1, <5>1, ConcatAssociative
      <4>3. ((s \o a) \o f) \o <<>> = (s \o a) \o f
        BY <4>2, ConcatEmptySeq
      <4> QED BY <2>1, <4>1, <4>2, <4>3, Zenon
    <3> QED BY <3>1, <3>2 DEF a
  <2>3. new \in Seq(JobRec)
    BY <2>2 DEF LossOf
  <2>4. ready' \in Seq(JobRec) /\ Queued(ready, d, new, ready')
    <3>1. CASE d = 0 /\ s = ready
      BY <2>2, <2>3, <3>1, QueuedConcat
    <3>2. CASE d = 1 /\ ready # <<>> /\ s = Tail(ready)
      BY <2>2, <2>3, <3>2, QueuedTail DEF TypeInv
    <3> QED BY <3>1, <3>2
  <2>5. d = 1 => /\ 1 \in 1..Len(ready)
                 /\ ready[1].kind # "finish" /\ ready[1].c = c
    BY Typed
  <2>6. Loses(c, d, new)
    BY <1>3, <2>2, <2>4, <2>5 DEF Loses
  <2> QED BY <2>6, LostStep
<1> QED BY <1>2, <1>3 DEF RemoveServer

LEMMA RemoveByUserStep ==
    ASSUME IInv, fault = "none", RemoveByUser
    PROVE  IInv'
<1>1. PICK c \in mServers : RemoveServer(c, ready, AbortedJobs(c), {"none"})
  BY DEF RemoveByUser
<1>2. ready \in Seq(JobRec) /\ 0 \in {0, 1} /\ {"none"} \subseteq {"none", "freed_host"}
  BY DEF IInv, TypeInv
<1> QED BY <1>1, <1>2, RemoveStep

LEMMA ErrorStep ==
    ASSUME IInv, fault = "none", ready # <<>>, Head(ready).kind # "finish",
           NEW c, c = Head(ready).c, c \in mServers,
           ConnectError(c) \/ Close4Error(c)
    PROVE  IInv'
<1>1. Tail(ready) \in Seq(JobRec) /\ 1 \in {0, 1}
  BY HeadTailProperties DEF IInv, TypeInv
<1>2. CASE ConnectError(c)
  BY <1>1, <1>2, RemoveStep DEF ConnectError, OnError
<1>3. CASE Close4Error(c)
  BY <1>1, <1>3, RemoveStep DEF Close4Error, OnError
<1> QED BY <1>2, <1>3

-----------------------------------------------------------------------------
(* A new connection.                                                       *)

LEMMA AddConnStep ==
    ASSUME IInv, fault = "none", NEW h \in Hosts, NEW rop \in {"none", "connect"},
           AddConn(h, rop)
    PROVE  IInv'
<1> USE DEF IInv
<1> DEFINE v == NewConn(h, rop)
<1>0. PICK n : n = Len(conn) + 1
  OBVIOUS
<1>1. /\ conn' = Append(conn, v) /\ mServers' = mServers \cup {n}
      /\ UNCHANGED <<calls, mRequests, refused, ready, answers, said, fault>>
  BY <1>0 DEF AddConn
<1>2. /\ v \in ConnRec /\ v.rop # "body" /\ ~v.wop /\ v.fit = "fits"
      /\ v.mPendingBuffers = <<>> /\ v.mPendingRequests = <<>>
      /\ v.wire = <<>> /\ v.resp = <<>>
  BY NoMsgType, EmptySeq DEF NewConn, ConnRec, Fits
<1>3. conn \in Seq(ConnRec) /\ Len(conn) \in Nat
  BY Typed DEF TypeInv
<1> HIDE DEF v
<1>4. /\ conn' \in Seq(ConnRec) /\ Len(conn') = n /\ conn'[n] = v
      /\ \A x \in Conns : conn'[x] = conn[x]
  BY <1>0, <1>1, <1>2, <1>3, AppendProperties DEF Conns
<1>5. /\ n \in Nat /\ n \notin Conns /\ Conns' = Conns \cup {n}
      /\ Conns \subseteq Conns' /\ Reqs' = Reqs /\ mServers \subseteq Conns
  BY <1>0, <1>1, <1>3, <1>4 DEF Conns, Reqs, TypeInv
<1>6. \A r \in Reqs : calls[r].c \in Conns /\ calls[r].c # n
  BY <1>5 DEF TypeInv
<1>7. \A k \in 1..Len(ready) :
         ready[k].kind # "finish" => ready[k].c \in Conns /\ ready[k].c # n
  BY <1>5 DEF TypeInv, Shaped
<1>8. TypeInv'
  BY <1>1, <1>4, <1>5 DEF TypeInv, Shaped
<1>9. TableInv'
  <2>1. \A x \in Conns' : \A k \in 1..Len(conn'[x].mPendingRequests) :
           LET r == conn'[x].mPendingRequests[k]
           IN  r \in Reqs /\ calls[r].c = x
    BY <1>2, <1>4, <1>5, NoElement DEF TableInv
  <2>2. \A r \in Reqs :
           \E k \in 1..Len(conn'[calls[r].c].mPendingRequests) :
              conn'[calls[r].c].mPendingRequests[k] = r
    BY <1>4, <1>6 DEF TableInv
  <2>3. /\ \A r \in Reqs : Find(Id(r))' = Find(Id(r))
        /\ \A r : Answered(r)' = Answered(r)
        /\ \A r : Id(r)' = Id(r)
    BY <1>1 DEF Find, Id, Answered
  <2> QED BY <1>1, <1>5, <2>1, <2>2, <2>3 DEF TableInv
<1>10. SendInv'
  <2>1. \A r, x : Waits(r, x)' <=> Waits(r, x)
    BY <1>1, <1>5 DEF Waits
  <2>2. \A x \in Conns : Out(x)' = Out(x)
    BY <1>4 DEF Out
  <2>3. ASSUME NEW x \in Conns
        PROVE  Line(conn[x].wire, Out(x), conn[x].mPendingBuffers, x)'
    BY <1>4, <2>1, <2>2 DEF SendInv, Line, Unserved, Incr, Before
  <2>4. Line(conn[n].wire, Out(n), conn[n].mPendingBuffers, n)'
    BY <1>2, <1>4, NoElement DEF Out, Line, Unserved, Incr, Before
  <2>5. ASSUME NEW k \in 1..Len(ready), ready[k].kind = "send"
        PROVE  (/\ Waits(ready[k].it, ready[k].c)
                /\ Under(conn[ready[k].c].wire, ready[k].it)
                /\ Under(Out(ready[k].c), ready[k].it)
                /\ Under(conn[ready[k].c].mPendingBuffers, ready[k].it))'
    <3>1. PICK j : j = ready[k] /\ j = ready'[k]
      BY <1>1
    <3>2. /\ Waits(j.it, j.c) /\ j.c \in Conns
          /\ Under(conn[j.c].wire, j.it) /\ Under(Out(j.c), j.it)
          /\ Under(conn[j.c].mPendingBuffers, j.it)
      BY <1>7, <2>5, <3>1 DEF SendInv
    <3>3. (/\ Waits(j.it, j.c) /\ Under(conn[j.c].wire, j.it)
           /\ Under(Out(j.c), j.it) /\ Under(conn[j.c].mPendingBuffers, j.it))'
      BY <1>4, <2>1, <2>2, <3>2 DEF Under
    <3> QED BY <3>1, <3>3
  <2> QED BY <1>1, <1>5, <2>3, <2>4, <2>5 DEF SendInv
<1>11. MsgInv'
  <2>1. \A m, x : MsgOK(m, x) => MsgOK(m, x)'
    BY <1>1, <1>5 DEF MsgOK
  <2>2. \A it, of, st : Own(it, of, st) => Own(it, of, st)'
    BY <1>1, <1>5 DEF Own, Answered, Id
  <2>3. ASSUME NEW x \in Conns'
        PROVE  (/\ conn[x].rop = "body" => MsgOK(conn[x].msg, x)
                /\ \A k \in 1..Len(conn[x].resp) : MsgOK(conn[x].resp[k], x))'
    <3>1. CASE x = n
      BY <1>2, <1>4, <3>1, NoElement
    <3>2. CASE x \in Conns
      BY <1>4, <2>1, <3>2 DEF MsgInv
    <3> QED BY <1>5, <3>1, <3>2
  <2>4. ASSUME NEW r \in 1..MaxCalls, NEW k \in 1..Len(answers'[r])
        PROVE  Own(r, answers[r][k].of, answers[r][k].st)'
    BY <1>1, <2>2 DEF MsgInv
  <2> QED BY <1>1, <1>5, <2>1, <2>2, <2>3, <2>4 DEF MsgInv, Reading
<1>12. OpInv'
  <2>1. \A x \in Conns' : conn'[x].wop => conn'[x].mWriteBuffers # <<>>
    BY <1>2, <1>4, <1>5 DEF OpInv
  <2>2. \A k \in 1..Len(ready) :
           /\ ReadJob(ready[k]) => conn'[ready[k].c].rop = "none"
           /\ ready[k].kind = "write" => /\ ~conn'[ready[k].c].wop
                                        /\ conn'[ready[k].c].mWriteBuffers # <<>>
    BY <1>4, <1>7 DEF OpInv, ReadJob
  <2>3. \A k \in 1..Len(ready), l \in 1..Len(ready) :
           k # l /\ ready[k].c = ready[l].c =>
              /\ ~(ReadJob(ready[k]) /\ ReadJob(ready[l]))
              /\ ~(ready[k].kind = "write" /\ ready[l].kind = "write")
    BY DEF OpInv
  <2>4. ready' = ready /\ \A j : ReadJob(j)' <=> ReadJob(j)
    BY <1>1 DEF ReadJob
  <2> QED BY <2>1, <2>2, <2>3, <2>4 DEF OpInv
<1>13. WayInv'
  <2>1. ASSUME NEW r, NEW x \in Conns, Underway(r, x) PROVE Underway(r, x)'
    BY <1>1, <1>4, <2>1 DEF Underway, Carries, Reading, Holds, Among
  <2>2. \A r \in mRequests : r \in Reqs
    BY DEF TypeInv
  <2> QED BY <1>1, <1>6, <2>1, <2>2 DEF WayInv, Posted
<1>14. Removed' = Removed
  BY <1>1, <1>4, <1>5 DEF Removed, Conns
<1>15. Calm' = Calm /\ Fresh' = Fresh /\ Called({"Get"})' = Called({"Get"})
  BY <1>1, <1>14 DEF Calm, Fresh, Reused, Called
<1>16. OneInv'
  <2>1. \A r : Alive(r)' <=> Alive(r)
    BY <1>1 DEF Alive, Posted
  <2>2. SUFFICES ASSUME Calm PROVE OneInv'
    BY <1>15 DEF OneInv
  <2>3. ASSUME NEW x \in mServers'
        PROVE  (/\ \A i \in 1..Len(conn[x].resp) :
                      /\ Alive(conn[x].resp[i].of)
                      /\ \A j \in 1..Len(conn[x].resp) :
                            i # j => conn[x].resp[i].of # conn[x].resp[j].of
                /\ conn[x].rop = "body" =>
                      /\ Alive(conn[x].msg.of)
                      /\ \A i \in 1..Len(conn[x].resp) :
                            conn[x].resp[i].of # conn[x].msg.of)'
    <3>1. CASE x = n
      BY <1>2, <1>4, <3>1, NoElement
    <3>2. CASE x \in mServers
      <4>1. conn'[x] = conn[x]
        BY <1>4, <1>5, <3>2
      <4> QED BY <2>1, <2>2, <3>2, <4>1 DEF OneInv
    <3> QED BY <1>1, <3>1, <3>2
  <2>4. ASSUME NEW k \in 1..Len(ready), Reading(ready[k]),
               ready[k].c \in mServers'
        PROVE  (/\ Alive(ready[k].msg.of)
                /\ \A i \in 1..Len(conn[ready[k].c].resp) :
                      conn[ready[k].c].resp[i].of # ready[k].msg.of)'
    <3>1. PICK j : j = ready[k] /\ j = ready'[k]
      BY <1>1
    <3>2. j.c \in mServers /\ conn'[j.c] = conn[j.c]
      BY <1>1, <1>4, <1>7, <2>4, <3>1 DEF Reading
    <3>3. /\ Alive(j.msg.of)
          /\ \A i \in 1..Len(conn[j.c].resp) : conn[j.c].resp[i].of # j.msg.of
      BY <2>2, <2>4, <3>1, <3>2 DEF OneInv
    <3> QED BY <2>1, <3>1, <3>2, <3>3
  <2>5. \A r \in Reqs : calls[r].c \in mServers' /\ said[r] = Unsaid => Alive(r)'
    BY <1>1, <1>6, <2>1, <2>2 DEF OneInv
  <2> QED BY <1>1, <1>5, <2>3, <2>4, <2>5 DEF OneInv, Reading
<1>17. AlignInv'
  BY <1>2, <1>4, <1>5, <1>15 DEF AlignInv
<1>18. FreshInv'
  BY <1>1, <1>15 DEF FreshInv, Reading, Id
<1> QED BY <1>1, <1>8, <1>9, <1>10, <1>11, <1>12, <1>13, <1>16, <1>17, <1>18,
           Gather

-----------------------------------------------------------------------------
(* A call.                                                                 *)

\* What Issue does, r being the new call and e the handler of its send.
Issued(r, c, e, rec) ==
    /\ r = Len(calls) + 1 /\ c \in mServers /\ rec \in CallRec /\ rec.c = c
    /\ rec.more => rec.kind = "Stat"
    /\ e = Job("send", c, TRUE, NoMsg, r)
    /\ calls' = Append(calls, rec) /\ Len(calls) < MaxCalls
    /\ \/ /\ Find(Id(r)) = {}
          /\ mRequests' = mRequests \cup {r} /\ UNCHANGED refused
       \/ /\ Find(Id(r)) # {}
          /\ refused' = refused \cup {r} /\ UNCHANGED mRequests
    /\ conn' = [conn EXCEPT ![c].mPendingRequests = Append(@, r)]
    /\ ready' = Append(ready, e)
    /\ UNCHANGED <<mServers, answers, said, fault>>

LEMMA IssueIssued ==
    ASSUME IInv, NEW kind \in AllKinds, NEW c \in mServers, Issue(kind, c),
           Len(calls) < MaxCalls
    PROVE  \E r, e, rec : Issued(r, c, e, rec)
<1>1. PICK more \in IF kind = "Stat" THEN BOOLEAN ELSE {FALSE} :
         calls' = Append(calls, [kind |-> kind, c |-> c, more |-> more])
  BY DEF Issue
<1> DEFINE rec == [kind |-> kind, c |-> c, more |-> more]
<1>2. c \in Nat
  BY Typed DEF IInv, TypeInv, Conns
<1>3. rec \in CallRec /\ rec.c = c /\ (rec.more => rec.kind = "Stat")
  BY <1>2 DEF CallRec
<1>4. calls' = Append(calls, rec)
  BY <1>1
<1> HIDE DEF rec
<1> DEFINE r == Len(calls) + 1
           e == Job("send", c, TRUE, NoMsg, r)
<1>5. Issued(r, c, e, rec)
  BY <1>3, <1>4 DEF Issue, Issued
<1> QED BY <1>5

LEMMA IssuedFacts ==
    ASSUME TypeInv, NEW r, NEW c, NEW e, NEW rec, Issued(r, c, e, rec)
    PROVE  /\ r \in Nat /\ r \in 1..MaxCalls /\ r \notin Reqs
           /\ Reqs' = Reqs \cup {r} /\ \A q \in Reqs : q \in Nat /\ q < r
           /\ calls' \in Seq(CallRec) /\ Len(calls') <= MaxCalls
           /\ calls'[r] = rec /\ \A q \in Reqs : calls'[q] = calls[q]
           /\ said[r] = Unsaid /\ mRequests \subseteq Reqs
           /\ e \in JobRec /\ Shaped(e) /\ e.kind = "send" /\ e.c = c /\ e.ok
           /\ e.it = r /\ ~Reading(e) /\ ~ReadJob(e) /\ Carries(e, r)
<1>1. Len(calls) \in Nat /\ calls \in Seq(CallRec) /\ MaxCalls \in Nat
  BY Typed, ClientAssumption DEF TypeInv
<1>2. /\ r = Len(calls) + 1 /\ calls' = Append(calls, rec) /\ rec \in CallRec
      /\ Len(calls) < MaxCalls /\ c \in mServers
      /\ e = Job("send", c, TRUE, NoMsg, r)
  BY DEF Issued
<1>3. /\ r \in Nat /\ r \in 1..MaxCalls /\ r \notin Reqs
      /\ \A q \in Reqs : q \in Nat /\ q < r
  BY <1>1, <1>2 DEF Reqs
<1>4. /\ calls' \in Seq(CallRec) /\ Len(calls') = r /\ calls'[r] = rec
      /\ \A q \in Reqs : calls'[q] = calls[q]
  BY <1>1, <1>2, AppendProperties DEF Reqs
<1>5. Reqs' = Reqs \cup {r} /\ Len(calls') <= MaxCalls
  BY <1>1, <1>2, <1>4 DEF Reqs
<1>6. said[r] = Unsaid /\ mRequests \subseteq Reqs /\ c \in Conns
  BY <1>2, <1>3 DEF TypeInv
<1>7. /\ e \in JobRec /\ Shaped(e) /\ e.kind = "send" /\ e.c = c /\ e.ok
      /\ e.it = r
  BY <1>2, <1>3, <1>6, GoodJob, NoMsgType DEF Job
<1> QED BY <1>3, <1>4, <1>5, <1>6, <1>7 DEF Reading, ReadJob, Carries

LEMMA IssuedQueue ==
    ASSUME TypeInv, NEW r, NEW c, NEW e, NEW rec, Issued(r, c, e, rec)
    PROVE  /\ ready' \in Seq(JobRec) /\ Len(ready) \in Nat
           /\ Len(ready') = Len(ready) + 1
           /\ \A k \in 1..Len(ready') :
                 \/ k \in 1..Len(ready) /\ ready'[k] = ready[k]
                 \/ k = Len(ready) + 1 /\ ready'[k] = e
           /\ \A k \in 1..Len(ready) : k \in 1..Len(ready') /\ ready'[k] = ready[k]
           /\ Len(ready') \in 1..Len(ready') /\ ready'[Len(ready')] = e
<1>1. e \in JobRec /\ ready \in Seq(JobRec) /\ Len(ready) \in Nat
  BY IssuedFacts, Typed DEF TypeInv
<1>2. ready' = Append(ready, e)
  BY DEF Issued
<1>3. /\ ready' \in Seq(JobRec) /\ Len(ready') = Len(ready) + 1
      /\ \A k \in 1..Len(ready) : ready'[k] = ready[k]
      /\ ready'[Len(ready) + 1] = e
  BY <1>1, <1>2, AppendProperties
<1> QED BY <1>1, <1>3

LEMMA IssuedConn ==
    ASSUME TypeInv, NEW r, NEW c, NEW e, NEW rec, Issued(r, c, e, rec)
    PROVE  /\ c \in Conns /\ conn' \in Seq(ConnRec) /\ Len(conn') = Len(conn)
           /\ Conns' = Conns /\ mServers' = mServers /\ Removed' = Removed
           /\ \A x \in Conns : x # c => conn'[x] = conn[x]
           /\ \A k \in 1..Len(conn'[c].mPendingRequests) :
                 \/ /\ k \in 1..Len(conn[c].mPendingRequests)
                    /\ conn'[c].mPendingRequests[k] = conn[c].mPendingRequests[k]
                 \/ conn'[c].mPendingRequests[k] = r
           /\ \A k \in 1..Len(conn[c].mPendingRequests) :
                 /\ k \in 1..Len(conn'[c].mPendingRequests)
                 /\ conn'[c].mPendingRequests[k] = conn[c].mPendingRequests[k]
           /\ \E k \in 1..Len(conn'[c].mPendingRequests) :
                 conn'[c].mPendingRequests[k] = r
           /\ \A x \in Conns :
                 /\ conn'[x].wire = conn[x].wire /\ conn'[x].wop = conn[x].wop
                 /\ conn'[x].mPendingBuffers = conn[x].mPendingBuffers
                 /\ conn'[x].mWriteBuffers = conn[x].mWriteBuffers
                 /\ conn'[x].resp = conn[x].resp /\ conn'[x].rop = conn[x].rop
                 /\ conn'[x].msg = conn[x].msg
                 /\ conn'[x].fit = conn[x].fit
                 /\ conn'[x].swallowed = conn[x].swallowed
<1> DEFINE p == conn[c].mPendingRequests
           t == Append(p, r)
           u == [conn[c] EXCEPT !.mPendingRequests = t]
<1>1. c \in Conns /\ conn[c] \in ConnRec /\ p \in Seq(Nat) /\ r \in Nat
  <2>1. c \in Conns /\ conn[c] \in ConnRec
    BY Typed DEF TypeInv, Issued
  <2> QED BY <2>1, IssuedFacts DEF ConnRec
<1>2. conn' = [conn EXCEPT ![c] = u]
  BY <1>1 DEF Issued, TypeInv
<1>3. /\ t \in Seq(Nat) /\ Len(t) = Len(p) + 1 /\ Len(p) \in Nat
      /\ \A i \in 1..Len(p) : t[i] = p[i]
      /\ t[Len(p) + 1] = r
  BY <1>1, AppendFacts, LenProperties
<1> HIDE DEF t
<1>4. /\ u \in ConnRec /\ u.mPendingRequests = t /\ u.wire = conn[c].wire
      /\ u.wop = conn[c].wop /\ u.mPendingBuffers = conn[c].mPendingBuffers
      /\ u.mWriteBuffers = conn[c].mWriteBuffers /\ u.resp = conn[c].resp
      /\ u.rop = conn[c].rop /\ u.msg = conn[c].msg
      /\ u.fit = conn[c].fit /\ u.swallowed = conn[c].swallowed
  BY <1>1, <1>3 DEF ConnRec
<1> HIDE DEF u, p
<1>5. /\ conn' \in Seq(ConnRec) /\ Len(conn') = Len(conn)
      /\ conn'[c] = u /\ \A x \in Conns : x # c => conn'[x] = conn[x]
  BY <1>1, <1>2, <1>4, Updated
<1>6. /\ \A k \in 1..Len(t) : (k \in 1..Len(p) /\ t[k] = p[k]) \/ t[k] = r
      /\ \A k \in 1..Len(p) : k \in 1..Len(t) /\ t[k] = p[k]
      /\ \E k \in 1..Len(t) : t[k] = r
  BY <1>3
<1>7. Conns' = Conns /\ mServers' = mServers /\ Removed' = Removed
  BY <1>5 DEF Conns, Removed, Issued
<1>8. conn'[c].mPendingRequests = t /\ p = conn[c].mPendingRequests
  BY <1>4, <1>5 DEF p
<1> QED BY <1>1, <1>4, <1>5, <1>6, <1>7, <1>8

LEMMA IssuedTable ==
    ASSUME TypeInv, TableInv, NEW r, NEW c, NEW e, NEW rec,
           Issued(r, c, e, rec)
    PROVE  TypeInv' /\ TableInv'
<1>1. /\ r \in 1..MaxCalls /\ r \notin Reqs /\ Reqs' = Reqs \cup {r}
      /\ calls' \in Seq(CallRec) /\ Len(calls') <= MaxCalls
      /\ calls'[r] = rec /\ (\A q \in Reqs : calls'[q] = calls[q])
      /\ mRequests \subseteq Reqs /\ Shaped(e)
  BY IssuedFacts
<1>2. /\ c \in Conns /\ Conns' = Conns /\ conn' \in Seq(ConnRec)
      /\ mServers' = mServers
  BY IssuedConn
<1>3. /\ rec \in CallRec /\ rec.c = c /\ (rec.more => rec.kind = "Stat")
      /\ \/ /\ Find(Id(r)) = {}
            /\ mRequests' = mRequests \cup {r} /\ UNCHANGED refused
         \/ /\ Find(Id(r)) # {}
            /\ refused' = refused \cup {r} /\ UNCHANGED mRequests
      /\ UNCHANGED <<answers, said>>
  BY DEF Issued
<1>4. TypeInv'
  <2>1. \A j : Shaped(j) => Shaped(j)'
    BY <1>2 DEF Shaped
  <2>2. ASSUME NEW k \in 1..Len(ready') PROVE Shaped(ready[k])'
    <3>1. \/ k \in 1..Len(ready) /\ ready'[k] = ready[k]
          \/ ready'[k] = e
      BY IssuedQueue
    <3> QED BY <1>1, <2>1, <3>1 DEF TypeInv
  <2>3. ready' \in Seq(JobRec)
    BY IssuedQueue
  <2>4. \A q \in Reqs' : /\ calls'[q].c \in Conns
                         /\ calls'[q].more => calls'[q].kind = "Stat"
    BY <1>1, <1>2, <1>3 DEF TypeInv
  <2>5. mRequests' \subseteq Reqs' /\ refused' \subseteq Reqs'
    BY <1>1, <1>3 DEF TypeInv
  <2>6. /\ answers' \in [1..MaxCalls -> Seq([of : Nat, st : Nat])]
        /\ said' \in [1..MaxCalls -> Codes \cup {Unsaid, Silent}]
        /\ \A q \in 1..MaxCalls : q \notin Reqs' => said'[q] = Unsaid
        /\ mServers' \subseteq Conns'
    BY <1>1, <1>2, <1>3 DEF TypeInv
  <2> QED BY <1>1, <1>2, <2>2, <2>3, <2>4, <2>5, <2>6 DEF TypeInv
<1>5. \A q : Id(q)' = Id(q) /\ (Answered(q)' <=> Answered(q))
  BY <1>3 DEF Id, Answered
<1>6. \A q \in mRequests', s \in mRequests' : Id(q) = Id(s) => q = s
  <2>1. CASE Find(Id(r)) = {} /\ mRequests' = mRequests \cup {r}
    <3>1. \A q \in mRequests : Id(q) # Id(r)
      BY <2>1 DEF Find
    <3> QED BY <2>1, <3>1 DEF TableInv
  <2>2. CASE mRequests' = mRequests
    BY <2>2 DEF TableInv
  <2> QED BY <1>3, <2>1, <2>2
<1>7. \A q \in Reqs' : q \in mRequests' \/ q \in refused' \/ Answered(q)
  BY <1>1, <1>3 DEF TableInv
<1>8. \A q \in Reqs' : Find(Id(q))' # {} \/ \E s \in 1..MaxCalls : Answered(s)
  <2>1. \A id : Find(id) # {} => Find(id)' # {}
    BY <1>3, <1>5 DEF Find
  <2>2. Find(Id(r))' # {}
    <3>1. CASE Find(Id(r)) # {}
      BY <1>5, <2>1, <3>1
    <3>2. CASE mRequests' = mRequests \cup {r}
      BY <1>5, <3>2 DEF Find
    <3> QED BY <1>3, <3>1, <3>2
  <2>3. \A q \in Reqs : Find(Id(q)) # {} \/ \E s \in 1..MaxCalls : Answered(s)
    BY DEF TableInv
  <2>4. \A q \in Reqs : Find(Id(q)) # {} => Find(Id(q))' # {}
    BY <1>3 DEF Find, Id
  <2> QED BY <1>1, <2>2, <2>3, <2>4
<1>9. ASSUME NEW x \in Conns, NEW k \in 1..Len(conn'[x].mPendingRequests)
      PROVE  LET q == conn'[x].mPendingRequests[k]
             IN  q \in Reqs' /\ calls'[q].c = x
  <2>1. \A s \in Reqs : s \in Reqs' /\ calls'[s] = calls[s]
    BY <1>1
  <2>2. r \in Reqs' /\ calls'[r].c = c
    BY <1>1, <1>3
  <2>3. CASE x # c
    <3>1. conn'[x] = conn[x]
      BY <2>3, IssuedConn
    <3> QED BY <2>1, <3>1 DEF TableInv
  <2>4. CASE x = c
    <3>1. \/ /\ k \in 1..Len(conn[c].mPendingRequests)
             /\ conn'[c].mPendingRequests[k] = conn[c].mPendingRequests[k]
          \/ conn'[c].mPendingRequests[k] = r
      BY <2>4, IssuedConn
    <3> QED BY <1>2, <2>1, <2>2, <2>4, <3>1, SMTT(20) DEF TableInv
  <2> QED BY <2>3, <2>4
<1>10. ASSUME NEW q \in Reqs'
       PROVE  \E k \in 1..Len(conn'[calls'[q].c].mPendingRequests) :
                 conn'[calls'[q].c].mPendingRequests[k] = q
  <2>1. CASE q = r
    <3>1. calls'[q].c = c
      BY <1>1, <1>3, <2>1
    <3>2. \E k \in 1..Len(conn'[c].mPendingRequests) :
             conn'[c].mPendingRequests[k] = r
      BY IssuedConn
    <3> QED BY <2>1, <3>1, <3>2
  <2>2. CASE q \in Reqs
    <3>1. PICK x : x = calls[q].c /\ x = calls'[q].c /\ x \in Conns
      BY <1>1, <2>2 DEF TypeInv
    <3>2. PICK k \in 1..Len(conn[x].mPendingRequests) :
             conn[x].mPendingRequests[k] = q
      BY <2>2, <3>1 DEF TableInv
    <3>3. /\ k \in 1..Len(conn'[x].mPendingRequests)
          /\ conn'[x].mPendingRequests[k] = q
      <4>1. CASE x = c
        <5>1. \A l \in 1..Len(conn[c].mPendingRequests) :
                 /\ l \in 1..Len(conn'[c].mPendingRequests)
                 /\ conn'[c].mPendingRequests[l] = conn[c].mPendingRequests[l]
          BY IssuedConn
        <5> QED BY <3>2, <4>1, <5>1
      <4>2. CASE x # c
        <5>1. conn'[x] = conn[x]
          BY <3>1, <4>2, IssuedConn
        <5> QED BY <3>2, <5>1
      <4> QED BY <4>1, <4>2
    <3> QED BY <3>1, <3>3
  <2> QED BY <1>1, <2>1, <2>2
<1>11. TableInv'
  BY <1>2, <1>5, <1>6, <1>7, <1>8, <1>9, <1>10 DEF TableInv
<1> QED BY <1>4, <1>11

LEMMA IssuedSend ==
    ASSUME TypeInv, SendInv, NEW r, NEW c, NEW e, NEW rec,
           Issued(r, c, e, rec)
    PROVE  SendInv'
<1>1. /\ r \in Nat /\ r \notin Reqs /\ Reqs' = Reqs \cup {r}
      /\ (\A q \in Reqs : q \in Nat /\ q < r) /\ said[r] = Unsaid
      /\ calls'[r] = rec /\ (\A q \in Reqs : calls'[q] = calls[q])
      /\ e.kind = "send" /\ e.c = c /\ e.it = r
  BY IssuedFacts
<1>2. /\ c \in Conns /\ Conns' = Conns
      /\ \A x \in Conns :
            /\ conn'[x].wire = conn[x].wire /\ conn'[x].wop = conn[x].wop
            /\ conn'[x].mPendingBuffers = conn[x].mPendingBuffers
            /\ conn'[x].mWriteBuffers = conn[x].mWriteBuffers
  BY IssuedConn
<1>3. rec.c = c /\ said' = said
  BY DEF Issued
<1>4. \A q, x : Waits(q, x) => Waits(q, x)'
  BY <1>1, <1>3 DEF Waits
<1>5. \A x \in Conns : Out(x)' = Out(x)
  BY <1>2 DEF Out
<1>6. ASSUME NEW x \in Conns
      PROVE  Line(conn[x].wire, Out(x), conn[x].mPendingBuffers, x)'
  <2>1. PICK w, o, p : /\ w = conn[x].wire /\ o = Out(x)
                       /\ p = conn[x].mPendingBuffers
    OBVIOUS
  <2>2. Line(w, o, p, x)
    BY <2>1 DEF SendInv
  <2>3. Line(w, o, p, x)'
    BY <1>4, <2>2 DEF Line, Unserved, Incr, Before
  <2>4. conn'[x].wire = w /\ Out(x)' = o /\ conn'[x].mPendingBuffers = p
    BY <1>2, <1>5, <2>1
  <2> QED BY <2>3, <2>4
<1>7. \A s : Unserved(s, c) => Under(s, r)
  BY <1>1 DEF Unserved, Under, Waits
<1>8. ASSUME NEW k \in 1..Len(ready'), ready'[k].kind = "send"
      PROVE  (/\ Waits(ready[k].it, ready[k].c)
              /\ Under(conn[ready[k].c].wire, ready[k].it)
              /\ Under(Out(ready[k].c), ready[k].it)
              /\ Under(conn[ready[k].c].mPendingBuffers, ready[k].it))'
  <2>1. PICK j : j = ready'[k]
    OBVIOUS
  <2>2. /\ Waits(j.it, j.c)' /\ j.c \in Conns
        /\ Under(conn[j.c].wire, j.it) /\ Under(Out(j.c), j.it)
        /\ Under(conn[j.c].mPendingBuffers, j.it)
    <3>1. CASE k \in 1..Len(ready) /\ ready'[k] = ready[k]
      BY <1>4, <1>8, <2>1, <3>1 DEF SendInv, TypeInv, Shaped
    <3>2. CASE ready'[k] = e
      <4>1. Waits(r, c)'
        BY <1>1, <1>3 DEF Waits
      <4>2. /\ Under(conn[c].wire, r) /\ Under(Out(c), r)
            /\ Under(conn[c].mPendingBuffers, r)
        BY <1>2, <1>7 DEF SendInv, Line
      <4> QED BY <1>1, <1>2, <2>1, <3>2, <4>1, <4>2
    <3> QED BY <3>1, <3>2, IssuedQueue
  <2>3. (/\ Under(conn[j.c].wire, j.it) /\ Under(Out(j.c), j.it)
         /\ Under(conn[j.c].mPendingBuffers, j.it))'
    BY <1>2, <1>5, <2>2 DEF Under
  <2> QED BY <2>1, <2>2, <2>3
<1>9. ASSUME NEW k \in 1..Len(ready'), NEW l \in 1..Len(ready'), k < l,
             ready'[k].kind = "send", ready'[l].kind = "send"
      PROVE  ready'[k].it < ready'[l].it
  <2>1. k \in 1..Len(ready) /\ ready'[k] = ready[k]
    BY <1>9, IssuedQueue
  <2>2. CASE l \in 1..Len(ready) /\ ready'[l] = ready[l]
    BY <1>9, <2>1, <2>2 DEF SendInv
  <2>3. CASE ready'[l] = e
    BY <1>1, <1>9, <2>1, <2>3 DEF SendInv, Waits
  <2> QED BY <2>2, <2>3, IssuedQueue
<1> QED BY <1>2, <1>6, <1>8, <1>9 DEF SendInv

LEMMA IssuedMsg ==
    ASSUME TypeInv, MsgInv, NEW r, NEW c, NEW e, NEW rec,
           Issued(r, c, e, rec)
    PROVE  MsgInv'
<1>1. /\ r \notin Reqs /\ Reqs' = Reqs \cup {r}
      /\ (\A q \in Reqs : calls'[q] = calls[q])
      /\ ~Reading(e) /\ e.kind = "send"
  BY IssuedFacts
<1>2. /\ Conns' = Conns
      /\ \A x \in Conns : /\ conn'[x].resp = conn[x].resp
                          /\ conn'[x].rop = conn[x].rop
                          /\ conn'[x].msg = conn[x].msg
  BY IssuedConn
<1>3. /\ UNCHANGED <<answers, said>> /\ refused \subseteq refused'
  BY DEF Issued
<1>4. \A m, x : MsgOK(m, x) => MsgOK(m, x)'
  BY <1>1, <1>3 DEF MsgOK
<1>5. \A it, of, st : Own(it, of, st) => Own(it, of, st)'
  BY <1>1, <1>3 DEF Own, Answered, Id
<1>6. ASSUME NEW k \in 1..Len(ready')
      PROVE  LET j == ready'[k]
             IN  /\ Reading(j) => MsgOK(j.msg, j.c)
                 /\ j.kind = "finish" =>
                       j.it \in Reqs /\ Own(j.it, j.msg.of, j.msg.raw)
  <2>1. CASE k \in 1..Len(ready) /\ ready'[k] = ready[k]
    BY <2>1 DEF MsgInv
  <2>2. CASE ready'[k] = e
    BY <1>1, <2>2
  <2>3. (k \in 1..Len(ready) /\ ready'[k] = ready[k]) \/ ready'[k] = e
    BY IssuedQueue
  <2> QED BY <2>1, <2>2, <2>3
<1>7. ASSUME NEW x \in Conns
      PROVE  (/\ conn[x].rop = "body" => MsgOK(conn[x].msg, x)
              /\ \A k \in 1..Len(conn[x].resp) : MsgOK(conn[x].resp[k], x))'
  BY <1>2, <1>4 DEF MsgInv
<1>8. ASSUME NEW q \in 1..MaxCalls, NEW k \in 1..Len(answers'[q])
      PROVE  Own(q, answers[q][k].of, answers[q][k].st)'
  BY <1>3, <1>5 DEF MsgInv
<1> QED BY <1>1, <1>2, <1>4, <1>5, <1>6, <1>7, <1>8 DEF MsgInv, Reading

LEMMA IssuedOp ==
    ASSUME TypeInv, OpInv, NEW r, NEW c, NEW e, NEW rec, Issued(r, c, e, rec)
    PROVE  OpInv'
<1>1. ~ReadJob(e) /\ e.kind = "send"
  BY IssuedFacts
<1>2. /\ Conns' = Conns
      /\ \A x \in Conns : /\ conn'[x].wop = conn[x].wop
                          /\ conn'[x].rop = conn[x].rop
                          /\ conn'[x].mWriteBuffers = conn[x].mWriteBuffers
  BY IssuedConn
<1>3. ASSUME NEW k \in 1..Len(ready'),
             ReadJob(ready'[k]) \/ ready'[k].kind = "write"
      PROVE  /\ k \in 1..Len(ready) /\ ready'[k] = ready[k]
             /\ ready[k].c \in Conns
  <2>1. k \in 1..Len(ready) /\ ready'[k] = ready[k]
    BY <1>1, <1>3, IssuedQueue
  <2> QED BY <1>3, <2>1 DEF TypeInv, Shaped, ReadJob
<1>4. \A k \in 1..Len(ready') :
         /\ ReadJob(ready'[k]) => conn'[ready'[k].c].rop = "none"
         /\ ready'[k].kind = "write" =>
               /\ ~conn'[ready'[k].c].wop
               /\ conn'[ready'[k].c].mWriteBuffers # <<>>
  BY <1>2, <1>3 DEF OpInv
<1>5. \A k \in 1..Len(ready'), l \in 1..Len(ready') :
         k # l /\ ready'[k].c = ready'[l].c =>
            /\ ~(ReadJob(ready'[k]) /\ ReadJob(ready'[l]))
            /\ ~(ready'[k].kind = "write" /\ ready'[l].kind = "write")
  BY <1>3 DEF OpInv
<1>6. \A x \in Conns : conn'[x].wop => conn'[x].mWriteBuffers # <<>>
  BY <1>2 DEF OpInv
<1> QED BY <1>2, <1>4, <1>5, <1>6 DEF OpInv, ReadJob

LEMMA IssuedWay ==
    ASSUME TypeInv, WayInv, NEW r, NEW c, NEW e, NEW rec, Issued(r, c, e, rec)
    PROVE  WayInv'
<1>1. /\ r \notin Reqs /\ Reqs' = Reqs \cup {r} /\ calls'[r] = rec
      /\ (\A q \in Reqs : calls'[q] = calls[q]) /\ mRequests \subseteq Reqs
      /\ e.c = c /\ Carries(e, r)
  BY IssuedFacts
<1>2. /\ c \in mServers /\ rec.c = c /\ UNCHANGED <<said, mServers>>
      /\ mRequests' \subseteq mRequests \cup {r}
  BY DEF Issued
<1>3. /\ \A k \in 1..Len(ready) : k \in 1..Len(ready') /\ ready'[k] = ready[k]
      /\ Len(ready') \in 1..Len(ready') /\ ready'[Len(ready')] = e
  BY IssuedQueue
<1>4. \A j, q : Carries(j, q)' <=> Carries(j, q)
  BY DEF Carries, Reading
<1>5. \A q : Posted(q) => Posted(q)'
  BY <1>3 DEF Posted
<1>6. ASSUME NEW q, NEW x \in Conns, Underway(q, x) PROVE Underway(q, x)'
  <2>1. CASE Holds(conn[x], q)
    <3>1. /\ conn'[x].wire = conn[x].wire /\ conn'[x].wop = conn[x].wop
          /\ conn'[x].mPendingBuffers = conn[x].mPendingBuffers
          /\ conn'[x].mWriteBuffers = conn[x].mWriteBuffers
          /\ conn'[x].resp = conn[x].resp /\ conn'[x].rop = conn[x].rop
          /\ conn'[x].msg = conn[x].msg
          /\ conn'[x].swallowed = conn[x].swallowed
      BY IssuedConn
    <3> QED BY <2>1, <3>1 DEF Underway, Holds, Among
  <2>2. CASE \E k \in 1..Len(ready) : ready[k].c = x /\ Carries(ready[k], q)
    BY <1>3, <1>4, <2>2 DEF Underway
  <2> QED BY <1>6, <2>1, <2>2 DEF Underway
<1>7. Underway(r, c)'
  BY <1>1, <1>3, <1>4 DEF Underway
<1>8. ASSUME NEW q \in mRequests'
      PROVE  (\/ Posted(q) \/ calls[q].kind = "Stat"
              \/ /\ calls[q].c \in mServers
                 /\ said[q] = Silent \/ Underway(q, calls[q].c))'
  <2>1. CASE q = r
    <3>1. calls'[q].c = c
      BY <1>1, <1>2, <2>1
    <3> QED BY <1>2, <1>7, <2>1, <3>1
  <2>2. CASE q \in mRequests
    <3>1. PICK x : x = calls[q].c /\ x = calls'[q].c /\ x \in Conns
      BY <1>1, <2>2 DEF TypeInv
    <3>2. calls'[q].kind = calls[q].kind
      BY <1>1, <2>2
    <3>3. \/ Posted(q) \/ calls[q].kind = "Stat"
          \/ x \in mServers /\ (said[q] = Silent \/ Underway(q, x))
      BY <2>2, <3>1 DEF WayInv
    <3> QED BY <1>2, <1>5, <1>6, <3>1, <3>2, <3>3
  <2> QED BY <1>2, <2>1, <2>2
<1> QED BY <1>8 DEF WayInv

LEMMA IssuedCalm ==
    ASSUME TypeInv, NEW r, NEW c, NEW e, NEW rec, Issued(r, c, e, rec)
    PROVE  /\ Calm' => Calm /\ mRequests' = mRequests \cup {r}
           /\ Fresh' => Fresh
           /\ \A S : Called(S) => Called(S)'
<1>1. /\ Reqs' = Reqs \cup {r} /\ \A q \in Reqs : calls'[q] = calls[q]
  BY IssuedFacts
<1>2. \A S : Called(S) => Called(S)'
  BY <1>1 DEF Called, Reqs
<1>3. Reused => Reused'
  <2>1. Len(calls') = Len(calls) + 1 /\ Len(calls) \in Nat
    BY Typed, AppendProperties DEF TypeInv, Issued
  <2> QED BY <2>1, ClientAssumption DEF Reused
<1>4. Removed' = Removed
  BY IssuedConn
<1>5. \/ mRequests' = mRequests \cup {r} /\ refused' = refused
      \/ refused' = refused \cup {r}
  BY DEF Issued
<1> QED BY <1>2, <1>3, <1>4, <1>5 DEF Calm, Fresh

LEMMA IssuedOne ==
    ASSUME TypeInv, MsgInv, OneInv, NEW r, NEW c, NEW e, NEW rec,
           Issued(r, c, e, rec)
    PROVE  OneInv'
<1>1. /\ r \notin Reqs /\ Reqs' = Reqs \cup {r}
      /\ (\A q \in Reqs : calls'[q] = calls[q])
      /\ e.kind = "send" /\ ~Reading(e)
  BY IssuedFacts
<1>2. UNCHANGED <<said, mServers>> /\ mServers \subseteq Conns
  BY DEF Issued, TypeInv
<1>3. SUFFICES ASSUME Calm' PROVE OneInv'
  BY DEF OneInv
<1>4. Calm /\ mRequests' = mRequests \cup {r}
  BY <1>3, IssuedCalm
<1>5. \A k \in 1..Len(ready') :
         (k \in 1..Len(ready) /\ ready'[k] = ready[k]) \/ ready'[k] = e
  BY IssuedQueue
<1>6. \A q : Posted(q)' => Posted(q)
  BY <1>1, <1>5 DEF Posted
<1>7. \A q : Alive(q) => Alive(q)'
  BY <1>4, <1>6 DEF Alive
<1>8. Alive(r)'
  <2>1. ~Posted(r)
    BY <1>1 DEF Posted, MsgInv
  <2> QED BY <1>4, <1>6, <2>1 DEF Alive
<1>9. \A q \in Reqs' : calls'[q].c \in mServers /\ said[q] = Unsaid => Alive(q)'
  BY <1>1, <1>4, <1>7, <1>8 DEF OneInv
<1>10. ASSUME NEW x \in mServers
       PROVE  (/\ \A i \in 1..Len(conn[x].resp) :
                     /\ Alive(conn[x].resp[i].of)
                     /\ \A j \in 1..Len(conn[x].resp) :
                           i # j => conn[x].resp[i].of # conn[x].resp[j].of
               /\ conn[x].rop = "body" =>
                     /\ Alive(conn[x].msg.of)
                     /\ \A i \in 1..Len(conn[x].resp) :
                           conn[x].resp[i].of # conn[x].msg.of)'
  <2>1. /\ conn'[x].resp = conn[x].resp /\ conn'[x].rop = conn[x].rop
        /\ conn'[x].msg = conn[x].msg
    BY <1>2, IssuedConn
  <2> QED BY <1>4, <1>7, <2>1 DEF OneInv
<1>11. ASSUME NEW k \in 1..Len(ready'), Reading(ready'[k]),
              ready'[k].c \in mServers
       PROVE  (/\ Alive(ready[k].msg.of)
               /\ \A i \in 1..Len(conn[ready[k].c].resp) :
                     conn[ready[k].c].resp[i].of # ready[k].msg.of)'
  <2>1. PICK j : j = ready'[k] /\ j = ready[k] /\ k \in 1..Len(ready)
    BY <1>1, <1>5, <1>11
  <2>2. /\ Alive(j.msg.of)
        /\ \A i \in 1..Len(conn[j.c].resp) : conn[j.c].resp[i].of # j.msg.of
    BY <1>4, <1>11, <2>1 DEF OneInv
  <2>3. conn'[j.c].resp = conn[j.c].resp
    BY <1>2, <1>11, <2>1, IssuedConn
  <2> QED BY <1>7, <2>1, <2>2, <2>3
<1> QED BY <1>2, <1>9, <1>10, <1>11 DEF OneInv, Reading

LEMMA IssuedFresh ==
    ASSUME TypeInv, AlignInv, FreshInv, NEW r, NEW c, NEW e, NEW rec,
           Issued(r, c, e, rec)
    PROVE  AlignInv' /\ FreshInv'
<1>1. /\ Calm' => Calm
      /\ Fresh' => Fresh
      /\ Called({"Get"}) => Called({"Get"})'
  BY IssuedCalm
<1>2. AlignInv'
  <2>1. Conns' = Conns /\ \A x \in Conns : conn'[x].fit = conn[x].fit
    BY IssuedConn
  <2> QED BY <1>1, <2>1 DEF AlignInv
<1>3. mRequests \subseteq mRequests' /\ e.kind = "send"
  <2>1. e.kind = "send"
    BY IssuedFacts
  <2>2. mRequests \subseteq mRequests'
    BY DEF Issued
  <2> QED BY <2>1, <2>2
<1>4. /\ Len(ready) \in Nat /\ Len(ready') = Len(ready) + 1
      /\ \A k \in 1..Len(ready') :
            \/ k \in 1..Len(ready) /\ ready'[k] = ready[k]
            \/ ready'[k] = e
      /\ \A k \in 1..Len(ready) : ready'[k] = ready[k]
  BY IssuedQueue
<1>5. ASSUME Fresh, NEW k \in 1..Len(ready'), ready'[k].kind = "finish"
      PROVE  /\ ready'[k].it \in mRequests'
             /\ \A l \in 1..Len(ready') :
                   ready'[l].kind = "finish" /\ l # k =>
                      ready'[l].it # ready'[k].it
             /\ \A l \in 1..(k - 1) :
                   Reading(ready'[l]) => Id(ready'[l].msg.of) # Id(ready'[k].it)
  <2>1. k \in 1..Len(ready) /\ ready'[k] = ready[k]
    BY <1>3, <1>4, <1>5
  <2>2. /\ ready[k].it \in mRequests
        /\ \A l \in 1..Len(ready) :
              ready[l].kind = "finish" /\ l # k => ready[l].it # ready[k].it
        /\ \A l \in 1..(k - 1) :
              Reading(ready[l]) => Id(ready[l].msg.of) # Id(ready[k].it)
    BY <1>5, <2>1 DEF FreshInv
  <2>3. \A l \in 1..(k - 1) : ready'[l] = ready[l]
    <3>1. \A l \in 1..(k - 1) : l \in 1..Len(ready)
      BY <1>4, <2>1
    <3> QED BY <1>4, <3>1
  <2>4. \A l \in 1..Len(ready') : ready'[l].kind = "finish" =>
           l \in 1..Len(ready) /\ ready'[l] = ready[l]
    BY <1>3, <1>4
  <2> QED BY <1>3, <2>1, <2>2, <2>3, <2>4
<1>6. FreshInv'
  BY <1>1, <1>5 DEF FreshInv, Reading, Id
<1> QED BY <1>2, <1>6

LEMMA IssueStep ==
    ASSUME IInv, fault = "none", NEW kind \in AllKinds, NEW c \in mServers,
           Issue(kind, c), Len(calls) < MaxCalls
    PROVE  IInv'
<1>1. PICK r, e, rec : Issued(r, c, e, rec)
  BY IssueIssued
<1>2. /\ TypeInv' /\ TableInv' /\ SendInv' /\ MsgInv' /\ OpInv' /\ WayInv'
      /\ OneInv' /\ AlignInv' /\ FreshInv'
  BY <1>1, IssuedTable, IssuedSend, IssuedMsg, IssuedOp, IssuedWay, IssuedOne,
     IssuedFresh DEF IInv
<1>3. fault' = "none"
  BY <1>1 DEF Issued
<1> QED BY <1>2, <1>3, Gather

-----------------------------------------------------------------------------
(* The lambda of FinishRequest.                                            *)

\* No lambda finds its entry gone while nothing explains it.
LEMMA DanglingStep ==
    ASSUME IInv, ready # <<>>, Head(ready).kind = "finish",
           Head(ready).it \notin mRequests, Faulty("dangling_iterator")
    PROVE  IInv'
<1>1. 1 \in 1..Len(ready) /\ Head(ready) = ready[1]
  BY Typed DEF IInv
<1>2. ~Fresh
  BY <1>1 DEF IInv, FreshInv
<1> QED BY <1>2, FaultStep DEF Fresh

LEMMA RunFinishStep ==
    ASSUME IInv, fault = "none", ready # <<>>, Head(ready).kind = "finish",
           RunFinish(Head(ready)), Head(ready).it \in mRequests
    PROVE  IInv'
<1> USE DEF IInv
<1>0. PICK j, i : j = Head(ready) /\ i = j.it
  OBVIOUS
<1>1. /\ 1 \in 1..Len(ready) /\ j = ready[1] /\ j \in JobRec
      /\ j.kind = "finish" /\ i \in mRequests /\ i = j.it /\ j.ok
  BY <1>0, Typed DEF TypeInv, Shaped
<1> DEFINE a == [of |-> j.msg.of, st |-> j.msg.raw]
<1>2. /\ answers' = [answers EXCEPT ![i] = Append(@, a)]
      /\ mRequests' = mRequests \ {i} /\ ready' = Tail(ready)
      /\ UNCHANGED <<calls, refused, conn, mServers, said, fault>>
  BY <1>0 DEF RunFinish
<1>3. /\ ready' \in Seq(JobRec) /\ Len(ready) \in Nat /\ Len(ready') \in Nat
      /\ \A k \in 1..Len(ready') :
            k + 1 \in 1..Len(ready) /\ k + 1 # 1 /\ ready'[k] = ready[k + 1]
      /\ \A k \in 1..Len(ready) :
            k = 1 \/ (k - 1 \in 1..Len(ready') /\ ready'[k - 1] = ready[k])
  <2>1. /\ ready' \in Seq(JobRec) /\ Len(ready') = Len(ready) - 1
        /\ \A k \in 1..Len(ready') : ready'[k] = ready[k + 1]
    BY <1>2, HeadTailProperties DEF TypeInv
  <2>2. Len(ready) \in Nat /\ Len(ready') \in Nat
    BY <2>1, LenProperties DEF TypeInv
  <2>3. \A k \in 1..Len(ready') : k + 1 \in 1..Len(ready) /\ k + 1 # 1
    BY <2>1, <2>2
  <2>4. ASSUME NEW k \in 1..Len(ready), k # 1
        PROVE  k - 1 \in 1..Len(ready') /\ ready'[k - 1] = ready[k]
    <3>1. k - 1 \in 1..Len(ready') /\ (k - 1) + 1 = k
      BY <2>1, <2>2, <2>4
    <3> QED BY <2>1, <3>1
  <2> QED BY <2>1, <2>2, <2>3, <2>4
<1>4. /\ i \in Reqs /\ i \in 1..MaxCalls /\ Own(i, j.msg.of, j.msg.raw)
  BY <1>1, Typed DEF TypeInv, MsgInv
<1>5. /\ a \in [of : Nat, st : Nat] /\ a.of = j.msg.of /\ a.st = j.msg.raw
  BY <1>1 DEF JobRec, Msg
<1> HIDE DEF a
<1>6. PICK t : /\ t = Append(answers[i], a) /\ t \in Seq([of : Nat, st : Nat])
               /\ t # <<>>
               /\ \A k \in 1..Len(t) :
                     (k \in 1..Len(answers[i]) /\ t[k] = answers[i][k]) \/ t[k] = a
  <2>1. answers[i] \in Seq([of : Nat, st : Nat])
    BY <1>4 DEF TypeInv
  <2> DEFINE t == Append(answers[i], a)
  <2>2. /\ t \in Seq([of : Nat, st : Nat]) /\ Len(t) = Len(answers[i]) + 1
        /\ \A k \in 1..Len(answers[i]) : t[k] = answers[i][k]
        /\ t[Len(answers[i]) + 1] = a /\ Len(answers[i]) \in Nat
    BY <1>5, <2>1, AppendProperties, LenProperties
  <2> HIDE DEF t
  <2>3. t # <<>>
    BY <2>2, SeqFacts
  <2>4. \A k \in 1..Len(t) :
           (k \in 1..Len(answers[i]) /\ t[k] = answers[i][k]) \/ t[k] = a
    BY <2>2, SMTT(20)
  <2> QED BY <2>2, <2>3, <2>4 DEF t
<1>7. /\ answers' \in [1..MaxCalls -> Seq([of : Nat, st : Nat])]
      /\ answers'[i] = t /\ \A r \in 1..MaxCalls : r # i => answers'[r] = answers[r]
  BY <1>2, <1>4, <1>6 DEF TypeInv
<1>8. /\ Conns' = Conns /\ Reqs' = Reqs /\ Reqs \subseteq 1..MaxCalls
      /\ Answered(i)' /\ \A r \in 1..MaxCalls : Answered(r) => Answered(r)'
  BY <1>2, <1>6, <1>7, Typed DEF Conns, Reqs, Answered
<1>9. TypeInv'
  <2>1. ASSUME NEW k \in 1..Len(ready') PROVE Shaped(ready[k])'
    <3>1. \A y : Shaped(y) => Shaped(y)'
      BY <1>8 DEF Shaped
    <3>2. k + 1 \in 1..Len(ready) /\ ready'[k] = ready[k + 1]
      BY <1>3
    <3>3. Shaped(ready[k + 1])
      BY <3>2 DEF TypeInv
    <3> QED BY <3>1, <3>2, <3>3
  <2> QED BY <1>2, <1>3, <1>7, <1>8, <2>1 DEF TypeInv
<1>10. TableInv'
  <2>1. \A r \in Reqs : r \in mRequests' \/ r \in refused \/ Answered(r)'
    BY <1>2, <1>8 DEF TableInv
  <2>2. \E q \in 1..MaxCalls : Answered(q)'
    BY <1>4, <1>8
  <2>3. \A r \in mRequests', q \in mRequests' : Id(r) = Id(q) => r = q
    BY <1>2 DEF TableInv
  <2>4. \A r : Id(r)' = Id(r)
    BY DEF Id
  <2> QED BY <1>2, <1>8, <2>1, <2>2, <2>3, <2>4 DEF TableInv
<1>11. SendInv'
  <2>1. \A r, x : Waits(r, x)' <=> Waits(r, x)
    BY <1>2, <1>8 DEF Waits
  <2>2. \A x : Out(x)' = Out(x)
    BY <1>2 DEF Out
  <2>3. ASSUME NEW x \in Conns
        PROVE  Line(conn[x].wire, Out(x), conn[x].mPendingBuffers, x)'
    BY <1>2, <2>1, <2>2 DEF SendInv, Line, Unserved, Incr, Before
  <2>4. ASSUME NEW k \in 1..Len(ready'), ready'[k].kind = "send"
        PROVE  (/\ Waits(ready[k].it, ready[k].c)
                /\ Under(conn[ready[k].c].wire, ready[k].it)
                /\ Under(Out(ready[k].c), ready[k].it)
                /\ Under(conn[ready[k].c].mPendingBuffers, ready[k].it))'
    <3>1. PICK y : y = ready'[k] /\ k + 1 \in 1..Len(ready) /\ y = ready[k + 1]
      BY <1>3
    <3>2. /\ Waits(y.it, y.c) /\ Under(conn[y.c].wire, y.it)
          /\ Under(Out(y.c), y.it) /\ Under(conn[y.c].mPendingBuffers, y.it)
      BY <2>4, <3>1 DEF SendInv
    <3>3. (/\ Waits(y.it, y.c) /\ Under(conn[y.c].wire, y.it)
           /\ Under(Out(y.c), y.it) /\ Under(conn[y.c].mPendingBuffers, y.it))'
      BY <1>2, <2>1, <2>2, <3>2 DEF Under
    <3> QED BY <3>1, <3>3
  <2>5. ASSUME NEW k \in 1..Len(ready'), NEW l \in 1..Len(ready'), k < l,
               ready'[k].kind = "send", ready'[l].kind = "send"
        PROVE  ready'[k].it < ready'[l].it
    <3>1. k + 1 < l + 1
      BY <2>5
    <3> QED BY <1>3, <2>5, <3>1, ZenonT(20) DEF SendInv
  <2> QED BY <1>8, <2>3, <2>4, <2>5 DEF SendInv
<1>12. MsgInv'
  <2>1. \A m, x : MsgOK(m, x) => MsgOK(m, x)'
    BY <1>2, <1>8 DEF MsgOK
  <2>2. \A it, of, st : Own(it, of, st) => Own(it, of, st)'
    BY <1>2, <1>8 DEF Own, Id
  <2>3. ASSUME NEW k \in 1..Len(ready')
        PROVE  LET y == ready'[k]
               IN  /\ Reading(y) => MsgOK(y.msg, y.c)
                   /\ y.kind = "finish" =>
                         y.it \in Reqs /\ Own(y.it, y.msg.of, y.msg.raw)
    BY <1>3 DEF MsgInv
  <2>4. ASSUME NEW x \in Conns
        PROVE  (/\ conn[x].rop = "body" => MsgOK(conn[x].msg, x)
                /\ \A k \in 1..Len(conn[x].resp) : MsgOK(conn[x].resp[k], x))'
    BY <1>2, <2>1 DEF MsgInv
  <2>5. ASSUME NEW r \in 1..MaxCalls, NEW k \in 1..Len(answers'[r])
        PROVE  Own(r, answers[r][k].of, answers[r][k].st)'
    <3>1. PICK b : b = answers'[r][k]
      OBVIOUS
    <3>2. Own(r, b.of, b.st)
      <4>1. CASE r # i
        BY <1>7, <2>5, <3>1, <4>1 DEF MsgInv
      <4>2. CASE r = i
        <5>1. k \in 1..Len(t) /\ b = t[k]
          BY <1>7, <2>5, <3>1, <4>2
        <5>2. CASE k \in 1..Len(answers[i]) /\ t[k] = answers[i][k]
          BY <1>4, <4>2, <5>1, <5>2 DEF MsgInv
        <5>3. CASE t[k] = a
          BY <1>4, <1>5, <4>2, <5>1, <5>3
        <5> QED BY <1>6, <5>1, <5>2, <5>3
      <4> QED BY <4>1, <4>2
    <3>3. Own(r, b.of, b.st)'
      BY <2>2, <3>2
    <3> QED BY <3>1, <3>3
  <2> QED BY <1>8, <2>1, <2>2, <2>3, <2>4, <2>5 DEF MsgInv, Reading
<1>13. OpInv'
  <2>1. \A k \in 1..Len(ready') :
           /\ ReadJob(ready'[k]) => conn[ready'[k].c].rop = "none"
           /\ ready'[k].kind = "write" =>
                 ~conn[ready'[k].c].wop /\ conn[ready'[k].c].mWriteBuffers # <<>>
    BY <1>3 DEF OpInv
  <2>2. ASSUME NEW k \in 1..Len(ready'), NEW l \in 1..Len(ready'), k # l,
               ready'[k].c = ready'[l].c
        PROVE  /\ ~(ReadJob(ready'[k]) /\ ReadJob(ready'[l]))
               /\ ~(ready'[k].kind = "write" /\ ready'[l].kind = "write")
    <3>1. k + 1 # l + 1
      BY <2>2
    <3> QED BY <1>3, <2>2, <3>1, ZenonT(20) DEF OpInv
  <2> QED BY <1>2, <1>8, <2>1, <2>2 DEF OpInv, ReadJob
<1>14. WayInv'
  <2>1. ASSUME NEW r, r # i, Posted(r) PROVE Posted(r)'
    <3>1. PICK k \in 1..Len(ready) : ready[k].kind = "finish" /\ ready[k].it = r
      BY <2>1 DEF Posted
    <3>2. k # 1
      BY <1>1, <2>1, <3>1
    <3> QED BY <1>3, <3>1, <3>2 DEF Posted
  <2>2. ASSUME NEW r, NEW x, Underway(r, x) PROVE Underway(r, x)'
    <3>1. \A y : Carries(y, r)' <=> Carries(y, r)
      BY DEF Carries, Reading
    <3>2. CASE Holds(conn[x], r)
      BY <1>2, <3>2 DEF Underway, Holds, Among
    <3>3. CASE ~Holds(conn[x], r)
      <4>1. PICK k \in 1..Len(ready) : ready[k].c = x /\ Carries(ready[k], r)
        BY <2>2, <3>3 DEF Underway
      <4>2. k # 1
        BY <1>1, <4>1 DEF Carries, Reading
      <4> QED BY <1>3, <3>1, <4>1, <4>2 DEF Underway
    <3> QED BY <3>2, <3>3
  <2> QED BY <1>2, <2>1, <2>2 DEF WayInv
<1>15. /\ Calm' = Calm /\ Fresh' = Fresh
       /\ \A S : Called(S)' = Called(S)
  BY <1>2 DEF Calm, Fresh, Called, Removed, Reused
<1>16. OneInv'
  <2>1. ASSUME NEW r, Alive(r) PROVE Alive(r)'
    <3>1. r # i
      BY <1>1, <2>1 DEF Alive, Posted
    <3>2. Posted(r)' => Posted(r)
      BY <1>3 DEF Posted
    <3> QED BY <1>2, <2>1, <3>1, <3>2 DEF Alive
  <2>2. SUFFICES ASSUME Calm PROVE OneInv'
    BY <1>15 DEF OneInv
  <2>3. ASSUME NEW k \in 1..Len(ready'), Reading(ready'[k]),
               ready'[k].c \in mServers
        PROVE  (/\ Alive(ready[k].msg.of)
                /\ \A n \in 1..Len(conn[ready[k].c].resp) :
                      conn[ready[k].c].resp[n].of # ready[k].msg.of)'
    <3>1. PICK y : y = ready'[k] /\ k + 1 \in 1..Len(ready) /\ y = ready[k + 1]
      BY <1>3
    <3>2. /\ Alive(y.msg.of)
          /\ \A n \in 1..Len(conn[y.c].resp) : conn[y.c].resp[n].of # y.msg.of
      BY <2>2, <2>3, <3>1 DEF OneInv
    <3> QED BY <1>2, <2>1, <3>1, <3>2
  <2>4. ASSUME NEW x \in mServers
        PROVE  (/\ \A n \in 1..Len(conn[x].resp) :
                      /\ Alive(conn[x].resp[n].of)
                      /\ \A l \in 1..Len(conn[x].resp) :
                            n # l => conn[x].resp[n].of # conn[x].resp[l].of
                /\ conn[x].rop = "body" =>
                      /\ Alive(conn[x].msg.of)
                      /\ \A n \in 1..Len(conn[x].resp) :
                            conn[x].resp[n].of # conn[x].msg.of)'
    <3>1. conn'[x] = conn[x]
      BY <1>2
    <3> QED BY <2>1, <2>2, <3>1 DEF OneInv
  <2>5. \A r \in Reqs : calls[r].c \in mServers /\ said[r] = Unsaid => Alive(r)'
    BY <2>1, <2>2 DEF OneInv
  <2> QED BY <1>2, <1>8, <2>3, <2>4, <2>5 DEF OneInv, Reading
<1>17. AlignInv'
  BY <1>2, <1>8, <1>15 DEF AlignInv
<1>18. FreshInv'
  <2>1. ASSUME Fresh, NEW k \in 1..Len(ready'), ready'[k].kind = "finish"
        PROVE  /\ ready'[k].it \in mRequests'
               /\ \A l \in 1..Len(ready') :
                     ready'[l].kind = "finish" /\ l # k =>
                        ready'[l].it # ready'[k].it
               /\ \A l \in 1..(k - 1) :
                     Reading(ready'[l]) => Id(ready'[l].msg.of) # Id(ready'[k].it)
    <3>1. PICK h : h = k + 1 /\ h \in 1..Len(ready) /\ h # 1 /\ ready'[k] = ready[h]
      BY <1>3
    <3>2. /\ ready[h].it \in mRequests
          /\ \A l \in 1..Len(ready) :
                ready[l].kind = "finish" /\ l # h => ready[l].it # ready[h].it
          /\ \A l \in 1..(h - 1) :
                Reading(ready[l]) => Id(ready[l].msg.of) # Id(ready[h].it)
      BY <2>1, <3>1 DEF FreshInv
    <3>3. ready[h].it # i
      BY <1>1, <3>1, <3>2
    <3>4. ASSUME NEW l \in 1..Len(ready'), ready'[l].kind = "finish", l # k
          PROVE  ready'[l].it # ready'[k].it
      <4>1. l + 1 \in 1..Len(ready) /\ l + 1 # h /\ ready'[l] = ready[l + 1]
        BY <1>3, <3>1, <3>4
      <4> QED BY <3>1, <3>2, <3>4, <4>1
    <3>5. ASSUME NEW l \in 1..(k - 1), Reading(ready'[l])
          PROVE  Id(ready'[l].msg.of) # Id(ready'[k].it)
      <4>1. l \in 1..Len(ready') /\ l + 1 \in 1..(h - 1)
        BY <1>3, <3>1
      <4>2. ready'[l] = ready[l + 1]
        BY <1>3, <4>1
      <4> QED BY <3>1, <3>2, <3>5, <4>1, <4>2
    <3> QED BY <1>2, <3>1, <3>2, <3>3, <3>4, <3>5
  <2> QED BY <1>15, <2>1 DEF FreshInv, Reading, Id
<1>19. fault' = "none"
  BY <1>2
<1> QED BY <1>9, <1>10, <1>11, <1>12, <1>13, <1>14, <1>16, <1>17, <1>18, <1>19,
           Gather

-----------------------------------------------------------------------------
(* The server takes a request.                                             *)

\* Its responses to r: all with the same status s, one at most but to Stat.
AnswersTo(r, rs, s) ==
    /\ rs \in Seq(Msg) /\ s \in Codes
    /\ \A k \in 1..Len(rs) :
          /\ rs[k].of = r /\ rs[k].raw = Swap16(s)
          /\ calls[r].kind \notin {"Get", "Stat"} =>
                rs[k].shape \in {"empty", "value"}
    /\ calls[r].kind # "Stat" => Len(rs) <= 1

LEMMA ResponseFacts ==
    ASSUME NEW r \in Nat, NEW s \in Codes,
           NEW shape \in {"empty", "value", "extras"}
    PROVE  LET m == Response(r, shape, s)
           IN  /\ m \in Msg /\ m.of = r /\ m.raw = Swap16(s) /\ m.shape = shape
<1>1. Swap16(s) \in Nat
  BY SwapTwice
<1> QED BY <1>1 DEF Response, Msg

LEMMA SingleAnswer ==
    ASSUME NEW r \in Nat, NEW s \in Codes,
           NEW shape \in {"empty", "value", "extras"},
           calls[r].kind \notin {"Get", "Stat"} => shape \in {"empty", "value"},
           NEW rs, rs = <<Response(r, shape, s)>>
    PROVE  AnswersTo(r, rs, s)
<1> DEFINE m == Response(r, shape, s)
<1>1. m \in Msg /\ m.of = r /\ m.raw = Swap16(s) /\ m.shape = shape
  BY ResponseFacts
<1> HIDE DEF m
<1>2. rs = <<m>>
  BY DEF m
<1>3. rs \in Seq(Msg) /\ Len(rs) = 1 /\ \A k \in 1..Len(rs) : rs[k] = m
  BY <1>1, <1>2, OneElement
<1> QED BY <1>1, <1>3 DEF AnswersTo

LEMMA ResponsesFacts ==
    ASSUME TypeInv, NEW r \in Reqs, NEW rs \in Responses(r)
    PROVE  \E s \in Codes : AnswersTo(r, rs, s)
<1>1. calls[r].kind \in AllKinds /\ r \in Nat
  BY Typed DEF CallRec, Reqs
<1>2. /\ ERequest_SUCCESS \in Codes /\ ERequest_KEY_ENOENT \in Codes
      /\ ERequest_EINVAL \in Codes
  BY DEF Codes
<1>3. CASE calls[r].kind = "Get"
  <2>1. rs = <<>> \/ \E shape \in {"value", "extras"} :
                        rs = <<Response(r, shape, ERequest_SUCCESS)>>
    BY <1>3 DEF Responses
  <2>2. CASE rs = <<>>
    <3>1. AnswersTo(r, rs, ERequest_SUCCESS)
      BY <1>2, <2>2, EmptySeq, NoElement DEF AnswersTo
    <3> QED BY <1>2, <3>1
  <2>3. ASSUME NEW shape \in {"value", "extras"},
               rs = <<Response(r, shape, ERequest_SUCCESS)>>
        PROVE  AnswersTo(r, rs, ERequest_SUCCESS)
    BY <1>1, <1>2, <1>3, <2>3, SingleAnswer
  <2> QED BY <1>2, <2>1, <2>2, <2>3
<1>4. CASE calls[r].kind = "Stat"
  <2>1. PICK n \in 1..MaxStats :
           rs = [k \in 1..(n + 1) |->
                    Response(r, IF k <= n THEN "value" ELSE "empty",
                             ERequest_SUCCESS)]
    BY <1>4 DEF Responses
  <2>2. n + 1 \in Nat
    BY ClientAssumption
  <2> DEFINE m(k) == Response(r, IF k <= n THEN "value" ELSE "empty",
                              ERequest_SUCCESS)
  <2>3. \A k \in 1..(n + 1) :
           m(k) \in Msg /\ m(k).of = r /\ m(k).raw = Swap16(ERequest_SUCCESS)
    BY <1>1, <1>2, ResponseFacts
  <2>4. rs = [k \in 1..(n + 1) |-> m(k)]
    BY <2>1
  <2> HIDE DEF m
  <2>5. rs \in Seq(Msg) /\ Len(rs) = n + 1
    BY <2>2, <2>3, <2>4, IsASeq, LenProperties
  <2>6. \A k \in 1..Len(rs) : rs[k] = m(k)
    BY <2>4, <2>5
  <2>7. AnswersTo(r, rs, ERequest_SUCCESS)
    BY <1>2, <1>4, <2>3, <2>5, <2>6 DEF AnswersTo
  <2> QED BY <1>2, <2>7
<1>5. CASE calls[r].kind \in {"Store", "SelfOp"}
  <2>1. rs = <<Response(r, "value", ERequest_EINVAL)>>
    BY <1>5 DEF Responses
  <2> QED BY <1>1, <1>2, <1>5, <2>1, SingleAnswer
<1>6. CASE calls[r].kind = "Version"
  <2>1. rs = <<Response(r, "value", ERequest_SUCCESS)>>
    BY <1>6 DEF Responses
  <2> QED BY <1>1, <1>2, <1>6, <2>1, SingleAnswer
<1>7. CASE calls[r].kind \in {"Append", "Delete", "Flush"}
  <2>1. \/ rs = <<Response(r, "empty", ERequest_SUCCESS)>>
        \/ rs = <<Response(r, "value", ERequest_KEY_ENOENT)>>
    BY <1>7 DEF Responses
  <2>2. CASE rs = <<Response(r, "empty", ERequest_SUCCESS)>>
    BY <1>1, <1>2, <1>7, <2>2, SingleAnswer
  <2>3. CASE rs = <<Response(r, "value", ERequest_KEY_ENOENT)>>
    BY <1>1, <1>2, <1>7, <2>3, SingleAnswer
  <2> QED BY <2>1, <2>2, <2>3
<1> QED BY <1>1, <1>3, <1>4, <1>5, <1>6, <1>7 DEF AllKinds

\* The step as far as the invariant is concerned.
Served(c, r, rs, s) ==
    /\ c \in mServers /\ c \in Conns /\ r \in Reqs /\ calls[r].c = c
    /\ said[r] = Unsaid /\ AnswersTo(r, rs, s)
    /\ conn' \in Seq(ConnRec) /\ Len(conn') = Len(conn)
    /\ \A x \in Conns : x # c => conn'[x] = conn[x]
    /\ \A x \in Conns :
          /\ conn'[x].mPendingBuffers = conn[x].mPendingBuffers
          /\ conn'[x].mWriteBuffers = conn[x].mWriteBuffers
          /\ conn'[x].mPendingRequests = conn[x].mPendingRequests
          /\ conn'[x].wop = conn[x].wop /\ conn'[x].rop = conn[x].rop
          /\ conn'[x].msg = conn[x].msg /\ conn'[x].fit = conn[x].fit
          /\ conn'[x].swallowed = conn[x].swallowed
    /\ conn[c].wire \in Seq(Nat) /\ conn[c].wire # <<>> /\ conn[c].wire[1] = r
    /\ conn'[c].wire = Tail(conn[c].wire)
    /\ conn[c].resp \in Seq(Msg) /\ conn'[c].resp = conn[c].resp \o rs
    /\ said' \in [1..MaxCalls -> Codes \cup {Unsaid, Silent}]
    /\ \A q \in 1..MaxCalls : q # r => said'[q] = said[q]
    /\ IF rs = <<>> THEN said'[r] = Silent ELSE said'[r] = s
    /\ UNCHANGED <<calls, mRequests, refused, mServers, ready, answers, fault>>

LEMMA SwapBack ==
    ASSUME NEW s \in Codes
    PROVE  Swap16(Swap16(s)) = s
BY DEF Codes, Swap16, ERequest_SUCCESS, ERequest_KEY_ENOENT, ERequest_EINVAL

LEMMA ServeServed ==
    ASSUME IInv, NEW c \in mServers, Serve(c)
    PROVE  \E r, rs, s : Served(c, r, rs, s)
<1> USE DEF IInv
<1>1. c \in Conns /\ conn[c] \in ConnRec
  BY Typed DEF TypeInv
<1> DEFINE w == conn[c].wire
<1>2. /\ w \in Seq(Nat) /\ conn[c].resp \in Seq(Msg) /\ w # <<>>
      /\ 1 \in 1..Len(w) /\ Head(w) = w[1]
  <2>1. w \in Seq(Nat) /\ conn[c].resp \in Seq(Msg) /\ w # <<>>
    BY <1>1, ConnFields DEF Serve
  <2> QED BY <2>1, SeqFacts
<1>3. PICK r : r = Head(w)
  OBVIOUS
<1>4. PICK rs \in Responses(r) :
         /\ conn' = [conn EXCEPT ![c].wire = Tail(@), ![c].resp = @ \o rs,
                                 ![c].deaf = calls[r].kind \in Misframed]
         /\ said' = [said EXCEPT ![r] = IF rs = <<>> THEN Silent
                                        ELSE Swap16(rs[1].raw)]
  BY <1>3 DEF Serve
<1>5. r \in Reqs /\ calls[r].c = c /\ said[r] = Unsaid /\ w[1] = r
  BY <1>1, <1>2, <1>3 DEF SendInv, Line, Unserved, Waits
<1>6. PICK s \in Codes : AnswersTo(r, rs, s)
  BY <1>5, ResponsesFacts
<1>7. rs \in Seq(Msg)
  BY <1>6 DEF AnswersTo
<1> DEFINE u == [conn[c] EXCEPT !.wire = Tail(w), !.resp = conn[c].resp \o rs,
                                !.deaf = calls[r].kind \in Misframed]
<1>8. conn' = [conn EXCEPT ![c] = u]
  BY <1>1, <1>4 DEF TypeInv
<1>9. Tail(w) \in Seq(Nat) /\ conn[c].resp \o rs \in Seq(Msg)
  BY <1>2, <1>7, HeadTailProperties, ConcatProperties
<1>10. /\ u \in ConnRec /\ u.wire = Tail(w) /\ u.resp = conn[c].resp \o rs
       /\ u.mPendingBuffers = conn[c].mPendingBuffers
       /\ u.mWriteBuffers = conn[c].mWriteBuffers
       /\ u.mPendingRequests = conn[c].mPendingRequests
       /\ u.wop = conn[c].wop /\ u.rop = conn[c].rop /\ u.msg = conn[c].msg
       /\ u.fit = conn[c].fit /\ u.swallowed = conn[c].swallowed
  <2> DEFINE t == Tail(w)
             q == conn[c].resp \o rs
             b == calls[r].kind \in Misframed
  <2>1. t \in Seq(Nat) /\ q \in Seq(Msg) /\ b \in BOOLEAN
    BY <1>9
  <2> HIDE DEF t, q, b
  <2> DEFINE v == [conn[c] EXCEPT !.wire = t, !.resp = q, !.deaf = b]
  <2>2. /\ v \in ConnRec /\ v.wire = t /\ v.resp = q
        /\ v.mPendingBuffers = conn[c].mPendingBuffers
        /\ v.mWriteBuffers = conn[c].mWriteBuffers
        /\ v.mPendingRequests = conn[c].mPendingRequests
        /\ v.wop = conn[c].wop /\ v.rop = conn[c].rop /\ v.msg = conn[c].msg
        /\ v.fit = conn[c].fit /\ v.swallowed = conn[c].swallowed
    BY <1>1, <2>1 DEF ConnRec
  <2> QED BY <2>2 DEF t, q, b
<1> HIDE DEF u
<1>11. /\ conn' \in Seq(ConnRec) /\ Len(conn') = Len(conn)
       /\ conn'[c] = u /\ \A x \in Conns : x # c => conn'[x] = conn[x]
  BY <1>1, <1>8, <1>10, Updated
<1>12. rs # <<>> => Swap16(rs[1].raw) = s
  BY <1>6, <1>7, SeqFacts, SwapBack DEF AnswersTo
<1>13. r \in 1..MaxCalls /\ said \in [1..MaxCalls -> Codes \cup {Unsaid, Silent}]
  BY <1>5, Typed DEF TypeInv
<1>14. /\ said' \in [1..MaxCalls -> Codes \cup {Unsaid, Silent}]
       /\ \A q \in 1..MaxCalls : q # r => said'[q] = said[q]
       /\ IF rs = <<>> THEN said'[r] = Silent ELSE said'[r] = s
  <2>1. PICK z : z = (IF rs = <<>> THEN Silent ELSE Swap16(rs[1].raw))
    OBVIOUS
  <2>2. z \in Codes \cup {Silent} /\ said' = [said EXCEPT ![r] = z]
    BY <1>4, <1>6, <1>12, <2>1
  <2>3. /\ said' \in [1..MaxCalls -> Codes \cup {Unsaid, Silent}]
        /\ \A q \in 1..MaxCalls : q # r => said'[q] = said[q]
        /\ said'[r] = z
    BY <1>13, <2>2
  <2> QED BY <1>12, <2>1, <2>3
<1>15. UNCHANGED <<calls, mRequests, refused, mServers, ready, answers, fault>>
  BY DEF Serve
<1>16. \A x \in Conns :
          /\ conn'[x].mPendingBuffers = conn[x].mPendingBuffers
          /\ conn'[x].mWriteBuffers = conn[x].mWriteBuffers
          /\ conn'[x].mPendingRequests = conn[x].mPendingRequests
          /\ conn'[x].wop = conn[x].wop /\ conn'[x].rop = conn[x].rop
          /\ conn'[x].msg = conn[x].msg /\ conn'[x].fit = conn[x].fit
          /\ conn'[x].swallowed = conn[x].swallowed
  BY <1>10, <1>11
<1>17. Served(c, r, rs, s)
  BY <1>1, <1>2, <1>5, <1>6, <1>10, <1>11, <1>14, <1>15, <1>16 DEF Served
<1> QED BY <1>17

LEMMA ServedFacts ==
    ASSUME TypeInv, NEW c, NEW r, NEW rs, NEW s, Served(c, r, rs, s)
    PROVE  /\ Conns' = Conns /\ Reqs' = Reqs /\ r \in 1..MaxCalls
           /\ \A q \in Reqs : q # r => said'[q] = said[q]
           /\ \A q \in Reqs : said[q] \in Codes => q # r
           /\ Unsaid \notin Codes /\ Silent \notin Codes
<1>1. Unsaid \notin Codes /\ Silent \notin Codes
  BY DEF Unsaid, Silent, Codes, ERequest_SUCCESS, ERequest_KEY_ENOENT,
         ERequest_EINVAL
<1>2. Conns' = Conns /\ Reqs' = Reqs /\ \A q \in Reqs : q \in 1..MaxCalls
  BY Typed DEF Served, Conns, Reqs
<1> QED BY <1>1, <1>2 DEF Served

\* What is left on the wire.
LEMMA WireLeft ==
    ASSUME NEW w \in Seq(Nat), w # <<>>, NEW r, w[1] = r, Incr(w),
           NEW t, t = Tail(w)
    PROVE  /\ \A i \in 1..Len(t) : i + 1 \in 1..Len(w) /\ t[i] = w[i + 1]
           /\ \A i \in 1..Len(t) : t[i] # r
           /\ \A q : Among(q, w) => q = r \/ Among(q, t)
           /\ Incr(t)
<1>1. /\ t \in Seq(Nat) /\ Len(t) = Len(w) - 1
      /\ \A i \in 1..Len(t) : t[i] = w[i + 1]
  BY HeadTailProperties
<1>2. Len(w) \in Nat /\ Len(t) \in Nat /\ 1 \in 1..Len(w) /\ Len(w) # 0
      /\ \A i \in 1..Len(w) : w[i] \in Nat
  BY <1>1, SeqFacts
<1>3. \A i \in 1..Len(t) : i + 1 \in 1..Len(w) /\ 1 < i + 1 /\ t[i] = w[i + 1]
  BY <1>1, <1>2
<1>4. \A i \in 1..Len(t) : t[i] # r
  <2>1. ASSUME NEW i \in 1..Len(t) PROVE t[i] # r
    <3>1. w[1] < w[i + 1]
      BY <1>2, <1>3 DEF Incr
    <3> QED BY <1>2, <1>3, <3>1
  <2> QED BY <2>1
<1>5. ASSUME NEW q, Among(q, w), q # r PROVE Among(q, t)
  <2>1. PICK k \in 1..Len(w) : w[k] = q
    BY <1>5 DEF Among
  <2>2. k # 1
    BY <1>5, <2>1
  <2>3. k - 1 \in 1..Len(t) /\ (k - 1) + 1 = k
    BY <1>1, <1>2, <2>1, <2>2
  <2>4. t[k - 1] = q
    BY <1>1, <2>1, <2>3
  <2> QED BY <2>3, <2>4 DEF Among
<1>6. Incr(t)
  <2>1. ASSUME NEW i \in 1..Len(t), NEW j \in 1..Len(t), i < j
        PROVE  t[i] < t[j]
    <3>1. i + 1 < j + 1
      BY <2>1
    <3> QED BY <1>3, <3>1 DEF Incr
  <2> QED BY <2>1 DEF Incr
<1> QED BY <1>3, <1>4, <1>5, <1>6

LEMMA ServedType ==
    ASSUME TypeInv, TableInv, NEW c, NEW r, NEW rs, NEW s, Served(c, r, rs, s)
    PROVE  TypeInv' /\ TableInv'
<1>1. Conns' = Conns /\ Reqs' = Reqs
  BY ServedFacts
<1>2. /\ UNCHANGED <<calls, mRequests, refused, mServers, ready, answers>>
      /\ conn' \in Seq(ConnRec)
      /\ said' \in [1..MaxCalls -> Codes \cup {Unsaid, Silent}]
      /\ \A x \in Conns :
            conn'[x].mPendingRequests = conn[x].mPendingRequests
  BY DEF Served
<1>3. \A q \in 1..MaxCalls : q \notin Reqs => said'[q] = Unsaid
  BY DEF Served, TypeInv
<1>4. TypeInv'
  BY <1>1, <1>2, <1>3 DEF TypeInv, Shaped
<1>5. \A q \in Reqs : calls[q].c \in Conns
  BY DEF TypeInv
<1>6. TableInv'
  BY <1>1, <1>2, <1>5, TableSame
<1> QED BY <1>4, <1>6

LEMMA ServedSend ==
    ASSUME TypeInv, SendInv, NEW c, NEW r, NEW rs, NEW s, Served(c, r, rs, s)
    PROVE  SendInv'
<1>1. /\ Conns' = Conns /\ Reqs' = Reqs /\ c \in Conns /\ r \in Nat
      /\ calls[r].c = c
      /\ UNCHANGED <<calls, ready>>
  <2>1. r \in Nat
    BY ServedFacts, ClientAssumption
  <2>2. c \in Conns /\ calls[r].c = c /\ UNCHANGED <<calls, ready>>
    BY DEF Served
  <2> QED BY <2>1, <2>2, ServedFacts
<1>2. \A q, x : Waits(q, x) /\ q # r => Waits(q, x)'
  BY <1>1, ServedFacts DEF Waits
<1> DEFINE w == conn[c].wire
           t == Tail(w)
<1>3. /\ w \in Seq(Nat) /\ w # <<>> /\ w[1] = r /\ 1 \in 1..Len(w)
      /\ conn'[c].wire = t
  <2>1. w \in Seq(Nat) /\ w # <<>> /\ w[1] = r /\ conn'[c].wire = t
    BY DEF Served
  <2> QED BY <2>1, SeqFacts
<1>4. Line(w, Out(c), conn[c].mPendingBuffers, c)
  BY <1>1 DEF SendInv
<1>5. /\ \A i \in 1..Len(t) : i + 1 \in 1..Len(w) /\ t[i] = w[i + 1]
      /\ \A i \in 1..Len(t) : t[i] # r
      /\ Incr(t)
  <2> HIDE DEF w
  <2> QED BY <1>3, <1>4, WireLeft DEF Line
<1>6. \A x \in Conns : /\ Out(x)' = Out(x)
                       /\ conn'[x].mPendingBuffers = conn[x].mPendingBuffers
                       /\ x # c => conn'[x].wire = conn[x].wire
  BY DEF Served, Out
<1> HIDE DEF t, w
<1>7. ASSUME NEW v, Before(w, v), Unserved(v, c)
      PROVE  Unserved(v, c)' /\ Before(t, v)
  <2>1. \A i \in 1..Len(v) : r < v[i] /\ v[i] \in Nat
    <3>1. ASSUME NEW i \in 1..Len(v) PROVE r < v[i] /\ v[i] \in Nat
      <4>1. Waits(v[i], c) /\ w[1] < v[i]
        BY <1>3, <1>7 DEF Before, Unserved
      <4>2. v[i] \in Nat
        BY <4>1, Typed DEF Waits, Reqs
      <4> QED BY <1>3, <4>1, <4>2
    <3> QED BY <3>1
  <2>2. \A i \in 1..Len(v) : v[i] # r
    BY <1>1, <2>1
  <2>3. Before(t, v)
    BY <1>5, <1>7 DEF Before
  <2> QED BY <1>2, <1>7, <2>2, <2>3 DEF Unserved
<1>8. ASSUME NEW x \in Conns
      PROVE  Line(conn[x].wire, Out(x), conn[x].mPendingBuffers, x)'
  <2>1. PICK o, p : o = Out(x) /\ p = conn[x].mPendingBuffers
    OBVIOUS
  <2>2. Out(x)' = o /\ conn'[x].mPendingBuffers = p
    BY <1>6, <2>1
  <2>3. PICK v : v = conn'[x].wire
    OBVIOUS
  <2>4. Line(v, o, p, x)'
    <3>1. CASE x = c
      <4>1. v = t /\ Line(w, o, p, c)
        BY <1>3, <1>4, <2>1, <2>3, <3>1
      <4>2. /\ Unserved(o, c)' /\ Before(t, o)
            /\ Unserved(p, c)' /\ Before(t, p)
        BY <1>7, <4>1 DEF Line
      <4>3. Unserved(v, c)'
        <5>1. \A i \in 1..Len(v) : Waits(v[i], c) /\ v[i] # r
          BY <1>5, <4>1 DEF Line, Unserved
        <5> QED BY <1>2, <5>1 DEF Unserved
      <4>4. Incr(v) /\ Before(v, o) /\ Before(v, p)
        BY <1>5, <4>1, <4>2
      <4>5. Incr(o) /\ Incr(p) /\ Before(o, p)
        BY <4>1 DEF Line
      <4> QED BY <3>1, <4>2, <4>3, <4>4, <4>5 DEF Line, Incr, Before
    <3>2. CASE x # c
      <4>1. v = conn[x].wire /\ Line(v, o, p, x)
        BY <1>6, <2>1, <2>3, <3>2 DEF SendInv
      <4>2. \A q : Waits(q, x) => Waits(q, x)'
        BY <1>1, <1>2, <3>2 DEF Waits
      <4> QED BY <4>1, <4>2 DEF Line, Unserved, Incr, Before
    <3> QED BY <3>1, <3>2
  <2> QED BY <2>2, <2>3, <2>4 DEF Line, Unserved, Incr, Before
<1>9. ASSUME NEW k \in 1..Len(ready'), ready'[k].kind = "send"
      PROVE  (/\ Waits(ready[k].it, ready[k].c)
              /\ Under(conn[ready[k].c].wire, ready[k].it)
              /\ Under(Out(ready[k].c), ready[k].it)
              /\ Under(conn[ready[k].c].mPendingBuffers, ready[k].it))'
  <2>1. PICK j : j = ready'[k] /\ j = ready[k] /\ j.kind = "send"
    BY <1>1, <1>9
  <2>2. /\ Waits(j.it, j.c) /\ j.c \in Conns
        /\ Under(conn[j.c].wire, j.it) /\ Under(Out(j.c), j.it)
        /\ Under(conn[j.c].mPendingBuffers, j.it)
    BY <1>1, <2>1 DEF SendInv, TypeInv, Shaped
  <2>3. j.it # r /\ Under(conn[j.c].wire, j.it)'
    <3>1. CASE j.c = c
      <4>1. Under(w, j.it)
        BY <2>2, <3>1 DEF w
      <4>2. j.it \in Nat
        BY <2>2, Typed DEF Waits, Reqs
      <4>3. j.it # r
        BY <1>1, <1>3, <4>1, <4>2 DEF Under
      <4>4. Under(t, j.it)
        BY <1>5, <4>1 DEF Under
      <4> QED BY <1>3, <3>1, <4>3, <4>4 DEF Under
    <3>2. CASE j.c # c
      BY <1>1, <1>6, <2>2, <3>2 DEF Waits, Under
    <3> QED BY <3>1, <3>2
  <2>4. (Waits(j.it, j.c) /\ Under(Out(j.c), j.it)
            /\ Under(conn[j.c].mPendingBuffers, j.it))'
    BY <1>2, <1>6, <2>2, <2>3 DEF Under
  <2> QED BY <2>1, <2>3, <2>4
<1>10. \A k \in 1..Len(ready'), l \in 1..Len(ready') :
          ready'[k].kind = "send" /\ ready'[l].kind = "send" /\ k < l
             => ready'[k].it < ready'[l].it
  BY <1>1 DEF SendInv
<1> QED BY <1>1, <1>8, <1>9, <1>10 DEF SendInv

\* Old responses are to other calls than r, the new ones to r.
LEMMA ServedMsg ==
    ASSUME TypeInv, MsgInv, NEW c, NEW r, NEW rs, NEW s, Served(c, r, rs, s)
    PROVE  MsgInv'
<1>1. /\ Conns' = Conns /\ Reqs' = Reqs
      /\ \A q \in Reqs : q # r => said'[q] = said[q]
      /\ \A q \in Reqs : said[q] \in Codes => q # r
  BY ServedFacts
<1>2. UNCHANGED <<calls, refused, answers, ready>>
  BY DEF Served
<1>3. \A m, x : MsgOK(m, x) => MsgOK(m, x)'
  BY <1>1, <1>2 DEF MsgOK
<1>4. \A it, of, st : Own(it, of, st) => Own(it, of, st)'
  BY <1>1, <1>2 DEF Own, Answered, Id
<1>5. ASSUME NEW k \in 1..Len(rs) PROVE MsgOK(rs[k], c)'
  <2>1. /\ rs \in Seq(Msg) /\ s \in Codes /\ rs[k].of = r
        /\ rs[k].raw = Swap16(s)
        /\ calls[r].kind \notin {"Get", "Stat"} =>
              rs[k].shape \in {"empty", "value"}
    BY DEF Served, AnswersTo
  <2>2. rs # <<>>
    BY NoElement
  <2>3. r \in Reqs /\ calls[r].c = c /\ said'[r] = s
    BY <2>2 DEF Served
  <2> QED BY <1>1, <1>2, <2>1, <2>3 DEF MsgOK
<1>6. \A k \in 1..Len(conn'[c].resp) :
         \/ k \in 1..Len(conn[c].resp) /\ conn'[c].resp[k] = conn[c].resp[k]
         \/ \E i \in 1..Len(rs) : conn'[c].resp[k] = rs[i]
  <2>1. conn[c].resp \in Seq(Msg) /\ rs \in Seq(Msg)
        /\ conn'[c].resp = conn[c].resp \o rs
    BY DEF Served, AnswersTo
  <2>2. Queued(conn[c].resp, 0, rs, conn'[c].resp)
    BY <2>1, QueuedConcat
  <2>3. Len(conn[c].resp) \in Nat
    BY <2>1, LenProperties
  <2>4. PICK p, t : p = conn[c].resp /\ t = conn'[c].resp
    OBVIOUS
  <2>5. ASSUME NEW k \in 1..Len(t)
        PROVE  \/ k \in 1..Len(p) /\ t[k] = p[k]
               \/ \E i \in 1..Len(rs) : t[k] = rs[i]
    <3>1. \/ k \in 1..(Len(p) - 0) /\ k + 0 \in 1..Len(p) /\ t[k] = p[k + 0]
          \/ k - (Len(p) - 0) \in 1..Len(rs) /\ t[k] = rs[k - (Len(p) - 0)]
      BY <2>2, <2>4 DEF Queued
    <3> QED BY <2>3, <2>4, <3>1
  <2> QED BY <2>4, <2>5
<1>7. ASSUME NEW x \in Conns
      PROVE  (/\ conn[x].rop = "body" => MsgOK(conn[x].msg, x)
              /\ \A k \in 1..Len(conn[x].resp) : MsgOK(conn[x].resp[k], x))'
  <2>1. conn'[x].rop = conn[x].rop /\ conn'[x].msg = conn[x].msg
    BY DEF Served
  <2>2. (conn[x].rop = "body" => MsgOK(conn[x].msg, x))'
    BY <1>3, <2>1 DEF MsgInv
  <2>3. ASSUME NEW k \in 1..Len(conn'[x].resp)
        PROVE  MsgOK(conn[x].resp[k], x)'
    <3>1. PICK m : m = conn'[x].resp[k]
      OBVIOUS
    <3>2. CASE x = c
      <4>1. CASE k \in 1..Len(conn[c].resp) /\ m = conn[c].resp[k]
        BY <1>3, <3>1, <3>2, <4>1 DEF MsgInv
      <4>2. CASE \E i \in 1..Len(rs) : m = rs[i]
        BY <1>5, <3>1, <3>2, <4>2
      <4> QED BY <1>6, <3>1, <3>2, <4>1, <4>2
    <3>3. CASE x # c
      <4>1. conn'[x] = conn[x]
        BY <3>3 DEF Served
      <4> QED BY <1>3, <4>1 DEF MsgInv
    <3> QED BY <3>2, <3>3
  <2> QED BY <2>2, <2>3
<1>8. ASSUME NEW k \in 1..Len(ready')
      PROVE  (LET j == ready[k]
              IN  /\ Reading(j) => MsgOK(j.msg, j.c)
                  /\ j.kind = "finish" =>
                        j.it \in Reqs /\ Own(j.it, j.msg.of, j.msg.raw))'
  <2>1. PICK j : j = ready'[k] /\ j = ready[k]
    BY <1>2
  <2>2. /\ Reading(j) => MsgOK(j.msg, j.c)
        /\ j.kind = "finish" => j.it \in Reqs /\ Own(j.it, j.msg.of, j.msg.raw)
    BY <1>2, <2>1 DEF MsgInv
  <2> QED BY <1>1, <1>3, <1>4, <2>1, <2>2 DEF Reading
<1>9. ASSUME NEW q \in 1..MaxCalls, NEW k \in 1..Len(answers'[q])
      PROVE  Own(q, answers[q][k].of, answers[q][k].st)'
  BY <1>2, <1>4 DEF MsgInv
<1> QED BY <1>1, <1>7, <1>8, <1>9 DEF MsgInv

LEMMA ServedOp ==
    ASSUME TypeInv, OpInv, AlignInv, FreshInv,
           NEW c, NEW r, NEW rs, NEW s, Served(c, r, rs, s)
    PROVE  OpInv' /\ AlignInv' /\ FreshInv'
<1>1. Conns' = Conns /\ Reqs' = Reqs
  BY ServedFacts
<1>2. /\ UNCHANGED <<calls, mRequests, refused, mServers, ready>>
      /\ Len(conn') = Len(conn)
      /\ \A x \in Conns :
            /\ conn'[x].mWriteBuffers = conn[x].mWriteBuffers
            /\ conn'[x].wop = conn[x].wop /\ conn'[x].rop = conn[x].rop
            /\ conn'[x].fit = conn[x].fit
  BY DEF Served
<1>3. \A k \in 1..Len(ready) :
         ReadJob(ready[k]) \/ ready[k].kind = "write" => ready[k].c \in Conns
  BY DEF TypeInv, Shaped, ReadJob
<1>4. OpInv'
  BY <1>1, <1>2, <1>3 DEF OpInv, ReadJob
<1>5. AlignInv'
  BY <1>1, <1>2 DEF AlignInv, Calm, Called, Removed, Reused
<1>6. FreshInv'
  BY <1>2 DEF FreshInv, Fresh, Called, Removed, Reused, Reading, Id
<1> QED BY <1>4, <1>5, <1>6

LEMMA ServedWay ==
    ASSUME TypeInv, SendInv, WayInv, NEW c, NEW r, NEW rs, NEW s,
           Served(c, r, rs, s)
    PROVE  WayInv'
<1>1. /\ UNCHANGED <<calls, mRequests, mServers, ready>>
      /\ c \in Conns /\ r \in Reqs
      /\ \A x \in Conns : x # c => conn'[x] = conn[x]
  BY DEF Served
<1>2. \A q : Posted(q)' = Posted(q)
  BY <1>1 DEF Posted
<1>3. \A q \in Reqs : q # r => said'[q] = said[q]
  BY ServedFacts
<1>4. ASSUME NEW q, q # r, Holds(conn[c], q) PROVE Holds(conn'[c], q)
  <2>1. PICK w, t, p : w = conn[c].wire /\ t = Tail(w) /\ p = conn[c].resp
    OBVIOUS
  <2>2. /\ w \in Seq(Nat) /\ w # <<>> /\ w[1] = r /\ conn'[c].wire = t
        /\ p \in Seq(Msg) /\ rs \in Seq(Msg) /\ conn'[c].resp = p \o rs
    BY <2>1 DEF Served, AnswersTo
  <2>3. Incr(w)
    BY <1>1, <2>1 DEF SendInv, Line
  <2>4. Among(q, w) => Among(q, t)
    BY <1>4, <2>1, <2>2, <2>3, WireLeft
  <2>5. \A k \in 1..Len(p) : /\ k \in 1..Len(conn'[c].resp)
                             /\ conn'[c].resp[k] = p[k]
    <3>1. Queued(p, 0, rs, conn'[c].resp) /\ Len(p) \in Nat
      BY <2>2, QueuedConcat, LenProperties
    <3> QED BY <3>1 DEF Queued
  <2>6. /\ conn'[c].mPendingBuffers = conn[c].mPendingBuffers
        /\ conn'[c].mWriteBuffers = conn[c].mWriteBuffers
        /\ conn'[c].wop = conn[c].wop /\ conn'[c].rop = conn[c].rop
        /\ conn'[c].msg = conn[c].msg
        /\ conn'[c].swallowed = conn[c].swallowed
    BY DEF Served
  <2>7. CASE \E k \in 1..Len(p) : p[k].of = q
    BY <2>5, <2>7 DEF Holds
  <2> QED BY <1>4, <2>1, <2>2, <2>4, <2>6, <2>7 DEF Holds
<1>5. said'[r] = Silent \/ Holds(conn'[c], r)
  <2>1. CASE rs = <<>>
    BY <2>1 DEF Served
  <2>2. CASE rs # <<>>
    <3>1. /\ rs \in Seq(Msg) /\ conn[c].resp \in Seq(Msg)
          /\ conn'[c].resp = conn[c].resp \o rs
          /\ \A k \in 1..Len(rs) : rs[k].of = r
      BY DEF Served, AnswersTo
    <3>2. 1 \in 1..Len(rs) /\ rs[1].of = r
      BY <2>2, <3>1, SeqFacts
    <3>3. Queued(conn[c].resp, 0, rs, conn'[c].resp)
      BY <3>1, QueuedConcat
    <3>4. \E k \in 1..Len(conn'[c].resp) : conn'[c].resp[k].of = r
      BY <3>2, <3>3 DEF Queued
    <3> QED BY <3>4 DEF Holds
  <2> QED BY <2>1, <2>2
<1>6. ASSUME NEW q \in mRequests,
             calls[q].c \in mServers, said[q] = Silent \/ Underway(q, calls[q].c)
      PROVE  (said[q] = Silent \/ Underway(q, calls[q].c))'
  <2>0. PICK x : x = calls[q].c /\ x \in Conns /\ q \in Reqs
    BY <1>6 DEF TypeInv
  <2>1. CASE q = r
    <3>1. x = c
      BY <2>0, <2>1 DEF Served
    <3>2. said'[q] = Silent \/ Underway(q, x)'
      BY <1>5, <2>1, <3>1 DEF Underway, Holds, Among
    <3> QED BY <1>1, <2>0, <3>2
  <2>2. CASE q # r /\ said[q] = Silent
    BY <1>3, <2>0, <2>2
  <2>3. CASE q # r /\ Underway(q, x)
    <3>1. CASE \E k \in 1..Len(ready) : ready[k].c = x /\ Carries(ready[k], q)
      <4>1. Underway(q, x)'
        BY <1>1, <3>1 DEF Underway, Carries, Reading
      <4> QED BY <1>1, <2>0, <4>1
    <3>2. CASE Holds(conn[x], q)
      <4>1. Holds(conn'[x], q)
        BY <1>1, <1>4, <2>0, <2>3, <3>2
      <4>2. Underway(q, x)'
        BY <4>1 DEF Underway, Holds, Among
      <4> QED BY <1>1, <2>0, <4>2
    <3> QED BY <2>3, <3>1, <3>2 DEF Underway
  <2> QED BY <1>6, <2>0, <2>1, <2>2, <2>3
<1> QED BY <1>1, <1>2, <1>6 DEF WayInv

\* At most one response to each call, and none to one already answered.
LEMMA ServedOne ==
    ASSUME TypeInv, MsgInv, OneInv, NEW c, NEW r, NEW rs, NEW s,
           Served(c, r, rs, s)
    PROVE  OneInv'
<1>1. /\ Conns' = Conns /\ Reqs' = Reqs
      /\ \A q \in Reqs : q # r => said'[q] = said[q]
      /\ \A q \in Reqs : said[q] \in Codes => q # r
      /\ Unsaid \notin Codes /\ Silent \notin Codes
  BY ServedFacts
<1>2. /\ UNCHANGED <<calls, mRequests, refused, mServers, ready>>
      /\ Len(conn') = Len(conn) /\ c \in mServers /\ c \in Conns /\ r \in Reqs
      /\ calls[r].c = c /\ said[r] = Unsaid
      /\ \A x \in Conns : x # c => conn'[x] = conn[x]
      /\ \A x \in Conns :
            conn'[x].rop = conn[x].rop /\ conn'[x].msg = conn[x].msg
  BY DEF Served
<1>3. (Calm' <=> Calm) /\ \A q : Alive(q)' <=> Alive(q)
  BY <1>2 DEF Calm, Called, Removed, Reused, Alive, Posted
<1> SUFFICES ASSUME Calm
             PROVE  OneInv'
  BY <1>3 DEF OneInv
<1>4. Alive(r) /\ calls[r].kind # "Stat"
  BY <1>2 DEF OneInv, Calm, Called, Reqs
<1>5. Unsaid # Silent /\ said'[r] # Unsaid
  <2>1. Unsaid # Silent
    BY DEF Unsaid, Silent
  <2>2. said'[r] = Silent \/ (said'[r] = s /\ s \in Codes)
    BY DEF Served, AnswersTo
  <2> QED BY <1>1, <2>1, <2>2
<1>6. \A q \in Reqs : calls[q].c \in mServers /\ said'[q] = Unsaid => Alive(q)
  BY <1>1, <1>5 DEF OneInv
<1>7. PICK p, t : p = conn[c].resp /\ t = conn'[c].resp
  OBVIOUS
<1>8. /\ Len(p) \in Nat /\ Len(rs) \in Nat /\ Len(rs) <= 1
      /\ Len(t) = Len(p) + Len(rs)
      /\ \A k \in 1..Len(t) :
            \/ k \in 1..Len(p) /\ t[k] = p[k]
            \/ k = Len(p) + 1 /\ t[k].of = r
  <2>1. /\ p \in Seq(Msg) /\ rs \in Seq(Msg) /\ t = p \o rs
        /\ Len(rs) <= 1 /\ \A k \in 1..Len(rs) : rs[k].of = r
    BY <1>4, <1>7 DEF Served, AnswersTo
  <2>2. Queued(p, 0, rs, t) /\ Len(p) \in Nat /\ Len(rs) \in Nat
    BY <2>1, QueuedConcat, LenProperties
  <2>3. ASSUME NEW k \in 1..Len(t)
        PROVE  \/ k \in 1..Len(p) /\ t[k] = p[k]
               \/ k = Len(p) + 1 /\ t[k].of = r
    <3>1. \/ k \in 1..(Len(p) - 0) /\ k + 0 \in 1..Len(p) /\ t[k] = p[k + 0]
          \/ k - (Len(p) - 0) \in 1..Len(rs) /\ t[k] = rs[k - (Len(p) - 0)]
      BY <2>2 DEF Queued
    <3>2. CASE k \in 1..(Len(p) - 0) /\ k + 0 \in 1..Len(p) /\ t[k] = p[k + 0]
      BY <2>2, <3>2
    <3>3. CASE k - (Len(p) - 0) \in 1..Len(rs) /\ t[k] = rs[k - (Len(p) - 0)]
      <4>1. t[k].of = r
        BY <2>1, <3>3
      <4>2. k = Len(p) + 1
        BY <2>1, <2>2, <3>3
      <4> QED BY <4>1, <4>2
    <3> QED BY <3>1, <3>2, <3>3
  <2>4. Len(t) = Len(p) + Len(rs)
    BY <2>2 DEF Queued
  <2> QED BY <2>1, <2>2, <2>3, <2>4
<1>9. \A m, x : MsgOK(m, x) => m.of # r
  BY <1>1 DEF MsgOK
<1>10. /\ \A i \in 1..Len(p) :
             /\ Alive(p[i].of) /\ p[i].of # r
             /\ \A j \in 1..Len(p) : i # j => p[i].of # p[j].of
       /\ conn[c].rop = "body" =>
             /\ Alive(conn[c].msg.of) /\ conn[c].msg.of # r
             /\ \A i \in 1..Len(p) : p[i].of # conn[c].msg.of
  BY <1>2, <1>7, <1>9 DEF OneInv, MsgInv
<1>11. \A i \in 1..Len(t) :
          /\ Alive(t[i].of)
          /\ \A j \in 1..Len(t) : i # j => t[i].of # t[j].of
  <2>1. ASSUME NEW i \in 1..Len(t) PROVE Alive(t[i].of)
    BY <1>4, <1>8, <1>10
  <2>2. ASSUME NEW i \in 1..Len(t), NEW j \in 1..Len(t), i # j
        PROVE  t[i].of # t[j].of
    BY <1>8, <1>10, <2>2
  <2> QED BY <2>1, <2>2
<1>12. conn[c].rop = "body" =>
          Alive(conn[c].msg.of) /\ \A i \in 1..Len(t) : t[i].of # conn[c].msg.of
  BY <1>8, <1>10
<1>13. ASSUME NEW x \in mServers
       PROVE  (/\ \A i \in 1..Len(conn[x].resp) :
                     /\ Alive(conn[x].resp[i].of)
                     /\ \A j \in 1..Len(conn[x].resp) :
                           i # j => conn[x].resp[i].of # conn[x].resp[j].of
               /\ conn[x].rop = "body" =>
                     /\ Alive(conn[x].msg.of)
                     /\ \A i \in 1..Len(conn[x].resp) :
                           conn[x].resp[i].of # conn[x].msg.of)'
  <2>0. x \in Conns
    BY DEF TypeInv
  <2>1. CASE x = c
    BY <1>2, <1>3, <1>7, <1>11, <1>12, <2>1
  <2>2. CASE x # c
    <3>1. conn'[x] = conn[x]
      BY <1>2, <2>0, <2>2
    <3> QED BY <1>3, <3>1 DEF OneInv
  <2> QED BY <2>1, <2>2
<1>14. ASSUME NEW k \in 1..Len(ready), Reading(ready[k]), ready[k].c \in mServers
       PROVE  /\ Alive(ready[k].msg.of)
              /\ \A i \in 1..Len(conn'[ready[k].c].resp) :
                    conn'[ready[k].c].resp[i].of # ready[k].msg.of
  <2>1. /\ Alive(ready[k].msg.of) /\ MsgOK(ready[k].msg, ready[k].c)
        /\ ready[k].c \in Conns
        /\ \A i \in 1..Len(conn[ready[k].c].resp) :
              conn[ready[k].c].resp[i].of # ready[k].msg.of
    BY <1>14 DEF OneInv, MsgInv, TypeInv
  <2>2. CASE ready[k].c = c
    <3>1. ready[k].msg.of # r
      BY <1>9, <2>1
    <3>2. \A i \in 1..Len(t) : t[i].of # ready[k].msg.of
      BY <1>7, <1>8, <2>1, <2>2, <3>1
    <3> QED BY <1>7, <2>1, <2>2, <3>2
  <2>3. CASE ready[k].c # c
    BY <1>2, <2>1, <2>3
  <2> QED BY <2>2, <2>3
<1>15. (\A k \in 1..Len(ready) :
           Reading(ready[k]) /\ ready[k].c \in mServers =>
              /\ Alive(ready[k].msg.of)
              /\ \A i \in 1..Len(conn[ready[k].c].resp) :
                    conn[ready[k].c].resp[i].of # ready[k].msg.of)'
  BY <1>2, <1>3, <1>14 DEF Reading
<1>16. (\A q \in Reqs : calls[q].c \in mServers /\ said[q] = Unsaid => Alive(q))'
  BY <1>1, <1>2, <1>3, <1>6
<1> QED BY <1>2, <1>13, <1>15, <1>16 DEF OneInv

LEMMA ServeStep ==
    ASSUME IInv, fault = "none", NEW c \in mServers, Serve(c)
    PROVE  IInv'
<1>1. PICK r, rs, s : Served(c, r, rs, s)
  BY ServeServed
<1>2. /\ TypeInv' /\ TableInv' /\ SendInv' /\ MsgInv' /\ OpInv' /\ WayInv'
      /\ OneInv' /\ AlignInv' /\ FreshInv'
  BY <1>1, ServedType, ServedSend, ServedMsg, ServedOp, ServedWay, ServedOne
     DEF IInv
<1>3. fault' = "none"
  BY <1>1 DEF Served
<1> QED BY <1>2, <1>3, Gather

-----------------------------------------------------------------------------
(* The remaining undefined behaviours.                                     *)

\* A handler runs whose connection is gone.
LEMMA FreedStep ==
    ASSUME IInv, ready # <<>>, Head(ready).kind # "finish",
           Head(ready).c \notin mServers, Faulty("freed_client")
    PROVE  IInv'
<1>1. 1 \in 1..Len(ready) /\ Head(ready) = ready[1]
  BY Typed DEF IInv
<1>2. Head(ready).c \in Conns
  BY <1>1 DEF IInv, TypeInv, Shaped
<1>3. Removed # {}
  BY <1>2 DEF Removed, Conns
<1> QED BY <1>3, FaultStep

\* Servers.Get(key) finds no server, though one was added.
LEMMA NullStep ==
    ASSUME IInv, conn # <<>>, mServers = {}, Faulty("null_server")
    PROVE  IInv'
<1>1. 1 \in 1..Len(conn)
  BY SeqFacts DEF IInv, TypeInv
<1>2. Removed # {}
  BY <1>1 DEF Removed
<1> QED BY <1>2, FaultStep

\* A header is read from a wrong position.
LEMMA DesyncStep ==
    ASSUME IInv, NEW c \in mServers, conn[c].fit = "short", Faulty("desync")
    PROVE  IInv'
<1>1. c \in Conns
  BY DEF IInv, TypeInv
<1>2. ~(Calm /\ ~Called({"Get"}))
  BY <1>1 DEF IInv, AlignInv
<1>3. Called({"Get"}) \/ Called({"Stat"}) => Called({"Get", "Stat"})
  BY DEF Called
<1>4. refused # {} \/ Called({"Get", "Stat"}) \/ (Removed # {} /\ Reused)
  BY <1>2, <1>3 DEF Calm
<1> QED BY <1>4, FaultStep

LEMMA OverflowStep ==
    ASSUME IInv, Faulty("heap_overflow")
    PROVE  IInv'
BY FaultStep

-----------------------------------------------------------------------------
(* The invariant.                                                          *)

LEMMA InitIInv ==
    ASSUME Init
    PROVE  IInv
<1>1. /\ Len(calls) = 0 /\ Len(conn) = 0 /\ Len(ready) = 0
      /\ Reqs = {} /\ Conns = {} /\ Removed = {}
      /\ \A k \in 1..Len(ready) : FALSE
  BY NoElement DEF Init, Reqs, Conns, Removed
<1>2. \A r \in 1..MaxCalls : Len(answers[r]) = 0
  BY NoElement DEF Init
<1>3. TypeInv
  <2>1. calls \in Seq(CallRec) /\ conn \in Seq(ConnRec) /\ ready \in Seq(JobRec)
    BY EmptySeq DEF Init
  <2>2. answers \in [1..MaxCalls -> Seq([of : Nat, st : Nat])]
    <3>1. <<>> \in Seq([of : Nat, st : Nat])
      BY EmptySeq
    <3> QED BY <3>1, Zenon DEF Init
  <2>3. /\ said \in [1..MaxCalls -> Codes \cup {Unsaid, Silent}]
        /\ \A r \in 1..MaxCalls : said[r] = Unsaid
    BY DEF Init
  <2> QED BY <1>1, <2>1, <2>2, <2>3, ClientAssumption DEF Init, TypeInv
<1>4. TableInv /\ WayInv
  BY <1>1 DEF Init, TableInv, WayInv
<1>5. SendInv /\ OpInv
  BY <1>1 DEF SendInv, OpInv
<1>6. MsgInv
  BY <1>1, <1>2 DEF MsgInv
<1>7. OneInv /\ AlignInv /\ FreshInv
  BY <1>1 DEF Init, OneInv, AlignInv, FreshInv
<1>8. FaultsExplained
  BY DEF Init, FaultsExplained
<1> QED BY <1>3, <1>4, <1>5, <1>6, <1>7, <1>8 DEF IInv

LEMMA CallStep ==
    ASSUME IInv, fault = "none", NEW kind, Keyed(kind) \/ Direct(kind)
    PROVE  IInv'
<1>1. kind \in AllKinds /\ Len(calls) < MaxCalls /\ conn # <<>>
  BY ClientAssumption DEF Keyed, Direct, May
<1>2. CASE \E c \in mServers : Issue(kind, c)
  BY <1>1, <1>2, IssueStep
<1>3. CASE mServers = {} /\ Faulty("null_server")
  BY <1>1, <1>3, NullStep
<1> QED BY <1>2, <1>3 DEF Keyed, Direct

LEMMA RunReadyStep ==
    ASSUME IInv, fault = "none", RunReady
    PROVE  IInv'
<1> DEFINE j == Head(ready)
<1>0. ready # <<>>
  BY DEF RunReady
<1>1. CASE j.kind = "finish" /\ RunFinish(j)
  <2>1. CASE j.it \in mRequests
    BY <1>0, <1>1, <2>1, RunFinishStep
  <2>2. CASE j.it \notin mRequests
    BY <1>0, <1>1, <2>2, DanglingStep DEF RunFinish
  <2> QED BY <2>1, <2>2
<1>2. CASE j.kind # "finish" /\ j.c \notin mServers /\ Faulty("freed_client")
  BY <1>0, <1>2, FreedStep
<1>3. CASE j.c \in mServers /\ j.kind = "send" /\ RunSend(j)
  BY <1>0, <1>3, RunSendStep
<1>4. CASE j.c \in mServers /\ j.kind = "write" /\ RunWrite(j)
  <2>1. CASE j.ok
    BY <1>0, <1>4, <2>1, RunWriteStep
  <2>2. CASE ~j.ok
    BY <1>0, <1>4, <2>2, ErrorStep DEF RunWrite
  <2> QED BY <2>1, <2>2
<1>5. CASE j.c \in mServers /\ j.kind = "connect" /\ RunConnect(j)
  <2>1. CASE j.ok
    BY <1>0, <1>5, <2>1, RunConnectStep
  <2>2. CASE ~j.ok
    BY <1>0, <1>5, <2>2, ErrorStep DEF RunConnect
  <2> QED BY <2>1, <2>2
<1>6. CASE j.c \in mServers /\ j.kind = "header" /\ RunHeader(j)
  <2>1. CASE j.ok
    BY <1>0, <1>6, <2>1, RunHeaderStep
  <2>2. CASE ~j.ok
    BY <1>0, <1>6, <2>2, ErrorStep DEF RunHeader
  <2> QED BY <2>1, <2>2
<1>7. CASE j.c \in mServers /\ j.kind = "body" /\ RunBody(j)
  <2>1. CASE j.ok
    BY <1>0, <1>7, <2>1, RunBodyStep
  <2>2. CASE ~j.ok
    BY <1>0, <1>7, <2>2, ErrorStep DEF RunBody
  <2> QED BY <2>1, <2>2
<1> QED BY <1>1, <1>2, <1>3, <1>4, <1>5, <1>6, <1>7 DEF RunReady

LEMMA NextIInv ==
    ASSUME IInv, [Next]_vars
    PROVE  IInv'
<1>1. CASE UNCHANGED vars
  <2>1. /\ fault' = fault
        /\ UNCHANGED <<calls, mRequests, refused, conn, mServers, ready,
                       answers, said>>
    BY <1>1 DEF vars
  <2>2. Faulty(fault)
    BY <2>1 DEF Faulty
  <2> QED BY <2>2, FaultStep DEF IInv, FaultsExplained
<1> SUFFICES ASSUME Next
             PROVE  IInv'
  BY <1>1
<1>0. fault = "none"
  BY DEF Next
<1>2. CASE AddServer
  BY <1>0, <1>2, AddConnStep DEF AddServer
<1>3. CASE AddServerThrows
  BY <1>0, <1>3, AddConnStep DEF AddServerThrows
<1>4. CASE RemoveByUser
  BY <1>0, <1>4, RemoveByUserStep
<1>5. CASE Get \/ Store \/ SelfOp \/ Append_ \/ Delete
  BY <1>0, <1>5, CallStep DEF Get, Store, SelfOp, Append_, Delete
<1>6. CASE Flush \/ Version
  BY <1>0, <1>6, CallStep DEF Flush, Version
<1>7. CASE Stat
  BY <1>0, <1>7, CallStep, OverflowStep DEF Stat
<1>8. CASE RunReady
  BY <1>0, <1>8, RunReadyStep
<1>9. ASSUME NEW c \in mServers,
             \/ ConnectEnds(c) \/ WriteDone(c) \/ WriteFails(c)
             \/ HeaderArrives(c) \/ SwallowResponse(c) \/ BodyArrives(c)
             \/ ReadFails(c) \/ Serve(c)
      PROVE  IInv'
  <2>1. CASE ConnectEnds(c)
    BY <1>0, <2>1, ConnectEndsStep
  <2>2. CASE WriteDone(c) \/ WriteFails(c)
    BY <1>0, <2>2, WriteEndsStep DEF WriteEnds
  <2>3. CASE HeaderArrives(c)
    <3>1. CASE conn[c].fit = "fits"
      BY <1>0, <2>3, <3>1, HeaderArrivesStep
    <3>2. CASE conn[c].fit = "short"
      BY <2>3, <3>2, DesyncStep DEF HeaderArrives
    <3> QED BY <2>3, <3>1, <3>2 DEF HeaderArrives
  <2>4. CASE BodyArrives(c)
    BY <1>0, <2>4, BodyArrivesStep
  <2>5. CASE ReadFails(c)
    BY <1>0, <2>5, ReadFailsStep
  <2>6. CASE Serve(c)
    BY <1>0, <2>6, ServeStep
  <2>7. CASE SwallowResponse(c)
    BY <1>0, <2>7, SwallowResponseStep
  <2> QED BY <1>9, <2>1, <2>2, <2>3, <2>4, <2>5, <2>6, <2>7
<1> QED BY <1>2, <1>3, <1>4, <1>5, <1>6, <1>7, <1>8, <1>9 DEF Next

\* The inductive invariant: the table, the requests on their way, the
\* responses and the handlers of MemcachedClient.cpp, TcpClient.cpp and
\* ServerList.cpp stay related as IInv says, whatever the application calls
\* and the network does.
THEOREM ClientInvariant == Spec => []IInv
<1>1. Init => IInv
  BY InitIInv
<1>2. IInv /\ [Next]_vars => IInv'
  BY NextIInv
<1> QED BY <1>1, <1>2, PTL DEF Spec

\* Every answer a call gets is its own, apart from the collisions of ids
\* OwnAnswer lists: for any number of servers, calls and ids, and under loss
\* of servers.
THEOREM AnswersAreOwn == Spec => []OwnAnswer
<1>1. IInv => OwnAnswer
  BY DEF IInv, MsgInv, Own, OwnAnswer
<1> QED BY <1>1, ClientInvariant, PTL

\* The status a caller sees is the server's with its bytes swapped
\* (AdjustEndian converts it twice).
THEOREM StatusesSwapped == Spec => []StatusSwapped
<1>1. IInv => StatusSwapped
  BY DEF IInv, MsgInv, Own, StatusSwapped
<1> QED BY <1>1, ClientInvariant, PTL

\* No request in mRequests is forgotten: a lambda that finishes it is posted,
\* or it is under way on a listed connection, or the server is silent on it,
\* or its response went into the buffer of a Get (TcpClient::ReadBody).
THEOREM NoneOrphaned == Spec => []NoOrphan
<1>1. ASSUME IInv, NEW r \in mRequests, NEW c, Underway(r, c)
      PROVE  Travelling(r, c) \/ r \in conn[c].swallowed
  BY <1>1 DEF Underway, Holds, Carries, Among, Reading, Travelling
<1>2. IInv => NoOrphan
  BY <1>1 DEF IInv, WayInv, NoOrphan, Swallowed
<1> QED BY <1>2, ClientInvariant, PTL

\* Undefined behaviour is met only with a reason: an answered request for the
\* end iterator, a lost server for the freed objects, and so on.
THEOREM FaultsHaveReasons == Spec => []FaultsExplained
<1>1. IInv => FaultsExplained
  BY DEF IInv
<1> QED BY <1>1, ClientInvariant, PTL

-----------------------------------------------------------------------------
(* What follows from it.                                                   *)

\* A call is answered at most once, and is out of the table from then on.
OnceInv ==
    \A r \in 1..MaxCalls :
       /\ Len(answers[r]) <= 1
       /\ Answered(r) => r \in Reqs /\ r \notin mRequests

\* Only the lambda of FinishRequest answers or erases, only a call enters.
LEMMA AnswerSteps ==
    ASSUME Next
    PROVE  \/ UNCHANGED <<calls, mRequests, answers>>
           \/ \E kind, c : Issue(kind, c)
           \/ ready # <<>> /\ Head(ready).kind = "finish" /\ RunFinish(Head(ready))
<1> USE DEF Faulty, Rest
<1>1. \A c, b, a, l : RemoveServer(c, b, a, l) =>
         UNCHANGED <<calls, mRequests, answers>>
  BY DEF RemoveServer
<1>2. CASE AddServer \/ AddServerThrows \/ RemoveByUser
  BY <1>1, <1>2 DEF AddServer, AddServerThrows, AddConn, RemoveByUser
<1>3. CASE Get \/ Store \/ SelfOp \/ Append_ \/ Delete \/ Flush \/ Stat \/ Version
  <2>1. ASSUME NEW kind, Keyed(kind) \/ Direct(kind)
        PROVE  UNCHANGED <<calls, mRequests, answers>> \/ \E c : Issue(kind, c)
    BY <2>1 DEF Keyed, Direct
  <2>2. CASE Get \/ Store \/ SelfOp \/ Append_ \/ Delete
    BY <2>1, <2>2 DEF Get, Store, SelfOp, Append_, Delete
  <2>3. CASE Flush \/ Version \/ Stat
    BY <2>1, <2>3 DEF Flush, Version, Stat
  <2> QED BY <1>3, <2>2, <2>3
<1>4. CASE RunReady
  <2> DEFINE j == Head(ready)
  <2>1. CASE j.kind = "send" /\ RunSend(j)
    BY <2>1 DEF RunSend
  <2>2. \A c : ConnectError(c) \/ Close4Error(c) =>
                  UNCHANGED <<calls, mRequests, answers>>
    BY <1>1 DEF ConnectError, Close4Error, OnError
  <2>3. CASE j.kind = "write" /\ RunWrite(j)
    BY <2>2, <2>3 DEF RunWrite
  <2>4. CASE j.kind = "connect" /\ RunConnect(j)
    BY <2>2, <2>4 DEF RunConnect
  <2>5. CASE j.kind = "header" /\ RunHeader(j)
    BY <2>2, <2>5 DEF RunHeader
  <2>6. CASE j.kind = "body" /\ RunBody(j)
    BY <2>2, <2>6 DEF RunBody
  <2>7. CASE Faulty("freed_client")
    BY <2>7
  <2> QED BY <1>4, <2>1, <2>3, <2>4, <2>5, <2>6, <2>7 DEF RunReady
<1>5. ASSUME NEW c \in mServers,
             \/ ConnectEnds(c) \/ WriteDone(c) \/ WriteFails(c)
             \/ HeaderArrives(c) \/ SwallowResponse(c) \/ BodyArrives(c)
             \/ ReadFails(c) \/ Serve(c)
      PROVE  UNCHANGED <<calls, mRequests, answers>>
  BY <1>5 DEF ConnectEnds, WriteDone, WriteFails, HeaderArrives,
              SwallowResponse, BodyArrives, ReadFails, Serve, Completes
<1> QED BY <1>2, <1>3, <1>4, <1>5 DEF Next

LEMMA NextOnce ==
    ASSUME TypeInv, TypeInv', OnceInv, [Next]_vars
    PROVE  OnceInv'
<1>1. CASE UNCHANGED <<calls, mRequests, answers>>
  BY <1>1 DEF OnceInv, Answered, Reqs
<1>2. ASSUME NEW kind, NEW c, Issue(kind, c) PROVE OnceInv'
  <2> DEFINE n == Len(calls)
  <2>1. /\ \E rec : calls' = Append(calls, rec)
        /\ mRequests' \subseteq mRequests \cup {n + 1}
        /\ answers' = answers
    BY <1>2 DEF Issue
  <2>2. n \in Nat /\ Reqs = 1..n
    BY Typed DEF Reqs
  <2>3. Len(calls') = n + 1
    BY <2>1, AppendProperties DEF TypeInv
  <2>4. Reqs' = 1..(n + 1)
    BY <2>3 DEF Reqs
  <2> HIDE DEF n
  <2>5. Reqs \subseteq Reqs' /\ n + 1 \notin Reqs
    BY <2>2, <2>4
  <2> QED BY <2>1, <2>5 DEF OnceInv, Answered
<1>3. CASE ready # <<>> /\ Head(ready).kind = "finish" /\ RunFinish(Head(ready))
  <2>1. PICK j, a : /\ j = Head(ready)
                    /\ a = [of |-> j.msg.of, st |-> j.msg.raw]
    OBVIOUS
  <2>2. CASE j.it \in mRequests
    <3>1. /\ answers' = [answers EXCEPT ![j.it] = Append(@, a)]
          /\ mRequests' = mRequests \ {j.it} /\ calls' = calls
      BY <1>3, <2>1, <2>2 DEF RunFinish
    <3>2. j.it \in Reqs /\ j.it \in 1..MaxCalls
      BY <2>2, Typed DEF TypeInv
    <3>3. answers[j.it] = <<>>
      BY <2>2, <3>2 DEF OnceInv, Answered
    <3>4. answers'[j.it] = Append(<<>>, a)
      BY <3>1, <3>2, <3>3 DEF TypeInv
    <3>5. Len(answers'[j.it]) = 1
      BY <3>4
    <3>6. \A r \in 1..MaxCalls : r # j.it => answers'[r] = answers[r]
      BY <3>1 DEF TypeInv
    <3>7. ASSUME NEW r \in 1..MaxCalls
          PROVE  (/\ Len(answers[r]) <= 1
                  /\ Answered(r) => r \in Reqs /\ r \notin mRequests)'
      <4>1. CASE r = j.it
        <5>1. Len(answers'[r]) = 1 /\ 1 <= 1
          BY <3>5, <4>1
        <5>2. r \in Reqs' /\ r \notin mRequests'
          BY <3>1, <3>2, <4>1 DEF Reqs
        <5> QED BY <5>1, <5>2
      <4>2. CASE r # j.it
        <5>1. answers'[r] = answers[r] /\ Reqs' = Reqs
          BY <3>1, <3>6, <4>2 DEF Reqs
        <5>2. r \notin mRequests => r \notin mRequests'
          BY <3>1
        <5> QED BY <5>1, <5>2 DEF OnceInv, Answered
      <4> QED BY <4>1, <4>2
    <3> QED BY <3>7 DEF OnceInv
  <2>3. CASE j.it \notin mRequests
    BY <1>1, <1>3, <2>1, <2>3 DEF RunFinish, Faulty
  <2> QED BY <2>2, <2>3
<1>4. CASE UNCHANGED vars
  BY <1>1, <1>4 DEF vars
<1> QED BY <1>1, <1>2, <1>3, <1>4, AnswerSteps

\* No call is answered twice (its callback runs once at most), though the
\* same entry may be finished by a response, by the loss of its server and
\* by a call with its id: the first lambda erases the entry, a second one is
\* undefined behaviour and not a second answer.
THEOREM AnsweredOnce == Spec => []OnceInv
<1>1. Init => OnceInv
  <2>1. ASSUME Init, NEW r \in 1..MaxCalls PROVE answers[r] = <<>>
    BY <2>1 DEF Init
  <2> QED BY <2>1, NoElement DEF OnceInv, Answered
<1>2. IInv /\ IInv' /\ OnceInv /\ [Next]_vars => OnceInv'
  BY NextOnce DEF IInv
<1> QED BY <1>1, <1>2, ClientInvariant, PTL DEF Spec

\* As long as an application makes no more calls than there are ids, every
\* answer is its own without exception, under every loss of servers.
THEOREM OwnWithoutReuse ==
    ASSUME MaxCalls <= IdSpace
    PROVE  Spec => [](\A r \in 1..MaxCalls : \A k \in 1..Len(answers[r]) :
                         answers[r][k].of = r)
<1>1. ASSUME NEW r \in 1..MaxCalls, NEW q \in 1..MaxCalls, Id(r) = Id(q)
      PROVE  r = q
  <2>1. (r - 1) % IdSpace = r - 1 /\ (q - 1) % IdSpace = q - 1
    BY ClientAssumption
  <2> QED BY <1>1, <2>1 DEF Id
<1>2. ASSUME IInv, NEW r \in 1..MaxCalls, NEW k \in 1..Len(answers[r])
      PROVE  answers[r][k].of = r
  <2>1. PICK of : of = answers[r][k].of
    OBVIOUS
  <2>2. of \in Reqs /\ (of = r \/ Id(of) = Id(r))
    BY <1>2, <2>1 DEF IInv, MsgInv, Own
  <2>3. of \in 1..MaxCalls
    BY <1>2, <2>2, Typed DEF IInv
  <2> QED BY <1>1, <2>1, <2>2, <2>3
<1>3. IInv => \A r \in 1..MaxCalls : \A k \in 1..Len(answers[r]) :
                 answers[r][k].of = r
  BY <1>2
<1> QED BY <1>3, ClientInvariant, PTL
=============================================================================
