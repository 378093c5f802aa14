-------------------------- MODULE TcpClientProofs --------------------------
(***************************************************************************)
(* Proofs about TcpClient for any number of buffers, any vector length and *)
(* any number of Close calls.                                              *)
(***************************************************************************)
EXTENDS TcpClient, SequenceTheorems, TLAPS

-----------------------------------------------------------------------------
(* The inductive invariant.                                                *)

\* Number of buffers whose Send lambda has run.
Taken == IF posted = <<>> THEN issued ELSE posted[1].first - 1

\* Number of buffers handed to an async_write so far.
Handed == Taken - Len(mPendingBuffers)

\* The buffers captured by the waiting lambdas are consecutive and end with
\* the last buffer given to Send.
Chain ==
    /\ posted # <<>> => posted[Len(posted)].last = issued
    /\ \A k \in 1..Len(posted) :
          /\ posted[k].first >= 1 /\ posted[k].last <= issued
          /\ posted[k].op = "send" => posted[k].first <= posted[k].last
          /\ posted[k].op = "close" => posted[k].first = posted[k].last + 1
    /\ \A k \in 1..Len(posted) :
          k > 1 => posted[k].first = posted[k - 1].last + 1

\* mPendingBuffers continues where the buffers handed to async_write end.
PendingChain ==
    /\ Len(mPendingBuffers) <= Taken
    /\ \A i \in 1..Len(mPendingBuffers) : mPendingBuffers[i] = Handed + i

\* The write in progress has the last buffers handed over.
WriteChain ==
    \A w \in writes :
       /\ Len(w.bufs) <= Handed
       /\ w.sent <= Len(w.bufs)
       /\ \A i \in 1..Len(w.bufs) : w.bufs[i] = Handed - Len(w.bufs) + i
       /\ w.st = "ok" => w.sent = Len(w.bufs)

Usable == sock \notin {"failed", "closed"}

\* As long as the socket is usable nothing handed over was dropped.
WireChain ==
    Usable => /\ writes = {} => Len(wire) = Handed
              /\ \A w \in writes : Len(wire) = Handed - Len(w.bufs) + w.sent

\* Which states of the connect operation and of the socket go together.
ConnectInv ==
    /\ sock = "new" => connect = "none"
    /\ connect = "none" => sock \in {"new", "closed"}
    /\ connect = "pending" <=> sock = "connecting"
    /\ connect = "ok" => sock \in {"open", "closed"}
    /\ connect = "error" => sock \in {"failed", "closed"}
    /\ sock = "new" => /\ posted = <<>> /\ mPendingBuffers = <<>>
                       /\ writes = {} /\ issued = 0
    /\ connect # "done" => reads = <<>>
    /\ errors > 0 => ~Usable

IInv == /\ TypeOK /\ Chain /\ PendingChain /\ WriteChain /\ WireChain
        /\ ConnectInv /\ InOrder /\ BusyFlag /\ NoStall /\ ReadLoopAlive

-----------------------------------------------------------------------------
(* Facts about the helpers.                                                *)

\* Taking the only outstanding operation out leaves none.
LEMMA WithoutOnly ==
    ASSUME NEW S, NEW s \in Seq(S), Len(s) <= 1, NEW i \in 1..Len(s)
    PROVE  Without(s, i) = <<>> /\ i = 1 /\ Len(s) = 1
<1>0. Len(s) \in Nat
  BY LenProperties
<1>1. i = 1 /\ Len(s) = 1
  <2>1. \A n \in Nat : n <= 1 => \A j \in 1..n : j = 1 /\ n = 1
    OBVIOUS
  <2> QED BY <1>0, <2>1
<1>2. SubSeq(s, 1, 0) = <<>> /\ SubSeq(s, 2, 1) = <<>>
  BY SubSeqEmpty
<1>3. <<>> \o <<>> = <<>>
  BY EmptySeq, ConcatEmptySeq
<1> QED BY <1>1, <1>2, <1>3 DEF Without

\* Closing the socket changes the status of reads, not their number.
LEMMA AbortReads ==
    ASSUME NEW rs \in Seq(ReadOp)
    PROVE  LET a == [i \in 1..Len(rs) |-> Aborted(rs[i])]
           IN  a \in Seq(ReadOp) /\ Len(a) = Len(rs)
<1> DEFINE a == [i \in 1..Len(rs) |-> Aborted(rs[i])]
<1>1. Len(rs) \in Nat
  BY LenProperties
<1>2. \A i \in 1..Len(rs) : Aborted(rs[i]) \in ReadOp
  <2> TAKE i \in 1..Len(rs)
  <2>1. rs[i] \in ReadOp
    BY ElementOfSeq
  <2> QED BY <2>1 DEF Aborted, ReadOp, OpStatus
<1>3. a \in Seq(ReadOp)
  BY <1>1, <1>2, IsASeq
<1>4. Len(a) = Len(rs)
  BY <1>1, <1>3, LenProperties
<1> QED BY <1>3, <1>4

\* The buffers a Send lambda appends.
LEMMA CapturedProps ==
    ASSUME NEW p \in PostedOp, p.first <= p.last
    PROVE  /\ Captured(p) \in Seq(Nat)
           /\ Len(Captured(p)) = p.last - p.first + 1
           /\ \A k \in 1..Len(Captured(p)) : Captured(p)[k] = p.first + k - 1
<1> DEFINE n == p.last - p.first + 1
<1>0. p.first \in Nat /\ p.last \in Nat /\ n \in Nat
  BY DEF PostedOp
<1>1. \A k \in 1..n : p.first + k - 1 \in Nat
  BY <1>0
<1>2. Captured(p) \in Seq(Nat)
  BY <1>0, <1>1, IsASeq DEF Captured
<1>3. DOMAIN Captured(p) = 1..n
  BY DEF Captured
<1>4. Len(Captured(p)) = n
  BY <1>0, <1>2, <1>3, LenProperties
<1>5. \A k \in 1..n : Captured(p)[k] = p.first + k - 1
  BY DEF Captured
<1> QED BY <1>2, <1>4, <1>5

\* Aborting a write keeps its buffers and what was transmitted of them.
LEMMA AbortWrites ==
    ASSUME NEW ws \in SUBSET WriteOp
    PROVE  LET a == {Aborted(w) : w \in ws}
           IN  /\ a \subseteq WriteOp
               /\ a = {} <=> ws = {}
               /\ \A v \in a : \E w \in ws :
                     /\ v = Aborted(w)
                     /\ v.bufs = w.bufs /\ v.sent = w.sent
                     /\ v.st = "ok" => w.st = "ok"
<1> DEFINE a == {Aborted(w) : w \in ws}
<1>1. \A w \in ws : /\ Aborted(w) \in WriteOp
                    /\ Aborted(w).bufs = w.bufs
                    /\ Aborted(w).sent = w.sent
                    /\ Aborted(w).st = "ok" => w.st = "ok"
  BY DEF Aborted, WriteOp, OpStatus
<1>2. a = {} <=> ws = {}
  OBVIOUS
<1> QED BY <1>1, <1>2

-----------------------------------------------------------------------------
(* One lemma per action: it preserves the inductive invariant.             *)

\* The constructed object satisfies the invariant.
LEMMA InitIInv == Init => IInv
<1> SUFFICES ASSUME Init PROVE IInv
  OBVIOUS
<1>0. /\ Len(posted) = 0 /\ Len(mPendingBuffers) = 0
      /\ Len(wire) = 0 /\ Len(reads) = 0
  BY EmptySeq DEF Init
<1>1. TypeOK
  BY EmptySeq DEF Init, TypeOK
<1>2. Taken = 0
  BY DEF Init, Taken
<1>3. Handed = 0
  BY <1>0, <1>2 DEF Handed
<1>4. Chain
  BY <1>0 DEF Init, Chain
<1>5. PendingChain
  BY <1>0, <1>2, <1>3 DEF PendingChain
<1>6. WriteChain /\ WireChain
  BY <1>0, <1>3 DEF Init, WriteChain, WireChain
<1>7. ConnectInv /\ BusyFlag /\ NoStall
  BY DEF Init, ConnectInv, BusyFlag, NoStall, Usable
<1>8. InOrder /\ ReadLoopAlive
  BY <1>0 DEF Init, InOrder, ReadLoopAlive
<1> QED BY <1>1, <1>4, <1>5, <1>6, <1>7, <1>8 DEF IInv

\* Connect starts the one connect operation, or throws.
LEMMA ConnectStep == IInv /\ Connect => IInv'
<1> SUFFICES ASSUME IInv, Connect PROVE IInv'
  OBVIOUS
<1> USE DEF IInv, Connect
<1>1. TypeOK'
  BY DEF TypeOK
<1>2. Chain' /\ PendingChain' /\ WriteChain' /\ InOrder' /\ BusyFlag'
  BY DEF Chain, PendingChain, WriteChain, InOrder, BusyFlag, Taken, Handed
<1>3. WireChain' /\ ConnectInv' /\ NoStall' /\ ReadLoopAlive'
  BY DEF WireChain, ConnectInv, NoStall, ReadLoopAlive, Usable, Taken, Handed
<1> QED BY <1>1, <1>2, <1>3

\* A lambda for the buffers first..last is appended to the queue.
LEMMA PostStep ==
    ASSUME IInv, sock # "new",
           NEW p \in PostedOp,
           p.first = issued + 1,
           p.op = "send" => p.first <= p.last,
           p.op = "close" => p.first = p.last + 1,
           posted' = Append(posted, p),
           issued' = p.last,
           UNCHANGED <<mPendingBuffers, mWriteBuffers, writes, reads,
                       connect, sock, wire, errors>>
    PROVE  IInv'
<1>0. /\ posted \in Seq(PostedOp)
      /\ issued \in Nat /\ p.last \in Nat
  BY DEF IInv, TypeOK, PostedOp
<1>1. /\ posted' \in Seq(PostedOp)
      /\ posted' # <<>>
      /\ Len(posted') = Len(posted) + 1
      /\ \A i \in 1..Len(posted) : posted'[i] = posted[i]
      /\ posted'[Len(posted) + 1] = p
      /\ Len(posted) \in Nat
      /\ posted = <<>> => Len(posted) = 0
      /\ posted # <<>> => Len(posted) >= 1
  BY <1>0, AppendProperties, LenProperties, EmptySeq
<1>2. TypeOK'
  BY <1>0, <1>1 DEF IInv, TypeOK
<1>3. Taken' = Taken
  BY <1>0, <1>1 DEF Taken
<1>4. Chain'
  <2>1. posted'[Len(posted')].last = issued'
    BY <1>1
  <2>2. \A k \in 1..Len(posted') :
          /\ posted'[k].first >= 1 /\ posted'[k].last <= issued'
          /\ posted'[k].op = "send" => posted'[k].first <= posted'[k].last
          /\ posted'[k].op = "close" => posted'[k].first = posted'[k].last + 1
    <3> TAKE k \in 1..Len(posted')
    <3>0. issued <= issued'
      BY <1>0 DEF PostedOp
    <3>1. CASE k \in 1..Len(posted)
      <4>1. posted'[k] = posted[k] /\ posted[k] \in PostedOp
        BY <3>1, <1>0, <1>1, ElementOfSeq
      <4>2. posted[k].last <= issued'
        BY <3>0, <3>1, <4>1, <1>0 DEF IInv, Chain, PostedOp
      <4> QED BY <3>1, <4>1, <4>2 DEF IInv, Chain
    <3>2. CASE k = Len(posted) + 1
      BY <3>2, <1>0, <1>1
    <3> QED BY <3>1, <3>2, <1>1
  <2>3. \A k \in 1..Len(posted') :
          k > 1 => posted'[k].first = posted'[k - 1].last + 1
    <3> SUFFICES ASSUME NEW k \in 1..Len(posted'), k > 1
                 PROVE  posted'[k].first = posted'[k - 1].last + 1
      OBVIOUS
    <3>0. k - 1 \in 1..Len(posted)
      BY <1>1
    <3>1. CASE k \in 1..Len(posted)
      BY <3>0, <3>1, <1>1 DEF IInv, Chain
    <3>2. CASE k = Len(posted) + 1
      <4>1. posted # <<>> /\ posted[Len(posted)].last = issued
        BY <3>0, <1>1 DEF IInv, Chain
      <4> QED BY <3>0, <3>2, <4>1, <1>1
    <3> QED BY <3>1, <3>2, <1>1
  <2> QED BY <2>1, <2>2, <2>3 DEF Chain
<1>5. PendingChain' /\ WriteChain' /\ WireChain'
  BY <1>3 DEF IInv, PendingChain, WriteChain, WireChain, Handed, Usable
<1>6. ConnectInv' /\ InOrder' /\ BusyFlag' /\ NoStall' /\ ReadLoopAlive'
  BY DEF IInv, ConnectInv, InOrder, BusyFlag, NoStall, ReadLoopAlive, Usable
<1> QED BY <1>2, <1>4, <1>5, <1>6 DEF IInv

\* Either Send posts a lambda for the next buffers.
LEMMA SendStep ==
    ASSUME IInv, NEW n \in Nat \ {0}, PostSend(n)
    PROVE  IInv'
<1> DEFINE p == [op |-> "send", first |-> issued + 1, last |-> issued + n]
<1>0. issued \in Nat
  BY DEF IInv, TypeOK
<1>1. /\ p \in PostedOp
      /\ p.op = "send" /\ p.first = issued + 1 /\ p.last = issued + n
      /\ p.first <= p.last
  BY <1>0 DEF PostedOp
<1>2. /\ sock # "new" /\ posted' = Append(posted, p) /\ issued' = p.last
      /\ UNCHANGED <<mPendingBuffers, mWriteBuffers, writes, reads,
                     connect, sock, wire, errors>>
  BY DEF PostSend
<1> HIDE DEF p
<1> QED BY <1>1, <1>2, PostStep

\* Close posts a lambda that captures no buffer.
LEMMA CloseStep == IInv /\ Close => IInv'
<1> SUFFICES ASSUME IInv, Close PROVE IInv'
  OBVIOUS
<1> DEFINE p == [op |-> "close", first |-> issued + 1, last |-> issued]
<1>0. issued \in Nat
  BY DEF IInv, TypeOK
<1>1. /\ p \in PostedOp
      /\ p.op = "close" /\ p.first = issued + 1 /\ p.last = issued
      /\ p.first = p.last + 1
  BY <1>0 DEF PostedOp
<1>2. /\ sock # "new" /\ posted' = Append(posted, p) /\ issued' = p.last
      /\ UNCHANGED <<mPendingBuffers, mWriteBuffers, writes, reads,
                     connect, sock, wire, errors>>
  BY DEF Close
<1> HIDE DEF p
<1> QED BY <1>1, <1>2, PostStep

\* The socket is closed; ws and rs are the operations left.  Used by the
\* Close lambda and by every handler that ends in Close4Error.
LEMMA CloseSocketStep ==
    ASSUME IInv,
           NEW ws \in SUBSET writes, NEW rs \in Seq(ReadOp), Len(rs) <= 1,
           connect # "done" => rs = <<>>,
           CloseSocket(ws, rs),
           errors' \in Nat,
           posted' \in Seq(PostedOp), Chain', Taken' = Taken,
           mWriteBuffers' \in Seq(Nat),
           ws = {} => mWriteBuffers' = <<>>,
           ws # {} => mWriteBuffers' = mWriteBuffers,
           UNCHANGED <<mPendingBuffers, issued, wire>>
    PROVE  IInv'
<1> DEFINE aw == {Aborted(w) : w \in ws}
           ar == [i \in 1..Len(rs) |-> Aborted(rs[i])]
<1>1. /\ sock' = "closed"
      /\ connect' = IF connect = "pending" THEN "error" ELSE connect
      /\ writes' = aw /\ reads' = ar
  BY DEF CloseSocket
<1>2. /\ aw \subseteq WriteOp
      /\ aw = {} <=> ws = {}
      /\ \A v \in aw : \E w \in ws : /\ v = Aborted(w)
                                     /\ v.bufs = w.bufs /\ v.sent = w.sent
                                     /\ v.st = "ok" => w.st = "ok"
  <2>1. ws \in SUBSET WriteOp
    BY DEF IInv, TypeOK
  <2> HIDE DEF aw
  <2> QED BY <2>1, AbortWrites DEF aw
<1>3. ar \in Seq(ReadOp) /\ Len(ar) = Len(rs)
  BY AbortReads
<1>4. rs = <<>> => ar = <<>>
  <2>1. Len(ar) \in Nat /\ (Len(ar) = 0 => ar = <<>>)
    BY <1>3, LenProperties, EmptySeq
  <2> QED BY <2>1, <1>3, EmptySeq
<1> HIDE DEF aw, ar
<1>5. TypeOK'
  BY <1>1, <1>2, <1>3 DEF IInv, TypeOK
<1>6. Handed' = Handed
  BY DEF Handed
<1>7. PendingChain'
  BY <1>6 DEF IInv, PendingChain
<1>8. WriteChain'
  BY <1>1, <1>2, <1>6 DEF IInv, WriteChain
<1>9. WireChain' /\ NoStall'
  BY <1>1 DEF WireChain, NoStall, Usable
<1>10. ConnectInv'
  BY <1>1, <1>4 DEF IInv, ConnectInv, TypeOK, Usable
<1>11. InOrder'
  BY DEF IInv, InOrder
<1>12. BusyFlag'
  <2>1. mWriteBuffers' = <<>> <=> writes' = {}
    BY <1>1, <1>2 DEF IInv, BusyFlag
  <2>2. \A v \in writes' : v.bufs = mWriteBuffers'
    BY <1>1, <1>2 DEF IInv, BusyFlag
  <2>3. \A v, w \in writes' : v = w
    BY <1>1, <1>2 DEF IInv, BusyFlag
  <2> QED BY <2>1, <2>2, <2>3 DEF BusyFlag
<1>13. ReadLoopAlive'
  BY <1>1, <1>3 DEF ReadLoopAlive
<1> QED BY <1>5, <1>7, <1>8, <1>9, <1>10, <1>11, <1>12, <1>13 DEF IInv

\* What taking the oldest lambda off the queue does to the chain.
LEMMA TailChain ==
    ASSUME IInv, posted # <<>>, posted' = Tail(posted), UNCHANGED issued
    PROVE  /\ posted' \in Seq(PostedOp)
           /\ Head(posted) \in PostedOp
           /\ Head(posted).first = Taken + 1
           /\ Head(posted).op = "send" => Head(posted).first <= Head(posted).last
           /\ Head(posted).op = "close" =>
                  Head(posted).first = Head(posted).last + 1
           /\ Chain'
           /\ Taken' = Head(posted).last
<1> DEFINE h == Head(posted)
<1>0. posted \in Seq(PostedOp) /\ issued \in Nat
  BY DEF IInv, TypeOK
<1>1. /\ h \in PostedOp /\ posted' \in Seq(PostedOp)
      /\ Len(posted') = Len(posted) - 1
      /\ \A i \in 1..Len(posted') : posted'[i] = posted[i + 1]
      /\ Len(posted) \in Nat /\ Len(posted) >= 1
  BY <1>0, HeadTailProperties, EmptySeq
<1>2. h = posted[1] /\ 1 \in 1..Len(posted) /\ posted[1] \in PostedOp
  BY <1>0, <1>1
<1>3. /\ h.first \in Nat /\ h.last \in Nat /\ h.first = Taken + 1
      /\ h.op = "send" => h.first <= h.last
      /\ h.op = "close" => h.first = h.last + 1
  BY <1>0, <1>1, <1>2 DEF IInv, Chain, Taken, PostedOp
<1>4. posted' = <<>> <=> Len(posted) = 1
  <2>1. Len(<<>>) = 0 /\ (posted' # <<>> => Len(posted') >= 1)
    BY <1>1, EmptySeq
  <2>2. posted' = <<>> => Len(posted') = 0
    BY <2>1, Zenon
  <2>3. Len(posted') = 0 <=> Len(posted) = 1
    BY <1>1
  <2>4. posted' # <<>> => Len(posted') # 0
    BY <2>1, <1>1
  <2> QED BY <2>2, <2>3, <2>4, Zenon
<1>5. Chain'
  <2>1. posted' # <<>> => posted'[Len(posted')].last = issued'
    BY <1>1, <1>4 DEF IInv, Chain
  <2>2. \A k \in 1..Len(posted') :
          /\ posted'[k].first >= 1 /\ posted'[k].last <= issued'
          /\ posted'[k].op = "send" => posted'[k].first <= posted'[k].last
          /\ posted'[k].op = "close" => posted'[k].first = posted'[k].last + 1
    BY <1>1 DEF IInv, Chain
  <2>3. \A k \in 1..Len(posted') :
          k > 1 => posted'[k].first = posted'[k - 1].last + 1
    <3> SUFFICES ASSUME NEW k \in 1..Len(posted'), k > 1
                 PROVE  posted'[k].first = posted'[k - 1].last + 1
      OBVIOUS
    <3>1. /\ k + 1 \in 1..Len(posted) /\ k + 1 > 1 /\ (k + 1) - 1 = k
          /\ k - 1 \in 1..Len(posted') /\ (k - 1) + 1 = k
      BY <1>1
    <3>2. posted'[k] = posted[k + 1] /\ posted'[k - 1] = posted[k]
      BY <1>1, <3>1
    <3>3. posted[k + 1].first = posted[k].last + 1
      BY <3>1 DEF IInv, Chain
    <3> QED BY <3>2, <3>3
  <2> QED BY <2>1, <2>2, <2>3 DEF Chain
<1>6. Taken' = h.last
  <2>1. CASE posted' = <<>>
    BY <2>1, <1>0, <1>2, <1>4 DEF IInv, Chain, Taken
  <2>2. CASE posted' # <<>>
    <3>1. 2 \in 1..Len(posted) /\ posted'[1] = posted[2]
      BY <2>2, <1>1, <1>4
    <3>2. posted[2].first = posted[1].last + 1
      BY <3>1 DEF IInv, Chain
    <3>3. Taken' = posted'[1].first - 1
      BY <2>2 DEF Taken
    <3> QED BY <3>1, <3>2, <3>3, <1>2, <1>3
  <2> QED BY <2>1, <2>2
<1> QED BY <1>1, <1>3, <1>5, <1>6

\* Private Send() on the buffers that follow the ones handed over so far,
\* when no write is outstanding.
LEMMA StartWriteStep ==
    ASSUME IInv, sock # "new",
           NEW pend \in Seq(Nat), pend # <<>>,
           Usable => Len(wire) = Handed,
           Taken' \in Nat, Handed \in Nat, Taken' - Len(pend) = Handed,
           \A i \in 1..Len(pend) : pend[i] = Handed + i,
           posted' \in Seq(PostedOp), Chain',
           StartWrite(pend, {}),
           UNCHANGED <<reads, connect, sock, issued, wire, errors>>
    PROVE  IInv'
<1> DEFINE nw == [bufs |-> pend, sent |-> 0, st |-> StartStatus]
<1>0. Len(pend) \in Nat /\ Len(pend) >= 1
  BY EmptySeq
<1>1. /\ mWriteBuffers' = pend /\ mPendingBuffers' = <<>> /\ writes' = {nw}
  BY DEF StartWrite
<1>2. /\ nw \in WriteOp /\ nw.bufs = pend /\ nw.sent = 0 /\ nw.st # "ok"
  BY DEF StartStatus, WriteOp, OpStatus
<1> HIDE DEF nw
<1>3. Len(mPendingBuffers') = 0 /\ mPendingBuffers' \in Seq(Nat)
  BY <1>1, EmptySeq
<1>4. Handed' = Taken'
  <2>1. Handed' = Taken' - Len(mPendingBuffers')
    BY DEF Handed
  <2>2. \A n \in Nat : n - 0 = n
    OBVIOUS
  <2> QED BY <2>1, <2>2, <1>3, Zenon
<1>5. TypeOK'
  BY <1>1, <1>2, <1>3 DEF IInv, TypeOK
<1>6. PendingChain'
  BY <1>3 DEF PendingChain
<1>7. WriteChain'
  BY <1>0, <1>1, <1>2, <1>4 DEF WriteChain
<1>8. WireChain'
  <2>1. Usable' <=> Usable
    BY DEF Usable
  <2> QED BY <1>0, <1>1, <1>2, <1>4, <2>1 DEF WireChain
<1>9. ConnectInv'
  BY DEF IInv, ConnectInv, Usable
<1>10. InOrder' /\ ReadLoopAlive'
  BY DEF IInv, InOrder, ReadLoopAlive
<1>11. BusyFlag'
  BY <1>1, <1>2 DEF BusyFlag
<1>12. NoStall'
  BY <1>1 DEF NoStall
<1> QED BY <1>5, <1>6, <1>7, <1>8, <1>9, <1>10, <1>11, <1>12 DEF IInv

\* The Send lambda: starts a write, or leaves its buffers pending.
LEMMA RunSendStep ==
    ASSUME IInv, posted # <<>>, posted' = Tail(posted), UNCHANGED issued,
           Head(posted).op = "send", RunSend(Head(posted))
    PROVE  IInv'
<1> DEFINE h == Head(posted)
           pend == mPendingBuffers \o Captured(h)
<1>1. /\ posted' \in Seq(PostedOp) /\ h \in PostedOp
      /\ h.first = Taken + 1 /\ h.first <= h.last
      /\ Chain' /\ Taken' = h.last
  BY TailChain
<1>2. /\ h.first \in Nat /\ h.last \in Nat /\ Taken \in Nat
      /\ mPendingBuffers \in Seq(Nat) /\ Len(mPendingBuffers) \in Nat
      /\ Len(mPendingBuffers) <= Taken
      /\ Handed \in Nat /\ Handed = Taken - Len(mPendingBuffers)
  <2>1. h.first \in Nat /\ h.last \in Nat
    BY <1>1 DEF PostedOp
  <2>2. posted[1] \in PostedOp /\ posted[1].first >= 1
    BY HeadTailProperties, EmptySeq, ElementOfSeq DEF IInv, TypeOK, Chain
  <2>3. Taken \in Nat
    BY <2>2 DEF Taken, PostedOp
  <2>4. mPendingBuffers \in Seq(Nat) /\ Len(mPendingBuffers) \in Nat
    BY LenProperties DEF IInv, TypeOK
  <2>5. Len(mPendingBuffers) <= Taken
    BY DEF IInv, PendingChain
  <2> QED BY <2>1, <2>3, <2>4, <2>5 DEF Handed
<1>3. /\ Captured(h) \in Seq(Nat)
      /\ Len(Captured(h)) = h.last - h.first + 1
      /\ \A k \in 1..Len(Captured(h)) : Captured(h)[k] = h.first + k - 1
  BY <1>1, CapturedProps
<1> HIDE DEF h
<1>4. /\ pend \in Seq(Nat)
      /\ Len(pend) = Len(mPendingBuffers) + Len(Captured(h))
      /\ \A i \in 1..(Len(mPendingBuffers) + Len(Captured(h))) :
            pend[i] = IF i <= Len(mPendingBuffers) THEN mPendingBuffers[i]
                      ELSE Captured(h)[i - Len(mPendingBuffers)]
  BY <1>2, <1>3, ConcatProperties
<1> HIDE DEF pend
<1>5. /\ Len(pend) \in Nat /\ Len(pend) >= 1
      /\ Taken' \in Nat /\ Taken' - Len(pend) = Handed
      /\ Len(Captured(h)) \in Nat
  <2>1. /\ Len(Captured(h)) = h.last - h.first + 1
        /\ Len(pend) = Len(mPendingBuffers) + Len(Captured(h))
        /\ h.first = Taken + 1 /\ h.first <= h.last /\ Taken' = h.last
    BY <1>1, <1>3, <1>4
  <2>2. Len(Captured(h)) \in Nat /\ Len(Captured(h)) >= 1
    BY <2>1, <1>2
  <2>3. Len(pend) \in Nat /\ Len(pend) >= 1
    BY <2>1, <2>2, <1>2
  <2>4. Taken' \in Nat /\ Taken' - Len(pend) = Handed
    BY <2>1, <2>2, <1>2
  <2> QED BY <2>2, <2>3, <2>4
<1>6. pend # <<>>
  BY <1>5, EmptySeq
<1>7. \A i \in 1..Len(pend) : pend[i] = Handed + i
  <2> TAKE i \in 1..Len(pend)
  <2>1. CASE i <= Len(mPendingBuffers)
    BY <2>1, <1>2, <1>4 DEF IInv, PendingChain
  <2>2. CASE i > Len(mPendingBuffers)
    <3>1. i - Len(mPendingBuffers) \in 1..Len(Captured(h))
      <4>1. Len(pend) = Len(mPendingBuffers) + Len(Captured(h))
        BY <1>4
      <4> QED BY <2>2, <4>1, <1>2, <1>5
    <3>2. pend[i] = h.first + (i - Len(mPendingBuffers)) - 1
      BY <2>2, <3>1, <1>2, <1>3, <1>4
    <3> QED BY <3>2, <1>1, <1>2
  <2> QED BY <2>1, <2>2, <1>2
<1>8. /\ sock # "new"
      /\ UNCHANGED <<reads, connect, sock, issued, wire, errors>>
  BY DEF IInv, ConnectInv, RunSend
<1>9. CASE mWriteBuffers = <<>>
  <2>1. writes = {} /\ StartWrite(pend, {})
    BY <1>9 DEF IInv, BusyFlag, RunSend, pend, h
  <2>2. Usable => Len(wire) = Handed
    BY <2>1 DEF IInv, WireChain
  <2> QED BY <2>1, <2>2, <1>1, <1>2, <1>4, <1>5, <1>6, <1>7, <1>8,
             StartWriteStep
<1>10. CASE mWriteBuffers # <<>>
  <2>1. mPendingBuffers' = pend /\ UNCHANGED <<mWriteBuffers, writes>>
    BY <1>10 DEF RunSend, pend, h
  <2>2. Handed' = Handed
    BY <2>1, <1>5 DEF Handed
  <2>3. TypeOK'
    BY <2>1, <1>1, <1>4, <1>8 DEF IInv, TypeOK
  <2>4. PendingChain'
    BY <2>1, <2>2, <1>2, <1>5, <1>7 DEF PendingChain
  <2>5. WriteChain' /\ WireChain'
    BY <2>1, <2>2, <1>8 DEF IInv, WriteChain, WireChain, Usable
  <2>6. ConnectInv' /\ InOrder' /\ ReadLoopAlive'
    BY <1>8 DEF IInv, ConnectInv, InOrder, ReadLoopAlive, Usable
  <2>7. BusyFlag' /\ NoStall'
    BY <1>10, <2>1 DEF IInv, BusyFlag, NoStall
  <2> QED BY <2>3, <2>4, <2>5, <2>6, <2>7, <1>1 DEF IInv
<1> QED BY <1>9, <1>10

\* The oldest posted lambda runs.
LEMMA RunPostedStep == IInv /\ RunPosted => IInv'
<1> SUFFICES ASSUME IInv, RunPosted PROVE IInv'
  OBVIOUS
<1>1. /\ posted # <<>> /\ posted' = Tail(posted) /\ UNCHANGED issued
  BY DEF RunPosted
<1>2. CASE Head(posted).op = "send" /\ RunSend(Head(posted))
  BY <1>1, <1>2, RunSendStep
<1>3. CASE Head(posted).op = "close" /\ RunClose
  <2>1. /\ posted' \in Seq(PostedOp) /\ Head(posted) \in PostedOp
        /\ Head(posted).first = Taken + 1
        /\ Head(posted).first = Head(posted).last + 1
        /\ Chain' /\ Taken' = Head(posted).last
    BY <1>1, <1>3, TailChain
  <2>2. Taken' = Taken
    <3>1. posted[1] \in PostedOp /\ Taken = posted[1].first - 1
      BY <1>1, EmptySeq, ElementOfSeq DEF IInv, TypeOK, Taken
    <3> QED BY <2>1, <3>1 DEF PostedOp
  <2>3. /\ CloseSocket(writes, reads)
        /\ UNCHANGED <<mPendingBuffers, mWriteBuffers, wire, errors>>
    BY <1>3 DEF RunClose
  <2>4. /\ reads \in Seq(ReadOp) /\ Len(reads) <= 1
        /\ connect # "done" => reads = <<>>
        /\ errors' \in Nat /\ mWriteBuffers' \in Seq(Nat)
        /\ writes = {} => mWriteBuffers' = <<>>
        /\ writes \in SUBSET writes
    BY <1>1, <2>3
       DEF IInv, TypeOK, ConnectInv, ReadLoopAlive, BusyFlag
  <2> QED BY <1>1, <2>1, <2>2, <2>3, <2>4, CloseSocketStep
<1> QED BY <1>2, <1>3 DEF RunPosted

\* The queue is untouched: what a handler may rely on.
LEMMA QuietQueue ==
    ASSUME IInv, UNCHANGED <<posted, issued>>
    PROVE  /\ posted' \in Seq(PostedOp) /\ Chain' /\ Taken' = Taken
           /\ posted # <<>> => posted[1] \in PostedOp
           /\ Taken \in Nat /\ Handed \in Nat
<1>1. posted' \in Seq(PostedOp) /\ Chain' /\ Taken' = Taken
  BY DEF IInv, TypeOK, Chain, Taken
<1>2. posted # <<>> => posted[1] \in PostedOp /\ posted[1].first >= 1
  <2> SUFFICES ASSUME posted # <<>>
               PROVE  posted[1] \in PostedOp /\ posted[1].first >= 1
    OBVIOUS
  <2>1. posted \in Seq(PostedOp) /\ 1 \in 1..Len(posted)
    BY EmptySeq DEF IInv, TypeOK
  <2> QED BY <2>1, ElementOfSeq DEF IInv, Chain
<1>3. Taken \in Nat
  BY <1>2 DEF IInv, TypeOK, Taken, PostedOp
<1>4. Handed \in Nat
  <2>1. Len(mPendingBuffers) \in Nat /\ Len(mPendingBuffers) <= Taken
    BY LenProperties DEF IInv, TypeOK, PendingChain
  <2> QED BY <1>3, <2>1 DEF Handed
<1> QED BY <1>1, <1>2, <1>3, <1>4

\* A read is started or taken out; the sending side is untouched.
LEMMA ReadSideStep ==
    ASSUME IInv,
           UNCHANGED <<posted, mPendingBuffers, mWriteBuffers, writes, sock,
                       issued, wire>>,
           reads' \in Seq(ReadOp), Len(reads') <= 1,
           connect' = "done", connect \in {"ok", "error", "done"},
           sock = "open" => Len(reads') = 1,
           errors' \in Nat, errors' > 0 => ~Usable
    PROVE  IInv'
<1>1. TypeOK'
  BY DEF IInv, TypeOK
<1>2. Chain' /\ PendingChain' /\ WriteChain' /\ WireChain'
  BY DEF IInv, Chain, PendingChain, WriteChain, WireChain, Taken, Handed,
         Usable
<1>3. ConnectInv'
  BY DEF IInv, ConnectInv, TypeOK, Usable
<1>4. InOrder' /\ BusyFlag' /\ NoStall'
  BY DEF IInv, InOrder, BusyFlag, NoStall
<1>5. ReadLoopAlive'
  BY DEF ReadLoopAlive
<1> QED BY <1>1, <1>2, <1>3, <1>4, <1>5 DEF IInv

\* Starting a read when none is outstanding.
LEMMA StartReadProps ==
    ASSUME NEW kind \in {"header", "body"}, StartRead(<<>>, kind)
    PROVE  reads' \in Seq(ReadOp) /\ Len(reads') = 1
<1>1. [kind |-> kind, st |-> StartStatus] \in ReadOp
  BY DEF ReadOp, StartStatus, OpStatus
<1>2. <<>> \in Seq(ReadOp) /\ Len(<<>>) = 0
  BY EmptySeq
<1>3. reads' = Append(<<>>, [kind |-> kind, st |-> StartStatus])
  BY DEF StartRead
<1>4. reads' \in Seq(ReadOp) /\ Len(reads') = Len(<<>>) + 1
  BY <1>1, <1>2, <1>3, AppendProperties
<1> QED BY <1>2, <1>4

\* The handler of async_connect starts the read loop or raises OnError.
LEMMA ConnectHandlerStep == IInv /\ ConnectHandler => IInv'
<1> SUFFICES ASSUME IInv, ConnectHandler PROVE IInv'
  OBVIOUS
<1>1. /\ connect \in {"ok", "error"} /\ connect' = "done"
      /\ UNCHANGED <<posted, mPendingBuffers, mWriteBuffers, writes, sock,
                     issued, wire>>
      /\ reads = <<>>
  BY DEF IInv, ConnectInv, ConnectHandler
<1>2. CASE connect = "ok" /\ StartRead(reads, "header") /\ UNCHANGED errors
  <2>1. reads' \in Seq(ReadOp) /\ Len(reads') = 1
    BY <1>1, <1>2, StartReadProps
  <2>2. errors' \in Nat /\ (errors' > 0 => ~Usable)
    BY <1>2 DEF IInv, TypeOK, ConnectInv
  <2> QED BY <1>1, <2>1, <2>2, ReadSideStep
<1>3. CASE connect = "error" /\ errors' = errors + 1 /\ UNCHANGED reads
  <2>1. sock \in {"failed", "closed"} /\ errors' \in Nat
    BY <1>3 DEF IInv, TypeOK, ConnectInv
  <2>2. reads' \in Seq(ReadOp) /\ Len(reads') = 0
    BY <1>1, <1>3, EmptySeq
  <2> QED BY <1>1, <2>1, <2>2, ReadSideStep DEF Usable
<1> QED BY <1>2, <1>3 DEF ConnectHandler

\* Close4Error out of the handler of the only read.
LEMMA ReadErrorStep ==
    ASSUME IInv, connect = "done", Close4Error(writes, <<>>),
           UNCHANGED <<posted, mPendingBuffers, mWriteBuffers, issued, wire>>
    PROVE  IInv'
<1>1. posted' \in Seq(PostedOp) /\ Chain' /\ Taken' = Taken
  BY QuietQueue
<1>2. /\ CloseSocket(writes, <<>>) /\ errors' \in Nat
  BY DEF Close4Error, IInv, TypeOK
<1>3. /\ <<>> \in Seq(ReadOp) /\ Len(<<>>) <= 1
      /\ mWriteBuffers' \in Seq(Nat) /\ writes \in SUBSET writes
      /\ writes = {} => mWriteBuffers' = <<>>
  BY EmptySeq DEF IInv, TypeOK, BusyFlag
<1> QED BY <1>1, <1>2, <1>3, CloseSocketStep

\* The handlers of the two reads go on reading or close the socket.
LEMMA ReadHandlerStep ==
    ASSUME IInv, NEW i \in 1..Len(reads), HeaderHandler(i) \/ BodyHandler(i)
    PROVE  IInv'
<1>1. /\ reads \in Seq(ReadOp) /\ Len(reads) <= 1
      /\ connect \in {"none", "pending", "ok", "error", "done"}
  BY DEF IInv, TypeOK, ReadLoopAlive
<1>2. Without(reads, i) = <<>> /\ Len(reads) = 1
  BY <1>1, WithoutOnly
<1>3. connect = "done"
  <2>1. reads # <<>>
    BY <1>2, EmptySeq
  <2> QED BY <2>1 DEF IInv, ConnectInv
<1>4. UNCHANGED <<posted, mPendingBuffers, mWriteBuffers, issued, wire>>
  BY DEF HeaderHandler, BodyHandler
<1>5. ASSUME NEW kind \in {"header", "body"}, StartRead(<<>>, kind),
             UNCHANGED <<writes, connect, sock, errors>>
      PROVE  IInv'
  <2>1. reads' \in Seq(ReadOp) /\ Len(reads') = 1
    BY <1>5, StartReadProps
  <2>2. errors' \in Nat /\ (errors' > 0 => ~Usable)
    BY <1>5 DEF IInv, TypeOK, ConnectInv
  <2> QED BY <1>3, <1>4, <1>5, <2>1, <2>2, ReadSideStep
<1>6. CASE Close4Error(writes, <<>>)
  BY <1>3, <1>4, <1>6, ReadErrorStep
<1>7. \/ Close4Error(writes, <<>>)
      \/ \E kind \in {"header", "body"} :
            /\ StartRead(<<>>, kind)
            /\ UNCHANGED <<writes, connect, sock, errors>>
  BY <1>2 DEF HeaderHandler, BodyHandler, HeaderOk
<1> QED BY <1>5, <1>6, <1>7

\* The handler of async_write goes on with the pending buffers, becomes
\* idle, or closes the socket.
LEMMA WriteHandlerStep ==
    ASSUME IInv, NEW w \in writes, WriteHandler(w)
    PROVE  IInv'
<1>1. /\ writes \ {w} = {} /\ w \in WriteOp /\ w.bufs = mWriteBuffers
  BY DEF IInv, BusyFlag, TypeOK
<1>2. UNCHANGED <<posted, issued, wire>>
  BY DEF WriteHandler
<1>3. /\ posted' \in Seq(PostedOp) /\ Chain' /\ Taken' = Taken
      /\ Taken \in Nat /\ Handed \in Nat
  BY <1>2, QuietQueue
<1>4. sock # "new"
  BY DEF IInv, ConnectInv
<1>5. ASSUME w.st = "ok", Usable PROVE Len(wire) = Handed
  <2>1. /\ w.sent = Len(w.bufs) /\ Len(wire) = Handed - Len(w.bufs) + w.sent
    BY <1>5 DEF IInv, WriteChain, WireChain
  <2>2. Len(w.bufs) \in Nat
    BY <1>1, LenProperties DEF WriteOp
  <2> QED BY <2>1, <2>2, <1>3
<1>6. CASE /\ w.st = "ok" /\ mPendingBuffers # <<>>
           /\ StartWrite(mPendingBuffers, writes \ {w})
           /\ UNCHANGED <<reads, connect, sock, errors>>
  <2>1. StartWrite(mPendingBuffers, {})
    BY <1>1, <1>6
  <2>2. /\ mPendingBuffers \in Seq(Nat) /\ Taken' - Len(mPendingBuffers) = Handed
        /\ \A i \in 1..Len(mPendingBuffers) : mPendingBuffers[i] = Handed + i
    BY <1>3 DEF IInv, TypeOK, PendingChain, Handed
  <2> QED BY <1>2, <1>3, <1>4, <1>5, <1>6, <2>1, <2>2, StartWriteStep
<1>7. CASE /\ w.st = "ok" /\ mPendingBuffers = <<>>
           /\ mWriteBuffers' = <<>>
           /\ writes' = writes \ {w}
           /\ UNCHANGED <<mPendingBuffers, reads, connect, sock, errors>>
  <2>1. writes' = {} /\ mWriteBuffers' \in Seq(Nat)
    BY <1>1, <1>7, EmptySeq
  <2>2. TypeOK'
    BY <1>2, <1>3, <1>7, <2>1 DEF IInv, TypeOK
  <2>3. Handed' = Handed
    BY <1>3, <1>7 DEF Handed
  <2>4. PendingChain'
    BY <1>3, <1>7, <2>3 DEF IInv, PendingChain
  <2>5. WriteChain' /\ WireChain'
    BY <1>2, <1>5, <1>7, <2>1, <2>3 DEF WriteChain, WireChain, Usable
  <2>6. ConnectInv' /\ InOrder' /\ ReadLoopAlive'
    BY <1>2, <1>7, <2>1 DEF IInv, ConnectInv, InOrder, ReadLoopAlive, Usable
  <2>7. BusyFlag' /\ NoStall'
    BY <1>7, <2>1 DEF BusyFlag, NoStall
  <2> QED BY <1>3, <2>2, <2>4, <2>5, <2>6, <2>7 DEF IInv
<1>8. CASE /\ w.st = "error"
           /\ mWriteBuffers' = <<>>
           /\ Close4Error(writes \ {w}, reads)
           /\ UNCHANGED mPendingBuffers
  <2>0. Close4Error({}, reads)
    BY <1>1, <1>8, Zenon
  <2>1. /\ CloseSocket({}, reads) /\ errors' \in Nat
    BY <2>0 DEF Close4Error, IInv, TypeOK
  <2>2. /\ reads \in Seq(ReadOp) /\ Len(reads) <= 1
        /\ connect # "done" => reads = <<>>
        /\ mWriteBuffers' \in Seq(Nat) /\ {} \in SUBSET writes
    BY <1>8, EmptySeq DEF IInv, TypeOK, ReadLoopAlive, ConnectInv
  <2> QED BY <1>2, <1>3, <1>4, <1>8, <2>1, <2>2, CloseSocketStep
<1> QED BY <1>6, <1>7, <1>8 DEF WriteHandler

\* async_connect ends.
LEMMA ConnectEndsStep == IInv /\ ConnectEnds => IInv'
<1> SUFFICES ASSUME IInv, ConnectEnds PROVE IInv'
  OBVIOUS
<1>1. /\ connect = "pending" /\ sock = "connecting"
      /\ \/ connect' = "ok" /\ sock' = "open"
         \/ connect' = "error" /\ sock' = "failed"
      /\ UNCHANGED <<posted, mPendingBuffers, mWriteBuffers, writes, reads,
                     issued, wire, errors>>
  BY DEF IInv, ConnectInv, ConnectEnds
<1>2. TypeOK'
  BY <1>1 DEF IInv, TypeOK
<1>3. Chain' /\ PendingChain' /\ WriteChain'
  BY <1>1 DEF IInv, Chain, PendingChain, WriteChain, Taken, Handed
<1>4. WireChain'
  BY <1>1 DEF IInv, WireChain, Taken, Handed, Usable
<1>5. ConnectInv'
  BY <1>1 DEF IInv, TypeOK, ConnectInv, Usable
<1>6. InOrder' /\ BusyFlag' /\ NoStall' /\ ReadLoopAlive'
  BY <1>1 DEF IInv, InOrder, BusyFlag, NoStall, ReadLoopAlive
<1> QED BY <1>2, <1>3, <1>4, <1>5, <1>6 DEF IInv

\* The kernel's steps on the outstanding write w, which becomes v.
LEMMA SetWriteStep ==
    ASSUME IInv, NEW w \in writes, NEW v \in WriteOp, SetWrite(w, v),
           v.bufs = w.bufs, v.sent <= Len(v.bufs),
           v.st = "ok" => v.sent = Len(v.bufs),
           wire' \in Seq(Nat), InOrder',
           Usable => Len(wire') = Handed - Len(w.bufs) + v.sent
    PROVE  IInv'
<1>1. /\ writes' = {v}
      /\ UNCHANGED <<posted, mPendingBuffers, mWriteBuffers, reads, connect,
                     sock, issued, errors>>
  BY DEF SetWrite, IInv, BusyFlag
<1>2. TypeOK'
  BY <1>1 DEF IInv, TypeOK
<1>3. Chain' /\ PendingChain' /\ Handed' = Handed
  BY <1>1 DEF IInv, Chain, PendingChain, Taken, Handed
<1>4. WriteChain'
  BY <1>1, <1>3 DEF IInv, WriteChain
<1>5. WireChain'
  BY <1>1, <1>3 DEF WireChain, Usable
<1>6. ConnectInv'
  BY <1>1 DEF IInv, ConnectInv, Usable
<1>7. BusyFlag' /\ NoStall'
  BY <1>1 DEF IInv, BusyFlag, NoStall
<1>8. ReadLoopAlive'
  BY <1>1 DEF IInv, ReadLoopAlive
<1> QED BY <1>2, <1>3, <1>4, <1>5, <1>6, <1>7, <1>8 DEF IInv

\* The next buffer of the write leaves.
LEMMA TransmitStep ==
    ASSUME IInv, NEW w \in writes, Transmit(w)
    PROVE  IInv' /\ wire' = Append(wire, Len(wire) + 1)
<1> DEFINE v == [w EXCEPT !.sent = @ + 1]
<1>1. /\ w \in WriteOp /\ w.sent \in Nat /\ Len(w.bufs) \in Nat
      /\ w.bufs \in Seq(Nat) /\ w.st = "pending"
      /\ wire \in Seq(Nat) /\ Len(wire) \in Nat
  BY LenProperties DEF IInv, TypeOK, WriteOp, Transmit
<1>2. /\ v \in WriteOp /\ v.bufs = w.bufs /\ v.sent = w.sent + 1
      /\ v.st = "pending"
  BY <1>1 DEF WriteOp
<1>3. SetWrite(w, v) /\ sock = "open" /\ w.sent < Len(w.bufs)
      /\ wire' = Append(wire, w.bufs[w.sent + 1])
  BY DEF Transmit
<1> HIDE DEF v
<1>4. Handed \in Nat /\ Len(wire) = Handed - Len(w.bufs) + w.sent
  <2>1. Len(wire) = Handed - Len(w.bufs) + w.sent
    BY <1>3 DEF IInv, WireChain, Usable
  <2>2. Handed \in Nat
    <3>1. SetWrite(w, v) => UNCHANGED <<posted, issued>>
      BY DEF SetWrite
    <3> QED BY <1>3, <3>1, QuietQueue
  <2> QED BY <2>1, <2>2
<1>5. w.bufs[w.sent + 1] = Len(wire) + 1
  <2>1. w.sent + 1 \in 1..Len(w.bufs)
    BY <1>1, <1>3
  <2>2. w.bufs[w.sent + 1] = Handed - Len(w.bufs) + (w.sent + 1)
    BY <2>1 DEF IInv, WriteChain
  <2> QED BY <1>1, <1>4, <2>2
<1>6. /\ wire' \in Seq(Nat) /\ Len(wire') = Len(wire) + 1
      /\ \A i \in 1..Len(wire) : wire'[i] = wire[i]
      /\ wire'[Len(wire) + 1] = Len(wire) + 1
  <2>1. Len(wire) + 1 \in Nat /\ wire' = Append(wire, Len(wire) + 1)
    BY <1>1, <1>3, <1>5
  <2> QED BY <1>1, <2>1, AppendProperties
<1>7. InOrder'
  <2> SUFFICES ASSUME NEW i \in 1..Len(wire') PROVE wire'[i] = i
    BY DEF InOrder
  <2>1. CASE i \in 1..Len(wire)
    BY <2>1, <1>6 DEF IInv, InOrder
  <2>2. CASE i = Len(wire) + 1
    BY <2>2, <1>6
  <2> QED BY <2>1, <2>2, <1>1, <1>6
<1>8. /\ v.sent <= Len(v.bufs)
      /\ v.st = "ok" => v.sent = Len(v.bufs)
      /\ Len(wire') = Handed - Len(w.bufs) + v.sent
  <2>1. Len(wire') = Len(wire) + 1
    BY <1>6
  <2>2. v.sent = w.sent + 1 /\ v.bufs = w.bufs /\ v.st # "ok"
    BY <1>2
  <2>3. v.sent <= Len(v.bufs)
    BY <1>1, <1>3, <2>2
  <2>4. Len(wire') = Handed - Len(w.bufs) + v.sent
    BY <1>1, <1>4, <2>1, <2>2
  <2> QED BY <2>2, <2>3, <2>4
<1>9. IInv'
  BY <1>2, <1>3, <1>6, <1>7, <1>8, SetWriteStep
<1> QED BY <1>3, <1>5, <1>9

\* async_write ends.
LEMMA WriteEndsStep ==
    ASSUME IInv, NEW w \in writes, WriteCompletes(w) \/ WriteFails(w)
    PROVE  IInv'
<1>1. PICK st \in {"ok", "error"} :
         /\ SetWrite(w, [w EXCEPT !.st = st])
         /\ st = "ok" => w.sent = Len(w.bufs)
         /\ UNCHANGED wire
  BY DEF WriteCompletes, WriteFails
<1> DEFINE v == [w EXCEPT !.st = st]
<1>2. w \in WriteOp
  BY DEF IInv, TypeOK
<1>3. /\ v \in WriteOp /\ v.bufs = w.bufs /\ v.sent = w.sent /\ v.st = st
  BY <1>2 DEF WriteOp, OpStatus
<1>4. SetWrite(w, v)
  BY <1>1
<1> HIDE DEF v
<1>5. /\ wire' \in Seq(Nat) /\ InOrder'
  BY <1>1 DEF IInv, TypeOK, InOrder
<1>6. Usable => Len(wire') = Handed - Len(w.bufs) + v.sent
  BY <1>1, <1>3 DEF IInv, WireChain
<1>7. v.sent <= Len(v.bufs) /\ (v.st = "ok" => v.sent = Len(v.bufs))
  BY <1>1, <1>3 DEF IInv, WriteChain
<1> QED BY <1>3, <1>4, <1>5, <1>6, <1>7, SetWriteStep

\* async_read ends.
LEMMA ReadEndsStep ==
    ASSUME IInv, NEW i \in 1..Len(reads), ReadEnds(i)
    PROVE  IInv'
<1>1. PICK st \in {"ok", "error"} :
         reads' = [reads EXCEPT ![i] = [kind |-> reads[i].kind, st |-> st]]
  BY DEF ReadEnds
<1>2. /\ reads \in Seq(ReadOp) /\ Len(reads) \in Nat
      /\ UNCHANGED <<posted, mPendingBuffers, mWriteBuffers, writes, connect,
                     sock, issued, wire, errors>>
  BY LenProperties DEF IInv, TypeOK, ReadEnds
<1>3. [kind |-> reads[i].kind, st |-> st] \in ReadOp
  <2>1. reads[i] \in ReadOp
    BY <1>2, ElementOfSeq
  <2> QED BY <2>1 DEF ReadOp, OpStatus
<1>4. reads' \in Seq(ReadOp) /\ Len(reads') = Len(reads)
  BY <1>1, <1>2, <1>3, ExceptSeq
<1>5. connect = "done"
  <2>1. reads # <<>>
    <3>1. Len(reads) # 0
      BY <1>2
    <3> QED BY <3>1, EmptySeq
  <2> QED BY <2>1 DEF IInv, ConnectInv
<1>6. Len(reads') <= 1 /\ (sock = "open" => Len(reads') = 1)
  BY <1>4, <1>5 DEF IInv, ReadLoopAlive
<1>7. errors' \in Nat /\ (errors' > 0 => ~Usable)
  BY <1>2 DEF IInv, TypeOK, ConnectInv
<1> QED BY <1>2, <1>4, <1>5, <1>6, <1>7, ReadSideStep

-----------------------------------------------------------------------------
(* The theorems.                                                           *)

\* Every step of the connection preserves the invariant.
LEMMA NextIInv == IInv /\ [Next]_vars => IInv'
<1> SUFFICES ASSUME IInv, [Next]_vars PROVE IInv'
  OBVIOUS
<1>1. CASE Connect
  BY <1>1, ConnectStep
<1>2. CASE SendBuffer \/ SendVector
  <2>1. PICK n \in Nat \ {0} : PostSend(n)
    BY <1>2, BoundsAssumption DEF SendBuffer, SendVector
  <2> QED BY <2>1, SendStep
<1>3. CASE Close
  BY <1>3, CloseStep
<1>4. CASE RunPosted
  BY <1>4, RunPostedStep
<1>5. CASE ConnectHandler
  BY <1>5, ConnectHandlerStep
<1>6. CASE \E i \in 1..Len(reads) : HeaderHandler(i) \/ BodyHandler(i)
  BY <1>6, ReadHandlerStep
<1>7. CASE \E w \in writes : WriteHandler(w)
  BY <1>7, WriteHandlerStep
<1>8. CASE ConnectEnds
  BY <1>8, ConnectEndsStep
<1>9. CASE \E w \in writes : Transmit(w) \/ WriteCompletes(w) \/ WriteFails(w)
  BY <1>9, TransmitStep, WriteEndsStep
<1>10. CASE \E i \in 1..Len(reads) : ReadEnds(i)
  BY <1>10, ReadEndsStep
<1>11. CASE UNCHANGED vars
  BY <1>11 DEF vars, IInv, TypeOK, Chain, PendingChain, WriteChain, WireChain,
               ConnectInv, InOrder, BusyFlag, NoStall, ReadLoopAlive, Taken,
               Handed, Usable
<1> QED BY <1>1, <1>2, <1>3, <1>4, <1>5, <1>6, <1>7, <1>8, <1>9, <1>10, <1>11
        DEF Next

\* IInv is an invariant of the connection.
THEOREM InductiveInvariant == SafeSpec => []IInv
BY InitIInv, NextIInv, PTL DEF SafeSpec

\* Every variable keeps its type.
THEOREM TypeCorrect == SafeSpec => []TypeOK
<1>1. IInv => TypeOK
  BY DEF IInv
<1> QED BY <1>1, InductiveInvariant, PTL

\* The kernel is given the buffers of the Send calls in call order, without
\* gaps and without repetition.
THEOREM SendsInOrder == SafeSpec => []InOrder
<1>1. IInv => InOrder
  BY DEF IInv
<1> QED BY <1>1, InductiveInvariant, PTL

\* Emptiness of mWriteBuffers is a correct "not writing" flag: there is
\* never more than one async_write on the stream, and there is one exactly
\* when the vector is not empty.
THEOREM OneWriteAtATime == SafeSpec => []BusyFlag
<1>1. IInv => BusyFlag
  BY DEF IInv
<1> QED BY <1>1, InductiveInvariant, PTL

\* Pending buffers always have a write whose handler will send them on: Send
\* starts a write unless one is outstanding, and WriteHandler goes on.
THEOREM NothingStalls == SafeSpec => []NoStall
<1>1. IInv => NoStall
  BY DEF IInv
<1> QED BY <1>1, InductiveInvariant, PTL

\* An established connection always has its one read outstanding: every
\* handler of ReadHeader and ReadBody starts the next or closes the socket.
THEOREM ReadLoopLives == SafeSpec => []ReadLoopAlive
<1>1. IInv => ReadLoopAlive
  BY DEF IInv
<1> QED BY <1>1, InductiveInvariant, PTL

\* Only Transmit adds to the wire, and it needs an open socket.
LEMMA WireStep ==
    ASSUME [Next]_vars, wire' # wire
    PROVE  \E w \in writes : Transmit(w)
BY DEF Next, vars, Connect, SendBuffer, SendVector, PostSend, Close, RunPosted,
       RunSend, RunClose, ConnectHandler, HeaderHandler, BodyHandler,
       WriteHandler, ConnectEnds, WriteCompletes, WriteFails, ReadEnds

\* Once OnError was raised nothing leaves any more.
THEOREM ErrorsFailStop == SafeSpec => FailStop
<1>1. IInv /\ [Next]_vars => [errors > 0 => UNCHANGED wire]_vars
  <2> SUFFICES ASSUME IInv, [Next]_vars, errors > 0 PROVE wire' = wire
    OBVIOUS
  <2>1. sock # "open"
    BY DEF IInv, ConnectInv, Usable
  <2> QED BY <2>1, WireStep DEF Transmit
<1> QED BY <1>1, InductiveInvariant, PTL DEF SafeSpec, FailStop

-----------------------------------------------------------------------------
(* TcpClient implements SendChannel.                                       *)

\* What a step can do to the three things SendChannel speaks of.
LEMMA StepKinds ==
    ASSUME IInv, [Next]_vars
    PROVE  \/ /\ issued' \in Nat /\ issued' > issued
              /\ UNCHANGED <<wire, sock>>
           \/ /\ wire' = Append(wire, Len(wire) + 1) /\ Len(wire) < issued
              /\ sock = "open" /\ UNCHANGED <<issued, sock>>
           \/ /\ UNCHANGED <<issued, wire>>
              /\ Usable' => Usable
<1> USE DEF Usable
<1>0. issued \in Nat
  BY DEF IInv, TypeOK
<1>1. CASE SendBuffer \/ SendVector
  <2>1. PICK n \in Nat \ {0} : PostSend(n)
    BY <1>1, BoundsAssumption DEF SendBuffer, SendVector
  <2> QED BY <1>0, <2>1 DEF PostSend
<1>2. ASSUME NEW w \in writes, Transmit(w)
      PROVE  /\ wire' = Append(wire, Len(wire) + 1) /\ Len(wire) < issued
             /\ sock = "open" /\ UNCHANGED <<issued, sock>>
  <2>1. wire' = Append(wire, Len(wire) + 1)
    BY <1>2, TransmitStep
  <2>2. sock = "open" /\ UNCHANGED <<posted, issued, sock>>
    BY <1>2 DEF Transmit, SetWrite
  <2>3. /\ w \in WriteOp /\ w.sent < Len(w.bufs) /\ w.sent \in Nat
        /\ Len(w.bufs) \in Nat /\ Len(wire) \in Nat
    BY <1>2, LenProperties DEF Transmit, IInv, TypeOK, WriteOp
  <2>4. /\ Taken \in Nat /\ Handed \in Nat
        /\ posted # <<>> => posted[1] \in PostedOp
    BY <2>2, QuietQueue
  <2>5. Taken <= issued
    <3>1. CASE posted = <<>>
      BY <3>1, <1>0 DEF Taken
    <3>2. CASE posted # <<>>
      <4>1. 1 \in 1..Len(posted)
        BY <3>2, EmptySeq DEF IInv, TypeOK
      <4>2. /\ posted[1].last <= issued
            /\ posted[1].op \in {"send", "close"}
            /\ posted[1].op = "send" => posted[1].first <= posted[1].last
            /\ posted[1].op = "close" => posted[1].first = posted[1].last + 1
            /\ posted[1].first \in Nat /\ posted[1].last \in Nat
        BY <3>2, <4>1, <2>4 DEF IInv, Chain, PostedOp
      <4>3. Taken = posted[1].first - 1
        BY <3>2 DEF Taken
      <4> QED BY <4>2, <4>3, <1>0
    <3> QED BY <3>1, <3>2
  <2>6. Len(mPendingBuffers) \in Nat /\ Handed = Taken - Len(mPendingBuffers)
    BY LenProperties DEF IInv, TypeOK, Handed
  <2>7. Len(wire) = Handed - Len(w.bufs) + w.sent
    BY <2>2 DEF IInv, WireChain
  <2>8. Len(wire) < issued
    <3>1. Handed <= issued
      BY <1>0, <2>4, <2>5, <2>6
    <3>2. w.sent < Len(w.bufs) /\ w.sent \in Nat /\ Len(w.bufs) \in Nat
      BY <2>3
    <3>3. Handed \in Nat /\ Len(wire) < Handed
      BY <3>2, <2>4, <2>7
    <3> QED BY <3>1, <3>3, <1>0, <2>3
  <2> QED BY <2>1, <2>2, <2>8
<1>3. CASE Connect \/ ConnectEnds
  BY <1>3 DEF Connect, ConnectEnds, IInv, ConnectInv
<1>4. CASE RunPosted
  BY <1>4 DEF RunPosted, RunSend, RunClose, CloseSocket
<1>5. CASE ConnectHandler \/ Close
  BY <1>5 DEF ConnectHandler, Close
<1>6. CASE \E i \in 1..Len(reads) : HeaderHandler(i) \/ BodyHandler(i)
  BY <1>6 DEF HeaderHandler, BodyHandler, HeaderOk, Close4Error, CloseSocket
<1>7. CASE \E w \in writes : WriteHandler(w)
  BY <1>7 DEF WriteHandler, Close4Error, CloseSocket
<1>8. CASE \E w \in writes : WriteCompletes(w) \/ WriteFails(w)
  BY <1>8 DEF WriteCompletes, WriteFails, SetWrite
<1>9. CASE \E i \in 1..Len(reads) : ReadEnds(i)
  BY <1>9 DEF ReadEnds
<1>10. CASE UNCHANGED vars
  BY <1>10 DEF vars
<1> QED BY <1>1, <1>2, <1>3, <1>4, <1>5, <1>6, <1>7, <1>8, <1>9, <1>10 DEF Next

\* The safety part of ImplementsChannel: what leaves is the sequence of the
\* accepted buffers, only while the connection is up, which it never is again.
THEOREM ImplementsChannelSafety == SafeSpec => Channel!ChanSafeSpec
<1>1. Init => Channel!ChanInit
  BY DEF Init, Channel!ChanInit
<1>2. IInv /\ [Next]_vars => [Channel!ChanNext]_(Channel!chanVars)
  <2> SUFFICES ASSUME IInv, [Next]_vars
               PROVE  [Channel!ChanNext]_(Channel!chanVars)
    OBVIOUS
  <2>1. CASE /\ issued' \in Nat /\ issued' > issued
             /\ UNCHANGED <<wire, sock>>
    BY <2>1 DEF Channel!ChanNext, Channel!Accept
  <2>2. CASE /\ wire' = Append(wire, Len(wire) + 1) /\ Len(wire) < issued
             /\ sock = "open" /\ UNCHANGED <<issued, sock>>
    BY <2>2 DEF Channel!ChanNext, Channel!Deliver
  <2>3. CASE UNCHANGED <<issued, wire>> /\ (Usable' => Usable)
    BY <2>3 DEF Channel!ChanNext, Channel!Lose, Channel!chanVars, Usable
  <2> QED BY <2>1, <2>2, <2>3, StepKinds
<1> QED BY <1>1, <1>2, InductiveInvariant, PTL
        DEF SafeSpec, Channel!ChanSafeSpec
=============================================================================
