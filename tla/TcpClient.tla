----------------------------- MODULE TcpClient -----------------------------
(***************************************************************************)
(* network/TcpClient.cpp: one asynchronous connection.  Any thread may     *)
(* call Send or Close, which only post a lambda to the io_service; the     *)
(* lambdas and the completion handlers run one at a time on the thread in  *)
(* io_service::run() (both examples run exactly one).  Posted lambdas run  *)
(* in posting order; completions are taken in any order relative to them   *)
(* and to each other.                                                      *)
(*                                                                         *)
(* Buffers are numbered in the order in which Send receives them.  The     *)
(* kernel's part of an operation (bytes leaving, an operation completing   *)
(* or failing) is a step of its own, between the initiating call and the   *)
(* completion handler.                                                     *)
(***************************************************************************)
EXTENDS Integers, Sequences, FiniteSets

CONSTANTS MaxBuffers,   \* bound: buffers given to Send in a behaviour
          MaxVec,       \* bound: buffers in one Send(SVConstBuffer)
          MaxCloses     \* bound: Close lambdas waiting at the same time

ASSUME BoundsAssumption ==
    MaxBuffers \in Nat /\ MaxVec \in Nat \ {0} /\ MaxCloses \in Nat

VARIABLES
    posted,          \* lambdas posted by Send and Close, oldest first
    mPendingBuffers, \* buffers waiting for the write in progress to end
    mWriteBuffers,   \* buffers of the write in progress; empty = not writing
    writes,          \* outstanding async_write operations
    reads,           \* outstanding async_read operations
    connect,         \* the async_connect operation
    sock,            \* mSocket
    issued,          \* number of buffers given to Send so far
    wire,            \* the buffers the kernel took, in order
    errors           \* number of times OnError was raised

vars == <<posted, mPendingBuffers, mWriteBuffers, writes, reads, connect,
          sock, issued, wire, errors>>

OpStatus == {"pending", "ok", "error"}
PostedOp == [op : {"send", "close"}, first : Nat, last : Nat]
WriteOp  == [bufs : Seq(Nat), sent : Nat, st : OpStatus]
ReadOp   == [kind : {"header", "body"}, st : OpStatus]

\* The constructed object.  ServerList::Add lists it and calls Connect in one
\* go under its mutex, so nothing else happens to a "new" one.
Init == /\ posted = <<>> /\ mPendingBuffers = <<>> /\ mWriteBuffers = <<>>
        /\ writes = {} /\ reads = <<>>
        /\ connect = "none" /\ sock = "new"
        /\ issued = 0 /\ wire = <<>> /\ errors = 0

-----------------------------------------------------------------------------
(* Helpers.                                                                *)

\* An operation started on a closed descriptor completes with an error.
StartStatus == IF sock = "closed" THEN "error" ELSE "pending"

Aborted(op) == IF op.st = "pending" THEN [op EXCEPT !.st = "error"] ELSE op

\* s without its i-th element
Without(s, i) == SubSeq(s, 1, i - 1) \o SubSeq(s, i + 1, Len(s))

\* the buffers a posted Send lambda captured
Captured(p) == [k \in 1..(p.last - p.first + 1) |-> p.first + k - 1]

\* mSocket.close(): every operation still pending completes with
\* operation_aborted; completions already queued keep their result.
CloseSocket(ws, rs) ==
    /\ sock' = "closed"
    /\ connect' = IF connect = "pending" THEN "error" ELSE connect
    /\ writes' = {Aborted(w) : w \in ws}
    /\ reads' = [i \in 1..Len(rs) |-> Aborted(rs[i])]

\* Close4Error without the close
Close4ErrorNoClose(ws, rs) ==
    /\ writes' = ws /\ reads' = rs /\ UNCHANGED <<sock, connect>>
    /\ errors' = errors + 1

\* ws, rs: the operations left after the completing one is taken out
Close4Error(ws, rs) == CloseSocket(ws, rs) /\ errors' = errors + 1

-----------------------------------------------------------------------------
(* Calls, from any thread.                                                 *)

\* The name is resolved in the call itself.  A resolver failure is an
\* exception out of Connect: no async_connect starts and the descriptor was
\* never opened, yet ServerList::Add has already listed the server, so Send
\* and Close still reach the object and every operation on it fails.
Connect == /\ sock = "new"
           /\ \/ sock' = "connecting" /\ connect' = "pending"
              \/ sock' = "closed" /\ UNCHANGED connect
           /\ UNCHANGED <<posted, mPendingBuffers, mWriteBuffers, writes,
                          reads, issued, wire, errors>>

PostSend(n) ==
    /\ sock # "new"
    /\ issued + n <= MaxBuffers
    /\ posted' = Append(posted, [op |-> "send", first |-> issued + 1,
                                 last |-> issued + n])
    /\ issued' = issued + n
    /\ UNCHANGED <<mPendingBuffers, mWriteBuffers, writes, reads, connect,
                   sock, wire, errors>>

\* Send(const ConstBuffer&)
SendBuffer == PostSend(1)

\* Send(const SVConstBuffer&): every caller puts at least the request
\* header into the vector.
SendVector == \E n \in 1..MaxVec : PostSend(n)

ClosesPosted == {k \in 1..Len(posted) : posted[k].op = "close"}

Close == /\ sock # "new"
         /\ Cardinality(ClosesPosted) < MaxCloses
         /\ posted' = Append(posted, [op |-> "close", first |-> issued + 1,
                                      last |-> issued])
         /\ UNCHANGED <<mPendingBuffers, mWriteBuffers, writes, reads,
                        connect, sock, issued, wire, errors>>

-----------------------------------------------------------------------------
(* The io thread: posted lambdas.                                          *)

\* private Send(): pending becomes the write in progress (the two vectors
\* are swapped, and mWriteBuffers is empty here) and one async_write starts.
\* pend: mPendingBuffers;  ws: the writes outstanding before it.
StartWrite(pend, ws) ==
    /\ mWriteBuffers' = pend
    /\ mPendingBuffers' = <<>>
    /\ writes' = ws \cup {[bufs |-> pend, sent |-> 0, st |-> StartStatus]}

\* RunSend that never looks at mWriteBuffers
RunSendUnguarded(p) ==
    /\ StartWrite(mPendingBuffers \o Captured(p), writes)
    /\ UNCHANGED <<reads, connect, sock, wire, errors>>

\* RunSend that only starts a write for the first buffer ever sent
RunSendOnce(p) ==
    /\ IF wire = <<>> /\ mWriteBuffers = <<>>
       THEN StartWrite(mPendingBuffers \o Captured(p), writes)
       ELSE /\ mPendingBuffers' = mPendingBuffers \o Captured(p)
            /\ UNCHANGED <<mWriteBuffers, writes>>
    /\ UNCHANGED <<reads, connect, sock, wire, errors>>

\* body of the lambda posted by either Send
RunSend(p) ==
    /\ LET pend == mPendingBuffers \o Captured(p)
       IN  \/ /\ mWriteBuffers = <<>>
              /\ StartWrite(pend, writes)
           \/ /\ mWriteBuffers # <<>>
              /\ mPendingBuffers' = pend
              /\ UNCHANGED <<mWriteBuffers, writes>>
    /\ UNCHANGED <<reads, connect, sock, wire, errors>>

\* body of the lambda posted by Close
RunClose ==
    /\ CloseSocket(writes, reads)
    /\ UNCHANGED <<mPendingBuffers, mWriteBuffers, wire, errors>>

RunPosted ==
    /\ posted # <<>>
    /\ posted' = Tail(posted)
    /\ \/ Head(posted).op = "send"  /\ RunSend(Head(posted))
       \/ Head(posted).op = "close" /\ RunClose
    /\ UNCHANGED issued

-----------------------------------------------------------------------------
(* The io thread: completion handlers.                                     *)

\* StartRead that takes the state of the socket for the operation's
StartReadRaw(rs, kind) == reads' = Append(rs, [kind |-> kind, st |-> sock])

\* ReadHeader() / ReadBody() after the reads rs
StartRead(rs, kind) ==
    reads' = Append(rs, [kind |-> kind, st |-> StartStatus])

\* handler of async_connect; its error branch raises OnError and leaves the
\* socket as it is.
ConnectHandler ==
    /\ connect \in {"ok", "error"}
    /\ connect' = "done"
    /\ \/ connect = "ok"    /\ StartRead(reads, "header") /\ UNCHANGED errors
       \/ connect = "error" /\ errors' = errors + 1 /\ UNCHANGED reads
    /\ UNCHANGED <<posted, mPendingBuffers, mWriteBuffers, writes, sock,
                   issued, wire>>

\* The three things the header handler may do, as OnHeader decides: a body
\* follows; a body follows but OnHeader supplied no buffer for it; no body.
HeaderOk(rest) ==
    \/ StartRead(rest, "body")   /\ UNCHANGED <<writes, connect, sock, errors>>
    \/ Close4Error(writes, rest)
    \/ StartRead(rest, "header") /\ UNCHANGED <<writes, connect, sock, errors>>

\* handler of the header's async_read
HeaderHandler(i) ==
    /\ i \in 1..Len(reads)
    /\ reads[i].kind = "header" /\ reads[i].st # "pending"
    /\ LET rest == Without(reads, i)
       IN  \/ reads[i].st = "ok"    /\ HeaderOk(rest)
           \/ reads[i].st = "error" /\ Close4Error(writes, rest)
    /\ UNCHANGED <<posted, mPendingBuffers, mWriteBuffers, issued, wire>>

\* BodyHandler that does not go back to the header
BodyHandlerNoLoop(i) ==
    /\ i \in 1..Len(reads)
    /\ reads[i].kind = "body" /\ reads[i].st # "pending"
    /\ reads' = Without(reads, i)
    /\ UNCHANGED <<posted, mPendingBuffers, mWriteBuffers, writes, connect,
                   sock, issued, wire, errors>>

\* handler of the body's async_read
BodyHandler(i) ==
    /\ i \in 1..Len(reads)
    /\ reads[i].kind = "body" /\ reads[i].st # "pending"
    /\ LET rest == Without(reads, i)
       IN  \/ /\ reads[i].st = "ok"
              /\ StartRead(rest, "header")
              /\ UNCHANGED <<writes, connect, sock, errors>>
           \/ reads[i].st = "error" /\ Close4Error(writes, rest)
    /\ UNCHANGED <<posted, mPendingBuffers, mWriteBuffers, issued, wire>>

\* WriteHandler that forgets what arrived during the write
WriteHandlerNoResend(w) ==
    /\ w \in writes /\ w.st # "pending"
    /\ \/ /\ w.st = "ok"
          /\ mWriteBuffers' = <<>>
          /\ writes' = writes \ {w}
          /\ UNCHANGED <<mPendingBuffers, reads, connect, sock, errors>>
       \/ /\ w.st = "error"
          /\ mWriteBuffers' = <<>>
          /\ Close4Error(writes \ {w}, reads)
          /\ UNCHANGED mPendingBuffers
    /\ UNCHANGED <<posted, issued, wire>>

\* WriteHandler that goes on with the next buffers after an error
WriteHandlerResend(w) ==
    /\ w \in writes /\ w.st # "pending"
    /\ \/ /\ mPendingBuffers # <<>>
          /\ StartWrite(mPendingBuffers, writes \ {w})
       \/ /\ mPendingBuffers = <<>>
          /\ mWriteBuffers' = <<>>
          /\ writes' = writes \ {w}
          /\ UNCHANGED mPendingBuffers
    /\ UNCHANGED <<posted, issued, wire, reads, connect, sock, errors>>

\* handler of async_write
WriteHandler(w) ==
    /\ w \in writes /\ w.st # "pending"
    /\ LET rest == writes \ {w}
       IN  \/ /\ w.st = "ok" /\ mPendingBuffers # <<>>
              /\ StartWrite(mPendingBuffers, rest)
              /\ UNCHANGED <<reads, connect, sock, errors>>
           \/ /\ w.st = "ok" /\ mPendingBuffers = <<>>
              /\ mWriteBuffers' = <<>>
              /\ writes' = rest
              /\ UNCHANGED <<mPendingBuffers, reads, connect, sock, errors>>
           \/ /\ w.st = "error"
              /\ mWriteBuffers' = <<>>
              /\ Close4Error(rest, reads)
              /\ UNCHANGED mPendingBuffers
    /\ UNCHANGED <<posted, issued, wire>>

-----------------------------------------------------------------------------
(* The kernel and the peer.                                                *)

ConnectEnds == /\ connect = "pending"
               /\ \/ connect' = "ok"    /\ sock' = "open"
                  \/ connect' = "error" /\ sock' = "failed"
               /\ UNCHANGED <<posted, mPendingBuffers, mWriteBuffers, writes,
                              reads, issued, wire, errors>>

SetWrite(w, v) ==
    /\ writes' = (writes \ {w}) \cup {v}
    /\ UNCHANGED <<posted, mPendingBuffers, mWriteBuffers, reads, connect,
                   sock, issued, errors>>

\* The next buffer of a write leaves.
Transmit(w) == /\ w \in writes /\ w.st = "pending" /\ sock = "open"
               /\ w.sent < Len(w.bufs)
               /\ wire' = Append(wire, w.bufs[w.sent + 1])
               /\ SetWrite(w, [w EXCEPT !.sent = @ + 1])

WriteCompletes(w) == /\ w \in writes /\ w.st = "pending"
                     /\ w.sent = Len(w.bufs)
                     /\ SetWrite(w, [w EXCEPT !.st = "ok"])
                     /\ UNCHANGED wire

\* The peer reset the connection; the connection was refused; or the write
\* waited for the connection and async_connect closed the descriptor to try
\* the next address.
WriteFails(w) == /\ w \in writes /\ w.st = "pending"
                 /\ SetWrite(w, [w EXCEPT !.st = "error"])
                 /\ UNCHANGED wire

\* Data arrived, or end of file, or a reset.
ReadEnds(i) == /\ i \in 1..Len(reads) /\ reads[i].st = "pending"
               /\ \E st \in {"ok", "error"} :
                     reads' = [reads EXCEPT ![i] =
                                 [kind |-> reads[i].kind, st |-> st]]
               /\ UNCHANGED <<posted, mPendingBuffers, mWriteBuffers, writes,
                              connect, sock, issued, wire, errors>>

-----------------------------------------------------------------------------
Next == \/ Connect \/ SendBuffer \/ SendVector \/ Close
        \/ RunPosted \/ ConnectHandler
        \/ \E i \in 1..Len(reads) : HeaderHandler(i) \/ BodyHandler(i)
        \/ \E w \in writes : WriteHandler(w)
        \/ ConnectEnds
        \/ \E w \in writes : Transmit(w) \/ WriteCompletes(w) \/ WriteFails(w)
        \/ \E i \in 1..Len(reads) : ReadEnds(i)

\* io_service::run() keeps taking handlers, and TCP either makes progress or
\* reports failure.  Nothing obliges a caller to call or the peer to answer.
Fairness == /\ WF_vars(RunPosted)
            /\ WF_vars(ConnectHandler)
            /\ WF_vars(\E w \in writes : WriteHandler(w))
            /\ WF_vars(\E i \in 1..Len(reads) :
                          HeaderHandler(i) \/ BodyHandler(i))
            /\ WF_vars(ConnectEnds)
            /\ WF_vars(\E w \in writes : Transmit(w) \/ WriteCompletes(w))

SafeSpec == Init /\ [][Next]_vars

Spec == SafeSpec /\ Fairness

-----------------------------------------------------------------------------
(* Properties.                                                             *)

TypeOK == /\ posted \in Seq(PostedOp)
          /\ mPendingBuffers \in Seq(Nat) /\ mWriteBuffers \in Seq(Nat)
          /\ writes \subseteq WriteOp
          /\ reads \in Seq(ReadOp)
          /\ connect \in {"none", "pending", "ok", "error", "done"}
          /\ sock \in {"new", "connecting", "open", "failed", "closed"}
          /\ issued \in Nat
          /\ wire \in Seq(Nat)
          /\ errors \in Nat

\* The bytes on the connection are the buffers of the Send calls, in call
\* order, with none missing in between and none twice, whatever the
\* interleaving of callers, write completions and failures.
InOrder == \A i \in 1..Len(wire) : wire[i] = i

\* mWriteBuffers.empty() really means "no async_write outstanding" (asio
\* allows one at a time on a stream) and the operation writes that vector.
BusyFlag == /\ mWriteBuffers = <<>> <=> writes = {}
            /\ \A w \in writes : w.bufs = mWriteBuffers
            /\ \A v, w \in writes : v = w

\* Buffers never wait in mPendingBuffers with nobody left to send them,
\* unless the socket is closed.
NoStall == mPendingBuffers # <<>> /\ sock # "closed" => writes # {}

\* While the connection is usable there is exactly one read outstanding:
\* responses are neither missed nor read by two operations.
ReadLoopAlive == /\ Len(reads) <= 1
                 /\ connect = "done" /\ sock = "open" => Len(reads) = 1

\* After an OnError nothing more is sent, although Send is still accepted:
\* whoever handles OnError may give every later request up.
FailStop == [][errors > 0 => UNCHANGED wire]_vars

Channel == INSTANCE SendChannel
           WITH accepted <- issued, delivered <- wire,
                up <- sock \notin {"failed", "closed"}

\* The connection implements SendChannel: call order, no duplicates, and
\* every accepted buffer leaves unless the connection is lost.
ImplementsChannel == Channel!ChanSpec
=============================================================================
