-------------------------- MODULE MemcachedClient --------------------------
(***************************************************************************)
(* memcachedClient/ on top of serverManager/ServerList and network/: the   *)
(* request table, the way of a request to its server and of the responses  *)
(* back to it, and the loss of servers.                                    *)
(*                                                                         *)
(* All of it runs on the thread in io_service::run(): the handlers, one at *)
(* a time in the order of the queue `ready`, and the calls of the API,     *)
(* which both examples make before run() and applications make from        *)
(* callbacks.  A connection is what TcpClient.tla describes, with a write  *)
(* operation transmitting its requests in one step.  The memcached server  *)
(* is external.                                                            *)
(*                                                                         *)
(* The first undefined behaviour of an execution is recorded in `fault`    *)
(* and ends the behaviour; so does reading a response stream from a wrong  *)
(* position.                                                               *)
(***************************************************************************)
EXTENDS Integers, Sequences, FiniteSets

CONSTANTS Hosts,      \* host:port pairs
          Kinds,      \* operations the application uses, within AllKinds
          MaxCalls,   \* bound: calls of the API
          MaxConns,   \* bound: successful ServerList::Add calls
          MaxStats,   \* bound: values in the answer to one Stat
          IdSpace,    \* number of request ids (2^32 in the code)
          MayRemove   \* whether the application calls Servers.Remove

AllKinds == {"Get", "Store", "SelfOp", "Append", "Delete", "Flush", "Stat",
             "Version"}

ASSUME ClientAssumption ==
    /\ Kinds \subseteq AllKinds
    /\ MaxCalls \in Nat /\ MaxConns \in Nat
    /\ MaxStats \in Nat \ {0} /\ IdSpace \in Nat \ {0}
    /\ MayRemove \in BOOLEAN

VARIABLES
    calls,      \* the calls made: operation, connection, mHasMoreResult
    mRequests,  \* the calls whose entry is in the map of that name
    refused,    \* calls whose insert found their id in use
    conn,       \* the ServerItems ever created
    mServers,   \* the ones in the server list; the others are destroyed
    ready,      \* handlers and posted lambdas io_service will run, in order
    answers,    \* per call, the notifications it got
    said,       \* per call, the status its server answered with
    fault       \* the undefined behaviour met, or "none"

vars == <<calls, mRequests, refused, conn, mServers, ready, answers, said,
          fault>>

\* A response: the call that caused it, its status as the two bytes read on
\* a little-endian host, and what follows the header: nothing ("empty"), a
\* value, with its key and flags ("value"), or flags but no value ("extras").
Unsaid == -1
Silent == -2
NoMsg == [of |-> 0, shape |-> "empty", raw |-> 0]

\* Where the read of a connection stands in the stream of responses (fit): it
\* ends, or the next one begins, with a response ("fits"); bytes of a response
\* are left before the next one ("short"); or the buffers have room for bytes
\* of responses still to come ("long").
Fits == {"fits", "short", "long"}

Job(kind, c, ok, msg, it) ==
    [kind |-> kind, c |-> c, ok |-> ok, msg |-> msg, it |-> it]

\* Requests carry the id; the entries under it in mRequests, at most one.
Id(r) == (r - 1) % IdSpace
Find(id) == {r \in mRequests : Id(r) = id}
Entry(id) == CHOOSE r \in Find(id) : TRUE

Init == /\ calls = <<>> /\ mRequests = {} /\ refused = {}
        /\ conn = <<>> /\ mServers = {} /\ ready = <<>>
        /\ answers = [r \in 1..MaxCalls |-> <<>>]
        /\ said = [r \in 1..MaxCalls |-> Unsaid] /\ fault = "none"

Faulty(f) == /\ fault' = f
             /\ UNCHANGED <<calls, mRequests, refused, conn, mServers, ready,
                            answers, said>>

-----------------------------------------------------------------------------
(* The status of a response.                                               *)

Swap16(x) == (x % 256) * 256 + x \div 256
ntohs(x) == Swap16(x)

\* AdjustEndian(protocol_binary_response_header*) on the status
AdjustEndian(raw) == ntohs(ntohs(raw))

ERequest_SUCCESS == 0
ERequest_KEY_ENOENT == 1
ERequest_EINVAL == 4
ERequest_NETWORK_ERROR == 134

-----------------------------------------------------------------------------
(* Finishing requests.                                                     *)

FinishJob(it, of, st) ==
    Job("finish", 0, TRUE, [of |-> of, shape |-> "empty", raw |-> st], it)

\* FALSE for every result but that of Stat, which never sets the flag
HasMoreResult(it) == calls[it].more

\* FinishRequest on an entry that exists: the lambdas it posts
FinishRequest(it, of, st) ==
    IF HasMoreResult(it) THEN <<>> ELSE <<FinishJob(it, of, st)>>

\* the lambda: Notify (result and callback), then erase.  The iterator it has
\* captured is good as long as its entry exists: a rehash keeps the nodes of a
\* boost::unordered_map, whose contract promises less.
RunFinish(j) ==
    \/ /\ j.it \in mRequests
       /\ answers' = [answers EXCEPT ![j.it] =
                         Append(@, [of |-> j.msg.of, st |-> j.msg.raw])]
       /\ mRequests' = mRequests \ {j.it}
       /\ ready' = Tail(ready)
       /\ UNCHANGED <<calls, refused, conn, mServers, said, fault>>
    \/ j.it \notin mRequests /\ Faulty("dangling_iterator")

-----------------------------------------------------------------------------
(* Losing a server.                                                        *)

\* OnServerRemoved: one FinishRequest per id ever sent to the server, on the
\* entry that has the id now.  (mPendingRequests names the calls; the code
\* has their ids only.)
FinishAll(c) ==
    LET ids == conn[c].mPendingRequests
        jobs[k \in 0..Len(ids)] ==
            IF k = 0 THEN <<>>
            ELSE jobs[k - 1] \o FinishRequest(Entry(Id(ids[k])), ids[k],
                                             ERequest_NETWORK_ERROR)
    IN  jobs[Len(ids)]

\* ~TcpClient closes the socket: pending operations complete as aborted.
AbortedJobs(c) ==
      (IF conn[c].rop = "none" THEN <<>>
       ELSE <<Job(conn[c].rop, c, FALSE, NoMsg, 0)>>)
   \o (IF conn[c].wop THEN <<Job("write", c, FALSE, NoMsg, 0)>> ELSE <<>>)

\* RemoveServer that forgets the requests of the server
RemoveServerSilently(c, before, after, log) ==
    /\ mServers' = mServers \ {c}
    /\ ready' = before \o after
    /\ conn' = [conn EXCEPT ![c].rop = "none", ![c].wop = FALSE]
    /\ fault' \in log
    /\ UNCHANGED <<calls, mRequests, refused, answers, said>>

\* ServerList::Remove: out of the algorithm, OnServerRemoved, out of the
\* list, which destroys the ServerItem.  before, after: the queue up to the
\* lambdas FinishRequest posts, and what the destruction adds to it; log:
\* what the log statement after the erase may do.
RemoveServer(c, before, after, log) ==
    \/ /\ \E k \in 1..Len(conn[c].mPendingRequests) :
             Find(Id(conn[c].mPendingRequests[k])) = {}
       /\ Faulty("end_iterator")
    \/ /\ \A k \in 1..Len(conn[c].mPendingRequests) :
             Find(Id(conn[c].mPendingRequests[k])) # {}
       /\ mServers' = mServers \ {c}
       /\ ready' = before \o FinishAll(c) \o after
       /\ conn' = [conn EXCEPT ![c].rop = "none", ![c].wop = FALSE]
       /\ fault' \in log
       /\ UNCHANGED <<calls, mRequests, refused, answers, said>>

\* OnError with no slot connected
OnErrorIgnored(c, before, after) ==
    /\ ready' = Tail(ready)
    /\ UNCHANGED <<calls, mRequests, refused, conn, mServers, answers, said,
                   fault>>

\* The slot ServerList::Add connects to OnError.  It passes Host() of the
\* item by reference, and Remove logs it after destroying the item: harmless
\* when the log filter drops the record.
OnError(c, before, after) ==
    RemoveServer(c, before, after, {"none", "freed_host"})

\* The failure of async_connect leaves the socket to the destructor.
ConnectError(c) == OnError(c, Tail(ready), AbortedJobs(c))

\* Close4Error closes the socket before it raises OnError.
Close4Error(c) == OnError(c, Tail(ready) \o AbortedJobs(c), <<>>)

-----------------------------------------------------------------------------
(* The application's calls.                                                *)

HostFree(h) == \A c \in mServers : conn[c].host # h

NewConn(h, rop) ==
    [host |-> h, rop |-> rop, open |-> FALSE, wop |-> FALSE, msg |-> NoMsg,
     mPendingBuffers |-> <<>>, mWriteBuffers |-> <<>>,
     mPendingRequests |-> <<>>, wire |-> <<>>, resp |-> <<>>,
     fit |-> "fits", swallowed |-> {}, deaf |-> FALSE]

AddConn(h, rop) ==
    /\ Len(conn) < MaxConns
    /\ HostFree(h)
    /\ conn' = Append(conn, NewConn(h, rop))
    /\ mServers' = mServers \cup {Len(conn) + 1}
    /\ UNCHANGED <<calls, mRequests, refused, ready, answers, said, fault>>

AddServer == \E h \in Hosts : AddConn(h, "connect")

\* Connect throws out of Add (the name does not resolve): the item stays in
\* the list and in the algorithm, its socket was never opened.
AddServerThrows == \E h \in Hosts : AddConn(h, "none")

\* The caller's host name outlives the item, so the log is harmless.
RemoveByUser ==
    /\ MayRemove
    /\ \E c \in mServers : RemoveServer(c, ready, AbortedJobs(c), {"none"})

\* Issue with mRequests[id] = item in place of insert
IssueOverwrite(kind, c) ==
    LET r == Len(calls) + 1
    IN  /\ calls' = Append(calls, [kind |-> kind, c |-> c, more |-> FALSE])
        /\ mRequests' = (mRequests \ Find(Id(r))) \cup {r}
        /\ conn' = [conn EXCEPT ![c].mPendingRequests = Append(@, r)]
        /\ ready' = Append(ready, Job("send", c, TRUE, NoMsg, r))
        /\ UNCHANGED <<refused, mServers, answers, said, fault>>

\* The common body of the operations: take an id, enter the request, and
\* ServerItem::SendRequest.
Issue(kind, c) ==
    LET r == Len(calls) + 1
    IN  /\ \E more \in IF kind = "Stat" THEN BOOLEAN ELSE {FALSE} :
              calls' = Append(calls, [kind |-> kind, c |-> c, more |-> more])
        /\ \/ /\ Find(Id(r)) = {}
              /\ mRequests' = mRequests \cup {r} /\ UNCHANGED refused
           \/ /\ Find(Id(r)) # {}
              /\ refused' = refused \cup {r} /\ UNCHANGED mRequests
        /\ conn' = [conn EXCEPT ![c].mPendingRequests = Append(@, r)]
        /\ ready' = Append(ready, Job("send", c, TRUE, NoMsg, r))
        /\ UNCHANGED <<mServers, answers, said, fault>>

\* Applications add a server before they call, as the examples do.
May(kind) == kind \in Kinds /\ Len(calls) < MaxCalls /\ conn # <<>>

\* Servers.Get(key): some listed server, or nothing to dereference
Keyed(kind) == /\ May(kind)
               /\ \/ \E c \in mServers : Issue(kind, c)
                  \/ mServers = {} /\ Faulty("null_server")

\* operations on a server the caller got from Servers.Get(host,port)
Direct(kind) == May(kind) /\ \E c \in mServers : Issue(kind, c)

Get == Keyed("Get")
Store == Keyed("Store")
SelfOp == Keyed("SelfOp")
Append_ == Keyed("Append")
Delete == Keyed("Delete")
Flush == Direct("Flush")
\* Stat with an empty key; any other is copied behind the end of the buffer,
\* which has the size of the header.
Stat == \/ Direct("Stat")
        \/ May("Stat") /\ mServers # {} /\ Faulty("heap_overflow")
Version == Direct("Version")

-----------------------------------------------------------------------------
(* The io thread.  j is the head of `ready`.                               *)

\* TcpClient::Send(): on a socket that was never opened the operation fails
\* at once.
StartWrite(c, bufs) ==
    LET opened == conn[c].open \/ conn[c].rop = "connect"
    IN  /\ conn' = [conn EXCEPT ![c].mWriteBuffers = bufs,
                                ![c].mPendingBuffers = <<>>,
                                ![c].wop = opened]
        /\ ready' = IF opened THEN Tail(ready)
                    ELSE Append(Tail(ready), Job("write", c, FALSE, NoMsg, 0))

Rest == UNCHANGED <<calls, mRequests, refused, mServers, answers, said, fault>>

RunSend(j) ==
    LET pend == Append(conn[j.c].mPendingBuffers, j.it)
    IN  /\ \/ conn[j.c].mWriteBuffers = <<>> /\ StartWrite(j.c, pend)
           \/ /\ conn[j.c].mWriteBuffers # <<>>
              /\ conn' = [conn EXCEPT ![j.c].mPendingBuffers = pend]
              /\ ready' = Tail(ready)
        /\ Rest

RunWrite(j) ==
    \/ /\ j.ok /\ conn[j.c].mPendingBuffers # <<>>
       /\ StartWrite(j.c, conn[j.c].mPendingBuffers) /\ Rest
    \/ /\ j.ok /\ conn[j.c].mPendingBuffers = <<>>
       /\ conn' = [conn EXCEPT ![j.c].mWriteBuffers = <<>>]
       /\ ready' = Tail(ready) /\ Rest
    \/ ~j.ok /\ Close4Error(j.c)

RunConnect(j) ==
    \/ /\ j.ok
       /\ conn' = [conn EXCEPT ![j.c].rop = "header"]
       /\ ready' = Tail(ready) /\ Rest
    \/ ~j.ok /\ ConnectError(j.c)

\* ReadHeader() again after a response; what the handler did not read of it
\* stays in the stream.
ReadOn(c, clean) ==
    conn' = [conn EXCEPT ![c].rop = "header",
                         ![c].fit = IF clean THEN @ ELSE "short"]

\* valueLen # 0
HasValue(m) == m.shape = "value"

\* How the buffers that the result of the call `it` supplies compare with the
\* body of m; async_read takes as many bytes as they hold.  All get their size
\* from the header, except the one the caller of Get may have passed and the
\* number of MemIncResult, which is for answers to SelfOp.  The flags of a Get
\* and the keys of a Stat have a buffer in a result of their own kind only.
FillReceiveBuffer(it, m) ==
    LET own == calls[it].kind
        sent == calls[m.of].kind
    IN  IF \/ own = "Get"
           \/ /\ own = "SelfOp" /\ sent # "SelfOp"
              /\ AdjustEndian(m.raw) = ERequest_SUCCESS
        THEN Fits
        ELSE IF own # sent /\ sent \in {"Get", "Stat"} THEN {"short"} ELSE {"fits"}

\* a lookup that ignores the id
AnyEntry(m) == IF mRequests = {} THEN {} ELSE {CHOOSE r \in mRequests : TRUE}

\* the entry a response is for
EntryOf(m) == Find(Id(m.of))

\* OnHeaderReaded, with what ReadHeader's handler does on its result
RunHeader(j) ==
    LET m == j.msg
    IN  \/ /\ j.ok /\ EntryOf(m) # {} /\ ~HasValue(m)
           /\ \E it \in EntryOf(m) :
                 ready' = Tail(ready) \o
                          FinishRequest(it, m.of, AdjustEndian(m.raw))
           /\ ReadOn(j.c, m.shape = "empty") /\ Rest
        \/ /\ j.ok /\ HasValue(m)
           /\ \E it \in EntryOf(m) : \E fit \in FillReceiveBuffer(it, m) :
                 conn' = [conn EXCEPT ![j.c].rop = "body", ![j.c].msg = m,
                                      ![j.c].fit = fit]
           /\ ready' = Tail(ready) /\ Rest
        \/ /\ j.ok /\ EntryOf(m) = {}
           /\ ReadOn(j.c, m.shape = "empty")
           /\ ready' = Tail(ready) /\ Rest
        \/ ~j.ok /\ Close4Error(j.c)

\* RunBody that finishes the request once per buffer filled
RunBodyTwice(j) ==
    \/ /\ j.ok
       /\ \E it \in EntryOf(j.msg) :
             LET f == FinishRequest(it, j.msg.of, AdjustEndian(j.msg.raw))
             IN  ready' = Tail(ready) \o f \o f
       /\ ReadOn(j.c, TRUE) /\ Rest
    \/ ~j.ok /\ Close4Error(j.c)

\* RunBody that takes a body for success
RunBodySuccess(j) ==
    \/ /\ j.ok
       /\ ready' = IF EntryOf(j.msg) = {} THEN Tail(ready)
                   ELSE Tail(ready) \o
                        FinishRequest(CHOOSE it \in EntryOf(j.msg) : TRUE,
                                      j.msg.of, ERequest_SUCCESS)
       /\ ReadOn(j.c, TRUE) /\ Rest
    \/ ~j.ok /\ Close4Error(j.c)

\* OnBodayReaded, then ReadHeader
RunBody(j) ==
    \/ /\ j.ok
       /\ ready' = IF EntryOf(j.msg) = {} THEN Tail(ready)
                   ELSE Tail(ready) \o
                        FinishRequest(CHOOSE it \in EntryOf(j.msg) : TRUE,
                                      j.msg.of, AdjustEndian(j.msg.raw))
       /\ ReadOn(j.c, TRUE) /\ Rest
    \/ ~j.ok /\ Close4Error(j.c)

\* io_service::run() takes the next handler.  The ones of a connection hold
\* a bare pointer to it.
RunReady ==
    /\ ready # <<>>
    /\ LET j == Head(ready)
       IN  \/ j.kind = "finish" /\ RunFinish(j)
           \/ /\ j.kind # "finish" /\ j.c \notin mServers
              /\ Faulty("freed_client")
           \/ /\ j.c \in mServers
              /\ \/ j.kind = "send"    /\ RunSend(j)
                 \/ j.kind = "write"   /\ RunWrite(j)
                 \/ j.kind = "connect" /\ RunConnect(j)
                 \/ j.kind = "header"  /\ RunHeader(j)
                 \/ j.kind = "body"    /\ RunBody(j)

-----------------------------------------------------------------------------
(* The kernel: operations complete, their handlers become ready.           *)

Completes(job, upd) ==
    /\ conn' = upd
    /\ ready' = Append(ready, job)
    /\ Rest

ConnectEnds(c) ==
    /\ conn[c].rop = "connect"
    /\ \E ok \in BOOLEAN :
          Completes(Job("connect", c, ok, NoMsg, 0),
                    [conn EXCEPT ![c].rop = "none", ![c].open = ok])

WriteDone(c) ==
    /\ conn[c].wop /\ conn[c].open
    /\ Completes(Job("write", c, TRUE, NoMsg, 0),
                 [conn EXCEPT ![c].wop = FALSE,
                              ![c].wire = @ \o conn[c].mWriteBuffers])

\* A prefix of the requests may have left before the failure.
WriteFails(c) ==
    /\ conn[c].wop
    /\ \E n \in 0..(Len(conn[c].mWriteBuffers) - 1) :
          /\ conn[c].open \/ n = 0
          /\ Completes(Job("write", c, FALSE, NoMsg, 0),
                 [conn EXCEPT ![c].wop = FALSE,
                    ![c].wire = @ \o SubSeq(conn[c].mWriteBuffers, 1, n)])

HeaderArrives(c) ==
    /\ conn[c].rop = "header" /\ conn[c].resp # <<>>
    /\ \/ /\ conn[c].fit = "fits"
          /\ Completes(Job("header", c, TRUE, Head(conn[c].resp), 0),
                       [conn EXCEPT ![c].rop = "none", ![c].resp = Tail(@)])
       \/ conn[c].fit = "short" /\ Faulty("desync")

\* A read with room left takes the next response, all of it or a part, and
\* ends or goes on.
SwallowResponse(c) ==
    /\ conn[c].rop = "body" /\ conn[c].fit = "long" /\ conn[c].resp # <<>>
    /\ \E fit \in Fits :
          conn' = [conn EXCEPT
                     ![c].fit = fit, ![c].resp = Tail(@),
                     ![c].swallowed = @ \cup {Head(conn[c].resp).of}]
    /\ UNCHANGED ready /\ Rest

BodyArrives(c) ==
    /\ conn[c].rop = "body" /\ conn[c].fit # "long"
    /\ Completes(Job("body", c, TRUE, conn[c].msg, 0),
                 [conn EXCEPT ![c].rop = "none"])

ReadFails(c) ==
    /\ conn[c].rop \in {"header", "body"}
    /\ Completes(Job(conn[c].rop, c, FALSE, NoMsg, 0),
                 [conn EXCEPT ![c].rop = "none"])

-----------------------------------------------------------------------------
(* The memcached server, external: it takes the requests of a connection   *)
(* in order.  It is silent on a GETQ miss, answers a Stat with one packet  *)
(* per value and an empty one, and everything else once.  After a request  *)
(* that is longer than its header says it meets a header without the magic *)
(* byte and closes the connection.                                         *)

\* sizeof(the request structure) - sizeof(the header): sent after the header,
\* whatever key and value follow.
Extras(kind) == CASE kind \in {"Store", "Flush"} -> 8
                  [] kind = "SelfOp" -> 24
                  [] OTHER -> 0

\* what bodylen counts of them
bodylenExtras(kind) == 0

\* the operations whose header announces a body shorter than the one sent
Misframed == {kind \in AllKinds : bodylenExtras(kind) < Extras(kind)}

Response(r, shape, st) == [of |-> r, shape |-> shape, raw |-> Swap16(st)]

\* KEY_ENOENT stands for every refusal that depends on the data stored.
Responses(r) ==
    CASE calls[r].kind = "Get" ->
           {<<>>} \cup {<<Response(r, s, ERequest_SUCCESS)>> :
                           s \in {"value", "extras"}}
      [] calls[r].kind = "Stat" ->
           {[k \in 1..(n + 1) |->
                Response(r, IF k <= n THEN "value" ELSE "empty",
                         ERequest_SUCCESS)] : n \in 1..MaxStats}
      [] calls[r].kind \in {"Store", "SelfOp"} ->
           {<<Response(r, "value", ERequest_EINVAL)>>}
      [] calls[r].kind = "Version" ->
           {<<Response(r, "value", ERequest_SUCCESS)>>}
      [] calls[r].kind \in {"Append", "Delete", "Flush"} ->
           {<<Response(r, "empty", ERequest_SUCCESS)>>,
            <<Response(r, "value", ERequest_KEY_ENOENT)>>}

Serve(c) ==
    /\ conn[c].wire # <<>> /\ ~conn[c].deaf
    /\ LET r == Head(conn[c].wire)
       IN  \E rs \in Responses(r) :
              /\ conn' = [conn EXCEPT ![c].wire = Tail(@),
                                      ![c].resp = @ \o rs,
                                      ![c].deaf = calls[r].kind \in Misframed]
              /\ said' = [said EXCEPT ![r] = IF rs = <<>> THEN Silent
                                             ELSE Swap16(rs[1].raw)]
    /\ UNCHANGED <<calls, mRequests, refused, mServers, ready, answers, fault>>

-----------------------------------------------------------------------------
Next ==
    /\ fault = "none"
    /\ \/ AddServer \/ AddServerThrows \/ RemoveByUser
       \/ Get \/ Store \/ SelfOp \/ Append_ \/ Delete
       \/ Flush \/ Stat \/ Version
       \/ RunReady
       \/ \E c \in mServers :
             \/ ConnectEnds(c) \/ WriteDone(c) \/ WriteFails(c)
             \/ HeaderArrives(c) \/ SwallowResponse(c) \/ BodyArrives(c)
             \/ ReadFails(c) \/ Serve(c)

\* io_service::run() keeps running handlers; TCP delivers or fails; the
\* server answers, or closes.  Nothing obliges the application to call.
On(c, A(_)) == fault = "none" /\ c \in mServers /\ A(c)
WriteEnds(c) == WriteDone(c) \/ WriteFails(c)
ReadArrives(c) == HeaderArrives(c) \/ SwallowResponse(c) \/ BodyArrives(c)
PeerCloses(c) == conn[c].deaf /\ conn[c].resp = <<>> /\ ReadFails(c)

Fairness ==
    /\ WF_vars(fault = "none" /\ RunReady)
    /\ \A c \in 1..MaxConns : /\ WF_vars(On(c, ConnectEnds))
                              /\ WF_vars(On(c, WriteEnds))
                              /\ WF_vars(On(c, ReadArrives))
                              /\ WF_vars(On(c, Serve))
                              /\ WF_vars(On(c, PeerCloses))

Spec == Init /\ [][Next]_vars /\ Fairness

-----------------------------------------------------------------------------
(* Properties.                                                             *)

Answered(r) == answers[r] # <<>>

\* Every answer a call gets is its own, unless the ids wrapped around: onto
\* one still in the table (so that the call was never entered), onto one of
\* a call that has its answer while a response to it is still under way, or
\* (mPendingRequests being never pruned) onto one sent earlier to a server
\* that is lost now.
OwnAnswer ==
    \A r \in 1..MaxCalls : \A k \in 1..Len(answers[r]) :
       LET a == answers[r][k]
       IN  \/ a.of = r
           \/ /\ Id(a.of) = Id(r)
              /\ \/ a.of \in refused \/ Answered(a.of)
                 \/ a.st = ERequest_NETWORK_ERROR

\* A server's answer reaches its caller with the bytes of the status swapped:
\* success is seen as success and a refusal as a refusal, but as none that
\* ERequestStatus declares.
StatusSwapped ==
    \A r \in 1..MaxCalls : \A k \in 1..Len(answers[r]) :
       LET a == answers[r][k]
       IN  a.of = r /\ a.st # ERequest_NETWORK_ERROR
              => a.st = Swap16(said[r])

Removed == (1..Len(conn)) \ mServers

\* some call has the id of an earlier one
Reused == Len(calls) > IdSpace

Called(kinds) == \E k \in 1..Len(calls) : calls[k].kind \in kinds

\* Undefined behaviour needs a reason outside of the normal traffic: as long
\* as no server was lost or removed and no id reused, the iterators held by
\* posted lambdas are valid, and only a Stat, an empty value or a value that
\* does not fit the caller's buffer makes the client lose its place in the
\* stream.  A reused id alone does no harm unless the earlier call is still
\* in the table, or is a Stat, whose later packets find the entry of the
\* new call.  The loss of a server is survived if none of its requests was
\* ever answered (PendingRequests() still has the answered ones).
FaultsExplained ==
    /\ fault = "end_iterator" => \E r \in 1..MaxCalls : Answered(r)
    /\ fault \in {"freed_client", "freed_host"} => Removed # {}
    /\ fault = "null_server" => Removed # {}
    /\ fault = "dangling_iterator" =>
          Removed # {} \/ refused # {} \/ (Reused /\ Called({"Stat"}))
    /\ fault = "desync" => \/ refused # {} \/ Called({"Get", "Stat"})
                           \/ Removed # {} /\ Reused

Posted(r) == \E k \in 1..Len(ready) :
                ready[k].kind = "finish" /\ ready[k].it = r

\* Where a request or its response can be on the way through a connection.
Travelling(r, c) ==
    \/ \E k \in 1..Len(ready) :
          /\ ready[k].c = c
          /\ ready[k].kind \in {"send", "header", "body"}
          /\ ready[k].it = r \/ ready[k].msg.of = r
    \/ \E k \in 1..Len(conn[c].mPendingBuffers) : conn[c].mPendingBuffers[k] = r
    \/ \E k \in 1..Len(conn[c].mWriteBuffers) : conn[c].mWriteBuffers[k] = r
    \/ \E k \in 1..Len(conn[c].wire) : conn[c].wire[k] = r
    \/ \E k \in 1..Len(conn[c].resp) : conn[c].resp[k].of = r
    \/ conn[c].rop = "body" /\ conn[c].msg.of = r
    \/ \E k \in 1..Len(ready) :
          ready[k].c = c /\ ~ready[k].ok  \* about to be lost with c

\* Its response went into the buffer of a Get whose value was shorter than the
\* buffer: the client never sees the header.
Swallowed(r) == r \in mRequests /\ r \in conn[calls[r].c].swallowed

\* It is a Get whose buffer waits for more bytes than its response had.
Overlong(r) == /\ r \in mRequests
               /\ LET u == conn[calls[r].c]
                  IN  u.rop = "body" /\ u.fit = "long" /\ u.msg.of = r

\* No request is forgotten: one that is in the table is about to be finished,
\* or it is on its way through a listed connection (possibly one about to be
\* removed, which finishes it), or only the loss of its connection will finish
\* it: it is a Get the server keeps silent on, or its response was swallowed.
\* Stat is left out: mHasMoreResult is never set, and if it happens to be
\* true neither the responses nor the loss of the server finish the call.
NoOrphan ==
    fault = "none" =>
       \A r \in mRequests :
          \/ Posted(r) \/ calls[r].kind = "Stat"
          \/ /\ calls[r].c \in mServers
             /\ said[r] = Silent \/ Swallowed(r) \/ Travelling(r, calls[r].c)

\* Every call other than Stat is answered, by the server or with
\* ERequest_NETWORK_ERROR, unless undefined behaviour intervenes or a header is
\* read from a wrong position (fault), or one of the three things happens that
\* keep it in the table for good: a Get that misses, a Get whose buffer is
\* longer than the value (example/SyncGet.cpp passes 13 bytes, whatever the
\* value), and a response that such a buffer swallowed.
CallsAnswered ==
    \A r \in 1..MaxCalls :
       (r \in mRequests /\ calls[r].kind # "Stat")
          ~> \/ Answered(r) \/ fault # "none"
             \/ said[r] = Silent \/ Overlong(r) \/ Swallowed(r)

\* The callback of Get in example/AsyncGet.cpp has a branch for a Get that
\* failed: every Get is answered, hit or miss.
GetAnswered ==
    \A r \in 1..MaxCalls :
       (r \in mRequests /\ calls[r].kind = "Get")
          ~> (Answered(r) \/ fault # "none")
=============================================================================
