----------------------------- MODULE ServerList -----------------------------
(***************************************************************************)
(* serverManager/ServerList.cpp, called by several application threads and *)
(* by the io thread, with the part of the client's operations that works   *)
(* on the list: Servers.Get under the lock, then the table of requests and *)
(* SendRequest without it.                                                 *)
(*                                                                         *)
(* Every method of the list holds mMutex from its first line to its last,  *)
(* the signals included, so a method is one step of the owner of the       *)
(* mutex.  An algorithm is how many entries it holds for a server:         *)
(* MemoDistri keeps one per Add, ConsistentHashDistri the points of the    *)
(* server whoever added them; which server Get chooses is the subject of   *)
(* their own modules.  Responses are not modelled, nor what runs on a      *)
(* server after its destruction, the log line at the end of Remove         *)
(* included: see MemcachedClient.  The first undefined behaviour is        *)
(* recorded in `fault` and ends the behaviour.                             *)
(***************************************************************************)
EXTENDS Integers, Sequences, FiniteSets

CONSTANTS Addrs,     \* host and port
          Key,       \* ServerItem::ToString: host and port put together
          Threads,   \* application threads
          Io,        \* the thread in io_service::run()
          Algs,      \* the algorithm objects of the application
          Counting,  \* the ones of class MemoDistri
          Null,
          MaxItems,  \* bound: ServerItems created
          MaxCalls   \* bound: calls of the application

ASSUME ListAssumption ==
    /\ Addrs \subseteq DOMAIN Key
    /\ Counting \subseteq Algs /\ Null \notin Algs
    /\ Io \notin Threads /\ Null \notin Threads \cup {Io}
    /\ IsFiniteSet(Threads)
    /\ MaxItems \in Nat /\ MaxCalls \in Nat

Actors == Threads \cup {Io}
Items == 1..MaxItems

VARIABLES
    mServers,             \* the map from keys to ServerItems
    mDistributeAlgorithm, \* the algorithm in use
    entries,              \* per algorithm and server, its entries
    addr,                 \* the addresses of the ServerItems created
    errs,                 \* how often the server's OnError can still fire
    mMutex,               \* the owner of the mutex
    pc, job,              \* where each thread is, and what it is doing
    server,               \* the shared pointer a client operation holds
    mPendingRequests,     \* per server, the operations sent to it
    mRequests,            \* the operations in the client's table
    calls,                \* number of calls begun
    forgotten,            \* listed servers the algorithm was made to drop
    userRemoved,          \* servers an application thread removed
    late,                 \* operations sent to a server already removed
    fault

lvars == <<mServers, mDistributeAlgorithm, entries, addr, errs,
           mPendingRequests, mRequests, forgotten, userRemoved>>
vars == <<lvars, mMutex, pc, job, server, calls, late, fault>>

NoJob == [op |-> "none", arg |-> Null, of |-> 0]

Init == /\ mServers = [k \in {} |-> 0] /\ mDistributeAlgorithm = Null
        /\ entries = [a \in Algs |-> [i \in Items |-> 0]]
        /\ addr = <<>> /\ errs = [i \in Items |-> 0]
        /\ mMutex = Null
        /\ pc = [t \in Actors |-> "idle"] /\ job = [t \in Actors |-> NoJob]
        /\ server = [t \in Threads |-> 0]
        /\ mPendingRequests = [i \in Items |-> {}] /\ mRequests = {}
        /\ calls = 0 /\ forgotten = {} /\ userRemoved = {} /\ late = {}
        /\ fault = "none"

Faulty(f) == fault' = f /\ UNCHANGED <<lvars, mMutex, pc, job, server, calls,
                                       late>>

Listed == {mServers[k] : k \in DOMAIN mServers}

\* Shared pointers: the map's, and those of operations in progress.  (The
\* algorithm's disappear together with the map's.)
Alive(i) == i \in Listed \/ \E t \in Threads : server[t] = i

-----------------------------------------------------------------------------
(* The algorithms, as far as the list relies on them.                      *)

AlgAdd(a, e, i) == [e EXCEPT ![i] = IF a \in Counting THEN @ + 1 ELSE 1]

AlgRemove(a, e, i) ==
    [e EXCEPT ![i] = IF a \in Counting /\ @ > 0 THEN @ - 1 ELSE 0]

AlgClear == [i \in Items |-> 0]

\* Get: a server it has an entry for, or a null pointer
AlgGet(e) == LET has == {i \in Items : e[i] > 0}
             IN  IF has = {} THEN {0} ELSE has

-----------------------------------------------------------------------------
(* Taking the mutex.                                                       *)

Begin(t, op, arg, of) ==
    /\ pc[t] = "idle"
    /\ pc' = [pc EXCEPT ![t] = "lock"]
    /\ job' = [job EXCEPT ![t] = [op |-> op, arg |-> arg, of |-> of]]

\* The calls an application thread makes.
Call == calls < MaxCalls /\ calls' = calls + 1

CallList(t) ==
    /\ Call
    /\ \/ /\ Len(addr) + Cardinality({u \in Threads : job[u].op = "Add"})
             < MaxItems
          /\ \E a \in Addrs : Begin(t, "Add", a, 0)
       \/ \E a \in Addrs : Begin(t, "Remove", a, 0)
       \/ \E a \in Algs : Begin(t, "SetDistributeAlgorithm", a, 0)
    /\ UNCHANGED <<lvars, mMutex, server, late, fault>>

\* An operation with a key, or (Flush, Stat, Version) with a server that the
\* application gets by its address.
CallOp(t) ==
    /\ Call
    /\ \/ Begin(t, "Get", Null, calls + 1)
       \/ \E a \in Addrs : Begin(t, "GetAt", a, calls + 1)
    /\ UNCHANGED <<lvars, mMutex, server, late, fault>>

Lock(t) ==
    /\ pc[t] = "lock" /\ mMutex = Null
    /\ mMutex' = t /\ pc' = [pc EXCEPT ![t] = "held"]
    /\ UNCHANGED <<lvars, job, server, calls, late, fault>>

Owns(t, op) == pc[t] = "held" /\ job[t].op = op

\* leaving the method, normally or by an exception
Leave(t) == /\ mMutex' = Null
            /\ pc' = [pc EXCEPT ![t] = "idle"]
            /\ job' = [job EXCEPT ![t] = NoJob]

Unlisted == UNCHANGED <<mServers, addr, errs, mPendingRequests, mRequests>>

-----------------------------------------------------------------------------
(* The methods.                                                            *)

\* Enters the new server: slot on OnError, algorithm, Connect, OnServerAdded.
\* Connect may throw out of Add (the name does not resolve), which leaves
\* the rest in place; then only a write, later, can fail.  Otherwise the
\* connect or read operation can fail, and a write.
Enter(a) ==
    LET i == Len(addr) + 1
        alg == mDistributeAlgorithm
    IN  /\ addr' = Append(addr, a)
        /\ mServers' = [k \in DOMAIN mServers \cup {Key[a]} |->
                           IF k = Key[a] THEN i ELSE mServers[k]]
        /\ entries' = [entries EXCEPT ![alg] = AlgAdd(alg, @, i)]
        /\ \E n \in {1, 2} : errs' = [errs EXCEPT ![i] = n]
        /\ UNCHANGED <<mDistributeAlgorithm, mPendingRequests, mRequests,
                       forgotten, userRemoved>>

\* Add with mServers[key] = item in place of find and insert
AddOverwrites(t) ==
    /\ Owns(t, "Add") /\ mDistributeAlgorithm # Null
    /\ Enter(job[t].arg)
    /\ Leave(t) /\ UNCHANGED <<server, calls, late, fault>>

Add(t) ==
    /\ Owns(t, "Add")
    /\ \/ /\ Key[job[t].arg] \in DOMAIN mServers    \* return false
          /\ Leave(t) /\ UNCHANGED <<lvars, server, calls, late, fault>>
       \/ /\ Key[job[t].arg] \notin DOMAIN mServers
          /\ mDistributeAlgorithm = Null
          /\ Faulty("null_algorithm")
       \/ /\ Key[job[t].arg] \notin DOMAIN mServers
          /\ mDistributeAlgorithm # Null
          /\ Enter(job[t].arg)
          /\ Leave(t) /\ UNCHANGED <<server, calls, late, fault>>

\* Takes the server with the key out of algorithm and map.  In between
\* OnServerRemoved: the client hands the server's requests to FinishRequest,
\* which posts and does not come back to the list.
Erase(t, k) ==
    LET i == mServers[k]
        alg == mDistributeAlgorithm
    IN  /\ entries' = [entries EXCEPT ![alg] = AlgRemove(alg, @, i)]
        /\ mRequests' = mRequests \ mPendingRequests[i]
        /\ mServers' = [l \in DOMAIN mServers \ {k} |-> mServers[l]]
        /\ forgotten' = forgotten \ {i}
        /\ userRemoved' = IF t = Io THEN userRemoved ELSE userRemoved \cup {i}
        /\ UNCHANGED <<mDistributeAlgorithm, addr, errs, mPendingRequests>>

\* Remove without raising OnServerRemoved
RemoveSilently(t, k) ==
    /\ \/ /\ k \in DOMAIN mServers
          /\ entries' = [entries EXCEPT ![mDistributeAlgorithm] =
                            AlgRemove(mDistributeAlgorithm, @, mServers[k])]
          /\ mServers' = [l \in DOMAIN mServers \ {k} |-> mServers[l]]
          /\ forgotten' = forgotten \ {mServers[k]}
          /\ userRemoved' = userRemoved \cup {mServers[k]}
          /\ UNCHANGED <<mDistributeAlgorithm, addr, errs, mPendingRequests,
                         mRequests>>
       \/ k \notin DOMAIN mServers /\ UNCHANGED lvars
    /\ Leave(t) /\ UNCHANGED <<server, calls, late, fault>>

\* Remove whose slot adds the server again while the list is locked
RemoveReenters(t, k) ==
    /\ k \in DOMAIN mServers /\ Erase(t, k)
    /\ pc' = [pc EXCEPT ![t] = "lock"]
    /\ job' = [job EXCEPT ![t].op = "Add"]
    /\ UNCHANGED <<mMutex, server, calls, late, fault>>

RemoveKey(t, k) ==
    /\ \/ k \in DOMAIN mServers /\ Erase(t, k)
       \/ k \notin DOMAIN mServers /\ UNCHANGED lvars   \* return false
    /\ Leave(t) /\ UNCHANGED <<server, calls, late, fault>>

Remove(t) == t # Io /\ Owns(t, "Remove") /\ RemoveKey(t, Key[job[t].arg])

\* The same method called by the slot on OnError with the host of the failed
\* server, by reference: by now the server may have been destroyed.
RemoveFailed ==
    /\ Owns(Io, "Remove")
    /\ \/ Alive(job[Io].of) /\ RemoveKey(Io, Key[job[Io].arg])
       \/ ~Alive(job[Io].of) /\ Faulty("freed_item")

\* SetDistributeAlgorithm that leaves the old algorithm as it is
SetNoClear(t) ==
    /\ Owns(t, "SetDistributeAlgorithm")
    /\ LET a == job[t].arg
       IN  /\ mDistributeAlgorithm' = a
           /\ entries' = [entries EXCEPT ![a] =
                            [i \in Items |-> IF i \in Listed
                                             THEN AlgAdd(a, @, i)[i] ELSE @[i]]]
           /\ forgotten' = {}
    /\ Leave(t)
    /\ Unlisted /\ UNCHANGED <<userRemoved, server, calls, late, fault>>

\* The servers are added to the new algorithm, then the old one is cleared,
\* even if it is the same object.
SetDistributeAlgorithm(t) ==
    /\ Owns(t, "SetDistributeAlgorithm")
    /\ LET new == job[t].arg
           old == mDistributeAlgorithm
           filled == [i \in Items |-> IF i \in Listed
                                      THEN AlgAdd(new, entries[new], i)[i]
                                      ELSE entries[new][i]]
       IN  /\ mDistributeAlgorithm' = new
           /\ entries' = [a \in Algs |-> IF a = old THEN AlgClear
                                         ELSE IF a = new THEN filled
                                         ELSE entries[a]]
           /\ forgotten' = IF old = new THEN Listed ELSE {}
    /\ Leave(t)
    /\ Unlisted /\ UNCHANGED <<userRemoved, server, calls, late, fault>>

-----------------------------------------------------------------------------
(* Operations of the client: Get and the others, from several threads.     *)

Found(t, i) == /\ server' = [server EXCEPT ![t] = i]
               /\ mMutex' = Null /\ pc' = [pc EXCEPT ![t] = "found"]
               /\ UNCHANGED <<lvars, job, calls, late, fault>>

\* Get(key)
GetByKey(t) ==
    /\ Owns(t, "Get")
    /\ \/ mDistributeAlgorithm = Null /\ Faulty("null_algorithm")
       \/ /\ mDistributeAlgorithm # Null
          /\ \E i \in AlgGet(entries[mDistributeAlgorithm]) : Found(t, i)

\* Get(host,port); the application does not go on with a null pointer.
GetByAddr(t) ==
    /\ Owns(t, "GetAt")
    /\ \/ /\ Key[job[t].arg] \in DOMAIN mServers
          /\ Found(t, mServers[Key[job[t].arg]])
       \/ /\ Key[job[t].arg] \notin DOMAIN mServers
          /\ Leave(t) /\ UNCHANGED <<lvars, server, calls, late, fault>>

\* mRequests.insert
Insert(t) ==
    /\ pc[t] = "found"
    /\ mRequests' = mRequests \cup {job[t].of}
    /\ pc' = [pc EXCEPT ![t] = "inserted"]
    /\ UNCHANGED <<mServers, mDistributeAlgorithm, entries, addr, errs,
                   mPendingRequests, forgotten, userRemoved, mMutex, job,
                   server, calls, late, fault>>

\* server->SendRequest, and the end of the operation, which gives the
\* pointer back
SendRequest(t) ==
    /\ pc[t] = "inserted"
    /\ \/ server[t] = 0 /\ Faulty("null_server")
       \/ /\ server[t] # 0
          /\ mPendingRequests' = [mPendingRequests EXCEPT ![server[t]] =
                                     @ \cup {job[t].of}]
          /\ late' = IF server[t] \in Listed THEN late
                     ELSE late \cup {job[t].of}
          /\ server' = [server EXCEPT ![t] = 0]
          /\ pc' = [pc EXCEPT ![t] = "idle"]
          /\ job' = [job EXCEPT ![t] = NoJob]
          /\ UNCHANGED <<mServers, mDistributeAlgorithm, entries, addr, errs,
                         mRequests, forgotten, userRemoved, mMutex, calls,
                         fault>>

-----------------------------------------------------------------------------
(* The io thread.                                                          *)

\* a slot that captured the variable of the last Add instead of the server
LastAddr(i) == addr[Len(addr)]

\* the server whose slot runs, as the address handed to Remove
FailedAddr(i) == addr[i]

\* The slot Add connected: it reads the server through a reference into the
\* map and calls Remove.  An error ends every operation of the connection,
\* so the slot runs once per operation outstanding: connecting or reading,
\* and writing if something was sent.
OnError(i) ==
    /\ pc[Io] = "idle" /\ i <= Len(addr) /\ Alive(i)
    /\ errs[i] = 2 \/ (errs[i] = 1 /\ mPendingRequests[i] # {})
    /\ \/ i \notin Listed /\ Faulty("dangling_slot")
       \/ /\ i \in Listed
          /\ Begin(Io, "Remove", FailedAddr(i), i)
          /\ errs' = [errs EXCEPT ![i] = @ - 1]
          /\ UNCHANGED <<mServers, mDistributeAlgorithm, entries, addr,
                         mPendingRequests, mRequests, forgotten, userRemoved,
                         mMutex, server, calls, late, fault>>

-----------------------------------------------------------------------------
Method(t) == \/ Add(t) \/ Remove(t) \/ SetDistributeAlgorithm(t)
             \/ GetByKey(t) \/ GetByAddr(t)

Next ==
    /\ fault = "none"
    /\ \/ \E t \in Threads : \/ CallList(t) \/ CallOp(t)
                             \/ Method(t) \/ Insert(t) \/ SendRequest(t)
       \/ \E t \in Actors : Lock(t)
       \/ RemoveFailed
       \/ \E i \in Items : OnError(i)

\* Threads in a method go on.  The mutex need not be fair, but a thread is
\* not passed over for ever; nothing obliges a thread to call.
Fairness ==
    /\ \A t \in Actors : SF_vars(fault = "none" /\ Lock(t))
    /\ \A t \in Threads : /\ WF_vars(fault = "none" /\ Method(t))
                          /\ WF_vars(fault = "none" /\ (Insert(t) \/ SendRequest(t)))
    /\ WF_vars(fault = "none" /\ RemoveFailed)

Spec == Init /\ [][Next]_vars /\ Fairness

-----------------------------------------------------------------------------
(* Properties.                                                             *)

\* List and algorithm agree: the algorithm in use has every listed server
\* once and no other, the others have none.  Only installing the algorithm
\* that is in use already makes it drop the servers listed at that time.
Agreement ==
    \A a \in Algs, i \in Items :
       entries[a][i] = IF a = mDistributeAlgorithm /\ i \in Listed \ forgotten
                       THEN 1 ELSE 0

\* A request that was sent is with a listed server, whose loss will finish
\* it, unless the server was removed between the lookup and SendRequest.
NothingForgotten ==
    \A r \in mRequests :
       \/ \E i \in Listed : r \in mPendingRequests[i]
       \/ r \in late
       \/ \E t \in Threads : pc[t] = "inserted" /\ job[t].of = r

\* The OnError slot, which works with a reference into the map and with the
\* address, does no harm as long as nobody else removes the server while it
\* waits for the mutex and no operation holds the server across its removal.
SlotSafe ==
    /\ fault = "freed_item" => job[Io].of \in userRemoved
    /\ fault = "dangling_slot" =>
          \E t \in Threads : server[t] \in (1..Len(addr)) \ Listed

\* A server leaves the list because an application thread removes it (by an
\* address with its key), because it failed, or because an earlier server
\* with that key failed and was removed by the application before the io
\* thread got to it.
RemovedForCause ==
    [][\A i \in Listed :
          i \in Listed' \/ \E t \in Actors :
             /\ mMutex = t /\ job[t].op = "Remove"
             /\ Key[job[t].arg] = Key[addr[i]]
             /\ t = Io => job[Io].of = i \/ job[Io].of \in userRemoved]_vars

\* Whoever calls a method of the list returns from it: no slot the library
\* connects comes back to the list with the mutex held.
CallsReturn ==
    \A t \in Actors : pc[t] = "lock" ~> pc[t] # "lock" \/ fault # "none"
=============================================================================
