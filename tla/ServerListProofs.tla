-------------------------- MODULE ServerListProofs --------------------------
(***************************************************************************)
(* Proofs about the list of servers, for every number of threads,          *)
(* addresses, keys and algorithms.  The invariant has these parts: where   *)
(* the threads are and who owns the mutex (TInv), the list and its         *)
(* algorithms (LInv), what the io thread is removing (IoInv), the requests *)
(* (RInv) and the faults (SlotSafe).  Most actions leave some of them      *)
(* alone; a frame lemma for each part says what has to stay.               *)
(***************************************************************************)
EXTENDS ServerList, FiniteSetTheorems, TLAPS

Ops == {"none", "Add", "Remove", "SetDistributeAlgorithm", "Get", "GetAt"}
Jobs == [op : Ops, arg : Addrs \cup Algs \cup {Null}, of : Nat]

\* What a thread does fits where it is: the argument has the type the method
\* takes, an idle thread has no job, and the io thread only removes.
JobOK(t) ==
    /\ job[t].op \in {"Add", "Remove", "GetAt"} => job[t].arg \in Addrs
    /\ job[t].op = "SetDistributeAlgorithm" => job[t].arg \in Algs
    /\ job[t].op \in {"Get", "GetAt"} => job[t].of \in 1..calls
    /\ pc[t] = "idle" => job[t].op = "none"
    /\ pc[t] \in {"found", "inserted"} => job[t].op \in {"Get", "GetAt"}
    /\ pc[t] = "held" => mMutex = t

TInv ==
    /\ calls \in Nat /\ mMutex \in Actors \cup {Null}
    /\ pc \in [Actors -> {"idle", "lock", "held", "found", "inserted"}]
    /\ job \in [Actors -> Jobs]
    /\ \A t \in Actors : JobOK(t)
    /\ job[Io].op \in {"none", "Remove"}

Adders == {u \in Threads : job[u].op = "Add"}

\* The server of a key has that key, so different keys have different
\* servers; there is room for the servers of the threads in Add.
LInv ==
    /\ addr \in Seq(Addrs) /\ Len(addr) + Cardinality(Adders) <= MaxItems
    /\ \A k \in DOMAIN mServers : /\ mServers[k] \in 1..Len(addr)
                                  /\ Key[addr[mServers[k]]] = k
    /\ mDistributeAlgorithm \in Algs \cup {Null}
    /\ entries \in [Algs -> [Items -> Nat]]
    /\ forgotten \subseteq Listed
    /\ Agreement

\* The server whose slot waits for the mutex is still listed, unless an
\* application thread removed it.
IoInv ==
    job[Io].op = "Remove" =>
       /\ job[Io].of \in 1..Len(addr) /\ job[Io].arg = addr[job[Io].of]
       /\ job[Io].of \in Listed \cup userRemoved

RInv ==
    /\ mPendingRequests \in [Items -> SUBSET Nat]
    /\ server \in [Threads -> Items \cup {0}]
    /\ NothingForgotten

IInv == TInv /\ LInv /\ IoInv /\ RInv /\ SlotSafe

-----------------------------------------------------------------------------
(* Threads and the mutex.                                                  *)

LEMMA ActorFacts ==
    /\ Threads \subseteq Actors /\ Io \in Actors /\ Io \notin Threads
    /\ Null \notin Actors /\ IsFiniteSet(Threads)
    /\ MaxItems \in Nat
BY ListAssumption DEF Actors

LEMMA NoJobType == NoJob \in Jobs /\ NoJob.op = "none"
BY DEF NoJob, Jobs, Ops

LEMMA LeaveT ==
    ASSUME TInv, NEW t \in Actors, pc[t] = "held", Leave(t), calls' = calls
    PROVE  TInv'
<1>1. /\ job' \in [Actors -> Jobs]
      /\ pc' \in [Actors -> {"idle", "lock", "held", "found", "inserted"}]
  BY NoJobType DEF TInv, Leave
<1>2. ASSUME NEW u \in Actors PROVE JobOK(u)'
  <2>1. CASE u = t
    BY <2>1, NoJobType DEF TInv, Leave, JobOK
  <2>2. CASE u # t
    <3>1. mMutex = t /\ pc[u] # "held"
      BY <2>2, ActorFacts DEF TInv, JobOK
    <3> QED BY <2>2, <3>1 DEF TInv, Leave, JobOK
  <2> QED BY <2>1, <2>2
<1>3. job'[Io].op \in {"none", "Remove"}
  BY NoJobType, ActorFacts DEF TInv, Leave
<1> QED BY <1>1, <1>2, <1>3 DEF TInv, Leave

\* A thread that begins a call.
LEMMA BeginT ==
    ASSUME TInv, NEW t \in Actors, NEW op, NEW arg, NEW of, Begin(t, op, arg, of),
           [op |-> op, arg |-> arg, of |-> of] \in Jobs,
           op \in {"Add", "Remove", "GetAt"} => arg \in Addrs,
           op = "SetDistributeAlgorithm" => arg \in Algs,
           op \in {"Get", "GetAt"} => of \in 1..calls',
           t = Io => op = "Remove",
           calls' \in Nat, calls <= calls', mMutex' = mMutex
    PROVE  TInv'
<1>1. /\ job' \in [Actors -> Jobs]
      /\ pc' \in [Actors -> {"idle", "lock", "held", "found", "inserted"}]
  BY DEF TInv, Begin
<1>2. ASSUME NEW u \in Actors PROVE JobOK(u)'
  <2>1. CASE u = t
    BY <2>1 DEF TInv, Begin, JobOK
  <2>2. CASE u # t
    BY <2>2 DEF TInv, Begin, JobOK, Jobs
  <2> QED BY <2>1, <2>2
<1>3. job'[Io].op \in {"none", "Remove"}
  BY ActorFacts DEF TInv, Begin
<1> QED BY <1>1, <1>2, <1>3 DEF TInv

\* A thread that goes on with its job and the mutex it has.
LEMMA MoveT ==
    ASSUME TInv, NEW t \in Actors, NEW p,
           p \in {"lock", "held", "found", "inserted"},
           pc' = [pc EXCEPT ![t] = p], UNCHANGED <<job, calls>>,
           p \in {"found", "inserted"} => job[t].op \in {"Get", "GetAt"},
           \/ p = "held" /\ mMutex = Null /\ mMutex' = t
           \/ p # "held" /\ pc[t] = "held" /\ mMutex' = Null
           \/ p # "held" /\ pc[t] # "held" /\ mMutex' = mMutex
    PROVE  TInv'
<1>1. pc' \in [Actors -> {"idle", "lock", "held", "found", "inserted"}]
      /\ mMutex' \in Actors \cup {Null}
  BY DEF TInv
<1>2. ASSUME NEW u \in Actors PROVE JobOK(u)'
  <2>1. CASE u = t
    BY <2>1 DEF TInv, JobOK
  <2>2. CASE u # t
    BY <2>2, ActorFacts DEF TInv, JobOK
  <2> QED BY <2>1, <2>2
<1> QED BY <1>1, <1>2 DEF TInv

-----------------------------------------------------------------------------
(* The number of threads in Add.                                           *)

LEMMA AddersFinite == IsFiniteSet(Adders) /\ Cardinality(Adders) \in Nat
<1>1. Adders \in SUBSET Threads
  BY DEF Adders
<1> QED BY <1>1, ActorFacts, FS_Subset, FS_CardinalityType

LEMMA AddersStep ==
    ASSUME TInv, NEW t \in Threads, NEW j, job' = [job EXCEPT ![t] = j],
           j.op # "Add"
    PROVE  Adders' = Adders \ {t}
BY ActorFacts DEF TInv, Adders

\* Leaving a method frees the place of an Add.
LEMMA LeaveAdders ==
    ASSUME TInv, NEW t \in Actors, Leave(t)
    PROVE  /\ Cardinality(Adders') \in Nat
           /\ Cardinality(Adders') <= Cardinality(Adders)
           /\ t \in Adders => Cardinality(Adders') = Cardinality(Adders) - 1
<1>1. CASE t \in Threads
  <2>1. Adders' = Adders \ {t}
    BY <1>1, AddersStep, NoJobType DEF Leave
  <2>2. /\ IsFiniteSet(Adders \ {t})
        /\ Cardinality(Adders \ {t}) = IF t \in Adders
                                       THEN Cardinality(Adders) - 1
                                       ELSE Cardinality(Adders)
    BY AddersFinite, FS_RemoveElement
  <2>3. Cardinality(Adders \ {t}) \in Nat
    BY <2>2, FS_CardinalityType
  <2> QED BY <2>1, <2>2, <2>3, AddersFinite
<1>2. CASE t \notin Threads
  <2>1. Adders' = Adders /\ t \notin Adders
    BY <1>2, ActorFacts DEF Leave, Adders, TInv
  <2> QED BY <2>1, AddersFinite
<1> QED BY <1>1, <1>2

-----------------------------------------------------------------------------
(* Frames.                                                                 *)

\* A step that leaves list and algorithms alone and lets no thread into Add
\* for which there is no room.
LEMMA FrameL ==
    ASSUME LInv, UNCHANGED <<mServers, mDistributeAlgorithm, entries, addr,
                             forgotten>>,
           Len(addr) + Cardinality(Adders') <= MaxItems
    PROVE  LInv'
BY DEF LInv, Agreement, Listed

\* The io thread goes on with the job it has, and no server is taken away.
LEMMA FrameIo ==
    ASSUME IoInv, job'[Io] = job[Io] \/ job'[Io].op = "none",
           UNCHANGED <<mServers, addr, userRemoved>>
    PROVE  IoInv'
BY DEF IoInv, Listed

\* Requests, servers and the operations between Insert and SendRequest stay.
LEMMA FrameR ==
    ASSUME RInv, UNCHANGED <<mServers, mPendingRequests, mRequests, server, late>>,
           \A t \in Threads : pc[t] = "inserted" =>
                                 pc'[t] = "inserted" /\ job'[t] = job[t]
    PROVE  RInv'
<1>1. NothingForgotten'
  <2> SUFFICES ASSUME NEW r \in mRequests
               PROVE  \/ \E i \in Listed : r \in mPendingRequests[i]
                      \/ r \in late
                      \/ \E t \in Threads : pc'[t] = "inserted" /\ job'[t].of = r
    BY DEF NothingForgotten, Listed
  <2> QED BY DEF RInv, NothingForgotten
<1> QED BY <1>1 DEF RInv

\* No new fault.
LEMMA FrameF == ASSUME fault' = "none" PROVE SlotSafe'
BY DEF SlotSafe

\* A fault changes nothing else.
LEMMA FaultyKeeps ==
    ASSUME IInv, NEW f, Faulty(f), SlotSafe' PROVE IInv'
<1> USE DEF Faulty, lvars
<1>1. TInv'
  BY DEF IInv, TInv, JobOK
<1>2. LInv'
  BY DEF IInv, LInv, Agreement, Listed, Adders
<1>3. IoInv'
  BY DEF IInv, IoInv, Listed
<1>4. RInv'
  BY DEF IInv, RInv, NothingForgotten, Listed
<1> QED BY <1>1, <1>2, <1>3, <1>4 DEF IInv

\* Leaving a method that changed nothing.
LEMMA LeaveKeeps ==
    ASSUME IInv, fault = "none", NEW t \in Actors, pc[t] = "held", Leave(t),
           UNCHANGED <<lvars, server, calls, late, fault>>
    PROVE  IInv'
<1> USE DEF lvars
<1>1. TInv'
  BY LeaveT DEF IInv
<1>2. LInv'
  <2>1. Len(addr) + Cardinality(Adders') <= MaxItems
    BY LeaveAdders, AddersFinite, ActorFacts DEF IInv, LInv
  <2> QED BY <2>1, FrameL DEF IInv
<1>3. IoInv'
  <2>1. job'[Io] = job[Io] \/ job'[Io].op = "none"
    BY NoJobType, ActorFacts DEF IInv, TInv, Leave
  <2> QED BY <2>1, FrameIo DEF IInv
<1>4. RInv'
  <2>1. \A u \in Threads : pc[u] = "inserted" =>
                              pc'[u] = "inserted" /\ job'[u] = job[u]
    BY ActorFacts DEF IInv, TInv, Leave
  <2> QED BY <2>1, FrameR DEF IInv
<1>5. SlotSafe'
  BY FrameF
<1> QED BY <1>1, <1>2, <1>3, <1>4, <1>5 DEF IInv

-----------------------------------------------------------------------------
(* Calls and the mutex.                                                    *)

\* A begun call: no server, request or algorithm changes.
LEMMA BeginKeeps ==
    ASSUME IInv, fault = "none", NEW t \in Threads, NEW op, NEW arg, NEW of,
           Begin(t, op, arg, of), TInv',
           Len(addr) + Cardinality(Adders') <= MaxItems,
           UNCHANGED <<lvars, server, late, fault>>
    PROVE  IInv'
<1> USE DEF lvars
<1>1. LInv'
  BY FrameL DEF IInv
<1>2. IoInv'
  <2>1. job'[Io] = job[Io]
    BY ActorFacts DEF IInv, TInv, Begin
  <2> QED BY <2>1, FrameIo DEF IInv
<1>3. RInv'
  <2>1. \A u \in Threads : pc[u] = "inserted" =>
                              pc'[u] = "inserted" /\ job'[u] = job[u]
    BY ActorFacts DEF IInv, TInv, Begin
  <2> QED BY <2>1, FrameR DEF IInv
<1> QED BY <1>1, <1>2, <1>3, FrameF DEF IInv

LEMMA CallListKeeps ==
    ASSUME IInv, fault = "none", NEW t \in Threads, CallList(t) PROVE IInv'
<1>0. calls' = calls + 1 /\ calls \in Nat /\ mMutex' = mMutex
      /\ t \in Actors /\ t # Io
      /\ UNCHANGED <<lvars, server, late, fault>>
  BY ActorFacts DEF CallList, Call, IInv, TInv
<1>1. ASSUME NEW a \in Addrs, Begin(t, "Add", a, 0),
             Len(addr) + Cardinality(Adders) < MaxItems
      PROVE  IInv'
  <2>1. [op |-> "Add", arg |-> a, of |-> 0] \in Jobs
    BY DEF Jobs, Ops
  <2>2. TInv'
    BY <1>0, <1>1, <2>1, BeginT DEF IInv
  <2>3. Adders' = Adders \cup {t}
    BY <1>1, ActorFacts DEF IInv, TInv, Begin, Adders
  <2>4. Cardinality(Adders \cup {t}) = IF t \in Adders THEN Cardinality(Adders)
                                       ELSE Cardinality(Adders) + 1
    BY AddersFinite, FS_AddElement
  <2>5. Len(addr) \in Nat
    BY DEF IInv, LInv
  <2>6. Len(addr) + Cardinality(Adders') <= MaxItems
    BY <1>1, <2>3, <2>4, <2>5, AddersFinite, ActorFacts
  <2> QED BY <1>0, <1>1, <2>2, <2>6, BeginKeeps
<1>2. ASSUME NEW op \in {"Remove", "SetDistributeAlgorithm"}, NEW a,
             Begin(t, op, a, 0),
             op = "Remove" => a \in Addrs,
             op = "SetDistributeAlgorithm" => a \in Algs
      PROVE  IInv'
  <2>1. [op |-> op, arg |-> a, of |-> 0] \in Jobs
    BY <1>2 DEF Jobs, Ops
  <2>2. TInv'
    BY <1>0, <1>2, <2>1, BeginT DEF IInv
  <2>3. Adders' = Adders
    BY <1>2, ActorFacts DEF IInv, TInv, Begin, Adders, JobOK
  <2> QED BY <1>0, <1>2, <2>2, <2>3, BeginKeeps DEF IInv, LInv
<1> QED BY <1>1, <1>2 DEF CallList, Adders

LEMMA CallOpKeeps ==
    ASSUME IInv, fault = "none", NEW t \in Threads, CallOp(t) PROVE IInv'
<1>0. calls' = calls + 1 /\ calls \in Nat /\ mMutex' = mMutex
      /\ t \in Actors /\ t # Io
      /\ UNCHANGED <<lvars, server, late, fault>>
  BY ActorFacts DEF CallOp, Call, IInv, TInv
<1>1. PICK op \in {"Get", "GetAt"}, a \in Addrs \cup {Null} :
         Begin(t, op, a, calls + 1) /\ (op = "GetAt" => a \in Addrs)
  BY DEF CallOp
<1>2. [op |-> op, arg |-> a, of |-> calls + 1] \in Jobs
  BY <1>0 DEF Jobs, Ops
<1>3. TInv'
  BY <1>0, <1>1, <1>2, BeginT DEF IInv
<1>4. Adders' = Adders
  BY <1>1, ActorFacts DEF IInv, TInv, Begin, Adders, JobOK
<1> QED BY <1>0, <1>1, <1>3, <1>4, BeginKeeps DEF IInv, LInv

\* Steps of a thread that goes on with its job.
LEMMA MoveKeeps ==
    ASSUME IInv, fault = "none", TInv', UNCHANGED <<lvars, job, late, fault>>,
           server' \in [Threads -> Items \cup {0}],
           \A u \in Threads : pc[u] = "inserted" => pc'[u] = "inserted"
    PROVE  IInv'
<1> USE DEF lvars
<1>1. LInv'
  <2>1. Adders' = Adders
    BY DEF Adders
  <2> QED BY <2>1, FrameL DEF IInv, LInv
<1>2. IoInv'
  BY FrameIo DEF IInv
<1>3. RInv'
  <2> SUFFICES NothingForgotten'
    BY DEF IInv, RInv
  <2> SUFFICES ASSUME NEW r \in mRequests
               PROVE  \/ \E i \in Listed : r \in mPendingRequests[i]
                      \/ r \in late
                      \/ \E t \in Threads : pc'[t] = "inserted" /\ job[t].of = r
    BY DEF NothingForgotten, Listed
  <2> QED BY DEF IInv, RInv, NothingForgotten
<1> QED BY <1>1, <1>2, <1>3, FrameF DEF IInv

LEMMA LockKeeps ==
    ASSUME IInv, fault = "none", NEW t \in Actors, Lock(t) PROVE IInv'
<1>1. TInv'
  BY MoveT DEF IInv, Lock
<1>2. \A u \in Threads : pc[u] = "inserted" => pc'[u] = "inserted"
  BY ActorFacts DEF IInv, TInv, Lock
<1> QED BY <1>1, <1>2, MoveKeeps DEF IInv, RInv, Lock

LEMMA FoundKeeps ==
    ASSUME IInv, fault = "none", NEW t \in Threads, NEW i \in Items \cup {0},
           pc[t] = "held", job[t].op \in {"Get", "GetAt"}, Found(t, i)
    PROVE  IInv'
<1>1. TInv'
  BY MoveT, ActorFacts DEF IInv, Found
<1>2. \A u \in Threads : pc[u] = "inserted" => pc'[u] = "inserted"
  BY ActorFacts DEF IInv, TInv, Found
<1>3. server' \in [Threads -> Items \cup {0}]
  BY DEF IInv, RInv, Found
<1> QED BY <1>1, <1>2, <1>3, MoveKeeps DEF Found

-----------------------------------------------------------------------------
(* The methods.                                                            *)

LEMMA InitKeeps == Init => IInv
<1> SUFFICES ASSUME Init PROVE IInv
  OBVIOUS
<1>1. TInv
  BY NoJobType, ActorFacts DEF Init, TInv, JobOK
<1>2. Listed = {} /\ Adders = {}
  BY NoJobType, ActorFacts DEF Init, Listed, Adders
<1>3. LInv
  <2>1. Len(addr) + Cardinality(Adders) <= MaxItems
    BY <1>2, FS_EmptySet, ActorFacts DEF Init
  <2>2. Agreement
    BY <1>2 DEF Init, Agreement
  <2> QED BY <1>2, <2>1, <2>2 DEF Init, LInv
<1>4. IoInv /\ SlotSafe
  BY NoJobType, ActorFacts DEF Init, IoInv, SlotSafe
<1>5. RInv
  BY DEF Init, RInv, NothingForgotten
<1> QED BY <1>1, <1>3, <1>4, <1>5 DEF IInv

\* The servers there are have numbers within the bound.
LEMMA ListedItems ==
    ASSUME LInv
    PROVE  Len(addr) \in Nat /\ 1..Len(addr) \subseteq Items
           /\ Listed \subseteq 1..Len(addr)
<1>1. Len(addr) \in Nat /\ Len(addr) <= MaxItems
  BY AddersFinite, ActorFacts DEF LInv
<1> QED BY <1>1, ActorFacts DEF LInv, Listed, Items

\* Add: the new server is listed and the algorithm has it once.
LEMMA EnterL ==
    ASSUME LInv, NEW a \in Addrs, Key[a] \notin DOMAIN mServers,
           mDistributeAlgorithm # Null, Enter(a),
           Len(addr) + 1 + Cardinality(Adders') <= MaxItems,
           Cardinality(Adders') \in Nat
    PROVE  LInv' /\ Listed' = Listed \cup {Len(addr) + 1}
<1> DEFINE i == Len(addr) + 1
<1> DEFINE alg == mDistributeAlgorithm
<1>0. Len(addr) \in Nat /\ i \in Items /\ i \notin Listed /\ alg \in Algs
  BY ListedItems, ActorFacts DEF LInv, Items
<1>1. addr' \in Seq(Addrs) /\ Len(addr') = i /\ addr'[i] = a
      /\ \A j \in 1..Len(addr) : addr'[j] = addr[j]
  BY DEF LInv, Enter
<1>2. Listed' = Listed \cup {i}
  BY DEF Listed, Enter
<1>3. \A k \in DOMAIN mServers' : mServers'[k] \in 1..Len(addr')
                                  /\ Key[addr'[mServers'[k]]] = k
  <2> SUFFICES ASSUME NEW k \in DOMAIN mServers'
               PROVE  mServers'[k] \in 1..Len(addr')
                      /\ Key[addr'[mServers'[k]]] = k
    OBVIOUS
  <2>1. CASE k = Key[a]
    BY <1>0, <1>1, <2>1 DEF Enter
  <2>2. CASE k # Key[a]
    <3>1. k \in DOMAIN mServers /\ mServers'[k] = mServers[k]
      BY <2>2 DEF Enter
    <3> QED BY <1>0, <1>1, <3>1 DEF LInv
  <2> QED BY <2>1, <2>2
<1>4. entries' \in [Algs -> [Items -> Nat]]
  BY <1>0 DEF LInv, Enter, AlgAdd
<1>5. Agreement'
  <2> SUFFICES ASSUME NEW b \in Algs, NEW j \in Items
               PROVE  entries'[b][j] = IF b = alg /\ j \in (Listed \cup {i}) \ forgotten
                                       THEN 1 ELSE 0
    BY <1>2 DEF Agreement, Enter
  <2>1. i \notin forgotten
    BY <1>0 DEF LInv
  <2>2. CASE b = alg /\ j = i
    <3>1. entries[alg][i] = 0
      BY <1>0 DEF LInv, Agreement
    <3>2. entries'[b][j] = AlgAdd(alg, entries[alg], i)[i]
      BY <1>0, <2>2 DEF LInv, Enter
    <3>3. AlgAdd(alg, entries[alg], i)[i] = 1
      BY <1>0, <3>1 DEF AlgAdd, LInv
    <3> QED BY <2>1, <2>2, <3>2, <3>3
  <2>3. CASE ~(b = alg /\ j = i)
    <3>1. entries'[b][j] = entries[b][j]
      BY <1>0, <2>3 DEF LInv, Enter, AlgAdd
    <3> QED BY <2>3, <3>1 DEF LInv, Agreement
  <2> QED BY <2>2, <2>3
<1>6. Len(addr') + Cardinality(Adders') <= MaxItems
  BY <1>0, <1>1
<1>7. forgotten' \subseteq Listed' /\ mDistributeAlgorithm' \in Algs \cup {Null}
  BY <1>0, <1>2 DEF Enter, LInv
<1> QED BY <1>1, <1>2, <1>3, <1>4, <1>5, <1>6, <1>7 DEF LInv

LEMMA AddKeeps ==
    ASSUME IInv, fault = "none", NEW t \in Threads, Add(t) PROVE IInv'
<1>0. t \in Actors /\ t # Io /\ pc[t] = "held" /\ job[t].op = "Add"
      /\ job[t].arg \in Addrs
  BY ActorFacts DEF Add, Owns, IInv, TInv, JobOK
<1>1. CASE Leave(t) /\ UNCHANGED <<lvars, server, calls, late, fault>>
  BY <1>0, <1>1, LeaveKeeps
<1>2. CASE Faulty("null_algorithm")
  BY <1>2, FaultyKeeps DEF Faulty, SlotSafe
<1>3. CASE /\ Key[job[t].arg] \notin DOMAIN mServers
           /\ mDistributeAlgorithm # Null
           /\ Enter(job[t].arg)
           /\ Leave(t) /\ UNCHANGED <<server, calls, late, fault>>
  <2>1. TInv'
    BY <1>0, <1>3, LeaveT DEF IInv
  <2>2. Cardinality(Adders') \in Nat
        /\ Len(addr) + 1 + Cardinality(Adders') <= MaxItems
    <3>1. t \in Adders
      BY <1>0 DEF Adders
    <3> QED BY <1>0, <1>3, <3>1, LeaveAdders, AddersFinite, ListedItems, ActorFacts
            DEF IInv, LInv
  <2>3. LInv' /\ Listed' = Listed \cup {Len(addr) + 1}
    BY <1>0, <1>3, <2>2, EnterL DEF IInv
  <2>4. IoInv'
    <3>1. job'[Io] = job[Io]
      BY <1>0, <1>3, ActorFacts DEF IInv, TInv, Leave
    <3>2. Len(addr') = Len(addr) + 1 /\ \A j \in 1..Len(addr) : addr'[j] = addr[j]
      BY <1>0, <1>3 DEF IInv, LInv, Enter
    <3>3. userRemoved' = userRemoved /\ Len(addr) \in Nat
      BY <1>3, ListedItems DEF Enter, IInv
    <3> QED BY <2>3, <3>1, <3>2, <3>3 DEF IInv, IoInv
  <2>5. RInv'
    <3>1. \A u \in Threads : pc[u] = "inserted" =>
                                pc'[u] = "inserted" /\ job'[u] = job[u]
      BY <1>0, <1>3, ActorFacts DEF IInv, TInv, Leave
    <3>2. NothingForgotten'
      <4> SUFFICES ASSUME NEW r \in mRequests
                   PROVE  \/ \E i \in Listed' : r \in mPendingRequests[i]
                          \/ r \in late
                          \/ \E u \in Threads : pc'[u] = "inserted" /\ job'[u].of = r
        BY <1>3 DEF NothingForgotten, Enter
      <4> QED BY <2>3, <3>1 DEF IInv, RInv, NothingForgotten
    <3> QED BY <1>3, <3>2 DEF IInv, RInv, Enter
  <2> QED BY <1>3, <2>1, <2>3, <2>4, <2>5, FrameF DEF IInv
<1> QED BY <1>1, <1>2, <1>3 DEF Add

\* Taking out the server of a key: only that server leaves the list, because
\* no two keys share one, and the algorithm in use forgets it.
LEMMA EraseL ==
    ASSUME LInv, NEW t, NEW k \in DOMAIN mServers, Erase(t, k),
           Len(addr) + Cardinality(Adders') <= MaxItems
    PROVE  LInv' /\ Listed' = Listed \ {mServers[k]} /\ mServers[k] \in Listed
<1> DEFINE i == mServers[k]
<1> DEFINE alg == mDistributeAlgorithm
<1>0. i \in Listed /\ i \in Items
  BY ListedItems DEF Listed
<1>1. Listed' = Listed \ {i}
  <2>1. \A l \in DOMAIN mServers : mServers[l] = i => l = k
    BY DEF LInv
  <2>2. DOMAIN mServers' = DOMAIN mServers \ {k}
        /\ \A l \in DOMAIN mServers \ {k} : mServers'[l] = mServers[l]
    BY DEF Erase
  <2> QED BY <2>1, <2>2 DEF Listed
<1>2. \A l \in DOMAIN mServers' : mServers'[l] \in 1..Len(addr')
                                  /\ Key[addr'[mServers'[l]]] = l
  BY DEF LInv, Erase
<1>3. entries' \in [Algs -> [Items -> Nat]]
  <2>1. ASSUME NEW e \in [Items -> Nat] PROVE AlgRemove(alg, e, i) \in [Items -> Nat]
    BY <2>1, <1>0 DEF AlgRemove
  <2> QED BY <2>1 DEF LInv, Erase
<1>4. Agreement'
  <2> SUFFICES ASSUME NEW b \in Algs, NEW j \in Items
               PROVE  entries'[b][j] = IF b = alg /\ j \in (Listed \ {i}) \ (forgotten \ {i})
                                       THEN 1 ELSE 0
    BY <1>1 DEF Agreement, Erase
  <2>1. CASE b = alg /\ j = i
    <3>1. entries[alg][i] \in {0, 1}
      BY <1>0, <2>1 DEF LInv, Agreement
    <3>2. entries'[b][j] = AlgRemove(alg, entries[alg], i)[i]
      BY <1>0, <2>1 DEF LInv, Erase
    <3>3. AlgRemove(alg, entries[alg], i)[i] = 0
      BY <1>0, <2>1, <3>1 DEF AlgRemove, LInv
    <3> QED BY <2>1, <3>2, <3>3
  <2>2. CASE ~(b = alg /\ j = i)
    <3>1. entries'[b][j] = entries[b][j]
      BY <1>0, <2>2 DEF LInv, Erase, AlgRemove
    <3> QED BY <2>2, <3>1 DEF LInv, Agreement
  <2> QED BY <2>1, <2>2
<1> QED BY <1>0, <1>1, <1>2, <1>3, <1>4 DEF LInv, Erase

LEMMA RemoveKeyKeeps ==
    ASSUME IInv, fault = "none", NEW t \in Actors, pc[t] = "held", NEW k,
           RemoveKey(t, k)
    PROVE  IInv'
<1>1. CASE k \notin DOMAIN mServers
  BY <1>1, LeaveKeeps DEF RemoveKey
<1>2. CASE k \in DOMAIN mServers
  <2>0. Erase(t, k) /\ Leave(t) /\ UNCHANGED <<server, calls, late, fault>>
    BY <1>2 DEF RemoveKey
  <2>1. TInv'
    BY <2>0, LeaveT DEF IInv
  <2>2. LInv' /\ Listed' = Listed \ {mServers[k]} /\ mServers[k] \in Listed
    <3>1. Len(addr) + Cardinality(Adders') <= MaxItems
      BY <2>0, LeaveAdders, AddersFinite, ActorFacts DEF IInv, LInv
    <3> QED BY <1>2, <2>0, <3>1, EraseL DEF IInv
  <2>3. IoInv'
    <3>1. CASE t = Io
      BY <2>0, <3>1, NoJobType DEF IoInv, Leave, IInv, TInv
    <3>2. CASE t # Io
      <4>1. job'[Io] = job[Io]
        BY <2>0, <3>2, ActorFacts DEF IInv, TInv, Leave
      <4>2. addr' = addr /\ userRemoved' = userRemoved \cup {mServers[k]}
        BY <2>0, <3>2 DEF Erase
      <4> QED BY <2>2, <4>1, <4>2 DEF IInv, IoInv
    <3> QED BY <3>1, <3>2
  <2>4. RInv'
    <3>1. \A u \in Threads : pc[u] = "inserted" =>
                                pc'[u] = "inserted" /\ job'[u] = job[u]
      BY <2>0, ActorFacts DEF IInv, TInv, Leave
    <3>2. NothingForgotten'
      <4> SUFFICES ASSUME NEW r \in mRequests \ mPendingRequests[mServers[k]]
                   PROVE  \/ \E i \in Listed' : r \in mPendingRequests[i]
                          \/ r \in late
                          \/ \E u \in Threads : pc'[u] = "inserted" /\ job'[u].of = r
        BY <2>0 DEF NothingForgotten, Erase
      <4> QED BY <2>2, <3>1 DEF IInv, RInv, NothingForgotten
    <3> QED BY <2>0, <3>2 DEF IInv, RInv, Erase
  <2> QED BY <2>0, <2>1, <2>2, <2>3, <2>4, FrameF DEF IInv
<1> QED BY <1>1, <1>2

LEMMA RemoveFailedKeeps ==
    ASSUME IInv, fault = "none", RemoveFailed PROVE IInv'
<1>1. CASE RemoveKey(Io, Key[job[Io].arg])
  BY <1>1, RemoveKeyKeeps, ActorFacts DEF RemoveFailed, Owns
<1>2. CASE ~Alive(job[Io].of) /\ Faulty("freed_item")
  <2>1. job[Io].of \in userRemoved
    BY <1>2 DEF RemoveFailed, Owns, IInv, IoInv, Alive
  <2> QED BY <1>2, <2>1, FaultyKeeps DEF Faulty, SlotSafe, lvars
<1> QED BY <1>1, <1>2 DEF RemoveFailed

\* The servers move to the new algorithm; installing the one in use leaves
\* it empty.
LEMMA SetKeeps ==
    ASSUME IInv, fault = "none", NEW t \in Threads, SetDistributeAlgorithm(t)
    PROVE  IInv'
<1> DEFINE new == job[t].arg
<1> DEFINE old == mDistributeAlgorithm
<1> DEFINE filled == [i \in Items |-> IF i \in Listed
                                      THEN AlgAdd(new, entries[new], i)[i]
                                      ELSE entries[new][i]]
<1>0. t \in Actors /\ t # Io /\ pc[t] = "held" /\ new \in Algs /\ Leave(t)
  BY ActorFacts DEF SetDistributeAlgorithm, Owns, IInv, TInv, JobOK
<1>1. /\ mDistributeAlgorithm' = new
      /\ entries' = [a \in Algs |-> IF a = old THEN AlgClear
                                    ELSE IF a = new THEN filled
                                    ELSE entries[a]]
      /\ forgotten' = (IF old = new THEN Listed ELSE {})
      /\ UNCHANGED <<mServers, addr, errs, mPendingRequests, mRequests,
                     userRemoved, server, calls, late, fault>>
  BY DEF SetDistributeAlgorithm, Unlisted
<1>2. Listed' = Listed
  BY <1>1 DEF Listed
<1>3. ASSUME NEW i \in Items, old # new
      PROVE  filled[i] = IF i \in Listed THEN 1 ELSE 0
  <2>1. entries[new][i] = 0
    BY <1>0, <1>3 DEF IInv, LInv, Agreement
  <2>2. AlgAdd(new, entries[new], i)[i] = 1
    BY <1>0, <2>1 DEF AlgAdd, IInv, LInv
  <2> QED BY <2>1, <2>2
<1>4. Agreement'
  <2> SUFFICES ASSUME NEW a \in Algs, NEW i \in Items
               PROVE  entries'[a][i] = IF a = new /\ i \in Listed \ forgotten'
                                       THEN 1 ELSE 0
    BY <1>1, <1>2 DEF Agreement
  <2>1. CASE a = old
    BY <1>1, <2>1 DEF AlgClear
  <2>2. CASE a # old /\ a = new
    <3>1. entries'[a] = filled /\ forgotten' = {}
      BY <1>1, <2>2
    <3>2. filled[i] = IF i \in Listed THEN 1 ELSE 0
      BY <1>3, <2>2
    <3> QED BY <2>2, <3>1, <3>2
  <2>3. CASE a # old /\ a # new
    <3>1. entries'[a] = entries[a]
      BY <1>1, <2>3
    <3> QED BY <2>3, <3>1 DEF IInv, LInv, Agreement
  <2> QED BY <2>1, <2>2, <2>3
<1>5. entries' \in [Algs -> [Items -> Nat]]
  <2>1. ASSUME old # new PROVE filled \in [Items -> Nat]
    BY <2>1, <1>3
  <2>2. AlgClear \in [Items -> Nat]
    BY DEF AlgClear
  <2>3. ASSUME NEW a \in Algs PROVE entries'[a] \in [Items -> Nat]
    <3>1. CASE a = old
      BY <1>1, <2>2, <3>1
    <3>2. CASE a # old /\ a = new
      BY <1>1, <2>1, <3>2
    <3>3. CASE a # old /\ a # new
      <4>1. entries'[a] = entries[a]
        BY <1>1, <3>3
      <4> QED BY <4>1 DEF IInv, LInv
    <3> QED BY <3>1, <3>2, <3>3
  <2>4. entries' = [a \in Algs |-> entries'[a]]
    BY <1>1
  <2> QED BY <2>3, <2>4
<1>6. LInv'
  <2>1. Len(addr) + Cardinality(Adders') <= MaxItems
    BY <1>0, LeaveAdders, AddersFinite, ActorFacts DEF IInv, LInv
  <2>2. forgotten' \subseteq Listed' /\ mDistributeAlgorithm' \in Algs \cup {Null}
    BY <1>0, <1>1, <1>2
  <2>3. /\ addr' \in Seq(Addrs)
        /\ Len(addr') + Cardinality(Adders') <= MaxItems
        /\ \A k \in DOMAIN mServers' : mServers'[k] \in 1..Len(addr')
                                       /\ Key[addr'[mServers'[k]]] = k
    BY <1>1, <2>1 DEF IInv, LInv
  <2> QED BY <1>4, <1>5, <2>2, <2>3 DEF LInv
<1>7. TInv'
  BY <1>0, <1>1, LeaveT DEF IInv
<1>8. IoInv'
  <2>1. job'[Io] = job[Io]
    BY <1>0, ActorFacts DEF IInv, TInv, Leave
  <2> QED BY <1>1, <2>1, FrameIo DEF IInv
<1>9. RInv'
  <2>1. \A u \in Threads : pc[u] = "inserted" =>
                              pc'[u] = "inserted" /\ job'[u] = job[u]
    BY <1>0, ActorFacts DEF IInv, TInv, Leave
  <2> QED BY <1>1, <2>1, FrameR DEF IInv
<1> QED BY <1>1, <1>6, <1>7, <1>8, <1>9, FrameF DEF IInv

-----------------------------------------------------------------------------
(* Operations of the client, and the slot on OnError.                      *)

LEMMA GetByKeyKeeps ==
    ASSUME IInv, fault = "none", NEW t \in Threads, GetByKey(t) PROVE IInv'
<1>1. CASE Faulty("null_algorithm")
  BY <1>1, FaultyKeeps DEF Faulty, SlotSafe
<1>2. CASE \E i \in AlgGet(entries[mDistributeAlgorithm]) : Found(t, i)
  <2>1. AlgGet(entries[mDistributeAlgorithm]) \subseteq Items \cup {0}
    BY DEF AlgGet
  <2> QED BY <1>2, <2>1, FoundKeeps DEF GetByKey, Owns
<1> QED BY <1>1, <1>2 DEF GetByKey

LEMMA GetByAddrKeeps ==
    ASSUME IInv, fault = "none", NEW t \in Threads, GetByAddr(t) PROVE IInv'
<1>0. t \in Actors /\ pc[t] = "held" /\ job[t].op = "GetAt"
  BY ActorFacts DEF GetByAddr, Owns
<1>1. CASE Key[job[t].arg] \in DOMAIN mServers
  <2>1. mServers[Key[job[t].arg]] \in Items
    BY <1>1, ListedItems DEF IInv, LInv
  <2> QED BY <1>0, <1>1, <2>1, FoundKeeps DEF GetByAddr
<1>2. CASE Key[job[t].arg] \notin DOMAIN mServers
  BY <1>0, <1>2, LeaveKeeps DEF GetByAddr
<1> QED BY <1>1, <1>2

\* The request enters the table while its thread is still to send it.
LEMMA InsertKeeps ==
    ASSUME IInv, fault = "none", NEW t \in Threads, Insert(t) PROVE IInv'
<1>0. t \in Actors /\ pc[t] = "found" /\ job[t].op \in {"Get", "GetAt"}
  BY ActorFacts DEF Insert, IInv, TInv, JobOK
<1>1. TInv'
  BY <1>0, MoveT DEF IInv, Insert
<1>2. Adders' = Adders
  BY DEF Adders, Insert
<1>3. LInv'
  BY <1>2, FrameL DEF IInv, LInv, Insert
<1>4. IoInv'
  BY FrameIo DEF IInv, Insert
<1>5. RInv'
  <2>1. pc'[t] = "inserted" /\ \A u \in Threads : pc[u] = "inserted" => pc'[u] = "inserted"
    BY <1>0, ActorFacts DEF IInv, TInv, Insert
  <2>2. NothingForgotten'
    <3> SUFFICES ASSUME NEW r \in mRequests \cup {job[t].of}
                 PROVE  \/ \E i \in Listed : r \in mPendingRequests[i]
                        \/ r \in late
                        \/ \E u \in Threads : pc'[u] = "inserted" /\ job[u].of = r
      BY DEF NothingForgotten, Listed, Insert
    <3> QED BY <2>1 DEF IInv, RInv, NothingForgotten
  <2> QED BY <2>2 DEF IInv, RInv, Insert
<1> QED BY <1>1, <1>3, <1>4, <1>5, FrameF DEF IInv, Insert

\* The request is with its server, or it is late.
LEMMA SendRequestKeeps ==
    ASSUME IInv, fault = "none", NEW t \in Threads, SendRequest(t) PROVE IInv'
<1>0. t \in Actors /\ t # Io /\ pc[t] = "inserted"
      /\ job[t].op \in {"Get", "GetAt"} /\ job[t].of \in Nat
  BY ActorFacts DEF SendRequest, IInv, TInv, JobOK, Jobs
<1>1. CASE Faulty("null_server")
  BY <1>1, FaultyKeeps DEF Faulty, SlotSafe
<1>2. CASE ~Faulty("null_server")
  <2>0. /\ server[t] # 0
        /\ mPendingRequests' = [mPendingRequests EXCEPT ![server[t]] =
                                   @ \cup {job[t].of}]
        /\ late' = (IF server[t] \in Listed THEN late
                    ELSE late \cup {job[t].of})
        /\ server' = [server EXCEPT ![t] = 0]
        /\ pc' = [pc EXCEPT ![t] = "idle"]
        /\ job' = [job EXCEPT ![t] = NoJob]
        /\ UNCHANGED <<mServers, mDistributeAlgorithm, entries, addr, errs,
                       mRequests, forgotten, userRemoved, mMutex, calls,
                       fault>>
    BY <1>2 DEF SendRequest
  <2>1. TInv'
    <3>1. job' \in [Actors -> Jobs]
          /\ pc' \in [Actors -> {"idle", "lock", "held", "found", "inserted"}]
      BY <2>0, NoJobType DEF IInv, TInv
    <3>2. ASSUME NEW u \in Actors PROVE JobOK(u)'
      <4>1. CASE u = t
        BY <2>0, <4>1, NoJobType DEF IInv, TInv, JobOK
      <4>2. CASE u # t
        BY <2>0, <4>2 DEF IInv, TInv, JobOK
      <4> QED BY <4>1, <4>2
    <3>3. job'[Io] = job[Io]
      BY <1>0, <2>0, ActorFacts DEF IInv, TInv
    <3> QED BY <2>0, <3>1, <3>2, <3>3 DEF IInv, TInv
  <2>2. LInv'
    <3>1. Adders' = Adders
      <4>1. t \notin Adders
        BY <1>0 DEF Adders
      <4> QED BY <2>0, <4>1, AddersStep, NoJobType DEF IInv
    <3> QED BY <2>0, <3>1, FrameL DEF IInv, LInv
  <2>3. IoInv'
    <3>1. job'[Io] = job[Io]
      BY <1>0, <2>0, ActorFacts DEF IInv, TInv
    <3> QED BY <2>0, <3>1, FrameIo DEF IInv
  <2>4. RInv'
    <3>1. server[t] \in Items
      BY <2>0 DEF IInv, RInv
    <3>2. mPendingRequests' \in [Items -> SUBSET Nat]
          /\ server' \in [Threads -> Items \cup {0}]
      BY <1>0, <2>0, <3>1 DEF IInv, RInv
    <3>3. job[t].of \in mPendingRequests'[server[t]]
          /\ \A i \in Items : mPendingRequests[i] \subseteq mPendingRequests'[i]
      BY <2>0, <3>1 DEF IInv, RInv
    <3>4. Listed' = Listed /\ Listed \subseteq Items
      BY <2>0, ListedItems DEF Listed, IInv
    <3>5. \A u \in Threads : u # t => pc'[u] = pc[u] /\ job'[u] = job[u]
      BY <2>0, ActorFacts DEF IInv, TInv
    <3>6. NothingForgotten'
      <4> SUFFICES ASSUME NEW r \in mRequests
                   PROVE  \/ \E i \in Listed : r \in mPendingRequests'[i]
                          \/ r \in late'
                          \/ \E u \in Threads : pc'[u] = "inserted" /\ job'[u].of = r
        BY <2>0, <3>4 DEF NothingForgotten
      <4>1. CASE r = job[t].of
        BY <2>0, <3>3, <4>1
      <4>2. CASE r # job[t].of
        <5>1. CASE \E i \in Listed : r \in mPendingRequests[i]
          BY <3>3, <3>4, <5>1
        <5>2. CASE r \in late
          BY <2>0, <5>2
        <5>3. CASE \E u \in Threads : pc[u] = "inserted" /\ job[u].of = r
          BY <3>5, <4>2, <5>3
        <5> QED BY <5>1, <5>2, <5>3 DEF IInv, RInv, NothingForgotten
      <4> QED BY <4>1, <4>2
    <3> QED BY <3>2, <3>6 DEF RInv
  <2> QED BY <2>0, <2>1, <2>2, <2>3, <2>4, FrameF DEF IInv
<1> QED BY <1>1, <1>2

\* The io thread calls Remove for a server that is listed, unless an
\* operation kept the server beyond its removal.
LEMMA OnErrorKeeps ==
    ASSUME IInv, fault = "none", NEW i \in Items, OnError(i) PROVE IInv'
<1>0. i \in 1..Len(addr) /\ Alive(i) /\ addr[i] \in Addrs
  BY ActorFacts, ListedItems DEF OnError, IInv, LInv, Items
<1>1. CASE i \notin Listed /\ Faulty("dangling_slot")
  <2>1. \E t \in Threads : server[t] \in (1..Len(addr)) \ Listed
    BY <1>0, <1>1 DEF Alive
  <2>2. SlotSafe'
    BY <1>1, <2>1 DEF Faulty, SlotSafe, lvars, Listed
  <2> QED BY <1>1, <2>2, FaultyKeeps
<1>2. CASE /\ i \in Listed
           /\ Begin(Io, "Remove", FailedAddr(i), i)
           /\ UNCHANGED <<mServers, mDistributeAlgorithm, entries, addr,
                          mPendingRequests, mRequests, forgotten, userRemoved,
                          mMutex, server, calls, late, fault>>
  <2>1. [op |-> "Remove", arg |-> addr[i], of |-> i] \in Jobs
    BY <1>0 DEF Jobs, Ops, Items
  <2>2. TInv'
    BY <1>0, <1>2, <2>1, BeginT, ActorFacts DEF IInv, TInv, FailedAddr
  <2>3. job' = [job EXCEPT ![Io] = [op |-> "Remove", arg |-> addr[i], of |-> i]]
        /\ pc' = [pc EXCEPT ![Io] = "lock"]
    BY <1>2 DEF Begin, FailedAddr
  <2>4. Adders' = Adders
    BY <2>3, ActorFacts DEF Adders, IInv, TInv
  <2>5. LInv'
    BY <1>2, <2>4, FrameL DEF IInv, LInv
  <2>6. IoInv'
    <3>1. job'[Io] = [op |-> "Remove", arg |-> addr[i], of |-> i]
      BY <2>3, ActorFacts DEF IInv, TInv
    <3> QED BY <1>0, <1>2, <3>1 DEF IoInv, Listed
  <2>7. RInv'
    <3>1. \A u \in Threads : pc[u] = "inserted" =>
                                pc'[u] = "inserted" /\ job'[u] = job[u]
      BY <2>3, ActorFacts DEF IInv, TInv
    <3> QED BY <1>2, <3>1, FrameR DEF IInv
  <2> QED BY <1>2, <2>2, <2>5, <2>6, <2>7, FrameF DEF IInv
<1> QED BY <1>1, <1>2 DEF OnError

-----------------------------------------------------------------------------
(* The theorems.                                                           *)

LEMMA NextKeeps == IInv /\ [Next]_vars => IInv'
<1> SUFFICES ASSUME IInv, [Next]_vars PROVE IInv'
  OBVIOUS
<1>1. CASE UNCHANGED vars
  <2>1. TInv'
    BY <1>1 DEF vars, IInv, TInv, JobOK
  <2>2. LInv'
    BY <1>1 DEF vars, lvars, IInv, LInv, Agreement, Listed, Adders
  <2>3. IoInv' /\ SlotSafe'
    BY <1>1 DEF vars, lvars, IInv, IoInv, SlotSafe, Listed
  <2>4. RInv'
    BY <1>1 DEF vars, lvars, IInv, RInv, NothingForgotten, Listed
  <2> QED BY <2>1, <2>2, <2>3, <2>4 DEF IInv
<1>2. CASE Next
  <2>0. fault = "none"
    BY <1>2 DEF Next
  <2>1. ASSUME NEW t \in Threads, CallList(t) PROVE IInv'
    BY <2>0, <2>1, CallListKeeps
  <2>2. ASSUME NEW t \in Threads, CallOp(t) PROVE IInv'
    BY <2>0, <2>2, CallOpKeeps
  <2>3. ASSUME NEW t \in Threads, Add(t) PROVE IInv'
    BY <2>0, <2>3, AddKeeps
  <2>4. ASSUME NEW t \in Threads, Remove(t) PROVE IInv'
    BY <2>0, <2>4, RemoveKeyKeeps, ActorFacts DEF Remove, Owns
  <2>5. ASSUME NEW t \in Threads, SetDistributeAlgorithm(t) PROVE IInv'
    BY <2>0, <2>5, SetKeeps
  <2>6. ASSUME NEW t \in Threads, GetByKey(t) PROVE IInv'
    BY <2>0, <2>6, GetByKeyKeeps
  <2>7. ASSUME NEW t \in Threads, GetByAddr(t) PROVE IInv'
    BY <2>0, <2>7, GetByAddrKeeps
  <2>8. ASSUME NEW t \in Threads, Insert(t) PROVE IInv'
    BY <2>0, <2>8, InsertKeeps
  <2>9. ASSUME NEW t \in Threads, SendRequest(t) PROVE IInv'
    BY <2>0, <2>9, SendRequestKeeps
  <2>10. ASSUME NEW t \in Actors, Lock(t) PROVE IInv'
    BY <2>0, <2>10, LockKeeps
  <2>11. ASSUME RemoveFailed PROVE IInv'
    BY <2>0, <2>11, RemoveFailedKeeps
  <2>12. ASSUME NEW i \in Items, OnError(i) PROVE IInv'
    BY <2>0, <2>12, OnErrorKeeps
  <2> QED BY <1>2, <2>1, <2>2, <2>3, <2>4, <2>5, <2>6, <2>7, <2>8, <2>9,
             <2>10, <2>11, <2>12 DEF Next, Method
<1> QED BY <1>1, <1>2

\* Threads, list, algorithms, requests and faults keep the invariant in every
\* step of ServerList.cpp and of the operations that use it.
THEOREM ListInvariant == Spec => []IInv
<1> QED BY InitKeeps, NextKeeps, PTL DEF Spec

\* After any calls of Add, Remove and SetDistributeAlgorithm, from any threads
\* and the OnError slot, the algorithm in use has every listed server once
\* and no other, but for servers dropped by installing it over itself.
THEOREM AlgorithmAgrees == Spec => []Agreement
<1>1. IInv => Agreement
  BY DEF IInv, LInv
<1> QED BY <1>1, ListInvariant, PTL

\* No request in the table of the client is without somebody who will finish
\* it, except one sent to a server removed since Servers.Get.
THEOREM RequestsKept == Spec => []NothingForgotten
<1>1. IInv => NothingForgotten
  BY DEF IInv, RInv
<1> QED BY <1>1, ListInvariant, PTL

\* The slot Add connects meets a destroyed server or an erased entry of the
\* map only after somebody else removed the server.
THEOREM SlotIsSafe == Spec => []SlotSafe
<1>1. IInv => SlotSafe
  BY DEF IInv
<1> QED BY <1>1, ListInvariant, PTL

\* Only Remove takes a server out of the list, and what it takes out is the
\* server with the key of the address it was called with.
THEOREM RemovalsCaused == Spec => RemovedForCause
<1> DEFINE Cause(i) == \E t \in Actors :
             /\ mMutex = t /\ job[t].op = "Remove"
             /\ Key[job[t].arg] = Key[addr[i]]
             /\ t = Io => job[Io].of = i \/ job[Io].of \in userRemoved
<1>1. ASSUME IInv, [Next]_vars, NEW i \in Listed PROVE i \in Listed' \/ Cause(i)
  <2>1. CASE Listed' = Listed
    BY <2>1
  <2>2. ASSUME NEW t \in Actors, NEW k, pc[t] = "held", job[t].op = "Remove",
               k = Key[job[t].arg], RemoveKey(t, k), Listed' # Listed
        PROVE  i \in Listed' \/ Cause(i)
    <3>1. k \in DOMAIN mServers /\ Erase(t, k)
      BY <2>2 DEF RemoveKey, lvars, Listed
    <3>2. mMutex = t /\ t \in Actors
      BY <1>1, <2>2 DEF IInv, TInv, JobOK
    <3>3. Listed' = {mServers[l] : l \in DOMAIN mServers \ {k}}
      BY <3>1 DEF Listed, Erase
    <3>4. i \in Listed' \/ i = mServers[k]
      BY <3>3 DEF Listed
    <3>5. CASE i = mServers[k]
      <4>1. Key[addr[i]] = k
        BY <1>1, <3>1, <3>5 DEF IInv, LInv
      <4>2. CASE t # Io
        BY <2>2, <3>2, <4>1, <4>2
      <4>3. CASE t = Io
        <5>1. /\ job[Io].of \in 1..Len(addr) /\ job[Io].arg = addr[job[Io].of]
              /\ job[Io].of \in Listed \cup userRemoved
          BY <1>1, <2>2, <4>3 DEF IInv, IoInv
        <5>2. job[Io].of \in Listed => job[Io].of = i
          BY <1>1, <2>2, <3>5, <4>3, <5>1 DEF IInv, LInv, Listed
        <5> QED BY <2>2, <3>2, <4>1, <4>3, <5>1, <5>2
      <4> QED BY <4>2, <4>3
    <3> QED BY <3>4, <3>5
  <2>3. ASSUME Next, Listed' # Listed PROVE i \in Listed' \/ Cause(i)
    <3>1. ASSUME NEW t \in Threads, Add(t) PROVE Listed \subseteq Listed'
      <4>1. CASE UNCHANGED mServers
        BY <4>1 DEF Listed
      <4>2. CASE Key[job[t].arg] \notin DOMAIN mServers /\ Enter(job[t].arg)
        BY <4>2 DEF Listed, Enter
      <4> QED BY <3>1, <4>1, <4>2 DEF Add, Faulty, lvars
    <3>2. ASSUME NEW t \in Threads, Remove(t) PROVE i \in Listed' \/ Cause(i)
      BY <2>2, <2>3, <3>2, ActorFacts DEF Remove, Owns
    <3>3. ASSUME RemoveFailed PROVE i \in Listed' \/ Cause(i)
      <4>1. RemoveKey(Io, Key[job[Io].arg])
        BY <2>3, <3>3 DEF RemoveFailed, Faulty, lvars, Listed
      <4> QED BY <2>2, <2>3, <3>3, <4>1, ActorFacts DEF RemoveFailed, Owns
    <3>4. ASSUME NEW t \in Threads,
                 CallList(t) \/ CallOp(t) \/ SetDistributeAlgorithm(t)
                 \/ Insert(t) \/ SendRequest(t)
          PROVE  Listed' = Listed
      BY <3>4 DEF CallList, CallOp, SetDistributeAlgorithm, Insert, SendRequest,
                  Unlisted, Faulty, lvars, Listed
    <3>5. ASSUME NEW t \in Threads, GetByKey(t) \/ GetByAddr(t)
          PROVE  Listed' = Listed
      BY <3>5 DEF GetByKey, GetByAddr, Found, Faulty, lvars, Listed
    <3>6. ASSUME NEW t \in Actors, Lock(t) PROVE Listed' = Listed
      BY <3>6 DEF Lock, lvars, Listed
    <3>7. ASSUME NEW j \in Items, OnError(j) PROVE Listed' = Listed
      BY <3>7 DEF OnError, Faulty, lvars, Listed
    <3> QED BY <2>3, <3>1, <3>2, <3>3, <3>4, <3>5, <3>6, <3>7 DEF Next, Method
  <2>4. CASE UNCHANGED vars
    BY <2>4 DEF vars, lvars, Listed
  <2> QED BY <1>1, <2>1, <2>3, <2>4
<1>2. IInv /\ [Next]_vars => [\A i \in Listed : i \in Listed' \/ Cause(i)]_vars
  BY <1>1
<1> QED BY <1>2, ListInvariant, PTL DEF Spec, RemovedForCause
=============================================================================
