---------------------------- MODULE MemoDistri -----------------------------
(***************************************************************************)
(* serverManager/MemoDistri.cpp: the distribution algorithm that remembers *)
(* the server of every key it has seen and keeps the servers in a heap     *)
(* ordered by the number of keys they have.  ServerList calls it with its  *)
(* mutex held, so the operations are atomic.                               *)
(***************************************************************************)
EXTENDS Integers, Sequences, FiniteSets

CONSTANTS ServerItems,  \* the servers
          Hashes,       \* hash values of keys
          Weight,       \* ServerItem::Weight()
          Null          \* ServerItem::Ptr(nullptr)

ASSUME MemoAssumption == /\ Weight \in [ServerItems -> Nat \ {0}]
                         /\ Null \notin ServerItems

VARIABLES mBalanceInfos,      \* the heap: a vector of ServerBalanceInfo
          mKeyServerMapping,  \* the servers of the keys seen
          result              \* what the last Get returned

vars == <<mBalanceInfos, mKeyServerMapping, result>>

ServerBalanceInfo == [Server : ServerItems, KeyCount : Nat]

\* operator< of ServerBalanceInfo
Less(l, r) == l.KeyCount * Weight[r.Server] < r.KeyCount * Weight[l.Server]

\* external: the precondition of std::pop_heap, and the arrangements it and
\* std::push_heap may leave (the elements of a vector are different); which
\* of them is up to the library.
IsHeap(v) == \A i \in 2..Len(v) : ~Less(v[i \div 2], v[i])
Arrangements(v) ==
    {t \in [1..Len(v) -> {v[i] : i \in 1..Len(v)}] :
        /\ \A i, j \in 1..Len(v) : t[i] = t[j] => i = j
        /\ \A i \in 1..Len(v) : \E j \in 1..Len(v) : t[j] = v[i]}
Heaps(v) == {t \in Arrangements(v) : IsHeap(t)}

Listed == {mBalanceInfos[i].Server : i \in 1..Len(mBalanceInfos)}

Init == /\ mBalanceInfos = <<>>
        /\ mKeyServerMapping = [h \in {} |-> Null]
        /\ result = Null

-----------------------------------------------------------------------------
\* ServerList adds a server once.
Add(s) ==
    /\ s \notin Listed
    /\ mBalanceInfos' \in
          Heaps(Append(mBalanceInfos, [Server |-> s, KeyCount |-> 0]))
    /\ UNCHANGED <<mKeyServerMapping, result>>

KeysOf(s) == {h \in DOMAIN mKeyServerMapping : mKeyServerMapping[h] = s}

\* vector::erase
Erase(v, i) == SubSeq(v, 1, i - 1) \o SubSeq(v, i + 1, Len(v))

\* Remove that leaves the keys of the server mapped
RemoveKeepKeys(s) ==
    /\ \E i \in 1..Len(mBalanceInfos) :
          /\ mBalanceInfos[i].Server = s
          /\ mBalanceInfos' = Erase(mBalanceInfos, i)
    /\ UNCHANGED <<mKeyServerMapping, result>>

\* Remove that drops the keys of the other servers too
RemoveAllKeys(s) ==
    /\ \E i \in 1..Len(mBalanceInfos) :
          /\ mBalanceInfos[i].Server = s
          /\ mBalanceInfos' = Erase(mBalanceInfos, i)
    /\ mKeyServerMapping' = [h \in {} |-> Null]
    /\ UNCHANGED result

\* The erase does not restore the heap.  The keys of s are forgotten.
Remove(s) ==
    /\ \E i \in 1..Len(mBalanceInfos) :
          /\ mBalanceInfos[i].Server = s
          /\ mBalanceInfos' = Erase(mBalanceInfos, i)
    /\ mKeyServerMapping' = [h \in DOMAIN mKeyServerMapping \ KeysOf(s) |->
                                mKeyServerMapping[h]]
    /\ UNCHANGED result

Map(h, s) == [k \in DOMAIN mKeyServerMapping \cup {h} |->
                 IF k = h THEN s ELSE mKeyServerMapping[k]]

\* GetNew that counts the key for the last server, as for a heap with the
\* least loaded server in front
GetNewLast(h) ==
    LET n == Len(mBalanceInfos)
        bumped == [mBalanceInfos EXCEPT ![n].KeyCount = @ + 1]
    IN  /\ mBalanceInfos' = bumped
        /\ mKeyServerMapping' = Map(h, bumped[n].Server)
        /\ result' = bumped[n].Server

\* GetNew that takes the server behind the front after the heap was redone
GetNewStale(h) ==
    LET bumped == [mBalanceInfos EXCEPT ![1].KeyCount = @ + 1]
    IN  /\ mBalanceInfos' \in Heaps(bumped)
        /\ mKeyServerMapping' = Map(h, mBalanceInfos'[Len(bumped)].Server)
        /\ result' = mBalanceInfos'[Len(bumped)].Server

\* A new key: count it for the front, pop and push the front, and take the
\* server the reference to front().Server means now.
GetNew(h) ==
    LET bumped == [mBalanceInfos EXCEPT ![1].KeyCount = @ + 1]
    IN  /\ mBalanceInfos' \in Heaps(bumped)
        /\ mKeyServerMapping' = Map(h, mBalanceInfos'[1].Server)
        /\ result' = mBalanceInfos'[1].Server

Get(h) ==
    \/ /\ mBalanceInfos = <<>>
       /\ result' = Null
       /\ UNCHANGED <<mBalanceInfos, mKeyServerMapping>>
    \/ /\ mBalanceInfos # <<>> /\ h \in DOMAIN mKeyServerMapping
       /\ result' = mKeyServerMapping[h]
       /\ UNCHANGED <<mBalanceInfos, mKeyServerMapping>>
    \/ /\ mBalanceInfos # <<>> /\ h \notin DOMAIN mKeyServerMapping
       /\ GetNew(h)

\* ServerList::SetDistributeAlgorithm clears the algorithm it replaces.
Clear == /\ mKeyServerMapping' = [h \in {} |-> Null]
         /\ mBalanceInfos' = <<>>
         /\ UNCHANGED result

Next == \/ \E s \in ServerItems : Add(s) \/ Remove(s)
        \/ \E h \in Hashes : Get(h)
        \/ Clear

Spec == Init /\ [][Next]_vars

-----------------------------------------------------------------------------
(* Properties.                                                             *)

TypeOK == /\ mBalanceInfos \in Seq(ServerBalanceInfo)
          /\ DOMAIN mKeyServerMapping \subseteq Hashes
          /\ \A h \in DOMAIN mKeyServerMapping : mKeyServerMapping[h] \in Listed
          /\ result \in ServerItems \cup {Null}

\* Get calls pop_heap and push_heap on a heap, although Remove takes an
\* element out of the middle of the vector without restoring it.
HeapPrecondition == IsHeap(mBalanceInfos)

\* KeyCount is the number of keys mapped to the server: the server a new key
\* is counted for is the one it is mapped to, although the heap is redone in
\* between, and removals and Clear keep the two in step.
KeyCountExact ==
    \A i \in 1..Len(mBalanceInfos) :
       mBalanceInfos[i].KeyCount = Cardinality(KeysOf(mBalanceInfos[i].Server))

\* A key stays on its server until the server is removed.
StickyKeys ==
    [][\A h \in DOMAIN mKeyServerMapping :
          \/ h \in DOMAIN mKeyServerMapping'
             /\ mKeyServerMapping'[h] = mKeyServerMapping[h]
          \/ mKeyServerMapping[h] \notin Listed']_vars

\* The heap has the most loaded server in front and new keys go to the
\* front, so one server gets every key until it is removed.
OneLoaded ==
    \A i \in 2..Len(mBalanceInfos) : mBalanceInfos[i].KeyCount = 0
=============================================================================
