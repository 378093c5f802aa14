-------------------------- MODULE MemoDistriProofs --------------------------
(***************************************************************************)
(* Why MemoDistri may erase an element out of the middle of its heap: no   *)
(* server behind the front ever has a key.                                 *)
(***************************************************************************)
EXTENDS MemoDistri, SequenceTheorems, FiniteSetTheorems, TLAPS

\* A vector of infos about different servers
Infos(v) == /\ v \in Seq(ServerBalanceInfo)
            /\ \A i, j \in 1..Len(v) : v[i].Server = v[j].Server => i = j

\* OneLoaded for any vector
FrontOnly(v) == \A i \in 2..Len(v) : v[i].KeyCount = 0

\* KeysOf and KeyCountExact for any vector and mapping
KeysIn(m, u) == {h \in DOMAIN m : m[h] = u}
Exact(v, m) == \A i \in 1..Len(v) :
                  v[i].KeyCount = Cardinality(KeysIn(m, v[i].Server))

\* The inductive invariant: the servers of the vector are different, only
\* the front has keys, and the counts are those of a finite mapping.
MInv == /\ TypeOK
        /\ Infos(mBalanceInfos)
        /\ OneLoaded
        /\ IsFiniteSet(DOMAIN mKeyServerMapping)
        /\ Exact(mBalanceInfos, mKeyServerMapping)

-----------------------------------------------------------------------------
(* The vector.                                                             *)

\* The elements of a vector of infos.
LEMMA InfoAt ==
    ASSUME NEW v, Infos(v), NEW i \in 1..Len(v)
    PROVE  /\ v[i] \in ServerBalanceInfo
           /\ v[i].Server \in ServerItems /\ v[i].KeyCount \in Nat
           /\ Weight[v[i].Server] \in Nat \ {0}
<1>1. v[i] \in ServerBalanceInfo
  BY ElementOfSeq DEF Infos
<1> QED BY <1>1, MemoAssumption DEF ServerBalanceInfo

\* operator< says that an info is above another only if it has keys.
LEMMA LessProps ==
    ASSUME NEW l \in ServerBalanceInfo, NEW r \in ServerBalanceInfo
    PROVE  /\ r.KeyCount = 0 => ~Less(l, r)
           /\ l.KeyCount = 0 /\ r.KeyCount # 0 => Less(l, r)
<1> DEFINE a == l.KeyCount
           b == r.KeyCount
           x == Weight[l.Server]
           y == Weight[r.Server]
<1>1. /\ a \in Nat /\ b \in Nat
      /\ x \in Nat \ {0} /\ y \in Nat \ {0}
  BY MemoAssumption DEF ServerBalanceInfo
<1>2. Less(l, r) <=> a * y < b * x
  BY DEF Less
<1>3. ASSUME NEW m \in Nat, NEW n \in Nat \ {0}
      PROVE  m * n \in Nat /\ (m # 0 => m * n > 0) /\ 0 * n = 0
  OBVIOUS
<1>4. b = 0 => b * x = 0 /\ a * y >= 0
  BY <1>1, <1>3
<1>5. a = 0 /\ b # 0 => a * y = 0 /\ b * x > 0
  BY <1>1, <1>3
<1>6. a * y \in Nat /\ b * x \in Nat
  BY <1>1, <1>3
<1> HIDE DEF a, b, x, y
<1>7. /\ b = 0 => ~Less(l, r)
      /\ a = 0 /\ b # 0 => Less(l, r)
  BY <1>2, <1>4, <1>5, <1>6
<1> QED BY <1>7 DEF a, b

\* A vector in which only the front has keys is a heap.
LEMMA FrontOnlyHeap ==
    ASSUME NEW v, Infos(v), FrontOnly(v)
    PROVE  IsHeap(v)
<1> SUFFICES ASSUME NEW i \in 2..Len(v)
             PROVE  ~Less(v[i \div 2], v[i])
  BY DEF IsHeap
<1>1. Len(v) \in Nat
  BY LenProperties DEF Infos
<1>2. i \in 1..Len(v) /\ i \div 2 \in 1..Len(v)
  BY <1>1
<1>3. v[i] \in ServerBalanceInfo /\ v[i \div 2] \in ServerBalanceInfo
  BY <1>2, InfoAt
<1>4. v[i].KeyCount = 0
  BY DEF FrontOnly
<1> QED BY <1>3, <1>4, LessProps

\* push_heap and pop_heap leave a vector of the same infos.
LEMMA HeapsInfos ==
    ASSUME NEW v, Infos(v), NEW t \in Heaps(v)
    PROVE  /\ Len(t) = Len(v) /\ Infos(t)
           /\ \A i \in 1..Len(v) : \E j \in 1..Len(v) : t[j] = v[i]
           /\ \A i \in 1..Len(v) : \E j \in 1..Len(v) : t[i] = v[j]
<1>1. Len(v) \in Nat
  BY LenProperties DEF Infos
<1>2. /\ t \in [1..Len(v) -> {v[i] : i \in 1..Len(v)}]
      /\ \A i, j \in 1..Len(v) : t[i] = t[j] => i = j
      /\ \A i \in 1..Len(v) : \E j \in 1..Len(v) : t[j] = v[i]
  BY DEF Heaps, Arrangements
<1>3. ASSUME NEW i \in 1..Len(v)
      PROVE  \E j \in 1..Len(v) : t[i] = v[j]
  <2>1. t[i] \in {v[k] : k \in 1..Len(v)}
    BY <1>2
  <2> QED BY <2>1
<1>4. \A i \in 1..Len(v) : t[i] \in ServerBalanceInfo
  BY <1>3, InfoAt
<1>5. t \in [1..Len(v) -> ServerBalanceInfo]
  BY <1>2, <1>4
<1>6. t \in Seq(ServerBalanceInfo) /\ Len(t) = Len(v)
  BY <1>1, <1>5, SeqDef, LenProperties
<1>7. ASSUME NEW i \in 1..Len(v), NEW j \in 1..Len(v),
             t[i].Server = t[j].Server
      PROVE  i = j
  <2>1. PICK a \in 1..Len(v), b \in 1..Len(v) : t[i] = v[a] /\ t[j] = v[b]
    BY <1>3
  <2>2. a = b
    BY <2>1, <1>7 DEF Infos
  <2> QED BY <2>1, <2>2, <1>2
<1> QED BY <1>2, <1>3, <1>6, <1>7 DEF Infos

\* If only the front had keys, only the front has: a loaded server behind
\* it would be below one without keys.
LEMMA HeapsFront ==
    ASSUME NEW v, Infos(v), FrontOnly(v), NEW t \in Heaps(v)
    PROVE  FrontOnly(t)
<1>1. /\ Len(t) = Len(v) /\ Infos(t)
      /\ \A i \in 1..Len(v) : \E j \in 1..Len(v) : t[i] = v[j]
  BY HeapsInfos
<1>2. Len(v) \in Nat
  BY LenProperties DEF Infos
<1> SUFFICES ASSUME NEW i \in 2..Len(t), t[i].KeyCount # 0
             PROVE  FALSE
  BY DEF FrontOnly
<1>3. i \in 1..Len(v) /\ i \div 2 \in 1..Len(v) /\ i \div 2 # i
  BY <1>1, <1>2
<1>4. PICK a \in 1..Len(v), b \in 1..Len(v) : t[i] = v[a] /\ t[i \div 2] = v[b]
  BY <1>1, <1>3
<1>5. ~Less(t[i \div 2], t[i])
  BY DEF Heaps, IsHeap
<1>6. t[i \div 2].KeyCount # 0
  BY <1>1, <1>3, <1>5, InfoAt, LessProps
<1>7. \A k \in 1..Len(v) : v[k].KeyCount # 0 => k = 1
  BY <1>2 DEF FrontOnly
<1>8. t[i] = t[i \div 2]
  BY <1>4, <1>6, <1>7
<1> QED BY <1>1, <1>3, <1>8 DEF Infos

\* The vector after an erase.
LEMMA EraseProps ==
    ASSUME NEW v, Infos(v), NEW i \in 1..Len(v)
    PROVE  /\ Infos(Erase(v, i)) /\ Len(Erase(v, i)) = Len(v) - 1
           /\ \A k \in 1..(Len(v) - 1) :
                 Erase(v, i)[k] = IF k < i THEN v[k] ELSE v[k + 1]
<1> DEFINE A == SubSeq(v, 1, i - 1)
           B == SubSeq(v, i + 1, Len(v))
<1>1. Len(v) \in Nat /\ v \in Seq(ServerBalanceInfo)
  BY LenProperties DEF Infos
<1>2. \A k \in 1..Len(v) : v[k] \in ServerBalanceInfo
  BY InfoAt
<1>3. /\ A \in Seq(ServerBalanceInfo) /\ Len(A) = i - 1
      /\ \A k \in 1..(i - 1) : A[k] = v[k]
  <2>1. \A k \in 1..(i - 1) : v[k] \in ServerBalanceInfo
    BY <1>1, <1>2
  <2>2. /\ A \in Seq(ServerBalanceInfo)
        /\ Len(A) = IF 1 <= i - 1 THEN (i - 1) - 1 + 1 ELSE 0
        /\ \A k \in 1..((i - 1) - 1 + 1) : A[k] = v[1 + k - 1]
    BY <1>1, <2>1, SubSeqProperties
  <2> QED BY <1>1, <2>2
<1>4. /\ B \in Seq(ServerBalanceInfo) /\ Len(B) = Len(v) - i
      /\ \A k \in 1..(Len(v) - i) : B[k] = v[i + k]
  <2>1. \A k \in (i + 1)..Len(v) : v[k] \in ServerBalanceInfo
    BY <1>1, <1>2
  <2>2. /\ B \in Seq(ServerBalanceInfo)
        /\ Len(B) = IF i + 1 <= Len(v) THEN Len(v) - (i + 1) + 1 ELSE 0
        /\ \A k \in 1..(Len(v) - (i + 1) + 1) : B[k] = v[(i + 1) + k - 1]
    BY <1>1, <2>1, SubSeqProperties
  <2> QED BY <1>1, <2>2
<1> HIDE DEF A, B
<1>5. /\ A \o B \in Seq(ServerBalanceInfo)
      /\ Len(A \o B) = Len(A) + Len(B)
      /\ \A k \in 1..(Len(A) + Len(B)) :
            (A \o B)[k] = IF k <= Len(A) THEN A[k] ELSE B[k - Len(A)]
  BY <1>3, <1>4, ConcatProperties
<1>6. Erase(v, i) = A \o B
  BY DEF Erase, A, B
<1>7. /\ Len(Erase(v, i)) = Len(v) - 1
      /\ \A k \in 1..(Len(v) - 1) :
            Erase(v, i)[k] = IF k < i THEN v[k] ELSE v[k + 1]
  <2>1. Len(A) + Len(B) = Len(v) - 1
    BY <1>1, <1>3, <1>4
  <2>2. ASSUME NEW k \in 1..(Len(v) - 1)
        PROVE  (A \o B)[k] = IF k < i THEN v[k] ELSE v[k + 1]
    <3>1. (A \o B)[k] = IF k <= i - 1 THEN A[k] ELSE B[k - (i - 1)]
      BY <1>3, <1>5, <2>1
    <3>2. CASE k < i
      BY <1>1, <1>3, <3>1, <3>2
    <3>3. CASE ~(k < i)
      <4>1. k - (i - 1) \in 1..(Len(v) - i) /\ i + (k - (i - 1)) = k + 1
        BY <1>1, <3>3
      <4>2. B[k - (i - 1)] = v[i + (k - (i - 1))]
        BY <1>4, <4>1
      <4> QED BY <3>1, <3>3, <4>1, <4>2
    <3> QED BY <3>2, <3>3
  <2> QED BY <1>5, <1>6, <2>1, <2>2
<1>8. ASSUME NEW k \in 1..(Len(v) - 1), NEW l \in 1..(Len(v) - 1),
             Erase(v, i)[k].Server = Erase(v, i)[l].Server
      PROVE  k = l
  BY <1>1, <1>7, <1>8 DEF Infos
<1> QED BY <1>5, <1>6, <1>7, <1>8 DEF Infos

\* Counting a key for the front.
LEMMA BumpProps ==
    ASSUME NEW v, Infos(v), v # <<>>, FrontOnly(v)
    PROVE  LET b == [v EXCEPT ![1].KeyCount = @ + 1]
           IN  /\ Infos(b) /\ FrontOnly(b) /\ Len(b) = Len(v)
               /\ b[1].KeyCount = v[1].KeyCount + 1
               /\ \A i \in 2..Len(v) : b[i] = v[i]
               /\ \A i \in 1..Len(v) : b[i].Server = v[i].Server
<1> DEFINE e == [v[1] EXCEPT !.KeyCount = @ + 1]
           b == [v EXCEPT ![1].KeyCount = @ + 1]
<1>1. Len(v) \in Nat \ {0} /\ v \in Seq(ServerBalanceInfo) /\ 1 \in 1..Len(v)
  BY EmptySeq DEF Infos
<1>2. v[1] \in ServerBalanceInfo
  BY <1>1, InfoAt
<1>3. /\ e \in ServerBalanceInfo
      /\ e.Server = v[1].Server /\ e.KeyCount = v[1].KeyCount + 1
  BY <1>2 DEF ServerBalanceInfo
<1>4. b = [v EXCEPT ![1] = e]
  BY <1>1
<1> HIDE DEF e, b
<1>5. /\ b \in Seq(ServerBalanceInfo) /\ Len(b) = Len(v)
      /\ \A j \in 1..Len(v) : b[j] = IF j = 1 THEN e ELSE v[j]
  BY <1>1, <1>3, <1>4, ExceptSeq
<1>6. \A i \in 2..Len(v) : b[i] = v[i]
  BY <1>1, <1>5
<1>7. \A i \in 1..Len(v) : b[i].Server = v[i].Server
  BY <1>3, <1>5
<1>8. Infos(b) /\ FrontOnly(b)
  BY <1>5, <1>6, <1>7 DEF Infos, FrontOnly
<1> QED BY <1>1, <1>3, <1>5, <1>6, <1>7, <1>8 DEF b

-----------------------------------------------------------------------------
(* One lemma per operation: it preserves the inductive invariant.          *)

\* The empty algorithm.
LEMMA InitMInv == Init => MInv
<1> SUFFICES ASSUME Init PROVE MInv
  OBVIOUS
<1>1. mBalanceInfos \in Seq(ServerBalanceInfo) /\ Len(mBalanceInfos) = 0
  BY EmptySeq DEF Init
<1>2. DOMAIN mKeyServerMapping = {}
  BY DEF Init
<1>3. result \in ServerItems \cup {Null}
  BY DEF Init
<1>4. IsFiniteSet(DOMAIN mKeyServerMapping)
  BY <1>2, FS_EmptySet
<1> QED BY <1>1, <1>2, <1>3, <1>4
        DEF MInv, TypeOK, Infos, OneLoaded, Exact

\* A key count is the number of keys of the server, and no key belongs to a
\* server that is not listed.
LEMMA Unlisted ==
    ASSUME TypeOK, NEW s, s \notin Listed
    PROVE  KeysIn(mKeyServerMapping, s) = {}
BY DEF TypeOK, KeysIn

\* Add: the new server has no keys, and none behind the front gets any.
LEMMA AddStep ==
    ASSUME MInv, NEW s \in ServerItems, Add(s)
    PROVE  MInv'
<1> DEFINE n == [Server |-> s, KeyCount |-> 0]
           v == mBalanceInfos
           w == Append(v, n)
           t == mBalanceInfos'
<1>1. /\ s \notin Listed /\ t \in Heaps(w)
      /\ mKeyServerMapping' = mKeyServerMapping /\ result' = result
  BY DEF Add
<1>2. v \in Seq(ServerBalanceInfo) /\ Len(v) \in Nat
  BY LenProperties DEF MInv, Infos
<1>3. n \in ServerBalanceInfo
  BY DEF ServerBalanceInfo
<1>4. /\ w \in Seq(ServerBalanceInfo) /\ Len(w) = Len(v) + 1
      /\ \A i \in 1..Len(v) : w[i] = v[i]
      /\ w[Len(v) + 1] = n
  BY <1>2, <1>3
<1>5. \A i \in 1..Len(v) : v[i].Server # s
  BY <1>1 DEF Listed
<1> HIDE DEF w
<1>6. Infos(w)
  <2> SUFFICES ASSUME NEW i \in 1..Len(w), NEW j \in 1..Len(w),
                      w[i].Server = w[j].Server
               PROVE  i = j
    BY <1>4 DEF Infos
  <2>1. CASE i \in 1..Len(v) /\ j \in 1..Len(v)
    BY <1>4, <2>1 DEF MInv, Infos
  <2>2. CASE i = Len(v) + 1 /\ j \in 1..Len(v)
    BY <1>4, <1>5, <2>2
  <2>3. CASE j = Len(v) + 1 /\ i \in 1..Len(v)
    BY <1>4, <1>5, <2>3
  <2> QED BY <1>2, <1>4, <2>1, <2>2, <2>3
<1>7. FrontOnly(w)
  <2> SUFFICES ASSUME NEW i \in 2..Len(w)
               PROVE  w[i].KeyCount = 0
    BY DEF FrontOnly
  <2>1. CASE i \in 2..Len(v)
    BY <1>2, <1>4, <2>1 DEF MInv, OneLoaded
  <2>2. CASE i = Len(v) + 1
    BY <1>4, <2>2
  <2> QED BY <1>2, <1>4, <2>1, <2>2
<1>8. /\ Len(t) = Len(w) /\ Infos(t)
      /\ \A i \in 1..Len(w) : \E j \in 1..Len(w) : t[j] = w[i]
      /\ \A i \in 1..Len(w) : \E j \in 1..Len(w) : t[i] = w[j]
  BY <1>1, <1>6, HeapsInfos
<1>9. FrontOnly(t)
  BY <1>1, <1>6, <1>7, HeapsFront
<1> HIDE DEF n
<1>10. Listed \subseteq Listed'
  <2> SUFFICES ASSUME NEW i \in 1..Len(v)
               PROVE  \E j \in 1..Len(t) : t[j].Server = v[i].Server
    BY DEF Listed
  <2>1. i \in 1..Len(w) /\ w[i] = v[i]
    BY <1>2, <1>4
  <2> QED BY <1>8, <2>1
<1>11. TypeOK'
  BY <1>1, <1>8, <1>10 DEF MInv, TypeOK, Infos
<1>12. Exact(t, mKeyServerMapping)
  <2> SUFFICES ASSUME NEW i \in 1..Len(t)
               PROVE  t[i].KeyCount =
                         Cardinality(KeysIn(mKeyServerMapping, t[i].Server))
    BY DEF Exact
  <2>1. PICK j \in 1..Len(w) : t[i] = w[j]
    BY <1>8
  <2>2. CASE j \in 1..Len(v)
    BY <1>4, <2>1, <2>2 DEF MInv, Exact
  <2>3. CASE j = Len(v) + 1
    <3>1. t[i].Server = s /\ t[i].KeyCount = 0
      BY <1>4, <2>1, <2>3 DEF n
    <3>2. KeysIn(mKeyServerMapping, s) = {}
      BY <1>1, Unlisted DEF MInv
    <3> QED BY <3>1, <3>2, FS_EmptySet
  <2> QED BY <1>2, <1>4, <2>2, <2>3
<1> QED BY <1>1, <1>8, <1>9, <1>11, <1>12
        DEF MInv, OneLoaded, FrontOnly

\* Remove: the vector loses one element, the mapping the keys of its server.
LEMMA RemoveStep ==
    ASSUME MInv, NEW s \in ServerItems, Remove(s)
    PROVE  /\ MInv'
           /\ \A h \in DOMAIN mKeyServerMapping \ KeysOf(s) :
                 /\ h \in DOMAIN mKeyServerMapping'
                 /\ mKeyServerMapping'[h] = mKeyServerMapping[h]
           /\ s \notin Listed'
<1> DEFINE v == mBalanceInfos
           t == mBalanceInfos'
           m == mKeyServerMapping
           k == mKeyServerMapping'
<1>1. PICK i \in 1..Len(v) : v[i].Server = s /\ t = Erase(v, i)
  BY DEF Remove
<1>2. /\ k = [h \in DOMAIN m \ KeysOf(s) |-> m[h]]
      /\ result' = result
  BY DEF Remove
<1>3. Infos(v) /\ Len(v) \in Nat
  BY LenProperties DEF MInv, Infos
<1>4. /\ Infos(t) /\ Len(t) = Len(v) - 1
      /\ \A j \in 1..(Len(v) - 1) : t[j] = IF j < i THEN v[j] ELSE v[j + 1]
  BY <1>1, <1>3, EraseProps
<1>5. OneLoaded'
  <2> SUFFICES ASSUME NEW j \in 2..Len(t)
               PROVE  t[j].KeyCount = 0
    BY DEF OneLoaded
  <2>1. j \in 1..(Len(v) - 1) /\ j \in 2..Len(v) /\ j + 1 \in 2..Len(v)
    BY <1>3, <1>4
  <2> QED BY <1>4, <2>1 DEF MInv, OneLoaded
<1>6. ASSUME NEW j \in 1..Len(t)
      PROVE  \E l \in 1..Len(v) : l # i /\ t[j] = v[l]
  BY <1>3, <1>4
<1>7. \A j \in 1..Len(t) : t[j].Server # s
  BY <1>1, <1>3, <1>6 DEF Infos
<1>8. s \notin Listed'
  BY <1>7 DEF Listed
<1>9. ASSUME NEW l \in 1..Len(v), l # i
      PROVE  \E j \in 1..Len(t) : t[j] = v[l]
  <2>1. CASE l < i
    BY <1>3, <1>4, <2>1
  <2>2. CASE l > i
    <3>1. l - 1 \in 1..(Len(v) - 1) /\ ~(l - 1 < i) /\ (l - 1) + 1 = l
      BY <1>3, <2>2
    <3>2. t[l - 1] = v[l]
      BY <1>4, <3>1
    <3> QED BY <1>4, <3>1, <3>2
  <2> QED BY <1>3, <1>9, <2>1, <2>2
<1>10. /\ DOMAIN k = DOMAIN m \ KeysOf(s)
       /\ \A h \in DOMAIN k : k[h] = m[h]
  BY <1>2
<1> HIDE DEF k
<1>11. ASSUME NEW h \in DOMAIN k
       PROVE  k[h] \in Listed'
  <2>1. h \in DOMAIN m /\ m[h] # s /\ k[h] = m[h]
    BY <1>10 DEF KeysOf
  <2>2. PICK l \in 1..Len(v) : v[l].Server = m[h]
    BY <2>1 DEF MInv, TypeOK, Listed
  <2>3. PICK j \in 1..Len(t) : t[j] = v[l]
    BY <1>1, <1>9, <2>1, <2>2
  <2> QED BY <2>1, <2>2, <2>3 DEF Listed
<1>12. TypeOK'
  BY <1>2, <1>4, <1>10, <1>11 DEF MInv, TypeOK, Infos, k
<1>13. IsFiniteSet(DOMAIN k)
  BY <1>10, FS_Subset DEF MInv
<1>14. Exact(t, k)
  <2> SUFFICES ASSUME NEW j \in 1..Len(t)
               PROVE  t[j].KeyCount = Cardinality(KeysIn(k, t[j].Server))
    BY DEF Exact
  <2>1. PICK l \in 1..Len(v) : l # i /\ t[j] = v[l]
    BY <1>6
  <2>2. t[j].Server # s
    BY <1>7
  <2>3. KeysIn(k, t[j].Server) = KeysIn(m, t[j].Server)
    BY <1>10, <2>2 DEF KeysIn, KeysOf
  <2> QED BY <2>1, <2>3 DEF MInv, Exact
<1> QED BY <1>4, <1>5, <1>8, <1>10, <1>12, <1>13, <1>14 DEF MInv, k

\* Get of a new key: the front, whatever the library does, stays the only
\* server with keys, so the reference to it still names the one counted.
LEMMA GetNewStep ==
    ASSUME MInv, NEW h \in Hashes, h \notin DOMAIN mKeyServerMapping,
           mBalanceInfos # <<>>, GetNew(h)
    PROVE  MInv'
<1> DEFINE v == mBalanceInfos
           b == [v EXCEPT ![1].KeyCount = @ + 1]
           t == mBalanceInfos'
           m == mKeyServerMapping
           k == mKeyServerMapping'
<1>1. /\ t \in Heaps(b)
      /\ k = [x \in DOMAIN m \cup {h} |-> IF x = h THEN t[1].Server ELSE m[x]]
      /\ result' = t[1].Server
  BY DEF GetNew, Map
<1>2. Infos(v) /\ FrontOnly(v) /\ Len(v) \in Nat \ {0}
  BY EmptySeq DEF MInv, Infos, OneLoaded, FrontOnly
<1>3. /\ Infos(b) /\ FrontOnly(b) /\ Len(b) = Len(v)
      /\ b[1].KeyCount = v[1].KeyCount + 1
      /\ \A i \in 2..Len(v) : b[i] = v[i]
      /\ \A i \in 1..Len(v) : b[i].Server = v[i].Server
  BY <1>2, BumpProps
<1> HIDE DEF b
<1>4. /\ Len(t) = Len(v) /\ Infos(t)
      /\ \A i \in 1..Len(v) : \E j \in 1..Len(v) : t[j] = b[i]
      /\ \A i \in 1..Len(v) : \E j \in 1..Len(v) : t[i] = b[j]
  <2>1. /\ Len(t) = Len(b) /\ Infos(t)
        /\ \A i \in 1..Len(b) : \E j \in 1..Len(b) : t[j] = b[i]
        /\ \A i \in 1..Len(b) : \E j \in 1..Len(b) : t[i] = b[j]
    BY <1>1, <1>3, HeapsInfos
  <2>2. Len(b) = Len(v)
    BY <1>3
  <2> HIDE DEF t
  <2> QED BY <2>1, <2>2
<1>5. FrontOnly(t)
  BY <1>1, <1>3, HeapsFront
<1>6. t[1] = b[1]
  <2>1. PICK j \in 1..Len(v) : t[j] = b[1]
    BY <1>2, <1>4
  <2>2. v[1].KeyCount \in Nat
    BY <1>2, InfoAt
  <2>3. t[j].KeyCount # 0
    BY <1>3, <2>1, <2>2
  <2>4. j = 1
    <3>1. j \in 1..Len(t) /\ j \notin 2..Len(t)
      BY <1>4, <1>5, <2>3 DEF FrontOnly
    <3> QED BY <1>2, <1>4, <3>1
  <2> QED BY <2>1, <2>4
<1>7. /\ DOMAIN k = DOMAIN m \cup {h}
      /\ k[h] = t[1].Server
      /\ \A x \in DOMAIN m : k[x] = m[x]
  BY <1>1
<1>8. t[1].Server \in ServerItems /\ 1 \in 1..Len(t)
  BY <1>2, <1>4, InfoAt
<1>9. ASSUME NEW i \in 1..Len(v)
      PROVE  \E j \in 1..Len(t) : t[j].Server = v[i].Server
  <2>1. PICK j \in 1..Len(v) : t[j] = b[i]
    BY <1>4
  <2>2. j \in 1..Len(t) /\ t[j].Server = v[i].Server
    BY <1>3, <1>4, <2>1
  <2> QED BY <2>2
<1> HIDE DEF k
<1>10. ASSUME NEW x \in DOMAIN k
       PROVE  k[x] \in Listed'
  <2>1. CASE x = h
    BY <1>7, <1>8, <2>1 DEF Listed
  <2>2. CASE x \in DOMAIN m
    <3>1. PICK i \in 1..Len(v) : v[i].Server = m[x]
      BY <2>2 DEF MInv, TypeOK, Listed
    <3>2. PICK j \in 1..Len(t) : t[j].Server = v[i].Server
      BY <1>9
    <3> QED BY <1>7, <2>2, <3>1, <3>2 DEF Listed
  <2> QED BY <1>7, <2>1, <2>2
<1>11. TypeOK'
  BY <1>1, <1>4, <1>7, <1>8, <1>10 DEF MInv, TypeOK, Infos, k
<1>12. IsFiniteSet(DOMAIN k)
  BY <1>7, FS_AddElement DEF MInv
<1>13. Exact(t, k)
  <2> SUFFICES ASSUME NEW i \in 1..Len(t)
               PROVE  t[i].KeyCount = Cardinality(KeysIn(k, t[i].Server))
    BY DEF Exact
  <2>1. PICK j \in 1..Len(v) : t[i] = b[j]
    BY <1>4
  <2>2. v[j].KeyCount = Cardinality(KeysIn(m, v[j].Server))
    BY DEF MInv, Exact
  <2>3. t[i].Server = v[j].Server
    BY <1>3, <2>1
  <2>4. CASE j = 1
    <3>1. t[i].Server = t[1].Server
      BY <1>6, <2>1, <2>4
    <3>2. KeysIn(k, t[i].Server) = KeysIn(m, t[i].Server) \cup {h}
      BY <1>7, <3>1 DEF KeysIn
    <3>3. h \notin KeysIn(m, t[i].Server)
      BY DEF KeysIn
    <3>4. KeysIn(m, t[i].Server) \in SUBSET DOMAIN m
      BY DEF KeysIn
    <3>5. IsFiniteSet(KeysIn(m, t[i].Server))
      BY <3>4, FS_Subset DEF MInv
    <3>6. Cardinality(KeysIn(k, t[i].Server)) =
             Cardinality(KeysIn(m, t[i].Server)) + 1
      BY <3>2, <3>3, <3>5, FS_AddElement
    <3>7. t[i].KeyCount = v[j].KeyCount + 1
      BY <1>3, <2>1, <2>4
    <3> QED BY <2>2, <2>3, <3>6, <3>7
  <2>5. CASE j # 1
    <3>1. t[i] = v[j]
      BY <1>2, <1>3, <2>1, <2>5
    <3>2. t[1].Server = v[1].Server
      BY <1>2, <1>3, <1>6
    <3>3. t[i].Server # t[1].Server
      BY <1>2, <2>3, <2>5, <3>2 DEF Infos
    <3>4. KeysIn(k, t[i].Server) = KeysIn(m, t[i].Server)
      BY <1>7, <3>3 DEF KeysIn
    <3> QED BY <2>2, <2>3, <3>1, <3>4
  <2> QED BY <2>4, <2>5
<1> QED BY <1>4, <1>5, <1>11, <1>12, <1>13
        DEF MInv, OneLoaded, FrontOnly, k

\* Get: nothing for an empty algorithm, the mapping for a key seen before.
LEMMA GetStep ==
    ASSUME MInv, NEW h \in Hashes, Get(h)
    PROVE  /\ MInv'
           /\ \A x \in DOMAIN mKeyServerMapping :
                 /\ x \in DOMAIN mKeyServerMapping'
                 /\ mKeyServerMapping'[x] = mKeyServerMapping[x]
<1>1. CASE UNCHANGED <<mBalanceInfos, mKeyServerMapping>>
           /\ result' \in ServerItems \cup {Null}
  <2>1. Listed' = Listed
    BY <1>1 DEF Listed
  <2> QED BY <1>1, <2>1 DEF MInv, TypeOK, OneLoaded
<1>2. CASE /\ mBalanceInfos # <<>> /\ h \notin DOMAIN mKeyServerMapping
           /\ GetNew(h)
  BY <1>2, GetNewStep DEF GetNew, Map
<1>3. ASSUME h \in DOMAIN mKeyServerMapping
      PROVE  mKeyServerMapping[h] \in ServerItems
  <2>1. PICK i \in 1..Len(mBalanceInfos) :
            mBalanceInfos[i].Server = mKeyServerMapping[h]
    BY <1>3 DEF MInv, TypeOK, Listed
  <2> QED BY <2>1, InfoAt DEF MInv
<1> QED BY <1>1, <1>2, <1>3 DEF Get

\* Clear: the state is the initial one but for the last result.
LEMMA ClearStep ==
    ASSUME MInv, Clear
    PROVE  MInv' /\ Listed' = {}
<1>1. /\ mBalanceInfos' \in Seq(ServerBalanceInfo)
      /\ Len(mBalanceInfos') = 0
  BY EmptySeq DEF Clear
<1>2. DOMAIN mKeyServerMapping' = {} /\ result' = result
  BY DEF Clear
<1>3. IsFiniteSet(DOMAIN mKeyServerMapping')
  BY <1>2, FS_EmptySet
<1>4. Listed' = {}
  BY <1>1 DEF Listed
<1> QED BY <1>1, <1>2, <1>3, <1>4
        DEF MInv, TypeOK, Infos, OneLoaded, Exact

\* Every step of the algorithm preserves the invariant.
LEMMA NextMInv == MInv /\ [Next]_vars => MInv'
<1> SUFFICES ASSUME MInv, [Next]_vars PROVE MInv'
  OBVIOUS
<1>1. CASE \E s \in ServerItems : Add(s)
  BY <1>1, AddStep
<1>2. CASE \E s \in ServerItems : Remove(s)
  BY <1>2, RemoveStep
<1>3. CASE \E h \in Hashes : Get(h)
  BY <1>3, GetStep
<1>4. CASE Clear
  BY <1>4, ClearStep
<1>5. CASE UNCHANGED vars
  <2>1. Listed' = Listed
    BY <1>5 DEF Listed, vars
  <2> QED BY <1>5, <2>1 DEF MInv, TypeOK, OneLoaded, vars
<1> QED BY <1>1, <1>2, <1>3, <1>4, <1>5 DEF Next

-----------------------------------------------------------------------------
(* The theorems.                                                           *)

\* MInv is an invariant of the algorithm.
THEOREM MemoInvariant == Spec => []MInv
BY InitMInv, NextMInv, PTL DEF Spec

\* Every variable keeps its type; a mapped key is mapped to a listed server.
THEOREM MemoTypeCorrect == Spec => []TypeOK
<1>1. MInv => TypeOK
  BY DEF MInv
<1> QED BY <1>1, MemoInvariant, PTL

\* One server gets every key: new keys go to the front, which is the most
\* loaded server, so only the front ever has keys.
THEOREM OnlyFrontLoaded == Spec => []OneLoaded
<1>1. MInv => OneLoaded
  BY DEF MInv
<1> QED BY <1>1, MemoInvariant, PTL

\* pop_heap and push_heap get a heap although Remove erases from the middle
\* of the vector: a vector whose keys are all in front is one.
THEOREM HeapAlways == Spec => []HeapPrecondition
<1>1. MInv => HeapPrecondition
  <2> SUFFICES ASSUME MInv PROVE HeapPrecondition
    OBVIOUS
  <2>1. Infos(mBalanceInfos) /\ FrontOnly(mBalanceInfos)
    BY DEF MInv, OneLoaded, FrontOnly
  <2>2. IsHeap(mBalanceInfos)
    BY <2>1, FrontOnlyHeap
  <2> QED BY <2>2 DEF HeapPrecondition
<1> QED BY <1>1, MemoInvariant, PTL

\* The key counts are the numbers of keys mapped: the key is counted for the
\* server the reference names after the heap was redone.
THEOREM CountsExact == Spec => []KeyCountExact
<1>1. MInv => KeyCountExact
  BY DEF MInv, Exact, KeysIn, KeyCountExact, KeysOf
<1> QED BY <1>1, MemoInvariant, PTL

\* A key stays where it is until its server is removed.
THEOREM KeysStay == Spec => StickyKeys
<1> DEFINE Stays(h) ==
        \/ h \in DOMAIN mKeyServerMapping'
           /\ mKeyServerMapping'[h] = mKeyServerMapping[h]
        \/ mKeyServerMapping[h] \notin Listed'
<1>1. MInv /\ [Next]_vars =>
         [\A h \in DOMAIN mKeyServerMapping : Stays(h)]_vars
  <2> SUFFICES ASSUME MInv, Next, NEW h \in DOMAIN mKeyServerMapping
               PROVE  Stays(h)
    OBVIOUS
  <2>1. CASE \E s \in ServerItems : Add(s)
    BY <2>1 DEF Add
  <2>2. CASE \E s \in ServerItems : Remove(s)
    <3>1. PICK s \in ServerItems : Remove(s)
      BY <2>2
    <3>2. /\ h \notin KeysOf(s) =>
                /\ h \in DOMAIN mKeyServerMapping'
                /\ mKeyServerMapping'[h] = mKeyServerMapping[h]
          /\ s \notin Listed'
      BY <3>1, RemoveStep
    <3> QED BY <3>2 DEF KeysOf
  <2>3. CASE \E x \in Hashes : Get(x)
    BY <2>3, GetStep
  <2>4. CASE Clear
    BY <2>4, ClearStep
  <2> QED BY <2>1, <2>2, <2>3, <2>4 DEF Next
<1> QED BY <1>1, MemoInvariant, PTL DEF Spec, StickyKeys
=============================================================================
