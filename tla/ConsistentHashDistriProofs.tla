--------------------- MODULE ConsistentHashDistriProofs ---------------------
(***************************************************************************)
(* Proofs about the circle, for every set of servers, weights, points and  *)
(* hashes.  CInv is inductive as it stands: what the circle holds belongs  *)
(* to listed servers, what a listed server misses is in shadowed.  The two *)
(* routing properties rest on one fact about sets of numbers, FirstKept:   *)
(* taking points away does not change the first point from h on unless it  *)
(* is among those taken.                                                   *)
(***************************************************************************)
EXTENDS ConsistentHashDistri, WellFoundedInduction, TLAPS

CInv == TypeOK /\ CircleComplete /\ DOMAIN mCircle \subseteq Nat

\* std::map is ordered: a set of points that is not empty has a first.
LEMMA SmallestExists ==
    ASSUME NEW T, T \subseteq Nat, T # {}
    PROVE  Smallest(T) \in T /\ \A q \in T : Smallest(T) <= q
<1> DEFINE Less == {ss \in Nat \X Nat : ss[1] < ss[2]}
<1>1. OpToRel(<, Nat) = Less
  BY Zenon DEF OpToRel
<1>2. IsWellFoundedOn(Less, Nat)
  BY <1>1, NatLessThanWellFounded, Zenon
<1> HIDE DEF Less
<1>3. \E x \in T : \A y \in T : ~ (<<y, x>> \in Less)
  BY <1>2, WFMin
<1>4. PICK x \in T : \A y \in T : ~ (<<y, x>> \in Less)
  BY <1>3
<1>5. ASSUME NEW y \in T PROVE x <= y
  <2>1. x \in Nat /\ y \in Nat
    OBVIOUS
  <2>2. ~(y < x)
    BY <1>4, <2>1 DEF Less
  <2> QED BY <2>1, <2>2
<1> QED BY <1>5 DEF Smallest

\* The point whose owner Get returns: the first from h on, or the first.
From(D, h) == {p \in D : p >= h}
First(D, h) == IF From(D, h) # {} THEN Smallest(From(D, h)) ELSE Smallest(D)

LEMMA FirstIn ==
    ASSUME NEW D, D \subseteq Nat, D # {}, NEW h
    PROVE  First(D, h) \in D
<1>1. From(D, h) \subseteq D
  BY DEF From
<1> QED BY <1>1, SmallestExists DEF First

\* A first point that stays is still the first.
LEMMA FirstKept ==
    ASSUME NEW E, E \subseteq Nat, NEW D, D \subseteq E, NEW h \in Nat,
           First(E, h) \in D
    PROVE  First(D, h) = First(E, h)
<1>1. CASE From(E, h) # {}
  <2>1. From(E, h) \subseteq Nat /\ From(D, h) \subseteq From(E, h)
    BY DEF From
  <2>2. First(E, h) \in From(E, h) /\ \A q \in From(E, h) : First(E, h) <= q
    BY <1>1, <2>1, SmallestExists DEF First
  <2>3. First(E, h) \in From(D, h)
    BY <2>2 DEF From
  <2>4. From(D, h) \subseteq Nat /\ From(D, h) # {}
    BY <2>1, <2>3
  <2>5. Smallest(From(D, h)) \in From(D, h)
        /\ \A q \in From(D, h) : Smallest(From(D, h)) <= q
    BY <2>4, SmallestExists
  <2>6. Smallest(From(D, h)) = First(E, h)
    BY <2>1, <2>2, <2>3, <2>5
  <2> QED BY <2>4, <2>6 DEF First
<1>2. CASE From(E, h) = {}
  <2>1. From(D, h) = {}
    BY <1>2 DEF From
  <2>2. First(E, h) = Smallest(E) /\ First(D, h) = Smallest(D)
    BY <1>2, <2>1 DEF First
  <2>3. Smallest(E) \in E /\ \A q \in E : Smallest(E) <= q
    BY SmallestExists
  <2>4. Smallest(D) \in D /\ \A q \in D : Smallest(D) <= q
    BY SmallestExists
  <2>5. Smallest(E) <= Smallest(D) /\ Smallest(D) <= Smallest(E)
    BY <2>2, <2>3, <2>4
  <2>6. Smallest(E) \in Nat /\ Smallest(D) \in Nat
    BY <2>3, <2>4
  <2> QED BY <2>2, <2>5, <2>6
<1> QED BY <1>1, <1>2

\* Get in terms of First, before and after a step.
LEMMA RouteFirst ==
    ASSUME NEW h
    PROVE  /\ DOMAIN mCircle = {} => Route(h) = Null
           /\ DOMAIN mCircle # {} => Route(h) = mCircle[First(DOMAIN mCircle, h)]
BY DEF Route, First, From

LEMMA RouteFirstNext ==
    ASSUME NEW h
    PROVE  /\ DOMAIN mCircle' = {} => Route(h)' = Null
           /\ DOMAIN mCircle' # {} =>
                 Route(h)' = mCircle'[First(DOMAIN mCircle', h)]
BY DEF Route, First, From

-----------------------------------------------------------------------------
LEMMA CInit == Init => CInv
BY DEF Init, CInv, TypeOK, CircleComplete

LEMMA AddKeeps == ASSUME CInv, NEW s \in ServerItems, Add(s) PROVE CInv'
<1>1. TypeOK'
  BY DEF CInv, TypeOK, Add
<1>2. CircleComplete'
  <2> SUFFICES ASSUME NEW t \in listed', NEW p \in Points(t)
               PROVE  \/ p \in DOMAIN mCircle' /\ mCircle'[p] = t
                      \/ <<t, p>> \in shadowed'
    BY DEF CircleComplete, Points, TotalReplications
  <2>1. CASE t = s
    BY <2>1 DEF Add
  <2>2. CASE t # s /\ p \in Points(s)
    BY <2>2 DEF Add
  <2>3. CASE t # s /\ p \notin Points(s)
    BY <2>3 DEF Add, CInv, CircleComplete
  <2> QED BY <2>1, <2>2, <2>3
<1>3. DOMAIN mCircle' \subseteq Nat
  BY PointAssumption DEF CInv, Add
<1> QED BY <1>1, <1>2, <1>3 DEF CInv

LEMMA RemoveKeeps == ASSUME CInv, NEW s \in ServerItems, Remove(s) PROVE CInv'
<1>1. TypeOK'
  BY DEF CInv, TypeOK, Remove
<1>2. CircleComplete'
  <2> SUFFICES ASSUME NEW t \in listed', NEW p \in Points(t)
               PROVE  \/ p \in DOMAIN mCircle' /\ mCircle'[p] = t
                      \/ <<t, p>> \in shadowed'
    BY DEF CircleComplete, Points, TotalReplications
  <2>1. t # s /\ t \in listed
    BY DEF Remove
  <2> QED BY <2>1 DEF Remove, CInv, CircleComplete
<1>3. DOMAIN mCircle' \subseteq Nat
  BY DEF CInv, Remove
<1> QED BY <1>1, <1>2, <1>3 DEF CInv

\* What Get returns is a listed server or a null pointer.
LEMMA RouteType ==
    ASSUME CInv, NEW h PROVE Route(h) \in listed \cup {Null}
<1>1. CASE DOMAIN mCircle = {}
  BY <1>1, RouteFirst
<1>2. CASE DOMAIN mCircle # {}
  <2>1. First(DOMAIN mCircle, h) \in DOMAIN mCircle
    BY <1>2, FirstIn DEF CInv
  <2> QED BY <1>2, <2>1, RouteFirst DEF CInv, TypeOK
<1> QED BY <1>1, <1>2

LEMMA GetKeeps == ASSUME CInv, NEW h \in Hashes, Get(h) PROVE CInv'
<1>1. TypeOK'
  BY RouteType DEF CInv, TypeOK, Get
<1>2. CircleComplete' /\ DOMAIN mCircle' \subseteq Nat
  BY DEF CInv, CircleComplete, Points, TotalReplications, Get
<1> QED BY <1>1, <1>2 DEF CInv

LEMMA ClearKeeps == ASSUME CInv, Clear PROVE CInv'
BY DEF CInv, TypeOK, CircleComplete, Clear

LEMMA StutterKeeps == ASSUME CInv, UNCHANGED vars PROVE CInv'
BY DEF CInv, TypeOK, CircleComplete, Points, TotalReplications, vars

\* CInv is inductive: every operation of the class keeps it.
THEOREM CircleInvariant == Spec => []CInv
<1>1. CInv /\ [Next]_vars => CInv'
  <2> SUFFICES ASSUME CInv, [Next]_vars PROVE CInv'
    OBVIOUS
  <2>1. ASSUME NEW s \in ServerItems, Add(s) PROVE CInv'
    BY <2>1, AddKeeps
  <2>2. ASSUME NEW s \in ServerItems, Remove(s) PROVE CInv'
    BY <2>2, RemoveKeeps
  <2>3. ASSUME NEW h \in Hashes, Get(h) PROVE CInv'
    BY <2>3, GetKeeps
  <2>4. CASE Clear
    BY <2>4, ClearKeeps
  <2>5. CASE UNCHANGED vars
    BY <2>5, StutterKeeps
  <2> QED BY <2>1, <2>2, <2>3, <2>4, <2>5 DEF Next
<1> QED BY CInit, <1>1, PTL DEF Spec

-----------------------------------------------------------------------------
\* Points only belong to listed servers: Remove erases all a server has.
THEOREM CircleTypeCorrect == Spec => []TypeOK
<1>1. CInv => TypeOK
  BY DEF CInv
<1> QED BY <1>1, CircleInvariant, PTL

\* A listed server owns every point Add gave it that no later server took.
THEOREM PointsComplete == Spec => []CircleComplete
<1>1. CInv => CircleComplete
  BY DEF CInv
<1> QED BY <1>1, CircleInvariant, PTL

\* Get finds a listed server whenever one has a point of its own, the hash
\* beyond the last point included.
THEOREM KeysRouted == Spec => []AlwaysRouted
<1>1. CInv => AlwaysRouted
  <2> SUFFICES ASSUME CInv, NEW s \in listed, NEW p \in Points(s),
                      <<s, p>> \notin shadowed, NEW h \in Hashes
               PROVE  Route(h) \in listed
    BY DEF AlwaysRouted
  <2>1. DOMAIN mCircle # {} /\ DOMAIN mCircle \subseteq Nat
    BY DEF CInv, CircleComplete
  <2>2. First(DOMAIN mCircle, h) \in DOMAIN mCircle
    BY <2>1, FirstIn
  <2> QED BY <2>1, <2>2, RouteFirst DEF CInv, TypeOK
<1> QED BY <1>1, CircleInvariant, PTL

-----------------------------------------------------------------------------
\* Add: a first point that is not one of the new server's was the first.
LEMMA AddMoves ==
    ASSUME CInv, NEW s \in ServerItems, Add(s), NEW h \in Nat
    PROVE  \/ Route(h)' = Route(h)
           \/ Route(h) \notin listed'
           \/ Route(h)' \notin listed
<1> DEFINE D == DOMAIN mCircle
           E == DOMAIN mCircle'
<1>1. E = D \cup Points(s) /\ E \subseteq Nat /\ s \notin listed
  BY PointAssumption DEF CInv, Add
<1>2. CASE D = {}
  <2>1. Null \notin listed'
    BY CircleAssumption DEF CInv, TypeOK, Add
  <2> QED BY <1>2, <2>1, RouteFirst
<1>3. CASE D # {} /\ First(E, h) \in Points(s)
  <2>1. Route(h)' = mCircle'[First(E, h)]
    BY <1>1, <1>3, RouteFirstNext
  <2>2. mCircle'[First(E, h)] = s
    BY <1>1, <1>3 DEF Add
  <2> QED BY <1>1, <2>1, <2>2
<1>4. CASE D # {} /\ First(E, h) \notin Points(s)
  <2>1. First(E, h) \in D
    <3>1. First(E, h) \in E
      BY <1>1, <1>4, FirstIn
    <3> QED BY <1>1, <1>4, <3>1
  <2>2. First(D, h) = First(E, h)
    BY <1>1, <2>1, FirstKept
  <2>3. Route(h)' = mCircle'[First(E, h)] /\ Route(h) = mCircle[First(D, h)]
    BY <1>1, <1>4, RouteFirst, RouteFirstNext
  <2>4. mCircle'[First(E, h)] = mCircle[First(E, h)]
    BY <1>1, <1>4, <2>1 DEF Add
  <2> QED BY <2>2, <2>3, <2>4
<1> QED BY <1>2, <1>3, <1>4

\* Remove: a first point of another server stays and is still the first.
LEMMA RemoveMoves ==
    ASSUME CInv, NEW s \in ServerItems, Remove(s), NEW h \in Nat
    PROVE  Route(h)' = Route(h) \/ Route(h) \notin listed'
<1> DEFINE D == DOMAIN mCircle'
           E == DOMAIN mCircle
<1>1. D = {q \in E : mCircle[q] # s} /\ E \subseteq Nat /\ s \notin listed'
  BY DEF CInv, Remove
<1>2. CASE E = {}
  BY <1>1, <1>2, RouteFirst, RouteFirstNext
<1>3. CASE E # {} /\ mCircle[First(E, h)] = s
  BY <1>1, <1>3, RouteFirst
<1>4. CASE E # {} /\ mCircle[First(E, h)] # s
  <2>1. First(E, h) \in E
    BY <1>1, <1>4, FirstIn
  <2>2. First(E, h) \in D /\ D \subseteq E
    BY <1>1, <1>4, <2>1
  <2>3. First(D, h) = First(E, h)
    BY <1>1, <2>2, FirstKept
  <2>4. Route(h)' = mCircle'[First(D, h)] /\ Route(h) = mCircle[First(E, h)]
    BY <1>4, <2>2, RouteFirst, RouteFirstNext
  <2>5. mCircle'[First(E, h)] = mCircle[First(E, h)]
    BY <2>2 DEF Remove
  <2> QED BY <2>3, <2>4, <2>5
<1> QED BY <1>2, <1>3, <1>4

\* Consistent hashing: an addition takes keys only to the new server, a
\* removal only from the one removed, shared points or not.
THEOREM MovesMinimal == Spec => MinimalMoves
<1> DEFINE Moves == \A h \in Hashes : \/ Route(h)' = Route(h)
                                      \/ Route(h) \notin listed'
                                      \/ Route(h)' \notin listed
<1>1. CInv /\ [Next]_vars => [Moves]_vars
  <2> SUFFICES ASSUME CInv, Next, NEW h \in Hashes
               PROVE  \/ Route(h)' = Route(h)
                      \/ Route(h) \notin listed'
                      \/ Route(h)' \notin listed
    BY DEF vars
  <2>1. h \in Nat
    BY CircleAssumption
  <2>2. ASSUME NEW s \in ServerItems, Add(s)
        PROVE  \/ Route(h)' = Route(h)
               \/ Route(h) \notin listed'
               \/ Route(h)' \notin listed
    BY <2>1, <2>2, AddMoves
  <2>3. ASSUME NEW s \in ServerItems, Remove(s)
        PROVE  Route(h)' = Route(h) \/ Route(h) \notin listed'
    BY <2>1, <2>3, RemoveMoves
  <2>4. ASSUME NEW k \in Hashes, Get(k)
        PROVE  Route(h)' = Route(h)
    BY <2>4 DEF Get, Route
  <2>5. CASE Clear
    BY <2>5 DEF Clear
  <2> QED BY <2>2, <2>3, <2>4, <2>5 DEF Next
<1> QED BY <1>1, CircleInvariant, PTL DEF Spec, MinimalMoves
=============================================================================
