------------------------ MODULE ConsistentHashDistri ------------------------
(***************************************************************************)
(* serverManager/ConsistentHashDistri.cpp: the circle of points, each      *)
(* owned by a server.  The points come from MD5 digests of the server's    *)
(* name (external here); four hexadecimal digits make a point, so that the *)
(* points of two servers may coincide.  ServerList calls the algorithm     *)
(* with its mutex held, so the operations are atomic.                      *)
(***************************************************************************)
EXTENDS Integers, Sequences, FiniteSets

CONSTANTS ServerItems,    \* the servers
          mReplications,  \* constructor argument
          Weight,         \* ServerItem::Weight()
          PointOf,        \* the points MD5 gives a server, in order
          Hashes,         \* hash values of keys
          Null            \* ServerItem::Ptr(nullptr)

ASSUME CircleAssumption ==
    /\ mReplications \in Nat
    /\ Weight \in [ServerItems -> Nat \ {0}]
    /\ PointOf \in [ServerItems -> Seq(Nat)]
    /\ Hashes \subseteq Nat
    /\ Null \notin ServerItems

VARIABLES mCircle,  \* std::map from points to servers
          listed,   \* the servers added and not removed
          shadowed, \* points a listed server lost to one added after it
          result    \* what the last Get returned

vars == <<mCircle, listed, shadowed, result>>

\* n & 0x8FFFFFF4 for n below 2^28: bits 0, 1 and 3 are cleared
Masked(n) == n - (n % 4) - 8 * ((n \div 8) % 2)

TotalReplications(s) == Masked(mReplications * Weight[s])

\* the points Add gives to s: four per digest
Points(s) == {PointOf[s][i] : i \in 1..(4 * (TotalReplications(s) \div 4))}

\* a hexadecimal string per point, enough of them
ASSUME PointAssumption == \A s \in ServerItems : Points(s) \subseteq Nat

Init == mCircle = [p \in {} |-> Null] /\ listed = {} /\ shadowed = {}
        /\ result = Null

-----------------------------------------------------------------------------
\* Add that keeps the owner of a point that is taken
AddKeepOwner(s) ==
    /\ s \notin listed
    /\ mCircle' = [p \in DOMAIN mCircle \cup Points(s) |->
                     IF p \in DOMAIN mCircle THEN mCircle[p] ELSE s]
    /\ listed' = listed \cup {s}
    /\ UNCHANGED <<shadowed, result>>

Add(s) ==
    /\ s \notin listed
    /\ mCircle' = [p \in DOMAIN mCircle \cup Points(s) |->
                     IF p \in Points(s) THEN s ELSE mCircle[p]]
    /\ listed' = listed \cup {s}
    /\ shadowed' = shadowed \cup
                   {x \in listed \X Points(s) : x[2] \in Points(x[1])}
    /\ UNCHANGED result

\* Remove by point, not by owner
RemovePoints(s) ==
    /\ s \in listed
    /\ mCircle' = [p \in DOMAIN mCircle \ Points(s) |-> mCircle[p]]
    /\ listed' = listed \ {s}
    /\ shadowed' = {x \in shadowed : x[1] # s}
    /\ UNCHANGED result

\* Remove that collects the points of the server and does not erase them
RemoveListedOnly(s) ==
    /\ s \in listed
    /\ listed' = listed \ {s}
    /\ shadowed' = {x \in shadowed : x[1] # s}
    /\ UNCHANGED <<mCircle, result>>

Remove(s) ==
    /\ s \in listed
    /\ mCircle' = [p \in {q \in DOMAIN mCircle : mCircle[q] # s} |-> mCircle[p]]
    /\ listed' = listed \ {s}
    /\ shadowed' = {x \in shadowed : x[1] # s}
    /\ UNCHANGED result

Smallest(S) == CHOOSE p \in S : \A q \in S : p <= q

\* Get without going round to begin()
RouteNoWrap(h) ==
    LET after == {p \in DOMAIN mCircle : p >= h}
    IN  IF after = {} THEN Null ELSE mCircle[Smallest(after)]

\* find, else upper_bound, else begin
Route(h) ==
    LET after == {p \in DOMAIN mCircle : p >= h}
    IN  IF DOMAIN mCircle = {} THEN Null
        ELSE IF after # {} THEN mCircle[Smallest(after)]
        ELSE mCircle[Smallest(DOMAIN mCircle)]

Get(h) == /\ result' = Route(h)
          /\ UNCHANGED <<mCircle, listed, shadowed>>

Clear == /\ mCircle' = [p \in {} |-> Null] /\ listed' = {} /\ shadowed' = {}
         /\ UNCHANGED result

Next == \/ \E s \in ServerItems : Add(s) \/ Remove(s)
        \/ \E h \in Hashes : Get(h)
        \/ Clear

Spec == Init /\ [][Next]_vars

-----------------------------------------------------------------------------
(* Properties.                                                             *)

TypeOK == /\ \A p \in DOMAIN mCircle : mCircle[p] \in listed
          /\ listed \subseteq ServerItems
          /\ result \in ServerItems \cup {Null}

\* Every listed server owns its points, except those a server added later
\* has, or had: they do not come back when that server is removed, so the
\* circle depends on the history and not only on the servers listed.
CircleComplete ==
    \A s \in listed : \A p \in Points(s) :
       \/ p \in DOMAIN mCircle /\ mCircle[p] = s
       \/ <<s, p>> \in shadowed

\* A server with a point of its own is found: no key is without a server.
AlwaysRouted ==
    (\E s \in listed : \E p \in Points(s) : <<s, p>> \notin shadowed)
       => \A h \in Hashes : Route(h) \in listed

\* Adding a server only moves keys to it, removing one only moves the keys it
\* had: the point of consistent hashing.
MinimalMoves ==
    [][\A h \in Hashes : \/ Route(h)' = Route(h)
                         \/ Route(h) \notin listed'
                         \/ Route(h)' \notin listed]_vars
=============================================================================
