-------------------------- MODULE LogManagerProofs --------------------------
(***************************************************************************)
(* Proofs about LogManager.tla, for every number of bits and levels, any   *)
(* configuration files, any way to write the number of a file and any      *)
(* number of calls.                                                        *)
(*                                                                         *)
(* What a sink lets through is known only by ranges of ids.  SinkInv says  *)
(* which loggers the ranges come from and which sinks a logger has, IdInv  *)
(* what an id says about the name: that it is a multiple of its level's    *)
(* unit whatever overflows (the part Delivered needs), and, as long as     *)
(* nothing overflowed, that the ids below a name fill an interval and that *)
(* the digit of a level belongs to one name (the part NoLeak needs).       *)
(***************************************************************************)
EXTENDS LogManager, WellFoundedInduction, TLAPS

Info == [Id : Nat, FileId : 0..mFileId, SinkNames : SUBSET STRING,
         SinkInfos : SUBSET DOMAIN mSinks, Log : BOOLEAN]

IsFunction(f) == f = [x \in DOMAIN f |-> f[x]]

IdType ==
    /\ mIds \in [0..(MAX_LEVEL - 1) -> Nat \ {0}]
    /\ IsFunction(mIdMap) /\ DOMAIN mIdMap \subseteq Name
    /\ \A n \in DOMAIN mIdMap : mIdMap[n] \in Nat /\ Len(n) <= MAX_LEVEL

InfoType ==
    /\ mFileId \in Nat
    /\ IsFunction(mLoggerInfos) /\ Infos \subseteq Name
    /\ \A n \in Infos : mLoggerInfos[n] \in Info
    /\ Root \in Infos /\ mLoggerInfos[Root].Id = 0
    /\ \A n \in Infos \ {Root} :
          n \in DOMAIN mIdMap /\ mLoggerInfos[n].Id = mIdMap[n]

SinkType ==
    /\ IsFunction(mSinks) /\ IsFunction(origin)
    /\ DOMAIN origin = DOMAIN mSinks
    /\ \A k \in DOMAIN origin : origin[k] \in STRING \X (1..mFileId)
    /\ core \subseteq DOMAIN mSinks

\* Where Initialize is.  What a section is in has an id or comes before it.
CallType ==
    /\ at \in {"idle", "files", "sinks", "loggers"}
    /\ files \in Seq(File)
    /\ \A i \in 1..Len(files) : Tree(files[i].loggers)
    /\ sinks \in Seq(SinkSection) /\ sections \in Seq(LoggerSection)
    /\ at \in {"sinks", "loggers"} => files # <<>> /\ mFileId > 0
    /\ at = "idle" => loaded = {}
    /\ loaded \subseteq Infos /\ failed \subseteq Infos

Visited(ls) ==
    \A j \in 1..Len(ls) : Len(ls[j].name) > 1 =>
       \/ Front(ls[j].name) \in DOMAIN mIdMap
       \/ \E i \in 1..(j - 1) : ls[i].name = Front(ls[j].name) /\ ~ls[i].leaf

TypeInv == IdType /\ InfoType /\ SinkType /\ CallType /\ Visited(sections)

\* A logger has its FileId when it is loaded, and only Root is known before.
FileInv ==
    /\ \A n \in Infos : LET i == mLoggerInfos[n]
                        IN  i.FileId = 0 => /\ n = Root /\ i.SinkInfos = {}
                                            /\ i.Log => early
    /\ \A n \in loaded \cup failed : /\ mLoggerInfos[n].FileId # 0
                                     /\ mLoggerInfos[n].SinkInfos = {}
    /\ loaded \cap failed = {}
    /\ \A n \in loaded : mLoggerInfos[n].Log => n = Root /\ early
    /\ at = "sinks" => \A n \in Infos : mLoggerInfos[n].FileId # mFileId

\* A sink that is not in the core is of a file that was not loaded further.
CoreInv ==
    /\ at = "sinks" /\ Head(files).sinks = <<>> =>
          sinks = <<>> /\ \A k \in DOMAIN mSinks : origin[k][2] # mFileId
    /\ \A k \in DOMAIN mSinks \ core :
          /\ at = "loggers" => origin[k][2] # mFileId
          /\ \A n \in Infos : mLoggerInfos[n].FileId # origin[k][2]

Span(n) == <<mLoggerInfos[n].Id, NextId(n, mLoggerInfos[n].Id)>>

\* The ranges of a sink are those of loggers that have it; a logger that was
\* handed out has given its range to all its sinks.
RangeInv ==
    /\ \A k \in DOMAIN mSinks : \A g \in mSinks[k] :
          \E p \in Infos : k \in mLoggerInfos[p].SinkInfos /\ g = Span(p)
    /\ \A n \in Infos : mLoggerInfos[n].Log =>
          \/ n = Root /\ early
          \/ \A k \in mLoggerInfos[n].SinkInfos : Span(n) \in mSinks[k]

SinkInv == FileInv /\ CoreInv /\ RangeInv /\ Linked

B == 2 ^ LEVEL_BITS
Unit(n) == mIdMultiple(Level(n))
ParentId(n) == IF Len(n) = 1 THEN 0 ELSE mIdMap[Front(n)]

\* Ids are multiples of the unit of their level, overflow or not.
UnitInv == \A n \in DOMAIN mIdMap :
    mIdMap[n] < Width /\ \E c \in 0..Width : mIdMap[n] = c * Unit(n)

\* The part of a name up to a level has an id, whose interval holds the name's.
NestInv == \A n \in DOMAIN mIdMap : \A k \in 1..Len(n) :
    LET a == SubSeq(n, 1, k)
    IN  /\ a \in DOMAIN mIdMap
        /\ Overflowed \/ /\ mIdMap[a] <= mIdMap[n]
                         /\ mIdMap[n] + Unit(n) <= mIdMap[a] + Unit(a)

\* The number of a name on its level is not 0, fits, and is its own.
DigitInv ==
    \/ Overflowed
    \/ /\ \A n \in DOMAIN mIdMap :
             /\ mIdMap[n] + Unit(n) <= Width
             /\ \E q \in 1..(mIds[Level(n)] - 1) :
                   mIdMap[n] = q * Unit(n) + ParentId(n)
       /\ \A n, p \in DOMAIN mIdMap :
             /\ Len(n) = Len(p)
             /\ mIdMap[n] - ParentId(n) = mIdMap[p] - ParentId(p)
             => n = p

IdInv == UnitInv /\ NestInv /\ DigitInv

IInv == TypeInv /\ SinkInv /\ IdInv
-----------------------------------------------------------------------------
(* Numbers.                                                                *)

LEMMA UnitFacts ==
    /\ B \in Nat \ {0} /\ Width \in Nat \ {0}
    /\ Width = B * mIdMultiple(0)
    /\ \A l \in 0..(MAX_LEVEL - 1) :
          /\ mIdMultiple(l) \in Nat \ {0}
          /\ \E c \in Nat \ {0} : Width = c * mIdMultiple(l)
    /\ \A l \in 1..(MAX_LEVEL - 1) : mIdMultiple(l - 1) = B * mIdMultiple(l)
    /\ \A l \in 0..(MAX_LEVEL - 1) : \A k \in 0..(l - 1) :
          \E c \in Nat \ {0} : mIdMultiple(k) = c * (B * mIdMultiple(l))
<1> DEFINE bits == LEVEL_BITS * MAX_LEVEL
           E(l) == LEVEL_BITS * (MAX_LEVEL - l - 1)
<1> USE LogAssumption
<1>1. ASSUME NEW l \in 0..(MAX_LEVEL - 1)
      PROVE  E(l) \in 0..bits /\ bits - E(l) \in 0..bits
             /\ bits - E(l) = LEVEL_BITS * (l + 1)
  <2>1. MAX_LEVEL - l - 1 \in Nat /\ l + 1 \in Nat
    OBVIOUS
  <2>2. E(l) \in Nat /\ LEVEL_BITS * (l + 1) \in Nat
    BY <2>1
  <2>3. bits = E(l) + LEVEL_BITS * (l + 1)
    BY <2>1
  <2> QED BY <2>2, <2>3
<1>2. ASSUME NEW x \in 0..bits, NEW y \in 0..bits, x + y <= bits
      PROVE  2 ^ (x + y) = 2 ^ x * 2 ^ y /\ 2 ^ x \in Nat \ {0}
  BY <1>2, PowerAssumption
<1> HIDE DEF bits
<1>3. LEVEL_BITS \in 0..bits /\ bits \in Nat
  <2>1. 0 \in 0..(MAX_LEVEL - 1)
    OBVIOUS
  <2> QED BY <2>1, <1>1 DEF bits
<1>4. \A l \in 0..(MAX_LEVEL - 1) : mIdMultiple(l) = 2 ^ E(l)
  BY DEF mIdMultiple
<1>5. ASSUME NEW l \in 0..(MAX_LEVEL - 1)
      PROVE  /\ mIdMultiple(l) \in Nat \ {0}
             /\ \E c \in Nat \ {0} : Width = c * mIdMultiple(l)
  <2> HIDE DEF E
  <2>1. E(l) \in 0..bits /\ bits - E(l) \in 0..bits
    BY <1>1
  <2>2. 2 ^ ((bits - E(l)) + E(l)) = 2 ^ (bits - E(l)) * 2 ^ E(l)
        /\ 2 ^ (bits - E(l)) \in Nat \ {0}
    BY <2>1, <1>2, <1>3
  <2>3. 2 ^ E(l) \in Nat \ {0}
    BY <2>1, <1>2, <1>3
  <2>4. (bits - E(l)) + E(l) = bits
    BY <2>1, <1>3
  <2>5. Width = 2 ^ bits
    BY DEF Width, bits
  <2> QED BY <2>2, <2>3, <2>4, <2>5, <1>4
<1>6. B \in Nat \ {0}
  BY <1>2, <1>3 DEF B
<1>7. Width \in Nat \ {0} /\ Width = B * mIdMultiple(0)
  <2>1. 0 \in 0..(MAX_LEVEL - 1)
    OBVIOUS
  <2>2. bits - E(0) = LEVEL_BITS /\ E(0) \in 0..bits
    BY <2>1, <1>1
  <2> HIDE DEF E
  <2>3. bits = LEVEL_BITS + E(0)
    BY <2>2, <1>3
  <2>4. 2 ^ bits = 2 ^ LEVEL_BITS * 2 ^ E(0)
    <3>1. LEVEL_BITS + E(0) <= bits
      BY <2>2, <2>3, <1>3
    <3>2. 2 ^ (LEVEL_BITS + E(0)) = 2 ^ LEVEL_BITS * 2 ^ E(0)
      BY <3>1, <1>2, <1>3, <2>2
    <3> QED BY <3>2, <2>3, Zenon
  <2>5. Width = B * mIdMultiple(0)
    BY <2>4, <2>1, <1>4 DEF Width, B, bits
  <2>6. mIdMultiple(0) \in Nat \ {0}
    BY <1>5, <2>1
  <2> HIDE DEF B
  <2> QED BY <2>5, <2>6, <1>6
<1>8. ASSUME NEW l \in 0..(MAX_LEVEL - 1), NEW k \in 0..(l - 1)
      PROVE  /\ \E c \in Nat \ {0} : mIdMultiple(k) = c * (B * mIdMultiple(l))
             /\ k = l - 1 => mIdMultiple(k) = B * mIdMultiple(l)
  <2> DEFINE F == LEVEL_BITS * (l - k - 1)
  <2>0. l - k - 1 \in Nat /\ k \in 0..(MAX_LEVEL - 1)
    OBVIOUS
  <2>1. F \in Nat /\ (k = l - 1 => F = 0)
    BY <2>0
  <2>2. E(k) = F + (LEVEL_BITS + E(l))
    BY <2>0
  <2>3. E(k) \in 0..bits /\ E(l) \in 0..bits
    BY <1>1, <2>0
  <2> HIDE DEF E, F
  <2>4. F \in 0..bits /\ LEVEL_BITS + E(l) \in 0..bits
    BY <2>1, <2>2, <2>3, <1>3
  <2>5. 2 ^ E(k) = 2 ^ F * 2 ^ (LEVEL_BITS + E(l)) /\ 2 ^ F \in Nat \ {0}
    <3> DEFINE y == LEVEL_BITS + E(l)
    <3>1. y \in 0..bits /\ F + y <= bits /\ E(k) = F + y
      BY <2>2, <2>3, <2>4, <1>3
    <3> HIDE DEF y
    <3>2. 2 ^ (F + y) = 2 ^ F * 2 ^ y /\ 2 ^ F \in Nat \ {0}
      BY <2>4, <3>1, <1>2
    <3>3. 2 ^ E(k) = 2 ^ F * 2 ^ y
      BY <3>1, <3>2, Zenon
    <3> QED BY <3>2, <3>3 DEF y
  <2>6. 2 ^ (LEVEL_BITS + E(l)) = 2 ^ LEVEL_BITS * 2 ^ E(l)
    <3>1. LEVEL_BITS + E(l) <= bits
      BY <2>4, <1>3
    <3> QED BY <3>1, <2>3, <1>2, <1>3
  <2>7. mIdMultiple(k) = 2 ^ F * (B * mIdMultiple(l))
    BY <2>5, <2>6, <2>0, <1>4 DEF B
  <2>8. k = l - 1 => mIdMultiple(k) = B * mIdMultiple(l)
    BY <2>0, <2>1, <2>2, <2>6, <1>4, <1>3, <2>3 DEF B
  <2> QED BY <2>5, <2>7, <2>8
<1>9. ASSUME NEW l \in 1..(MAX_LEVEL - 1)
      PROVE  mIdMultiple(l - 1) = B * mIdMultiple(l)
  <2>1. l \in 0..(MAX_LEVEL - 1) /\ l - 1 \in 0..(l - 1)
    OBVIOUS
  <2> QED BY <2>1, <1>8
<1> QED BY <1>5, <1>6, <1>7, <1>8, <1>9

LEMMA UnitType ==
    /\ B \in Nat \ {0} /\ Width \in Nat \ {0}
    /\ \A l \in 0..(MAX_LEVEL - 1) : mIdMultiple(l) \in Nat \ {0}
  BY UnitFacts

LEMMA WidthMultiple ==
    ASSUME NEW l \in 0..(MAX_LEVEL - 1)
    PROVE  \E c \in Nat \ {0} : Width = c * mIdMultiple(l)
  BY UnitFacts

\* Two multiples of a unit less than a unit apart are equal.
LEMMA SameMultiple ==
    ASSUME NEW u \in Nat \ {0}, NEW c \in Int, NEW d \in Int,
           d * u <= c * u, c * u < d * u + u
    PROVE  c = d
<1>1. CASE c >= d + 1
  <2>1. (c - (d + 1)) * u >= 0
    BY <1>1
  <2> QED BY <2>1
<1>2. CASE c <= d - 1
  <2>1. ((d - 1) - c) * u >= 0
    BY <1>2
  <2> QED BY <2>1
<1> QED BY <1>1, <1>2

\* A number in base b has one last digit.
LEMMA SameDigit ==
    ASSUME NEW b \in Nat \ {0}, NEW x \in Int, NEW y \in Int,
           NEW q \in 0..(b - 1), NEW r \in 0..(b - 1),
           q + x * b = r + y * b
    PROVE  q = r /\ x = y
<1>1. CASE x >= y + 1
  <2>1. (x - (y + 1)) * b >= 0
    BY <1>1
  <2> QED BY <2>1
<1>2. CASE x <= y - 1
  <2>1. ((y - 1) - x) * b >= 0
    BY <1>2
  <2> QED BY <2>1
<1> QED BY <1>1, <1>2

LEMMA ModMultiple ==
    ASSUME NEW u \in Nat \ {0}, NEW w \in Nat \ {0}, NEW z \in Nat
    PROVE  /\ (z * u) % (w * u) \in 0..(w * u - 1)
           /\ \E c \in 0..(w * u) : (z * u) % (w * u) = c * u
<1> DEFINE x == z * u
           W == w * u
           d == x \div W
<1>1. x \in Nat /\ W \in Nat /\ W > 0
  OBVIOUS
<1> HIDE DEF x, W
<1>2. d \in Int /\ x % W \in 0..(W - 1) /\ x = W * d + (x % W)
  BY <1>1
<1> HIDE DEF d
<1> DEFINE c == z - w * d
<1>3. c \in Int
  BY <1>2
<1>4. x % W = c * u
  <2>1. x % W = x - W * d
    BY <1>1, <1>2
  <2>2. z * u - (w * u) * d = (z - w * d) * u
    BY <1>2
  <2> QED BY <2>1, <2>2 DEF x, W
<1>5. c >= 0
  <2>1. CASE c <= -1
    <3>1. (-1 - c) * u >= 0
      BY <2>1, <1>3
    <3>2. c * u <= -u
      BY <3>1, <1>3
    <3> QED BY <3>2, <1>2, <1>4
  <2> QED BY <2>1, <1>3
<1>6. c <= c * u
  <2>1. c * (u - 1) >= 0
    BY <1>3, <1>5
  <2> QED BY <2>1, <1>3
<1>7. c \in 0..W
  BY <1>1, <1>2, <1>3, <1>4, <1>5, <1>6
<1> HIDE DEF c
<1> QED BY <1>2, <1>4, <1>7 DEF x, W

-----------------------------------------------------------------------------
(* Names and maps.                                                         *)

LEMMA NameFacts ==
    ASSUME NEW n \in Name
    PROVE  /\ n \in Seq(STRING) /\ Len(n) \in Nat \ {0}
           /\ SubSeq(n, 1, Len(n)) = n
           /\ \A k \in 1..Len(n) :
                 SubSeq(n, 1, k) \in Name /\ Len(SubSeq(n, 1, k)) = k
           /\ Len(n) > 1 =>
                 /\ Front(n) \in Name /\ Len(Front(n)) = Len(n) - 1
                 /\ Front(n) = SubSeq(n, 1, Len(n) - 1)
                 /\ \A k \in 1..(Len(n) - 1) :
                       SubSeq(Front(n), 1, k) = SubSeq(n, 1, k)
<1>1. n \in Seq(STRING) /\ Len(n) \in Nat \ {0}
  BY DEF Name
<1>2. SubSeq(n, 1, Len(n)) = n
  BY <1>1
<1>3. ASSUME NEW k \in 1..Len(n)
      PROVE  SubSeq(n, 1, k) \in Name /\ Len(SubSeq(n, 1, k)) = k
  <2>1. SubSeq(n, 1, k) \in Seq(STRING) /\ Len(SubSeq(n, 1, k)) = k
    BY <1>1
  <2>2. SubSeq(n, 1, k) # <<>>
    BY <2>1
  <2> QED BY <2>1, <2>2 DEF Name
<1>4. ASSUME Len(n) > 1
      PROVE  /\ Front(n) \in Name /\ Len(Front(n)) = Len(n) - 1
             /\ Front(n) = SubSeq(n, 1, Len(n) - 1)
             /\ \A k \in 1..(Len(n) - 1) :
                   SubSeq(Front(n), 1, k) = SubSeq(n, 1, k)
  <2>1. Front(n) = SubSeq(n, 1, Len(n) - 1)
    BY DEF Front
  <2>2. Len(n) - 1 \in 1..Len(n)
    BY <1>1, <1>4
  <2>3. Front(n) \in Name /\ Len(Front(n)) = Len(n) - 1
    BY <2>1, <2>2, <1>3
  <2>4. ASSUME NEW k \in 1..(Len(n) - 1)
        PROVE  SubSeq(Front(n), 1, k) = SubSeq(n, 1, k)
    BY <2>1, <2>2, <1>1
  <2> QED BY <2>1, <2>3, <2>4
<1> QED BY <1>1, <1>2, <1>3, <1>4

LEMMA NameLen ==
    ASSUME NEW n \in Name
    PROVE  Len(n) \in Nat /\ Len(n) >= 1
  BY NameFacts

LEMMA NameDeep ==
    ASSUME NEW n \in Name
    PROVE  Len(n) > 1 <=> Len(n) # 1
<1> DEFINE l == Len(n)
<1>1. l \in Nat /\ l >= 1
  BY NameLen
<1> HIDE DEF l
<1>2. l > 1 <=> l # 1
  BY <1>1
<1> QED BY <1>2 DEF l

LEMMA FrontFacts ==
    ASSUME NEW n \in Name, Len(n) > 1
    PROVE  /\ Front(n) \in Name /\ Len(Front(n)) = Len(n) - 1
           /\ Front(n) = SubSeq(n, 1, Len(n) - 1)
           /\ \A k \in 1..(Len(n) - 1) : SubSeq(Front(n), 1, k) = SubSeq(n, 1, k)
  BY NameFacts

LEMMA InsertFacts ==
    ASSUME NEW f, NEW x, NEW v
    PROVE  /\ DOMAIN Insert(f, x, v) = DOMAIN f \cup {x}
           /\ IsFunction(Insert(f, x, v))
           /\ \A y \in DOMAIN f : Insert(f, x, v)[y] = f[y]
           /\ x \notin DOMAIN f => Insert(f, x, v)[x] = v
  BY DEF Insert, IsFunction

-----------------------------------------------------------------------------
(* GetId.                                                                  *)

\* A name with an id has a level, and its unit is a number.
LEMMA LevelFacts ==
    ASSUME IdType, NEW n \in DOMAIN mIdMap
    PROVE  /\ n \in Name /\ Level(n) \in 0..(MAX_LEVEL - 1)
           /\ Unit(n) \in Nat \ {0} /\ mIdMap[n] \in Nat
<1>1. n \in Name /\ mIdMap[n] \in Nat /\ Len(n) <= MAX_LEVEL
  BY DEF IdType
<1>2. Level(n) \in 0..(MAX_LEVEL - 1)
  BY <1>1, NameLen, LogAssumption DEF Level
<1> QED BY <1>1, <1>2, UnitType DEF Unit

\* What is new: an id that is the sum of a multiple of the unit and the
\* parent's id, which is a multiple, too.
LEMMA NewIdFacts ==
    ASSUME IdType, UnitInv, NEW name \in Name, Len(name) <= MAX_LEVEL,
           Len(name) > 1 => Front(name) \in DOMAIN mIdMap
    PROVE  /\ Level(name) \in 0..(MAX_LEVEL - 1) /\ Unit(name) \in Nat \ {0}
           /\ mIds[Level(name)] \in Nat \ {0}
           /\ ParentId(name) \in Nat
           /\ \E c \in Nat : ParentId(name) = c * (B * Unit(name))
<1> DEFINE l == Level(name)
<1>1. l \in 0..(MAX_LEVEL - 1) /\ Unit(name) \in Nat \ {0}
      /\ mIds[l] \in Nat \ {0}
  <2>1. l \in 0..(MAX_LEVEL - 1)
    BY NameLen, LogAssumption DEF Level
  <2> QED BY <2>1, UnitType DEF Unit, IdType
<1>2. CASE Len(name) = 1
  <2>1. ParentId(name) = 0
    BY <1>2 DEF ParentId
  <2>2. 0 = 0 * (B * Unit(name))
    BY <1>1, UnitFacts
  <2> QED BY <1>1, <2>1, <2>2
<1>3. CASE Len(name) > 1
  <2> DEFINE f == Front(name)
  <2>1. f \in DOMAIN mIdMap /\ Level(f) = l - 1 /\ l \in 1..(MAX_LEVEL - 1)
    BY <1>1, <1>3, FrontFacts, NameLen, LogAssumption DEF Level
  <2>2. Unit(f) = B * Unit(name)
    BY <2>1, UnitFacts DEF Unit
  <2>3. ParentId(name) = mIdMap[f] /\ mIdMap[f] \in Nat
    <3>1. Len(name) # 1
      BY <1>3, NameDeep
    <3> QED BY <3>1, <2>1 DEF ParentId, IdType
  <2>4. \E c \in 0..Width : mIdMap[f] = c * Unit(f)
    BY <2>1 DEF UnitInv
  <2> QED BY <1>1, <2>2, <2>3, <2>4, UnitType
<1>4. Len(name) = 1 \/ Len(name) > 1
  BY NameLen
<1> QED BY <1>2, <1>3, <1>4, Zenon

LEMMA GetIdIs ==
    ASSUME IdType, UnitInv, NEW name \in Name, Len(name) <= MAX_LEVEL,
           Len(name) > 1 => Front(name) \in DOMAIN mIdMap,
           name \notin DOMAIN mIdMap, GetId(name)
    PROVE  /\ mIds' = [mIds EXCEPT ![Level(name)] = @ + 1]
           /\ DOMAIN mIdMap' = DOMAIN mIdMap \cup {name}
           /\ IsFunction(mIdMap')
           /\ \A n \in DOMAIN mIdMap : mIdMap'[n] = mIdMap[n]
           /\ mIdMap'[name] =
                 (mIds[Level(name)] * Unit(name) + ParentId(name)) % Width
           /\ mIdMap'[name] \in 0..(Width - 1)
           /\ \E c \in 0..Width : mIdMap'[name] = c * Unit(name)
<1> DEFINE q == mIds[Level(name)]
           u == Unit(name)
           sum == q * u + ParentId(name)
<1>1. /\ u \in Nat \ {0} /\ q \in Nat /\ Level(name) \in 0..(MAX_LEVEL - 1)
      /\ \E c \in Nat : ParentId(name) = c * (B * u)
  BY NewIdFacts
<1>2. PICK c \in Nat : ParentId(name) = c * (B * u)
  BY <1>1
<1>3. PICK w \in Nat \ {0} : Width = w * u
  BY <1>1, WidthMultiple DEF Unit
<1> HIDE DEF q, u
<1>4. sum = (q + c * B) * u
  BY <1>1, <1>2, UnitType
<1>5. q + c * B \in Nat
  BY <1>1, UnitType
<1>6. sum % Width \in 0..(Width - 1) /\ \E d \in 0..Width : sum % Width = d * u
  <2> DEFINE z == q + c * B
  <2>1. z \in Nat /\ sum = z * u
    BY <1>4, <1>5
  <2> HIDE DEF z, sum
  <2>2. /\ (z * u) % (w * u) \in 0..(w * u - 1)
        /\ \E d \in 0..(w * u) : (z * u) % (w * u) = d * u
    BY <1>1, <2>1, ModMultiple
  <2> QED BY <2>1, <2>2, <1>3
<1>7. /\ mIds' = [mIds EXCEPT ![Level(name)] = @ + 1]
      /\ mIdMap' = Insert(mIdMap, name, sum % Width)
  BY DEF GetId, ParentId, Unit, q, u
<1> HIDE DEF sum
<1>8. mIdMap'[name] = sum % Width
  BY <1>7, InsertFacts
<1>9. /\ DOMAIN mIdMap' = DOMAIN mIdMap \cup {name} /\ IsFunction(mIdMap')
      /\ \A n \in DOMAIN mIdMap : mIdMap'[n] = mIdMap[n]
  <2> DEFINE after == Insert(mIdMap, name, sum % Width)
  <2>1. /\ DOMAIN after = DOMAIN mIdMap \cup {name} /\ IsFunction(after)
        /\ \A n \in DOMAIN mIdMap : after[n] = mIdMap[n]
    BY InsertFacts
  <2> HIDE DEF after
  <2>2. mIdMap' = after
    BY <1>7 DEF after
  <2> QED BY <2>1, <2>2
<1> QED BY <1>6, <1>7, <1>8, <1>9 DEF sum, q, u

\* The unit of a name and that of what it is in.
LEMMA ParentUnit ==
    ASSUME NEW n \in Name, Len(n) <= MAX_LEVEL, Len(n) > 1
    PROVE  Unit(Front(n)) = B * Unit(n)
<1>1. Level(Front(n)) = Level(n) - 1 /\ Level(n) \in 1..(MAX_LEVEL - 1)
  BY FrontFacts, NameLen, LogAssumption DEF Level
<1> QED BY <1>1, UnitFacts DEF Unit

\* As long as nothing overflows the new id is the sum itself, and the
\* interval of the new name is in that of what the name is in.
LEMMA NewIdFits ==
    ASSUME IdType, IdInv, NEW name \in Name, Len(name) <= MAX_LEVEL,
           Len(name) > 1 => Front(name) \in DOMAIN mIdMap,
           ~Overflowed, mIds[Level(name)] < B
    PROVE  LET sum == mIds[Level(name)] * Unit(name) + ParentId(name)
           IN  /\ sum \in Nat /\ sum % Width = sum
               /\ ParentId(name) <= sum
               /\ sum + Unit(name) <= Width
               /\ Len(name) > 1 =>
                     sum + Unit(name) <= ParentId(name) + Unit(Front(name))
<1> DEFINE q == mIds[Level(name)]
           u == Unit(name)
           pid == ParentId(name)
           sum == q * u + pid
<1>1. u \in Nat \ {0} /\ q \in Nat \ {0} /\ pid \in Nat /\ B \in Nat
      /\ Width \in Nat \ {0}
  BY NewIdFacts, UnitType DEF IdInv
<1>2. q < B
  OBVIOUS
<1>3. Len(name) > 1 => Unit(Front(name)) = B * u
  BY ParentUnit
<1>4. Len(name) > 1 => pid + Unit(Front(name)) <= Width
  <2> SUFFICES ASSUME Len(name) > 1 PROVE pid + Unit(Front(name)) <= Width
    OBVIOUS
  <2>1. pid = mIdMap[Front(name)]
    BY NameDeep DEF ParentId
  <2> QED BY <2>1 DEF IdInv, DigitInv
<1>5. Len(name) = 1 => pid = 0 /\ Width = B * u
  <2> SUFFICES ASSUME Len(name) = 1 PROVE pid = 0 /\ Width = B * u
    OBVIOUS
  <2>1. Level(name) = 0
    BY DEF Level
  <2> QED BY <2>1, UnitFacts DEF ParentId, Unit
<1>6. Len(name) = 1 \/ Len(name) > 1
  BY NameDeep, Zenon
<1> HIDE DEF q, u, pid
<1>7. q * u + u <= B * u
  <2>1. (B - (q + 1)) * u >= 0
    BY <1>1, <1>2
  <2> QED BY <2>1, <1>1
<1>8. q * u \in Nat /\ B * u \in Nat
  BY <1>1
<1>9. sum \in Nat /\ pid <= sum
  BY <1>1, <1>8
<1>10. Len(name) > 1 => sum + u <= pid + Unit(Front(name))
  BY <1>1, <1>3, <1>7, <1>8
<1>11. sum + u <= Width
  <2>1. CASE Len(name) = 1
    BY <2>1, <1>1, <1>5, <1>7, <1>8
  <2>2. CASE Len(name) > 1
    <3> DEFINE v == Unit(Front(name))
    <3>1. v = B * u /\ pid + v <= Width /\ sum + u <= pid + v
      BY <2>2, <1>3, <1>4, <1>10
    <3> HIDE DEF v
    <3> QED BY <3>1, <1>1, <1>8, <1>9
  <2> QED BY <2>1, <2>2, <1>6
<1>12. sum % Width = sum
  <2> HIDE DEF sum
  <2> QED BY <1>1, <1>9, <1>11
<1> QED BY <1>9, <1>10, <1>11, <1>12 DEF q, u, pid

LEMMA OverflowStays ==
    ASSUME IdType, NEW l \in 0..(MAX_LEVEL - 1),
           mIds' = [mIds EXCEPT ![l] = @ + 1], ~Overflowed'
    PROVE  ~Overflowed /\ mIds[l] < B /\ \A k \in DOMAIN mIds : mIds[k] <= mIds'[k]
<1>1. /\ mIds \in [0..(MAX_LEVEL - 1) -> Nat \ {0}] /\ DOMAIN mIds' = DOMAIN mIds
      /\ mIds'[l] = mIds[l] + 1
      /\ \A k \in DOMAIN mIds : k # l => mIds'[k] = mIds[k]
  BY DEF IdType
<1>2. B \in Nat /\ B = 2 ^ LEVEL_BITS
  BY UnitType DEF B
<1>3. \A k \in DOMAIN mIds : ~(mIds'[k] > B)
  BY <1>1, <1>2 DEF Overflowed
<1>4. \A k \in DOMAIN mIds : mIds[k] <= mIds'[k] /\ mIds'[k] \in Nat
  BY <1>1
<1> HIDE DEF B
<1>5. mIds[l] < B
  BY <1>1, <1>2, <1>3
<1>6. ASSUME NEW k \in DOMAIN mIds PROVE ~(mIds[k] > B)
  <2>1. mIds[k] \in Nat /\ mIds'[k] \in Nat /\ mIds[k] <= mIds'[k]
        /\ ~(mIds'[k] > B)
    BY <1>1, <1>3, <1>4
  <2> QED BY <2>1, <1>2
<1> QED BY <1>2, <1>4, <1>5, <1>6 DEF Overflowed

LEMMA NestFact ==
    ASSUME NestInv, NEW n \in DOMAIN mIdMap, NEW k \in 1..Len(n),
           NEW a, a = SubSeq(n, 1, k)
    PROVE  /\ a \in DOMAIN mIdMap
           /\ Overflowed \/ /\ mIdMap[a] <= mIdMap[n]
                            /\ mIdMap[n] + Unit(n) <= mIdMap[a] + Unit(a)
  BY Zenon DEF NestInv

\* GetId keeps what is known about ids, and gives the name one.
LEMMA GetIdStep ==
    ASSUME IdType, IdInv, NEW name \in Name, Len(name) <= MAX_LEVEL,
           Len(name) > 1 => Front(name) \in DOMAIN mIdMap, GetId(name)
    PROVE  /\ IdType' /\ IdInv'
           /\ DOMAIN mIdMap' = DOMAIN mIdMap \cup {name}
           /\ \A n \in DOMAIN mIdMap : mIdMap'[n] = mIdMap[n]
<1>1. CASE name \in DOMAIN mIdMap
  <2>1. UNCHANGED ids
    BY <1>1 DEF GetId
  <2> QED BY <1>1, <2>1 DEF ids, IdType, IdInv, UnitInv, NestInv, DigitInv,
                           Overflowed, ParentId, Unit, Level, Name
<1>2. CASE name \notin DOMAIN mIdMap
  <2> DEFINE l == Level(name)
             q == mIds[l]
             u == Unit(name)
             sum == q * u + ParentId(name)
             D == DOMAIN mIdMap
  <2>1. /\ mIds' = [mIds EXCEPT ![l] = @ + 1]
        /\ DOMAIN mIdMap' = D \cup {name}
        /\ IsFunction(mIdMap')
        /\ \A n \in D : mIdMap'[n] = mIdMap[n]
        /\ mIdMap'[name] = sum % Width
        /\ mIdMap'[name] \in 0..(Width - 1)
        /\ \E c \in 0..Width : mIdMap'[name] = c * u
    BY <1>2, GetIdIs DEF IdInv
  <2>2. l \in 0..(MAX_LEVEL - 1) /\ q \in Nat \ {0} /\ u \in Nat \ {0}
        /\ ParentId(name) \in Nat
    BY NewIdFacts DEF IdInv
  <2>3. Width \in Nat \ {0}
    BY UnitType
  <2>4. IdType'
    <3>1. mIds' \in [0..(MAX_LEVEL - 1) -> Nat \ {0}]
      BY <2>1, <2>2 DEF IdType
    <3>2. \A n \in D : n \in Name /\ mIdMap'[n] \in Nat /\ Len(n) <= MAX_LEVEL
      BY <2>1 DEF IdType
    <3>3. mIdMap'[name] \in Nat
      BY <2>1, <2>3
    <3> QED BY <2>1, <3>1, <3>2, <3>3 DEF IdType
  <2>5. UnitInv'
    <3>1. \A n \in D : /\ mIdMap'[n] < Width
                       /\ \E c \in 0..Width : mIdMap'[n] = c * Unit(n)
      BY <2>1 DEF IdInv, UnitInv
    <3>2. mIdMap'[name] < Width
      BY <2>1, <2>3
    <3> QED BY <2>1, <3>1, <3>2 DEF UnitInv, Unit, Level
  <2>6. ASSUME ~Overflowed'
        PROVE  /\ ~Overflowed /\ mIdMap'[name] = sum
               /\ sum \in Nat /\ ParentId(name) <= sum /\ sum + u <= Width
               /\ Len(name) > 1 => sum + u <= ParentId(name) + Unit(Front(name))
               /\ \A k \in DOMAIN mIds : mIds[k] <= mIds'[k]
    <3>1. ~Overflowed /\ q < B /\ \A k \in DOMAIN mIds : mIds[k] <= mIds'[k]
      BY <2>1, <2>2, <2>6, OverflowStays
    <3> QED BY <2>1, <3>1, NewIdFits
  <2> HIDE DEF l, q, u, sum
  <2>7. NestInv'
    <3> SUFFICES ASSUME NEW n \in D \cup {name}, NEW k \in 1..Len(n)
                 PROVE  LET a == SubSeq(n, 1, k)
                        IN  /\ a \in D \cup {name}
                            /\ \/ Overflowed'
                               \/ /\ mIdMap'[a] <= mIdMap'[n]
                                  /\ mIdMap'[n] + Unit(n) <= mIdMap'[a] + Unit(a)
      BY <2>1 DEF NestInv, Unit, Level
    <3> DEFINE a == SubSeq(n, 1, k)
    <3>0. a = SubSeq(n, 1, k)
      OBVIOUS
    <3> HIDE DEF a
    <3> SUFFICES /\ a \in D \cup {name}
                 /\ \/ Overflowed'
                    \/ /\ mIdMap'[a] <= mIdMap'[n]
                       /\ mIdMap'[n] + Unit(n) <= mIdMap'[a] + Unit(a)
      BY Zenon DEF a
    <3>1. CASE n \in D
      <4>1. /\ a \in D
            /\ \/ Overflowed
               \/ /\ mIdMap[a] <= mIdMap[n]
                  /\ mIdMap[n] + Unit(n) <= mIdMap[a] + Unit(a)
        BY <3>0, <3>1, NestFact DEF IdInv
      <4>2. mIdMap'[a] = mIdMap[a] /\ mIdMap'[n] = mIdMap[n]
        BY <3>1, <4>1, <2>1
      <4> QED BY <4>1, <4>2, <2>6
    <3>2. CASE n = name /\ k = Len(name)
      <4>1. a = name
        BY <3>0, <3>2, NameFacts
      <4>2. mIdMap'[name] \in Int /\ Unit(name) \in Int
        BY <2>1, <2>2 DEF u
      <4> QED BY <3>2, <4>1, <4>2
    <3>3. CASE n = name /\ k # Len(name)
      <4> DEFINE f == Front(name)
      <4>1. k \in 1..(Len(name) - 1) /\ Len(name) > 1
        BY <3>3, NameLen
      <4>2. f \in D /\ k \in 1..Len(f) /\ a = SubSeq(f, 1, k)
        BY <3>0, <3>3, <4>1, FrontFacts
      <4>3. /\ a \in D
            /\ \/ Overflowed
               \/ /\ mIdMap[a] <= mIdMap[f]
                  /\ mIdMap[f] + Unit(f) <= mIdMap[a] + Unit(a)
        BY <4>2, NestFact DEF IdInv
      <4>4. ParentId(name) = mIdMap[f]
        BY <4>1, NameDeep DEF ParentId
      <4>5. mIdMap'[a] = mIdMap[a] /\ mIdMap[a] \in Nat /\ mIdMap[f] \in Nat
            /\ Unit(a) \in Nat /\ Unit(f) \in Nat
        BY <2>1, <4>2, <4>3, LevelFacts
      <4>6. ASSUME ~Overflowed'
            PROVE  /\ mIdMap'[a] <= mIdMap'[name]
                   /\ mIdMap'[name] + Unit(name) <= mIdMap'[a] + Unit(a)
        <5>1. /\ mIdMap[a] <= mIdMap[f] /\ mIdMap[f] + Unit(f) <= mIdMap[a] + Unit(a)
              /\ mIdMap[f] <= sum /\ sum + u <= mIdMap[f] + Unit(f) /\ sum \in Nat
          BY <4>1, <4>3, <4>4, <4>6, <2>6
        <5>2. mIdMap'[name] = sum /\ Unit(name) = u
          BY <4>6, <2>6 DEF u
        <5> QED BY <5>1, <5>2, <4>5, <2>2
      <4> QED BY <3>3, <4>3, <4>6
    <3> QED BY <3>1, <3>2, <3>3
  <2>8. DigitInv'
    <3> SUFFICES ASSUME ~Overflowed' PROVE DigitInv'
      BY DEF DigitInv
    <3>1. ~Overflowed /\ mIdMap'[name] = sum /\ sum \in Nat
          /\ sum + u <= Width /\ \A k \in DOMAIN mIds : mIds[k] <= mIds'[k]
      BY <2>6
    <3>2. \A n \in D \cup {name} : ParentId(n)' = ParentId(n)
      <4> SUFFICES ASSUME NEW n \in D \cup {name} PROVE ParentId(n)' = ParentId(n)
        OBVIOUS
      <4>1. n \in Name
        BY DEF IdType
      <4>2. CASE Len(n) = 1
        BY <4>2 DEF ParentId
      <4>3. CASE Len(n) > 1
        <5>1. Front(n) \in D
          <6>1. CASE n = name
            BY <6>1, <4>3
          <6>2. CASE n \in D
            <7>1. Len(n) - 1 \in 1..Len(n) /\ Front(n) = SubSeq(n, 1, Len(n) - 1)
              BY <4>1, <4>3, NameLen, FrontFacts
            <7> QED BY <6>2, <7>1 DEF IdInv, NestInv
          <6> QED BY <6>1, <6>2
        <5> QED BY <5>1, <2>1 DEF ParentId
      <4> QED BY <4>1, <4>2, <4>3, NameDeep, Zenon
    <3>3. DOMAIN mIds = 0..(MAX_LEVEL - 1) /\ \A k \in 0..(MAX_LEVEL - 1) : mIds[k] \in Nat
      BY DEF IdType
    <3>4. ASSUME NEW n \in D
          PROVE  /\ mIdMap'[n] + Unit(n) <= Width
                 /\ \E r \in 1..(mIds'[Level(n)] - 1) :
                       mIdMap'[n] = r * Unit(n) + ParentId(n)'
      <4>1. mIdMap[n] + Unit(n) <= Width /\ mIdMap'[n] = mIdMap[n]
        BY <3>1, <2>1 DEF IdInv, DigitInv
      <4>2. PICK r \in 1..(mIds[Level(n)] - 1) : mIdMap[n] = r * Unit(n) + ParentId(n)
        BY <3>1 DEF IdInv, DigitInv
      <4>3. Level(n) \in 0..(MAX_LEVEL - 1)
        BY LevelFacts
      <4>4. mIds[Level(n)] \in Nat /\ mIds'[Level(n)] \in Nat
            /\ mIds[Level(n)] <= mIds'[Level(n)]
        BY <4>3, <3>1, <3>3, <2>4 DEF IdType
      <4>5. r \in 1..(mIds'[Level(n)] - 1)
        BY <4>2, <4>4
      <4>6. ParentId(n)' = ParentId(n)
        BY <3>2
      <4> QED BY <4>1, <4>2, <4>5, <4>6
    <3>5. /\ mIdMap'[name] + Unit(name) <= Width
          /\ \E r \in 1..(mIds'[l] - 1) : mIdMap'[name] = r * Unit(name) + ParentId(name)'
      <4>1. mIds'[l] = q + 1
        BY <2>1, <2>2 DEF IdType, q
      <4>2. q \in 1..(mIds'[l] - 1)
        BY <4>1, <2>2
      <4>3. sum = q * Unit(name) + ParentId(name)'
        BY <3>2 DEF sum, u
      <4> QED BY <3>1, <4>2, <4>3 DEF u
    <3>6. ASSUME NEW n \in D, Len(n) = Len(name),
                 mIdMap'[n] - ParentId(n)' = mIdMap'[name] - ParentId(name)'
          PROVE  FALSE
      <4>1. PICK r \in 1..(mIds[Level(n)] - 1) : mIdMap[n] = r * Unit(n) + ParentId(n)
        BY <3>1 DEF IdInv, DigitInv
      <4>2. Level(n) = l /\ Unit(n) = u
        BY <3>6 DEF Level, Unit, l, u
      <4>3. ParentId(n) \in Int
        <5>1. r * Unit(n) \in Int /\ mIdMap[n] \in Int
          BY <4>1, <4>2, <2>2, LevelFacts
        <5>2. n \in Name /\ (Len(n) > 1 => SubSeq(n, 1, Len(n) - 1) \in D)
          <6>1. n \in Name
            BY DEF IdType
          <6>2. Len(n) > 1 => Len(n) - 1 \in 1..Len(n)
            BY <6>1, NameLen
          <6> QED BY <6>1, <6>2 DEF IdInv, NestInv
        <5>3. CASE Len(n) = 1
          BY <5>3 DEF ParentId
        <5>4. CASE Len(n) > 1
          <6>1. Front(n) \in D
            BY <5>2, <5>4 DEF Front
          <6>2. ParentId(n) = mIdMap[Front(n)]
            BY <5>2, <5>4, NameDeep DEF ParentId
          <6> QED BY <6>1, <6>2, LevelFacts
        <5> QED BY <5>2, <5>3, <5>4, NameDeep, Zenon
      <4>4. mIdMap'[n] - ParentId(n)' = r * u
        BY <4>1, <4>2, <4>3, <3>2, <2>1, <2>2
      <4>5. mIdMap'[name] - ParentId(name)' = q * u
        <5>1. mIdMap'[name] = q * u + ParentId(name)
          BY <3>1 DEF sum
        <5>2. ParentId(name)' = ParentId(name)
          BY <3>2
        <5> QED BY <5>1, <5>2, <2>2
      <4>6. r \in Nat /\ r < q
        BY <4>1, <4>2, <2>2 DEF q
      <4>7. (q - r - 1) * u >= 0
        BY <4>6, <2>2
      <4> QED BY <4>4, <4>5, <4>6, <4>7, <3>6, <2>2
    <3>7. ASSUME NEW n \in D \cup {name}, NEW p \in D \cup {name}, Len(n) = Len(p),
                 mIdMap'[n] - ParentId(n)' = mIdMap'[p] - ParentId(p)'
          PROVE  n = p
      <4>1. CASE n \in D /\ p \in D
        <5>1. /\ mIdMap'[n] = mIdMap[n] /\ mIdMap'[p] = mIdMap[p]
              /\ ParentId(n)' = ParentId(n) /\ ParentId(p)' = ParentId(p)
          BY <4>1, <2>1, <3>2
        <5> QED BY <4>1, <5>1, <3>1, <3>7 DEF IdInv, DigitInv
      <4>2. CASE n = name /\ p \in D
        BY <4>2, <3>6, <3>7
      <4>3. CASE n \in D /\ p = name
        BY <4>3, <3>6, <3>7
      <4> QED BY <4>1, <4>2, <4>3
    <3>8. \A n \in D \cup {name} : Unit(n)' = Unit(n) /\ Level(n)' = Level(n)
      BY DEF Unit, Level
    <3>9. \A n \in D \cup {name} :
             /\ mIdMap'[n] + Unit(n)' <= Width
             /\ \E r \in 1..(mIds'[Level(n)] - 1) :
                   mIdMap'[n] = r * Unit(n)' + ParentId(n)'
      BY <3>4, <3>5, <3>8 DEF l
    <3> QED BY <2>1, <3>7, <3>9 DEF DigitInv
  <2> QED BY <2>1, <2>4, <2>5, <2>7, <2>8 DEF IdInv
<1> QED BY <1>1, <1>2

-----------------------------------------------------------------------------
(* Looking up.                                                             *)

\* Numbers that are not above a bound have a largest one.
LEMMA LargestExists ==
    ASSUME NEW N \in Nat, NEW S, S \subseteq 1..N, S # {}
    PROVE  LET k == CHOOSE k \in S : \A l \in S : l <= k
           IN  k \in S /\ \A l \in S : l <= k
<1> DEFINE Less == {ss \in Nat \X Nat : ss[1] < ss[2]}
           T == {z \in Nat : \E i \in S : z = N - i}
<1>1. OpToRel(<, Nat) = Less
  BY Zenon DEF OpToRel
<1>2. IsWellFoundedOn(Less, Nat)
  BY <1>1, NatLessThanWellFounded, Zenon
<1>3. T \subseteq Nat /\ T # {}
  <2>1. PICK i \in S : TRUE
    OBVIOUS
  <2>2. N - i \in Nat
    OBVIOUS
  <2>3. N - i \in T
    BY <2>2
  <2> QED BY <2>3
<1> HIDE DEF Less
<1>4. PICK x \in T : \A y \in T : ~ (<<y, x>> \in Less)
  <2> HIDE DEF T
  <2> QED BY <1>2, <1>3, WFMin
<1>5. PICK k \in S : x = N - k
  BY <1>4
<1>6. ASSUME NEW l \in S PROVE l <= k
  <2>1. N - l \in T
    OBVIOUS
  <2>2. <<N - l, x>> \notin Less
    BY <2>1, <1>4
  <2>3. N - l \in Nat /\ x \in Nat
    BY <1>5
  <2>4. ~(N - l < x)
    BY <2>2, <2>3 DEF Less
  <2> QED BY <2>4, <1>5
<1> QED BY <1>6

\* What a name stands for: Root, or the longest part that is listed.
LEMMA LookupFacts ==
    ASSUME NEW name \in Name
    PROVE  \/ Listed(name) = {} /\ GetLoggerInfo(name) = Root
           \/ \E k \in Listed(name) : /\ GetLoggerInfo(name) = SubSeq(name, 1, k)
                                      /\ \A l \in Listed(name) : l <= k
<1>1. Len(name) \in Nat /\ Listed(name) \subseteq 1..Len(name)
  BY NameLen DEF Listed
<1>2. CASE Listed(name) # {}
  <2> DEFINE lens == Listed(name)
             k == CHOOSE k \in lens : \A l \in lens : l <= k
  <2>1. k \in lens /\ \A l \in lens : l <= k
    <3> HIDE DEF lens
    <3>1. lens \subseteq 1..Len(name) /\ lens # {}
      BY <1>1, <1>2 DEF lens
    <3> QED BY <3>1, <1>1, LargestExists
  <2>2. GetLoggerInfo(name) = SubSeq(name, 1, k)
    BY <1>2, Zenon DEF GetLoggerInfo
  <2> HIDE DEF k
  <2> QED BY <2>1, <2>2
<1>3. CASE Listed(name) = {}
  BY <1>3, Zenon DEF GetLoggerInfo
<1> QED BY <1>2, <1>3, Zenon

LEMMA LookupFinds ==
    ASSUME NEW name \in Name, Root \in Infos
    PROVE  GetLoggerInfo(name) \in Infos
  BY LookupFacts, Zenon DEF Listed, Infos

-----------------------------------------------------------------------------
(* Initial states, and what most steps leave alone.                        *)

LEMMA OneElement ==
    ASSUME NEW S, NEW x \in S
    PROVE  <<x>> \in Seq(S) /\ Len(<<x>>) = 1 /\ <<x>> # <<>>
  OBVIOUS

LEMMA RootName == Root \in Name /\ Len(Root) = 1
<1>1. Root \in Seq(STRING) /\ Len(Root) = 1 /\ Root # <<>>
  BY LiteralAssumption, OneElement, Zenon DEF Root
<1> QED BY <1>1, Zenon DEF Name

LEMMA InitIInv == Init => IInv
<1> SUFFICES ASSUME Init PROVE IInv
  OBVIOUS
<1>1. IdType
  BY LogAssumption DEF Init, IdType, IsFunction
<1>2. InfoType
  <2>1. Root \in Name
    BY RootName
  <2>2. DOMAIN mLoggerInfos = {Root} /\ mLoggerInfos[Root] = NewInfo(0, 0, {})
        /\ IsFunction(mLoggerInfos) /\ mFileId = 0
    BY DEF Init, IsFunction
  <2>3. mLoggerInfos[Root] \in Info
    BY <2>2 DEF NewInfo, Info
  <2>4. mLoggerInfos[Root].Id = 0
    BY <2>2 DEF NewInfo
  <2> QED BY <2>1, <2>2, <2>3, <2>4 DEF InfoType, Infos
<1>3. SinkType /\ CallType /\ Visited(sections)
  BY DEF Init, SinkType, CallType, Visited, IsFunction, Infos
<1>4. FileInv /\ CoreInv /\ RangeInv /\ Linked
  <2>1. Infos = {Root} /\ mLoggerInfos[Root] = NewInfo(0, 0, {}) /\ DOMAIN mSinks = {}
        /\ loaded = {} /\ failed = {} /\ at = "idle"
    BY DEF Init, Infos
  <2> QED BY <2>1 DEF FileInv, CoreInv, RangeInv, Linked, OwnSinks, NewInfo
<1>5. IdInv
  <2>1. DOMAIN mIdMap = {}
    BY DEF Init
  <2> QED BY <2>1 DEF IdInv, UnitInv, NestInv, DigitInv
<1> QED BY <1>1, <1>2, <1>3, <1>4, <1>5 DEF IInv, TypeInv, SinkInv

LEMMA IdKept ==
    ASSUME IdType, IdInv, UNCHANGED ids
    PROVE  IdType' /\ IdInv'
  BY DEF ids, IdType, IdInv, UnitInv, NestInv, DigitInv, Overflowed, ParentId,
         Unit, Level, IsFunction

-----------------------------------------------------------------------------
(* The steps between the sections.                                         *)

LEMMA InitializeStep ==
    ASSUME IInv, NEW fs \in Configs, Initialize(fs)
    PROVE  IInv'
<1> USE DEF IInv, TypeInv, SinkInv, Initialize, ids, known
<1>1. IdType' /\ IdInv'
  BY IdKept
<1>2. InfoType' /\ SinkType'
  BY DEF InfoType, SinkType, Infos, Info, IsFunction
<1>3. CallType'
  BY LogAssumption DEF CallType, Infos
<1>4. Visited(sections)'
  BY DEF Visited
<1>5. FileInv' /\ CoreInv' /\ RangeInv' /\ Linked'
  BY DEF FileInv, CoreInv, RangeInv, Linked, OwnSinks, Span, Infos
<1> QED BY <1>1, <1>2, <1>3, <1>4, <1>5

\* What is left of the files after the first.
LEMMA TailFiles ==
    ASSUME CallType, files # <<>>
    PROVE  /\ Tail(files) \in Seq(File)
           /\ \A i \in 1..Len(Tail(files)) : Tree(Tail(files)[i].loggers)
           /\ Head(files) \in File /\ Tree(Head(files).loggers)
<1>1. files \in Seq(File) /\ \A i \in 1..Len(files) : Tree(files[i].loggers)
  BY DEF CallType
<1>2. Len(files) \in Nat /\ Len(files) > 0
  BY <1>1
<1>3. Tail(files) \in Seq(File) /\ Len(Tail(files)) = Len(files) - 1
      /\ Head(files) = files[1] /\ Head(files) \in File
  BY <1>1, <1>2
<1>4. \A i \in 1..(Len(files) - 1) : Tail(files)[i] = files[i + 1]
  BY <1>1, <1>2
<1>5. Tree(Head(files).loggers)
  BY <1>1, <1>2, <1>3
<1>6. \A i \in 1..(Len(files) - 1) : Tree(files[i + 1].loggers)
  BY <1>1, <1>2
<1> QED BY <1>3, <1>4, <1>5, <1>6

LEMMA LoadConfigStep ==
    ASSUME IInv, LoadConfig
    PROVE  IInv'
<1> USE DEF IInv, TypeInv, SinkInv
<1> USE DEF ids, known
<1>0. /\ Tail(files) \in Seq(File)
      /\ \A i \in 1..Len(Tail(files)) : Tree(Tail(files)[i].loggers)
      /\ Head(files) \in File /\ Tree(Head(files).loggers)
  BY TailFiles DEF LoadConfig
<1>1. IdType' /\ IdInv'
  BY IdKept DEF LoadConfig
<1>2. CASE ~Head(files).open
  <2>1. UNCHANGED <<mFileId, mLoggerInfos, mIdMap, mSinks, origin, core, at,
                    sinks, sections, loaded, failed, early>>
        /\ files' = Tail(files) /\ at = "files"
    BY <1>2 DEF LoadConfig
  <2>2. InfoType' /\ SinkType'
    BY <2>1 DEF InfoType, SinkType, Infos, Info, IsFunction
  <2>3. CallType'
    BY <1>0, <2>1 DEF CallType, Infos
  <2>4. Visited(sections)'
    BY <2>1 DEF Visited
  <2>5. FileInv' /\ CoreInv' /\ RangeInv' /\ Linked'
    BY <2>1 DEF FileInv, CoreInv, RangeInv, Linked, OwnSinks, Span, Infos
  <2> QED BY <1>1, <2>2, <2>3, <2>4, <2>5
<1>3. CASE Head(files).open
  <2>1. UNCHANGED <<mLoggerInfos, mIdMap, mSinks, origin, core, files,
                    loaded, failed, early>>
        /\ at = "files" /\ at' = "sinks" /\ mFileId' = mFileId + 1
        /\ sinks' = Head(files).sinks /\ sections' = Head(files).loggers
        /\ files # <<>>
    BY <1>3 DEF LoadConfig
  <2>2. mFileId \in Nat
    BY DEF InfoType
  <2>3. InfoType'
    <3>1. \A n \in Infos : mLoggerInfos[n] \in Info'
      BY <2>1, <2>2 DEF InfoType, Info
    <3> QED BY <2>1, <2>2, <3>1 DEF InfoType, Infos, IsFunction
  <2>4. SinkType'
    <3>1. \A k \in DOMAIN origin : origin[k] \in STRING \X (1..mFileId')
      BY <2>1, <2>2 DEF SinkType
    <3> QED BY <2>1, <3>1 DEF SinkType, IsFunction
  <2>5. CallType'
    <3>1. sinks' \in Seq(SinkSection) /\ sections' \in Seq(LoggerSection)
      BY <1>0, <2>1 DEF File
    <3> QED BY <2>1, <2>2, <3>1 DEF CallType, Infos
  <2>6. Visited(sections)'
    BY <1>0, <2>1 DEF Visited, Tree
  <2>7. FileInv'
    <3>1. \A n \in Infos : mLoggerInfos[n].FileId # mFileId'
      BY <2>1, <2>2 DEF InfoType, Info
    <3> QED BY <2>1, <3>1 DEF FileInv, Infos
  <2>8. CoreInv'
    <3>1. \A k \in DOMAIN mSinks : origin[k][2] # mFileId'
      BY <2>1, <2>2 DEF SinkType
    <3> QED BY <2>1, <3>1 DEF CoreInv, Infos
  <2>9. RangeInv' /\ Linked'
    BY <2>1 DEF RangeInv, Linked, OwnSinks, Span, Infos
  <2> QED BY <1>1, <2>3, <2>4, <2>5, <2>6, <2>7, <2>8, <2>9
<1> QED BY <1>2, <1>3

LEMMA AddSinksStep ==
    ASSUME IInv, AddSinks
    PROVE  IInv'
<1> USE DEF IInv, TypeInv, SinkInv, AddSinks, ids, known
<1>1. IdType' /\ IdInv'
  BY IdKept
<1>2. InfoType' /\ SinkType'
  BY DEF InfoType, SinkType, Infos, Info, IsFunction
<1>3. CallType' /\ Visited(sections)'
  BY DEF CallType, Infos, Visited
<1>4. FileInv' /\ CoreInv' /\ RangeInv' /\ Linked'
  BY DEF FileInv, CoreInv, RangeInv, Linked, OwnSinks, Span, Infos
<1> QED BY <1>1, <1>2, <1>3, <1>4

LEMMA NextFileStep ==
    ASSUME IInv, NextFile
    PROVE  IInv'
<1> USE DEF IInv, TypeInv, SinkInv, NextFile, ids, known
<1>0. files # <<>>
  BY DEF CallType
<1>1. IdType' /\ IdInv'
  BY IdKept
<1>2. InfoType' /\ SinkType'
  BY DEF InfoType, SinkType, Infos, Info, IsFunction
<1>3. CallType' /\ Visited(sections)'
  BY <1>0, TailFiles DEF CallType, Infos, Visited
<1>4. FileInv' /\ CoreInv' /\ RangeInv' /\ Linked'
  BY DEF FileInv, CoreInv, RangeInv, Linked, OwnSinks, Span, Infos
<1> QED BY <1>1, <1>2, <1>3, <1>4

-----------------------------------------------------------------------------
(* The steps on a section.                                                 *)

\* An exception: what was loaded has no sinks, and is failed from now on.
LEMMA ThrowStep ==
    ASSUME IInv, Throw({}), IdType', IdInv',
           UNCHANGED <<mLoggerInfos, mFileId, known, core, early>>,
           DOMAIN mIdMap \subseteq DOMAIN mIdMap',
           \A n \in DOMAIN mIdMap : mIdMap'[n] = mIdMap[n]
    PROVE  IInv'
<1> USE DEF IInv, TypeInv, SinkInv, Throw, Return, known
<1>1. InfoType' /\ SinkType'
  BY DEF InfoType, SinkType, Infos, Info, IsFunction
<1>2. CallType' /\ Visited(sections)'
  BY DEF CallType, Infos, Visited
<1>3. FileInv' /\ CoreInv' /\ RangeInv'
  BY DEF FileInv, CoreInv, RangeInv, Span, Infos
<1>4. Linked'
  BY DEF FileInv, Linked, OwnSinks, Infos
<1> QED BY <1>1, <1>2, <1>3, <1>4

LEMMA TailOf ==
    ASSUME NEW S, NEW s \in Seq(S), s # <<>>
    PROVE  /\ Head(s) \in S /\ Head(s) = s[1]
           /\ Tail(s) \in Seq(S) /\ Len(Tail(s)) = Len(s) - 1
           /\ Len(s) \in Nat \ {0}
           /\ \A i \in 1..(Len(s) - 1) : Tail(s)[i] = s[i + 1]
  OBVIOUS

LEMMA LoadSinkStep ==
    ASSUME IInv, LoadSink
    PROVE  IInv'
<1> DEFINE s == Head(sinks)
           key == SinkKey(s.name, mFileId)
<1> USE DEF IInv, TypeInv, SinkInv
<1>0. /\ at = "sinks" /\ sinks # <<>>
      /\ UNCHANGED <<mIds, mIdMap, mLoggerInfos, mFileId, core, early>>
  BY DEF LoadSink, ids
<1>1. IdType' /\ IdInv'
  BY <1>0, IdKept DEF ids
<1>2. CASE s.name \in DOMAIN mSinks \/ s.bad
  <2>1. Throw({}) /\ UNCHANGED known
    BY <1>2 DEF LoadSink
  <2> QED BY <1>0, <1>1, <2>1, ThrowStep
<1>3. CASE s.name \notin DOMAIN mSinks /\ ~s.bad
  <2>1. /\ mSinks' = Insert(mSinks, key, {})
        /\ origin' = Insert(origin, key, <<s.name, mFileId>>)
        /\ sinks' = Tail(sinks)
        /\ UNCHANGED <<at, files, sections, loaded, failed>>
    BY <1>3 DEF LoadSink
  <2>2. /\ DOMAIN mSinks' = DOMAIN mSinks \cup {key}
        /\ DOMAIN origin' = DOMAIN mSinks \cup {key}
        /\ IsFunction(mSinks)' /\ IsFunction(origin)'
        /\ \A k \in DOMAIN mSinks : mSinks'[k] = mSinks[k] /\ origin'[k] = origin[k]
        /\ key \notin DOMAIN mSinks => /\ mSinks'[key] = {}
                                       /\ origin'[key] = <<s.name, mFileId>>
    <3>1. DOMAIN origin = DOMAIN mSinks
      BY DEF SinkType
    <3> HIDE DEF IInv, key, s
    <3>2. IsFunction(mSinks') /\ IsFunction(origin')
      BY <2>1, InsertFacts, Zenon
    <3>3. IsFunction(mSinks)' /\ IsFunction(origin)'
      BY <3>2, Zenon DEF IsFunction
    <3>4. DOMAIN mSinks' = DOMAIN mSinks \cup {key} /\ DOMAIN origin' = DOMAIN mSinks \cup {key}
      BY <2>1, <3>1 DEF Insert
    <3>5. \A k \in DOMAIN mSinks : mSinks'[k] = mSinks[k] /\ origin'[k] = origin[k]
      BY <2>1, <3>1 DEF Insert
    <3>6. key \notin DOMAIN mSinks => /\ mSinks'[key] = {}
                                     /\ origin'[key] = <<s.name, mFileId>>
      BY <2>1, <3>1 DEF Insert
    <3> QED BY <3>3, <3>4, <3>5, <3>6
  <2>3. s \in SinkSection /\ Tail(sinks) \in Seq(SinkSection)
    BY <1>0, TailOf DEF CallType
  <2>4. s.name \in STRING /\ mFileId \in Nat /\ mFileId > 0
    BY <1>0, <2>3 DEF SinkSection, CallType, InfoType
  <2> HIDE DEF s, key
  <2>5. InfoType'
    <3>1. \A n \in Infos : mLoggerInfos[n] \in Info'
      BY <1>0, <2>2 DEF InfoType, Info
    <3> QED BY <1>0, <3>1 DEF InfoType, Infos, IsFunction
  <2>6. SinkType'
    <3>1. \A k \in DOMAIN origin' : origin'[k] \in STRING \X (1..mFileId)
      BY <2>2, <2>4 DEF SinkType
    <3> QED BY <1>0, <2>2, <3>1 DEF SinkType
  <2>7. CallType' /\ Visited(sections)'
    BY <1>0, <2>1, <2>3 DEF CallType, Infos, Visited
  <2>8. FileInv'
    BY <1>0, <2>1 DEF FileInv, Infos
  <2>9. CoreInv'
    <3>1. \A n \in Infos : mLoggerInfos[n].FileId # mFileId
      BY <1>0 DEF FileInv
    <3>2. \A k \in DOMAIN mSinks' \ core : \A n \in Infos :
             mLoggerInfos[n].FileId # origin'[k][2]
      BY <2>2, <3>1 DEF CoreInv
    <3> QED BY <1>0, <2>1, <3>2 DEF CoreInv, Infos
  <2>10. RangeInv'
    <3>1. \A n \in Infos : mLoggerInfos[n].SinkInfos \subseteq DOMAIN mSinks
      BY DEF InfoType, Info
    <3>2. \A n : Span(n)' = Span(n)
      BY <1>0 DEF Span
    <3> HIDE DEF IInv
    <3>3. \A k \in DOMAIN mSinks' : \A g \in mSinks'[k] :
             k \in DOMAIN mSinks /\ g \in mSinks[k]
      BY <2>2
    <3>4. \A k \in DOMAIN mSinks' : \A g \in mSinks'[k] :
             \E p \in Infos' : k \in mLoggerInfos'[p].SinkInfos /\ g = Span(p)'
      BY <1>0, <3>2, <3>3 DEF RangeInv, Infos, SinkInv, IInv
    <3>5. \A n \in Infos' : mLoggerInfos'[n].Log =>
             \/ n = Root /\ early'
             \/ \A k \in mLoggerInfos'[n].SinkInfos : Span(n)' \in mSinks'[k]
      BY <1>0, <2>2, <3>1, <3>2 DEF RangeInv, Infos, SinkInv, IInv
    <3> QED BY <3>4, <3>5 DEF RangeInv, Infos
  <2>11. Linked'
    <3>1. \A n \in Infos : OwnSinks(n)' \subseteq OwnSinks(n)
      <4> SUFFICES ASSUME NEW n \in Infos, NEW k \in OwnSinks(n)' PROVE k \in OwnSinks(n)
        OBVIOUS
      <4>1. k \in DOMAIN mSinks' /\ origin'[k][2] = mLoggerInfos[n].FileId
        BY <1>0 DEF OwnSinks
      <4>2. k \in DOMAIN mSinks
        BY <1>0, <2>2, <4>1 DEF FileInv
      <4> QED BY <1>0, <2>2, <4>2 DEF OwnSinks
    <3> QED BY <1>0, <2>1, <3>1 DEF Linked, Infos
  <2> QED BY <1>1, <2>5, <2>6, <2>7, <2>8, <2>9, <2>10, <2>11
<1> QED BY <1>2, <1>3

LEMMA UnchangedStep ==
    ASSUME IInv,
           UNCHANGED <<ids, mLoggerInfos, mFileId, known, locals, core, failed, early>>
    PROVE  IInv'
<1> USE DEF IInv, TypeInv, SinkInv, ids, known, locals
<1>1. IdType' /\ IdInv'
  BY IdKept
<1>2. InfoType' /\ SinkType'
  BY DEF InfoType, SinkType, Infos, Info, IsFunction
<1>3. CallType' /\ Visited(sections)'
  BY DEF CallType, Infos, Visited
<1>4. FileInv' /\ CoreInv' /\ RangeInv' /\ Linked'
  BY DEF FileInv, CoreInv, RangeInv, Linked, OwnSinks, Span, Infos
<1> QED BY <1>1, <1>2, <1>3, <1>4

\* The section to load next is in one that has an id.
LEMMA HeadVisited ==
    ASSUME CallType, Visited(sections), sections # <<>>
    PROVE  /\ Head(sections) \in LoggerSection
           /\ Head(sections).name \in Name
           /\ Len(Head(sections).name) > 1 =>
                 Front(Head(sections).name) \in DOMAIN mIdMap
<1>1. Head(sections) \in LoggerSection /\ Head(sections) = sections[1]
      /\ 1 \in 1..Len(sections)
  BY TailOf DEF CallType
<1>2. Head(sections).name \in Name
  BY <1>1 DEF LoggerSection
<1> QED BY <1>1, <1>2 DEF Visited

\* The sections behind one that got an id, or that no section is in.
LEMMA TailVisited ==
    ASSUME CallType, Visited(sections), sections # <<>>,
           sections' = Tail(sections), DOMAIN mIdMap \subseteq DOMAIN mIdMap',
           \/ Head(sections).leaf
           \/ Head(sections).name \in DOMAIN mIdMap'
    PROVE  Visited(sections)' /\ sections' \in Seq(LoggerSection)
<1>1. /\ Tail(sections) \in Seq(LoggerSection)
      /\ Len(Tail(sections)) = Len(sections) - 1 /\ Head(sections) = sections[1]
      /\ Len(sections) \in Nat
      /\ \A i \in 1..(Len(sections) - 1) : Tail(sections)[i] = sections[i + 1]
  BY TailOf DEF CallType
<1> DEFINE t == Tail(sections)
<1> HIDE DEF t
<1>2. ASSUME NEW j \in 1..Len(t), Len(t[j].name) > 1,
             Front(t[j].name) \notin DOMAIN mIdMap'
      PROVE  \E i \in 1..(j - 1) : t[i].name = Front(t[j].name) /\ ~t[i].leaf
  <2>1. j + 1 \in 1..Len(sections) /\ t[j] = sections[j + 1]
    BY <1>1 DEF t
  <2>2. PICK i \in 1..j : sections[i].name = Front(t[j].name) /\ ~sections[i].leaf
    <3>1. (j + 1) - 1 = j
      BY <2>1
    <3> QED BY <1>2, <2>1, <3>1 DEF Visited
  <2>3. i # 1
    BY <1>1, <1>2, <2>2
  <2>4. i - 1 \in 1..(j - 1) /\ t[i - 1] = sections[i]
    <3>1. i - 1 \in 1..(j - 1) /\ i - 1 \in 1..(Len(sections) - 1) /\ (i - 1) + 1 = i
      BY <2>1, <2>2, <2>3, <1>1
    <3> QED BY <3>1, <1>1 DEF t
  <2> QED BY <2>2, <2>4
<1> QED BY <1>1, <1>2 DEF Visited, t

\* A section without Sinks
LEMMA SectionStep ==
    ASSUME IInv, NEW e, e = Head(sections), Len(e.name) <= MAX_LEVEL,
           at = "loggers", sections # <<>>, GetId(e.name),
           sections' = Tail(sections),
           UNCHANGED <<mLoggerInfos, at, files, sinks, loaded, failed, mFileId,
                       mSinks, origin, core, early>>
    PROVE  IInv'
<1> USE DEF IInv, TypeInv, SinkInv
<1>1. sections # <<>>
  OBVIOUS
<1>2. e.name \in Name /\ (Len(e.name) > 1 => Front(e.name) \in DOMAIN mIdMap)
  BY <1>1, HeadVisited
<1>3. /\ IdType' /\ IdInv' /\ DOMAIN mIdMap' = DOMAIN mIdMap \cup {e.name}
      /\ \A n \in DOMAIN mIdMap : mIdMap'[n] = mIdMap[n]
  BY <1>1, <1>2, GetIdStep
<1>4. Visited(sections)' /\ sections' \in Seq(LoggerSection)
  BY <1>1, <1>3, TailVisited
<1>5. InfoType' /\ SinkType'
  BY <1>1, <1>3 DEF InfoType, SinkType, Infos, Info, IsFunction
<1>6. CallType'
  BY <1>1, <1>4 DEF CallType, Infos
<1>7. FileInv' /\ CoreInv' /\ RangeInv' /\ Linked'
  BY <1>1 DEF FileInv, CoreInv, RangeInv, Linked, OwnSinks, Span, Infos
<1> QED BY <1>3, <1>4, <1>5, <1>6, <1>7

LEMMA NewInfoFacts ==
    ASSUME NEW id \in Nat, NEW names \in SUBSET STRING, mFileId \in Nat
    PROVE  LET i == NewInfo(id, mFileId, names)
           IN  /\ i \in Info /\ i.Id = id /\ i.FileId = mFileId
               /\ i.SinkInfos = {} /\ i.Log = FALSE
  BY DEF NewInfo, Info

LEMMA InfoLoaded ==
    ASSUME NEW i \in Info, NEW names \in SUBSET STRING, mFileId \in Nat
    PROVE  LET r == [i EXCEPT !.FileId = mFileId, !.SinkNames = names]
           IN  /\ r \in Info /\ r.Id = i.Id /\ r.FileId = mFileId
               /\ r.SinkInfos = i.SinkInfos /\ r.Log = i.Log
<1> DEFINE q == [i EXCEPT !.FileId = mFileId]
           r == [q EXCEPT !.SinkNames = names]
<1>1. /\ q \in Info /\ q.Id = i.Id /\ q.FileId = mFileId
      /\ q.SinkInfos = i.SinkInfos /\ q.Log = i.Log
  BY DEF Info
<1> HIDE DEF q
<1>2. /\ r \in Info /\ r.Id = q.Id /\ r.FileId = q.FileId
      /\ r.SinkInfos = q.SinkInfos /\ r.Log = q.Log
  BY <1>1 DEF Info
<1> QED BY <1>1, <1>2 DEF q

\* The section Root: the logger it loads was there and had no sinks.
LEMMA RootStep ==
    ASSUME IInv, NEW e, e = Head(sections), e.leaf, e.name = Root,
           at = "loggers", sections # <<>>, LoadRoot(e),
           mLoggerInfos[Root].FileId = 0,
           UNCHANGED <<mFileId, mSinks, origin, core, early>>
    PROVE  IInv'
<1> DEFINE r == [mLoggerInfos[Root] EXCEPT !.FileId = mFileId, !.SinkNames = e.sinks]
<1> USE DEF IInv, TypeInv, SinkInv
<1>1. sections # <<>>
  OBVIOUS
<1>2. /\ mLoggerInfos' = [mLoggerInfos EXCEPT ![Root] = r]
      /\ UNCHANGED ids
      /\ \/ e.bad /\ Throw({Root})
         \/ /\ ~e.bad
            /\ loaded' = loaded \cup {Root} /\ sections' = Tail(sections)
            /\ UNCHANGED <<at, files, sinks, failed>>
  BY <1>1 DEF LoadRoot
<1>3. e \in LoggerSection /\ e.sinks \in SUBSET STRING
  BY <1>1, HeadVisited DEF LoggerSection
<1>4. IdType' /\ IdInv' /\ UNCHANGED mIdMap
  BY <1>2, IdKept DEF ids
<1>5. mFileId \in Nat /\ mFileId > 0 /\ Root \in Infos /\ mLoggerInfos[Root] \in Info
      /\ IsFunction(mLoggerInfos)
  BY <1>1 DEF InfoType, CallType
<1>6. /\ r \in Info /\ r.Id = mLoggerInfos[Root].Id /\ r.FileId = mFileId
      /\ r.SinkInfos = mLoggerInfos[Root].SinkInfos /\ r.Log = mLoggerInfos[Root].Log
  BY <1>3, <1>5, InfoLoaded
<1>7. mLoggerInfos[Root].SinkInfos = {} /\ (mLoggerInfos[Root].Log => early)
      /\ Root \notin loaded \cup failed
  BY <1>5 DEF FileInv
<1> HIDE DEF r
<1>8. /\ Infos' = Infos /\ mLoggerInfos'[Root] = r /\ IsFunction(mLoggerInfos)'
      /\ \A n \in Infos \ {Root} : mLoggerInfos'[n] = mLoggerInfos[n]
  BY <1>2, <1>5 DEF Infos, IsFunction
<1>9. /\ loaded' \cup failed' = loaded \cup failed \cup {Root}
      /\ loaded' \cap failed' = {} /\ loaded' \subseteq loaded \cup {Root}
      /\ at' # "sinks"
  BY <1>1, <1>2, <1>7 DEF Throw, Return, FileInv
<1>10. InfoType'
  <2>1. \A n \in Infos' : mLoggerInfos'[n] \in Info'
    BY <1>1, <1>6, <1>8 DEF InfoType, Info
  <2> QED BY <1>1, <1>4, <1>6, <1>8, <2>1 DEF InfoType
<1>11. SinkType'
  BY <1>1 DEF SinkType, IsFunction
<1>12. Visited(sections)' /\ sections' \in Seq(LoggerSection)
  <2>1. CASE sections' = Tail(sections)
    BY <2>1, <1>1, <1>4, TailVisited
  <2>2. CASE sections' = <<>>
    BY <2>2 DEF Visited
  <2> QED BY <1>2, <2>1, <2>2 DEF Throw, Return
<1>13. CallType'
  BY <1>1, <1>2, <1>5, <1>8, <1>9, <1>12 DEF CallType, Throw, Return
<1>14. FileInv'
  <2>1. \A n \in Infos' : LET i == mLoggerInfos'[n]
                          IN  i.FileId = 0 => /\ n = Root /\ i.SinkInfos = {}
                                              /\ i.Log => early'
    BY <1>5, <1>6, <1>8 DEF FileInv
  <2>2. \A n \in loaded' \cup failed' : /\ mLoggerInfos'[n].FileId # 0
                                         /\ mLoggerInfos'[n].SinkInfos = {}
    <3>1. \A n \in (loaded \cup failed) \ {Root} : mLoggerInfos'[n] = mLoggerInfos[n]
      BY <1>8 DEF CallType
    <3>2. \A n \in loaded \cup failed : /\ mLoggerInfos[n].FileId # 0
                                         /\ mLoggerInfos[n].SinkInfos = {}
      BY DEF FileInv
    <3>3. mLoggerInfos'[Root].FileId # 0 /\ mLoggerInfos'[Root].SinkInfos = {}
      BY <1>5, <1>6, <1>7, <1>8
    <3> QED BY <1>9, <3>1, <3>2, <3>3
  <2>3. \A n \in loaded' : mLoggerInfos'[n].Log => n = Root /\ early'
    BY <1>6, <1>7, <1>8, <1>9 DEF FileInv, CallType
  <2> QED BY <1>9, <2>1, <2>2, <2>3 DEF FileInv
<1>15. CoreInv'
  BY <1>1, <1>2, <1>6, <1>8 DEF CoreInv, Throw, Return
<1>16. RangeInv'
  <2>1. \A n \in Infos : /\ mLoggerInfos'[n].Id = mLoggerInfos[n].Id
                         /\ mLoggerInfos'[n].SinkInfos = mLoggerInfos[n].SinkInfos
                         /\ mLoggerInfos'[n].Log = mLoggerInfos[n].Log
    BY <1>6, <1>8
  <2>2. \A n \in Infos : Span(n)' = Span(n)
    BY <2>1 DEF Span
  <2> QED BY <1>1, <1>8, <2>1, <2>2 DEF RangeInv
<1>17. Linked'
  <2>1. \A n \in Infos \ {Root} : OwnSinks(n)' = OwnSinks(n)
    BY <1>1, <1>8 DEF OwnSinks
  <2>2. \A n \in failed' : mLoggerInfos'[n].SinkInfos = {}
    BY <1>6, <1>7, <1>8, <1>9 DEF FileInv, CallType
  <2> QED BY <1>8, <1>9, <2>1, <2>2 DEF Linked
<1> QED BY <1>4, <1>10, <1>11, <1>12, <1>13, <1>14, <1>15, <1>16, <1>17

\* A section with Sinks: a logger that was not known, with no sinks yet.
LEMMA LeafStep ==
    ASSUME IInv, NEW e, e = Head(sections), Len(e.name) <= MAX_LEVEL, e.leaf,
           at = "loggers", sections # <<>>, GetId(e.name),
           e.name \notin Infos,
           mLoggerInfos' = Insert(mLoggerInfos, e.name,
                              NewInfo(mIdMap'[e.name], mFileId, e.sinks)),
           loaded' = loaded \cup {e.name}, sections' = Tail(sections),
           UNCHANGED <<at, files, sinks, failed, mFileId, mSinks, origin, core,
                       early>>
    PROVE  IInv'
<1> DEFINE x == e.name
           i == mLoggerInfos'[x]
<1> USE DEF IInv, TypeInv, SinkInv
<1>1. e \in LoggerSection /\ x \in Name
      /\ (Len(x) > 1 => Front(x) \in DOMAIN mIdMap)
  BY HeadVisited
<1>2. /\ IdType' /\ IdInv' /\ DOMAIN mIdMap' = DOMAIN mIdMap \cup {x}
      /\ \A n \in DOMAIN mIdMap : mIdMap'[n] = mIdMap[n]
  BY <1>1, GetIdStep
<1>3. Visited(sections)' /\ sections' \in Seq(LoggerSection)
  BY <1>2, TailVisited
<1>4. mIdMap'[x] \in Nat /\ e.sinks \in SUBSET STRING /\ mFileId \in Nat /\ mFileId > 0
  <2>1. mIdMap'[x] \in Nat
    BY <1>2 DEF IdType
  <2> QED BY <2>1, <1>1 DEF LoggerSection, InfoType, CallType
<1> HIDE DEF IInv
<1>5. /\ Infos' = Infos \cup {x} /\ i = NewInfo(mIdMap'[x], mFileId, e.sinks)
      /\ \A n \in Infos : mLoggerInfos'[n] = mLoggerInfos[n]
  BY DEF Insert, Infos
<1>6. IsFunction(mLoggerInfos)'
  <2>1. IsFunction(mLoggerInfos')
    BY InsertFacts, Zenon
  <2> QED BY <2>1, Zenon DEF IsFunction
<1>7. /\ i.Id = mIdMap'[x] /\ i.FileId = mFileId /\ i.SinkInfos = {} /\ ~i.Log
      /\ i \in Info
  <2> DEFINE id == mIdMap'[x]
             names == e.sinks
  <2>1. id \in Nat /\ names \in SUBSET STRING /\ mFileId \in Nat
        /\ i = NewInfo(id, mFileId, names)
    BY <1>4, <1>5
  <2> HIDE DEF id, names, i
  <2>2. i \in Info /\ i.Id = id /\ i.FileId = mFileId /\ i.SinkInfos = {} /\ i.Log = FALSE
    BY <2>1, NewInfoFacts
  <2> QED BY <2>2 DEF id
<1> HIDE DEF i, x
<1> USE DEF IInv
<1>8. x \notin Infos /\ x # Root /\ x \notin loaded \cup failed
  BY DEF x, InfoType, CallType
<1>9. InfoType'
  <2>1. \A n \in Infos' : mLoggerInfos'[n] \in Info'
    BY <1>5, <1>7 DEF InfoType, Info, i
  <2>2. \A n \in Infos' \ {Root} : n \in DOMAIN mIdMap' /\ mLoggerInfos'[n].Id = mIdMap'[n]
    BY <1>2, <1>5, <1>7 DEF InfoType, i
  <2>3. Root \in Infos' /\ mLoggerInfos'[Root].Id = 0 /\ Infos' \subseteq Name
    BY <1>1, <1>5 DEF InfoType, x
  <2> QED BY <1>4, <1>6, <2>1, <2>2, <2>3 DEF InfoType
<1>10. SinkType'
  BY DEF SinkType, IsFunction
<1>11. CallType'
  BY <1>3, <1>5 DEF CallType, x
<1>12. FileInv'
  <2>1. \A n \in Infos' : mLoggerInfos'[n].FileId = 0 =>
           n = Root /\ mLoggerInfos'[n].SinkInfos = {} /\ (mLoggerInfos'[n].Log => early')
    <3>1. \A n \in Infos : mLoggerInfos[n].FileId = 0 =>
             n = Root /\ mLoggerInfos[n].SinkInfos = {} /\ (mLoggerInfos[n].Log => early)
      BY DEF FileInv
    <3>2. mLoggerInfos'[x].FileId # 0
      BY <1>4, <1>7 DEF i
    <3> QED BY <1>5, <3>1, <3>2
  <2>2. \A n \in loaded \cup failed : mLoggerInfos'[n] = mLoggerInfos[n]
    BY <1>5 DEF CallType
  <2>3. loaded' = loaded \cup {x} /\ failed' = failed
    BY DEF x
  <2>4. mLoggerInfos'[x].FileId # 0 /\ mLoggerInfos'[x].SinkInfos = {}
        /\ ~mLoggerInfos'[x].Log
    BY <1>4, <1>7 DEF i
  <2>5. \A n \in loaded' \cup failed' : /\ mLoggerInfos'[n].FileId # 0
                                         /\ mLoggerInfos'[n].SinkInfos = {}
    BY <2>2, <2>3, <2>4 DEF FileInv
  <2>6. \A n \in loaded' : mLoggerInfos'[n].Log => n = Root /\ early'
    BY <2>2, <2>3, <2>4 DEF FileInv
  <2>7. loaded' \cap failed' = {} /\ at' # "sinks"
    BY <1>8, <2>3 DEF FileInv
  <2> QED BY <2>1, <2>5, <2>6, <2>7 DEF FileInv
<1>13. CoreInv'
  BY <1>5, <1>7 DEF CoreInv, i
<1>14. RangeInv'
  <2>1. \A n \in Infos : Span(n)' = Span(n)
    BY <1>5 DEF Span
  <2>2. \A k \in DOMAIN mSinks : \A g \in mSinks[k] :
           \E p \in Infos' : k \in mLoggerInfos'[p].SinkInfos /\ g = Span(p)'
    BY <1>5, <2>1 DEF RangeInv
  <2>3. ~mLoggerInfos'[x].Log
    BY <1>7 DEF i
  <2>4. \A n \in Infos : mLoggerInfos'[n].Log =>
           \/ n = Root /\ early
           \/ \A k \in mLoggerInfos'[n].SinkInfos : Span(n)' \in mSinks[k]
    BY <1>5, <2>1 DEF RangeInv
  <2> QED BY <1>5, <2>2, <2>3, <2>4 DEF RangeInv
<1>15. Linked'
  <2>1. \A n \in Infos : OwnSinks(n)' = OwnSinks(n)
    BY <1>5 DEF OwnSinks
  <2>2. Infos' \ loaded' \subseteq Infos \ loaded
    BY <1>5 DEF x
  <2> QED BY <1>5, <2>1, <2>2 DEF Linked
<1> QED BY <1>2, <1>3, <1>9, <1>10, <1>11, <1>12, <1>13, <1>14, <1>15

LEMMA LoadLoggerStep ==
    ASSUME IInv, LoadLogger
    PROVE  IInv'
<1> DEFINE e == Head(sections)
           new == /\ mLoggerInfos' = Insert(mLoggerInfos, e.name,
                        NewInfo(mIdMap'[e.name], mFileId, e.sinks))
                  /\ loaded' = loaded \cup {e.name} /\ sections' = Tail(sections)
                  /\ UNCHANGED <<at, files, sinks, failed>>
<1>0. /\ at = "loggers" /\ sections # <<>>
      /\ UNCHANGED <<mFileId, mSinks, origin, core, early>> /\ UNCHANGED known
  BY DEF LoadLogger, known
<1>1. /\ e.name \in Name
      /\ Len(e.name) > 1 => Front(e.name) \in DOMAIN mIdMap
      /\ IdType /\ IdInv
  BY <1>0, HeadVisited DEF IInv, TypeInv
<1>2. CASE UNCHANGED <<ids, mLoggerInfos, locals, failed>>
  BY <1>0, <1>2, UnchangedStep
<1>3. CASE /\ Len(e.name) <= MAX_LEVEL /\ e.leaf /\ e.name = Root /\ LoadRoot(e)
  <2>1. CASE mLoggerInfos[Root].FileId # 0
    <3>1. Throw({}) /\ UNCHANGED <<ids, mLoggerInfos>>
      BY <1>3, <2>1 DEF LoadRoot
    <3>2. IdType' /\ IdInv' /\ UNCHANGED mIdMap
      BY <1>1, <3>1, IdKept DEF ids
    <3> QED BY <1>0, <3>1, <3>2, ThrowStep
  <2>2. CASE mLoggerInfos[Root].FileId = 0
    <3> HIDE DEF e
    <3>1. e = Head(sections)
      BY DEF e
    <3> QED BY <1>0, <1>3, <2>2, <3>1, RootStep
  <2> QED BY <2>1, <2>2
<1>4. CASE /\ Len(e.name) <= MAX_LEVEL /\ e.leaf /\ LoadLeaf(e)
  <2>1. CASE e.name \in DOMAIN mLoggerInfos
    <3>1. Throw({}) /\ UNCHANGED <<ids, mLoggerInfos>>
      BY <1>4, <2>1 DEF LoadLeaf
    <3>2. IdType' /\ IdInv' /\ UNCHANGED mIdMap
      BY <1>1, <3>1, IdKept DEF ids
    <3> QED BY <1>0, <3>1, <3>2, ThrowStep
  <2>2. CASE e.name \notin DOMAIN mLoggerInfos
    <3>1. /\ GetId(e.name)
          /\ \/ Throw({}) /\ UNCHANGED mLoggerInfos
             \/ new
      BY <1>4, <2>2 DEF LoadLeaf
    <3>2. CASE Throw({}) /\ UNCHANGED mLoggerInfos
      <4>1. /\ IdType' /\ IdInv' /\ DOMAIN mIdMap' = DOMAIN mIdMap \cup {e.name}
            /\ \A n \in DOMAIN mIdMap : mIdMap'[n] = mIdMap[n]
        BY <1>1, <1>4, <3>1, GetIdStep
      <4> QED BY <1>0, <3>2, <4>1, ThrowStep
    <3>3. CASE new
      <4> DEFINE d == e
      <4>1. d = Head(sections) /\ d.name \notin Infos /\ d.leaf /\ GetId(d.name)
            /\ Len(d.name) <= MAX_LEVEL
        BY <1>4, <2>2, <3>1 DEF Infos
      <4>2. /\ mLoggerInfos' = Insert(mLoggerInfos, d.name,
                    NewInfo(mIdMap'[d.name], mFileId, d.sinks))
            /\ loaded' = loaded \cup {d.name} /\ sections' = Tail(sections)
            /\ UNCHANGED <<at, files, sinks, failed>>
        BY <3>3
      <4> HIDE DEF d, new
      <4> QED BY <1>0, <4>1, <4>2, LeafStep
    <3> QED BY <3>1, <3>2, <3>3
  <2> QED BY <2>1, <2>2
<1>5. CASE /\ Len(e.name) <= MAX_LEVEL /\ GetId(e.name) /\ sections' = Tail(sections)
           /\ UNCHANGED <<mLoggerInfos, at, files, sinks, loaded, failed>>
  <2> HIDE DEF e, new
  <2>1. e = Head(sections)
    BY DEF e
  <2> QED BY <1>0, <1>5, <2>1, SectionStep
<1> QED BY <1>2, <1>3, <1>4, <1>5 DEF LoadLogger

-----------------------------------------------------------------------------
(* The end of Initialize, and GetLogger.                                   *)

LEMMA InfoLinked ==
    ASSUME NEW i \in Info, NEW keys \in SUBSET DOMAIN mSinks
    PROVE  LET r == [i EXCEPT !.SinkInfos = keys]
           IN  /\ r \in Info /\ r.Id = i.Id /\ r.FileId = i.FileId
               /\ r.SinkNames = i.SinkNames /\ r.SinkInfos = keys /\ r.Log = i.Log
  BY DEF Info

LEMMA LinkStep ==
    ASSUME IInv, LinkLoggerWithSink
    PROVE  IInv'
<1> USE DEF IInv, TypeInv, SinkInv
<1>1. /\ at' = "idle" /\ files' = <<>> /\ sinks' = <<>> /\ sections' = <<>>
      /\ loaded' = {}
      /\ UNCHANGED <<ids, mIdMap, mFileId, mSinks, origin, core, failed, early>>
  BY DEF LinkLoggerWithSink, Return, ids, known
<1>2. IdType' /\ IdInv'
  BY <1>1, IdKept
<1>3. Infos' = Infos /\ IsFunction(mLoggerInfos)'
  BY DEF LinkLoggerWithSink, Infos, IsFunction
<1>4. \A n \in Infos \ loaded : mLoggerInfos'[n] = mLoggerInfos[n]
  BY DEF LinkLoggerWithSink, Infos
<1>5. ASSUME NEW n \in loaded
      PROVE  LET i == mLoggerInfos[n]
                 j == mLoggerInfos'[n]
             IN  /\ j \in Info /\ j.Id = i.Id /\ j.FileId = i.FileId
                 /\ j.SinkNames = i.SinkNames /\ j.Log = i.Log
                 /\ j.SinkInfos = KeysFor(i)
  <2> DEFINE i == mLoggerInfos[n]
  <2>1. mLoggerInfos'[n] = [i EXCEPT !.SinkInfos = KeysFor(i)] /\ n \in Infos
    BY DEF LinkLoggerWithSink, Infos, CallType
  <2>2. i \in Info
    BY <2>1 DEF InfoType
  <2>3. KeysFor(i) \in SUBSET DOMAIN mSinks
    BY DEF KeysFor
  <2> HIDE DEF i
  <2> QED BY <2>1, <2>2, <2>3, InfoLinked DEF i
<1>6. loaded \subseteq Infos /\ failed \subseteq Infos /\ loaded \cap failed = {}
  BY DEF CallType, FileInv
<1>7. \A n \in Infos : /\ mLoggerInfos'[n] \in Info
                       /\ mLoggerInfos'[n].Id = mLoggerInfos[n].Id
                       /\ mLoggerInfos'[n].FileId = mLoggerInfos[n].FileId
                       /\ mLoggerInfos'[n].SinkNames = mLoggerInfos[n].SinkNames
                       /\ mLoggerInfos'[n].Log = mLoggerInfos[n].Log
  BY <1>4, <1>5 DEF InfoType
<1>8. InfoType'
  <2>1. Info' = Info
    BY <1>1 DEF Info
  <2> QED BY <1>1, <1>3, <1>7, <2>1 DEF InfoType
<1>9. SinkType' /\ CallType' /\ Visited(sections)'
  BY <1>1, <1>3 DEF SinkType, CallType, Visited, IsFunction
<1>10. FileInv'
  <2>1. \A n \in Infos : mLoggerInfos[n].FileId = 0 => n \notin loaded
    BY DEF FileInv
  <2>2. \A n \in failed : mLoggerInfos'[n] = mLoggerInfos[n]
    BY <1>4, <1>6
  <2>3. \A n \in failed : mLoggerInfos[n].FileId # 0 /\ mLoggerInfos[n].SinkInfos = {}
    BY DEF FileInv
  <2>4. \A n \in Infos : mLoggerInfos'[n].FileId = 0 =>
           n = Root /\ mLoggerInfos'[n].SinkInfos = {} /\ (mLoggerInfos'[n].Log => early)
    BY <1>4, <1>7, <2>1 DEF FileInv
  <2> QED BY <1>1, <1>3, <2>2, <2>3, <2>4 DEF FileInv
<1>11. CoreInv'
  BY <1>1, <1>3, <1>7 DEF CoreInv
<1>12. RangeInv'
  <2>1. \A n \in Infos : Span(n)' = Span(n)
    BY <1>7 DEF Span
  <2>2. \A n \in loaded : mLoggerInfos[n].SinkInfos = {}
    BY DEF FileInv
  <2>3. \A k \in DOMAIN mSinks : \A g \in mSinks[k] :
           \E p \in Infos : k \in mLoggerInfos'[p].SinkInfos /\ g = Span(p)'
    BY <1>4, <2>1, <2>2 DEF RangeInv
  <2>4. \A n \in loaded : mLoggerInfos[n].Log => n = Root /\ early
    BY DEF FileInv
  <2>5. \A n \in Infos : mLoggerInfos'[n].Log =>
           \/ n = Root /\ early
           \/ \A k \in mLoggerInfos'[n].SinkInfos : Span(n)' \in mSinks[k]
    BY <1>4, <1>7, <2>1, <2>4 DEF RangeInv
  <2> QED BY <1>1, <1>3, <2>3, <2>5 DEF RangeInv
<1>13. Linked'
  <2>1. \A n \in Infos : OwnSinks(n)' = OwnSinks(n)
    BY <1>1, <1>7 DEF OwnSinks
  <2>2. \A n \in loaded : OwnSinks(n) \subseteq mLoggerInfos'[n].SinkInfos
    BY <1>5 DEF OwnSinks, KeysFor
  <2>3. \A n \in failed : mLoggerInfos'[n].SinkInfos = {}
    BY <1>4, <1>6 DEF FileInv
  <2>4. \A n \in Infos \ (loaded \cup failed) :
           OwnSinks(n) \subseteq mLoggerInfos'[n].SinkInfos
    BY <1>4 DEF Linked
  <2> QED BY <1>1, <1>3, <2>1, <2>2, <2>3, <2>4 DEF Linked
<1> QED BY <1>2, <1>8, <1>9, <1>10, <1>11, <1>12, <1>13

LEMMA InfoLogged ==
    ASSUME NEW i \in Info
    PROVE  LET r == [i EXCEPT !.Log = TRUE]
           IN  /\ r \in Info /\ r.Id = i.Id /\ r.FileId = i.FileId
               /\ r.SinkNames = i.SinkNames /\ r.SinkInfos = i.SinkInfos
               /\ r.Log = TRUE
  BY DEF Info

LEMMA GetLoggerStep ==
    ASSUME IInv, NEW name \in Names, GetLogger(name)
    PROVE  IInv'
<1> DEFINE n == GetLoggerInfo(name)
           i == mLoggerInfos[n]
<1> USE DEF IInv, TypeInv, SinkInv
<1>0. at = "idle" /\ UNCHANGED <<ids, mFileId, origin, locals, core, failed>>
  BY DEF GetLogger
<1>1. CASE UNCHANGED <<mLoggerInfos, mSinks, early>>
  BY <1>0, <1>1, UnchangedStep DEF known
<1>2. CASE /\ mLoggerInfos' = [mLoggerInfos EXCEPT ![n] = [@ EXCEPT !.Log = TRUE]]
           /\ mSinks' = [k \in DOMAIN mSinks |->
                            IF k \in i.SinkInfos
                            THEN AddFilter(mSinks[k], <<i.Id, NextId(n, i.Id)>>)
                            ELSE mSinks[k]]
           /\ early' = (early \/ (n = Root /\ i.FileId = 0))
  <2>1. n \in Infos
    BY LookupFinds, LogAssumption DEF InfoType
  <2>2. i \in Info /\ IsFunction(mLoggerInfos)
    BY <2>1 DEF InfoType
  <2>3. loaded = {} /\ loaded' = {} /\ UNCHANGED <<mIdMap, at, files, sinks, sections>>
    BY <1>0 DEF CallType, locals, ids
  <2>4. IdType' /\ IdInv'
    BY <1>0, IdKept
  <2> HIDE DEF n, IInv
  <2>5. /\ Infos' = Infos /\ IsFunction(mLoggerInfos)'
        /\ mLoggerInfos'[n] = [i EXCEPT !.Log = TRUE]
        /\ \A p \in Infos \ {n} : mLoggerInfos'[p] = mLoggerInfos[p]
    BY <1>2, <2>1, <2>2 DEF Infos, IsFunction
  <2>6. /\ mLoggerInfos'[n] \in Info /\ mLoggerInfos'[n].Id = i.Id
        /\ mLoggerInfos'[n].FileId = i.FileId
        /\ mLoggerInfos'[n].SinkNames = i.SinkNames
        /\ mLoggerInfos'[n].SinkInfos = i.SinkInfos
    <3> HIDE DEF i
    <3> QED BY <2>2, <2>5, InfoLogged
  <2> USE DEF IInv
  <2>7. \A p \in Infos : /\ mLoggerInfos'[p] \in Info
                         /\ mLoggerInfos'[p].Id = mLoggerInfos[p].Id
                         /\ mLoggerInfos'[p].FileId = mLoggerInfos[p].FileId
                         /\ mLoggerInfos'[p].SinkNames = mLoggerInfos[p].SinkNames
                         /\ mLoggerInfos'[p].SinkInfos = mLoggerInfos[p].SinkInfos
                         /\ p # n => mLoggerInfos'[p].Log = mLoggerInfos[p].Log
    BY <2>5, <2>6 DEF InfoType
  <2>8. /\ DOMAIN mSinks' = DOMAIN mSinks /\ IsFunction(mSinks)'
        /\ \A k \in i.SinkInfos : mSinks'[k] = mSinks[k] \cup {Span(n)}
        /\ \A k \in DOMAIN mSinks \ i.SinkInfos : mSinks'[k] = mSinks[k]
    <3>1. i.SinkInfos \subseteq DOMAIN mSinks
      BY <2>2 DEF Info
    <3>2. <<i.Id, NextId(n, i.Id)>> = Span(n)
      BY DEF Span
    <3>3. DOMAIN mSinks' = DOMAIN mSinks /\ IsFunction(mSinks)'
      BY <1>2 DEF IsFunction
    <3> HIDE DEF IInv
    <3>4. \A k \in DOMAIN mSinks : mSinks'[k] = IF k \in i.SinkInfos
                                               THEN mSinks[k] \cup {Span(n)}
                                               ELSE mSinks[k]
      BY <1>2, <3>2 DEF AddFilter
    <3> QED BY <3>1, <3>3, <3>4
  <2> HIDE DEF i
  <2>9. InfoType'
    <3>1. Info' = Info
      BY <1>0, <2>8 DEF Info
    <3> QED BY <1>0, <2>3, <2>5, <2>7, <3>1 DEF InfoType
  <2>10. SinkType' /\ CallType' /\ Visited(sections)'
    BY <1>0, <2>3, <2>5, <2>8 DEF SinkType, CallType, Visited, IsFunction
  <2>11. FileInv'
    <3>1. \A p \in failed : p \in Infos
      BY DEF CallType
    <3>2. \A p \in failed : mLoggerInfos'[p].FileId # 0 /\ mLoggerInfos'[p].SinkInfos = {}
      BY <2>7, <3>1 DEF FileInv
    <3>3. \A p \in Infos : mLoggerInfos'[p].FileId = 0 =>
             p = Root /\ mLoggerInfos'[p].SinkInfos = {}
      BY <2>7 DEF FileInv
    <3>4. i.FileId = 0 => early'
      <4>1. i.FileId = 0 => n = Root
        BY <2>1 DEF FileInv, i
      <4> QED BY <1>2, <4>1
    <3>5. \A p \in Infos : mLoggerInfos'[p].FileId = 0 =>
             (mLoggerInfos'[p].Log => early')
      BY <1>2, <2>7, <3>4 DEF FileInv, i
    <3> QED BY <1>0, <2>3, <2>5, <3>2, <3>3, <3>5 DEF FileInv
  <2>12. CoreInv'
    BY <1>0, <2>3, <2>5, <2>7, <2>8 DEF CoreInv
  <2>13. RangeInv'
    <3>1. \A p \in Infos : Span(p)' = Span(p)
      BY <2>7 DEF Span
    <3>2. \A k \in DOMAIN mSinks' : \A g \in mSinks'[k] :
             \E p \in Infos' : k \in mLoggerInfos'[p].SinkInfos /\ g = Span(p)'
      <4> SUFFICES ASSUME NEW k \in DOMAIN mSinks, NEW g \in mSinks'[k]
                   PROVE  \E p \in Infos : k \in mLoggerInfos[p].SinkInfos /\ g = Span(p)
        BY <2>5, <2>7, <2>8, <3>1
      <4>1. CASE g \in mSinks[k]
        BY <4>1 DEF RangeInv
      <4>2. CASE g \notin mSinks[k]
        <5>1. k \in i.SinkInfos /\ g = Span(n)
          BY <4>2, <2>8
        <5> QED BY <5>1, <2>1 DEF i
      <4> QED BY <4>1, <4>2
    <3>3. \A k \in DOMAIN mSinks : mSinks[k] \subseteq mSinks'[k]
      BY <2>8
    <3>4. \A p \in Infos : mLoggerInfos[p].SinkInfos \subseteq DOMAIN mSinks
      BY DEF InfoType, Info
    <3>5. ASSUME NEW p \in Infos, mLoggerInfos'[p].Log
          PROVE  \/ p = Root /\ early'
                 \/ \A k \in mLoggerInfos'[p].SinkInfos : Span(p)' \in mSinks'[k]
      <4>1. CASE p = n
        BY <4>1, <2>1, <2>7, <2>8, <3>1 DEF i
      <4>2. CASE p # n
        <5>1. mLoggerInfos[p].Log
          BY <2>7, <3>5, <4>2
        <5>2. CASE p = Root /\ early
          BY <5>2, <1>2
        <5>3. CASE \A k \in mLoggerInfos[p].SinkInfos : Span(p) \in mSinks[k]
          BY <5>3, <2>7, <3>1, <3>3, <3>4
        <5> QED BY <5>1, <5>2, <5>3 DEF RangeInv
      <4> QED BY <4>1, <4>2
    <3> QED BY <2>5, <3>2, <3>5 DEF RangeInv
  <2>14. Linked'
    <3>1. \A p \in Infos : OwnSinks(p)' = OwnSinks(p)
      BY <1>0, <2>7, <2>8 DEF OwnSinks
    <3> QED BY <1>0, <2>3, <2>5, <2>7, <3>1 DEF Linked
  <2> QED BY <2>4, <2>9, <2>10, <2>11, <2>12, <2>13, <2>14
<1> QED BY <1>1, <1>2 DEF GetLogger

LEMMA NextStep == IInv /\ [Next]_vars => IInv'
<1> SUFFICES ASSUME IInv, [Next]_vars PROVE IInv'
  OBVIOUS
<1>1. ASSUME NEW fs \in Configs, Initialize(fs) PROVE IInv'
  BY <1>1, InitializeStep
<1>2. CASE LoadConfig
  BY <1>2, LoadConfigStep
<1>3. CASE LoadSink
  BY <1>3, LoadSinkStep
<1>4. CASE AddSinks
  BY <1>4, AddSinksStep
<1>5. CASE LoadLogger
  BY <1>5, LoadLoggerStep
<1>6. CASE NextFile
  BY <1>6, NextFileStep
<1>7. CASE LinkLoggerWithSink
  BY <1>7, LinkStep
<1>8. ASSUME NEW name \in Names, GetLogger(name) PROVE IInv'
  BY <1>8, GetLoggerStep
<1>9. CASE UNCHANGED vars
  BY <1>9, UnchangedStep DEF vars
<1> QED BY <1>1, <1>2, <1>3, <1>4, <1>5, <1>6, <1>7, <1>8, <1>9 DEF Next

\* The inductive invariant: what is known about the loggers, their sinks and
\* their ids holds in every state, between any two sections that Initialize
\* loads.
THEOREM LogInvariant == Spec => []IInv
  BY InitIInv, NextStep, PTL DEF Spec

\* A logger whose Initialize did not throw has every sink that its own file
\* defines and gives it: LinkLoggerWithSink looks a key up that holds the
\* number of the logger's own file.
THEOREM SinksLinked == Spec => []Linked
<1>1. IInv => Linked
  BY DEF IInv, SinkInv
<1> QED BY <1>1, LogInvariant, PTL

-----------------------------------------------------------------------------
(* What a sink gets.                                                       *)

\* The id of a logger and its unit; Root has the id 0 and the unit of the
\* first level.
LEMMA InfoId ==
    ASSUME IInv, NEW n \in Infos
    PROVE  LET id == mLoggerInfos[n].Id
           IN  /\ n \in Name /\ id \in Nat /\ id < Width
               /\ Level(n) \in 0..(MAX_LEVEL - 1) /\ Unit(n) \in Nat \ {0}
               /\ \E c \in Nat : id = c * Unit(n)
<1> USE DEF IInv, TypeInv
<1>1. CASE n = Root
  <2>1. n \in Name /\ Level(n) = 0 /\ mLoggerInfos[n].Id = 0
    BY <1>1, RootName DEF Level, InfoType
  <2>2. 0 \in 0..(MAX_LEVEL - 1)
    BY LogAssumption
  <2>3. Unit(n) \in Nat \ {0} /\ Width \in Nat \ {0}
    BY <2>1, <2>2, UnitType DEF Unit
  <2>4. 0 = 0 * Unit(n)
    BY <2>3
  <2> QED BY <2>1, <2>2, <2>3, <2>4
<1>2. CASE n # Root
  <2>1. n \in DOMAIN mIdMap /\ mLoggerInfos[n].Id = mIdMap[n]
    BY <1>2 DEF InfoType
  <2>2. /\ n \in Name /\ Level(n) \in 0..(MAX_LEVEL - 1)
        /\ Unit(n) \in Nat \ {0} /\ mIdMap[n] \in Nat
    BY <2>1, LevelFacts
  <2>3. mIdMap[n] < Width /\ \E c \in 0..Width : mIdMap[n] = c * Unit(n)
    BY <2>1 DEF IdInv, UnitInv
  <2>4. Width \in Nat
    BY UnitType
  <2> QED BY <2>1, <2>2, <2>3, <2>4
<1> QED BY <1>1, <1>2

\* The end of a logger's range is its id and a unit, or wraps around to 0.
LEMMA NextIdIs ==
    ASSUME IInv, NEW n \in Infos
    PROVE  LET id == mLoggerInfos[n].Id
           IN  NextId(n, id) = 0 \/ NextId(n, id) = id + Unit(n)
<1> DEFINE id == mLoggerInfos[n].Id
           u == Unit(n)
<1>1. id \in Nat /\ id < Width /\ u \in Nat \ {0} /\ Level(n) \in 0..(MAX_LEVEL - 1)
  BY InfoId
<1>2. PICK c \in Nat : id = c * u
  BY InfoId
<1>3. PICK w \in Nat \ {0} : Width = w * u
  BY <1>1, WidthMultiple DEF Unit
<1>4. NextId(n, id) = (id + u) % Width /\ Width \in Nat \ {0}
  BY UnitType DEF NextId, Unit
<1> HIDE DEF id, u
<1>5. CASE id + u < Width
  BY <1>1, <1>4, <1>5 DEF id, u
<1>6. CASE id + u >= Width
  <2>1. c < w
    <3>1. CASE c >= w
      <4>1. (c - w) * u >= 0
        BY <3>1, <1>1, <1>2, <1>3
      <4> QED BY <4>1, <1>1, <1>2, <1>3
    <3> QED BY <3>1, <1>2, <1>3
  <2>2. c + 1 = w
    <3>1. CASE c + 1 < w
      <4>1. (w - (c + 1) - 1) * u >= 0
        BY <3>1, <1>1, <1>2, <1>3
      <4> QED BY <4>1, <1>1, <1>2, <1>3, <1>6
    <3> QED BY <3>1, <2>1, <1>2, <1>3
  <2>3. id + u = Width
    BY <2>2, <1>1, <1>2, <1>3
  <2> QED BY <2>3, <1>4 DEF id
<1> QED BY <1>1, <1>4, <1>5, <1>6

\* What is logged with a logger reaches all of its sinks, but for the three
\* cases Delivered names: the ids below NextId include the logger's own
\* unless the sum wraps around, a sink of the logger's own file is in the
\* core before the logger is loaded, and a filter is only ever added.
THEOREM RecordsDelivered == Spec => []Delivered
<1>1. IInv => Delivered
  <2> SUFFICES ASSUME IInv, NEW n \in Infos, mLoggerInfos[n].Log,
                      ~(n = Root /\ early), NextId(n, mLoggerInfos[n].Id) # 0,
                      NEW k \in mLoggerInfos[n].SinkInfos,
                      k \in core \cup OwnSinks(n)
               PROVE  Accepts(k, mLoggerInfos[n].Id)
    BY DEF Delivered
  <2> DEFINE id == mLoggerInfos[n].Id
  <2>1. Span(n) \in mSinks[k] /\ k \in DOMAIN mSinks
    BY DEF IInv, TypeInv, SinkInv, RangeInv, InfoType, Info
  <2>2. k \in core
    <3>1. CASE k \in OwnSinks(n)
      <4>1. origin[k][2] = mLoggerInfos[n].FileId
        BY <3>1 DEF OwnSinks
      <4> QED BY <2>1, <4>1 DEF IInv, SinkInv, CoreInv
    <3> QED BY <3>1
  <2>3. id \in Nat /\ Unit(n) \in Nat \ {0}
    BY InfoId
  <2>4. NextId(n, id) = id + Unit(n)
    BY NextIdIs
  <2>5. Span(n)[1] = id /\ Span(n)[2] = id + Unit(n)
    BY <2>4 DEF Span
  <2> HIDE DEF id
  <2> QED BY <2>1, <2>2, <2>3, <2>5 DEF Accepts, id
<1> QED BY <1>1, LogInvariant, PTL

\* The number of a name on its level and the id of the prefix, as digits.
LEMMA DigitOf ==
    ASSUME IdType, IdInv, ~Overflowed, NEW n \in DOMAIN mIdMap
    PROVE  \E q \in 1..(B - 1), c \in Nat :
              /\ mIdMap[n] = (q + c * B) * Unit(n)
              /\ mIdMap[n] - ParentId(n) = q * Unit(n)
<1> DEFINE u == Unit(n)
           d == ParentId(n)
<1>1. n \in Name /\ Len(n) <= MAX_LEVEL /\ Level(n) \in 0..(MAX_LEVEL - 1)
  BY LevelFacts DEF IdType
<1>2. Len(n) > 1 => Front(n) \in DOMAIN mIdMap
  <2> SUFFICES ASSUME Len(n) > 1 PROVE Front(n) \in DOMAIN mIdMap
    OBVIOUS
  <2>1. Len(n) - 1 \in 1..Len(n) /\ Front(n) = SubSeq(n, 1, Len(n) - 1)
    BY <1>1, NameLen, FrontFacts
  <2> QED BY <2>1 DEF IdInv, NestInv
<1>3. u \in Nat \ {0} /\ d \in Nat /\ B \in Nat \ {0}
  BY <1>1, <1>2, NewIdFacts, UnitType DEF IdInv
<1>4. PICK c \in Nat : d = c * (B * u)
  BY <1>1, <1>2, NewIdFacts DEF IdInv
<1>5. PICK q \in 1..(mIds[Level(n)] - 1) : mIdMap[n] = q * u + d
  BY DEF IdInv, DigitInv
<1>6. mIds[Level(n)] \in Nat /\ mIds[Level(n)] <= B
  <2>1. Level(n) \in DOMAIN mIds /\ mIds[Level(n)] \in Nat
    BY <1>1 DEF IdType
  <2>2. ~(mIds[Level(n)] > B)
    BY <2>1 DEF Overflowed, B
  <2> HIDE DEF B
  <2> QED BY <2>1, <2>2, <1>3
<1> HIDE DEF u, d, B
<1>7. q \in 1..(B - 1) /\ q \in Nat
  BY <1>3, <1>5, <1>6
<1>8. mIdMap[n] = (q + c * B) * u
  <2>1. c * (B * u) = (c * B) * u
    BY <1>3, <1>4
  <2> QED BY <1>3, <1>4, <1>5, <1>7, <2>1
<1>9. mIdMap[n] - d = q * u
  BY <1>3, <1>5, <1>7
<1> QED BY <1>7, <1>8, <1>9 DEF u, d

\* Two names of a level whose ids are equal are one.
LEMMA SameId ==
    ASSUME IdType, IdInv, ~Overflowed,
           NEW n \in DOMAIN mIdMap, NEW p \in DOMAIN mIdMap,
           Len(n) = Len(p), mIdMap[n] = mIdMap[p]
    PROVE  n = p
<1> DEFINE u == Unit(n)
<1>1. u \in Nat \ {0} /\ Unit(p) = u /\ B \in Nat \ {0}
  BY LevelFacts, UnitType DEF Unit, Level
<1>2. PICK q \in 1..(B - 1), c \in Nat :
         mIdMap[n] = (q + c * B) * u /\ mIdMap[n] - ParentId(n) = q * u
  BY DigitOf
<1>3. PICK r \in 1..(B - 1), d \in Nat :
         mIdMap[p] = (r + d * B) * u /\ mIdMap[p] - ParentId(p) = r * u
  BY <1>1, DigitOf
<1> HIDE DEF u
<1>4. q + c * B \in Int /\ r + d * B \in Int
  BY <1>1, <1>2, <1>3
<1> DEFINE x == q + c * B
           y == r + d * B
<1>5. x = y
  <2> HIDE DEF x, y
  <2>1. x \in Int /\ y \in Int /\ x * u = y * u
    BY <1>2, <1>3, <1>4 DEF x, y
  <2>2. y * u <= x * u /\ x * u < y * u + u
    BY <2>1, <1>1
  <2> QED BY <2>1, <2>2, <1>1, SameMultiple
<1>6. q = r
  BY <1>1, <1>2, <1>3, <1>5, SameDigit
<1> QED BY <1>2, <1>3, <1>6 DEF IdInv, DigitInv

\* A name whose id is in the range of another's is below it.
LEMMA InRange ==
    ASSUME IdType, IdInv, ~Overflowed,
           NEW n \in DOMAIN mIdMap, NEW p \in DOMAIN mIdMap,
           mIdMap[p] <= mIdMap[n], mIdMap[n] < mIdMap[p] + Unit(p)
    PROVE  Len(p) \in 1..Len(n) /\ SubSeq(n, 1, Len(p)) = p
<1> DEFINE u == Unit(p)
           l == Len(n)
           m == Len(p)
<1>1. n \in Name /\ p \in Name /\ mIdMap[n] \in Nat /\ mIdMap[p] \in Nat
      /\ u \in Nat \ {0} /\ B \in Nat \ {0} /\ Width \in Nat
  BY LevelFacts, UnitType
<1>2. l \in Nat /\ l >= 1 /\ m \in Nat /\ m >= 1 /\ l <= MAX_LEVEL /\ m <= MAX_LEVEL
  BY <1>1, NameLen DEF IdType
<1>3. PICK y \in 0..Width : mIdMap[p] = y * u
  BY DEF IdInv, UnitInv
<1>4. CASE l >= m
  <2> DEFINE a == SubSeq(n, 1, m)
  <2>1. m \in 1..l
    BY <1>2, <1>4
  <2>2. a \in DOMAIN mIdMap /\ mIdMap[a] <= mIdMap[n]
        /\ mIdMap[n] + Unit(n) <= mIdMap[a] + Unit(a)
    <3> HIDE DEF m
    <3> QED BY <2>1, NestFact DEF IdInv
  <2>3. Len(a) = Len(p) /\ Unit(a) = u
    <3>1. Len(a) = m
      BY <2>1, <1>1, NameFacts
    <3> QED BY <3>1 DEF Unit, Level
  <2>4. PICK x \in 0..Width : mIdMap[a] = x * u
    BY <2>2, <2>3 DEF IdInv, UnitInv
  <2>5. mIdMap[a] \in Nat /\ Unit(n) \in Nat \ {0}
    BY <2>2, LevelFacts
  <2> HIDE DEF a, u
  <2>6. y * u < x * u + u /\ x * u < y * u + u /\ x \in Int /\ y \in Int
    BY <1>1, <1>3, <2>2, <2>3, <2>4, <2>5 DEF u
  <2>7. x = y
    <3>1. CASE y * u <= x * u
      BY <1>1, <2>6, <3>1, SameMultiple
    <3>2. CASE x * u <= y * u
      BY <1>1, <2>6, <3>2, SameMultiple
    <3>3. x * u \in Int /\ y * u \in Int
      BY <1>1, <2>6
    <3> QED BY <3>1, <3>2, <3>3
  <2>8. a = p
    BY <1>3, <2>2, <2>3, <2>4, <2>7, SameId
  <2> QED BY <2>1, <2>8 DEF a
<1>5. CASE l < m
  <2>1. PICK x \in 0..Width : mIdMap[n] = x * Unit(n)
    BY DEF IdInv, UnitInv
  <2>2. PICK c \in Nat \ {0} : Unit(n) = c * (B * u)
    <3>1. Level(p) \in 0..(MAX_LEVEL - 1) /\ Level(n) \in 0..(Level(p) - 1)
      <4> HIDE DEF l, m
      <4>1. l - 1 \in 0..((m - 1) - 1) /\ m - 1 \in 0..(MAX_LEVEL - 1)
        BY <1>2, <1>5, LogAssumption
      <4> QED BY <4>1 DEF Level, l, m
    <3> HIDE DEF B
    <3> QED BY <3>1, UnitFacts DEF Unit
  <2>3. PICK q \in 1..(B - 1), d \in Nat : mIdMap[p] = (q + d * B) * u
    BY DigitOf
  <2> HIDE DEF u, B
  <2> DEFINE z == x * c
             s == z * B
             t == q + d * B
  <2>4. z \in Nat /\ s \in Nat /\ t \in Nat
    BY <1>1, <2>1, <2>2, <2>3
  <2>5. mIdMap[n] = s * u
    <3>1. x * (c * (B * u)) = ((x * c) * B) * u
      BY <1>1, <2>1, <2>2
    <3> QED BY <3>1, <2>1, <2>2
  <2>6. s = t
    <3> HIDE DEF s, t
    <3>1. t * u <= s * u /\ s * u < t * u + u
      BY <2>3, <2>5 DEF t, u
    <3> QED BY <3>1, <2>4, <1>1, SameMultiple
  <2>7. 0 + z * B = q + d * B /\ 0 \in 0..(B - 1) /\ q \in 0..(B - 1)
    BY <2>6, <2>4, <2>3, <1>1
  <2>8. 0 = q
    <3> HIDE DEF z
    <3> QED BY <2>7, <2>4, <2>3, <1>1, SameDigit
  <2> QED BY <2>8, <2>3
<1> QED BY <1>2, <1>4, <1>5

LEMMA PartIsPrefix ==
    ASSUME NEW n \in Name, NEW k \in 1..Len(n)
    PROVE  IsPrefix(SubSeq(n, 1, k), n)
<1> DEFINE a == SubSeq(n, 1, k)
<1>1. a \in Name /\ Len(a) = k
  BY NameFacts
<1>2. SubSeq(a, 1, Len(a)) = a /\ Len(n) \in Nat
  BY <1>1, NameFacts
<1> QED BY <1>1, <1>2 DEF IsPrefix

LEMMA SelfPrefix ==
    ASSUME NEW n \in Name
    PROVE  IsPrefix(n, n)
<1>1. Len(n) \in Nat
  BY NameLen
<1> QED BY <1>1 DEF IsPrefix

\* An id is at least the unit of its level, and the unit of the first.
LEMMA IdLarge ==
    ASSUME IdType, IdInv, ~Overflowed, NEW n \in DOMAIN mIdMap
    PROVE  mIdMap[n] > 0 /\ mIdMap[n] >= mIdMultiple(0)
<1>1. ASSUME NEW a \in DOMAIN mIdMap
      PROVE  mIdMap[a] \in Nat /\ Unit(a) \in Nat \ {0} /\ mIdMap[a] >= Unit(a)
  <2>1. mIdMap[a] \in Nat /\ Unit(a) \in Nat \ {0} /\ B \in Nat \ {0}
    BY LevelFacts, UnitType
  <2>2. PICK q \in 1..(B - 1), c \in Nat : mIdMap[a] = (q + c * B) * Unit(a)
    BY DigitOf
  <2> HIDE DEF B
  <2> DEFINE u == Unit(a)
             x == q + c * B - 1
  <2>3. x \in Nat /\ q + c * B = x + 1
    <3>1. c * B \in Nat
      BY <2>1, <2>2
    <3> QED BY <2>1, <2>2, <3>1
  <2> HIDE DEF x, u
  <2>4. x * u >= 0 /\ mIdMap[a] = (x + 1) * u /\ u \in Nat
    BY <2>1, <2>2, <2>3 DEF u
  <2>5. (x + 1) * u = x * u + u
    BY <2>3, <2>4
  <2> QED BY <2>1, <2>3, <2>4, <2>5 DEF u
<1>2. n \in Name /\ Len(n) \in Nat /\ 1 \in 1..Len(n)
  <2>1. n \in Name
    BY LevelFacts
  <2> QED BY <2>1, NameLen
<1> DEFINE a == SubSeq(n, 1, 1)
<1>3. a \in DOMAIN mIdMap /\ mIdMap[a] <= mIdMap[n]
  BY <1>2, NestFact DEF IdInv
<1>4. Unit(a) = mIdMultiple(0)
  <2>1. Len(a) = 1
    BY <1>2, NameFacts
  <2> QED BY <2>1 DEF Unit, Level
<1> HIDE DEF a
<1>5. mIdMap[a] \in Nat /\ mIdMap[a] >= mIdMultiple(0) /\ mIdMultiple(0) \in Nat \ {0}
  BY <1>1, <1>3, <1>4
<1>6. mIdMap[n] \in Nat
  BY <1>1
<1> QED BY <1>3, <1>5, <1>6

\* As long as no counter overflowed, a record gets to a sink only through its
\* logger or one whose name is a part of its logger's: GetId counts the names
\* of a level whatever their prefix, so that ids of a level that differ in
\* their prefix differ in their digit as well.
THEOREM NothingLeaks == Spec => []NoLeak
<1>1. IInv => NoLeak
  <2> SUFFICES ASSUME IInv, ~Overflowed, NEW n \in Infos, NEW k \in DOMAIN mSinks,
                      Accepts(k, mLoggerInfos[n].Id)
               PROVE  \E p \in Infos : IsPrefix(p, n) /\ k \in mLoggerInfos[p].SinkInfos
    BY DEF NoLeak
  <2>1. IdType /\ IdInv
    BY DEF IInv, TypeInv
  <2>2. PICK g \in mSinks[k] : g[1] <= mLoggerInfos[n].Id /\ mLoggerInfos[n].Id < g[2]
    BY DEF Accepts
  <2>3. PICK p \in Infos : k \in mLoggerInfos[p].SinkInfos /\ g = Span(p)
    BY <2>2 DEF IInv, SinkInv, RangeInv
  <2> DEFINE i == mLoggerInfos[n].Id
             j == mLoggerInfos[p].Id
  <2>4. i \in Nat /\ j \in Nat /\ n \in Name /\ p \in Name /\ Unit(p) \in Nat
    BY InfoId
  <2>5. j <= i /\ i < NextId(p, j)
    BY <2>2, <2>3 DEF Span
  <2>6. i < j + Unit(p)
    BY <2>4, <2>5, NextIdIs
  <2> HIDE DEF i, j
  <2>7. \A m \in Infos : \/ m = Root /\ mLoggerInfos[m].Id = 0
                         \/ m \in DOMAIN mIdMap /\ mLoggerInfos[m].Id = mIdMap[m]
    BY DEF IInv, TypeInv, InfoType
  <2>8. CASE n = p
    BY <2>3, <2>4, <2>8, SelfPrefix
  <2>9. CASE n # p /\ p = Root /\ mLoggerInfos[p].Id = 0
    <3>1. n \in DOMAIN mIdMap /\ i = mIdMap[n]
      BY <2>7, <2>9 DEF i
    <3>2. Unit(p) = mIdMultiple(0)
      BY <2>9, RootName DEF Unit, Level
    <3>3. i >= mIdMultiple(0)
      BY <2>1, <3>1, IdLarge
    <3> QED BY <2>4, <2>6, <2>9, <3>2, <3>3 DEF j
  <2>10. CASE p \in DOMAIN mIdMap /\ j = mIdMap[p]
    <3>1. CASE i = 0
      <4>1. j > 0
        BY <2>1, <2>10, IdLarge
      <4> QED BY <2>4, <2>5, <3>1, <4>1
    <3>2. CASE n \in DOMAIN mIdMap /\ i = mIdMap[n]
      <4>1. Len(p) \in 1..Len(n) /\ SubSeq(n, 1, Len(p)) = p
        BY <2>1, <2>5, <2>6, <2>10, <3>2, InRange
      <4>2. IsPrefix(p, n)
        BY <2>4, <4>1, PartIsPrefix
      <4> QED BY <2>3, <4>2
    <3> QED BY <2>7, <3>1, <3>2 DEF i
  <2> QED BY <2>7, <2>8, <2>9, <2>10 DEF j
<1> QED BY <1>1, LogInvariant, PTL

-----------------------------------------------------------------------------
(* Lookups.                                                                *)

\* A name is listed as long or longer when there are more loggers and ids.
LEMMA LookupGrows ==
    ASSUME NEW name \in Name, DOMAIN mIdMap \subseteq DOMAIN mIdMap',
           Infos \subseteq Infos'
    PROVE  LET old == GetLoggerInfo(name)
               new == GetLoggerInfo(name)'
           IN  old = new \/ old = Root \/ IsPrefix(old, new)
<1>1. Listed(name) \subseteq Listed(name)'
  BY DEF Listed, Infos
<1>2. \/ Listed(name) = {} /\ GetLoggerInfo(name) = Root
      \/ \E k \in Listed(name) : /\ GetLoggerInfo(name) = SubSeq(name, 1, k)
                                 /\ \A l \in Listed(name) : l <= k
  BY LookupFacts
<1>3. CASE Listed(name) # {}
  <2>1. PICK k \in Listed(name) : GetLoggerInfo(name) = SubSeq(name, 1, k)
    BY <1>2, <1>3
  <2>2. PICK m \in Listed(name)' : /\ GetLoggerInfo(name)' = SubSeq(name, 1, m)
                                   /\ \A l \in Listed(name)' : l <= m
    <3> DEFINE lens == Listed(name)'
               m == CHOOSE i \in lens : \A l \in lens : l <= i
    <3>1. Len(name) \in Nat /\ lens \subseteq 1..Len(name) /\ lens # {}
      BY <1>1, <1>3, NameLen DEF Listed
    <3>2. GetLoggerInfo(name)' = SubSeq(name, 1, m)
      <4>1. GetLoggerInfo(name)' = IF lens = {} THEN Root ELSE SubSeq(name, 1, m)
        BY Zenon DEF GetLoggerInfo, Root
      <4> QED BY <3>1, <4>1
    <3>3. m \in lens /\ \A l \in lens : l <= m
      <4> HIDE DEF lens
      <4> QED BY <3>1, LargestExists
    <3> HIDE DEF m
    <3> QED BY <3>2, <3>3
  <2>3. k \in 1..Len(name) /\ m \in 1..Len(name) /\ k <= m
    BY <1>1, <2>1, <2>2 DEF Listed
  <2> DEFINE b == SubSeq(name, 1, m)
  <2>4. b \in Name /\ Len(b) = m
    BY <2>3, NameFacts
  <2>5. SubSeq(b, 1, k) = SubSeq(name, 1, k)
    BY <2>3
  <2>6. k \in 1..Len(b)
    BY <2>3, <2>4
  <2>7. IsPrefix(SubSeq(b, 1, k), b)
    BY <2>4, <2>6, PartIsPrefix
  <2> QED BY <2>1, <2>2, <2>5, <2>7
<1> QED BY <1>2, <1>3

\* Loading more files never takes a logger or an id away: both maps are only
\* inserted into, GetLogger and LinkLoggerWithSink keep every Id, and the
\* longest part of a name that is listed gets no shorter.
THEOREM LookupsStable == Spec => StableLookup
<1> DEFINE Kept == /\ \A n \in Infos : n \in Infos'
                                       /\ mLoggerInfos'[n].Id = mLoggerInfos[n].Id
                   /\ \A n \in DOMAIN mIdMap :
                         n \in DOMAIN mIdMap' /\ mIdMap'[n] = mIdMap[n]
           Act == /\ \A name \in Names :
                        LET old == GetLoggerInfo(name)
                            new == GetLoggerInfo(name)'
                        IN  old = new \/ old = Root \/ IsPrefix(old, new)
                  /\ Kept
<1>1. ASSUME IInv, IInv', Next PROVE Kept
  <2>1. CASE UNCHANGED <<mIdMap, mLoggerInfos>>
    BY <2>1 DEF Infos
  <2>2. CASE LoadLogger
    <3> DEFINE e == Head(sections)
    <3>1. sections # <<>> /\ CallType /\ Visited(sections) /\ IdType /\ IdInv
      BY <1>1, <2>2 DEF IInv, TypeInv, LoadLogger
    <3>2. e.name \in Name /\ (Len(e.name) > 1 => Front(e.name) \in DOMAIN mIdMap)
      BY <3>1, HeadVisited
    <3>3. ASSUME GetId(e.name), Len(e.name) <= MAX_LEVEL
          PROVE  \A n \in DOMAIN mIdMap : n \in DOMAIN mIdMap' /\ mIdMap'[n] = mIdMap[n]
      BY <3>1, <3>2, <3>3, GetIdStep
    <3>4. CASE UNCHANGED <<ids, mLoggerInfos, locals, failed>>
      BY <2>1, <3>4 DEF ids
    <3>5. CASE LoadRoot(e)
      <4>1. UNCHANGED mIdMap
        BY <3>5 DEF LoadRoot, ids
      <4>2. mLoggerInfos[Root] \in Info /\ IsFunction(mLoggerInfos)
        BY <1>1 DEF IInv, TypeInv, InfoType
      <4>3. \/ UNCHANGED mLoggerInfos
            \/ mLoggerInfos' = [mLoggerInfos EXCEPT
                  ![Root] = [@ EXCEPT !.FileId = mFileId, !.SinkNames = e.sinks]]
        BY <3>5 DEF LoadRoot
      <4>4. Root \in Infos /\ Root \in Infos'
            /\ mLoggerInfos[Root].Id = 0 /\ mLoggerInfos'[Root].Id = 0
        BY <1>1 DEF IInv, TypeInv, InfoType
      <4>5. \A n \in Infos : n \in Infos' /\ (n # Root => mLoggerInfos'[n] = mLoggerInfos[n])
        BY <4>2, <4>3 DEF Infos
      <4> QED BY <4>1, <4>4, <4>5
    <3>6. CASE Len(e.name) <= MAX_LEVEL /\ LoadLeaf(e)
      <4>1. CASE e.name \in DOMAIN mLoggerInfos
        BY <2>1, <3>6, <4>1 DEF LoadLeaf, ids
      <4>2. CASE e.name \notin DOMAIN mLoggerInfos
        <5>1. /\ GetId(e.name)
              /\ \/ UNCHANGED mLoggerInfos
                 \/ mLoggerInfos' = Insert(mLoggerInfos, e.name,
                       NewInfo(mIdMap'[e.name], mFileId, e.sinks))
          BY <3>6, <4>2 DEF LoadLeaf
        <5>2. \A n \in Infos : n \in Infos' /\ mLoggerInfos'[n] = mLoggerInfos[n]
          BY <5>1 DEF Insert, Infos
        <5> QED BY <3>3, <3>6, <5>1, <5>2
      <4> QED BY <4>1, <4>2
    <3>7. CASE /\ Len(e.name) <= MAX_LEVEL /\ GetId(e.name) /\ UNCHANGED mLoggerInfos
      BY <3>3, <3>7 DEF Infos
    <3> QED BY <2>2, <3>4, <3>5, <3>6, <3>7 DEF LoadLogger
  <2>3. ASSUME UNCHANGED mIdMap, Infos' = Infos PROVE Kept
    BY <1>1, <2>3 DEF IInv, TypeInv, InfoType
  <2>4. CASE LinkLoggerWithSink
    BY <2>3, <2>4 DEF LinkLoggerWithSink, ids, Infos
  <2>5. ASSUME NEW name \in Names, GetLogger(name) PROVE Kept
    <3>1. UNCHANGED mIdMap /\ Infos' = Infos
      BY <2>5 DEF GetLogger, ids, Infos
    <3> QED BY <2>3, <3>1
  <2>6. ASSUME NEW fs \in Configs, Initialize(fs) PROVE Kept
    BY <2>1, <2>6 DEF Initialize, ids
  <2>7. CASE LoadConfig \/ LoadSink \/ AddSinks \/ NextFile
    BY <2>1, <2>7 DEF LoadConfig, LoadSink, AddSinks, NextFile, ids
  <2> QED BY <1>1, <2>2, <2>4, <2>5, <2>6, <2>7 DEF Next
<1>2. ASSUME IInv, IInv', [Next]_vars PROVE [Act]_vars
  <2> SUFFICES ASSUME Next PROVE Act
    BY <1>2
  <2>1. Kept
    BY <1>1, <1>2
  <2>2. ASSUME NEW name \in Names
        PROVE  LET old == GetLoggerInfo(name)
                   new == GetLoggerInfo(name)'
               IN  old = new \/ old = Root \/ IsPrefix(old, new)
    <3>1. name \in Name
      BY LogAssumption
    <3>2. DOMAIN mIdMap \subseteq DOMAIN mIdMap' /\ Infos \subseteq Infos'
      BY <2>1
    <3> QED BY <3>1, <3>2, LookupGrows
  <2> QED BY <2>1, <2>2
<1>3. [][Act]_vars => StableLookup
  BY PTL DEF StableLookup
<1> QED BY <1>2, <1>3, LogInvariant, PTL DEF Spec
=============================================================================
