----------------------------- MODULE LogManager -----------------------------
(***************************************************************************)
(* log/LogManager.cpp: the loggers and sinks that Initialize loads from    *)
(* configuration files, the ids that encode the hierarchy of the loggers,  *)
(* and the ranges of ids by which a sink recognises the records meant for  *)
(* it.                                                                     *)
(*                                                                         *)
(* Both public methods hold mMutex throughout.  GetLogger is one step;     *)
(* Initialize takes a step per section, since other threads log with the   *)
(* loggers they have, which needs no mutex.  A name is the sequence of its *)
(* parts ("A.x" is <<"A", "x">>); a file is the sequences of the sections  *)
(* that LoadSink and LoadLogger visit.  Formats, destinations and the      *)
(* filters of the files (which only narrow what a sink takes) are left     *)
(* out.  The core of Boost.Log is external: it offers a record to every    *)
(* sink added to it.                                                       *)
(***************************************************************************)
EXTENDS Integers, Sequences, SequencesExt

CONSTANTS LEVEL_BITS,  \* bits of an id per level (8 in the code)
          MAX_LEVEL,   \* levels in an id (8 in the code)
          Lexical(_),  \* a number as text: lexical_cast, decimal in the code
          Configs,     \* the lists of files a path may stand for
          Names,       \* the names asked for
          MaxInits     \* bound: calls of Initialize

Name == {n \in Seq(STRING) : n # <<>>}
SinkSection == [name : STRING, bad : BOOLEAN]
LoggerSection == [name : Name, leaf : BOOLEAN, sinks : SUBSET STRING,
                  bad : BOOLEAN]
File == [open : BOOLEAN, sinks : Seq(SinkSection),
         loggers : Seq(LoggerSection)]

\* The sections are visited from the root of the file's tree: before a
\* section comes the one it is in, which has no Sinks of its own.
Tree(ls) ==
    \A j \in 1..Len(ls) : Len(ls[j].name) > 1 =>
       \E i \in 1..(j - 1) : ls[i].name = Front(ls[j].name) /\ ~ls[i].leaf

ASSUME LogAssumption ==
    /\ LEVEL_BITS \in Nat \ {0} /\ MAX_LEVEL \in Nat \ {0}
    /\ MaxInits \in Nat
    /\ \A n \in Names : n \in Name
    /\ \A fs \in Configs :
          fs \in Seq(File) /\ \A i \in 1..Len(fs) : Tree(fs[i].loggers)

\* Two facts that the provers do not know: what a literal is, and the law of
\* powers, for the powers of two that ids are made of.
ASSUME LiteralAssumption == "Root" \in STRING

ASSUME PowerAssumption ==
    LET bits == LEVEL_BITS * MAX_LEVEL
    IN  \A a, b \in 0..bits : /\ 2 ^ a \in Nat \ {0}
                              /\ a + b <= bits => 2 ^ (a + b) = 2 ^ a * 2 ^ b

VARIABLES
    mIds, mIdMap, mLoggerInfos, mFileId,
    mSinks,   \* per key of a sink, the ranges in its ReDirectFilter
    at,       \* where Initialize is, or "idle"
    files, sinks, sections,  \* what it has still to load; Head(files) is open
    loaded,   \* the loggers it has loaded
    core,     \* keys of the sinks added to the core
    inits,    \* number of calls of Initialize
    origin,   \* history: the name and the file of each sink
    failed,   \* history: loggers loaded by an Initialize that threw
    early,    \* history: the root logger was handed out before it had sinks
    fault     \* "deep": ids beyond MAX_LEVEL; "hang": a lookup without end

ids == <<mIds, mIdMap>>
known == <<mSinks, origin>>
locals == <<at, files, sinks, sections, loaded>>
vars == <<ids, mLoggerInfos, mFileId, known, locals, core, inits, failed,
          early, fault>>

Root == <<"Root">>
Width == 2 ^ (LEVEL_BITS * MAX_LEVEL)                      \* uint64_t
mIdMultiple(level) == 2 ^ (LEVEL_BITS * (MAX_LEVEL - level - 1))

\* LoggerInfo; its Level follows from the name, except that Root has 0
NewInfo(id, file, sinkNames) ==
    [Id |-> id, FileId |-> file, SinkNames |-> sinkNames, SinkInfos |-> {},
     Log |-> FALSE]
Level(name) == Len(name) - 1

Init ==
    /\ mIds = [l \in 0..(MAX_LEVEL - 1) |-> 1]
    /\ mIdMap = [n \in {} |-> 0]
    /\ mLoggerInfos = [n \in {Root} |-> NewInfo(0, 0, {})]
    /\ mSinks = [k \in {} |-> {}] /\ origin = [k \in {} |-> <<>>]
    /\ mFileId = 0
    /\ at = "idle" /\ files = <<>> /\ sinks = <<>> /\ sections = <<>>
    /\ loaded = {} /\ failed = {}
    /\ core = {} /\ inits = 0 /\ early = FALSE /\ fault = "none"

-----------------------------------------------------------------------------
(* Loading.                                                                *)

\* unordered_map::insert, which leaves an entry alone that is there
Insert(map, key, value) ==
    [k \in DOMAIN map \cup {key} |->
        IF k \in DOMAIN map THEN map[k] ELSE value]

\* Initialize on a path that stands for the given files.  (A path that
\* stands for none changes nothing.)
Initialize(fs) ==
    /\ at = "idle" /\ inits < MaxInits
    /\ inits' = inits + 1 /\ at' = "files" /\ files' = fs
    /\ UNCHANGED <<ids, mLoggerInfos, mFileId, known, sinks, sections,
                   loaded, core, failed, early, fault>>

\* The end of Initialize, and of its variables
Return ==
    /\ at' = "idle" /\ files' = <<>> /\ sinks' = <<>> /\ sections' = <<>>
    /\ loaded' = {}

\* An exception leaves loaded what was loaded.
Throw(more) == Return /\ failed' = failed \cup loaded \cup more

\* LoadConfig: a file that cannot be opened is skipped.
LoadConfig ==
    /\ at = "files" /\ files # <<>>
    /\ \/ /\ ~Head(files).open
          /\ files' = Tail(files) /\ UNCHANGED <<mFileId, at, sinks, sections>>
       \/ /\ Head(files).open
          /\ mFileId' = mFileId + 1 /\ at' = "sinks"
          /\ sinks' = Head(files).sinks /\ sections' = Head(files).loggers
          /\ UNCHANGED files
    /\ UNCHANGED <<ids, mLoggerInfos, known, loaded, core, inits, failed,
                   early, fault>>

\* the key of a sink: its name and the number of the file
SinkKey(name, file) == name \o Lexical(file)

\* LoadSink on a section with a Destination.  What it looks up is the name,
\* not the key.
LoadSink ==
    LET s == Head(sinks)
        key == SinkKey(s.name, mFileId)
    IN  /\ at = "sinks" /\ sinks # <<>>
        /\ \/ /\ s.name \in DOMAIN mSinks \/ s.bad
              /\ Throw({}) /\ UNCHANGED known
           \/ /\ s.name \notin DOMAIN mSinks /\ ~s.bad
              /\ mSinks' = Insert(mSinks, key, {})
              /\ origin' = Insert(origin, key, <<s.name, mFileId>>)
              /\ sinks' = Tail(sinks)
              /\ UNCHANGED <<at, files, sections, loaded, failed>>
        /\ UNCHANGED <<ids, mLoggerInfos, mFileId, core, inits, early, fault>>

\* The loop behind LoadSink: if the file has a section Sinks, be it one
\* without sinks, all that are known are added to the core, which ignores
\* the ones it has.
AddSinks ==
    /\ at = "sinks" /\ sinks = <<>> /\ at' = "loggers"
    /\ \/ core' = DOMAIN mSinks
       \/ Head(files).sinks = <<>> /\ UNCHANGED core
    /\ UNCHANGED <<ids, mLoggerInfos, mFileId, known, files, sinks, sections,
                   loaded, inits, failed, early, fault>>

\* GetId: the id of the name's prefix, which has been visited, and the next
\* number of the level, whatever the prefix
GetId(name) ==
    LET level == Level(name)
        parentId == IF Len(name) = 1 THEN 0 ELSE mIdMap[Front(name)]
    IN  IF name \in DOMAIN mIdMap THEN UNCHANGED ids
        ELSE /\ mIds' = [mIds EXCEPT ![level] = @ + 1]
             /\ mIdMap' = Insert(mIdMap, name,
                   (mIds[level] * mIdMultiple(level) + parentId) % Width)

\* LoadLogger on a section with Sinks that is called Root: a bad filter
\* throws when the logger has its FileId.
LoadRoot(e) ==
    \/ /\ mLoggerInfos[Root].FileId # 0
       /\ Throw({}) /\ UNCHANGED <<ids, mLoggerInfos>>
    \/ /\ mLoggerInfos[Root].FileId = 0
       /\ mLoggerInfos' = [mLoggerInfos EXCEPT
             ![Root] = [@ EXCEPT !.FileId = mFileId, !.SinkNames = e.sinks]]
       /\ \/ e.bad /\ Throw({Root})
          \/ /\ ~e.bad
             /\ loaded' = loaded \cup {Root} /\ sections' = Tail(sections)
             /\ UNCHANGED <<at, files, sinks, failed>>
       /\ UNCHANGED ids

\* any other one: a bad filter throws when the id is taken, before the
\* logger is known
LoadLeaf(e) ==
    \/ /\ e.name \in DOMAIN mLoggerInfos
       /\ Throw({}) /\ UNCHANGED <<ids, mLoggerInfos>>
    \/ /\ e.name \notin DOMAIN mLoggerInfos /\ GetId(e.name)
       /\ \/ e.bad /\ Throw({}) /\ UNCHANGED mLoggerInfos
          \/ /\ ~e.bad
             /\ mLoggerInfos' = Insert(mLoggerInfos, e.name,
                   NewInfo(mIdMap'[e.name], mFileId, e.sinks))
             /\ loaded' = loaded \cup {e.name} /\ sections' = Tail(sections)
             /\ UNCHANGED <<at, files, sinks, failed>>

\* LoadLogger: a section without Sinks only gets an id, for its children.
\* A level beyond the last is written past the end of mIds.
LoadLogger ==
    LET e == Head(sections)
    IN  /\ at = "loggers" /\ sections # <<>>
        /\ \/ /\ Len(e.name) > MAX_LEVEL /\ fault' = "deep"
              /\ UNCHANGED <<ids, mLoggerInfos, locals, failed>>
           \/ /\ Len(e.name) <= MAX_LEVEL /\ UNCHANGED fault
              /\ \/ e.leaf /\ e.name = Root /\ LoadRoot(e)
                 \/ e.leaf /\ e.name # Root /\ LoadLeaf(e)
                 \/ /\ ~e.leaf /\ GetId(e.name)
                    /\ sections' = Tail(sections)
                    /\ UNCHANGED <<mLoggerInfos, at, files, sinks, loaded,
                                   failed>>
        /\ UNCHANGED <<mFileId, known, core, inits, early>>

\* the end of a file
NextFile ==
    /\ at = "loggers" /\ sections = <<>>
    /\ at' = "files" /\ files' = Tail(files)
    /\ UNCHANGED <<ids, mLoggerInfos, mFileId, known, sinks, sections,
                   loaded, core, inits, failed, early, fault>>

\* linking with the sinks of the file read last
KeysOfLastFile(info) ==
    {SinkKey(s, mFileId) : s \in info.SinkNames} \cap DOMAIN mSinks

\* the sinks that a logger's own file names and that exist
KeysFor(info) ==
    {SinkKey(s, info.FileId) : s \in info.SinkNames} \cap DOMAIN mSinks

LinkLoggerWithSink ==
    /\ at = "files" /\ files = <<>>
    /\ mLoggerInfos' = [n \in DOMAIN mLoggerInfos |->
          IF n \in loaded
          THEN [mLoggerInfos[n] EXCEPT !.SinkInfos = KeysFor(mLoggerInfos[n])]
          ELSE mLoggerInfos[n]]
    /\ Return
    /\ UNCHANGED <<ids, mFileId, known, core, inits, failed, early, fault>>

-----------------------------------------------------------------------------
(* Looking up.                                                             *)

\* the lengths of the parts of the name that are loggers
Listed(name) == {k \in 1..Len(name) :
    SubSeq(name, 1, k) \in DOMAIN mIdMap \cap DOMAIN mLoggerInfos}

\* the first part that is a logger in place of the longest
FirstMatch(name) ==
    LET lens == Listed(name)
    IN  IF lens = {} THEN Root
        ELSE SubSeq(name, 1, CHOOSE k \in lens : \A l \in lens : k <= l)

\* GetLoggerInfo: the longest part of the name that is a logger, or Root
GetLoggerInfo(name) ==
    LET lens == Listed(name)
    IN  IF lens = {} THEN Root
        ELSE SubSeq(name, 1, CHOOSE k \in lens : \A l \in lens : l <= k)

\* A name that begins with a dot: at position 0 the search goes on at
\* 0 - 1, the end of the name, and finds the same dot again.
Loops(name) == name[1] = "" /\ Len(name) > 1 /\ Listed(name) = {}

\* NextId one level too high
NextIdWide(name, id) ==
    (id + (IF Level(name) = 0 THEN Width ELSE mIdMultiple(Level(name) - 1)))
    % Width

NextId(name, id) == (id + mIdMultiple(Level(name))) % Width

\* AddFilter that forgets the filter the sink had
AddFilterOver(old, range) == {range}

AddFilter(old, range) == old \cup {range}

\* GetLogger: the first call creates the Log and lets the sinks that the
\* logger has by then accept its range of ids.
GetLogger(name) ==
    LET n == GetLoggerInfo(name)
        info == mLoggerInfos[n]
        range == <<info.Id, NextId(n, info.Id)>>
    IN  /\ at = "idle"
        /\ \/ /\ Loops(name) /\ fault' = "hang"
              /\ UNCHANGED <<mLoggerInfos, mSinks, early>>
           \/ /\ ~Loops(name) /\ ~info.Log
              /\ mLoggerInfos' = [mLoggerInfos EXCEPT
                                    ![n] = [@ EXCEPT !.Log = TRUE]]
              /\ mSinks' = [k \in DOMAIN mSinks |->
                               IF k \in info.SinkInfos
                               THEN AddFilter(mSinks[k], range)
                               ELSE mSinks[k]]
              /\ early' = (early \/ (n = Root /\ info.FileId = 0))
              /\ UNCHANGED fault
        /\ UNCHANGED <<ids, mFileId, origin, locals, core, inits, failed>>

Next == /\ fault = "none"
        /\ \/ \E fs \in Configs : Initialize(fs)
           \/ LoadConfig \/ LoadSink \/ AddSinks \/ LoadLogger \/ NextFile
           \/ LinkLoggerWithSink
           \/ \E name \in Names : GetLogger(name)

Spec == Init /\ [][Next]_vars

-----------------------------------------------------------------------------
(* Properties.  Records are logged at any time, also while files are       *)
(* loaded.                                                                 *)

Infos == DOMAIN mLoggerInfos

\* FiltFun and the core: whether a record with this id gets to the sink
Accepts(k, id) == k \in core /\ \E g \in mSinks[k] : g[1] <= id /\ id < g[2]

\* The sinks that the logger's own file defines and gives it.  A key has no
\* separator: another file's sink may have taken it.
OwnSinks(n) ==
    LET i == mLoggerInfos[n]
    IN  {k \in DOMAIN mSinks : \E s \in i.SinkNames :
            k = SinkKey(s, i.FileId) /\ origin[k] = <<s, i.FileId>>}

\* Whether a counter gave out more numbers than LEVEL_BITS can tell apart.
Overflowed == \E l \in DOMAIN mIds : mIds[l] > 2 ^ LEVEL_BITS

\* What is logged with a logger reaches all of its sinks, unless it is the
\* root logger and was handed out before Initialize, or its id is the last
\* of the top level, so that NextId wraps around to 0; or the sink is that
\* of another file, which has the same key and threw before the core had it.
Delivered ==
    \A n \in Infos :
       LET i == mLoggerInfos[n]
       IN  i.Log => \/ \A k \in i.SinkInfos :
                          Accepts(k, i.Id) \/ k \notin core \cup OwnSinks(n)
                    \/ n = Root /\ early
                    \/ NextId(n, i.Id) = 0

\* A record reaches a sink only through its logger or a logger whose name is
\* a part of its logger's, as long as no counter of ids overflowed.
NoLeak ==
    Overflowed \/
    \A n \in Infos, k \in DOMAIN mSinks :
       Accepts(k, mLoggerInfos[n].Id) =>
          \E p \in Infos : IsPrefix(p, n) /\ k \in mLoggerInfos[p].SinkInfos

\* A logger has every sink that its own file defines and gives it as soon as
\* Initialize returns, unless that threw: then it has none, and since it is
\* known no later call can load it again.
Linked ==
    \A n \in Infos \ loaded :
       IF n \in failed THEN mLoggerInfos[n].SinkInfos = {}
       ELSE OwnSinks(n) \subseteq mLoggerInfos[n].SinkInfos

\* Loading more files never takes a logger or an id away: a name moves only
\* to a logger closer to it, and the records of a logger keep their id.
StableLookup ==
    [][/\ \A name \in Names :
             LET old == GetLoggerInfo(name)
                 new == GetLoggerInfo(name)'
             IN  old = new \/ old = Root \/ IsPrefix(old, new)
       /\ \A n \in Infos : n \in Infos'
                           /\ mLoggerInfos'[n].Id = mLoggerInfos[n].Id
       /\ \A n \in DOMAIN mIdMap :
             n \in DOMAIN mIdMap' /\ mIdMap'[n] = mIdMap[n]]_vars
=============================================================================
