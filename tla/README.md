# A TLA+ model of MemCachedClient

MemCachedClient is a C++ client library for memcached servers: asynchronous
connections on Boost.Asio (`network/`), a list of servers with exchangeable
distribution algorithms (`serverManager/`) and the client proper
(`memcachedClient/`), with logging, file handling and MD5 as helpers. This
directory models it, checks the models with TLC and proves with TLAPS what the
connection, the client, its results, the list of servers, the distribution
algorithms, the log manager and MD5 promise.

## 1. Inventory

| component | state | operations | interacts through | what makes it correct |
|---|---|---|---|---|
| `TcpClient` | socket, `mPendingBuffers`, `mWriteBuffers`, outstanding operations | `Connect`, `Send` (two), `Close`; handlers of connect, header, body, write | posts to `io_service`; raises `OnError`, `OnHeader`, `OnBody` | buffers leave in call order, one write at a time, nothing forgotten, read loop alive, stops at the first error |
| `MemcachedClient` | `mRequests`, `mNextRequestId` | `Get`, `Store`, `SelfOp`, `Append`, `Delete`, `Flush`, `Stat`, `Version`; `OnHeaderReaded`, `OnBodayReaded`, `OnServerRemoved`, `FinishRequest` | calls `ServerList`, `ServerItem`; called back by `TcpClient` | every call is answered, with its own answer; iterators and objects are alive when used |
| `MemResult`, `RequestItem` | `mErrorCode`, mutex, condition variable | `Finish`, `Notify`, `FillReceiveBuffer` | application threads against the io thread | waiters come out, with the final code |
| `ServerList`, `ServerItem` | `mServers`, the algorithm, `mMutex`, `mPendingRequests` | `Add`, `Remove`, `Get`, `SetDistributeAlgorithm`, `SendRequest` | application threads and the `OnError` slot on the io thread | list and algorithm agree, no request is forgotten, servers are removed for a cause, calls return |
| `ConsistentHashDistri` | `mCircle` | `Add`, `Remove`, `Get`, `Clear` | called under the list's mutex | keys are routed, and move only with their server |
| `MemoDistri` | heap of servers, key mapping | `Add`, `Remove`, `Get`, `Clear` | same | the vector is a heap when used as one; counts match the mapping |
| `ModuloDistri` | vector of servers | same | same | cannot be constructed (no constructor body) |
| `SharedBuffer`, `HostNetConversion` | reference-counted memory | conversions | used everywhere | lifetime; byte order |
| `LogManager` | `mIds`, `mIdMap`, `mLoggerInfos`, `mSinks`, `mFileId` | `Initialize`, `GetLogger` | called by every component that logs | records reach the sinks of their logger and no others |
| `FileHandler` | two files, the line in hand | `TraverseFile`, `FindAndReplace`, `FindFiles` | file system | every occurrence is replaced, contents survive a crash |
| `MD5` | `_count`, `_buffer`, `_state`, `_finished` | `update` (three), `digest`, `reset` | `ConsistentHashDistri` makes its points with it | the digest does not depend on how the message was cut |

The hard behaviours: handlers interleave with calls from other threads;
a connection is lost with requests in every stage; objects are destroyed with
handlers still queued; ids, iterators and references outlive what they name;
several threads wait for one result, and for the mutex of the list; loading
fails halfway; counters run out of bits; a file is replaced in several steps.
`PROJECT.json` lists each at its line
under "hazards".

There is one io thread: both examples call `io_service::run()` once, and the
code takes no lock in its handlers.

## 2. Modules

| module | models | kind |
|---|---|---|
| `SendChannel` | what `TcpClient::Send` promises | abstract specification |
| `TcpClient` | `network/TcpClient.cpp` | component, implements `SendChannel` |
| `TcpClientProofs` | | theorems about `TcpClient` |
| `MemcachedClient`, `MCMemcachedClient` | `memcachedClient/` with `ServerList::Add/Remove/Get`, `ServerItem` and the connection as it is seen from there | composition |
| `MemcachedClientProofs` | | theorems about `MemcachedClient` |
| `MemResult` | `MemResult.cpp`, `RequestItem.cpp` | component |
| `MemResultProofs` | | theorems about `MemResult` |
| `MemoDistri`, `MCMemoDistri` | `serverManager/MemoDistri.cpp` | component |
| `MemoDistriProofs` | | theorems about `MemoDistri` |
| `ConsistentHashDistri`, `MCConsistentHashDistri` | `serverManager/ConsistentHashDistri.cpp` | component |
| `ConsistentHashDistriProofs` | | theorems about `ConsistentHashDistri` |
| `ServerList`, `MCServerList` | `serverManager/ServerList.cpp` under several threads, with the part of the client's operations that uses it | composition of list, algorithms and callers |
| `ServerListProofs` | | theorems about `ServerList` |
| `LogManager`, `MCLogManager` | `log/LogManager.cpp` and its headers | component |
| `LogManagerProofs` | | theorems about `LogManager` |
| `MD5` | `utils/md5.cpp` | component |
| `MD5Proofs` | | theorems about `MD5` |
| `FileHandler`, `MCFileHandler` | `common/FileHandler.hpp` and `.cpp`: `TraverseFile`, `FindAndReplace` | component |

Operators whose comment describes them as a variant of another one ("RunSend
that never looks at mWriteBuffers") are faulty variants of the code. They are
no part of any specification: substituted for the original, each must make the
property named in `PROJECT.json` ("mutants") fail.

### TcpClient

`posted` holds the lambdas of `Send` and `Close` that io_service has not run,
in order. `writes`, `reads` and `connect` are the outstanding asynchronous
operations with their status: an operation is started by a call, ends in a
step of the kernel (`ConnectEnds`, `Transmit`, `WriteCompletes`, `WriteFails`,
`ReadEnds`), and its handler (`ConnectHandler`, `HeaderHandler`,
`BodyHandler`, `WriteHandler`) runs later. `writes` is a set and `reads` a
sequence although the code means to have at most one of each: that is what
`BusyFlag` and `ReadLoopAlive` show. Closing the socket turns pending
operations into failed ones and leaves completed ones alone, so a handler may
still see success after a close. A `Connect` that throws (the name does not
resolve) leaves a socket that was never opened, on which every later operation
fails; `ServerList` still lists it, so `Send` and `Close` go on. The contents of
buffers are left out; a buffer is the number of the `Send` that brought it. What `OnHeader` decides is a
choice (body, body without buffer, no body). `Connect` is called once, by
`ServerList::Add`, before anybody else has the object. An empty vector given to
`Send` would break the busy flag; every caller puts at least a header in it.

### MemcachedClient

`ready` is the queue of handlers and lambdas io_service will run, in order,
across all connections; `conn` holds every `ServerItem` ever created with the
part of its connection that matters here; `mServers` those that exist. Calls of
the API are made on the io thread: before `run()` as in the examples, or in
callbacks. Kernel steps append handlers to `ready`; `RunReady` runs the oldest.
The order in which a failure queues things is the code's: `Close4Error` closes
the socket, which queues the aborted operations, before `OnError` makes
`OnServerRemoved` post its lambdas; a failed connect and a removal by the
application post first and close in the destructor.

A behaviour is followed to its first undefined behaviour, recorded in `fault`:

| `fault` | where |
|---|---|
| `null_server` | `server->SendRequest` on the null pointer of an empty algorithm |
| `end_iterator` | `OnServerRemoved` dereferences `find()` of an answered request |
| `dangling_iterator` | second lambda of `FinishRequest` for one entry |
| `freed_client` | handler or lambda of a destroyed `TcpClient` |
| `heap_overflow` | `Stat` with a key copies it past the end of the request |
| `freed_host` | `Remove` logs the host of the item it has destroyed (only if the log filter lets the record through) |
| `desync` | the next header is read from a wrong position of the stream (defined behaviour, but the response is garbage) |

The server is external. It answers in order, is silent on a GETQ miss, answers
`Stat` with several packets. `Store`, `SelfOp` and `Flush` announce a body
shorter than the one they send (`Misframed`), so it answers and closes.
The result of a request supplies the buffers for the body
(`FillReceiveBuffer`), and `async_read` ends when they are full. Only the buffer
the caller of Get passed has a size of its own; an entry found by the response to
another call, after a collision of ids, may also supply the wrong ones. `fit` says
how they compare with the body: `fits`; `short`, the rest of the body stays in the
stream and the next header is read from a wrong position; `long`, the read stays
pending, takes the next responses of the connection into the buffer
(`SwallowResponse`, with `swallowed` for whose they were) and ends in the middle or
at the end of one, or waits for ever. Uninitialised
`mHasMoreResult` is a choice when the Stat is issued. Messages of each operation
are abstracted to the extras they send and announce (`Extras`,
`bodylenExtras`); the status of an answer goes through the conversions of the
code (`AdjustEndian`), twice.

### MemResult

The steps of `Finish` and `Notify` are separated where the mutex can change
hands; `wait` may end spuriously. The request is finished once: that is the
subject of `MemcachedClient`.

### MemoDistri and ConsistentHashDistri

`ServerList` calls them with its mutex held, so operations are atomic.
`push_heap` and `pop_heap` may leave any heap of the same elements.
The points of a server are a constant function, with collisions; `shadowed` is
a history variable that remembers which points a server lost to a later one.
`ServerList` adds a server at most once, and `Clear` comes with
`SetDistributeAlgorithm`.

The points of a server are at most 0x66666666 (four ASCII digits each) while a
hash has 64 bits, so in practice nearly all keys go round to the first point;
`AlwaysRouted` and `MinimalMoves` hold all the same.

### ServerList

Every method of the list holds `mMutex` from beginning to end, the signals
included: `Lock` takes it, and the method (`Add`, `Remove`,
`SetDistributeAlgorithm`, `GetByKey`, `GetByAddr`) is one step of the thread
that has it. The client's operations go on without the lock: `Insert` into the
table, `SendRequest` on the pointer they got. On the io thread the slot that
`Add` connected (`OnError`) begins a `Remove`, which runs later
(`RemoveFailed`), so that an application thread can get in between. An algorithm
is the number of entries it has for each server: `MemoDistri` has one per `Add`,
the circle the points of a server however often it was added.
Host and port are put together without a separator, so addresses may share a key.
`forgotten`, `userRemoved` and `late` are history variables that name the
circumstances the properties have to except. Faults: `null_algorithm` (no
algorithm was set), `null_server`, `freed_item` (the slot's `Remove` reads a
host that has been destroyed), `dangling_slot` (the slot reads an erased entry of
the map).

### LogManager

Both public methods hold the mutex throughout. `GetLogger` is a step;
`Initialize` takes one per file and section (`at`, `files`, `sinks`, `sections`
and `loaded` are its local variables), because logging needs no mutex and the
properties speak of the records logged meanwhile. A name is the
sequence of its parts, a file the sequences of sections that `LoadSink`
and `LoadLogger` visit, a section before those in it (`Tree`); a section may be
one that makes them throw. How a number is written is a parameter (`Lexical`):
a sink's key is its name followed by the number of the file, and `origin`
remembers which sink of which file took the key first. An id has
`LEVEL_BITS` bits per level; the counters (`mIds`) belong to a level, not to a
parent. `GetLogger` gives the sinks of a logger the range of ids from the logger
to `NextId`. A logger deeper than `MAX_LEVEL` overruns `mIds` (`fault` "deep"),
a name with a leading dot and no logger makes the lookup endless ("hang").

### MD5

`transform` is abstract: `_state` is the sequence of blocks given to it. That
makes two digests equal exactly when MD5 is equal by definition (`Padded`).
Sizes of bytes, words and blocks are parameters, so that the carry and the
padding boundary are reached with short messages. `update` on a file is one step
per turn of its loop (`updateFile`, `readPiece`), `left` being the bytes still to
be read; a read that fails leaves the loop turning (`readFails`, `stuck`).
`gen`, `len` and `spoiled` are history variables.

### FileHandler

`TraverseFile` is modelled step by step, with a crash possible at each and
streams and functions that fail unnoticed (`failed`). `cur` remembers what the
file should hold; `Reference` states replacement without a loop.

## 3. Runs

| run | bounds | states | shows |
|---|---|---|---|
| `tcp_client` | 5 buffers, vectors up to 2, 2 closes posted | 58,545 | `InOrder`, `BusyFlag`, `NoStall`, `ReadLoopAlive`, `FailStop` and the refinement of `SendChannel` with its liveness |
| `client_all_operations` | all 8 operations, 2 calls, 1 connection | 102,791 | `NoOrphan`: a request in the table is about to be finished, on its way, a silent GETQ, or its response was swallowed; `StatusSwapped`, `FaultsExplained`; `CallsAnswered`: every call but a Stat is answered, with three exceptions that keep it in the table |
| `client_two_servers` | Delete, 3 calls, 1 id, 2 connections, symmetric | 1,590,475 | `OwnAnswer` with ids that collide, `FaultsExplained` |
| `mem_result` | 3 threads, 2 codes | 2,264 | `PendingOnlySpurious`, `CallbackSeesResult`, `WaitersReturn` |
| `memo_distri` | 4 servers, one twice as heavy, 3 keys | 773 | `HeapPrecondition`, `KeyCountExact`, `OneLoaded`, `StickyKeys` |
| `consistent_hash` | 4 servers, 4 points each, overlapping; one masked to none | 296 | `CircleComplete`, `AlwaysRouted`, `MinimalMoves` |
| `server_list` | 3 addresses, two with one key; 2 threads and the io thread; 2 algorithms, 2 servers created, 4 calls | 173,863 | `Agreement`, `NothingForgotten`, `SlotSafe`, `RemovedForCause`, `CallsReturn` |
| `log_manager` | 2 bits per level, 2 levels, 14 configurations, 8 names, 3 `Initialize` | 304,518 | `Delivered`, `NoLeak`, `Linked`, `StableLookup` |
| `md5` | bytes of 2 bits, words of 2 bytes, blocks of 8; pieces and files of 0, 5, 13, read 5 at a time; 131 bytes, 2 messages, 2 digests each | 1,104,095 | `CountExact`, `TailKept`, `DigestRight` |
| `file_handler` | 4 files, 5 old and 5 new texts, 3 calls | 60,532 | `Recoverable`, `ReplacesAll`, `CallEnds` |
| `client_get_miss` | 1 Get | | violated: a Get that misses is never answered |
| `mem_result_lost_wakeup` | 3 threads | | violated: `Finish` after the notification blocks |

Why the bounds are enough. Five buffers with vectors of two let a write be in
progress, several wait and more be posted behind them; the theorems lift the
bound. Two calls are two requests in one write, in two writes, or one after the
other, and a Get whose buffer swallows the response to the other. Two connections are two servers or a lost one added again; three
calls with one id are the wrap-around of 2^32 ids onto requests that are
outstanding, answered, or sent to a server lost since; the theorems lift the
bounds. Three waiters distinguish waking one, some and all. Four servers give a
heap with an element that is neither root nor child of the root. Collisions of
points among three servers are needed for a point to be lost twice. Four calls
on the list are: a server added, removed and added again while an operation is
under way. The slot that removes the healthy successor of a failed server, an
exception of `RemovedForCause`, takes five and is beyond the run; the theorem
`RemovalsCaused` has it, and lifts the bound. Two bits per level overflow
with the fourth name of a level, two levels have a parent and a child, three
calls of `Initialize` allow a failure and another attempt; numbers are written
in binary, so that two sinks get one key with the third file. A word of
4 bits carries every 8 bytes, and with 131 bytes of 2 bits both words together
(2^8) wrap around; pieces of 5 and 13 meet the buffer at every position, the
padding boundary included, and files of 5 end exactly with a read. Three calls on a file are one that crashes, one that
finds what was left, and one more.

Deadlock is checked for the connection and the algorithms. The others may come
to rest: no more calls, or a fault.

### Fairness

Weak fairness of the io thread's steps: `run()` keeps taking handlers. Weak
fairness of the kernel's: an operation ends or makes progress. For the client
also of the server: it answers, and closes a connection it lost its place in.
A read makes progress with what is there (`ReadArrives`): a body read with room
left waits until the server has answered something else, and nothing obliges it to.
Nothing obliges an application to call, a connection to fail, or in
`TcpClient` the peer to send anything. In `MemResult` taking the mutex is
strongly fair (`NotifyLock`, `FinishReturn`): others hold it only for a few
instructions, but can hold it again and again; the same goes for `Lock` in
`ServerList`, where a thread that has the mutex goes on (weak fairness of the
methods). In `FileHandler` a call goes on (`Step`); nothing obliges a process to
crash, and a crash ends the call as far as `CallEnds` goes.

### Findings

Two disagreements with what the examples rely on are in `PROJECT.json`, each
with the run that shows it: a Get that misses is never answered, and `Finish`
after the notification blocks. A spurious wakeup (`PendingOnlySpurious` names
exactly these threads) has the same cause as the lost one, a wait without a
predicate.

The invariants hold, but several hold because they name an exception, and each
exception is something the code does:

* Client (`FaultsExplained`, `StatusSwapped`): a server that ever answered a
  request and is then lost always leads to `end_iterator`; losing the last
  server makes the next call dereference null; the status is converted to host
  order twice, so a missing key is reported as 0x0100.
* Client (`NoOrphan`, `CallsAnswered`): a Get that hits is not answered when the
  caller's buffer is longer than the value (`SyncGet.cpp` passes 13 bytes without
  knowing the value, and waits in `Finish`), unless the responses to the calls after
  it fill the buffer; those calls then stay in the table until their server is
  lost. `client_all_operations` fails if either exception is left out.
* Client, ids reused (`OwnAnswer`, `FaultsExplained`): a call whose id is still
  in the table is not entered, is sent all the same, and its response finishes
  the older call; a further packet of a `Stat` that was answered reaches whoever
  has the id now; the loss of a server reports a network error to calls on other
  servers, because `mPendingRequests` keeps ids for ever; and two lambdas may
  then finish one entry.
* List (`Agreement`, `NothingForgotten`, `SlotSafe`, `RemovedForCause`):
  installing the algorithm in use empties it; a request sent to a server removed
  since the lookup is forgotten; the slot may use a server an application
  thread destroyed meanwhile, or remove the healthy successor of a failed one;
  addresses with one key stand for one another.
* Logging (`Delivered`, `NoLeak`, `Linked`): the root logger, if asked for before
  `Initialize` (`ServerList`'s constructor asks), stays silent; the last id
  of the top level gets an empty range; after 2^`LEVEL_BITS` names of a level
  records leak into sinks of other loggers; loggers of a file that threw halfway
  are known, without sinks, and cannot be loaded again. `LoadSink` looks for a
  duplicate by name, not by key, so a sink called like the key of another one
  throws. A key has no separator: sink `s1` of file 1 and sink `s` of file 11
  have the same, the later file's loggers get the earlier file's sink, and if
  that file threw, the sink is not in the core and their records are dropped.
* MD5 (`DigestRight`): a digest asked for when the length does not fit into the
  last block destroys buffered bytes, and every later digest of the message is
  wrong; a file whose read fails without reaching the end is read for ever.
* Files (`Recoverable`, `CallEnds`): after a crash between `remove` and `rename`
  only the temporary file exists and no later call finds it; failed streams
  are not noticed, and the original is removed all the same; replacing nothing
  by nothing does not end.

## 4. Proofs

`TcpClientProofs`, for every value of the bounds, from `BoundsAssumption` only:

* `TypeCorrect`, `SendsInOrder`, `OneWriteAtATime`, `NothingStalls`,
  `ReadLoopLives`: invariants;
* `ErrorsFailStop`: the action property `FailStop`;
* `ImplementsChannelSafety`: every step is a step of `SendChannel` or a stutter.

`InOrder` is not inductive: it speaks of what has left only. `IInv` adds where
every buffer is between the call and the wire. `Chain`: the posted lambdas hold
consecutive ranges of numbers that end at `issued`; `PendingChain`: the pending
buffers are the numbers just before the first of them (`Taken`);
`WriteChain`: the write in progress holds those just before the pending ones
(`Handed`); `WireChain`: as long as the socket can still transmit, the wire ends
where the rest of the write begins. After a failed write the buffers that were
lost leave a gap, so `WireChain` is conditional on `Usable`, and the
conjuncts about the connection (`ConnectInv`) show that the socket is then
closed or failed for good. There is one lemma per action, and the reading and
sending sides are separated, most actions leaving one of them alone.

`MemoDistriProofs`, for every set of servers, weights and hashes, from
`MemoAssumption` (weights are positive):

* `MemoTypeCorrect`: types, and that mapped keys belong to listed servers;
* `OnlyFrontLoaded`: `OneLoaded`; `HeapAlways`: because of it, `HeapPrecondition`;
* `CountsExact`: `KeyCountExact`; `KeysStay`: the action property `StickyKeys`.

The heap survives the `erase` in the middle of its vector only because of the
inverted order: all servers but the first have no keys (`OneLoaded`), and
erasing any element of such a vector leaves one of the same form, while a heap
as such would not survive. `MInv` joins this to the servers being different
(otherwise the rearrangement could duplicate the loaded one), the mapping being
finite, and the counts. What the library may do with the vector enters through
two lemmas (`HeapsInfos`, `HeapsFront`): a loaded element behind the front would
be below one without keys.

`ConsistentHashDistriProofs`, for every set of servers, weights and points, from
`CircleAssumption` and `PointAssumption` (points are numbers):

* `CircleTypeCorrect`: every point belongs to a listed server;
* `PointsComplete`: `CircleComplete`; `KeysRouted`: `AlwaysRouted`;
* `MovesMinimal`: the action property `MinimalMoves`.

`CInv` is inductive as it stands: what the circle holds belongs to listed
servers, and a point of a listed server that is not its own is in `shadowed`.
A key is routed to the first point not below its hash, or to the first of all;
`FirstKept` carries `MovesMinimal`: taking points away does not change the first
one unless it is among those taken.

`ServerListProofs`, for any number of threads, addresses, keys and algorithms,
from `ListAssumption`:

* `AlgorithmAgrees`: `Agreement`; `RequestsKept`: `NothingForgotten`;
  `SlotIsSafe`: `SlotSafe`; `RemovalsCaused`: the action property
  `RemovedForCause`.

`IInv` adds to them where the threads are and that a thread in a method owns the
mutex (`TInv`); that the server of a key has that key, so that erasing one key
takes exactly one server out of the list, and that there is room for the servers
of the threads in `Add` (`LInv`); and that the server whose slot waits for the
mutex is still listed unless an application thread removed it (`IoInv`), which
is what `SlotSafe` and `RemovedForCause` rest on.

`MemResultProofs`, for any number of threads and codes, from `ResultAssumption`:

* `SpuriousOnly`: `PendingOnlySpurious`; `CallbackSees`: `CallbackSeesResult`.

`IInv` adds that the mutex is with whoever is in its critical section
(`MutexInv`), that the code changes only in the io thread's (`StoredInv`), and
that a thread the notification woke comes after it (`WokenInv`).

`MemcachedClientProofs`, for any number of calls, ids, servers, connections and
packets of a `Stat`, from `ClientAssumption`:

* `AnswersAreOwn`: `OwnAnswer`; `StatusesSwapped`: `StatusSwapped`;
  `NoneOrphaned`: `NoOrphan`; `FaultsHaveReasons`: `FaultsExplained`;
* `AnsweredOnce`: no call is answered twice;
* `OwnWithoutReuse`: with no more calls than ids every answer is the caller's own
  or a network error for its own request, with no exception.

The properties speak of the ends of a request's way; `IInv` follows it in
between. `TableInv`: an entry of the table per id, and every call is in the table,
refused or answered. `SendInv`: on each connection the requests not yet served
(posted, pending, in the write, on the wire) are in the order of the calls and
the server has said nothing about them, so that a request is served at most once.
`MsgInv`: a response belongs to a call on its connection and has the status the
server said. `OpInv`: one read and one write at a time; a connection that is
lost has its aborted operations in the queue. `WayInv` is `NoOrphan` with the
places made explicit, the buffer of a Get among them. `OneInv` and `AlignInv` say
what holds as long as ids do not collide and no server was lost (`Calm`): one
response per call and, if there is no Get, buffers that fit and a stream read from
the right position. `FreshInv`: a posted lambda's iterator is valid unless one of
the causes in `FaultsExplained` is there. Handlers change one connection and the
two ends of `ready`; the lemmas `...Moves` treat any such step at once, so that a
handler's own lemma only says what it does to the connection. The loss of a server
is the exception: it empties a connection, queues what was aborted and posts a
lambda per pending request (`FlatExists`, `FlatCollects`, proved with a least
counterexample), before or after each other.

Two exceptions of the properties were found by these proofs, and the model's
comments name them: a late response to a call that has its answer, and a lost
server's requests whose ids are in use again.

`MD5Proofs`, for every size of bytes, words and blocks, all lengths of pieces and
files, any number of messages and digests, from `MD5Assumption` (a block has room
for the length, and its bits divide the range of a word) and `PowerAssumption`
(the law of powers for the exponents used, which the provers do not know):

* `CountsExactly`: `CountExact`; `KeepsTheTail`: `TailKept`;
  `DigestsRightly`: `DigestRight`, in both directions.

The count is two words; `AddCounted` shows that the carry is taken exactly when
the low word wraps, and `IndexCounted` that the place in the buffer computed from
the low word is the right one although the count is only the length modulo its
range. `Holds(o, f, t)` says that an object has absorbed the first `t` bytes of a
stream `f`; `HoldsUpdate` that update goes on with the next bytes, however many.
Final is two updates with the padded stream (`FinalIs`), and the padded stream is
MD5's definition (`PaddedIs`, `EncodeIs`). For `spoiled`, `IInv` says that what was
absorbed is a stream with a zero at the beginning of a block: the padding has
put it there, no byte of a message is one, and so the digest must differ.

`LogManagerProofs`, for any number of bits and levels, any files, names and
number of calls, and any way to write numbers, from `LogAssumption` (a section
comes after the one it is in), `PowerAssumption` (the law of powers) and
`LiteralAssumption` (`"Root"` is a string), which the provers do not know:

* `LogInvariant`: the inductive invariant; `SinksLinked`: `Linked`;
  `RecordsDelivered`: `Delivered`; `NothingLeaks`: `NoLeak`;
* `LookupsStable`: the action property `StableLookup`.

A sink knows the records meant for it only by ranges of ids, so the invariant
has two halves. `SinkInv`: the ranges of a sink are those of loggers that have
it, and a logger that was handed out has given its range to all its sinks
(`RangeInv`); loggers have no sinks while they are being loaded, or ever if that
fails (`FileInv`); a sink outside of the core is of a file none of whose loggers
was loaded (`CoreInv`). `IdInv`: whatever overflows, an id is a multiple of its
level's unit (`UnitInv`); as long as nothing overflowed, the ids below a name are
in its interval (`NestInv`), and the digit of a level is not 0 and belongs to
one name of the level, whatever the prefix (`DigitInv`), `GetIdStep` being the
lemma that `GetId` keeps all that. `Delivered` needs `UnitInv`: a multiple of the
unit can only wrap around to exactly 0. `NoLeak` needs the rest: if an id is in
the range of a logger, its part of the same length has the same id (`InRange`),
hence the same digit, hence the same name (`SameId`); a shorter name would have
the digit 0. The proof made the exceptions of `Delivered` and `Linked` precise:
both were false for files whose sinks share a key.

Only model-checked: liveness (`ImplementsChannel`'s fairness part,
`CallsAnswered`, `WaitersReturn`, `CallsReturn`, `CallEnds`), which is out of
the prover's reach, and `Recoverable` and `ReplacesAll` of the file handler. Both
compare the loop of `FindAndReplace` with `Reference`, which is recursive twice,
in the choice of the occurrences and in joining the pieces. That the loop
computes it is an induction over the line, and the library's induction theorems
cannot be instantiated here.

## 5. Not modelled

* The data race on `mRequests` and `mPendingRequests` when the API is called from
  several threads: `ServerList` interleaves such calls, but each access is a step.
* `SharedBuffer`: reference-counted memory and a static pool without a lock.
* The 64-bit conversions of `HostNetConversion`, whose behaviour hangs on one
  macro (`ENDIAN_LITTLE`, which no build file defines), and the layout of
  requests beyond extras and lengths.
* `ModuloDistri`, which cannot be constructed; `SetHashAlogrithm`, `Count`, `Items`.
* `FindFiles` and `Wildcard2Regex`, which only read directories; the variant of
  `FindAndReplace` for regular expressions, which differs in an external
  function; `LogCommon` (names of severities); `Singleton` (one `call_once`).
* In `MemcachedClient`: iterators of `mRequests` that a rehash invalidates. The
  contract of `boost::unordered_map` lets an insert do so; its nodes stay, and the
  model takes the iterator a lambda captured for valid as long as its entry exists.
  Also left out: two responses with one id, on two connections at once, sharing the
  buffer of one entry; the memory of a result that a pending read still writes to
  after the entry was erased (both need colliding ids).
* In `LogManager`: formats, destinations and filters of the files, and the filter
  of a sink being changed while another thread logs.
* In `MD5`: the arithmetic of `transform`, and pieces of 4 GB and more.
* Applications that keep a `ServerItem::Ptr` beyond an operation.

## 6. Plan

Done: the connection (first, as everything rests on it), its abstract
specification and its proofs; the client on top, with proofs of its safety
invariants; the result; the two usable algorithms; the list under several
threads; MD5; the log manager; all with proofs of every safety property; file
handling.

Next, in this order:

1. `Recoverable` and `ReplacesAll` of the file handler, from an invariant that
   relates the line in hand to `Reference`, each induction as a least
   counterexample.
2. An abstract specification of the client (every request is answered once,
   with its own answer or a network error) that holds between faults, from
   `AnsweredOnce` and `OwnWithoutReuse`.
3. The tables of the client with accesses of several threads that overlap.
