# TrivialRPC: a TLA+ verification project

TrivialRPC is a C++20 RPC framework: an epoll server with a thread pool, a
blocking client, a binary encoding, an asynchronous logger and a ZooKeeper
registry. This directory models its core logic in TLA+, checks it with TLC on
small instances and proves nearly all of its safety properties with TLAPS for all of
them. Paths below are
those of the repository, without the leading `src/`.

## 1. The system

| Component | Where | State | Operations |
|---|---|---|---|
| Thread pool | `include/base/ThreadPool.hpp`, `ThreadSafeQueue.hpp` | queue `data_`, flag `stop_`, wait set of `cond_`, the workers | `submit`/`push`, `waitAndPop`, `stop`, destructor |
| TCP server | `src/net/TcpServer.cpp`, `Client.cpp` | epoll registrations, `clients_idx_`, `client_write_mtx_`, a `Client` per connection (`is_connected_`, descriptor) | `run`, `accept_client`, `handle_et_event`, `receive_data`, `reset_oneshot`, `send_to_client`, `send_to_all_clients`, `remove_dead_clients`, `start`, `close`, destructor |
| RPC server | `src/rpc/RPCServer.cpp`, `RPCSession.cpp` | registered handlers; one `RPCSession` per answer | `publish_client_msg`, `handleMethodCall`, `proxy`, the response task |
| RPC client | `include/rpc/RPCClient.h`, `src/rpc/RPCClient.cpp` | `is_closed_`, a `Client` and a session | `connect_server`, `call`, destructor |
| Frames | `include/rpc/Protocol.h` | header (magic, version, type, sequence id, length), content | `encode`, `decode`, `encodeMeta`, `decodeMeta` |
| Byte array | `src/base/ByteArray.cpp` | list of blocks, `position_`, `size_`, `capacity_`, `cur_` | `write`, `read`, `setPosition`, `clear`, iovec views, file I/O |
| Encodings | `src/base/ByteArray.cpp`, `include/rpc/Serializer.h`, `include/base/Reflection.hpp` | none | varint, zigzag, fixed width, strings, containers, aggregates |
| Logger | `src/base/AsyncLogger.cpp`, `Logger.cpp`, `LogStream.cpp`, `Buffer.hpp` | two producer buffers, the full ones, two spare buffers of the worker, `running_state` | `append`, `append_log_file`, `run`, `terminate` |
| TCP client | `src/net/TcpClient.cpp` | socket, `is_connected_`, `is_closed_`, send buffer, receive thread, observers | `connect_server`, `send_msg`, `subscribe`, `recv_server`, `close`, destructor |
| Registry | `src/rpc/ZKClient.cpp`, `RPCServer.cpp`, `RPCClient.cpp` | ZooKeeper sessions, path nodes, ephemeral providers, the client's list and address | `start`, `create`, `registerService`, `get_children`, `get_data`, `update_ip_info` |
| Helpers | `src/net/common.cpp`, `include/base/traits.h`, `util.h` | none | stateless |

How they interact. `TcpServer::run` waits for events; for a new connection it
accepts one client, for a readable one it submits a *receive task* to the pool.
The receive task drains the socket (`Client::receive_data`), hands what it read to
`RPCServer::publish_client_msg`, which decodes a frame, calls the registered
method and submits a *response task*, and finally re-arms the one-shot
descriptor. The response task takes the descriptor's write mutex and writes the
frame through an `RPCSession`. A third thread, `remove_dead_clients`, wakes every
two seconds, closes the clients whose `is_connected_` is false and erases them
from the two maps. A plain `TcpServer` hands messages to observers instead, under
`subscribers_mtx`. An `RPCServer` announces itself as an ephemeral node in
ZooKeeper; an `RPCClient` lists these nodes once and takes the address of one.
`TcpClient` is a stand-alone client with a thread that receives. Everything logs
through the asynchronous logger.

What is hard here:

* descriptors are reused by the kernel while tasks still refer to them, and the
  maps are keyed by descriptor;
* edge-triggered, one-shot notification: an edge lost between draining and
  re-arming strands a connection for ever;
* the receive task refers to locals of the event loop;
* TCP cuts frames anywhere, and the server decodes what one drain has read;
* a blocking client without sequence numbers or timeouts;
* condition variables without and with predicates, stop and destruction;
* a server whose members go while tasks and the remover still use them, and whose
  descriptor is closed twice;
* partial sends whose rest waits for the next connection, and a receive thread
  that is joined, replaced or left joinable;
* sessions that are interrupted in the middle of a registration, callbacks that
  outlive what they refer to, addresses read from providers that are gone;
* block boundaries in the byte array, the extremes of the integer encodings.

What makes the parts correct: the pool loses no wakeup and no task; one thread
at a time parses a connection, no readable connection is forgotten, the index
follows the sockets, an answer stays on its connection; a call gets its own
answer or a failure and is executed at most once; the log file is a prefix of
what was logged; a byte array behaves as a flat array; what is encoded is decoded;
a server is destroyed without use of what is gone, and releases its sockets; a
client's bytes arrive in order on each connection; a service that runs is in the
registry and one that is gone is not.

## 2. The modules

Each operation of the code is an action; a critical section of a mutex is one
action, and code outside a mutex is cut wherever another thread can observe it.
Operators whose name ends in a variation of another (`NotifyOneNobody`,
`TakenFromStart`...) stand in front of the definition they vary: they are the
plausible mistakes against which the properties were tried, and no specification
uses them.

**TaskExecutor / ThreadPool.** `TaskExecutor` is the contract: tasks start in the
order of acceptance, at most once, and the pool is gone only when all are done.
`ThreadPool` has the queue, the flag, and per worker a program counter (`ready` =
about to evaluate the predicate with the mutex, `waiting`, `running`, `exited`).
`SubmitByOwner` and `SubmitByTask` are the two callers of `push`; `StopSetFlag`,
`StopNotifyAll` and `JoinWorkers` are the destructor, the notification being a
step of its own because `stop()` notifies without the mutex. `SpuriousWakeup` is
the standard's.

**TcpServer.** The kernel (descriptor table, epoll interest and ready list,
backlog) is modelled from how the code uses it and marked external. The pool
appears as `TaskExecutor` promises it, a FIFO queue served by idle workers.
`EpollWait` disarms the one-shot descriptors it reports; `AcceptClient` and
`InsertClient` are the halves of `accept_client` outside and inside `client_mtx`;
`LookupClient` and `SubmitReceive` are `handle_et_event`, with the unlocked
`operator[]` that makes a null entry; the worker's actions follow `receive_data`,
`publish_client_msg`, `reset_oneshot` and `RPCSession::write`, a response being
written in up to `Pieces` sends with a look at `is_connected_` before each; the
remover's follow one pass of `remove_dead_clients` under `client_mtx`, and
`AutoRemove` says whether `start` made one. `AcceptThrows` is `accept()`
failing, for want of a connection or of a descriptor: the exception leaves `run`.
`RemoverCloseThrows` is a failing `::close`: the exception of `Client::close` leaves
the remover's thread and ends the process.
`send_to_client`, `send_to_all_clients` and `printClients` (`CallMeetsNull`) may be
called by any thread, under `client_mtx` and without a write mutex.
Two kinds of undefined behaviour are nondeterministic choices: a task that
dereferences the captured locals reads its own values or the latest ones
(`SlotReads`), and a dereferenced null pointer ends the process (`crashed`).
The history variable `crossed` collects the connections whose events were mixed up
with another's: a task found another event's client or armed another's descriptor,
or the descriptor came back from `accept()` while an event or receive task of its
last connection was still under way, or while `clients_idx_` had a null entry for it.
What the code promises of a connection it promises to those that are not in it.
A message is a unit of data; its handling ends in one of `HandlerResults`.

**ServerLifecycle.** The same server seen by its owner: `start`, with a remover or
without, whose failure leaves the remover and perhaps a socket (`SocketLeft`); a
`Client::close` that throws in the remover and ends the process (`RemoverThrows`); `run` until it throws; `close` in
four steps (stop, join, clients, listening descriptor); the destructors, which for
an `RPCServer` run `close` twice; `DestroyMembers` and `DestroyPool` are the order in
which the members go. The pool is what `ThreadPoolProofs` says of it: its destructor
waits for every task. A worker's task uses the derived members, the base members or
the observers; `touched` records the use of a destroyed one, `stolen` the closing of
a descriptor that belongs to another part of the process by then. Connections have
no descriptors here, and epoll no events: that is the subject of `TcpServer`.

**RpcService / RpcExchange.** `RpcService` is the caller's view: one call at a
time, executed at most once, `RPC_SUCCESS` only if it was executed. `RpcExchange`
is a client, a TCP stream in both directions that is cut anywhere, and the
server's receive and response tasks. A frame is a sequence of units that know
their call and position, so that reading at a wrong boundary is visible. The
kinds of call are the outcomes of `proxy` and `handleMethodCall`: a value, wrong
arguments (`nomatch`), a result of another type than expected (`mistyped`), an
unregistered method (an empty content), a method that throws. `ConnectServerFails`
is every way `connect_server` returns a failure: before or after the new, unconnected
`Client` has taken the place of the old one, `is_closed_` keeping its value.
`dropped` is a history variable.

**FlatBuffer / ByteArray / ByteArrayLoop.** `FlatBuffer` is an array with a
position. `ByteArray` has the code's four numbers and the memory of the blocks;
block *i* is the number *i*, the null pointer is `Null`, and the history variable
`moved` holds the bytes last put in or taken out, so that the refinement compares
contents and not only positions. The copy loops are stated
in closed form (`Start`, `Span`, `NodeAfter`); `ByteArrayLoop` has the loops as
written, as functions of the number of rounds made, and shows that they agree in
every reachable state. `Receive` and `Send` are the iovec views with the
`setPosition` that `RPCSession` does after them. In the code storage and encodings
(`Codec`, below) are one class; `MCByteArray` has both, each array being used in one
of the two ways.

**Zigzag / Codec.** `Zigzag` has the integers and the map of signed to unsigned ones;
`Codec` the byte formats on a machine of `Width` bits whose bytes carry `Group`
bits: everything is written (`WriteItem`, Serializer's `write`), `reset`, everything is
read (`ReadItem`, its `read`). `Pow2` is 2 to the power *n* as a recursive function, so that
a proof can unfold it. The characters of a
string, and what a type's members are called, do not matter; a float is its bits.
A list has elements of one basic type, `ElementType`. An enum may be of a wider type
than `int32_t` and is cut to it (`Truncated`).
An aggregate is a sequence of basic items that `VisitMembers` visits in the order of
declaration, first to write and then to read (`VisitToWrite`, `VisitToRead`).

**LogSink / AsyncLogger.** `LogSink`: the file is a growing prefix of the log.
`AsyncLogger`: a buffer is the sequence of messages in it, a `BufferPtr` a buffer or
`Null`. `wait_for` has no predicate, so a notification, a timeout and a spurious
wakeup are the same step. A message is the length of its pieces, because `LogStream`
drops a piece that does not fit, and a number already when fewer than
`K_MAXNUMERIC_SIZE` bytes are free. `LogFormat` is the conversion of integers
(towards zero, digits from a table with negative indices) and pointers to text.

**TcpClient.** The application's thread calls in any order, from one `connect_server`
to the destructor; the receive thread has the places `loop` (about to look at
`is_connected_`), `select`, `recv` and `returned`, the last being a thread that has
ended and is still joinable. Sockets are numbered by the call that made them, the
bytes by the order in which `send_msg` accepted them, so that a gap or a repetition
shows. `terminated` is `std::terminate`: a joinable thread destroyed, or an exception
out of the receive thread when `select` fails.

**ServiceRegistry.** Servers and clients with a ZooKeeper session each. `start()` is
cut at every point where `global_watcher`, on the client library's thread, can come
in between: before the context is set it dereferences null, after `start()` has
returned it posts a semaphore whose stack slot is gone (no harm, or a crash).
`registerService` is a check and a creation per component of the path, with
`create`'s second check. Whether ZooKeeper's client accepts a path that ends in `/`
depends on its version: `SlashResults` has both. An error of `zoo_exists` counts as
existing, as in the code. A session is interrupted, comes back or expires;
`zoo_create` may take effect and still fail. A client looks once, in its constructor:
the list and the address are never refreshed,
and `get_data`'s buffer has no terminator, so the port may come out as another.

## 3. The runs

| Run | Question | Bounds |
|---|---|---|
| `pool` | no lost wakeup or task, FIFO executor, completion, destruction | 3 workers, 3 tasks: two workers asleep while the third runs a task that submits during the destructor |
| `server_dispatch` | one thread per connection and no stranded connection except crossed ones, index follows sockets, a live response has its write mutex, only answers to closed peers stray | 2 connections, 2 descriptors, 2 workers, 1 unit, 2 pieces, every outcome of captures, handlers, sends and closes (971 000 states up to symmetry) |
| `server_reuse` | removal, input is read, an edge serves the longest waiting connection | 2 connections in turn on 1 descriptor, 1 worker, 2 units, every outcome of handlers, sends and closes, captures intact (294 000 states; the properties hold with stale ones too, 421 000 states, and with two workers and 1 unit) |
| `server_capture` | *violated*: one thread per connection, when the captured locals are stale | 2 descriptors, 2 workers |
| `server_answers` | *violated*: answers stay on their connection | 1 descriptor, 2 workers |
| `server_lifecycle` | destruction uses nothing destroyed, sockets are released, only the second `close` hits a foreign descriptor, the destructor returns | both classes, 2 connections, 2 workers, 2 receive tasks and their answers, with a remover and without (144 000 states) |
| `tcp_client` | order of the bytes, losses reported once and in the end, close returns, no joinable thread destroyed | 2 calls of `connect_server`, a buffer of 3 bytes, messages of 0, 1, 2 and 4 bytes, 4 bytes in all: the rest of one message fits with the next or does not (979 000 states) |
| `registry` | registration fails only in a race, serving is advertised, gone is not, a client's address is one that was served, `start` returns, dead providers vanish | 2 servers, 1 client, a path of 2 components of which 0 to 2 exist, 1 interrupted session (341 000 states) |
| `rpc` | at most once, right answer, quiet connection, whole requests return | 2 calls of 5 kinds, headers and contents of 2 units, any cut, failures |
| `rpc_cut` | *violated*: every call returns | a request in two pieces, no failure |
| `log` | asserts, nothing lost, no overflow, exact numbers, prefix, everything is written, terminate returns | buffers of 6 bytes, 5 messages of 2 to 5 (messages may fill a buffer exactly; both spare buffers are used up); all integers and pointers of 5 bits, the longest text of which fills the local buffer (`NumbersAreExact` is about no state: TLC evaluates it as an assumption) |
| `bytearray` | storage: consistency, flat array, loops, files; encodings: round trip, size | blocks of 2 bytes, up to 3 blocks, two byte values, operations of up to 3 bytes (begin, cross and end a block; two new blocks at once); 5-bit integers in groups of 2 (the last byte has one bit, as for 64 bits), all values, enums twice as wide; 2 items, aggregates of up to 2 members with the extreme values (958 000 states) |

Several invariants are conjunctions of named parts, each with its own comment in the
module: `ResponsesAreSafe`, `ExchangeInStep`,
`BuffersHoldTheRest`, `LoopsAreExact`, `StreamIsSound`, `SocketsAreReleased`,
`StreamIntact`, `ThreadFollowsConnection`, `RegistryIsTrue`. The type invariant of a
module is a part of one of them, or is proved (section 4).

Fairness. Each thread of the code is weakly fair: the workers, the event loop, the
remover (a 2 s sleep), the logger's worker (`wait_for` times out), the joins, and in
`RpcExchange` the network. In `TcpClient` the receive thread is fair (its `select`
ends after three seconds) and a `close` that has begun goes on; the application and
the network are not. In `ServerLifecycle` the destructor, the remover and the workers
are fair. In `ServiceRegistry` the steps of `start`, the first connection of a session
(ZooKeeper is reachable in the end) and the expiry of a session nobody keeps alive.
Strong fairness is assumed only where a thread waits for
a mutex that is released again and again: the event loop for `client_mtx`, a
response task for its write mutex. Peers, calls, failures, termination and
spurious wakeups are never forced. `CHECK_DEADLOCK FALSE` stands only where the
program may stop: a byte array that nobody uses any more, and the
call that waits for ever in `rpc_cut`.

### What the violated runs show

* `server_capture`: the lambda submitted by `handle_et_event`
  (`src/net/TcpServer.cpp:333`) captures two locals by reference. When the loop has
  gone on to the next event, the worker reads that event's client, and two threads
  parse it.
* `server_answers`: `Client::send` looks at `is_connected_` and then writes to a number
  (`Client.cpp:129`). If another worker, the remover and `accept` come in between, the
  answer goes to another peer.
* `rpc_cut`: a request cut by TCP is dropped; nothing ever produces `RPC_TIMEOUT`.

### Where the server's properties stop holding

`server_dispatch` has every outcome the code can meet; what the properties except is
what the code does not give.

| Property | Fails when |
|---|---|
| `OneThreadPerConnection` | captured locals are stale (`server_capture`), or a connection goes under its receive task and the descriptor is reused, also with intact captures; `OneThreadUnlessCrossed` is the rest |
| `NoStrandedConnection`, `InputIsRead` | the connection is crossed: a task with stale captures arms the latest descriptor and leaves its own disarmed for ever; or its handler threw: the receive task ends before `reset_oneshot` |
| `AnswersStayOnTheirConnection` | two workers: `is_connected` is checked, the remover closes, `accept` reuses, `sendmsg` writes (`server_answers`); `StrayAnswersAreForTheDead` is the rest |
| `IndexFollowsSockets` | strengthened to no null entries: an event of a connection that was removed after `epoll_wait` makes one, and a later, crossed connection on that descriptor finds it in its place |
| `LiveSenderHoldsWriteMutex` | the connection is dead: the remover erases its mutex while a response task holds it or is about to |
| `EdgeServesHead` | strengthened to every pending connection: of two that share an edge only the first is accepted |
| `DeadClientsAreRemoved` | the server was started without a remover, a `::close` failed, or `run` ended |
| `QuietDestructionIsSafe` | tasks are left when the destructor runs |
| `FirstCloseIsOwn` | the second `close()` of an `RPCServer` |

### Known divergences without a run of their own

* `ByteArray::read(buf, size, position)` (`ByteArray.cpp:149`) starts in block `cur_`
  whatever `position` is. Its callers, `toString` and `toHexString`, pass the current
  position, for which it is right; `ReadAt` is modelled as written.
* `writeToFile` (`ByteArray.cpp:430`) subtracts the offset in the block also from a
  piece that ends inside its block, where `ByteArray.h:326` says that the data is
  written to the file. As an invariant `FileHoldsTheRest` is violated when the last byte
  of a block is all that is left; `FileHoldsWholeBlocks`, a part of `LoopsAreExact`, states exactly
  when it holds.
* A read of no bytes (`readStringVint` of an empty string) at the end of the last
  block loads `cur_->size_` through a null pointer (`ByteArray.cpp:120`), where
  `ByteArray.h:298` makes no exception for a size of 0: the model sets `crashed`.
  `OnlyEmptyReadFaults` says that nothing else does.
* `reset_oneshot` (`TcpServer.cpp:336`) arms whatever is open on the descriptor. When
  a response fails while a receive task of its connection runs, the remover closes
  the descriptor and `accept` reuses it, the old task arms the new connection while
  its own task reads it, and the next data starts a second: `OneThreadPerConnection`
  fails without any stale capture (`SlotReads = {"own"}`, one descriptor).
* A call on a connection that has been lost returns `RPC_FAIL`; `RPC_CLOSED` is
  returned only before `connect_server` (`RPCClient.h:73`).
* API sends of a `TcpServer` take no write mutex and can land between two pieces of a
  response; `send_to_all_clients` stops at the first failure; `send_to_client` takes
  the first client with that address, which several may share.
* A handler of an observer that calls `subscribe`, or one of `TcpClient` that calls
  `close` or `subscribe`, waits for a mutex or thread of its own.
* `TcpClient.h:59` says that the buffered bytes are sent at the next connection; a
  `connect_server` over a lost connection without `close` ends the process
  (`CloseBeforeConnectIsSafe` is about the other case). A `connect_server` that
  fails leaks its descriptor, and a send that fails half way keeps the bytes that
  were sent: they appear again on the next connection, in order.
* An interrupted `select` in the receive thread is a failure and ends the process.
* `registerService` ends the process when another server makes the same component
  at the same time, and a server can end up serving without being advertised after
  an error of `zoo_exists`, or after its session expired: it does not register again.
* `RPCClient.h:131` says that each entry of `service_info` is `ip:port`; the entries
  are names of nodes, whose data is the address.
* The cached timestamp of `Logger.cpp:53-64` is shared by all threads without a lock.

## 4. The proofs

All theorems hold for every value of the constants that satisfies the named
assumptions of the modules; TLC evaluates those assumptions in every run. Each
inductive invariant is a conjunction of named parts, checked with TLC before it was
proved; a proof has one lemma or step per action, and under it one step per part
the action disturbs. Every invariant, action property and refinement a
passing run checks has a theorem, except those named at the end of this section.

| Module | For every | Theorem (property) |
|---|---|---|
| `ThreadPoolProofs` | non-empty set of workers, tasks | `TypeCorrect`, `WakeupSafety` (`NoLostWakeup`), `StopSafety` (`NobodySleepsThroughStop`), `DestructionSafety` (`DestroyedMeansDone`), `ExecutorRefinement` (`ImplementsExecutor`) |
| `TcpServerProofs` | connections, finite set of descriptors, workers, units, pieces, outcomes of captures, handlers, sends and closes | `ResponseSafety` (`ResponsesAreSafe`), `OneShotSafety` (`OneThreadUnlessCrossed`), `EdgeSafety` (`NoStrandedConnection`), `IndexSafety` (`IndexFollowsSockets`) |
| `ServerLifecycleProofs` | connections, workers, tasks | `DestructionSafety` (`QuietDestructionIsSafe`), `ReleaseSafety` (`SocketsAreReleased`) |
| `RpcExchangeProofs` | number of calls, lengths of header and content | `ExchangeSafety` (`ExchangeInStep`), `ServiceRefinement` (`ImplementsService`) |
| `TcpClientProofs` | buffer and message sizes, number of connections | `StreamSafety` (`StreamIntact`), `ThreadSafety` (`ThreadFollowsConnection`), `LossSafety` (`LossReportedOnce`) |
| `ServiceRegistryProofs` | servers, clients, length of path, interruptions | `RegistrySafety` (`RegistryIsTrue`), `RegistrationSafety` (`ExitsOnlyInARace`), `AddressSafety` (`AddressWasServed`) |
| `ByteArrayProofs` | block size, byte values; width of integers, groups, numbers and prefixes, lists and structs | `TypeCorrect`, `Consistency` (`Consistent`), `FaultSafety` (`OnlyEmptyReadFaults`), `FlatRefinement` (`ImplementsFlat`), `LoopSafety` (`LoopsAreExact`), `ZigzagRoundTrip`, `SerializerRoundTrip` (`RoundTrip`), `StreamStaysSound` (`StreamIsSound`) |
| `AsyncLoggerProofs` | buffer size, message lengths, number of messages | `TypeCorrect`, `AssertSafety` (`AssertsHold`), `LogSafety` (`BuffersHoldTheRest`), `SinkRefinement` (`ImplementsSink`), `NumbersRead` (`NumbersAreExact`, for every width of the integers) |

**ThreadPoolProofs.** `NoLostWakeup` is not inductive: a worker that takes a task leaves
others asleep with tasks queued only if somebody is awake, and a worker may exit
only after `stop()`. `StopInv` ties the flag, the destructor and the exits together;
`WorkInv` says where every task is (queued, in one worker, completed), from which a
destroyed pool has done everything. The refinement maps a pop to the start of the
oldest task and everything else of the queue to a stutter.

**TcpServerProofs.** No theorem has a hypothesis beside the assumptions on the
constants: stale captures, failing sends and closes, and any number of workers are
in. Three layers, each with those before it.

* `BaseInv`: open sockets have different descriptors; tasks and workers know only
  clients that were inserted; an entry of `clients_idx_` is the client open on its
  descriptor, unless the remover is erasing just that entry, and then what `accept()`
  got on that descriptor waits for `client_mtx`; a response to a client that is up
  has the write mutex of its descriptor, which the remover takes only from clients
  that are not.
* `WireInv`: bytes that are on a connection not their own belong to a client whose
  socket is closed and had the same descriptor. `SocketsLast` is why this stays so: a
  connection's descriptor never changes and a closed one is not opened again.
* `DispatchInv` is the argument for `EPOLLONESHOT`: a connection that is not crossed
  has one token, which is armed in the kernel (`ArmedInv`), in the event batch
  (`EventsInv`, `EventInv`), in the queue or in one worker (`OneTaskInv`, `PairInv`,
  `CurInv`), and has it as long as it lives (`LiveInv`); an armed descriptor with
  input is ready (`ReadyInv`); and the index follows (`FollowInv`). The steps that can
  double or lose a token put the connection they hurt into `crossed`; the proof is
  that no others do.

The assumptions of the module are a finite set of descriptors (`epoll_wait` reports
the ready ones as a list) and that no worker is called `absent` or `free`, which are
values of a write mutex beside its owner.

**ServerLifecycleProofs.** What the properties say of the last step is decided in
earlier ones: `OrderInv` (how often `close` has returned follows from where the owner
is), `QuietInv` (the remover is joined before the connections go; a task that
outlives a member was there when it went), `ListenInv` (until the first `close` has
come to it, `sock_fd_` is the server's own), `ConnInv` (unless a `Client::close`
threw, the map has exactly the sockets that are not closed).

**RpcExchangeProofs.** All requests carry the same sequence id, so that an answer
belongs to its request only by where the pieces can be. `RequestInv`: at most one
frame's units are on the way to the server, those of a call that was not executed,
so that a drain reads at most one request. `ResponseInv`: as long as the client
considers itself connected, what it has read, what is on its way and what is still
to be written are consecutive pieces of one frame, the answer to the call that
waits, and its request is used up. `CallInv` (one call at a time) and `FreshInv`
(nothing anywhere before `connect_server`) complete it. The refinement follows:
a step that executes a method finds a request of a call not yet executed.

**TcpClientProofs.** That a connection carries an interval of the accepted bytes needs
to know that `buffer_` holds the last accepted ones (`BufferInv`) and that an
unbroken connection has everything but what `send_msg` has still to send
(`StreamInv`). That a loss is reported once needs to know which connections there
were (`FreshInv`, `ConnInv`) and that a receive thread belongs to a client that is
not closed (`ThreadInv`).

**ServiceRegistryProofs.** `SessionInv`: what the state of a session follows from,
unless it was interrupted; `PathInv`: what a server's checks of the path have
established, and who made a component that appeared after its check; `PastInv`: who
was ever in the list has registered and does not register again. `AddressInv`: who is
in the registry has come to the end of `registerService`, or was interrupted
(`ProvidersKnown`), and so has whose address a client keeps, because that a server has
served stays true when it goes (`KnownStable`, `CrashedStable`).

**ByteArrayProofs.** `Consistent` is inductive with `TypeOK`; the lemmas about division
by the block size say that growing, copying and seeking, which compute the current
block in different ways, agree. For the refinement, a copy that starts at
`position_` moves the same bytes as in the flat array (`CopyOutIsRead`,
`CopyInIsWrite`), and growth leaves the old ones alone. `LoopSafety` is an
induction over the rounds of a loop (`SetInduction`): after *k* of them the copy goes on behind what it has copied,
in block *k* or later, is done, or has met the end of the last block (`CopyRuns`,
`CopyDone`, `CopyFails`), and *Nodes* + 1 rounds are enough. For `writeToFile` there
are two arguments: with at least a block, or from the start of one, every piece is
whole (`FileRuns`, `FileDone`); otherwise the first is too short and the loop never
gets to its end (`FileStuck`).

The second half of the module is about `Codec`, bottom up. `Recursion`: a function
defined by recursion exists if its value depends only on arguments of a smaller
measure; `Varint`, the loops of the readers and of `VisitMembers`, and `Pow2` are instances.
From `Pow2Sum` and `QuotientTwice` (dividing by *bc* is dividing by *b* and then by *c*)
follow the two formats: the groups from the *k*-th on give the number without its
lowest *k* groups (`VarintRest`), and the first *k* bytes of a fixed-width number are
its quotient (`FixedRead`), so that reading gives the number back, cut to the width.
`ZigzagRoundTrip` covers the smallest integer, whose negation overflows. Every
reader has two lemmas: what it returns where its own format was written
(`VarintRead`, `DecodeBasicRead`, `VisitRead`, `DecodeRead`), and that it returns a value of
its type and a place inside the stream, or throws, on any bytes (`VarintTyped`,
`DecodeBasicTyped`, `VisitTyped`, `DecodeTyped`); the second is needed because behind a string
that was too long for its prefix, the stream is misread. An enum outside of
`int32_t` is read as another one. `RoundTrip` is not
inductive: `StreamInv` adds where each item lies (`Laid`) and that, up to the
first item that does not fit, the reader is behind as many items as it has
(`Matches`). The only thing assumed of the items is that the lengths of strings and
lists are unsigned integers.

**AsyncLoggerProofs.** The asserts are a matter of counting buffers, and `PtrInv` does
it: the producers lack their spare buffer only while a full one waits in
`dirty_buffer_`; the worker has one buffer to recycle for each it gave away. That
nothing is lost or reordered needs `SpareInv` as well: spare buffers are empty, and
outside of its write phase the worker holds nothing. `size` and `Flatten` are
recursive functions on the positions of a sequence: `SumExists` and `JoinExists`
prove that there is such a function, `SumsAgree` and `JoinsAgree` that there is only
one, by induction with a set in place of a predicate (`SetInduction`, from the
well-foundedness of the naturals), and `SizeAppend`, `FlattenAppend` and
`FlattenFirst` say what they compute when something is added or written.
`NumbersRead` is about the two loops of `LogFormat`, decimal over the integers and
hexadecimal over the naturals. Both are instances of `Round`: they exist by
`Recursion`, because the absolute value shrinks with each division (`DecimalRound`
says that rounding towards zero and the table with negative indices make a round
on a negative number that of its absolute value), and by induction on it what
they produce is `Spelled`: read backwards it has the value of the number and its
last digit is not zero. It assumes (`NumericSizeAssumption`) that the local buffer
has room: every number is below 10 to the `K_MAXNUMERIC_SIZE - 3`, which holds by far
for 64 bits and 32 characters. That the assumption speaks of decimal
digits for pointers too is only for simplicity; they have fewer hexadecimal ones.

Only model-checked: liveness, which needs fairness and is beyond the prover.

## 5. Not modelled

* `get_local_ip` (it asks the operating system, and may return an empty string),
  `traits.h` and the rest of `util.h` (compile time or stateless), the examples and
  the tests. Resolving a host name is one of the ways `connect_server` fails.
* A second successful `connect_server` on an `RPCClient` that is open: the old
  descriptor is lost and a second connection made, while `RpcExchange` has one. An
  interrupted `sem_wait` in `ZKClient::start`, which returns before the session is
  there.
* Containers inside of aggregates, or of containers: elements and members are basic
  in `Codec`. Types without a branch in `Serializer::write` (`long long` where
  `int64_t` is `long`, for instance), for which nothing is written and nothing read.
* Subscribing to a `TcpServer` while it runs, and handlers that block.
* Data races on the hash tables themselves: the unlocked `operator[]` of
  `handle_et_event` is modelled by its logical effect.
* `SIGPIPE`, which is not ignored and ends the process on a send to a reset
  connection; `ByteArray`'s little-endian mode and `getReadBuffers(position)`, which
  nothing uses; floating-point numbers in log lines, which `snprintf` formats; `append`
  after the logger was joined, and what is appended after the worker's last swap,
  which is not written.

## 6. Plan

1. (done) ThreadPool, TcpServer, RpcExchange, ByteArray, Codec, AsyncLogger with their
   runs and the theorems above.
2. (done) The server's start, shutdown and API (`ServerLifecycle`, `TcpServer`),
   `TcpClient`, `ServiceRegistry`, aggregates in `Codec`, numbers in the log.
3. (done) Proofs of the safety invariants of all components, and of the
   four refinements.
4. (done) A proof of `NumbersAreExact`.
5. (done) The server's theorems without hypotheses on captures, sends and workers;
   a run of its own for the answer that strays.
