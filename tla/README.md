# Laptop factory (PA2): verification project

PA2 is a small replicated service in C++. Clients order laptops from any of a
few servers; the server that gets an order makes itself the primary, sends the
order to its peers, applies it, and answers. A server keeps, per customer, the
number of the latest order, and a log of all orders. This directory models the
program in TLA+, checks it with TLC on small instances and proves the central
properties with TLAPS. There is no documentation in the repository beyond its
comments; everything below is read from the code.

## 1. Inventory

| part | code | state | operations |
|---|---|---|---|
| Laptop factory | `ServerThread.cpp/.h` | `primary_id`, `committed_index`, `last_index` (plain ints), `peer_list`, `stubs`, `erq` | `ProductionAdminThread` (1 thread), `EngineerThread` (1 per connection), `CreateRegularLaptop`, `GetCustomerRecord`, `startConnection`, `startReplication` |
| Server storage | `ServerStorage.cpp/.h` | `customer_record` (map), `state_machine_log` (vector) | `place_order`, `read_record`, `getIdx`, `get_log` (the last two without the lock) |
| Reader/writer lock | `RWLock.h` | `readMtx`, `writeMtx`, `readCnt` | `readLock`, `readUnlock`, `writeLock`, `writeUnlock` |
| Admin queue | `ServerThread.h:43-45`, `ServerThread.cpp:16-30, 93-101, 116` | `erq`, `erq_lock`, `erq_cv`, a promise per request | push and wait; wait, pop and answer |
| Stubs | `ClientStub.*`, `ServerStub.*` | address and socket | one send and/or receive per message kind |
| Sockets | `Socket.*`, `ClientSocket.*`, `ServerSocket.*` | `fd_`, `is_initialized_`, `valid` | `Init`, `Accept`, `Send`, `Recv`, `Close` |
| Messages | `Messages.*` | the fields of an order, a laptop, a record, a replication request | `Marshal`, `Unmarshal`, `Size`, `IsValid` |
| Server start-up | `ServerMain.cpp` | arguments | peer list, admin thread, accept loop |
| Client | `ClientMain.cpp`, `ClientThread.*` | customer id, next order number | order loop (type 1), one read (2), reads of all customers (3) |
| Client timer | `ClientTimer.*` | sum, min, max, count | `Start`, `EndAndMerge`, `Merge`, `PrintStats` |
| Build | `Makefile`, `CMakeLists.txt`, `cmake-build-debug/`, `.idea/` | none | none |

How they interact:

1. A client thread connects, sends an identification (1) and then one order at a
   time; it waits for each laptop.
2. The engineer thread of that connection pushes an `AdminRequest` onto `erq`
   and waits for its future.
3. The admin thread pops the request. If its server is not the primary it
   becomes it (`startConnection`): a new stub, connection and identification (2)
   for every peer. It sends the order over each stub and waits for each answer
   (`startReplication`), applies the order to its own storage, and sets the
   promise.
4. At a peer, the engineer thread of the stub's connection notes who the
   primary is, copies the two indices, applies the order and answers.

What is hard about it: the three ints of step 3 and 4 are shared without a lock
between the admin thread and all engineer threads; two servers can be in step 3
at the same time and each be a peer of the other; any process, server or client, can
die between any two steps, a server's memory is then gone, and a client's order stays
queued; calls of `socket` and `connect` fail at a peer that runs; stubs pile up with
every takeover; a failed stub reconnects into a state from which it never recovers;
two client processes use the same customer ids.

What makes each part correct:

- Factory: an acknowledged order is on every server that the primary's stubs reached and
  that has not lost its memory (`AckedDurable`); while nothing fails, no server's record is
  behind or ahead of what the customer was told (`RecordFollowsAcks`); only the dead take a
  log back (`OnlyTheDeadOverwriteNewer`); primaries do not block each other (`OrderAnswered`).
- Storage and lock: no read during a write, and no two writes
  (`ReadersExcludeWriters`, with a counter that stays right: `LockInv`), no deadlock (`CallsComplete`).
- Admin queue: FIFO, each order taken once, no lost wake-up.
- The servers as a whole, while nothing fails: one replicated record per customer
  (`ImplementsOrderService`).
- Reads: while nothing fails, no older than what the customer had been told
  (`ReadsRegular`); and at a server that an acknowledged order reached, never ignorant of
  its customer (`AckedNeverUnknown`).
- Sockets and stubs: whole messages or failure (`ImplementsWholeMessages`), every call
  returns (`CallsReturn`), a descriptor belongs to one socket (`DescriptorsOwned`);
  an engineer thread acts only on what its caller sent, in the role it announced
  (`ServedAsMeant`).
- Messages: `Unmarshal(Marshal(x)) = x` between any two machines (`RoundTrip`), and
  `Size` fits every buffer used.
- Client: each order answered by the laptop with its own number, a read by the
  record of the customer asked for (`AnswerIsForRequest`); the program ends (`ClientEnds`).
- Timer: merging per-thread timers gives the statistics of all operations
  (`StatsOfAllOperations`).

## 2. Modules

| module | models | state and actions |
|---|---|---|
| `LaptopFactory` | `ServerThread.cpp` with the parts of the storage, stubs, sockets, start-up and ordering clients it depends on | below |
| `LaptopFactoryInv` | nothing new: the inductive invariant | `ClientInv`, `StubInv`, `RequestInv`, `CoverInv`, `DurableInv` |
| `LaptopFactoryProofs` | the theorems about `LaptopFactory` | |
| `MCFactory` | instances for TLC | peer lists, customer ids, symmetry, bounds |
| `ReplicationProofs` | the theorems about `LaptopFactory` as its clients see it, and about `LaptopReads` | |
| `OrderService` | what the servers promise while nothing fails: one replicated record | a record per server and customer, the order on its way, the last one told |
| `LaptopReads` | `LaptopFactory` with the clients of type 2 and 3 and `GetCustomerRecord` | below |
| `MCReads` | instances for TLC | |
| `AdminQueue` | `erq`, `erq_lock`, `erq_cv` and the promises (`ServerThread.cpp:10-32, 92-123`) | below |
| `OrderQueue` | what the admin queue promises: a FIFO with one answer per order | `queue`, `serving`, a state per engineer |
| `AdminQueueProofs` | the theorems about `AdminQueue` | |
| `ServerStorage` | `ServerStorage.cpp/.h`, over an instance of `RWLock` | below |
| `AtomicStorage` | what the storage promises: each call happens in one moment | `log`, `call` |
| `ServerStorageProofs` | the theorems about `ServerStorage` | |
| `RWLock` | `RWLock.h` | `readMtx`, `writeMtx`, `readCnt`, and a phase per thread |
| `RWLockProofs` | the theorems about `RWLock` | |
| `Messages` | `Messages.h`, `Messages.cpp`: objects and their bytes | operators only |
| `Connection` | one connection: `Socket.cpp`, `ClientStub.cpp`, `ServerStub.cpp`, the loops around them | below |
| `WholeMessages` | what connected sockets promise: whole messages in order, until an end | `flight`, `last`, `over` |
| `ConnectionProofs` | the theorems about `Messages` and `Connection` | |
| `MCConnection` | instance for TLC | machines of any byte order |
| `ServerProcess` | `ServerMain.cpp` and the descriptors of a server's sockets | below |
| `MCProcess` | instance for TLC | symmetry |
| `ServerProcessProofs` | the theorems about `ServerProcess` | |
| `ClientProcess` | `ClientMain.cpp`, the loop of `ClientThread.cpp`, `ClientTimer.cpp` | below |
| `ClientProcessProofs` | the theorems about `ClientProcess` | |

Definitions whose name ends in `_Something` right before a definition of the
same stem are slips of that definition a programmer might make; no specification
uses them. They document what each property would catch.

### LaptopFactory

Per server: `up`, `primary_id`, `committed_index`, `last_index`, `log` and
`customer_record` (the storage), `inbox` (orders on their way to it), `erq`, `stubs`. Per admin thread: `apc`, which
statement comes next, and its locals `cur` (the order), `bump` (the loaded
`committed_index`), `msg` (the request built), `it` (loop position), `todo`
(requests of a replay). A connection `conn[k]` holds its two ends, what is in
flight, and, in `eng`, what the engineer thread at its far end does next. Per
client: server, state, order number and how many times it has been run. `IdOf` gives
each client its customer id. History, which no action reads: `acked` (orders that were
answered, by whom, and which servers the stubs of that server reached), `abandoned` (what a
client was at when it died) and `crashes`.

| code | actions |
|---|---|
| `ClientThread.cpp:9-61`, `ClientStub::Order` | `StartSession`, then per order `SendOrder` |
| `CreateRegularLaptop` 10-32, `ServerThread.cpp:70-79` | `CreateRegularLaptop`, `SendLaptop` |
| `ProductionAdminThread` 95-108 | `AdminDequeue` |
| `startConnection` 126-137 | `ReadCommitted`, `ClaimPrimary`, per peer `ConnectPeer`, `IdentifyPeer` |
| 109-112 | `ReadIndex`, `BuildRequest` |
| `startReplication` 141-160 | per stub `ReplicateTo`, then `ReplicationAcked` or `ReplicationFailed` |
| 114-116 | `AdminPlaceOrder`, `CommitOrder` |
| `EngineerThread` 48-58 | `ReceiveStatusInfo`, `StatusLost`, `ReceiveReplicationRequest`, `PeerHangup` |
| `EngineerThread` 59-67 | `StoreCommittedIndex`, `StoreLastIndex`, `EngineerPlaceOrder`, `SendReplicationResult` |
| process death, restart | `Crash`, `BrokenPipe`, `Restart`; of a client `ClientGone`, `StartSession` |

Choices a reader should know:

- *Grain.* One action per access to memory that another thread uses without a
  lock. `place_order` is one step because `ServerStorage` implements
  `AtomicStorage`, and `erq` is an atomic FIFO because `AdminQueue` implements `OrderQueue`.
- *Data races.* `getIdx` reads the vector's size without the lock. When an engineer
  thread may be in `push_back` it can also return `TornIdx`, a number unrelated to the log.
  Single ints are assumed to be read and written whole, as the build's targets do.
- *Crashes.* A process dies at any step; its memory is gone, its connections end,
  what it had sent can still be read. `Restart` begins it again with the same id. A
  failure to bind is a server that is not yet up.
- *Failing calls.* `ClientSocket::Init` has three failures, and they differ. A `connect` to
  a peer that is down clears `valid`. A `connect` that fails although the peer runs does the
  same (the backlog, the route, a limit of either machine). A failed `socket()` returns
  before and leaves `valid` set, so `startConnection` sends the identification on
  descriptor -1, which then clears it. After each of them the peer is skipped, and in the last two
  it runs and has not crashed. The servers in `Flaky` may meet the last two at any call.
  They happen, for one, when descriptors run out (`ServerProcess`).
- *Clients.* A client in `Mortal` may die at any step, or lose its connection: then its loop
  fails its remaining orders, which comes to the same. The order it has sent stays in the
  `inbox` or `erq` of the server, which works it off and answers nobody. It may be
  run again (`MaxSessions`), at any server, before that is done. Clients of several processes have the
  same ids, since `ClientMain` counts from 0: `IdOf` need not be injective, and
  `customer_record` goes by the id.
- *Assumed of the network.* A connection between two servers lives as long as both processes, and
  a peer that has accepted answers as long as it runs. So a break of such a connection, a stopped or
  silent peer, and a `setsockopt` that fails as a peer accepts (which makes it silent, see
  `Connection`) are not in this module: the first would look like a failed `connect`, the others
  block the primary for good.
- *SIGPIPE.* `send` on a connection that the far end has reset raises SIGPIPE, which
  nothing handles. The first send after a peer's death succeeds locally and provokes the
  reset, the second one kills the sender. Only one place can do two sends in a row
  without a receive in between: identification and then the request. `BrokenPipe` is
  that. It is separate from `Crash` and not bounded by `MaxCrashes`.
- *Status.* If the connection ends before the identification, `ReceiveStatusInfo` returns
  an uninitialized int: `StatusLost` has the three outcomes `EngineerThread` makes of it.
- *Peer lists.* Ids are unique and no server lists itself (`FactoryAssumption`). The peer
  graph need not be complete or symmetric in the proofs; in the runs it is complete.
- *Order numbers.* Every run of a client counts from 0, so the log can hold equal
  entries for different orders. The auxiliary fields `cust` (the client, not only its id) and
  `sess` tell them apart for the properties. `Outstanding` uses them where the code has a
  promise that belongs to one engineer thread.

### RWLock

A thread calls `readLock` or `writeLock`, is in its section, and unlocks. Each
method is split at its `lock` calls. `std::mutex::unlock` by a thread that does
not own it is undefined; the default pthread mutex just becomes free, and the
model takes that outcome.

### AdminQueue

`epc[e]` is the next statement of an engineer thread in `CreateRegularLaptop`:
`lock`, `push`, `notify`, `unlock` (25-28) and `get` (30). `apc` is that of the admin
thread: `lock` and `test` (95-96), `asleep` and `woken` inside `erq_cv.wait` (97), `pop`
and `unlock` (99-101), `work` (103-116). Going to sleep releases the mutex in the
same step, which is what a condition variable is for; waking has to lock it again and
goes back to the predicate. `notify_one` does nothing when the admin thread is not
asleep. An engineer thread waits for its future, so it has one request at a time
and the request is named by it. The branch for other request types (117-121) is
left out: nothing creates such a request.

### ServerStorage

`call[t]` is a thread's call and its next statement inside the lock; the lock's own
variables and actions come from `RWLock`. Reading the map is two steps (`count`, then the
value), changing it is one, between the change of the log and the unlock.

`getIdx` and `get_log` do not lock, so for them the vector is what the library keeps: a
start pointer and an end pointer, stored one after the other when `push_back` moves the
entries to a bigger block. The reader loads the two in either order, at any two
moments. `Torn` stands for any size computed from pointers into different blocks, and
for a copy out of a block that has been freed. Only the admin thread makes these
calls (`ServerThread.cpp:109, 150`); the second is never reached in the whole
program, but it is an operation of the class.

### LaptopReads

A reader connects to any server and reads one customer (type 2) or `ReadList` (type 3).
The request, the answer of the engineer thread (`GetCustomerRecord`, one `read_record`) and
its arrival are three steps, so any step of the factory comes in between. The reads change
nothing of the factory: `FactoryStep` is any of its steps, and a server's death ends the reads of its clients. `regular` and `known` are history:
what a read that is under way may return.

### Messages and Connection

An int is a word of four bytes, a machine has a byte order, and an object is a function
from its members to words. `Marshal` and `Unmarshal` are built from two lists per class, the
members in the order in which the code copies them; `Print` is left out.

`Connection` is one TCP connection and the two threads at its ends. `sock` is each end's
`Socket`, `io` the state of a `Send` or `Recv` (buffer and remaining `size`; `offset` is what the
size lacks), `wire` the bytes under way. Each `send` or `recv` moves any number of bytes.
The caller is a client thread of type 1, 2 or 3 or the admin thread of a primary; the
engineer end is the loop of `EngineerThread`. What an order does is in `LaptopFactory`; here
it takes no time and the record is any of two.

| code | actions |
|---|---|
| `Socket::Send`, `Socket::Recv` | `SendSome`, `RecvSome`, `SendFails`, `RecvFails` |
| `ClientStub` | `Connect`, `ConnectFails`, `SocketFails`, `Identified`, `Ask`, `Await`, `CallReturns` |
| `ServerStub`, `EngineerThread` | `ReceiveStatusInfo`, `ReceiveRequest`, `Serve`, `Replied`, `EngineerReturns` |
| ends of threads and processes | `ClientEnds`, `Die`, `DieAfterLoss`, `BrokenPipe` |

Connecting fails in three ways. After a failed `connect` the stub is invalid and its descriptor stays open. After
a failed `socket()` (`SocketFails`) it is still valid: a client returns because `Init` does, a primary asks
`isValid` and identifies itself on descriptor -1. And `setsockopt` may fail in the constructor of the
accepted `ServerSocket` (`Connect` with `lost`): its `fd_` is -1 and `valid` false while `is_initialized_` stays, and the
descriptor stays open for as long as the process lives. The engineer thread fails at once,
and the caller, whose sends go into the buffer of a socket that nobody reads, waits for an answer until
that process dies (`DieAfterLoss`).

An uninitialized `status_code` is 1, 2 or something else. When an end closes with bytes
unread, the other end is reset; a send after that is a SIGPIPE or an error, whichever the
kernel delivers first. `WholeMessages` is refined with the whole messages that a `Send` has
finished as its messages in flight.

### ServerProcess

`main` walks through `ServerMain.cpp`; `socket[o]` is the `Socket` object of the listening
socket, of an engineer thread or of a stub, and `table` the descriptors the kernel has
given the process. `socket` and `accept` return any free number; that is what makes a close too
many dangerous. The admin thread runs `startConnection` and `startReplication` over
its stubs, where each `socket`, send, receive, connect, `accept` and `setsockopt` succeeds or fails for
any reason, a full table being only one.
`failed` counts the sockets that came to nothing. Addresses and the options of `setsockopt` are
left out. When `bind` or `accept` fails, `main` returns with a joinable admin thread and the
process terminates.

### ClientProcess

`main` and its threads on a clock that advances at any time. `timer` and `thread[t].timer` are
the `ClientTimer` objects; `done` is the history of all measured operations. An
uninitialized `elapsed_time` is copied but never read, and is 0 here. `NoMin` is the constant
9999999999.9 us that a minimum starts from; operations may take longer. The number of orders is any of
`Orders`, 0 among them. The clock is
assumed not to go back. The usage message for fewer than five arguments is left out.

## 3. Runs

| run | instance | distinct states | asks |
|---|---|---|---|
| `rwlock` | 3 threads, 2 calls each | 3.6 thousand | does the lock exclude, and terminate? |
| `contention` | 2 servers, 2 customers x 2 orders, no failures | 853 thousand (with symmetry) | what do takeovers that race do to records, logs and `primary_id`? |
| `three_servers` | 3 servers, one may crash and is flaky, 2 customers x 1 order | 1.3 million (with symmetry) | do the loops reach every peer; does one failed stub harm the others; do backups follow one primary? |
| `crashes` | 2 servers, one flaky, each may crash once; 2 clients with one id x 1 order, one mortal; fairness | 183 thousand | what survives crash, restart, reconnect; is every order answered? Is the inductive invariant true? |
| `admin_queue` | 3 engineer threads x 2 orders, 2 spurious wake-ups, fairness | 25 thousand | is the queue an atomic FIFO; is every order answered? |
| `storage` | admin and 1 engineer thread, 2 locked calls each, 2 customers, 2 numbers | 186 thousand | do log and map change as one; what can an unlocked read of the log return? |
| `connection` | each kind of caller, 2 requests, any byte orders, any split, any end; fairness | 27 thousand | do sockets keep messages whole; is nothing served that was not asked; does every call return; what works between machines that differ? |
| `reads` | 2 servers, one may crash and is flaky; 1 mortal customer with 2 runs x 1 order, 1 without orders, 1 reader | 1.8 million | how old can a read be; can an acknowledged customer be unknown; who can take a record back? |
| `unknown_customer` | 2 servers, no failures | counterexample | what is the record of a customer without orders? |
| `client_process` | 2 threads, 0 or 2 operations of up to 3 ticks, `NoMin` 2, types 1, 2, 3 and another; fairness | 101 thousand | are the printed statistics those of the run; does the client end? |
| `server_process` | 5 descriptors, 2 engineers, up to 4 stubs and 11 arguments | 112 thousand (with symmetry) | is a descriptor ever closed twice, lost, or used after its close? |
| `takeover_index` | 2 servers, no failures | counterexample | does the increment at a takeover do what its comment says? |

Bounds. Two servers are enough for the race of two primaries, because takeover and
replication are pairwise; three are needed for a loop that goes on after a
failure, and for two takeovers with a common backup. Two orders, or two runs of a client
with one each, are the least for which an old value can overwrite a new one; two runs
let the client die and move to another server. Six connections allow two takeovers in each direction and
reconnects: `ConnId` only bounds how many are open at once. One server in `Flaky` suffices to have one whose
calls fail next to one whose calls do not; it may be the one that crashes or the other. One
mortal client with two runs covers an order left behind by a death and a newer one of the next
run; that the death leaves the record of another, living customer alone is proved for all
constants (`RecordsFollowAcks`), while `contention` has living clients only, because
`ImplementsOrderService` supposes them. `TornIdx` is 99, a value no
index reaches. Deadlock checking is off because the system stops when all
clients are done. Symmetry is used only with invariants and a refinement without
fairness, where servers with complete peer lists, and customers, are interchangeable;
in the three-server run `PeerList` fixes an order of peers, so only customers are
permuted there. The other runs of the factory use none: their servers or clients differ, or they check liveness. For the queue, three engineers make
the order of the FIFO matter and let a notification find the admin thread at any
statement; two orders each reuse a promise. For the storage, the first three orders all move the
vector to a new block, so the run has four, the least with which `push_back`
also stays in its block; a second reader is left to the lock, whose run has three threads and whose
theorems have any number. In `reads` the second customer never orders, so that a client of
type 3 meets an unknown customer.

Two requests per connection make the loops of both ends go round once; the longest message
has 28 bytes and every split of it is tried, so the number of `send` and `recv` calls is
not bounded. The unknown customers of type 3 and an answer for a wrong request both need
a second request. Five descriptors are fewer than a listening socket, two
engineers and three stubs, so the process meets its limit at every place where it
asks for one; eleven arguments give up to two peers and every wrong remainder. Two client
threads with two operations are the least for which merging timers can mix up minimum and
maximum of threads and of operations; 0 operations are the other boundary of the mean, and a clock that
reaches 3 lets an operation take longer than `NoMin`.

Fairness (`FairSpec`): weak fairness for every admin thread, engineer thread and
client step, because the operating system runs every runnable thread and TCP
delivers what was sent. No fairness for starting a client, for crashes or for
restarts. For the lock: weak fairness for every thread inside a call, that is, a
waiting thread gets a mutex that stays free. For the queue: weak fairness for every
engineer thread and the admin thread, none for new orders and none for spurious wake-ups. Their
number is bounded in every run: `std::mutex` promises no thread its turn while
others keep taking it, so with endless orders one engineer could wait forever. Each
answered order is thus shown to depend on no luck but that one.

For a connection: weak fairness of both threads and of the sends and
receives between them, none for connecting, asking or dying; an order is assumed to be
done some time, which is `OrderAnswered`. For the client: weak fairness of every
thread; that the calls in its operations return is `CallsReturn`.

### What the properties say

- `AckedDurable`: once a client has its laptop, the order is in the log of the server and of
  every peer that all of the server's stubs to it reach, except for servers that have crashed
  since the start; and a peer they did not reach has crashed, unless `socket` or `connect` of the
  server itself failed. That exception is real: a failed `socket()` is only logged, the
  running peer is skipped for good (next item) and the client is told all the same. It is
  not weaker for other servers' crashes, and it is all the code gives: a peer that crashed
  has lost the order and does not get it back.
- `RejoinedPeerNotCaughtUp`: the code that reconnects a stub and replays the log
  (`ServerThread.cpp:144-158`) never replays, because `ClientSocket::Init` does not set
  `valid` back. The restarted peer keeps a connection without identification.
  It starts to follow again only after a takeover, which makes new stubs, and
  then without the orders it missed. The same happens to a running peer after one failed
  `socket` or `connect`.
- `RecordFollowsAcks`, `AtMostOneSettledPrimary`, `CopiesBoundedByStubs`: while no server has
  crashed and all stubs are connected (`NoFault`), concurrent primaries, duplicated stubs and
  duplicated deliveries do not make any server's record differ from what a customer was told. For the
  record the customer must also have one client, which has not died (`Steady`): the order of a dead client may still
  arrive, and no server can tell it from a newer one. What other clients do does not matter. The number
  of copies of an order in a peer's log is bounded by the number of stubs to it.
- `BackupsFollowPrimary`: with a single primary that has reached its peers, each backup's log is
  the primary's or one order ahead. With several, logs may differ in order, and they do.
- `OnlyTheDeadOverwriteNewer`: a log gets an older order of a client behind a newer one
  only by the late request of a primary that has died, or if the client itself died before it was
  answered. Both happen. The second needs no server to fail: the client is killed while its order is
  queued, run again at another server, and answered there before the first one comes to the old order.
- `PrimaryConnected`: a server that skips `startConnection` has a stub to every peer,
  although engineer threads reset `primary_id` at any time.
- `OrderAnswered`: no deadlock between primaries, no lost promise; an order is answered, or its
  server crashes or its client dies.
- `NoLostWakeup`, `RequestAnswered`: the admin thread is never asleep on a queued order unless
  the engineer that pushed it is about to notify; so every order is answered, without
  relying on spurious wake-ups.
- `HandshakeInv`: the mutex is held where the code thinks it is, a pop finds an order,
  and each unset promise belongs to one request, in the queue or being served.
- `ImplementsAtomicStorage`: a read returns the customer's last order in the log at some
  moment of the call. It would fail if the map were changed after the unlock.
- `UnlockedReadsTornOnlyByGrowth`: an unlocked `getIdx` or `get_log` is right for some
  moment of the call unless the vector was moved meanwhile. `LaptopFactory` is more
  liberal: there a `getIdx` that meets any `push_back` may be torn.
- `ImplementsOrderService`: when no server crashes or fails to connect, no client dies, ids are
  not shared and each server is a peer of every other, the
  servers are one replicated record: a customer is told of an order only when every
  server has its number, and no record ever goes back. This is stronger than `RecordFollowsAcks` in the
  order of steps, and weaker in what it assumes of the other clients. With crashes, or deaths of clients, it is
  false, by `OnlyTheDeadOverwriteNewer`.
- `ReadsRegular`: under the premises of `RecordFollowsAcks`, a read of any server returns the last number the customer had been told
  when the read began, or one on its way during it. Reads are not atomic: a backup has an
  order before its primary, so two reads from different servers can see it and then not.
- `AckedNeverUnknown`: a server that never crashed knows every customer whose order it has
  acknowledged, or another server whose stubs reached it then. The number may be old (see
  `OnlyTheDeadOverwriteNewer`), the customer is not unknown. A running peer that was skipped
  after a failed `socket()` may not know the customer, as it may not have the order (`AckedDurable`).
- `ServedAsMeant`: no order is made of a part of a message, of an uninitialized request or in
  the wrong role. An uninitialized `status` can be 1 or 2, but the receive after it then fails.
- `SpinsOnlyUnidentified`, `ForeignNeverServed`: an engineer thread that loops without end lost its
  caller before the identification, or cannot read it, or lost its descriptor to a failed
  `setsockopt`. The identification is the one message that is not in network byte order.
- `CallsReturn`: between machines of one byte order a caller is woken by an answer or by the end of
  the other process. It is not
  woken by a peer that is merely silent: there is no timeout. The one silence that the program
  brings about itself is in the formula: an engineer that lost its descriptor.
- `DescriptorsOwned`: sockets are closed two or three times (at a failed call, by the stub, by the
  destructor) and this is harmless only because `Close` forgets the number.
- `DescriptorsAccounted`: the only descriptors lost are those of failed connects and failed
  `setsockopt` calls, exactly one each; a stub whose peer is down loses one per order.
- `ValidStubIsOpen`: `socket()` can fail without making the stub invalid; that no request is
  sent there is due to the identification.
- `ArgumentsRead`: as many peers as announced, and `argv` is not overrun.
- `StatsOfAllOperations`, `StatsWithinRun`, `NoMeanOnlyUnconnected`: what the client prints is the
  statistics of all operations of all threads, except that the minimum is never above the constant it
  starts from; the mean is 0/0 only when no orders were asked for or nothing connected (type
  3: or no first read succeeded).
- `TypeOK` includes that loop positions stay inside `peer_list` and `stubs`.

### Findings

`takeover_index`: the comment at `ServerThread.cpp:127` says the increment of
`committed_index` is to "handle the subtle index change based on the change of primary
node". A backup is one behind the primary, since a request carries the primary's
`committed_index` from before the order; the increment makes up for it, except when
the backup has -1. After a primary's first two orders it has 0 and the backup -1, and
the backup takes over with -1.

`unknown_customer`: the comment at `Messages.h:98` says that `customer_id` is "copied from the
read request, -1 if customer_id is not found in the map". `GetCustomerRecord` copies it in
either case. The type 3 client tests for -1 twice (`ClientThread.cpp:46, 50`) and never
meets it from a server, so it prints a line with order -1 for every customer without orders.

## 4. Proofs

`RWLockProofs`, for any finite set of threads and any `MaxCalls`:

- `LockInvariant`: `Spec => [](TypeOK /\ LockInv)`. `LockInv` is inductive: `readMtx` is held
  exactly by the thread between its lock and unlock, `readCnt` is the number of
  threads counted in, a thread that must take `writeMtx` is the only one counted,
  and `writeMtx` is taken exactly when a writer or an admitted reader is inside.
  Mutual exclusion alone is not inductive: it needs the counter to be right, and
  the counter is right only because `readMtx` serialises its updates.
- `MutualExclusion` (`ReadersExcludeWriters`) follows from it.

`AdminQueueProofs`, for any engineer threads and any numbers of orders and spurious
wake-ups:

- `QueueInvariant`: `Spec => [](TypeOK /\ HandshakeInv)`, inductive as it stands. That a pop
  finds an order needs the mutex only through the program counters; that a promise is set
  once needs the requests in the queue to be distinct and different from the one served.
- `NoOrderSleepsOn`: `NoLostWakeup` is inductive with the types: the queue is empty when
  the thread falls asleep, and who pushes then goes on to notify.
- `QueueRefinement` (`ImplementsOrderQueue`): the push submits, the pop takes, `SetValue`
  serves and `FutGet` collects; everything else is invisible.

`LaptopFactoryProofs`, for any set of servers, any peer lists, any clients with any ids,
any finite or infinite pool of connections, any number of crashes, any servers whose calls fail, any
clients that die, any `TornIdx`:

- `FactoryInvariant`: `Spec => [](TypeOK /\ FactoryInv)`.
- `FactoryTypes`, `AckedOrdersDurable`, `PrimariesConnected`: `TypeOK`, `AckedDurable`,
  `PrimaryConnected`.

`AckedDurable` speaks of the moment an answer arrives, so the invariant has to
follow an order there from the moment it is sent:

- `ClientInv`: the admin thread's order and those in `inbox` and `erq` are all different, and each
  is the one its client waits for or one that a client left behind, so the promise that is set is the
  one of the order that was done. A client that runs again is past what it left (`AbandonedPast`).
- `StubInv`: a stub that is initialized owns its connection, and a stub
  fails only if the peer crashed or the server is in `Flaky`; a stub that is valid without a connection is
  one that is about to identify itself after a failed `socket()`. This is what bounds the harm
  of skipping a failed stub.
- `RequestInv`: only the stub that is being waited for has anything in flight, and
  its request carries the current order, so an answer means that this order is in
  the peer's log. This also shows that `todo` is always empty: the replay is dead code.
- `CoverInv`: from the claim on there is a stub for every peer, also after an engineer
  thread has changed `primary_id`, because `stubs` only grows.
- `DurableInv`: the order is on all peers the loop has passed and reached, hence on all that are reached
  at the end, hence on the server itself too when the promise is set, and logs only grow
  except by a crash. A stub that has failed never becomes valid again, so what is reached only shrinks
  until the answer notes it.

Each step of `Next` is a lemma per part of the invariant it can disturb.

`ReplicationProofs` builds on that invariant, one part per section, for the same constants. It has
two halves.

With any crashes, restarts, failing calls and deaths of clients:

- `RejoinedPeersStayBehind`: `RejoinedPeerNotCaughtUp`. `LinkInv` says that each connection in use
  belongs to one stub (or its sender has crashed), and that a stub that has been reconnected is not
  valid and its connection not identified. What a step can do to stubs and connections is put into
  four cases (`LinkOpens`, `LinkCloses`, `LinkMoves`, `LinkEnds`), and only these are looked at.
- `OrderKeptByTheLiving`: `OnlyTheDeadOverwriteNewer`. `PastInv` says that logs, requests on their
  way and acknowledgements are about orders sent in the past or now; a live sender's request is
  about the order its admin thread has taken (`RequestInv`), which is abandoned or the one its client waits
  for (`ClientInv`), and then nothing in a log is newer.
- `AckedStayKnown`: `AckedNeverUnknown`. `KnownInv`: a server knows every customer that is in its log.

While no server has crashed and no stub has failed (`NoFault`, which each property has as its own premise): `CalmStep` is what is
left of `Next`, eight kinds of steps per admin thread together with the engineer threads at the
far ends of its stubs. `Placed(s, i)` says that stub `i` has delivered the order of `s`.

- `OneSettledPrimary`: `AtMostOneSettledPrimary`, from `PrimaryInv`: of two servers that both hold
  themselves for the primary, one has still to tell the other. Needs `AllPeers`.
- `RecordsFollowAcks`: `RecordFollowsAcks`, from `RecordInv`: the record of a `Steady` customer is the last number told or the
  one being placed, and it is the latter at every peer the loop has passed. Needs `AllPeers`: a
  server that is not a peer of another never gets that one's orders.
- `ServersAreOneService`: `ImplementsOrderService`, step by step. Needs `AllPeers` and `FaultFree` (no crashes,
  no server in `Flaky`, no client in `Mortal`, no shared ids), because none of these is a step of `OrderService`.
- `CopiesBounded`: `CopiesBoundedByStubs`, from `CopiesInv`, which counts the copies of the order of
  each admin thread by the stubs the loop has passed (`SentCount`), and says that a queued order
  has no copy yet. Any peer lists.
- `BackupsFollow`: `BackupsFollowPrimary`, from `FollowInv`: stub `i` belongs to peer `i`, and the log of
  that peer is the primary's, with the order appended exactly when it is `Placed`. Needs `AllPeers` and
  `DistinctPeers`: a peer named twice on the command line gets each order twice.
- `ReadsAreRegular`: `ReadsRegular`, from `RecordInv` and what a read that has been sent may return.

`AllPeers` (every server's arguments name all other servers) and `DistinctPeers` are what the
runs have; they are hypotheses of these theorems and not assumptions of the module, so that the
others hold without.

`ServerStorageProofs`, for any finite set of threads, any customers and numbers and any number of calls:

- `StorageUsesLock`: every step of the storage is a step of `RWLock` or leaves it alone, so `LockInvariant` and
  `MutualExclusion` hold inside the storage and are not proved again.
- `StorageTypes`: `TypeOK`.
- `UnlockedReads`: `UnlockedReadsTornOnlyByGrowth`, from `VectorInv` (the two pointers of the vector point into
  one block except inside a `push_back`) and `PeekInv` (each pointer that was loaded was there at some moment).
- `StorageIsAtomic`: `ImplementsAtomicStorage`. `place_order` happens at the change of the log's end and
  `read_record` at the read of the map, each under the lock. `RecordsFollowLog` makes the two
  agree: the map holds the latest entry of each customer in the log, except for the customer
  whose entry was pushed and is not recorded yet, and then a writer is inside (`LastPlaced`). That the
  log has a latest entry is an argument about a least element of the naturals (`WFMin`).

The inductive invariant is `StorageInv`.

`ConnectionProofs`, for any object and any two machines:

- `RoundTrip`: what one machine marshals, another one unmarshals. It rests on `SameOrder` (both lists
  of a class name every member once, in the same order), `NetworkOrder` (`htonl` and the memory of the
  machine cancel out) and `MarshalledByte` (byte k of member i is where the offset says).
- `StatusNeedsSameOrder`: the identifications 1 and 2 arrive as they were sent exactly between
  machines of the same byte order.

and, for any kinds of callers, machines and number of requests:

- `ConnectionTypes`: `TypeOK`, and with it that no object is bigger than the buffer of the stub that
  sends or receives it, and in which cases of failed calls the members of a `Socket` disagree.
- `MessagesArriveWhole`: `ImplementsWholeMessages`, the refinement, for every split of every message.
- `EngineersServeAsMeant`, `SpinningIsUnidentified`, `ForeignCallersUnserved`, `AnswersAreForRequests`: `ServedAsMeant`,
  `SpinsOnlyUnidentified`, `ForeignNeverServed`, `AnswerIsForRequest`.

The inductive invariant is `ConnectionInv` (`ConnectionHolds`). Its center is `StreamInv`: per direction, the bytes a `Recv`
has in its buffer followed by those on the wire are the messages in flight followed by the
part already sent of a `Send` that has not finished. That alone says nothing of where a message ends; the
receiver finds the end only because it expects the size of the message that is first in
flight. Hence `TurnInv`: caller and engineer take turns, and in each of the few combinations of
their stages it says what is in flight. `EngineerKnows` and `CallerKnows` say what a complete buffer
contains, so that the round trip can be applied; `LocalInv` and `ClosedInv` are about one end and about
closed ends.

`ClientProcessProofs`, for any number of threads and orders, none included, any clock and any `NoMin`:

- `PrintedStats`: `StatsOfAllOperations`; `StatsFitTheRun`: `StatsWithinRun`; `MeanOfNothing`: `NoMeanOnlyUnconnected`.

`ClientInv` (`ClientHolds`) says that each thread's timer has the statistics (`Stats`) of the operations of that
thread, and main's those of the first `k` threads when it has merged `k`; that a thread's operations fit
between main's start and now, one after another (`InTime`), so no sum exceeds the run; and how
far main's loops are (`Phases`). A sum over a finite set is defined by taking
elements one by one. That there is such a function, that it does not depend on which element is
taken first, and that sums of disjoint sets add up (`SumsExist`, `AnyFirst`, `TookUnion`) are inductions, done here as
arguments about a smallest counterexample, which need no theorem with an operator parameter.

`ServerProcessProofs`, for any number of descriptors, engineer threads, stubs and arguments:

- `ProcessTypes`: `TypeOK`, and with it that the loops over `peer_list` and `stubs` stay inside them.
- `NobodyElsesDescriptor`: `DescriptorsOwned`. No two sockets have the same number, although `Close`
  runs twice on some sockets and the kernel reuses numbers at once.
- `LeaksAreFailures`: `DescriptorsAccounted`. One descriptor is lost per failed `connect` or
  `setsockopt`, and no other.
- `RequestsOverOpenSockets`: `ValidStubIsOpen`.
- `ArgumentsReadInside`: `ArgumentsRead`. It rests on `TriplesFit`: when `(argc - 4) / 3` is the number
  of peers and nothing remains, `setPeerList` reads that many triples and ends at the last argument.

The inductive invariant is `ProcessInv`. To the properties it adds where the two loops are and that
`stubs` has room for the peers still to come (`Positions`), and how the members of a socket go
together (`SocketInv`): what no thread uses is as constructed, an engineer's socket has a number
only while it is initialized, and so has a valid stub's. That is needed because
`Close` clears both members, and a reconnect of an invalid stub neither closes the old number nor
makes the stub valid. Three lemmas say what the steps on one socket do to the descriptors
(`CloseStep`, `OpenStep`, `ForgetStep`); every action is one of them.

The assumptions on constants are `FactoryAssumption`, `ReadsAssumption`, `RWLockAssumption`, `StorageAssumption`, `AdminQueueAssumption`,
`ConnectionAssumption`, `ProcessAssumption` and `ClientAssumption`; TLC checks each in every run of a module that extends its own.

Every invariant, action property and refinement of the passing runs is stated by a theorem, under the
hypotheses named above. Only model-checked are the liveness properties `OrderAnswered`, `CallsComplete`,
`RequestAnswered`, `CallsReturn` and `ClientEnds`: liveness under fairness and `ENABLED` are out of the
prover's reach. So is what a recursive operator computes; the models use none. The two findings are
counterexamples of TLC and have no theorem.

## 5. Not modelled, and the plan

Not modelled: a silent peer (there are no timeouts in the code, so it blocks its primary for
good), except for the one that a failed `setsockopt` makes, in `Connection`; a connection between servers that breaks while both
live; endless overlapping readers of the lock (they keep a writer out; the lock gives readers
preference and nothing in the code promises otherwise); a clock that goes back; the options and
addresses of sockets; what `Print`, `operator<<` and the logging print; `Socket::IsNagleOn` and
the admin's branch for request types that nothing creates; `ReplicationRequest::IsValid`, which nothing
calls. The build files are no behaviour; the two compiler identification programs that CMake left
in `cmake-build-debug/CMakeFiles/3.23.2/` are generated and not part of the program.

What could come next, in this order:

1. `ServersAreOneService` per run prefix: the servers implement `OrderService` until the first failure, which
   drops the hypothesis `FaultFree` but needs an `OrderService` that may stop.
2. The safety half of the liveness properties: for each state in which a thread waits, an invariant that names
   the thread it waits for, as `NoLostWakeup` does for the admin thread, and that these
   waits form no cycle between primaries.
3. The refinement of the FIFO and of the atomic storage inside `LaptopFactory`, which now is by
   the argument that `AdminQueue` and `ServerStorage` each implement what it uses.
