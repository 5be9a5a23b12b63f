# A TLA+ model of DHServer

DHServer is a C++ game-server library for Windows: an IOCP server
(`DHNetWork/DHServer.cpp`), the matching client (`DHClient.cpp`), two pools they
allocate from, and around them a facade (`DHNetWork.cpp`, `DHNetworkAPI`), a
MySQL account and friends database (`DHDB`) and a Qt launcher
(`GameLauncher`). This directory models the network library and its facade, the
database operations, and the part of the launcher that two threads share. Paths
below are relative to the repository; line numbers are those of the files under
`DHNetWork/DHNetWork/` unless another path is given.

## 1. Inventory

| component | state | operations | interacts through | hard part |
|---|---|---|---|---|
| `DHServer` | `g_Socket_Struct_Pool` (all sockets, for ever), `g_Connected_Client`, `Socket_Struct.m_Socket/Is_Available`, `Send_Data_Queue`, `Recv_Data_Queue`, `g_Is_Exit` | `Accept`, `Send` (target, broadcast, all but one), `Recv`, `Disconnect`, `End`; `WorkThread` (N), `SendThread`, `TimeThread` | one completion port, two `tbb::concurrent_hash_map`s with accessors | N workers take batches of completions of one socket; the application deletes clients too; sockets are recycled |
| `DHClient` | `g_Server_Socket->m_Socket`, `Is_Server_Connect_Success`, `Send_Data_Queue`, `g_Is_Exit` | `Connect`, `Send`, `Recv`, `End`; `ConnectSendThread`, `WorkThread` | the same two variables, one critical section around the close only | reconnecting while the other thread closes; SOCKET values used again |
| packet framing | `m_Processing_Packet_Buffer`, `m_Processed_Packet_Size`, `Total_Packet_Size`, `Buff_Offset` | the chunk loops of `SendThread`/`SendFunction`; `BackUp_Overlapped`, `IOFunction_Recv`, `Push_RecvData` | TCP | arbitrary cuts of the stream, the buffer limit, a failure in mid-packet |
| `ObjectPool` | `m_Available_Obj` (concurrent queue), `ALL_Object_List` (plain vector) | `GetObject`, `ResetObject`, destructor | shared by all threads | test-then-pop, unlocked vector |
| `MemoryPool` | a queue of blocks per size, in a concurrent map | `GetMemory`, `ResetMemory` | the accessor of the size | spinning with a lock held |
| client map | buckets, mask and size of `tbb::concurrent_hash_map` | lookup, insertion, erasure, iteration | `BroadCastMessage`, `Except_Target_Message`, `SendThread`, workers | an iterator without a lock over a table that is rehashed by lookups |
| facade, API | `Set_NetWork`, `Current_Type`, `m_NetWork`, the static `MAX_USER_COUNT`, Winsock's count | `Initialize`, `Connect`, `Accept`, `Send`, `Recv`, `Disconnect`, `End`, destructors | calls; Winsock and the static are the process's | order of calls, calls after `End`, `Accept` that fails or is repeated |
| `DHDB` | tables `LOGIN`, `FRIEND` | `ConnectDB`, `CreateNewAccount`, `FriendRequest`, `FriendAccept`, `GetFriendList`, `DeleteAccount`; `SearchID`, `ComparePassword`, `GetIdentifier` only read | MySQL | several queries per operation without a transaction, any of which may fail |
| `GameLauncher`, main window | `m_Process`, `m_Is_Playing`, `_Current_Visible_State`, `_Is_Visible_Start`, `Friend_Request_List`, `Current_Friend_Request_Count` | buttons; the receive thread `RecvServerPacket` | Qt signals, the client API | two threads without a lock, queued and direct signals |
| `GameLauncher`, login windows | none that is shared | buttons that send and poll | the client API | waiting for a reply that may not come |

What makes each of them correct:

* server: never more than `MAX_USER_COUNT` clients; a slot is driven by one
  operation at a time and is recycled after every connection; received data
  reaches the application under the client it came from and is dropped only
  when the client is gone; nothing is sent to a slot that is being recycled;
  nothing but `End` stops the service, and `End` returns;
* client: one receive outstanding, no socket leaked, reconnection after every
  loss, `End` returns;
* framing: the packets sent are received, whole and in order (`PacketChannel`);
* pools: an object is used by one thread, none is lost, every call returns;
* messages: a lookup finds the clients there are; a broadcast queues one copy for
  each client; copies are freed once; calls return and the queue drains;
* facade: which orders of calls are safe; no thread outlives what it uses;
  Winsock is released exactly when the last object goes; calls return;
* database: the two rows of a pair agree, an answer is true, operations look
  atomic (`Friendship`) as long as no fault is met that the code does not undo;
* launcher: the rows shown are the requests that are open, the layout does not
  drift, a result disappears, the server is told when a game ends.

`PROJECT.json` lists the hazards at their lines with the properties aimed at them.

## 2. Modules

| module | what it is |
|---|---|
| `ObjectPool` | `GetObject` one step per shared access, `ResetObject`, the destructor |
| `MemoryPool` | `GetMemory`/`FindMemory`, `ResetMemory` with the accessor |
| `DHServer` | the life cycle of the server's sockets, its threads, `Disconnect`, target sends, `End` |
| `DHClient` | the client's connection: connect, send, close, reconnect, `End` |
| `PacketStream` | one direction of a connection at the level of bytes |
| `PacketChannel` | the abstract specification: a FIFO channel of whole packets that may break |
| `ClientMap` | `g_Connected_Client` as oneTBB keeps it: buckets, growth, lazy rehashing, the iterator |
| `ServerMessages` | composes with `ClientMap`: `Send` of all three kinds, the queue, `SendThread`, clients that come and go, `End` |
| `NetWorkAPI` | several `DHNetWorkAPI` objects of a process, the facade, `Accept` and `End` as a whole |
| `DHDBCore` | the database operations, one query a step, with faults |
| `Friendship` | the abstract specification of `DHDBCore`: every operation one step |
| `GamePlayLauncher` | the launcher's receive thread against its buttons |
| `*Proofs` | theorems: `PoolProofs` about the two pools, `DHServerProofs`, `DHClientProofs`, `PacketStreamProofs`, `ServerMessagesProofs` (with `ClientMap`), `NetWorkAPIProofs`, `DHDBCoreProofs`, `GamePlayLauncherProofs` |
| `MC*` | instances for TLC. The refinement mappings are in `PacketStream` and `DHDBCore` |

Operators whose comment begins "Mutant of" are deliberately wrong variants of the
definition that follows them; each shows that a property can fail.

### How the state corresponds to the code

**`DHServer`.** A *slot* is one of the sockets `Accept` makes (lines 112-168).
`pool`, `m_Socket`, `Is_Available` and `g_Connected_Client` are the sets of slots
that are in `g_Socket_Struct_Pool`, whose `Socket_Struct` has a valid socket, says
`Is_Available`, or that are in the client map. `writer` and `readers` are the
accessors of pool entries. `pc[t]` is the next access of thread `t` to something
shared; `batch[w]` is what is left of `Entry_Data`. A step such as
`IOFunction_Accept` is cut exactly where another thread can see the difference:
`AcceptCheck` (1016), `AcceptInfo` (1049-1056), `AcceptFind`/`AcceptInsert`
(`AddClientSocket`), `AcceptRecv` (1077), `AcceptAvailable` (1090).
`Delete_in_Socket_List` and `Reuse_Socket` are `DeleteFind` ... `ReuseDisconnect`,
called by a worker or by the application. `AcceptEx` of a recycled socket stays pending,
fails, or takes a waiting client at once, which line 1113 treats as a failure
(`AcceptExPending`, `AcceptExFails`, `AcceptExAtOnce`); `DisconnectEx` goes on in the
background or fails, and `Disconnect_EX` calls `WSACleanup` unless the last error is
`ERROR_IO_PENDING` (`ReuseDisconnect`: Winsock is up or down afterwards, because another
object of the process may hold it). `refused` records the slots for which a call was not
left pending. Without Winsock no call of the server does anything: the model stops there.
The send thread tests the queue (527, `SendEmpty`) and the exit flag (524, `SendTest`) in
two steps, here and in `ServerMessages`, so it may leave packets behind that `End`
deletes. `Disconnect` is called for a client
that is connected at the time of the call (the assert of line 246). Bytes are
reduced to a verdict (`good`, `bad`, `zero`). `serial` numbers the connections of
a slot, because the SOCKET value does not change. `crashed` is the use of an
accessor that found nothing; asserts are those of a Release build, none.
`delete[] &Entry_Data` (447) on a stack array is undefined and modelled as "dies
or does not".

**`DHClient`.** `m_Socket` is the number of the `WSASocket` call that made the
socket (0: `INVALID_SOCKET`), and `handle` its SOCKET value, which a later socket
may get again. `Safe_CloseSocket` has three steps: inside the critical section
(shutdown and closesocket), `m_Socket = INVALID_SOCKET` with leaving it, and the
flag, which is cleared outside.

**`PacketStream`.** A byte is `<<packet, position>>`, so that a byte which ends up
in the wrong packet is visible. The `memcpy_s` over overlapping ranges that moves the
rest of the buffer down (887, `DHClient.cpp` 548) is undefined in C; it is taken as the
`memmove` that Microsoft's runtime makes of it. `Receive(n)` takes any number of bytes TCP has.

**`ObjectPool`, `MemoryPool`.** The names of the two modules are disjoint, so that one module
can extend both. `push_back` of the object pool is two steps (write the slot, move the end): what
two unlocked calls can do to each other without a reallocation. A vector that
reallocates at that moment can do worse; the model does not need it.

**`ClientMap`, `ServerMessages`.** `buckets[i]` is a list of nodes or the mark
`rehash_req`; `Acquire` is `bucket_accessor` with `rehash_bucket`, so every lookup may
move nodes. `Split` unlinks the nodes of the old bucket in one pass (`Unlink`) and
pushes each to the front of the new one. An iterator is `my_index` and `my_node`; `Increment` follows the list the
node is in *now*. A lookup, insertion or erasure is one step because it holds the
bucket locks; `Send` is cut at each `++` and each `find`, where a worker or
`SendThread` can come in between. `++` from an erased node is undefined and taken as a
crash. A node carries the connection it stands for, so that the next client on the
same SOCKET can be told from the one a packet was queued for. `copies`, `freed` and
`leaked` number the copies of packets.

**`NetWorkAPI`.** `api[o]` is the outer object (`Set_NetWork` null, live or deleted, which
no code sets back to null), `net[o]` the `DHNetWork` with its `DHServer` or `DHClient`.
`Accept` is its failures before the workers are made, then one round of the loop per
step with the `unsigned short` counter (`Modulus`), failures in the loop, and the threads
at the end. `End` sets the flag and posts one packet, joins, and then deletes; the
destructor is `End` again. `risks` records what a program did that the library may not
survive, so that `CrashNeedsRisk` says exactly which programs are safe. What is
undefined (`delete[]` of a stack array, 447; `delete` of the characters of a
`std::string`, 378; a thread that outlives its pools) crashes or does not.
`DHNetWork.cpp:65` has a comment that a second `Accept` is refused; line 66 refuses only
clients.

**`DHDBCore`.** `LOGIN` and `FRIEND` are sets; `op` is the call in progress with the
statement it has reached. `Query` succeeds, fails without effect, or fails after its
effect (the reply is lost). `before` holds the tables at the start of the call, and
`damaged` becomes true at a fault the code does not undo; the refinement maps a call in
progress to the tables before it and `damaged` to `Friendship`'s `broken`.

**`GamePlayLauncher`.** `ui.step` and `thread.step` are the next shared access of the two
threads. A signal of the receive thread is queued (`hides`), one of the user interface
runs at once. Where both threads are in the request rows or name sets at the same time,
a data race, the process may die (`Race`). `open` and `timed` are histories; `open` is kept
by an update without requests, which hides the list and leaves its rows.

## 3. What the runs show

Passing runs (every action and disjunct is taken in at least one of them):

| run | instance | shows |
|---|---|---|
| `objectpool` | 2 threads, 2 objects, growth by 2, 2 held each | `ExclusiveUse`, `NoneLost`, `BoundedByDemand` |
| `memorypool` | 2 threads, 2 sizes that run out | `PopFindsBlock`, `CallsReturn` |
| `stream` | both directions, header 2, buffer 3, limit 7, packets of 2, 3, 5 and 6 bytes, 3 packets | `IntactInOrder`, `SafeNeverDropped`, `AllReceived`, `ImplementsChannel` |
| `server_single` | 1 worker, 2 slots, limit 1, 2 connections each, `End` at any time | `TypeOK`, `UserLimit`, `SlotRecycled`, `EndReturns` |
| `server_workers` | 2 workers, 2 slots, batches of 2 | `OneDriver`, `DeleteFindsClient`, `DiscardWindow`, `RightClient`, `CleanHandover` |
| `server_send` | 2 workers, 1 slot, `Disconnect`, the send thread | `SendToClient`, `DisconnectsConnected` |
| `messages` | 3 slots, 3 connections, table of 2, 4 and 8 buckets, one call of any kind | `MapFinds`, `SettledBroadcast`, `CopiesAccounted`, `SendReturns`, `QueueDrained` |
| `client` | 2 sockets, 1 SOCKET value, 1 send at a time | `OneReceive`, `NoSocketLeak`, `EndReturns` |
| `api` | 2 objects, 2 ports, 2 `Initialize`, 2 `Accept`, 2 workers | `CrashNeedsRisk`, `ThreadsGone`, `WinsockPaired`, `CallsReturn` |
| `friends` | 2 users, 2 faults | `Paired`, `AnswerIsTrue`, `ImplementsFriendship` |
| `launcher` | 2 rows, updates of 0, 2 and 3 requests, 3 clicks, 2 updates | `CrashNeedsRisk`, `ShowsOpenRequests`, `UIBalanced`, `ResultGoes`, `PlayEndTold` |

Every module states its `TypeOK`. Types are proved for every module, by a theorem of
their own or as part of the inductive invariants.

Read together, the runs say where the code is safe, as long as Winsock leaves what it is
asked for pending: a server with one worker, or with several workers as long as the
application does not call `Disconnect`, but for the window of `DiscardWindow`; a client
until it sends; a broadcast over a table that has not just grown; a program of
clients in any order of calls between `Initialize` and `End`; a database whose second
`UPDATE` and `DELETE`s do not fail; a launcher whose buttons are not pushed during an
update. Each failure below needs exactly what the passing run leaves out.

One violation is a run of its own, because a single thread meets it at once:

| run | what happens |
|---|---|
| `broadcast_once` | `BroadCastMessage` looks up each client it iterates over (761). The lookup moves the node to its bucket of the grown table, ahead of the iterator: the first broadcast to the first client is queued twice; later growth also makes clients be left out. The comment at 750 says the packet goes to all clients |

### Where else a stated property fails

These are not runs of their own; each is seen by giving the named configuration
the constants and the one property of its row (with `FairSpec` where it is temporal).

| property | configuration and change | what happens |
|---|---|---|
| `UserLimit` | `MCDHServerSingle`, `Workers = {w1, w2}` | two workers both see room for one client (1016, 630); the test is an equality, so after that nobody is refused |
| `DiscardOnlyReused` | `MCDHServerWorkers` | `WSARecv` (1077) comes before `Is_Available` (1090): the first data of a client that another worker handles in between is thrown away and not received again. The comment at 489 says data is discarded while the socket is being reused. `DiscardWindow` says that this is the only such window |
| `SlotAlwaysRecycled` | `MCDHServerSingle` | a `DisconnectEx` that fails, or an `AcceptEx` that fails or takes a client at once (1113), is not tried again: the slot serves nobody any more. The comment at 166 says a socket is reused until the program ends. `SlotRecycled` says that nothing else loses a slot |
| `WinsockKept` | `MCDHServerSend` | a `DisconnectEx` that fails, or is done at once, makes `Disconnect_EX` call `WSACleanup` for the whole server (`NetWorkBase.cpp` 67). `DisconnectsConnected` says that it is not the server that causes the failure |
| `NoInvalidAccess` | `MCDHServerSingle` | a client refused during `Accept` is recycled before its slot is in the pool (1021, 644) |
| `DeleteFindsClient` | `MCDHServerWorkers`, `AppDisconnects = TRUE` | `Disconnect` and the client's own close delete the client twice; the second `find` (678) spins with the pool entry locked. The comment at 677 says it waits for another user of the entry |
| `RightClient` | `MCDHServerWorkers`, `AppDisconnects = TRUE`, no deadlock check | data of a disconnected client that waits in a batch is taken as its successor's on the same socket; the comment at 489 says such data is discarded |
| `EndReturns` | `MCDHServerSingle`, `Workers = {w1, w2}`, `MaxSends = 1` | a worker spins in `Delete_in_Socket_List` for a client that is gone |
| `RightReceiver` | `MCServerMessages` | a packet queued for a client goes to the next one on its SOCKET; the comment at 536 says a lookup tells that the client has left |
| `ClosesAll` | `MCDHClient` | the second of two closers forgets the new socket (`DHClient.cpp` 447); line 434 says two callers are safe |
| `Reconnects` | `MCDHClient`, `MaxSends = 0` | the connection is lost before the success flag is set (`DHClient.cpp` 340): the client stays "connected" to nothing. Line 96 says the thread is there to go on reconnecting |
| `DestructorDeletesAll` | `MCObjectPool`, `GrowDivisor = 2` | an object lost from the unlocked vector (`ObjectPool.h` 64) is never deleted |
| `GetReturns` | `MCObjectPool`, `GrowDivisor = 2`, no symmetry | `GetObject` spins when others take the objects it has just seen or made |
| `WholePackets` | `MCPacketStream` | `SendThread` gives up a packet on a connection that stays up (596) and goes on with the next, whose bytes the receiver takes for the missing ones |
| `DocumentedSizeReceived` | `MCPacketStream`, `BodySizes = {0, 5}` | a packet of the documented size is refused when the next one's bytes arrive with its end |
| `PortReleased` | `MCNetWorkAPI` | `End` closes the sockets of the pool, not the listening one, which stays while another object keeps Winsock up |
| `FailedAcceptLetsGo` | `MCNetWorkAPI` | an `Accept` that fails in its loop leaves the port bound: the next try fails in `bind` |
| `LimitKept` | `MCNetWorkAPI`, `UserCounts = {0, 1}` | `MAX_USER_COUNT` is static: a second server changes the first one's limit |
| `NoExtraSockets` | `MCNetWorkAPI`, `Modulus = 2` | a counter that wraps below the bound of the loop makes sockets until none is left |
| `MessagesDeleted` | `MCNetWorkAPI` | the server's `Recv` (226-236) deletes no `Network_Message` |
| `PairedDespiteFaults` | `MCDHDBCore` | the second `UPDATE` fails and one row is deleted (`DHDBCore.cpp` 287); a `DELETE` fails unseen (415); a crash |
| `RefuseKeepsOthers` | `MCDHDBCore`, 3 users | a refusal deletes every row of the user (`DHDBCore.cpp` 303) |
| `AskedAccepts` | `MCDHDBCore` | the one that asked accepts its own request; the comment at `DHDBCore.cpp` 266 says false without a received request |
| `NoCrash` | `MCGamePlayLauncher` | an update with more requests than rows (`GamePlayLauncher.cpp` 273; the comment at 272 says at most three are shown), or a click during an update |
| `ShownForItsTime` | `MCGamePlayLauncher` | `_Is_Visible_Start` is not cleared, so a later result is hidden at once (`GamePlayLauncher.h` 99) |
| `ResultInView` | `MCGamePlayLauncher` | a hide that was queued runs after the next result was shown |
| `OneGame` | `MCGamePlayLauncher` | the thread clears `m_Is_Playing` (174) after the button has set it for the next game (494) |
| `PlayEndAlwaysTold` | `MCGamePlayLauncher` | the same overlap: nobody tells the server that the game has ended |

### Bounds

Every bound is a constant used in a guard (`MaxHeld`, `MaxBlocks`, `MaxConnections`,
`MaxSends`, `MaxPackets`, `MaxSockets`, `MaxClients`, `MaxCalls`, `MaxInits`,
`MaxAccepts`, `MaxFaults`, `MaxPushes`, `MaxUpdates`), and `Powers` of the client map. Two threads suffice for a race
between two steps, and two connections per slot for one client to be confused with
the next. `BatchSize` 2 lets a completion wait behind another one; `server_send`
has 1, and holds with 2 as well (9.8 million states). The sizes in the
stream instance give packets shorter than, equal to and longer than a buffer,
headers cut in two, and a limit that two packets exceed together.
`MaxSends` of the server also bounds the chunks in flight; the runs with
fairness use 0, so no bound blocks a thread there. In the client it limits only
what the application hands over. `client` has one SOCKET value, so that every new
socket uses an old one's value; with two values it holds too (1.3 million states).

`messages`: three connections make the table grow twice, which is needed for a
bucket whose parent is itself not rehashed; the hashes send two clients to one bucket
of the small table. With two slots and two calls it holds too. `api`: two objects for
what they share (Winsock, the static), two `Accept` calls for the second one of a server,
two workers for the packet that is posted again; `Spare` is 1 instead of 10.
`friends`: two faults meet in one call (the second statement and its undoing); three
users with one fault pass too (0.8 million states, without what follows a fault that is
not undone). `launcher`: two rows and indexes up to 3 stand for 3 and 4: an update may be
empty, full or too long. `Visible_Time` 0 and 1 and three rows pass too.

Symmetry (slots, workers, threads, users) is used without liveness properties only;
`ImplementsFriendship` states no fairness.
`CHECK_DEADLOCK FALSE` is set where the system may really stop: a destroyed pool, a
finished stream, a server whose threads spin in `Delete_in_Socket_List`, a process
whose objects are gone, a launcher that has died.

### Fairness

Weak fairness of each thread: the Windows scheduler runs a runnable thread.
Strong fairness of taking a lock or popping a queue that is available again and
again (`FindAccessor`, `TryPop`, the client's critical section). Winsock completes
what is pending on a connection that has ended, sends, and `DisconnectEx`. In the
launcher time passes. Nothing is assumed of clients, of the remote server, of the
application, of the user, of the game's process, of the database, nor that a
holder of a pool object returns it: a `WSARecv` on a silent connection keeps its
`Overlapped` for ever. A refused `connect` may be repeated for ever.

## 4. What is proved

With TLAPS, for every value of the constants that satisfies the named assumptions of the
modules: finite sets of threads and slots, distinct model values, sizes and bounds that are
natural numbers. Assumptions that say more than that:

* `MemoryPoolAssumption`: each size grows by at least one block. The code's
  numbers satisfy it (2000, 1000 and 500 samples); a pool constructed with fewer than 40
  would not.
* `MapAssumption`: the table grows through powers of two, at most 2^16 buckets. oneTBB's
  segments double the table after the first ones; 2^16 is a bound of the model (`Powers`),
  which lets the prover see the powers of two one by one, since arithmetic with 2^n is
  beyond it. The hash is any function to the natural numbers.
* `LauncherAssumption`: there is a row, there are at least as many indexes as rows
  (`GamePlayLauncher.cpp` 273 counts further than the rows), and an update names a user
  once. The game server that sends the updates is not part of the repository; the requests
  it reads from the database are a `std::set` of names (`DHDBCore.cpp` 315), so none
  is there twice.

### The pools

* `PoolExclusiveUse`, `PoolLosesNone` (`PoolProofs`): `ExclusiveUse` and
  `NoneLost` for any number of threads. The invariant adds the types and that
  the objects in the queue and in use are among those created, so that a new
  object is new; the two statements are each about the queue and the holders
  together and are inductive with that.
* `PoolBoundedByDemand`: `BoundedByDemand` is not inductive, because a thread in the growing
  loop is going to make more. `Demand` counts the objects that are `Promised`, a pair for
  each iteration that is left: a thread begins to grow only when every object is in use
  (`NoneLost`), and at that moment all that is promised is one round of each thread.
* `MemoryPoolNeverSpins`: `PopFindsBlock`. The invariant adds
  `WorksUnderAccessor`: the queue a thread has tested is changed by nobody else.

### The server

* `ServerTypeOK` (`DHServerProofs`): type correctness with any number of workers.
  `TypeOK` is not inductive: the step of a thread uses the entry or the socket an
  earlier step has found. `WorkersBusy` and `CallersBusy` say which steps have one.
* `SingleWorkerUserLimit`: with one worker `UserLimit` holds, with the application
  and the send thread running. `LimitInv` adds that a worker between the test and
  the insertion still has room; with two workers that is false (the first row of the
  table of failing properties in section 3).
* `ServerSendToClient`, `ServerDisconnectsConnected`: with any number of workers, an application that
  disconnects clients, and sends. The invariant `LifeInv` is about a token: `AcceptEx`, its
  completion, the entry of the client map, the thread that reuses the slot, `DisconnectEx`
  and its completion hand a slot on. `OneLife` says that no two of them have it, `LifeKnows` what
  the holder can rely on of the connection, `OnlyMade` that a slot that is not made yet
  has no token, `AcceptEntries` and `Registered` tie a worker's and the send thread's steps to
  what they work on. A client that is erased by two threads is stopped by the map itself:
  only one `erase` finds it.
* `ServerOneDriver`, `ServerDeleteFindsClient`, `ServerDiscardWindow`, `ServerRightClient`,
  `ServerCleanHandover`:
  with any number of workers, slots, connections and batch sizes,
  **if the application neither sends nor disconnects** (`MaxSends = 0`, `~AppDisconnects`).
  These are hypotheses of the theorems because the properties are false without them
  (section 3). The token is now the operation that drives a slot: the outstanding call,
  its completion in the port or in a batch, the worker that handles it. `OneDrive` says
  there is one; `DriveKnows` says at each stage of the connection (`out`: no client; `in`: a
  client; `armed`: a client whose data may arrive; never `stale`) whether the slot is in the
  map and that `Is_Available` is set or about to be; `Undisturbed` that nothing is being sent
  and the application is not deleting. An operation that fails or is taken for failed ends
  the drive of its slot, so the theorems hold with every outcome of `AcceptEx` and
  `DisconnectEx`. `ServerDiscardWindow` is what `DriveKnows` says of `Is_Available`.

### The client

* `ClientTypeOK` (`DHClientProofs`).
* `ClientNoSocketLeak`, `ClientOneReceive`: of a client that has sent nothing, for any number of
  sockets and SOCKET values. Neither is inductive. `DutyInv` says that there is one duty in the
  client, a receive, its completion or the Worker that handles it or closes because of it
  (`OneDuty`), that while there is one the Connector takes itself to be connected and so
  makes no socket (`DutyConnected`), and that a thread about to forget the socket has closed
  it (`ForgetsClosed`). The critical section is not needed for this; the order of the steps is.

### The stream

For any header, buffer, limit and packet sizes, any number of packets, both directions and
every way TCP cuts the bytes (`PacketStreamProofs`).

* `StreamTypeOK`.
* `StreamIntactInOrder`, `StreamSafeNeverDropped`: both rest on `StreamInv`. It says that there
  are places `start[p]` in the stream of bytes, one for each packet that was taken, such that
  a packet starts where the one before it ends (`Offsets`), the stream has the bytes of each
  packet at its place (`Placed`) and is filled as far as the sender's chunk counter says
  (`Filled`), and that the receiver's buffer is the part of the stream from the start of the
  current packet to the last byte received (`Aligned`). The packet whose header is
  in the buffer is therefore always the current one, and a buffer that overflows holds
  either a packet above `SafeSize` or bytes after a packet that was given up (`Dropped`).
  `ParsedAll` says that a receiver that waits for more has no whole packet in its buffer, which
  bounds what the next receive can add.
* `StreamImplementsChannel`: `PacketStream` implements `PacketChannel`. What the channel has
  delivered is the longest prefix of what the receiver has handed out before the first packet
  that was given up (`Promised`). The step that needs care is `SendFails`: a packet given up
  now is later than every one that counts as delivered, so nothing delivered is taken back.

### The messages

For any number of slots, connections and calls, and any hash function (`ServerMessagesProofs`).

* `MessagesMapFinds`: what the table satisfies is `Good`. A node is in bucket `i` because its
  hash led there when the table had `q` buckets, and each other bucket to which its hash
  leads at a size after `q` is still marked `rehash_req` (`Placed`). `MapFinds` alone is not
  inductive: it says nothing about the buckets that the next lookup starts from. `Split`,
  pushing, unlinking and growth keep `Good`; `Acquire` is a chain of `Split`s and gives
  `Acquired`: the bucket is rehashed, the same nodes are held, buckets above it are untouched.
  `Acquire` and `Unlink` are recursive functions. That such a function exists, and what it
  gives at each argument, is proved by taking the least argument where it would fail
  (`SmallestNat`, from the well-foundedness of `<`), not by an induction theorem.
* `MessagesCopiesAccounted`: with `CopyInv`, which has the numbers in the queue distinct
  (`DistinctIds`) where the property counts them. The queue need not be empty when `End` has
  joined the send thread; that nothing is left afterwards is due to the loop at 294-298.
* `MessagesSettledBroadcast`: the property speaks of a call that has returned. `OnTheWay` says
  of one that is walking over a table where all nodes are at home how much it has queued:
  what is `Due` to the nodes the iterator has `Passed`, and nothing to the others. It is
  kept by lookups (nothing moves in a table at home), by erasures (the order of
  the rest does not change; the walk goes on only from a node that is still there), and
  the iterator's step passes exactly one more node. `Numbered` keeps two clients from having
  the same number.
* `MessagesTypeOK`: with `SizeInv`, `my_size` is the number of clients, so an erasure does
  not take it below zero.

### The facade

* `APICrashNeedsRisk`, `APIThreadsGone`, `APIWinsockPaired` (`NetWorkAPIProofs`): for any number
  of objects, calls, sockets and packets. `APIInv` says for each object which pointers are
  valid at which step of which call unless a risk has been recorded, and, unless a server
  was opened twice, how many threads there are at each step. Winsock's count is that of the
  objects under a facade, so its proof counts a set that grows and shrinks by one.

### The database

* `DBPaired`, `DBAnswerIsTrue` (`DHDBCoreProofs`): for any users and faults. `DBInv` says for
  every statement of every call how the tables differ from those at its beginning
  (`Progress`), as long as no fault that is not undone has happened.
* `DBImplementsFriendship`: `DHDBCore` implements `Friendship`. A step of a call is a stutter
  until the step that returns, which is one whole operation (`Whole`) or none; a fault
  that is not undone is `Friendship`'s `broken`.

### The launcher

* `LauncherUIBalanced`, `LauncherCrashNeedsRisk`, `LauncherShowsOpenRequests`
  (`GamePlayLauncherProofs`): for any rows, updates and clicks. `LauncherInv` has the position of
  the two threads in their handlers (`Positions`), what the histories record (`Recorded`), the
  label and its queued hides against `_Current_Visible_State` (`Label`), and the rows in the
  middle of a sort or an update (`RowsOK`).

### Only model-checked

* Liveness: `CallsReturn`, `AllReceived`, `SlotRecycled`, `EndReturns`, `SendReturns`,
  `QueueDrained`, `ResultGoes`, `PlayEndTold`. Fairness and ENABLED are beyond the prover.
* `BroadcastOnce` and the properties of the table in section 3, which do not hold.

Every invariant of a passing run and both refinements are stated by a theorem. Six
of the server's (`UserLimit`, `OneDriver`, `DeleteFindsClient`, `RightClient`, `CleanHandover`,
`DiscardWindow`) carry the hypotheses named above, which are also those of the runs.

## 5. Not modelled

* What the completion that still arrives after an `AcceptEx` that completed at once
  does (142 and 1113 take it for a failure and return its `Overlapped` to the pool). It is
  thrown away in the model, which supposes that the `Overlapped`, at the end of a queue of
  2000, is not in use again by then; else the worker works on another operation's, or
  returns it to the pool twice. `NetWorkAPI` has the state `Accept` leaves then.
* `CreateIoCompletionPort` failing for a socket (156-164): the `Socket_Struct` is deleted
  and then used, without an error to the caller.
* `GetQueuedCompletionStatusEx` failing: with an infinite timeout it does not
  while the port is open.
* Leaks of `Overlapped` objects on failure paths (709/739, 1062) and the number of
  `Overlapped` objects: `ObjectPool` grows, so nothing in the server depends on it.
* All printing, `TimeThread`'s counters included. `IP` and `PORT` of a client.
* `Initialize` of an object that has not been ended, which loses the `DHNetWork` it had.
* `SearchID`, `ComparePassword`, `GetIdentifier` and `QueryDB`, which read; SQL itself.
* The launcher's login and account windows: one thread that sends and polls
  `Recv` until the reply is there (`LoginLauncher.cpp` 65), for ever when the connection
  is lost in between. The tree of friends and the window handling of the main window.
* The test programs.
* Vendored code: oneTBB but for the hash map's table and iterator, FlatBuffers
  (twice), MySQL headers, headers generated from the packet schemas. This is some 62
  of the repository's 68 thousand lines of C and C++, and none of it is this program's
  logic; the lines that are mapped are nearly all of the network library, the
  database's operations and the launcher's receive thread.

## 6. Plan

1. Done: pools, server life cycle, framing with its abstract channel, client
   connection; type correctness, pool and limit theorems.
2. Done: server messages over the client map, the facade, `DHDB` with its abstract
   friendship, the launcher's main window.
3. Done: proofs about the database and its refinement, the facade, the launcher, the
   rest of the pools' and the server's invariants, the client before it sends.
4. Done: proofs about the stream and its refinement, the client map and the messages.
5. Left: what section 5 names, and liveness, which stays with TLC.
