# TLA+ models of CppSTL-ShIKouMuZi

The repository is a C++ toolbox: containers and a ring shared by threads
(`MSTL`), allocators (`MAllocator`), a timer (`MTimer`), an event loop
(`MEventLoop`), a POSIX signal dispatcher (`MSignal`), an SQLite wrapper
(`MDataBase`), file utilities (`MFileSystem`), ffmpeg wrappers (`MMedia`) and,
as its largest part, networking over boost::asio (`MNet`). It has no documents
besides comments in the headers and sources. All paths below are under
`src/src/`.

What is hard to test in it is what several threads and completions do to one
session, queue, lock, task or connection, so that is what the models are about.
A test of the repository drives one thread; TLC here tries every order of the
steps of several, and TLAPS proves what matters most for any number of them.

## Inventory

| Component | State it keeps | Operations | What makes it correct |
|---|---|---|---|
| `MSTL/include/MSyncAnnularQueue.h`, `MAtomicLock.h` | ring of `CAPACITY` nodes, `m_begin`, `m_end`, an atomic flag | `push` (gives up the oldest element when full), `pop`, `front` (a pointer into the ring), `empty` (no lock) | the lock excludes; the ring is a bounded FIFO; a front pointer stays good for a lap |
| Session receive queue, `MNet/MAsyncSocket/MSession.cpp` | `recv_completed_queue`, an annular queue | `getPopFrontRecvMsg`: poll `empty`, `front`, `pop`, read | no null pointer, FIFO until an overflow, everything drained |
| Receive framing, `MNet/MAsyncSocket/MAsyncSocket.cpp`, `MNet/MMsgNode` | partial package and its counters, `recv_tmp_buff`, `head_parse` | `readPackage`, `handleRead`, the raw `readFromSocket`, `readAllFromSocket`, `readCallback` | packages are cut where they were put together, one handler at a time |
| Sending, same file | per session `send_queue`, `send_tmp_buff`, `send_pending`; the map `sessions` | `writePackage`, `writePackageWithStrand`, `splitSendPackage`, handlers of writes | bytes reach the peer whole and in order; one write at a time; nothing taken is stranded |
| Notified thread, same file | `session_notified_queue`, a mutex, a condition variable, the thread | `handleRead` queues a session and notifies; the thread runs `notified_fun` | a package that came reaches the logic layer, no deadlock, no spinning |
| Logic system, `MNet/MLogicSystem` | message queue, work flag, callbacks by id | `pushToMsgQueue`, work thread `ctrlRecvMsg`, `notifiedFun`, destructor | callbacks in order, none skipped, a stop ends the thread with the queue drained |
| Coroutine socket, `MNet/MCoroutineSocket` | acceptor, one session with a receive buffer and node | accept loop, `readFromSocket` coroutines, `getPopFrontRecvMsg`, close | a package that is handed out is whole and stays so |
| Synchronous sockets, `MNet/MSyncSocket`, end points | acceptor, socket, byte counters | bind, listen, accept, connect, `write`, `read` | what a call returns agrees with what it moved; calls return |
| WebSocket server, `MNet/MWebSocket` | `m_send_queue` and its mutex, map of connections | `send` and its handler, accept, read | one `async_write` at a time, messages are written |
| HTTP server and client, `MNet/MHttpSocket` | connections with a deadline timer, files by target | accept, read, respond, write, time out; the client's chain of operations | every connection is released, nothing is used after its end, an answer reaches its client |
| IO pools, `MNet/MIOPool` | io contexts, work guards, threads, an index | round robin `getIOContext`, `stop` | the index stays in range; every thread joined once |
| Signal dispatcher, `MSignal` | a queue filled by the handler, flags, a dispatching thread | handler, dispatch, registration, end of the statics | no signal is lost; no callback without a signal |
| Timer, `MTimer` | 1016 task slots with flags and counters, 8 child threads, a clock thread | `set_task`, `start_task`, `stop_task`, `del_task`, `call_task` | the call of a running task returns; slots come back; no division by zero |
| Loki allocator, `MAllocator/MLOKIAllocator` | chunks with a free list threaded through one byte of each block | `Init`, `Allocate`, `Deallocate` | blocks are disjoint; what is freed comes back |
| Event loop, `MEventLoop` | a priority queue of events | `postEvent`, `start` | the event that ran is the one removed |
| Containers, `MSTL/include` | trees, skip list, hash map, heap | insert, erase, find | they are the set or map they stand for |
| Other allocators, SQLite, files, FTP, media, logging, observer | see "Not modelled" | | |

How they interact. The io thread runs the completion handlers of a socket.
`handleRead` pushes packages to the session's `recv_completed_queue` and the
session to `session_notified_queue`, and notifies the notified thread, which
runs the function the socket was given. `LogicSystem::notifiedFun`, meant for
that place, takes a session from the one queue and, through
`getPopFrontRecvMsg`, a package from the other, and hands it to
`pushToMsgQueue`; the work thread of `LogicSystem` runs the callback. All of
these queues but the last are `MSyncAnnularQueue`s. Going out, any thread may
call `writePackage`, whose queue and flags the io thread's `handleWrite` shares.
The pool of io contexts registers its `stop` as the callback of SIGINT and
SIGTERM with the signal dispatcher. `MHttpClient` talks to `MHttpServer`, whose
connections point back to it.

Hard behaviours: threads between the calls of a sequence that is atomic in
nobody's mind (`empty`, `front`, `pop`; test of `send_pending` and start of the
write; read of an index and its increment); pointers used after the lock is
gone; queues that overflow silently and independently of each other; condition
variables notified without the mutex or waited for without a condition; partial
writes and short reads; connections lost or closed between two completions;
deadlines that expire beside a completed read; threads detached or told to stop
at any step; a server destroyed under its connections; tasks deleted while a
thread counts them; counters of one byte or of 32 bits at their limit.
`hazards` of `PROJECT.json` has them line by line.

## Modules

| Module | Models | Composition |
|---|---|---|
| `AnnularQueue` | the promise of the ring: a bounded FIFO whose push gives up the oldest element | abstract |
| `MSyncAnnularQueue` | the ring with its spin lock, one action per access | implements `AnnularQueue` |
| `MCSyncAnnularQueue` | symmetry for TLC | extends the ring |
| `MSessionRecv` | `getPopFrontRecvMsg` as calls of the ring's operations | extends the ring |
| `MHandleRead` | the framing of a session's bytes, by packages or raw | extends `MSessionRecv` |
| `MAsyncSend` | sending of packages on a session and its socket | uses the abstract queue the ring implements |
| `MNotify` | the way of a package from `handleRead` to the logic layer | the same |
| `LogicSystem` | work thread, pushing threads, destructor | |
| `MWebSocketSend` | `MWebSocketConnection::send` and its handler | |
| `MTimer` | slots, child threads, clock, operations | |
| `MHttpServer` | the server, its connections and their deadlines | |
| `MHttpClient` | the client, and the server with its peers | extends `MHttpServer` |
| `MAsioIOServerPool` | the pool: users, threads, `stop` | |
| `MSignalUtils` | the dispatcher, and the shutdown of the pool through it | extends `MAsioIOServerPool` |
| `MCoroutineSocket` | accept loop and reading coroutines of a session | |
| `MSyncSocket` | a server and a client with a pipe between them | |
| `MChunk` | a chunk of the Loki allocator and its owners | |
| `MHandleRead_proofs` | theorems about the ring, the session's queue and the framing | extends `MHandleRead` |
| `MAsyncSend_proofs`, `MTimer_proofs`, `MChunk_proofs`, `MSignalUtils_proofs` | theorems about each module | extend it |
| `LogicSystem_proofs` | theorems about `LogicSystem` and `MNotify` | extends both |
| `Servers_proofs` | theorems about `MWebSocketSend` and `MHttpClient` | extends both |
| `Sockets_proofs` | theorems about `MSyncSocket` and `MCoroutineSocket` | extends both |

State and actions have the names of the code. A `pc` per thread says which
statement comes next; a history variable (marked as such) is only read by
properties. Where the code ends the process (an exception out of a thread, a
division by zero, a use of something that is gone) a fault variable says so, and
the model takes no further step. Definitions whose comment begins with "Slip"
are the definition after them with a plausible mistake; no `Next` uses them, and
`mutants` of `PROJECT.json` pairs each property with one that breaks it. `map`
gives the lines of every definition.

### The ring (`MSyncAnnularQueue`)

`push`, `pop` and `front` take `m_lock` (`Lock`: the exchange that finds it
free; a failed exchange changes nothing and is no step), run their body one
shared access at a time (`PushDrop`, `PushStore`, `PushEnd`, `PopAdvance`,
`FrontRead`) and give it back. `empty` reads `m_begin` and `m_end` in two steps
(`EmptyBegin`, `EmptyEnd`) with no lock. An element is its number in the order
of the pushes. `Contents` maps the ring to the abstract queue: a push takes
effect when it has made room.

### Receiving (`MSessionRecv`, `MHandleRead`)

`getPopFrontRecvMsg` calls `empty` until it is false, then `front`, `pop`, and
reads through the pointer; every call is the ring's own actions, so pushes of
the io thread come between any two. The copy `*ret_msg` (`Return`) reads two
words without the lock: while a push is storing into the node it is reading, it
gets either element or a mixture of both, `Torn` (`CopyOf`). The store itself is
one step of the ring; that it takes time shows where it can be seen, at this
reader. There is one consumer per session queue, as in the code, where
`notifiedFun` holds the notified mutex over the call.

`MHandleRead` puts the reading of the socket in front of it. A chain of reads is
a producer of the ring; it is started by `readPackage` (`handleRead` with its
header, body and re-arm branches) or by the raw `readFromSocket` and
`readAllFromSocket` (`readCallback`). A byte is its place in the stream, so that
the model knows where packages begin without building them; a read returns any
number of the bytes there are, up to the buffer. A header that the code refuses
(a size above the maximum, or one in the wrong byte order, as the sending node
writes it) is a size of `MAX + 1`. Two chains of reads on one session write one
buffer at once; the run has one chain.

### Sending (`MAsyncSend`)

A caller pushes, tests `send_pending`, takes the front, pops and starts the
write, each a step; the io thread handles one completion at a time in the same
way. `splitSendPackage` pushes its chunks one by one. The socket is external:
`Transfer` writes some or all of a started write, `Break` loses the connection,
`Fail` completes with an error. Callers do not wait for each other or for the
handler. The history variable `overlap` says that a call went on to start a write
beside another one, or on a queue emptied since its push (line 905 tests a flag
that only `handleWrite` sets, so the first write of a session is never pending).
What the properties promise of the bytes and of arrival they promise until then;
calls that are answered `MNET_WRITE_PENDING_NOW` beside a write are no overlap,
and `Delivered` covers their packages. `stranded` names the packages whose
callers got that answer between the handler's test of the queue (443) and its
clearing of the flag (445), until the next call that starts a write. `PendingGoes`
and `Attended` do not need `overlap`. After an overlap the build races on a
`shared_ptr`, and the model says nothing more about bytes.

### Notification (`MNotify`)

Two sessions, the io thread, the notified thread and a thread of the program
that calls `LogicSystem::notifiedFun` itself. `getPopFrontRecvMsg` is one step
here, since `MSessionRecv` has its inside, and `handleRead` is the completion of
a package. `LogicSystem::notifiedFun` keeps the pointer that `front` gave it
(`pointer`, a place of the ring of sessions `node`) and dereferences it when the
lock is gone, once for the session's queue (`Dereference`, `TakePackage`) and once
more for the node it makes (`MakeNode`), before it pops. Pushes come between any
of these and write the node when the ring has gone around; `misread` has
the sessions read first that are not the one `front` showed. The push of a session
is one step, so that no copy of one is torn here. `notified_fun` is the default,
which does nothing, or `LogicSystem::notifiedFun`; `Init` chooses.

### Logic system (`LogicSystem`)

`ctrlRecvMsg` step by step with `m_lock`; `pushToMsgQueue` is one critical
section; the destructor clears the flag and notifies without the lock in two
steps. A message has a callback or not. A message without one is popped, one with
a callback is called for and not popped (line 146). `called` counts a run of
calls for the same message once.

### WebSocket (`MWebSocketSend`)

A block under `m_send_mutex` is one step, `async_write` another. The stream is
external and writes, breaks or fails. Whether the bytes shown to `async_write`
are still there is a nondeterministic choice, since they belong to the caller's
string.

### Timer (`MTimer`)

A child's scan is a test of the flags and a count per task, two steps, so that
an operation of a controller comes between; `del_task` is three stores, three
steps. The flags are a set, `&=` an intersection. Ranges and the thread of a slot
are the arithmetic of `getMTimerData`, with its store to the wrong slot. A read
behind the last slot does nothing or ends the process. A wait may end for no
reason. Wake-ups are counted modulo `WakePeriod`, a multiple of every interval,
which is all that the test of the remainder sees.

### HTTP (`MHttpServer`, `MHttpClient`)

One thread runs all handlers, so a handler is one step; what interleaves is the
completion of operations. A connection has a read, a write and a wait for its
deadline, each "waiting", "ok", "error" or "handled", and handlers of completed
operations run in any order. A request is a verb and a target, or malformed, or
never sent. A registered target has a file that can be loaded or not, at the time
of the request (`Loads`): `load_string_file` throws when it cannot, out of the
handler and of `run()`. A peer may be an `MHttpClient`, or another program that
may leave at any time. `Destroy` ends the server object while connections, which
point to it, are outstanding; `thrown` and `dangling` say which connection ended
the program. The client's chain (resolve, connect, write, read) does nothing on
an error; its read has no completion condition, so it ends with the server's
close.

### Shutdown (`MAsioIOServerPool`, `MSignalUtils`)

`getIOContext` is the read of the index and its increment and wrap, without a
lock, in steps; `stop` resets the work guards and joins thread after thread. The
work of a user may start itself again, as an accept does (`Loopers`). The signal
handler pushes, sets the flag and notifies, three steps without the mutex; the
dispatcher holds the mutex from its test of the flag over the callbacks to the
pop. Constructing the pool does not compile as written (a private constructor
under `MSingleton`); it is modelled as if an object existed.

### Coroutine socket (`MCoroutineSocket`)

The accept loop re-arms itself with the same session and looks at no error, so a
session that is open completes every further accept at once. Every call of
`readFromSocket` starts a coroutine; all share one buffer and one node, and the
entries of the queue are that node. Bytes are grouped into the header, the
message and the byte that ends a package. A header names a size that is too
large ("bad"), or smaller than the header itself ("small"): `msg_size` wraps then,
both tests pass, and the coroutine takes everything that comes (`Swallow`) past
the end of its buffer. What that does to the heap is outside the model.

### Synchronous socket (`MSyncSocket`)

The calls that set up a connection in every order, then `write` and `read` as
loops over a pipe with room for `Room` bytes. Counters wrap at `Wrap`, which is
`2^32` in the code. A `connect` may fail: that of an end point gives an empty
adapt, that of a host and a port one whose socket is not connected. An end that
closes with bytes unread resets the connection (`Reset`), and the other end's read
returns `MNET_SOCKET_SYSTEM_ERROR` where an ordinary close is an end of file; the
kernel may take bytes, and `write` count them, after the peer has closed.

### Chunk (`MChunk`)

The free list is threaded through the first byte of every block, which owners
overwrite at will (`OwnerWrites`, any of `ClientBytes`). `Byte` is
256 in the code. `far` records that a block came back whose offset does not fit a
byte, which the code truncates before it divides (line 63).

## Runs

| Run | Module, bounds | What it shows |
|---|---|---|
| `ring` | `MCSyncAnnularQueue`: 2 pushing and 2 popping threads, 3 nodes, 5 pushes, symmetric threads | The lock excludes; the inductive invariant `RingInv`; the ring implements `AnnularQueue` |
| `recv` | `MHandleRead`: 1 chain of reads, 1 consumer, 3 nodes, 4 pushes; header of 2, packages of 3 to 5 and a refused size; 3 packages sent | No null pointer and late reads by whole laps (`ReadInv`); whole packages, once and in order, until the first overflow, though a copy may be made of a node that a push is writing; a package only comes out of a read that filled the buffer to the byte (`FullReadsOnly`); what took too many bytes never ends (`StuckForGood`); the queue is drained; a raw read that completed floods the queue (`RawFloods`) |
| `send` | `MAsyncSend`: 2 callers, queue of 2, packages of 2 bytes, 2 chunks, 3 packages, partial writes | Until a call starts a write beside another: one write, no missing front, bytes whole and in order, every package asked for arrives, answered as pending or not, unless given up, stranded in the handler's window or the connection is lost. With or without overlap: whenever `send_pending` is up, somebody is on the way to lower it (`PendingGoes`), and no package lies in the queue unattended but a stranded one (`Attended`) |
| `logic` | `LogicSystem`: 4 messages, any subset with callbacks, a stop at any step | Order, none skipped, drained if the thread was on its way to look; the head of the queue that is never removed; a pushed head is served; which stops end |
| `notify` | `MNotify`: 2 sessions, queues of 2, 4 packages, 1 caller | Order per session; no spinning and no package with another session's node but after an overflow of the queue that the pointer goes into; the only causes of a sleep on a package and of a self-deadlock; every package taken but after an overflow or a self-deadlock |
| `websocket` | `MWebSocketSend`: 2 senders, 3 messages | One write at a time of a message that is in the queue; a first message is read; a stranded queue stays so |
| `timer` | `MTimer`: 2 slots, 2 child threads, 1 controller, 1 caller, intervals 0 and 3 | `task_size` agrees with the flags; the only causes of the end of the process; which calls return; that a working task deleted ends the process; that the end of the clock is final |
| `http` | `MHttpClient`: 2 connections, 1 target whose file can be loaded or not, server destroyed at any step | A connection lives exactly as long as its deadline; what may throw out of `run()` and what uses a server that is gone; every connection is released; orphans touch the server; the client sees nothing before the deadline |
| `shutdown` | `MSignalUtils`: 2 users of 1 context, one with an operation that starts itself again, 2 signals, 2 stoppers | The interleaving each fault needs (index past the end, callback of an empty queue, thread joined twice, missed notification); which signals are dispatched, which stops and registrations return |
| `coroutine` | `MCoroutineSocket`: 2 coroutines, 3 packages, 2 connections; headers good, too large, too small or of an empty package | Packages whole unless coroutines overlap or a close cuts one; after a close, none whose header came over a later connection; an entry emptied under its reader; what is read in the end |
| `chunk` | `MChunk`: byte of 8 values, 4 blocks of 3 bytes | The threaded list is the stack of free blocks, and each block is free or has its one owner, until a block beyond the byte comes back |
| `sync` | `MSyncSocket`: counter of 4 values, room of 2, sizes 1, 3, 4, 2 calls per end; connects that fail, closes with bytes unread | A write that returns 0 moved each byte once and in order, and none does whose size the counter cannot hold; what reads leave and return, after a reset too; which calls end |

Why the bounds are enough to be of interest. Three nodes hold two elements, the
least with an inside and an overflow, and five pushes go around more than once
and a half. In `recv`, a package of 3 shares a full read with the start of the
next, 4 is more than what is left of it and less than the whole, 5 is the
greatest and 6 is refused; three pushes overflow the ring, and the fourth writes
the node that the first was copied from. Packages of two bytes have a byte at
which a partial write ends and one at which it does not; a queue of two is filled
by one `splitSendPackage` of two chunks, and a third package overflows it; a call
is answered as pending from the second package on, and the third can be the one
stranded. A fourth, whose call would take the stranded one with it, is beyond
this run; what is proved for any number is `Attended`, that with that call the
package is no longer left alone. In `notify`, queues of two make a ring of three
nodes, which the fourth package goes around. In `logic`, four messages let one be
in a callback, one be without callback and two wait. With three messages a
WebSocket queue has one being written, one stranded and one that comes later. An
interval of three time units is the least that has wake-ups which do not notify,
because the code notifies on a remainder of zero and of one. Two slots and two
threads have a slot whose own thread covers it, one whose own thread does not,
one that another thread covers, and a range that ends behind the last slot; with
three slots TLC does not end in five minutes. With 1016 slots and 8 threads the
same holds of slots 0, 1 to 7 and of the last range, and slots from 128 on all
name thread 0, whose range is 0 to 127. Two connections are one that outlives the
other and one that is accepted when the server is destroyed. One context is
wrapped by one user and passed by two. Two coroutines read after each other,
beside each other, and after a close under the first. Block 3 of a chunk of
three-byte blocks is at offset 9, past a byte of eight, so that both the exact
and the truncated index occur. A size of 4 is one that a counter of 4 values
cannot hold, and room of two makes every larger write partial. Where a theorem
below states the property, the bound no longer matters.

Deadlock checking is off where the program stops in the model: after the bounded
number of packages, messages, pushes or calls, when a connection is lost or
every connection is over, when a chunk was left, and when the process has ended.

Fairness. A thread inside a call goes on (weak). The spin lock gets weak
fairness only: a thread may lose every race for it, and no property needs more,
because pushes are bounded. The io thread and the strand run what is posted, and
the peer reads while the connection stands (weak). No peer is assumed to send,
to answer or to leave. For a mutex that is released again and again, `MNotify`,
`MTimer` and `MSignalUtils` assume that a thread which waits for it is let in
(strong): the lock is an operating system's. No wait is assumed to end without a
notification, so no property holds thanks to a spurious wake-up. A deadline
expires (weak).

## What the passing runs say of the code

There is no run that is expected to fail: where the code and a comment disagree,
a property says exactly when, and holds of the code.

* `MAsyncSocket.cpp:905` tests `send_pending`, which only `handleWrite` raises, so
  a call during the first write starts a second one and does not return the
  `MNET_WRITE_PENDING_NOW` that the comment promises (`overlap` in `send`). A call
  that is answered so between lines 443 and 445 of the handler leaves its package
  in the queue until a later call starts a write (`stranded`, `Attended`).
* The comment at `MAsyncSocket.cpp:248` speaks of the length of a header where 249
  compares the maximum of a package: only full reads deliver (`FullReadsOnly`).
  `recv_pending` is never raised, so the promise of `readPackage` of
  `MNET_READ_PENDING_NOW` is never kept.
* `LogicSystem.h:146` pops only messages without a callback (`HeadOfLine`), and a
  thread told to stop while in a callback leaves by the loop condition of line 103
  and does not drain (`DrainedIfAttending` has the case that does).
* The notified thread calls `notified_fun` with the mutex held that
  `LogicSystem::notifiedFun` locks (`SelfLockCause`), and waits without a
  condition, so that an early notification is lost (`SleepsUntold`).
  `notifiedFun` uses a pointer into the ring of sessions when the lock of the ring
  is gone; what it reads there is what `front` showed until the ring has overflowed
  (`OwnSession`), and after that it may take a package of another session, give it
  on under the wrong one, or wait with the mutex held (`NeverSpins`).
* A file that is registered with `MHttpServer` and cannot be loaded when it is
  asked for ends `run()`, and with it the service of every connection
  (`MHttpServer.cpp:206`, `ThrowCause`).
* A client of the synchronous server that closes without having read everything
  makes the server's read return `MNET_SOCKET_SYSTEM_ERROR` (`ServerReadReturns`);
  a client that read everything, 0.
* The coroutine socket tests only the upper end of a package's size: a header that
  names less than its own size makes it read whatever comes past its buffer
  (`MCoroutineSocket.cpp:118`, `Swallow`); nothing of that is pushed as a package.
* `MTimer.cpp:196` stores `thread_pos` to the wrong slot; a started task may have
  no thread that counts it, and its calls do not return (`Covered` in
  `CoveredReturns`). Deleting a working task ends the process (`DeletedKills`).
* A connection of `MHttpServer` lives until its deadline whatever it has answered
  (`LifeIsDeadline`), and `MHttpClient`, which reads to the end of the
  connection, has an error in its hands then and parses nothing
  (`AnswerHeldBack`).
* A second WebSocket message queued during a write ends the sending
  (`StrandedForGood`).
* The read loop of the synchronous client counts what it moved as a failure
  (`ClientReadFails`).

## Proofs

`tlapm` checks every step. Every safety property that a run checks is a theorem:
each invariant, and each action property. The only assumptions are the named
`ASSUME`s on the constants and two hypotheses that theorems state: that one
thread controls the timer (`OneController`), and that one thread, no io thread,
reads a session's queue (`OneReader`). Both are how the library uses the code:
`getPopFrontRecvMsg` is called where the notified mutex is held, and not by a
handler of the session. With two readers `ReadInv` fails, as it must: both see
the one element left, and the second `front` is null.

* `MHandleRead_proofs`, the ring, for any capacity, threads and number of pushes:
  `TypeCorrect`, `LockExcludes`, `RingCorrect`, `LockCorrect`, `PointerStable`,
  `QueueImplemented`. `MutualExclusion` is inductive with the types: the flag is
  set exactly while some thread is inside. `RingInv` is what makes the front
  pointer's promise inductive. To know that a node keeps its element until
  `CAPACITY` later pushes one must know what each node holds: `LapElements` says it
  by the distance from the node written last. `OnlyWritten` keeps `m_begin` from
  running into nodes never written, and `RoomForPush` keeps a push under way from
  closing the ring on itself; `CAPACITY = 1` is a ring that holds nothing, and is
  exempted. The refinement is proved step by step: what the ring holds is the last
  `Held` of the elements `Pushed`, a statement about numbers and not about an
  enumeration of nodes, under which `PushDrop` is the abstract drop and push,
  `PopAdvance` the abstract pop, and all else a stutter.
* `MHandleRead_proofs`, the callers, for any number of io threads, capacity, sizes
  and splits of the stream: `ReadCorrect`, `ReadInOrder`, `SessionInOrder`,
  `OnlyFullReads`, `StuckStays`. Steps of a session are steps of the ring or
  stutters of it, so the ring's invariants carry over. That `front` is not null is
  a fact about the time between `empty` and `front`: with one reader only pushes
  come between, and no push ever empties the ring (`Shown`). That a late read is
  whole laps newer needs that a node is only written over by the element of its
  next lap (`Laps`), whether it was popped or dropped. The order needs what has
  left the ring by number (`InOrder`): it is what was returned and at most the
  element between `pop` and the return. That no copy is torn then is a matter of the
  same numbers: a push that writes the node of an element not yet returned has made
  the ring overflow. `OnlyFullReads` is a matter of accounts:
  packages delivered, those inside a push, the one whose header is known and the
  full reads that still have all their bytes are together no more than the full
  reads made (`Paid`).
* `MAsyncSend_proofs`, for any callers, queue, packages and partial writes:
  `SendCorrect`, `WireCorrect`. `OneWrite` alone is not inductive: one needs that
  among writes, completions and agents between taking and writing a package there
  is at most one (`Single`), and where the package of each is (`Shape`), until an
  overlap. `PendingGoes` is carried without that condition, and with it `Attended`:
  a caller that is told to wait outside the handler's window leaves somebody behind
  who will ask the queue, and whoever asks finds it empty or goes on. It needs in
  addition that a caller has a package to test for only while it goes to test
  (`Testing`). The order on the wire
  needs in addition that the queue rises above everything already taken, that
  later packages are not counted yet (`Order`), and that the wire ends exactly
  where `send_tmp_buff` has been counted to (`Reached`).
* `LogicSystem_proofs`, for any number of messages: `LogicCorrect`,
  `NeverPastHead`. The queue is what was pushed less what was taken (`QueueIs`),
  and `called` is, in order, the known messages taken and perhaps the head
  (`CallsAre`); what the work thread has seen under the lock stays (`Seen`), and a
  thread that attends the stop still owes the messages before it (`Promised`).
* `LogicSystem_proofs`, the way there (`MNotify`), for any sessions, callers, queue
  capacity and number of packages: `NotifyCorrect`. `NeverSpins` says that a session
  in the queue has a package, until one was given up. It is true of one place in
  the queue only together with all others, so the invariant counts (`Accounts`):
  the places of a session in `session_notified_queue`, one to come from
  `handleRead` and one being taken are together covered by its packages,
  whichever step the caller is at, unless a package was taken in its place through
  a pointer that pushes had reached. `Kept` says that the ring's nodes hold the
  queue, by the number of notices modulo the nodes, and so that the pointer is to
  the first of them until an overflow; `InHand`, where the package is between its
  queue and the logic layer. `Turns` says who holds the mutex at which step
  and that the notified thread never gets into `notifiedFun` behind its own lock;
  `Arrivals`, that what a queue holds of a session is later than what the logic
  layer has of it; `Untold` and `Announced`, that a notification that nobody
  waited for left somebody about to look.
* `Servers_proofs`, WebSocket, for any threads and number of messages:
  `OneWriteCorrect`, `QueuedCorrect`, `StrandedStays`, `WebSocketCorrect`.
  `OneWrite` needs that a caller that finds the queue empty knows that nothing is
  being written (`QueuedWhileWriting`), which needs `OneWrite`, because the handler
  may empty the queue only if its write was the one write.
* `MSignalUtils_proofs`, for any users, contexts and signals: `ShutdownCorrect`.
  A lone caller of `getIOContext` still sees the index it read (`OneTaker`); a flag
  that is up stands for an element of the queue that is not being called
  (`FlagMeans`); what a lone `stop()` has joined are the threads before its place
  (`LoneStop`); a signal pushed since the dispatcher's test has a handler that has
  not set the flag yet (`WaitMeans`). Each is conditional on the absence of the
  interleaving that the property names as the only cause of the fault.
* `MTimer_proofs`, for any slots, threads and callers: `ClockEndIsFinal`, for any
  number of controllers, from the invariant that a child which scans owns the mutex
  and an ended clock owns it for good; `TimerCorrect`, for one controller, from the
  agreement of flags and counters between the steps of `set_task` and `del_task`.
  With two controllers `task_size` is not exact: the scan for a free slot and the
  store to it are two steps.
* `Servers_proofs`, HTTP, for any connections and targets: `HttpCorrect`,
  `NothingBeforeDeadline`. Per connection, `ConnOK` says which operations can be
  outstanding together and `PeerOK` what its peer can have received by then. Whether
  a connection that threw had begun a write tells the two causes of `ThrowCause`
  apart.
* `Sockets_proofs`, synchronous, for any sizes, room, counter and splits:
  `SyncCorrect`. A call under way has the bytes between where it began and
  `total_bytes` in the pipe or with the other end (`Writing`, `Reading`); only the
  server's end of a connection may be linked before it was accepted (`Roles`); an
  end is reset by the close of the other over unread bytes and by nothing else
  (`Told`).
* `Sockets_proofs`, coroutines, for any finite number of coroutines, any packages
  and connections: `CoroCorrect`, `AlwaysEmptied`. A package is whole because four
  things agree at every wait: the receive buffer, the node, the number of units
  that the coroutine waits for and the stream. `Track` says where within its
  package a lone coroutine is, from `StreamOrder` (what is to come is whole packages
  behind a part of one), `Known` (no byte is of a package not sent) and `Alone`
  (without an overlap one coroutine is under way). After a close, `Sockets` and
  `Deaf` say what a coroutine left over can still take for a header. That an
  entry is emptied under its reader comes from counting: the queue has as many
  entries as there are notices, and one more while a coroutine is between its push
  and its clear (`Notified`), and none but that one is what the node holds
  (`Shared`).
* `MChunk_proofs`, for any block size and number: `ListExact`,
  `SmallChunkSafe`. The history `free` is the list as a sequence without
  repetitions; each link of the threaded list is the next element of it. A return
  that fits the byte pushes on both, an allocation pops from both, and an owner
  writes to blocks outside both.

Model-checked only: the liveness properties (`HeadServed`, `StopEnds` of
`LogicSystem` and of the pool, `Delivered`, `ArrivedIsRead`, `Drains`, `RawFloods`,
`OrphansTouch`, `Released`, `EachTaken`, `AddReturns`, `Dispatched`, `CallsEnd`,
`CoveredReturns`, `DeletedKills`, `FirstIsRead`). Liveness under fairness and
`ENABLED` are out of the prover's reach, and so is induction over data (what a
recursive definition gives for every input).

## Not modelled

`components` of `PROJECT.json` gives the reason for each part. Much of the source
cannot be modelled because it has no behaviour: it does not compile where it is
used, it is declared and not defined, or its first step is undefined. That is
most of the lines of the repository, and why the models cover a small share of
them.

* Containers. The second insert into `MRBTree` follows a null pointer; `MSkipList`
  does not compile when it is instantiated, and `MTreeMap` and
  `MPriorityQueue` rest on one of these; `MHashMap` uses one name for a function
  and a member; `MAVLTree` and `MVector` have empty bodies. No sequence of two
  operations on them is defined.
* `MSQLite`: a prepared statement is looked up under an identifier that is never
  found, so that the operations on it return `SQL_NO_FOUND`; the rest is the
  library's state. `MFileDataBase`: `bind` fails for every directory that exists,
  the rest are stubs.
* `MReliableUDP`, `MKCP`, `MFile`, FTP, the bitmap and array allocators:
  declarations, stubs, or one call of a library each. The pool allocator writes
  past its region at the first split. In the Loki allocator,
  `MFixedAllocator::Allocate` follows a null chunk at its first call; the chunk
  below it is modelled.
* `MEventLoop`: `run()` never loops, since nothing sets its flag. `MObserver`,
  `MSlot` and `MSingleton` with a private constructor do not compile.
* Of the modelled components: the accept loop and map of sessions of
  `MAsyncServer` (one callback that arms itself; `MAsyncClient` is a stub); raw
  writes, whose completion counts in a copy of the node and goes on with memory that is
  gone; `writeToSocket` of the coroutine socket, which never starts; two chains of
  reads into one buffer; accepting and the map of connections of the WebSocket server;
  the destruction of the members of `LogicSystem` under its detached thread, of the
  timer's data under its threads, and of the asynchronous socket.
* The end of members under running threads, two chains of reads, the bytes past a
  buffer and the counts of a `shared_ptr` that two threads assign are undefined
  behaviour over memory: a nondeterministic choice over everything would show
  nothing. Of a racing `shared_ptr` the model has what a reader sees: the copy of
  `getPopFrontRecvMsg` may be torn (`Torn`); that of a session in `notifiedFun`,
  made in `MNotify` of a node whose pushes are one step, is the old or the new one.

## What is left

The parts of the code whose control is defined over more than one step are
modelled, but for the exceptions above. What could be added: the accept loop with
several sessions on one notified queue, as a composition of `MHandleRead` and
`MNotify`, and `MAsioIOThreadPool` beside `MAsioIOServerPool`. Of proofs: that
`MNotify`'s step for `getPopFrontRecvMsg` is implemented by the steps of
`MSessionRecv`.
