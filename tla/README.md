# glearn: a verification project

`glearn` is a collection of study notes with a number of small network programs
in `src/src`, and an annotated copy of the SGI STL 2.91.57 under
`读书笔记/STL源码剖析`. Both are specified here: the event-driven TCP servers
built on epoll, the HTTP server grown out of them and the servers written to
compare blocking, non-blocking, poll, epoll and signal-driven I/O; and the
algorithms, allocators, strings and containers of the library.

The specifications are plain TLA+, checked with TLC on small instances; the
theorems are proved with TLAPS for every value of the constants.

## 1. Inventory

The programs:

| component | source | state | operations | status |
|---|---|---|---|---|
| gevent layer | `c1000k/reactor.c`, `lighthttp/reactor.c` | one `struct gevent` per descriptor, epoll's interest list | `gevent_set`, `gevent_add`, `gevent_del` | `GEvent`, proved about |
| c1000k | `c1000k/reactor.c` | the table of gevents, sockets, 100 listeners | `greactor_addlistener`, `greactor_run`, `accept_callback`, `recv_callback`, `send_callback` | `EchoReactor`, proved about |
| lighthttp | `lighthttp/reactor.c`, `http.c` | the same with one listener, `last_active`, `checkpos`, page mappings | the same with the timeout scan and `http_handler` | `LightHttp` and the abstract `ReplyService`, proved about in `LightHttpProofs` |
| epoll LT server | `select_poll_epoll/server_epoll_lt.cxx` | `cons`: bytes read, bytes written, `writeEnabled` | `handle_accept`, `handle_read`, `handle_write`, `send_res` | `EpollHttp`, proved about in `EpollHttpProofs` |
| epoll ET server | `select_poll_epoll/server_epoll_et.cxx` | the same without `writeEnabled` | the same under edge-triggered readiness | `EpollHttp`, proved about in `EpollHttpProofs` |
| poll server | `select_poll_epoll/server_poll.cxx` | `pfds`, `max_fd` | one loop: `poll`, accept, scan | `RecvServers`, proved about |
| thread servers | `server_block.cxx`, `server_noblock.cxx` | `clientfd` of `main`, one stack per thread | accept loop, `clientCallback` | `RecvServers`, proved about |
| SIGIO server | `server_sig_io.cxx` | one datagram socket, one pending signal | `do_sigio` | `SigIo`, proved about |
| ARP/UDP responder | `upd_stack.c` | the two rings | the receive loop, `echo_arp_pkt` | `ArpResponder`, proved about |

The library, one component per header or pair of headers:

| component | source | state | status |
|---|---|---|---|
| algorithms | `stl_algobase.h`, `stl_numeric.h`, `stl_heap.h`, `stl_algo.h` | the ranges they are called on | `StlAlgobase`, `StlMutate`, `StlSort` |
| allocators | `stl_alloc.h`, `pthread_alloc` | free lists, the pool; the same per thread | `StlArena`, `StlAlloc`, `PthreadAlloc` and the abstract `MemoryService`, proved about in `AllocProofs`, `PthreadProofs` |
| strings | `std/bastring.h`, `std/bastring.cc` | shared representations with a count | `StlStringFind`, `StlString`, proved about in `StringProofs` |
| storage | `stl_construct.h`, `stl_uninitialized.h` | memory with and without objects | `StlUninitialized`, proved about in `VectorProofs` |
| vector, deque | `stl_vector.h`, `stl_deque.h` | one block; nodes and a map of them | `StlVector`, proved about in `VectorProofs`; `StlDeque` |
| lists | `stl_list.h`, `stl_slist.h` | linked nodes | `StlNodes`, `StlList`, `StlSlist` |
| tree | `stl_tree.h` | red-black tree of nodes | `StlTree` |
| hash table | `stl_hashtable.h` | a vector of chains | `StlHashtable` |

How they interact. Every program is one process talking to the kernel: it
shares the sockets' state (accept queue, receive queue, room in the send
buffer, the peer's FIN or RST) and the readiness of its descriptors with it.
Between any two system calls clients connect, write, half-close, reset and read,
so what `epoll_wait` reported may be old when a callback runs. In the reactors
the program keeps a copy of its own (`status`, `events`, `callback`) of what it
registered with epoll, and the two copies are never compared: no result of
`epoll_ctl` is looked at. Descriptor numbers are reused at once by `accept`, and
the tables are indexed by number. In the library, containers take memory from
the allocator and make and destroy objects in it by `uninitialized_*`; every
copy and every allocation may throw, and the handlers of the containers have to
give back what the call had taken. The programs do not use the library copy:
they meet nowhere. What makes the parts correct:

* the table, epoll's interest list and the open sockets must agree across
  `close`/`gevent_del` in either order and across reuse of a number;
* an event harvested by `epoll_wait` must still hold when its turn comes, after
  the callbacks before it in the batch have run;
* nothing a client wrote may be lost, repeated or reordered between `recv` and
  `send`, whatever the sizes; an HTTP request is answered once;
* the timeout scan must take idle connections and nobody else, and must come
  round to every entry;
* a response must be sent whole, once per request, and not before the request is
  complete, however requests and room in the send buffer arrive; EPOLLOUT must be
  asked for exactly while it is needed (LT) and no edge lost (ET);
* a client that ends, or never reads, must not keep its descriptor; a queued
  client must be accepted when a descriptor is free again;
* a thread that reads the accept loop's variable late, or a scan over entries
  that outlive their descriptors, must not take one connection for another;
* an algorithm written several times, by the category of an iterator or the room
  in a temporary buffer, must do the same each time, and never read past a range;
* a unit of memory has one owner, through refills, left-overs and the death of a
  thread;
* strings that share a representation must look as if they did not;
* a container must have the elements the standard says, and neither leak nor
  destroy twice, when any of the copies of an operation throws.

The lines where each hazard bites are listed under `hazards` in `PROJECT.json`.

## 2. What is modelled

### GEvent

The registration layer, without state of its own: a slot is a record with the
fields `callback`, `events` and `status` of `struct gevent` and with `interest`,
what the kernel has registered for the descriptor (`{}` when it is not in the
interest list). `GeventSet`, `GeventAdd`, `GeventDel` are the three functions,
with `EPOLL_CTL_ADD` failing on a registered descriptor, `EPOLL_CTL_MOD` on an
unregistered one and `EPOLL_CTL_DEL` on a closed one; `CloseDescriptor` is what
`close` does to the interest list. `ReArm` is the sequence of the three calls
that ends both `recv_callback` and `send_callback`. EchoReactor and LightHttp
both extend GEvent.

### EchoReactor (c1000k)

| state | code |
|---|---|
| `pc` | start-up loop of `main`, `greactor_run`, or killed by a signal |
| `slot[fd]` | `reactor->events[fd]` and epoll's interest in `fd` |
| `batch[fd]` | the part of `events[]` the loop in `greactor_run` has not come to |
| `bound[l]` | whether `bind` succeeded for listener `l` |
| `sock`, `state`, `backlog`, `peer`, `inq`, `full` | the kernel's sockets |
| `got`, `out` | history: what `recv` returned and `send` accepted |

| action | code |
|---|---|
| `AddListener`, `EnterLoop` | the loop over `LISTEN_PORT_COUNT` ports, then `greactor_run` |
| `EpollWait` | `epoll_wait` with its limit `MAX_EPOLL_ITEM` |
| `Dispatch(fd, e)` | one test of the loop body and the callback it calls |
| `AcceptConnection`, `AcceptFails` | `accept_callback` |
| `RecvData`, `RecvEnd` | `recv_callback` |
| `SendData`, `SendFails`, `SendKills` | `send_callback`; the last is SIGPIPE |
| `Connect`, `ClientWrite`, `ClientFin`, `ClientReset`, `ClientRead` | clients and network |

A callback is one step because it makes one system call whose result depends on
the outside and no other thread touches the table. Readiness is a function of
the state (`Ready`), as level-triggered epoll computes it when `epoll_wait` is
called. The order of events within a batch is arbitrary. `Terminated` is the
store of `'\0'` behind a full buffer, which falls on the low byte of `length`
(`ByteBase` values of a byte); it is harmless because 256 divides
`BUFFER_LENGTH`, which `ReactorAssumption` states. `Accepted` is the number of
bytes `send` takes: all of them on a socket epoll found writable (a third of
its send buffer is free, and the reply has at most 512 bytes), any part of them
if `MemoryPressure` says that the kernel may be out of socket memory.

`EchoService` is what the program promises each client: a connection is opened,
bytes are echoed in order, and the server closes only after a reset, or after
an orderly end with everything echoed; SIGPIPE may end everything at once, and
then only because some client half-closed and reset. `ImplementsEcho` in
EchoReactor is the refinement: a connection in a listener's queue is still new
to the service, and what a client has sent is what was received plus what is in
the receive queue.

### LightHttp (lighthttp)

The state of EchoReactor with one listener and, in addition, `age[fd]` (now
minus `last_active`), `checkpos`, `maps` (pages mapped by the handler and never
unmapped) and the histories `idle`, `reads`, `replies`. `Scan` is the for loop
at the top of `greactor_run`: the `ScanCount` entries from `checkpos` on, modulo
the table, close-then-delete for each entry with status 1 and age at least
`Timeout`; the listener is an entry like the others. `RecvData` includes the
whole of `http_handler`: without the page `slength` is -1 and the reply is
"stale"; with it one more mapping is made; when `open` or `mmap` fails the copy
crashes (`RecvCrashes`). The branch "max connect limit" of `accpet_callback` is
never taken, because the entry of stdin always has status 0. What the request
says changes nothing in this program, so a receive queue is a number of chunks.

`ReplyService` is what the program promises its clients, without a table,
descriptors or epoll: it reads a connection's chunks one at a time and answers
each before it reads the next, and closes a connection only because its client
ended it with nothing left to read or owed, because it was reset, because
sending failed for lack of socket memory, or because nothing was read from or
answered on it for the whole timeout (`Expire`). The same timeout, which is the program's own
doing, may take its listening socket. It ends (`Die`) when it answers
a client that reset the connection after ending it, or when the page cannot be had:
no mapping is left, or every descriptor is taken. `ImplementsReply` maps a connection
in the accept queue to one still new, `listening` to the age of the listener's entry,
`quiet` to the `idle` of the connection's descriptor, and `written` to what was read
and what is in the receive queue.

### EpollHttp (server_epoll_lt, server_epoll_et)

The two programs differ in what they register, in two lines of `send_res` and in
what epoll reports, so one module models both and `EdgeTriggered` says which.

| state | code |
|---|---|
| `cons[fd]` | `cons[fd]`: what the test of `handle_read` sees of `readed` (nothing, the start or the end of a request), `written`, `writeEnabled` (LT); `NewCon` where the map has no entry, as `operator[]` makes it |
| `interest[fd]`, `edge[fd]` | epoll's interest list; its ready list, for edge-triggered descriptors |
| `batch[fd]` | the events of `loop_once` not yet handled |
| `reading` | the descriptor whose `handle_read` is between two `read` calls |
| `unread[c]`, `noSpace[c]` | the kernel's send buffer, and the mark that makes it report EPOLLOUT when there is room again |
| `taken`, `sent` | history: complete requests read, units of responses written |

| action | code |
|---|---|
| `EpollWait` | `epoll_wait` in `loop_once` |
| `HandleAccept`, `AcceptExits` | `handle_accept`; the second is `exit_if` after `accept` or `getpeername` |
| `ReadData`, `ReadAgain`, `ReadEnd`, `ReadClosed` | one `read` of the loop of `handle_read` and what follows it up to the next one |
| `SendsAll`, `SendsSome`, `SendFails` | `send_res`: everything fits, EAGAIN, an error |
| `HandleWrite`, `NothingToWrite` | `handle_write` |
| `Connect`, `ClientWrite`, `ClientEnds`, `ClientRead` | clients and network |

`handle_read` is one step per `read`, because more of a request may arrive
between two of them. The `write` loop of `send_res` is one step: while it runs
only the client's reads matter, and reading while it runs is the same as reading
before it started or after it ended. A request is a sequence of pieces; `read`
returns any number of those that are there. Pieces are taken to be long enough
for the length test of `handle_read`; that test is about a handful of bytes and
its outcome otherwise is that of a piece that does not end the request.

Level-triggered, `batch` is what holds when `epoll_wait` is called.
Edge-triggered, a descriptor is reported only if something happened to it since
the last report (`edge`: new data, the end of the peer, or room in a send
buffer that was found full), and then with everything that holds of it. That is
why a wake-up caused by data that has already been read reports EPOLLOUT alone,
and why an EPOLLOUT the program does not handle is gone. `LowWater` is how full
the buffer may be when epoll calls it writable.

`HttpService` is what both promise: a client is never sent more than it asked
for with complete requests, and a connection is closed only after the client
ended it; the server as a whole stops only when a client resets an unaccepted
connection or when it has as many as it can have. In the refinement
`ImplementsHttp` a queued connection is still new.

### RecvServers (server_block, server_noblock, server_poll)

`program` says which of the three runs.

| state | code |
|---|---|
| `clientfd` | the variable of `main` whose address every thread gets |
| `thread[c]`, `threadFd[c]` | the thread started for connection `c`: not yet scheduled, running or done, and the descriptor it read from `clientfd` |
| `entry`, `revents`, `maxFd`, `pos` | `pfds[fd].fd`, `pfds[fd].revents`, `max_fd` and the place of the scan |
| `health` | whether the poll server has stored beyond `pfds`, or has died of it |
| `sock`, `state`, `queue`, `inbox`, `peer` | the kernel's sockets |

| action | code |
|---|---|
| `MainAccepts`, `MainFails` | the accept loop of `main` with `pthread_create`, which may fail |
| `ThreadStarts`, `ThreadReceives`, `ThreadEnds` | the thread's copy of `*arg`, and its loop |
| `PollAccepts`, `PollReturns` | `poll`, and `accept` when the listener is ready, up to the first entry the scan reads |
| `ScanReceives`, `ScanEnds` | one entry of the scan: clients write and end between two of them |
| `PollOverruns`, `Wild`, `Dies` | `accept` returns a descriptor of `POLL_SIZE` or more, and what may follow |
| `Connect`, `ClientWrites`, `ClientEnds` | clients and network |

A thread reads `clientfd` when the scheduler first runs it, which may be after
several more `accept` calls: two threads then serve one connection and none
another. `ThreadsReadForward` is what is left of correctness: the descriptor is
that of the thread's own connection or a later one, is open, and was not reused.
It is right only because no thread ever closes its descriptor. `pthread_create`
returns a number above 0 when it fails, the server tests for one below 0, and so
a connection may be left without a thread (`MainAccepts` with `made` "none"). In `server_poll`
the scan stops before `max_fd` and `revents` of a closed entry keeps its old
bits; `ScanNeverBlocks` says that `recv`, on a blocking socket, is still only
called when there is something to read. A client whose connection the server has
closed may come again. A thread server never closes anything, so that there each
client connects once.

`server_poll` uses `pfds[clientfd]` without comparing `clientfd` with `POLL_SIZE`
(128), and the usual limit of descriptors is higher. `PollSize` is that length,
`ClientFds` may go beyond it, and `PollOverruns` is the step that does: from then
on the server is `wild`, and may accept, read, close or die as it likes. What is
said of the poll server is said of it until then.

### SigIo (server_sig_io)

One pending signal at most, a handler of two calls (`recvfrom`, `sendto`) and a
queue of datagrams. `merged`, a history variable, counts the signals that were
raised while one was pending, and `BehindByMerged` says that the queue is longer
than what signals will take by exactly that number: the server never catches up
by itself.

### ArpResponder (upd_stack)

The receive ring, the transmit ring of `RingSize` frames, and `EchoArp`: the
answer is built over a copy of the question, and each field is taken from the
question. Frames are records of the fields the code tests or writes. The UDP branch
stores a zero at the length the frame names (`upd_stack.c:191`), which the code does
not compare with the frame's own. `Prints` is the store within the frame's buffer;
`StoresBeyond`, for a frame whose length reaches past it (`beyond`), hits a frame that
waits on either ring, which is `torn` from then on, or no memory at all, which
ends the program (`alive`). A torn question may no longer be one, or be one for another
address; a torn answer is sent as it is.

### The algorithms of the library

`StlAlgobase`, `StlMutate` and `StlSort` are operators, one for every algorithm
and overload that does something different: a memory is a sequence, an iterator
a position, and an operator returns the new memory, with the returned iterator
where there is one. Loops are recursive operators in the order of the code, so
that an algorithm that reads what it has overwritten, or goes past its range,
does so in the model too. `operator<` and the function objects are parameters.
`Threshold`, `ChunkSize` and `InsertionLimit` are the three sizes the source
fixes (`__stl_threshold`, `__stl_chunk_size`, and the 15 of
`__unguarded_insertion_sort`'s callers); small ones make short ranges reach every
branch. Random choices are nondeterministic or parameters.

### Allocators

`StlArena` has what the two allocators share: blocks of units, the pieces a chunk
is cut into, and when all units are shared out (`SharedOut`: each of them is in one
block, in the pool, still with `malloc`, or set aside). `StlAlloc` is the
second-level allocator: `allocate`, `deallocate`, `refill`, `chunk_alloc`, the
handler for lack of memory, and `malloc` for large blocks. `chunk_alloc` calls
itself once it has found memory, and that second call finds the pool large enough:
`FromPool` is what it then does, so that `ChunkAlloc` is unrolled instead of
recursive. `PthreadAlloc` has one instance per
thread, the shared pool under its lock and the list of abandoned instances,
which is not under the lock: two threads that take from it at once are `raced`,
and the model stops there, as no promise is left. Units are of `__ALIGN` bytes.

`MemoryService` is what an allocator promises whoever uses it: a block is of the
size asked for, in the memory there is, and overlaps none that is held; it stays
until its holder gives it back; a request is granted at once, or waits and is
granted or refused later; and one to reallocate keeps the old block until the new
one is there. Both allocators are mapped to it (`AllocService`,
`PthreadService`): `held` is what the caller, or all threads together, have, and
the requests that wait (`ClientWaits`, `ThreadsWait`) are the call that is in a
handler and the threads in `refill`. Free lists, pool, refilling, cutting up
larger blocks and the lists of abandoned instances are not seen. A handler that
frees a block of the caller's makes it give the block back with the grant.

A set of held blocks does not show a block that is handed out twice, since
adding it again changes nothing. So the promise is stated of each operation too:
`ServesClient` and `ServesThreads` say which action of the service `allocate`,
`deallocate`, `reallocate` and the end of a wait must be, for that caller and that
size, and in each grant the block comes from the room that is left (`Room`).

### Strings

`StlString` has the representations with their `ref` and `selfish` fields, and
one action per member that changes a string; `StlStringFind` the searches,
comparisons and `getline`. `SharingUnseen` says that each string has the
characters it would have if nothing were shared, that the counts are those of
the strings that refer to a representation, and that none is lost.
`StringsFound` is about any two strings that come about: a search finds an
occurrence if there is one, at or behind the place asked for; forwards and
backwards agree; sets of one character are that character; `compare` is 0 only of
equal strings, and no two are each less than the other; a line read and a word
read up to the same delimiter are the same and leave the same.

### Containers

`StlUninitialized` is the memory: where an object lives, which blocks are
allocated, how many more copies and allocations succeed (`fuel`), and `bad`,
which becomes true when the code destroys or assigns to what is no object,
constructs over one or frees what is no block. A container's operation is an
operator from a memory to a memory; once it has `thrown`, every step but those
of a handler is skipped, which is what an exception does. `const T&` is an
address, because an argument may be an element of the container that the
operation moves.

`StlVector`, `StlDeque`, `StlList`, `StlSlist`, `StlTree` and `StlHashtable`
follow their headers member by member. MCStlSequences and MCStlTables call them,
one operation after another, with every possible place, argument and `fuel`,
and compare the result with a sequence, a set or a bag computed beside them.
`Faulty` names the calls that are known not to keep their promises and that a run
makes all the same: `"insert at an end"` and `"input iterators"`, calls without a
handler, in which otherwise nothing is thrown, and `"erase inside a chain"`, which
otherwise is not called. It is empty in `Stl`; `StlDeque_insert` and
`StlHashtable_erase` have the first and the last.

The fixed parameters of the source are smaller: nodes of two elements, an
initial map of two, primes 2, 3 and 5 in place of 53, 97 and so on.

## 3. What is checked

| run | what it asks | instance |
|---|---|---|
| `EchoReactor_safety` | TypeOK, RegistrationAgrees, BatchFresh | 2 listeners, `bind` may fail, 2 descriptors, 3 clients of one byte each, short counts and EAGAIN, MaxEpollItem 2 |
| `EchoReactor_live` | EchoExact, ImplementsEcho; QueuedIsAccepted, WrittenIsEchoed, EndedIsReleased under fairness | 2 clients of 3 bytes, 1 descriptor; BufferLength 2, ByteBase 2: full buffers and data longer than one buffer occur |
| `LightHttp_safety` | TypeOK, RegistrationAgrees, BatchFresh, OnlyIdleClientsTimeOut, ImplementsReply | 2 clients of 2 chunks, 2 descriptors, a table of 5 scanned 2 at a time, timeout 2: the scan wraps in the middle of an iteration as 100 does in 1024; 2 mappings, so `mmap` fails |
| `LightHttp_live` | OpenIsReleased under fairness | 2 clients, 1 descriptor, no page, so that no crash ends a connection in the scan's place; short counts and EAGAIN |
| `LightHttp_listener` | OnlyIdleTimeOut, violated | the same with the page |
| `EpollHttp_lt` | TypeOK, WriteInterest, ResponsesWhole, NoEarlyResponse, ImplementsHttp; RequestIsAnswered, BegunIsFinished under fairness | 2 descriptors, 2 clients with up to 2 requests of up to 2 pieces, one of which pipelines; a response of 3 units and a send buffer of 2: every response needs EPOLLOUT |
| `EpollHttp_et` | ImplementsHttp; RequestIsAnswered under fairness | the same edge-triggered, requests in one piece from clients that wait |
| `EpollHttp_lt_pipelined` | EveryRequestIsAnswered, violated | 1 client that pipelines 2 requests |
| `Programs` | ThreadsReadForward, ScanNeverBlocks, BehindByMerged, AnswersAddressed; LatestIsRead, LowerIsRead under fairness | 3 connections over 2 descriptors, so that `accept` fails, any of which may get no thread; an array that ends before the second descriptor, so that the poll server stores beyond it; a second poll server (`Wide`) with 4 descriptors within the array, so that 3 are below the highest, and 4 clients that come again, of which one writes, one leaves, one does both and one neither; 5 datagrams, a queue of 3; 2 hosts, a ring of 2 and stray stores |
| `Stl` | UnitsOwnedOnce, ThreadsKeepMemory, SharingUnseen, StringsFound, SequencesIntact, AssociationsIntact; ReadingAgrees, RearrangingAgrees, SetOperationsCount, SortingHolds, StableOnesAgree | below; of the algorithms, every pair of ranges of keys 1 to 3, up to 5 and 3 long |
| `StlDeque_insert` | DequeIntact, violated | the deque of `Stl`, any copy of an insertion may throw |
| `StlHashtable_erase` | AssociationsIntact, violated | the hash table of `Stl`, with every range erased |

Why the bounds are enough. A client writes at most `MaxBytes` bytes (`MaxChunks`
chunks, `MaxRequests` requests of at most `MaxPieces` pieces) and connects once; one of
RecvServers comes again when the server has closed its connection.
Two clients are enough for one to act between two steps that concern the other
and to take the number the other gave back; the third in EchoReactor_safety
waits for EMFILE to pass while another is being replaced. Of the algorithms' input, five
elements pass the limit of the insertion sort and the median of three, make
merges of several levels, and heaps of three; each of their five properties is a
conjunction of named parts (`CopiesAgree`, `RotatesAgree`, ...), one per family
of algorithms. In `Stl` the allocator has 7 units, 2 size classes and 3 objects
to hand out at a time, of which the caller holds some, so that the pool is
refilled, its rest goes to a free list and a larger class is broken up; two
threads take one object each from 6 units and from 2 instances; two strings of
at most 3 letters over 2; containers of at most 4 elements (5 in a hash table,
enough for the table to grow twice), over a store of 15 addresses. `fuel` is 0,
1, 2, 4 or 99: an operation throws at its first, second, third or fifth copy or
allocation, or not at all. To keep the number of states down, states that differ
in addresses only are one (`View`: for each container its shape, the elements in
order and the counts of blocks and objects), strings and threads are symmetric,
and a deque has at most one element other than 1.

Deadlock is not checked because every model stops by itself: the clients have
written what the bound lets them, a process may be dead, and an algorithm's
input is complete.

Every property of a passing run has a mutant, a plausible slip in the code
(`..Checked`, `..Swapped`, `..Leaks`, defined beside the definition it
replaces), that the run then refutes.

Fairness. `FairSpec` of EchoReactor assumes weak fairness of the server as a
whole: one thread that the operating system schedules and whose loop never
blocks for more than a second; and of each client's reads, without which nothing
in the source would ever close a connection whose client stops reading (the
timeout scan is compiled out). Nothing is assumed of which event of a batch
comes first. `QueuedIsAccepted` is conditional on descriptors becoming free
again and again: who holds them decides that, not the server. `FairSpec` of
LightHttp assumes that the server is scheduled and that time passes, and nothing
of the clients: the scan is what releases them. `FairSpec` of EpollHttp assumes
what EchoReactor's does, a scheduled server and clients that read what they are
sent; its `handle_read` and `send_res` always return, because a client's bytes
and its room run out. `RecvFairness` assumes that the poll server, and every
thread of the thread servers, is scheduled: each thread separately, because
that is what the operating system does. `LowerIsRead` is conditional in three
ways, each of which is the code's. When every descriptor is taken, the connection
in the queue makes `poll` return at once and the scan is skipped for ever
(`Starved`). A scan breaks off at a connection that ended (`server_poll.cxx:96`), and
the next one starts at the lowest descriptor: clients that connect and leave in turn
on the two lowest can keep every scan from those behind them, which happens in the
instance `Wide`, so that the property asks that scans do not break off
before unread entries for ever (`BrokenOff`). And nothing is said of a server that has stored
beyond its array.

### What the violated runs show

* `LightHttp_listener`: the listener is timed out sixty seconds after start-up,
  because `accpet_callback` refreshes the client's `last_active` only; from then
  on the server accepts nobody.
* `EpollHttp_lt_pipelined`: `handle_read` looks at the end of all it has read and
  `send_res` erases the entry with the response, so of two requests that arrive
  together, or one behind a pending response, one is never answered.
* `StlDeque_insert`: `deque::insert(pos, n, x)` at either end reserves nodes and
  fills them without a handler (`stl_deque.h:673` and `:678`), where the overload
  for ranges below it has one. When a copy throws, the new nodes are not in the
  range of nodes in use and are never freed. `resize()` to a larger size is such
  an insertion.
* `StlHashtable_erase`: `erase(first, last)` within one chain, from behind its head,
  deletes `last` and everything behind it in the chain as well, because
  `erase_bucket(n, first, last)` (`stl_hashtable.h:883-900`) looks at `last` only when
  `first` is the head: elements outside the range are lost.

### What the models contain without a property about it

The constructors of vector and deque from input iterators are loops of `push_back`
without a handler (`stl_vector.h:250`, `stl_deque.h:875-877`). When a copy throws in
one, no destructor follows, and the elements made so far and their blocks stay: with
"input iterators" in `Faulty` the run `Stl` violates SequencesIntact after one call.
The run has nothing thrown in them.

`send_callback` of c1000k takes any positive count for the whole reply: on a
machine short of socket memory the rest is lost, which is why EchoExact is
checked and proved without `MemoryPressure`. In lighthttp, without the page the
handler's failure is ignored and `send` is called with a length of -1 (the reply
"stale"), and with every descriptor held by clients the handler's `open` fails
and the process dies copying the page (`RecvCrashes`). In the epoll servers
`getpeername` fails for a client that reset its connection in the queue, and
`exit_if` ends the server. In the edge-triggered one a piece that arrives while
the one before is being read wakes the descriptor once more; EPOLLOUT is then
reported alone, and `handle_write` answers a request that is not complete; and
EPOLLOUT reported together with EPOLLIN is dropped by the `else` of `loop_once`
and not reported again. EpollHttp_et therefore has clients that wait and
requests in one piece, for which the server is right.

In the library: `replace` of a string copies its argument after it has moved the
tail (`bastring.cc:171-172`), so that an argument inside the string itself is
not asked about; `find` compares the first character before it looks at the
length (`bastring.cc:248`). In the hash table, the handler of `resize` deletes
the nodes it has moved without counting them (`stl_hashtable.h:868-874`),
and the handler of `copy_from` leaves a table without
buckets; nothing there can throw with keys whose hash does not, except the
copies the model makes throw. `erase(key)` reads its key again after it deleted
a node, so a key that is an element of the table is not asked about. `remove` of a
list compares with its argument after it has deleted the nodes before
(`stl_list.h:468-476`, `stl_slist.h:599-607`), so that of a list's own elements only
the last one is an argument of it, beside variables and elements of the other list. Nor
is `merge` of a list with itself asked about.

## 4. What is proved

For any values of the constants that the modules' assumptions allow. Each
component, or group of small ones, has a module of proofs; the safety theorems follow from an inductive
invariant, with one lemma per action.

`EchoReactorProofs`, whatever `bind` and `send` return:

* `Invariance`: `Spec => []IInv`
* `TypeCorrect`, `RegistrationCorrect`, `BatchCorrect`: the three properties.

`RegistrationAgrees` is not inductive alone: a callback is called for a
harvested event, and only `BatchFresh` says that the descriptor of that event is
still open and registered for it. `BatchFresh` in turn needs
`RegistrationAgrees` to know that a number `accept` returns has no event in the
batch, and that no other descriptor refers to the connection a callback
consumes from. `IInv` adds `QueuesHeld` (a connection waits in one queue, once)
and `BuffersHeld` (an entry waiting for EPOLLOUT holds a non-empty buffer of the
recorded length), without which `AcceptConnection` could open a connection twice
and `send` be called with nothing. The callbacks share `EntryTurned` (the entry
is registered for the other event) and `EntryReleased` (the entry is freed, in
either order of the two calls).

And under `~MemoryPressure`, without which the code loses bytes:

* `EchoCorrect`: `Spec => []EchoExact`
* `Implements`: `Spec => ImplementsEcho`, by step simulation: each action maps
  to a step of EchoService or a stutter, given `IInv` and `EchoInv`.

`LightHttpProofs`, whatever the page, the clock and the kernel do:

* `Invariance`, `TypeCorrect`, `RegistrationCorrect`, `BatchCorrect`,
  `RepliesCorrect` (`OneReplyPerRead`);
* `TimeoutCorrect`: `Spec => OnlyIdleClientsTimeOut`, an action property;
* `Implements`: `Spec => ImplementsReply`, the refinement of ReplyService.

The argument is that of EchoReactor, with three additions. The scan closes any
number of entries in one step: `BatchFresh` survives because it runs only when no
event is left of the last batch. `OneReplyPerRead` needs `RepliesHeld` (an entry
waiting for EPOLLOUT holds a reply), or an event could be answered with nothing,
and `QueuedUntouched` (nobody has read from or answered a connection that still
waits in the queue, `QueueHeld`), or a connection could come with a debt.
`AgesAgree` ties the table's `last_active` to the history variable `idle`, from
which `TimeoutCorrect` follows.

`Implements` is by step simulation, given `IInv` and `ServiceInv`: before the
listener's socket is there, nothing else is (`NothingBeforeStart`), and a reply that waits
is the one the handler makes (`RepliesMade`). It needs no hypothesis on the
page, the clock or the kernel. A read needs `OneReplyPerRead` to be a `Take`, which
asks that nothing is owed. A crash of the handler is a `Die` because, with no
descriptor free, `sock` is a bijection between the clients' descriptors and the open
connections (`OpenCount`).

`ProgramsProofs`, of the smaller programs:

* `RecvInvariance`: `RecvSpec => []RecvInv`
* `ForwardCorrect`: `RecvSpec => []ThreadsReadForward`. `Rising` says of the
  thread servers that the open numbers are the lowest ones, `clientfd` the
  highest of them, and the connection of every thread still open.
* `ScanCorrect`: `RecvSpec => []ScanNeverBlocks`. `Used` says of the poll server,
  while it is `sound`, that its entries are those of the open numbers, and that
  none is above `max_fd` or beyond the array; `ScanHolds` says that what the scan
  still has to read has something to read: only the scan itself takes anything
  away. No relation between the descriptors and `PollSize` is assumed: `PollOverruns`,
  `Wild` and `Dies` are steps of the proof as of the model.

* `LagIsMerged`: `SigIoSpec => []BehindByMerged`, which is inductive with the
  types.
* `AnswersCorrect`: `ArpSpec => []AnswersAddressed`. The invariant adds that a
  frame on the receive ring that is not torn comes from a host that names itself
  as its sender, which is what the model assumes of the network; a stray store only
  ever makes torn frames (`TearsHolds`), and the answer to one is torn too.

`EpollHttpProofs`, of both servers:

* `Invariance`: `Spec => []IInv`; `TypeCorrect`: `Spec => []TypeOK`;
* `WholeCorrect`: `Spec => []ResponsesWhole`

and of the level-triggered one, under `~EdgeTriggered`:

* `InterestCorrect`: `Spec => []WriteInterest`

and under `InTime`, which is `~EdgeTriggered \/ MaxPieces = 1`, because the
edge-triggered server calls `send_res` on every EPOLLOUT after a part of a
request was read, so that it is right only where each request arrives in one piece:

* `EarlyCorrect`: `Spec => []NoEarlyResponse`
* `Implements`: `Spec => ImplementsHttp`, by step simulation. What is written is a
  `Respond` because of `NeverEarly` and `RequestsHeld` in the state reached, or a
  stutter when the buffer had no room; `exit_if` is a `Stop` because, with no
  number free, `sock` is a bijection between the numbers and the open connections.

The properties speak of remainders, and the argument is one about counts:
`Progress` says that a connection was sent some number q of whole responses and
`written` units of the next, and that q is below the number of requests read while
a response is owed and at most that number while none is. A response is owed
(`Owed`) while `writeEnabled` says so or, edge-triggered, while anything has been
read, which is what EPOLLOUT goes by. `SendKeeps` carries `Progress`
through `send_res` (`SendsAll` makes q one more, `SendsSome` adds to
`written`), `DueOfProgress` supplies `q < requests` where it is called: by a
read that completes a request, or by EPOLLOUT, which is registered only while a
response is pending (`Armed`) or answers only what has been read. `ClosedHeld` (of
a closed number no entry, interest
or event is left), `SocketsHeld` (the open connections are those of the open
numbers, one each) and `BatchHeld` (an event is still wanted when it is handled)
keep a number that is used again from inheriting any of it. `RequestsHeld` ties
the requests written to those read and those in the receive queue, from which
the bound of `taken` follows, and says that the queue holds no part of a request
where requests are one piece. The theorem asks for no client that waits, although
the clients of the run EpollHttp_et do: that is what RequestIsAnswered needs.

`AllocProofs`, of the allocator one thread uses, for any number of units,
classes and objects per refill; the lemmas about blocks, lists and cutting a chunk
into pieces serve `PthreadProofs` as well:

* `AllocInvariance`: `AllocSpec => []AllocIInv`
* `AllocOwnsOnce`: `AllocSpec => []UnitsOwnedOnce`

`AllocIInv` says of the heap (`HeapHolds`) that the blocks on the free lists and
those of the caller, the pool, what `malloc` still has, what the handler would free
and what was lost share out the units, and that no list has a block twice. It
needs `Waits`: while a small request waits for the handler of a failed `malloc`,
the pool has been emptied and, unless a handler has freed a block meanwhile, the
list of the class is empty, or the refill that ends the request would drop what it
holds. Units are lost only after a handler freed a block (`reentered`), because
`refill` writes over the list.

* `AllocServes`: `AllocSpec => [][ServesClient]_allocVars`
* `AllocIsMemory`: `AllocSpec => AllocImplements`, the refinement of
  MemoryService.

`AllocIInv` is all that is needed: whatever block comes from a list, the pool or
`malloc` is apart from those of the caller (`RoomFor`), because units are shared
out among them, and what `refill` writes over is the allocator's own. `Gives` and
`GivesNothing` are the two ways in which `chunk_alloc` and what is around it end;
they are shown once for `allocate` at once, for the new block of `reallocate`, and
for both after a handler has returned. There is at most one request
(`OneWaits`), so that what ends a wait ends that of the call which began it.

`PthreadProofs`, for any number of threads and instances:

* `PthreadInvariance`: `PthreadSpec => []PthreadIInv`
* `PthreadKeepsMemory`: `PthreadSpec => []ThreadsKeepMemory`

The key is created once whatever happens (`TypesHold`). While no two threads were
in the list of instances at once (`~raced`), each instance has one owner, and
those that nobody has are linked among themselves, no two to the same and none to
the first (`Registry`); a thread that refills a list has nothing on it
(`Refilling`). While in addition no exception left a piece on a list
and in the pool (`~threw`), each unit is in one block, in the shared pool or
still with `malloc` (`MemoryOwned`). Both conditions are the code's: the list of
instances is not under the lock, and `bad_alloc` is thrown after the rest of the
pool was put on a list and before the pool is moved.

* `ThreadsAreServed`: `PthreadSpec => [][~raced /\ ~threw => ServesThreads]_pthreadVars`
* `PthreadIsMemory`: `PthreadSpec => PthreadImplements`, the refinement of
  MemoryService by all threads together, with the same two conditions.

A thread in `refill` has one request of the size in `asked`, and no other thread
ends it (`WhoWaits`, `WaitEnds`, `WaitStays`), however often the pool is filled by
others between two tries. The conditions are needed: TLC finds a block that
overlaps another thread's once an exception has left a piece twice.

`StringProofs`, for any finite set of strings, any letters and any length:

* `FrobSizeIsEnough`: doubling from the smallest capacity reaches one that is
  enough, a power of two being found without a recursive definition
* `StringInvariance`: `StringSpec => []StringIInv`
* `StringsSharingUnseen`: `StringSpec => []SharingUnseen`

`StringIInv` is `Consistent`: the types, a count that is the number of strings
that refer to a representation (and one more for the empty one, which
is nobody's), room for the terminator, a value equal to what the string was given,
and that a representation lent through a reference is `selfish`, with a count
of one. The last is what `SharingUnseen` lacks to be inductive: copying a string
whose characters somebody may write must make a representation of its own. That
there is always an unused representation follows from the counts by the
pigeonhole principle (`FreshIsFree`), so that no bound on them is assumed.

* `StringsSearched`: `StringSpec => []StringsFound`

The searches are minima and maxima of the places where something occurs
(`FirstFromIs`, `LastUpToIs`, `SearchesAgree`), so that no induction over a text is
needed; `Occurrences` of one character are the places where it stands
(`OneCharacter`); of two texts that differ, the first difference is the same
whichever is compared with which (`ComparesInOrder`). Only here does
`StringAssumption` say anything of the order of characters: that of two no one is
less than the other both ways round, as with `lt` of `string_char_traits`. The
invariant adds `MeantShort`, that no string is longer than `MaxLength`, or `Npos`
could be a place.

`VectorProofs`, of storage and of the vector, for every store, every vector in it
and every number of copies and allocations that succeed before one throws:

* `UninitializedUndoes`: the `uninitialized_` functions make every copy or
  leave every cell as it was;
* `GrowsStrongly`, `ReservesStrongly`, `ConstructsStrongly`,
  `PushesBackStrongly`: all or nothing;
* `InsertsBasically`, `InsertsManyBasically`, `InsertsCopiesBasically`,
  `ErasesBasically`, `AssignsBasically`, `ResizesBasically`, `PopsBack`: when nothing is
  thrown the elements are those that were at certain places before the call; when
  something is, the vector can still be used and destroyed;
* `DestroysAll`: the destructor ends every element, frees the one block and
  touches nothing else.

These are theorems about operators, not about a specification: a call takes a memory
and returns one, so each theorem says of any memory in which a vector is well formed
(`VectorHolds`) that the call returns one in which it is again (`Basic`), and that
nothing else in the memory changed (`Elsewhere`). By them a sequence of calls of
these operations stays well formed whatever throws, starting
from a new vector (`StartsWell`), which is why `VectorHolds` can be asked for.
`VectorHolds` says that nothing was destroyed that was no object, constructed
over or freed twice (`~bad`), that blocks are disjoint, that every object is in
one, and that those of the vector's block are exactly [start, finish). `Strong`
says in addition that a call that throws changes no cell, no block and no pointer.

The loops of the model are functions of the number of turns, so that induction
over a natural number, by `WFMin` on the turns that would go wrong, reaches them
(`Upwards`, `Constructing`, `Assigning`); `Copied` says what d turns made. The places of a loop
are a `Span`, two of which are compared by arithmetic. In place, what
`copy_backward` reads is not yet written over, because the places rise
(`MovesUp`), and the local copy keeps an argument's value while the element it came
from moves. A new block is apart from all objects (`NextIsUnused`).
The hypotheses are the callers' duties in the code: arguments are objects, and the
sources of a range that fits are not elements of the vector itself, which move under them;
`Room` only says that the model's store has a place for a block that `malloc()` grants,
since its refusal is one more thing that throws.

Only model-checked:

* the liveness properties (QueuedIsAccepted, WrittenIsEchoed, EndedIsReleased,
  OpenIsReleased, RequestIsAnswered, BegunIsFinished, LatestIsRead, LowerIsRead):
  fairness and ENABLED are beyond the prover;
* the algorithms (the five properties of MCStlAlgo) and the lists, the tree and the
  hash table (in SequencesIntact, AssociationsIntact): their operators follow the recursions of the
  code, what they compute for every input needs induction over data, and they
  are RECURSIVE, which keeps those modules out of the prover's reach;
* the deque, whose loops are those of storage but whose places are computed through
  a map of nodes, and vector's insertion and construction from an input iterator,
  one element after another (`InsertEach`, `VectorOfEach`);
* SequencesIntact as a property of runs: the theorems about the vector
  say more of each call than its part of it does, but of operators;
* the edge-triggered server under requests of several pieces, of which NoEarlyResponse
  is false.

## 5. What is not modelled

In the programs: logging, addresses and the text of replies; `fcntl` failing on
a fresh descriptor; `epoll_create`, `malloc` and `socket` failing at start-up;
the size of the event array on the stack (12 MB in c1000k); descriptors of 1024
and more in lighthttp, which `LightAssumption` excludes as the default limit
does; `epoll_wait` failing, which cannot happen to a program that handles no
signal. The order of events in a batch is left open although the kernel has one.
Four programs are not modelled at all: `server_select.cxx` (a brace is never
closed), `reactor/reactor.c` (`gevent_set` redeclares its parameter; lighthttp
is its successor) and `tcp_stack.c` (unfinished) do not compile, so that what
they do is undefined, and `eth_device.c` is an empty stub.

In the library: ropes (`stl_rope.h`, `ropeimpl.h`), for their size: trees of
shared character blocks with a reference count or a collector; the bit vector,
which is vector's algorithms over packed bits; adapters and wrappers (`set`,
`map`, `stack`, `queue`, ...), whose members pass their call on to a container
that is modelled, and iterators and function objects, which are types and one
expression each; `swap`, comparisons and reverse iterators of the containers;
streams, complex numbers and configuration. Components that leave out such
members are `partly` modelled in `PROJECT.json`. Hash functions are the
identity, as they are for integers.

## 6. What could come next

1. Ropes: shared concatenation nodes, their balance and their reference counts.
2. The bit vector, on `StlVector`'s scheme, for its arithmetic on offsets.
3. `swap` between containers with memory of their own.
4. The containers on `MemoryService` in place of a store that never runs out of
   room by itself: who holds which block when an allocator refuses.
