# A verification project for the CSE lab RPC library and extent server

The repository holds an RPC library (`rpc/`: client, server, connections, poll
loop, thread pool, marshalling) and the first lab on top of it, a file store
(`inode_manager`, `extent_server`, `extent_client`). This directory models
both in TLA+, model-checks them with TLC on small instances and proves the most
important properties with TLAPS for every instance.

## 1. The system

| component | state | operations | talks to |
|---|---|---|---|
| `rpcc`, client endpoint (`rpc/rpc.cc`) | `xid_`, `calls_`, `bind_done_`, `srv_nonce_`, `chan_`, `destroy_wait_`, `xid_rep_window_`, `dup_req_` | `call1`, `bind`, `get_refconn`, `cancel`, upcall `got_pdu` | sends requests on a `connection`; is called back by the poll thread |
| the xid_rep window (`rpcc::update_xid_rep`) | a sorted `std::list` of xids | `update_xid_rep` | its front travels in every request header |
| `rpcs`, server endpoint (`rpc/rpc.cc`) | `nonce_`, `reply_window_`, `conns_`, procedures | upcall `got_pdu`, `dispatch`, `checkduplicate_and_update`, `add_reply`, `rpcbind` | puts a job in its `ThrPool` for each request; replies on a `connection` |
| `connection` (`rpc/connection.cc`) | `dead_`, `wpdu_`, `rpdu_`, `refno_`, two mutexes, two condition variables | `send`, `closeconn`, `incref`/`decref`, callbacks `read_cb` and `write_cb` | registers with `PollMgr`; hands PDUs to its `chanmgr` (`rpcc` or `rpcs`) |
| `tcpsconn`, the listener (`rpc/connection.cc`) | `conns_` by descriptor, a pipe | `accept_conn`, `process_accept`, `~tcpsconn` | owns one reference to each accepted connection |
| `PollMgr`, `SelectAIO` (`rpc/pollmgr.cc`) | callbacks by descriptor, `rfds_`, `wfds_`, `highfds_`, a pipe, `pending_change_` | `add_callback`, `del_callback`, `block_remove_fd`, `wait_loop` | calls connections back from its one thread |
| `fifo`, `ThrPool` (`rpc/fifo.h`, `rpc/thr_pool.cc`) | bounded queue, two condition variables, workers | `enq`, `deq`, `addObjJob`, `takeJob`, `~ThrPool` | `rpcs::dispatch` runs in a worker |
| marshalling (`rpc/marshall.h`, end of `rpc/rpc.cc`) | a growing byte buffer, a read position, `_ok` | `operator<<` and `>>`, `rawbytes`, `pack`/`unpack` of headers; the templates `rpcc::call` and `rpcs::reg` | `rpcc`, `rpcs` |
| `disk`, `block_manager` (`inode_manager.cc`) | 32768 blocks, the free block bitmap | `alloc_block`, `free_block`, `read_block`, `write_block` | |
| `inode_manager` | inode table, direct and indirect blocks | `alloc_inode`, `free_inode`, `read_file`, `write_file`, `remove_file`, `getattr` | `block_manager` |
| `extent_server`, `extent_client`, `extent_smain` | | `create`, `put`, `get`, `getattr`, `remove` | `inode_manager`; `rpcs` when it runs as a process |

What is hard in this code:

* **At-most-once execution.** Requests are sent again on new connections after a
  connection has failed, so copies of a request are dispatched in parallel and
  overtake other requests. The server remembers replies until the client's
  `xid_rep` says they are no longer needed, and that number itself travels in
  requests that are delayed, duplicated and resent unchanged.
* **Crashes.** A server that restarts has forgotten everything, under a new nonce.
* **Time.** Deadlines pass while the answer is on its way; `cancel()` must get
  every caller out; nothing may wait forever.
* **Condition variables.** One `pthread_cond_signal` per operation, workers that
  steal each other's jobs, and a destructor that shares the queue with jobs.
* **Callbacks against owners.** The poll thread calls objects that another thread
  may be closing, removing from the poll loop and deleting; the two mutexes of a
  connection are taken in both orders.
* **Partial I/O.** Several senders share one socket that takes a few bytes at a
  time; a PDU that the pool cannot take stays where it is.
* **Arithmetic.** `uint8_t` byte indices and unsigned differences in the
  allocator and in `write_file`, over long sequences of calls.

What makes each component correct: *rpcc*: every call returns, with success only
if it was executed, `cancel` drains it. *window*: the front is the end of the
answered prefix. *rpcs*: no call is executed twice; a reply is kept while it is
awaited; a refusal means that the call was not executed; an instance executes
only what was meant for it. *pool*: no lost wakeup, every accepted job runs, the
destructor returns. *connection*: PDUs go out and come in whole, in order and once;
`send` and `block_remove_fd` return; no callback runs on a deleted object.
*listener*: references are counted, dead connections are deleted, and no upcall
comes after its end. *marshalling*: values arrive as they were sent, nothing is
written outside the buffer, and arguments of other types are not passed to a
handler as if they fitted, as far as their length tells. *extents*: files do not share blocks; `get` returns what was
`put`.

`PROJECT.json` lists the hazards line by line with the properties aimed at them.

## 2. Modules

| module | models | on top of |
|---|---|---|
| `XidRep` | `update_xid_rep` on sets, the form the protocol needs | |
| `XidRepList` | the same on the code's sorted list with duplicates | `XidRep` |
| `RpcChan` | connections as the RPC layer sees them | |
| `Rpcc` | client: threads in `call1`, `bind`, `got_pdu`, `cancel` | `RpcChan`, `XidRep` |
| `Rpcs` | server: `got_pdu`, `dispatch`, reply window, restart | `RpcChan` |
| `Rpc` | client, server and network together; all RPC properties | `Rpcc`, `Rpcs` |
| `XidRepListProofs` | theorems about the list | `XidRepList` |
| `RpcProofs` | theorems about `Rpc`: types, messages and at-most-once; then what callers are told | `Rpc` |
| `Fifo` | `fifo<T>` | |
| `ThrPool` | the pool on that queue, with its destructor; properties | `Fifo` |
| `ThrPoolProofs` | theorems about `ThrPool` | `ThrPool` |
| `PollMgr` | `PollMgr` on `SelectAIO`: table, `fd_set`s, pipe, the loop's thread | |
| `Connection` | one `connection` object: senders, callbacks, owner, socket; properties | `PollMgr` |
| `ConnectionProofs` | theorems about `Connection` | `Connection` |
| `PduChannel` | abstract: what a connection promises to the RPC layer | |
| `ConnectionImplProofs` | `Connection` implements `PduChannel` | `ConnectionProofs` |
| `ServerConns` | listener, references to connections, both of their mutexes; properties | |
| `ServerConnsProofs` | theorems about `ServerConns` | `ServerConns` |
| `Marshal` | `marshall`, `unmarshall`, headers, handlers made by `reg`; properties | |
| `MarshalProofs` | theorems about the buffer of `Marshal` | `Marshal` |
| `BlockManager` | bitmap allocator with its truncations | |
| `InodeManager` | inode layer | `BlockManager` |
| `ExtentServer` | extent operations; properties of the store | `InodeManager` |
| `ExtentProofs` | theorems about `ExtentServer` | `ExtentServer` |
| `MCRpc`, `MCExtent` | symmetry sets for TLC | `Rpc`, `ExtentServer` |
| `MCConnection` | function-valued constants | `Connection` |
| `MCMarshal` | the calls that are made | `Marshal` |

The modules divide the RPC library along its own interfaces. `Rpc` composes client,
server and connections at the level of whole PDUs; `Connection` (with `PollMgr`
inside) shows that one end of a connection really delivers PDUs that way;
`ServerConns` takes the same objects from the side of those who refer to them;
`Marshal` looks into the PDUs.

Definitions whose comment begins with "Mutant:" are wrong variants of the
definition below them. None is used by a specification; replacing the real one by
its mutant must break the property named in `PROJECT.json`, which shows that the
property depends on that piece of the code.

### How state and actions correspond to the code

**Atomicity.** An action is one critical section (`m_`, `chan_m_`, `ca.m`,
`conss_m_`, `reply_window_m_`, the mutex of `fifo`), one `connection::send`, or
code that touches only locals. Everything outside a lock interleaves.

**`Rpcc`.** `pc[t]` is the place of an application thread in `call1`: `conn`
(`get_refconn`), `dup` and `forgot` (the lossy test's second copy of a finished
request), `send`, `wait` (`pthread_cond_timedwait`), `erase` (the second section
under `m_`), `lossy` (keeping `dup_req_`), `bound` (the end of `bind`). `ca[t]` is
the stack frame: `struct caller`, the packed request (never rebuilt for a
retransmission, as in the code), the connection. A wait may time out at any
moment: with a dead connection and `retrans_` the call goes round the loop, and
after the last deadline it transmits once more and leaves without waiting, as the
code does. `win` is `xid_rep_window_`; `outcome` is a history of what each call
returned, for the properties only.

**`Rpcs`.** `job[w]` is a job, in the queue or in a worker, and its place in
`dispatch`. `rwin` is `reply_window_` of the client; an entry is absent,
`inprogress` or `done` (`cb_present`). `conns` is `conns_`; connections are numbered
in the order of their `create_time_`, which is what `compare` looks at.
`Restart` kills the jobs, the window and the server's connections and starts an
instance with another nonce. `exec` counts executions per instance and xid.

**`RpcChan`.** Each end has its own `dead_` flag. A write may succeed although the
other end is gone; the PDU is then lost, and the writer does not learn of it.
Within one connection PDUs are whole and in order (TCP and the length prefix).

**`Fifo`, `ThrPool`.** Waiting in a condition variable is membership in `emptyWait`
or `fullWait`; a signal removes one arbitrary member, which then competes for the
mutex like any other thread; spurious wakeups are steps. `0` is the poison pill.
`blockadd_` is chosen in `Init`: TRUE is the constructor's default, FALSE what `rpcs`
asks for.

**`PollMgr`.** An operator is one critical section of `PollMgr::m_` or
`SelectAIO::m_`. `ppc` is the loop's place: `top` (acknowledge a pending change),
`snapshot` (copy the `fd_set`s), `select`, `pick` (the next ready descriptor, whose
entry in `callbacks_` is read without a lock), `read` and `write` (the callback that
was chosen is about to take `m_`). `pipe` counts the bytes that interrupt `select`;
`changedone_c_` holds the threads that wait in `block_remove_fd`.

**`Connection`.** A sender goes through `send`: it waits for the PDU in front of it
(`wait`), writes what the socket takes, and either is done or watches the
descriptor for writing and waits for `write_cb` (`complete`). `out` is the stream of
units that the kernel accepted, each labelled with its sender; `rpdu_.buf` holds the
units read so far, `got` the buffers that the chanmgr consumed. Data is counted in
units: a PDU has two or three of them, the first one or two of which are the length
field, so that a read or write may stop inside the length field, after it, and
inside the body. Shutdown by the lossy test, an end closed by the peer, refusal of
a PDU by the chanmgr and `EINTR` in `select` happen at any moment. `failed` names an
assertion that fails and ends the process. `eagain` is the value `errno` was left
with, because `readpdu` tests it also after a `read` that returned 0.

**`PduChannel`** has the whole PDUs on the line, the whole PDUs received, the
results of `send`, and whether the connection is up. The refinement mapping
(`LineOf`, `GotOf`, `ResOf`) takes a PDU to be on the line when its last unit is.

**`ServerConns`.** Both mutexes are visible: `poll.conn` is the connection whose `m_`
the poll thread holds from `read_cb` through `got_pdu`, and `zero[t]` the one whose
`ref_m_` thread `t` holds after its `decref` reached zero and before it gets `m_` to
look at `dead_`. A job carries one reference through `dispatch`. `latest` is
`rpcs::conns_`. `leaked` counts, as a history, the references that the early return
at `rpc/rpc.cc:530` keeps. Descriptors are reused once they are closed.

**`Marshal`.** One call at a time, because buffers are local variables. A step is
one raw write into the buffer, one value read, or one header. Sizes and offsets are
the code's own, in bytes; the *values* of a byte are scaled to `Byte` (4 instead of
256), and an `int` is its residue modulo `Byte`^4, so that sign extension and shifts
can go wrong as in the code. The five `req_header` fields are written for requests and the
two `reply_header` fields for replies; the bytes between are whatever `malloc` left
(`Uninit`), and they are sent. A `bool` is read from any byte, 0 or not. Vectors are of
`int`, maps of `unsigned int`. A string whose length makes the sum in
`unmarshall::rawbytes` wrap around is copied from behind the buffer: the model lets the
process die (`overread`) or go on with bytes it knows nothing of and with `_ind` moved
back, as the code does.

**`BlockManager`, `InodeManager`, `ExtentServer`.** `bitmap` is the set of marked
bits; the `uint8_t` variables are `% UINT8`; `&&` in `free_block` is modelled by what it
leaves in the byte. A file is a sequence of whole blocks; a block holds zeroes, a
value, or a table of block ids, so that a data block that overwrites a table or an
inode is noticed. Behaviour the code leaves undefined (writing past `ino->blocks`,
freeing 2^32 ids, interpreting data as inodes) sets `fault`, and the model stops
there: the passing properties say nothing about what comes after a fault.

### Abstractions

* One client. `reply_window_` and `conns_` are kept per `clt_nonce`, and no handler
  code looks at another client's entry. Nonces of clients and of server instances
  are drawn with `random()` and are assumed different.
* Two procedures: `bind`, and any registered one. A call to an unregistered
  procedure fails a `VERIFY`.
* In `Rpc` a reply is its xid, its code and the instance that wrote it. Arguments,
  their encoding and its failures are in `Marshal`.
* `ServerConns` leaves out what is sent, `Connection` who else refers to it: its
  owner, its senders and the poll thread stand for every holder of a reference.
* Left out: `set_reachable`, the counters of `updatestat`, `reg1`, logging, the
  file times (never set by the code), the type of an inode beyond used and unused;
  signals that wake a thread in `block_remove_fd` without cause (it waits in no
  loop, so the code relies on there being none).
* A null `chan_` and a failed `connect` are the connection `0`.

## 3. Runs

Bounds are constants of the modules (`MaxXid` calls, `MaxConn` connections,
`MaxNonce` instances, `MaxRetrans` retransmissions per call, `MaxJobs`, `MaxPdus`,
`NIn` PDUs from the peer, `MaxAlloc`) and appear in the guards of `call1`,
`get_refconn`, `Restart`, `retransmit`, `addJob`, `read_cb`, `PeerSends` and `put`.
The bounded RPC system and a connection come to an end when the calls are used up,
a process may abort, and a call through `Marshal` is over after its reply: those
runs switch deadlock checking off. It is on for the pool, the server's
connections, the window and the file store.

| run | instance | shows |
|---|---|---|
| `RpcRefusal` | 2 threads, 3 calls, 2 connections | `UnackedReplyKept`, `RefusedMeansNotExecuted`: three calls are the fewest for which an acknowledgement overtakes an open call; and `TypeOK` |
| `RpcRestart` | 1 thread, 2 jobs, 4 calls, 2 connections, 2 instances, 1 retransmission, lossy test | `AtMostOnce` with both copies of a request in dispatch at once and finished requests sent again after the server erased their replies (four calls are needed for `xid_rep_done_` to pass `dup_req_.xid`); `OnlyBoundInstance`, `OkMeansExecuted` across a restart at any point; `LatestConnectionExists` |
| `RpcProgress` | 2 threads and a thread in `cancel` | `CallReturns`: nothing but a `send` on a connection that lives can keep a call for ever; `CancelReturns`, with `calls_` empty, under the same exception |
| `XidRepList` | 6 xids, lists up to 7 | `FrontIsAnsweredPrefix`, and `ListImplementsSet`: each step on the list is the set operation of `XidRep` |
| `ThrPool` | 3 workers, 2 adders, limit 2, 4 jobs, blocking or not | `NoLostWakeup`, `NothingLeft`, `AcceptedJobsRun`, `DestroyReturns`, `TypeOK`: more workers than places and more jobs than places, so that both condition variables have several waiters; when adders are refused the destructor still waits for a place |
| `ConnServer` | a server's connection: 2 senders, 1 PDU in, PDUs of 3 units with a length field of 2, a socket buffer of 2, lossy test, refusals, an owner that closes | `WholePdus`, `CallbackOnLive`, `OtherAssertions`, `TypeOK`. The buffer is smaller than a PDU, so that every send is partial, and the second sender waits for the first |
| `ConnClient` | a client's connection: 2 senders, 1 PDU in, PDUs of 2 units | `ImplementsPduChannel` and, with fairness, `SendReturns`, `RemoveReturns`, `EofNoticed`, `PduConsumed` |
| `ServerConns` | 3 connections on 2 descriptors, 3 PDUs, 1 client, 2 jobs | `RefsCounted`, `NoUseAfterDelete`, `NoLockCycle`, `NoUpcallAfterClose`, `AllDeleted`, `CloseReturns`, `TypeOK`. Three connections: one dead and collected, whose descriptor is reused, one newest, one arriving |
| `Marshal` | 173 calls: the extent protocol, `rpctest`'s procedures, every type, strings of lengths around the growth of the buffer, mismatched signatures and results; first capacity 26, two bytes after the header | `WritesInside`, `ArgsArrive`, `ReplyArrives`, `AcceptedIsExact`, `AbortMeansMismatch` |
| `ExtentYoung` | 3 files of up to 3 blocks, 8 allocations | `DisjointWhileYoung`, `GetReturnsPut`, `TypeOK` |

`SendReturns` does not cover a close by the owner, `EofNoticed` not the middle of a
PDU, `PduConsumed` not a PDU that was refused, and `AllDeleted` not a leaked
reference: in each of these cases the code does not provide for it (see below).
`AcceptedIsExact` compares the arguments a handler was given, marshalled again, with the
message. It allows for the two types in which one value has several encodings: a `bool`
may have been sent as any byte but 0, and a map that was sent a key twice is shorter
than its message. It says nothing after a string was copied from behind the buffer
(`Overread`), which the run reaches: the handler `(string, char)` sent the int -1
runs. `AbortMeansMismatch` shows that this takes types that differ.

The extent runs use scaled constants. `alloc_block` and `free_block` depend on the
real ones only through the order `UINT8 < FirstBlock < UINT8 * BYTE < BPB` (256, 352,
2048, 4096), `BPB = 2 * UINT8 * BYTE`, and the byte of the bitmap with the bit of the first
data block (352 / 8 = 44) being behind every byte that `free_block` touches, because it
divides an index below `UINT8` by `BYTE` once more (at most 255 / 8 = 31).
`BlockConstants` states this and the scaled values satisfy it. "Young" means that fewer blocks have been allocated than make the
byte index of the bitmap wrap around: 1696 in the code. Before that point the wrong
positions that `remove_file` and `write_file` free never hit the bit of a block in
use, and the store works, for every file whose inode is intact: the last inode lies
in the first data block and is lost when that block is written. `ExtentAlloc` shows
that after the wrap-around the store does not work any more.

### Fairness

`RpcProgress` assumes weak fairness of each thread inside `call1`, except while it is in a
`connection::send` on a connection that lives (`MayBlock`), and of the thread in `cancel`
once it is signalled: a thread is scheduled, gets a mutex that others hold only for a
critical section (`chan_m_` also for a `connect`, which the kernel ends), and
`pthread_cond_timedwait` returns at its deadline. Nothing is assumed of the server or of
the network, so calls must return through their deadlines. `send` has no deadline: it
waits until the PDU before it and its own are written (`rpc/connection.cc:129`, `157`),
and a server that stops reading without closing the connection holds it up for as long
as it likes, however short the timeout of the call. A call may therefore stay there, and
`CallReturns` and `CancelReturns` say that it can stay nowhere else. On a connection that
has died `send` is taken to return; that is `SendReturns`, with `RemoveReturns` for the
`block_remove_fd` after a failed write, of `ConnClient`, which need the poll thread to
be scheduled. (The client closes a connection itself only in `~rpcc`, when no call is left.)

`ConnClient` assumes that each sender, the closing owner and the poll thread are
scheduled, that `select` is not interrupted by a signal every time (strong fairness
of `PollSelect`, which an interruption disables), and that the peer reads what it is
sent as long as it is there, since it runs the same poll loop; it need not send
anything. `ServerConns` assumes that the listener, the poll thread and the jobs are
scheduled; not that anybody connects, sends or destroys the listener.
`ThrPool` assumes that each worker, each thread inside `addJob` and the
destroying thread are scheduled and that jobs return; not that jobs are added or
that the pool is destroyed.

### Where the code does not do what a comment says

Two of these have a run that TLC must find violated; the lines are in
`PROJECT.json`.

* `ConnWriteCb` (`WriteCbAlive`): `write_cb` asserts that the connection is not dead,
  but `closeconn` and a failed `send` set `dead_` without any order with the poll
  thread, which may already have chosen the descriptor.
* `ExtentAlloc` (`AllocatedIsFree`): once the byte index of the bitmap has wrapped
  around, a block in use is allocated again.

Others that the models contain or that were met while writing them:

* A reply written to a connection that is dead but not known to be is lost, and the
  retransmission that arrived on the newest connection was dropped as INPROGRESS
  (`rpc/rpc.cc:616`); the caller waits until another failure or its deadline.
* With nonce 0 and a dead connection, `conns_[0]` is a null pointer
  (`rpc/rpc.cc:618`); `LatestConnectionExists` is therefore stated for `Retrans`.
* Rewriting a file that has an indirect block wraps an unsigned difference around
  (`inode_manager.cc:285`, `308`): the faults `overrun` and `wipe`.
* `closeconn` does not signal `send_complete_` (`rpc/connection.cc:72`): a sender that
  waits there when its connection is closed sleeps forever.
* `readpdu` takes the end of the stream in the middle of a PDU for a slow peer while
  `errno` is EAGAIN from an earlier call (`rpc/connection.cc:286`).
* The refusal of a request for an old instance keeps its reference to the connection
  (`rpc/rpc.cc:530`); a failing `accept` ends the accepting thread for good
  (`rpc/connection.cc:363`).
* `add_timespec` does not carry at exactly 1000000000 ns (`rpc/rpc.cc:1064`), which
  `pthread_cond_timedwait` refuses with EINVAL, and `call1` only tests for ETIMEDOUT.
* `operator>>` for vectors appends to what the variable held, that for maps replaces
  it; the bound in `unmarshall::rawbytes` wraps around for lengths near 2^32
  (`rpc/rpc.cc:982`).
* The timeout of a call does not bound `connection::send` (`rpc/rpc.cc:242`), and
  `cancel()` does not end it.

Smaller differences that the models show in passing, without a run of their own:
FORGOTTEN is documented (`rpc/rpc.h:272`) as a duplicate of an old RPC, but a call never
seen before gets it when a later one overtakes it, which is harmless because of
`RefusedMeansNotExecuted`; `checkduplicate_and_update` keeps the entry with
`xid == xid_rep` although its comment (`rpc/rpc.cc:650`) says `<=`, and it is this entry
that keeps the window non-empty and old requests refused; a client with nonce 0
under `RPC_LOSSY` sends finished requests again, which nothing on the server stops;
`remove_file` frees positions in place of block ids, so that the blocks of removed
files stay marked; inode 1023 lies in the first data block, because 1024 is not a
multiple of `IPB`.

## 4. Proofs

Every safety invariant that the runs check is a theorem for every value of the
constants, except those of `Marshal` about what arrives, and write_cb's own assertion and
`AllocatedIsFree`, which fail (see the findings). So are the two refinements: a
connection implements `PduChannel`, and the sorted list the window of `XidRep`.

The proofs assume what the `ASSUME`s of the modules state:

* `ChanConstants`, `ClientConstants`, `LimitAssumption`, `PoolConstants`, `PollConstants`,
  `ConnConstants`, `ServerConnsConstants`, `ListConstants`: the bounds are naturals, the
  flags Booleans, descriptors are numbers and the pipe's is none of the connections',
  the sets of threads, senders, clients and descriptors are finite where the proofs
  count them, and the names of threads and descriptors differ. A PDU is longer than its
  length field, as it is in the code.
* `BlockConstants`, `InodeConstants`, `ExtentConstants`: section 3 says which facts about
  the disk's layout `BlockConstants` holds; an inode has at least one direct block and no
  more than a block has bits (32 of 4096), a table holds at least one id (128), and `put`
  is called with at most `MAXFILE` blocks, because `write_file` changes nothing otherwise.
* `MarshalConstants`: a first buffer has room for a header (1024 for 24), and a call is
  a record of well-typed values (`CallRecord`).

The invariants that make the properties inductive are defined beside them, at the end
of each component's module or in its proofs; TLC finds each of them true on instances
like those of the runs.

* **`MessagesCorrect`, `TypeCorrect`** (`RpcProofs`). Types alone are not inductive: a
  job indexes `rwin` with the xid of a message and `call1` takes the front of a set
  that must not be empty. `MessagesInv` adds that every request anywhere (in a
  connection, a thread, a job, `dup_req_`) belongs to a call made so far and
  acknowledges only older xids, that the window is a non-empty set of such xids,
  and that each thread and job holds what its place in the code needs. One lemma
  per action.
* **`AtMostOnceCorrect`** (`RpcProofs`), for clients with a nonce (`Retrans`). The
  argument is `ExecutionInv`: what the running instance has executed, or a job is
  about to execute, it still *knows*: the xid is in the window or is older than
  everything in a non-empty window. So a second copy is never NEW. Erasing entries
  keeps this because `rep < xid` (from `MessagesInv`): the entry just inserted
  survives, and everything erased is older than it. Two jobs never run the same
  call, and a new instance has executed nothing.
* **`BindingCorrect`, `OnlyBoundInstanceCorrect`** (`RpcProofs`, as the next four). An execution is
  the end of a path through connections, threads, `dup_req_` and jobs, and the check of
  the nonce lies in the middle of it. `BindingInv` says for every copy of a request
  that it names the instance its caller was bound to, and for every job past the check
  that this instance is the running one (a restart ends the jobs).
* **`LatestConnectionCorrect`**, with `LatestInv`: a job behind `dispatch`'s first critical
  section finds an entry in `conns_`, and only a restart empties it.
* **`OkMeansExecutedCorrect`**, with `AnswerInv`: whoever holds the answer 0 (the window,
  a job, a reply on its way, a caller) holds it from an instance that has executed
  the call.
* **`WindowCorrect`, `KeptCorrect`, `UnackedReplyKeptCorrect`**. `xid_rep` tells the server
  to forget replies, and a copy of a request may carry an old or a new one. `WindowInv`:
  a call that waits is not in the client's window, so that the window's front and with
  it every `xid_rep` in circulation is below the call (`UpdateKeepsGaps`).
  `KeptInv` extends the property to the jobs that are about to execute, since their
  call is in the window before it is executed.
* **`RefusalCorrect`**. `RefusedMeansNotExecuted` is about the moment when a caller
  returns, and nothing in it keeps the server from executing the call later. `Refused`
  adds that it never will: the instance knows the xid (so that a copy is not NEW), and
  no job is running it. A refusal that is addressed to a call that no longer waits need
  not be true, and is ignored; the invariant speaks of the others only.
  The results on kept replies and on refusals are for clients with a nonce
  (`Retrans`), as `AtMostOnce` is.
* **`PoolTypeCorrect`, `NoLostWakeupCorrect`** (`ThrPoolProofs`). `NoLostWakeup` counts:
  jobs in the queue against workers awake in `deq`, free places against threads awake
  in `enq`. It is inductive together with `TypeOK`, `HoldsJob` and `WaitersInv` (only
  threads inside the loops sleep; the destroying thread is alone).
* **`NothingLeftCorrect`** (`ThrPoolProofs`), for a pool with at least one worker. The jobs
  accepted are those finished, running and queued (`JobsInv`); the queue is jobs first
  and pills behind, with one pill for each worker that has not exited, and the first
  exit is behind the last job (`PillsInv`). Without the hypothesis it is false: a pool of no
  threads returns from its destructor with its jobs in the queue.
* **`ConnsInvCorrect`** (`ServerConnsProofs`) and from it `TypeCorrect`, `RefsCountedCorrect`,
  `NoUseAfterDeleteCorrect`, `NoLockCycleCorrect`, `NoUpcallAfterCloseCorrect`,
  `AllDeletedCorrect`. That `refno_` counts the holders is the core: the numbers of jobs
  and of clients that refer to a connection are cardinalities, and each step changes
  one of them by one. It is not inductive alone, because `got_pdu` takes a new reference
  to a connection it holds none of: what makes this safe is that the connection is
  alive, because its `m_` is held (`UpcallInv`), that the listener refers to every living
  connection (`OwnerInv`), and that no other connection that exists has the same
  descriptor, so that `conns_[fd]` is overwritten for nobody who needs it. `DeletedInv`: the
  last reference is dropped by one thread, which then deletes a dead connection.
  `ListenerInv` follows the loops of `process_accept` and `~tcpsconn` over the map.
* **`ConnInvCorrect`** (`ConnectionProofs`) and from it `ConnTypeCorrect`, `WholePdusCorrect`,
  `CallbackOnLiveCorrect`, `OtherAssertionsCorrect`. One lemma per action.
  - *Whole PDUs.* While a connection lives, what is on the wire is some whole PDUs and
    then the written part of the PDU in `wpdu_` (`LineInv`), and `wpdu_` belongs to the sender
    between its first write and the end of `send`, never to one that has failed
    (`BufInv`). A dead connection writes nothing.
  - *Callbacks.* `refno_` is the owner's reference and one for each call of `send`
    (`RefsInv`). `KillInv`: a dead connection is forgotten by the poll thread, or whoever
    found it dead is still on the way to have it forgotten, in `block_remove_fd`, and holds
    a reference meanwhile. So the last reference is dropped when the poll thread is
    through with the connection, this round included; `LoopInv` is what makes the wait
    for `changedone_c_` end at the end of a round.
  - *Assertions.* What `select` found readable stays so until `read_cb` takes it
    (`ReadInv`), so that `read` never says EAGAIN; and by `BufInv` the buffer is free when the
    destructor looks at it.
* **`ChannelCorrect`, `ImplementsChannel`** (`ConnectionImplProofs`). `Faithful` is proved for
  every action: it is a step or a stutter of the channel of each descriptor. What the
  channel puts on its line in one step is a PDU of which the connection wrote the parts
  in several; the step is the write of the last part, and `LineInv` says how far the
  others had come. `ConnInv` needs two companions. `StreamInv`: what the peer sent and
  `read_cb` took is the PDUs in `got` and then the part in `rpdu_`, in the order of the
  stream, wherever a read stopped in the length field or the body. `OnceInv`: nothing of
  a sender's PDU is on the wire before the part that `wpdu_` counts, so that no PDU is
  written twice, and `send` has no result before its end.
* **`ListInvCorrect`, `FrontCorrect`, `ListImplementsSetCorrect`** (`XidRepListProofs`). `ListInv`:
  the list is sorted, its front ends the prefix of answered xids, and its elements are
  the answered xids from there on. One call of `update_xid_rep` puts the xid before the
  first greater element and then runs the loop over the list, whose invariant is
  `Visited`: of the elements popped so far each is less than the front, every number from
  the old front to the new one is in the list, and the successor of the front is
  not among the elements visited. The loop is a recursive function; a least
  counterexample stands for the induction. The theorem about each step ties the
  code's list to the sets that the proofs about `Rpc` speak of, which rest on lemmas at the
  beginning of `RpcProofs`: the front exists and is least, `update_xid_rep` keeps the
  window a non-empty set within range, and a gap in it stays a gap above the front.
* **`BufferInvCorrect`, `WritesInsideCorrect`** (`MarshalProofs`). `BufferInv`: a buffer always has
  room for a header; what was written lies inside it; the bytes of a header that are
  still to be written end where the body begins. How a buffer grows depends on the
  lengths of the raw writes only, and `PutAllType` says that every value is marshalled
  into single bytes and the bytes of strings. Capacities are naturals here; the
  `int`s of the code reach 2^31 first.
* **`ExtentTypeCorrect`** (`ExtentProofs`): the bitmap and the inodes refer to blocks of the
  disk, and no file is longer than `MAXFILE`.
* **`ExtentInvariant`, `DisjointWhileYoungCorrect`, `GetReturnsPutCorrect`** (`ExtentProofs`), from
  `YoungInv`. As long as fewer blocks were allocated than make the byte index wrap
  around, and no `fault` occurred, the bitmap is exactly the interval `Taken` of the blocks ever
  allocated: `alloc_block` takes the least free bit, which is the next one, and
  `free_block` changes only bytes before that of the first data block, where the order of
  the constants comes in. So no block is given out twice. `RefsInv` (references of
  intact inodes are in `Taken` and differ), `TablesInv` (the indirect block of a long file
  still holds its table) and `FilesInv` (the data blocks hold what was last put) follow
  each other through `write_file`, which frees or allocates, then writes the table and the
  data in turn: a write to a block of one file leaves the tables and the data of every
  other as they were, because the references differ.

**Only model-checked:**

* liveness (`CallReturns`, `CancelReturns`, `AcceptedJobsRun`, `DestroyReturns`,
  `CloseReturns`, `SendReturns`, `RemoveReturns`, `EofNoticed`, `PduConsumed`), out of
  the prover's reach;
* what the decodings of `Marshal` compute (`ArgsArrive`, `ReplyArrives`, `AcceptedIsExact`,
  `AbortMeansMismatch`): that `>>` undoes `<<`, type by type and argument by argument, is an
  induction over the arguments, over the digits of a number, whose powers the provers
  do not reason about, and over the sorted keys of a map.

The case without a nonce (`Retrans = FALSE`), where at-most-once rests on each request
being sent only once and fails under `RPC_LOSSY`, is part of the model; no run is for
it, and of the theorems those without the hypothesis `Retrans` hold for it too.

## 5. Not modelled

* `EPollAIO`: compiled, never instantiated; `has_callback`, `is_watched`, `get_content`,
  `str`, `take_content`: no callers.
* `extent_smain`: its handlers run on six threads and the inode layer has no lock. Any
  interleaving of two block accesses is possible, so that no property of the store
  is left to state; the store is modelled sequentially, as the in-process
  `extent_client` uses it.
* Clocks and the sums of `timespec`s: a wait may end at any moment.
* `set_reachable` (test hook without callers), `updatestat`, `reg1`.
* `method_thread.h` and `slock.h` (wrappers of pthreads; a `ScopedLock` is the extent of
  an action), `lang/`, logging, `gettime`.
* The tests (`rpctest.cc`, `lab1_tester.cc`), which were read for what they expect; some
  of `rpctest`'s procedures are calls of `MCMarshal`.

## 6. Plan

What is left are theorems, in this order.

1. An abstract RPC service, each call executed at most once and answered at most once,
   that `Rpc` implements; `AtMostOnce`, `OkMeansExecuted` and `RefusedMeansNotExecuted`
   are its parts.
2. `AbortMeansMismatch` of `Marshal` for calls without maps, which needs only how many
   bytes each `<<` writes and each `>>` takes.
3. The order of the RPC layer's channels from `PduChannel` to `RpcChan`, whose connections
   carry numbered messages instead of units.
