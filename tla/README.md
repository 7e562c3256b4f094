# Perennial in TLA+

Perennial is a verified stack of storage and distributed systems: Go programs,
translated by Goose into GooseLang (`src/external/Goose`), with Coq proofs about
them (`src/src/program_proof`). Its NFS server is tested through a Python RPC
library and generated protocol classes (`symtest`). This directory holds TLA+ models of the
programs, translated from the GooseLang and Python text, TLC configurations that check the
models on small instances, and TLAPS proofs for every value of the constants.

Line numbers below are those of `wal.v`, short for
`src/external/Goose/github_com/mit_pdos/go_journal/wal.v`, unless another file is
named. `PROJECT.json` maps every definition of a model to the lines it stands
for.

## Inventory

| component | state | operations | what is hard | what makes it correct |
|---|---|---|---|---|
| **Write-ahead log** `go_journal/wal.v` | disk: two header blocks, LOGSZ slots, data region; memory: `memLog` (sliding log), `diskEnd`, `shutdown`, `nthread`, one mutex, three condition variables | MemAppend, Flush, Read, Shutdown, MkLog; background threads logger and installer | the threads do all disk I/O without the lock, on slices that share the array of the log; group commit; crash at any write; wakeups | recovery yields a prefix of the transactions with everything flushed; reads are current; nothing waits for ever |
| **Asynchronous disk** `algebra/log_heap.v`, `goose_lang/ffi/async_disk.v` | per block: latest value and the values a crash may expose | Read, Write, Barrier, crash | blocks fall back independently | external to the log; fixes what a crash may do |
| **log_state** `program_proof/wal/{abstraction,transitions}.v` | transactions with positions, `durable_lb`, `installed_lb` | log_mem_append, update_durable, update_installed, log_crash | - | the abstract specification of the log |
| **Mutex, Cond** `goose_lang/lib/lock/impl.v` | a flag | Lock, Unlock, Wait, Signal, Broadcast | Wait may return at any time in the model, not in Go | exclusion |
| **Object log and journal** `go_journal/{obj,jrnl,buf,addr}.v` | commit mutex, last position; buffers of an operation | Load, CommitWait, Flush; ReadBuf, OverWrite | objects share blocks: a commit reads, patches and appends whole blocks | commits of disjoint objects do not undo each other; Flush covers every commit |
| **Lock map** `go_journal/lockmap.v` | per shard: mutex, map from address to lock state (held, waiters, condition) | Acquire, Release | lock states are created and dropped on demand while others wait | exclusion, no lost wakeup |
| **Two-phase locking** `go_journal/txn.v` | addresses acquired, buffers | Begin, ReadBuf, OverWrite, Commit | reads are cached, locks kept until the commit is in the log | serializability |
| **Allocator** `go_journal/alloc.v` | bitmap, next | AllocNum, FreeNum, MarkUsed | 0 means failure | no number given out twice |
| **Replicated block** `go_journal/jrnl_replication.v` | two addresses | Read, Write | - | both copies equal after a crash |
| **NFS server** `go_nfsd/*.v` | inodes and data over transactions | read, write, setattr | - | atomic operations |
| **Replicated state of vrsm** `gokv/vrsm/paxos.v`, over an AsyncFile | per server: epoch, accepted epoch, index, state, leader flag, in memory and in a file | TryAcquire with tryRelease, applyAsFollower, enterNewEpoch, TryBecomeLeader, makeServer | messages lost, delayed, repeated; the leader collects votes and answers outside its mutex; answers wait for the file | one leader for an epoch, what was acknowledged is in every later leader |
| **The rest of vrsm** `replica, configservice, clerk, storage` | leases, sealed state, configurations | apply, reconfiguration | as above, and reads by lease | agreement |
| **RPC and KV of gokv** `urpc, erpc, memkv, lockservice, connman` | pending calls, reply tables | call, serve, shard moves | retries, duplicates, timeouts | exactly once |
| **vmvcc, tulip, rsm, pav** | version chains, coordinators, key directories | transactions, audits | large protocols | serializability, consistency |
| **GooseLang, program logic, proofs** `src/src/{goose_lang,program_logic,algebra,program_proof}` | - | - | - | the language and the proofs, not a running system |
| **RPC library** `symtest/rpc/rpc.py` | client: sockets and outstanding xids of each thread, one lock; server: buffers of each connection, what poll waits for | send, listen, reconnect, close; event_read, event_write, event_hup, event_new_client | a recv or send can stop between any two bytes, and a send that times out leaves its connection open; resets, resends; xids wrap | a call gets its own answer, none is lost without a fault, the loop stays alive, each but for what a send that stopped inside its record explains |
| **Protocol classes** `symtest/{rfc1813,rfc1057}/*.py`, `symtest/rpc/rpc_{pack,type,const}.py`, headers of `rpc.py`, `nfs_trace.py` | a call under way | every procedure of NFS, MOUNT and the port mapper; AUTH_SYS; commands of the server | packers, unpackers, clients and handlers generated apart; datagrams cut at 8192 bytes | arguments and results arrive field by field or not at all |
| **Symbolic execution** `symtest/*_sym.py` and its scripts | - | - | - | a sequential translation to an SMT solver |
| **Scripts** `etc/*.py` | - | - | - | - |

`symtest` is `src/src/goose_lang/examples/nfs_spec/symtest`.

How the modelled parts interact: clients call the log; the log's two threads and
its clients share `memLock` and the condition variables `condLogger` (work to
log, or something was logged), `condInstall` (work to install, or space was
freed) and `condShut`; the logger and the installer share the disk with the
reads of clients. A transaction of `txn.v` takes locks from the lock map, reads and
writes buffers of a journal operation (`jrnl.v`, `buf.v`), and commits through
the one object log (`obj.v`), whose mutex serializes the commits of all clients
and which calls MemAppend, Read and Flush of the write-ahead log. The servers of
`paxos.v` share nothing but messages; each has a file whose writer thread decides
when the answers that wait for it may go. A protocol class of `rfc1813` or
`rfc1057` is a subclass of the client or server of `rpc.py`, which frames its
bytes into records and calls back its `handle_N`.

## Modules

| module | models | code |
|---|---|---|
| `AsyncDisk` | one block of the disk and arrays of blocks, as operators | `log_heap.v` 6-24, `async_disk.v` 128-164 |
| `Sliding` | the in-memory log as a value, its methods as operators | 49-52, 157-272 |
| `Wal` | the log: state, one action per critical section, loop iteration or disk operation, crash with recovery | 68-153, 276-649 |
| `LogState` | what the log promises | `abstraction.v`, `transitions.v` |
| `WalInv` | the inductive invariant: the order of the positions | - |
| `WalProofs` | lemmas on what memWrite and deleteFrom do to a log; theorems | - |
| `WalDataInv` | the second inductive invariant: the contents | - |
| `WalDataLemmas`, `WalDataProofs` | lemmas on any log and transactions; theorems | - |
| `Locks` | a lock per address, what the lock map promises | `lockmap.v` 7-18, 104-114 |
| `LockMap` | the shards, their lock states and waiters; one action per iteration of a critical section | `lockmap.v` 20-114 |
| `LockMapProofs` | theorems | - |
| `Transactions` | what `txn.v` promises: a store whose transactions are atomic | - |
| `Journal` | transactions on objects: two-phase locking, buffers, commits of whole blocks, Flush, over `LogState` and `Locks` | `txn.v`, `jrnl.v`, `buf.v`, `obj.v` |
| `JournalInv`, `JournalProofs` | its inductive invariant; theorems | - |
| `OneLog` | what the replicated state promises: one log that only grows | - |
| `Paxos` | the servers, their files, messages and elections; one action per critical section, per write of a file and per crash | `paxos.v` |
| `PaxosInv`, `PaxosProofs` | its inductive invariant; theorems | - |
| `Rpc` | threads of a client and the server's loop over TCP, by pieces of a record | `rpc.py` 278-310, 380-520, 560-760, 880-952 |
| `RpcInv` | its inductive invariants: threads and connections, the two streams, where a call is | - |
| `RpcProofs`, `RpcStreamProofs` | lemmas on connections before and after a step; theorems | - |
| `Xdr` | xdrlib as the generated packers use it, and how a type's packer, unpacker and objects are tables of one form | external; `rpc_pack.py`, `pack.py` |
| `NfsConst`, `NfsTypes` | constants; for each type the objects the runs send | `rfc1813/{const,types}.py` |
| `NfsPack`, `NfsUnpack`, `RpcWire`, `PmapWire` | every `pack_` and `unpack_` method | `pack.py` of `rfc1813`, `rpc`, `rfc1057` |
| `NfsProcs` | every method of a client class, every `handle_N` | `client.py`, `server.py` |
| `NfsCall` | a call from the packing of its argument to the unpacking of its result, with the headers of `rpc.py`; the trace reader | `rpc.py`, `nfs_trace.py` |
| `MCWal`, `MCLockMap`, `MCJournal`, `MCPaxos`, `MCRpc`, `MCNfs` + `*.cfg` | instances for TLC | - |

### How `Wal` corresponds to the code

*State.* `hdr1`, `hdr2`, `logblk`, `data` are the regions of the disk. A block
is a record of its latest value and the set of values a crash may still expose;
the Coq definition keeps a list, of which only membership matters. `diskAddrs`
is the address array the circular appender keeps in memory. `memLog`, `diskEnd`,
`shutdown`, `nthread` are the fields of `WalogState`. A condition variable is
the set of threads asleep on it. `lpc`/`lg`, `ipc`/`inst`, `spc`, `cpc`/`req` are
the program counters and locals of the logger, the installer, the caller of
Shutdown and the clients. The rest is history: `txns` (what the abstract
specification calls txns), `acked` (how many of them a Flush has promised),
`seen` (for a read between its two halves, the values its address had since),
and the counters behind the bounds.

*Steps.* Between taking and releasing `memLock` the code touches only memory
that the lock protects. A critical section is therefore one action; where it
loops (`memWrite`), or where two handlers share it (the loops of logger and
installer, which hold the lock from one iteration into the next), the actions
in between keep the lock (`Keep`), so nobody else gets in. Everything done without
the lock - each block written, each header, each barrier, the disk read of a
client - is an action of its own. `Wait` releases the lock and puts the thread to
sleep; the wakeup makes it a candidate for the lock again. The logger and the
installer read a slice that shares the array of `memLog`: the model reads
`memLog` itself at each block, not a copy, so a racy overwrite would be seen.

*Crash.* Each block independently falls to any value it can have
(`ffi_crash_step`), memory and threads are lost, `recoverCircular` and `mkLog` run
on what is left. Recovery only reads the disk, so a crash during recovery is a
crash before it. `wal.v` is instantiated with the synchronous disk of
`ffi/disk.v`, on which a crash changes nothing and a barrier does nothing; its
behaviours are those of the asynchronous disk that never loses a write, so the
model includes them, and the barriers, which the code is careful about, mean
something. `Init` is the log MkLog finds after `initCircular`, whose writes have
no barrier: it is the disk on which they have all arrived.

*Data.* A block's contents is the number of the MemAppend that wrote it; an
address is a model value; `mkSliding`'s loop is its result (`LastPos`). The copy
of a block (`copyUpdateBlock`) and logging are left out. MemAppend of more than
LOGSZ updates returns at once (583) and changes nothing, so `WriteSets` has none.

### How `LockMap` corresponds to the code

The maps of all shards are one function from addresses, `state`, with `Nil` for an
address not in the map; a shard is its mutex. A lock state is a name with its
`held`, `waiters` and `cond`. Names are handed out when a state is created and can
be handed out again when neither a map nor a sleeping thread refers to them, so
a state dropped and made anew under a waiter would be noticed. One iteration
of the loop of `acquire` ends at `Wait` (`AcquireWait`); what comes after `Wait`
(`AcquireWoken`) keeps the mutex for the next iteration. `waiters` is a uint64 in
the code and an integer here; `WaitersCounted` shows it never goes below zero.
`owned` is history: who acquired what and has not released it. A thread acquires only
what it does not hold and releases only what it does, as `txn.v` does (74-78,
65-72). `WantedIsTaken` promises that a lock somebody wants is taken by
somebody, not by every thread in its turn: a newcomer may overtake a thread
that was signalled.

### How `Journal` corresponds to the code

Objects are a block number and an offset; the value of a block is a function
from offsets to data, so installing an object changes one offset and leaves the
others (`Buf__Install`, whose bits and bytes are left out; an object that is a
whole block is the only offset of its block). A transaction writes its own number.
`txns` and `durable` are the write-ahead log as `LogState` has it, and every
change of them is one of its transitions; `owned` is the lock map as `Locks` has
it. Both are what the lower modules are shown to implement, `Wal` by TLC and
`LockMap` by proof. A read of the log is one step: `ReadIsLinearizable` of `Wal`.
The position MemAppend returns is that of the end of the log, which absorption
may leave where it was (`Grow`). MemAppend refuses a transaction of too many
blocks; it also refuses when positions run out, with the same result. A commit
takes the commit mutex, installs one buffer per step, in any order (a Go
map's), then appends, stores `pos` and lets go in one step, since nobody else
looks at `pos` without the mutex. Shutdown of `obj.v` is Wal's. A crash loses
everything but a prefix of the log; Init of `txn.v` starts again with `pos` 0.

`Transactions` has the store after each transaction that wrote, how many of these
are durable, and for each client what it has read, what it will write, or what it
waits for. A client may read an object once and write any number; Commit needs that
all it has read is so now, applies its writes in one step, and returns at once or
waits; Crash takes back the last transactions, none that is durable. `States` is that
store as the commits of the log left it (`ObjectsExact`: as its blocks have it), and `Doing` maps a client's place in the code. A
transaction takes effect in doCommit's append, one without writes when it begins
to release, and one that is refused or given up never. `saw` is a history: what a
transaction read of the log, which its buffers forget when it overwrites them.

### How `Paxos` corresponds to the code

`ps` is `paxosState`, `disk` what the AsyncFile has written, `waiting` the messages
of callers that are inside `waitFn`. A handler holds the mutex from its first look
at the state to `withLock`'s `AsyncFile__Write`, so it is one action; it answers
when the file holds what it wrote or something later. `flushThread` takes the
lock of the file, writes and wakes whoever waits for that write; since a message
may be delayed for as long as one likes, the write and the sends are one step,
`Flush`. A message, once sent, is never taken out of `msgs`: to lose it is not to
receive it, and to repeat it is to receive it again, which the NOTE over
enterNewEpoch (`paxos.v` 289-295) expects of the callers. Nobody counts the answers that say EEpochStale,
so they are not sent. TryBecomeLeader and tryRelease call the others without the
mutex: the call is one step, and another is enabled when answers of a majority
have come, with whatever the server has become since. Any subset of the answers
that is a majority may be the one the goroutines had collected when the caller
counted. A server votes for itself and applies its own state by the same calls.
The leader flag is part of the state that is written, so a leader that crashes
comes back a leader, of what its file holds. The application's state is the sequence of the operations
that made it, all that the properties tell apart. `no` tells the elections of a
server apart, which the code does by their stacks.

### How `Rpc` corresponds to the code

A record is a number of fragments, and a fragment comes in two pieces: half 1 is its first
bytes, as many as a `sendall` had sent or a `recv_all` had received when it stopped inside
the fragment - a part of the mark, the mark, or the mark and a part of the body - and half 2 is
the rest. So a `recv`, a `send` or a timeout can end inside any mark and any body.
`Place` numbers the pieces of a record in the order they are written.
`Thread` is a thread as it starts; `Leaving` and `Returned` are how it comes out of a call, by
an exception or with an answer.
`th` is what a thread of the client is doing (`pc`), its socket of `socketPool`, the message it sends or waits for,
and how its last call ended. `xidlist` is the list of that name, with `rdata` the
answer read while another was wanted; `on`, the connection the call was last
sent on, is history. A connection is both its ends: what is under way each way, and
`readbufs`, `packetbufs`, `recordbufs` and `writebufs` of the server; `fd` says whether
the loop has yet accepted it and whether it still polls it. `lockLost` stands for
the client's lock when the test for an xid in use raises without giving it back.
The server is its loop, one event of one connection at a time, with any amount
of what has come in one `recv` up to `RecvMax`; an exception nothing catches ends it
(`alive`). `faults` counts timeouts, resets and closes.

*A send that times out.* `sendall` (`rpc.py` 288) raises with any prefix of the fragment sent, and
`send_impl` (451-452) leaves the connection open, with an xid that was never listed. `SendTimeout` puts
half 1 of the fragment on the wire or nothing of it, and the connection, once a byte of the
record was sent, is `cut`, as is the call. The next call's bytes go where the rest of
the fragment was awaited. From the place of the cut on, what `read_data` takes for a mark is
any bytes: `Packets` lets it take any number of pieces for a packet, the last
of a record or not, or wait. What has been glued together is not one whole call: `EventRead` lets
`compute_reply` drop it (an xdrlib.Error, 800-804), raise what nothing catches (`done` of the
arguments' unpacker, an EOFError: the loop ends), or, where the record begins with a call's first bytes,
run that call or refuse it and answer under its xid (797-861). A
resend, or a send to a connection that is broken, is left by `reconnect` and nothing follows what was
sent there.

*A receive that times out.* `recv_all` (252-262) forgets what it had of a mark or a body. `RecvTimeout`
after a piece leaves the connection `torn`; the next listen takes the rest of the fragment for a mark
(`RecvGarbage`), and raises after reading some of the stream.

What is left out of both: a glued record of exactly four bytes, which would be a command; the
middle of a call, or of a reply, that happens to read as the header of another; a glued record
of which the first bytes are not all of a header, answered under an xid that nobody
gave out (it is dropped or ends the loop); and how long the answer to a glued record is: as
long as that to its call.

### How `NfsCall` and the tables correspond to the code

The generated classes are tables: for each type, what its packer writes and its
unpacker reads, in order, as `Xdr` understands it (a structure, a union with its arms, an array with
its limit, an optional link). Packer and unpacker are separate tables, from the
separate methods of the code, and so are the procedures of a client and of a server;
that they agree is what the run shows. `Objects` has, for each type, an object of each
shape its class can have: each arm of each union, lists of none, one and two,
handles and names of greatest length where it matters. A class's attribute that is
left None makes the packer raise, as any wrong type does, and is not among the objects. A method of a client
packs, calls and unpacks; `compute_reply` reads the header, refuses or runs `handle_N`,
whose method is a step of its own (`HandlerReturns`), and packs what it returns. Over
TCP a message arrives whole: what `Rpc` is about. Over UDP either end takes the first
`UdpBuf` bytes, and a datagram may be lost or overtaken. `ClientGivesUp` is the timeout of a stream
or, over UDP, the second that `recv_record` waits (296-301), whose empty datagram raises EOFError: the
call stays on the `list`, the caller may make the next one (`CallerResumes`, `ClientCalls`), and the
answer to the first, should it come while the second is listened for, is kept on the list
(508-509). `given` is history: what the methods returned, by xid; an argument is forgotten
once its method has run. `Traced` is what the trace reader knows.

A definition named `Bad...` is a wrong variant of the one after it and takes no
part in the model; it shows that a property notices such a mistake.

## Properties and runs

| run | instance | properties |
|---|---|---|
| `core` | 2 clients, 2 addresses, 2 slots, 3 appends, no crash | `CircularLogFits`, `AddrPosExact`, `LiveSlotsIntact`, `ReadsCurrent`, `ReadIsLinearizable`, `InstalledInBounds`, `SharedSlicesStable`, `NoLostWakeup`, `SomebodyWorks` |
| `crash` | 2 clients, 2 addresses, 2 slots, positions of 2 bits, 2 appends, 2 crashes | `CrashSafe`, `IInv`, `RefinesLogState` |
| `live` | 2 clients, 1 address, 1 slot, 2 appends, fair | `MemAppendReturns`, `FlushReturns`, `LogDrains` |
| `shutdown` | 1 client, 2 slots, 3 appends, Shutdown at any time, fair | `QuietAfterShutdown`, `ShutdownReturnsUnlessFull` |
| `stranded` | as `shutdown` | `ShutdownReturns` - **violated** |
| `locks` | 3 threads, 2 addresses of one of 2 shards, 3 names for states, fair | `WaitersCounted`, `ImplementsLocks`, `WantedIsTaken` |
| `journal` | 2 clients, 3 objects in 2 blocks, a log of 1 block, 2 transactions of at most 2 accesses, 1 crash | `ReadsStable`, `ObjectsExact`, `PromisesKept`, `ImplementsTransactions` |
| `refused` | as `journal`, 1 client | `FlushCoversAll` - **violated** |
| `paxos` | 3 servers, 2 operations, 2 epochs, 1 operation in a row, 1 election of each server over all epochs, 1 crash | `OneLeaderPerEpoch`, `SameIndexSameState`, `LeaderHasAcked`, `ImplementsOneLog` |
| `rpc` | 2 threads, xids of 1 bit, 3 calls of up to 2 fragments, 2 connections (`MaxConns`), 4 calls and faults (`Budget`) | `AnswersMatch`, `NoStrayReply`, `RunAsSent`, `Conserved`, `RepliesWhole`, `ServerDiesOnlyOf` |
| `rpcstall` | as `rpc` | `NoRecordLeftBehind` - **violated** |
| `nfs` | 12 client classes, 6 server classes, every procedure, every shape of object, 2 xids, 3 procedures given up while under way | `GotExactly`, `AnsweredExactly`, `RefusedRightly`, `NoSpuriousFailure`, `TraceReadsTheSame`, `DiesOnlyOf` |

Why the bounds are enough. Two slots and transactions of one or two blocks make
the log wrap around, fill up, and hold a transaction that straddles the end.
Three appends on two addresses give an address that occurs once in the installed
part, once in the logged part and once in the mutable part, which is every
region `memLog` has, and an absorption in each order. Two clients are needed for
reads against appends and for lock hand-over. In `crash` the second client appends while the logger is between taking a batch and
publishing it, and of two crashes one is on a recovered log. `U64` = 16 leaves
room for every position a run can reach; `crash` and `live` set it to 4 so that
it does not. Three threads on one address let a
newcomer overtake a woken waiter while a third sleeps; two addresses in a shard
share the mutex and the pool of names. In `journal` two of the objects share a
block, where commits could undo each other, two do not, and a transaction of both
blocks is too big for the log: none that writes both commits there, and that one which
spans blocks is atomic is what the theorems about `Journal` say, for a log of any size. In `paxos` two epochs have
leaders of the same and of different epochs with states that conflict, and a
leader that crashes and comes back; three epochs or two operations in a row take
hours, and the theorems cover what they would; `MaxTries` counts a server's elections over all epochs, so that
each runs once. In `rpc` a bit of xid makes
a thread's third call meet its first, and so the answer to a call that was cut meet a later call; `RecvMax` = 4 is two fragments in one recv, as
4096 bytes are two small packets; `Budget` is shared by calls, timeouts,
resets and closes, so that a run has one call and three faults as well as three
calls and one; a connection made by a thread that only raises after is not counted in
`MaxConns`. In `nfs` any call may be the first, and after one of the procedures of `Late`, one for each program, was given up comes
another of them (`MaxCalls` = 2), with the first, its method or its answer still under way, lost or done; a call of another procedure is given up only once
nothing of it is under way; a server that has gone or will refuse is sent
one call for each, and the integers are below 2^31 and the payload bytes below 128, so that a word is
written by its bytes and no sign matters. `UdpBuf` = 160 cuts the longer half of the
messages, as 8192 does the longest. `MaxAppends` and `MaxCrashes`
are guards of CallMemAppend and Crash, `MaxEpoch`, `MaxIndex`, `MaxTries` and
`MaxCrashes` of `Paxos` of TryBecomeLeader, TryAcquire and Crash. Symmetry of the
clients, servers and operations is used in `core`, `crash`, `journal` and `paxos`, which check no
liveness. `CHECK_DEADLOCK FALSE` is said where Shutdown may
be called, after which the system stops, and in `paxos`, `rpc` and `nfs`, which
stop when the bounds are used up or the server's loop has ended.

Fairness. `FairSpec` of `Wal` asks strong fairness of the logger, the installer, each
client's call once made, and Shutdown once called. A Go mutex hands itself to a
waiter that has starved, so a thread whose critical section is possible again
and again runs it; a thread with no lock to take is simply runnable. Nobody is
obliged to call anything, to crash or to wake up without a signal. `Wakeup`, a
return of Wait with no signal, is possible in GooseLang (`impl.v` 19-23) and not
in Go: it is in the model without fairness, so safety holds with it and liveness
without it. `FairSpec` of `LockMap` is the same for a thread inside Acquire or
Release. `Journal` states no liveness: a commit or a Flush returns if the calls it
makes do, which are the calls of the modules below.

### What was found

* **Shutdown may never return** (run `stranded`). `waitForSpace` (401) does not
  look at `shutdown`. If Shutdown comes while the logger is in there, the logger
  may go on to find nothing to log and wait on `condLogger` (455), whose
  broadcast (639) is already past; or, if the installer left first, never be
  woken from `condInstall` at all. `ShutdownReturnsUnlessFull` shows that this
  is the only way: if the logger is elsewhere when Shutdown takes the lock, it
  returns.
* **A refused commit makes the next Flush promise nothing** (run `refused`).
  `Log__doCommit` (`obj.v` 79) stores the position MemAppend returned, 0 if it
  failed; a Flush after that returns at once, though the comment in `jrnl.v`
  (29-31) says it flushes all transactions. The next commit that succeeds repairs
  it: `PromisesKept` shows that every other Flush keeps its promise.
* **A call may stay unread in the server's buffer** (run `rpcstall`). `read_data`
  (`rpc.py` 905-907) takes at most one packet off what one `recv` brought, and is
  called again only when more bytes come: the second fragment of a small record, or
  the second of two calls sent together, waits until then.
* **A send that times out corrupts the calls after it.** `send_impl` (`rpc.py` 451-452) keeps the
  connection on which `sendall` stopped inside a fragment. The next call of the thread completes that
  fragment: the server may run the first call, which the client was told had failed, never sees the
  second, and answers under an xid that is not on the list; with xids that have wrapped the
  answer is returned to a third call. No comment of the repository promises otherwise, so
  this is no run that is expected to fail: `AnswersMatch`, `NoStrayReply`, `RunAsSent`, `Conserved` and
  `ServerDiesOnlyOf` say what holds and name the cut as the one exception. Without the exception
  TLC finds each of them violated in the instance of `rpc`. Reconnecting on a timeout, as
  the resending of `listen` does, would do.
* **`installBlocks` does not do what its comment says.** The comment (`wal.v` 323-328) promises that
  writes are de-duplicated and that at every point an address has its old value or the one all
  of `bufs` leaves. The code (329-337) writes every update in order, so an address that
  occurs twice has the value in between for a while. Nothing depends on it: readers of the data
  region without the lock and recovery are content with the value of any transaction between the installed and
  the durable bound, which is `InstalledInBounds`, and `ReadIsLinearizable` and `CrashSafe` hold.
* The TODO over `memLogHasSpace` (567), "relate this calculation to the circular
  log free space", has an answer: `CircularLogFits`, checked and proved.

## Proofs

`WalProofs` proves, from the assumptions on the constants alone (`LOGSZ` > 0,
`U64` > LOGSZ, transactions of at most LOGSZ blocks, thread names distinct):

| theorem | says |
|---|---|
| `Invariant` | `Spec => []IInv` |
| `TypeCorrect` | `TypeOK` always |
| `PositionsAlwaysOrdered` | `PositionsOrdered` always |
| `CircularLogAlwaysFits` | `CircularLogFits` always |
| `ThreadsAlwaysCounted` | `ThreadsCounted` always |
| `AlwaysQuietAfterShutdown` | `QuietAfterShutdown` always |
| `AckedAlwaysKept` | `AckedKept` always |
| `SharedSlicesAlwaysStable` | the action property `SharedSlicesStable` |

The argument. Positions are ordered because each thread publishes an end it
computed earlier from a part of the log that only grows (`mutable`, `diskEnd`).
That is inductive only with what the threads hold without the lock
(`lg`, `inst`) between the same bounds, and with what the headers on disk may be
after a crash (`Hdr1Agrees`, `Hdr2Agrees`), since recovery takes `start` and
`diskEnd` from them. The log fits because `waitForSpace` establishes
`ReadOnlyFits` and `memLogHasSpace` establishes `UnloggedFits`; the second is
kept through the loop of memWrite by what a writing client has `Reserved`.
`AddrsKnown` makes the log recovered from the slots well typed. Shutdown is quiet
because the flag is set before the threads are counted (`ShutdownSeen`): a thread
not yet counted can only find its way out. `AckedDurable` ties a promise to
`diskEnd`, which a crash cannot move back. The lemmas at the head of `WalProofs` say
what memWrite and deleteFrom do to a log of any length.

`WalDataProofs` proves, from the same assumptions, what the log holds:

| theorem | says |
|---|---|
| `Contents` | `Spec => [](IInv /\ DInv)` |
| `AddrPosAlwaysExact` | `AddrPosExact` always |
| `LiveSlotsAlwaysIntact` | `LiveSlotsIntact` always |
| `ReadsAlwaysCurrent` | `ReadsCurrent` always |
| `ReadsAlwaysLinearizable` | `ReadIsLinearizable` always |
| `AlwaysInstalledInBounds` | `InstalledInBounds` always |
| `AlwaysCrashSafe` | `CrashSafe` always |
| `WakeupsNeverLost` | `NoLostWakeup` always |
| `SomebodyAlwaysWorks` | `SomebodyWorks` always |
| `ImplementsLogState` | `Spec` implements `LogState`, if no transaction is empty |

The argument (`WalDataInv`, on top of `IInv`). The log is cut at a few positions, its
`Bounds`: its start, `diskEnd`, `mutable`, and the ends the threads took. At each of
them a transaction ends, and the log up to there, made to the disk as it is at the start,
`Shows` the disk those transactions leave: for each address the last update below the
cut has that block, and an address without one is as at the start. This is `Effect`. A
client in memWrite may change no update below `mutable`, and the logger does not move
`mutable` in the middle of a transaction, since memWrite keeps memLock (`EndShown`).
Recovery keeps the log between two of these cuts, so `Effect` survives a crash,
provided the slots hold what memory held (`SlotsInv`): positions less than LOGSZ apart have different
slots, and `IInv` says the live ones are no further apart. The data region is known
only as far as the installer has gone: an address the installer cannot have touched
is as at the start of the log, one it has written has the last block written, after
its barrier all are as at its end (`DataInv`). This is why a crash in the middle of an
installation does no harm: either header 2 still has the old start and the log has
every address the installer touched, or it has the new one and the installation is whole. For a
reader without the lock, `SeenInv` says that it has seen the value on the disk
and every value that the read-only part of the log can still install; an update becomes
read-only when it is the last of its address, that is, when it is current.

Who sleeps still has to (`WakeInv`, on top of `IInv`). A sleeper went to sleep at a known place of
its code with its condition false, and does not hold memLock (`SleepersPlaced`). What it waits for becomes true in few
steps, and each of them broadcasts: `mutable` moves with a request, `diskEnd` when
a batch is logged, the start when an installation is cut off, `nthread` when a thread leaves. What a
client waits for is in addition a request on its way (`LoggerTold`): the logger has been asked
(`needFlush`), or `mutable` has already passed the position of a Flush, or `diskEnd` for a full
log; a request is forgotten only in the step that moves `mutable` to the end.
`SomebodyWorks` follows from this. A logger asleep has nothing asked of it and nothing mutable, which a client asleep
contradicts; a logger that waits for space has a full log, which by `UnloggedFits` has
something durable in it to install, so the installer does not sleep. That is the safety half of
`MemAppendReturns`, `FlushReturns` and `LogDrains`, for any instance: what is left to liveness is that
who is awake gets its turn.

An empty transaction is what the refinement has to exclude: it is durable the moment
it is appended if the log is otherwise flushed, so one step of the code would be
two of log_state. The other theorems include it.

`LockMapProofs` proves, for any finite set of threads and any addresses, number of
shards and set of names (the other assumptions are on their types):

| theorem | says |
|---|---|
| `LockInvariant` | `Spec => []LockInv` |
| `LocksExclude` | no two threads ever own the lock of an address |
| `LockMapImplementsLocks` | `Spec` implements `Locks!Spec` |
| `WaitersAlwaysCounted` | `WaitersCounted` always |
| `NobodyEverForgotten` | `NobodyForgotten` always |

`LockInv` is inductive: the addresses in use have different lock states, a state
is held exactly if somebody owns the lock, and a thread in release owns what it
releases. Without the first a release could free another address's lock;
without the second taking a free state would not show that nobody owns it.
The count is a second invariant, `CountInv`: a release drops a state nobody waits for,
and a later Acquire starts a new one at 0, which is right only if no waiter can
still mean the old one. `NoneLeftOver` says so: a state that is neither held nor
waited for is in the hands of a woken waiter, and by `KeptByWoken` nothing else
keeps the shard's mutex from one action to the next. The threads must be finite for
a count of them to be a number. `NobodyForgotten` is the safety half of
`WantedIsTaken`: while a lock is free and wanted, a thread that wants it is awake. A
release wakes only one, who may find the lock taken by a newcomer and sleep again: then it is not free,
and the newcomer's release wakes the next. A release that drops the state leaves nobody asleep
on it, by the count (`SignalInv`).

`JournalProofs` proves, for any clients, objects, block size, log size and numbers
of transactions, accesses and crashes:

| theorem | says |
|---|---|
| `JournalInvariant` | `Spec => []IInv` |
| `JournalImplementsTransactions` | `Spec` implements `Transactions!Spec` |
| `ReadsAlwaysStable` | `ReadsStable` always |
| `ObjectsAlwaysExact` | `ObjectsExact` always |
| `PromisesAlwaysKept` | `PromisesKept` always |
| `LocksAlwaysHeld` | an object has one owner, and what is buffered is locked, until the release |

The argument (`JournalInv`). Whatever a transaction has buffered it has locked
(`LocksHeld`), so a commit of another, which writes only what that one locked, does not
change it: `ReadsStable`. A commit builds its blocks with one look at the log
per block, while holding the commit mutex; since nobody else appends, the objects it
does not write stay in them as the log has them (`BlocksPatched`), and so the append
changes the objects it wrote and no other, which makes `ObjectsExact` inductive. A prefix
of the log reads the same after an append, a crash or a write to disk: that is the part of
`ObjectsExact` about crashes. `Covered` says of each position a caller waits for,
or will read from `pos`, which transactions it covers once flushed; a refused commit
breaks it for `pos` alone, which is why `failed` is a case of its own. The lemmas
under it are about the data: the largest of a set of
indices exists (by well-foundedness of the numbers), the updates of a transaction
name each block once, and a log's value at a block is that of the last update to it.

The refinement is one lemma per kind of step. A step of a client is its turn only
(`TurnOf`, from `Others`), and the store changes only when the commits of the log do (`SameStates`);
`ObjectsExact` ties it to the blocks a caller reads. What the refinement
needs of the invariant: what was read is in a buffer (`ReadsBuffered`), so that it is read of
the log once and is locked, which makes it current at the append (`ReadsStable`); the append
changes exactly the objects the client wrote (`AppendCurrent`) and leaves the stores before
it (`SamePrefix`); a caller returns when what it waits for is durable (`CallCovered`).

`PaxosProofs` proves, for any finite set of servers, any operations and any
bounds:

| theorem | says |
|---|---|
| `PaxosInvariant` | `Spec => []IInv` |
| `OneLeaderAlways` | `OneLeaderPerEpoch` always |
| `SameIndexAlways` | `SameIndexSameState` always |
| `LeaderHasAckedAlways` | `LeaderHasAcked` always |
| `PaxosImplementsOneLog` | `Spec` implements `OneLog!Spec` |

The argument (`PaxosInv`). A vote that was sent is in its server's file, and no
crash takes a server back behind it, so it votes once in an epoch (`VotesBind`); two elections won
in one epoch would share a voter, so an epoch has one leader, and nothing is accepted
in it before that election is over (`LeadersElected`, `AcceptedAfterElection`). The
states accepted in an epoch are prefixes of each other (`OneLine`), with the leader's at the
end (`LeaderAhead`), also counting only what would survive the leader's crash: after
one it is leader again of what its file holds, and must not make a
second line from there. Across epochs the key is `Choosable`: a state is that
while a majority has applied it or may still do so, having written no later epoch
to its file. Once false it stays false. A server that has applied a state says so in any
later vote, by that state or one after it (`AppliedCovered`), and `Latest` of a majority of votes picks
one of those, so what is choosable is in whatever a later epoch accepts
(`Safe`). What is acknowledged a majority has applied (`AckedApplied`), so it is a prefix of every later leader's
state, and the longest acknowledged state is the log that `OneLog` speaks of.
These statements speak of what is in the files, so it matters that an answer waits
for the write: one sent before it would make them false at the next crash.

`RpcStreamProofs`, on the lemmas of `RpcProofs`, proves for any threads, any number and sizes of
requests and replies, any modulus of the xids, any `RecvMax` and any bounds on connections, calls
waiting and faults, with sends and receives that stop inside a fragment:

| theorem | says |
|---|---|
| `RpcSafe` | `Spec => [](SafeInv /\ StreamInv)` |
| `RpcTypes` | `Spec => []TypeInv` |
| `RpcAnswersMatch` | `AnswersMatch` always |
| `RpcNoStrayReply` | `NoStrayReply` always |
| `RpcRunAsSent` | `RunAsSent` always |
| `RpcServerDiesOnlyOf` | `ServerDiesOnlyOf`, an action property |
| `RpcRepliesWhole` | `RepliesWhole` always |
| `RpcConserved` | `Conserved` always |

The argument (`RpcInv`). Everything on a connection is in one of two streams: what of the requests is under way
or half collected by the server (`Asked`), and what of the replies is under way or
half collected by the client (`Told`), besides the records the server has yet to
write. A request or reply may be torn or cut short, but its pieces come in order and each once
(`InOrder`): so a record's first piece is read once, and the call is answered once. `Link` relates a
thread to its connection: a call that is asked or answered is known to the
thread or has the xid of one that was cut on this connection (`AllKnown`, `Xids`), which is why a stray reply means a cut;
what is answered is asked no more, but for the rest of a call that was cut
(`AskedOrAnswered`); and a call whose answer was kept has nothing left under way
(`KeptOnce`). Where xids wrap
around, the test for an xid in use keeps a second call of it off the list, so the entry an
answer finds is the one of its call; the lock that test loses stops every later call, and
`Known` has a disjunct for it.

What the server runs depends on where its stream is in step. `StreamInv` says that each piece
of a call that was not cut is followed by its next, or by the first of another record
(`AsksWhole`), that a record it has begun with such a call is clean so far, and that what
is sent next continues what was sent last (`NextAsked`); on a connection without a cut the stream also begins a record. So a record
that begins with a call that was not cut is that call, whole, and anything else is glued from a call that was
cut. `SafeInv` and `StreamInv` are kept together: the step of `ReadData` needs the
second for the first, and the step of a client the first for the second.

`RunInv` counts, in three parts. `RanInv`: a call was run as often as it was sent whole, once more if it was cut, less
the connections that still carry it (`CarriedOn`: its end, or the first piece of one that was cut). `HeldInv`: what a thread
sends or has listed is its own call. `AloneInv`: a call sent for the first time is on one
connection. It is the count that is inductive, since a resend puts a second copy on the wire before
the first is known to be lost.

On a connection without a cut the server's unpacker never sees a record that is not one whole call; what is left for the
loop to die of is what `ServerDiesOnlyOf` names. `ReplyInv` says the
same of the replies, where no receive was torn. `PlaceInv` says where an outstanding call is, if nothing
happened to its connection; that it is in one place only follows from `Link`.

The invariants are operators of a thread's and a connection's records, and not
of the variables: each action changes one connection by one of a few operators (`Deliver`, `Chunk`, `Rest`, ...), and
the lemma about that operator serves every thread and invariant. `MCRpc` was
checked against all of them before they were proved.

Only model-checked: the properties of `NfsCall`, and every liveness
property, which is out of the prover's reach. The tables of
`NfsCall` are recursive, as the types are, and its modules hold no theorem.

## Plan

1. *Done:* the write-ahead log, its specification, its invariants and proofs.
2. *Done:* `LockMap` and `Locks`; refinement and exclusion proved.
3. *Done:* `Journal`: obj, jrnl and txn over `LogState` and `Locks`; its properties proved, and that it
   implements `Transactions`.
4. *Done:* `Paxos` and `OneLog`: elections, copies, the file; `PaxosProofs`.
5. *Done:* `Rpc`, its properties proved; `NfsCall` with its tables.
6. `Erpc` of gokv: exactly-once calls over a transport that repeats them.
7. *Done:* the contents of the log: `WalDataProofs`, with the refinement of `LogState`.
8. `Alloc` and `Replicated`, the small clients of the journal.
9. `NfsCall`: theorems on the steps of a call, which needs its control apart from the recursive
   tables, so that what the tables do is a CONSTANT of it.

## Not modelled

*Python.* The port mapper mixins of the clients and servers, and register and
unregister, which are calls of the port mapper classes that are modelled; the
emulation of poll by select; AUTH_GSS, whose library is not in the repository;
the second client that may use the one UDP socket of a server (a hazard
listed without a property: `NfsCall` has one client thread and no queue of replies); the parsing of captured
packets up to the RPC message in `nfs_trace.py`; `__repr__` and other helpers
of the generated types. The symbolic execution of the specification is sequential and
its result is that of an SMT solver; the scripts in `etc` run other programs.

*GooseLang.* `paxos.v` has WeakRead, which changes nothing, and AsyncFile__Close;
`replica.v`, `configservice.v`, `clerk.v` and `storage.v` are a second protocol, with leases,
of a project's size. The NFS server, the allocator and the
replicated block are small clients of the journal; vmvcc, tulip, rsm and pav are
protocols larger than this project can follow faithfully at once; GooseLang and
the proofs are not a running system; `new/` is a newer translation of the same
Go programs.
