# irodsFs in TLA+

A verification of irodsFs, the FUSE client of iRODS (`src/src`, `src/include`):
TLA+ models of the parts of the program that keep shared state, runs that
model-check them on small instances, and theorems that hold for every size: every
safety and action property of a passing run is proved as well.

Paths are relative to `src/` of the repository; `Conn.cpp:335` is line 335 of
`src/iFuse.Lib.Conn.cpp`, and likewise `Fd.cpp`, `FS.cpp`, `BufferedFS.cpp`,
`MetadataCache.cpp`, `RodsClientAPI.cpp`. `PROJECT.json` says, definition by
definition, which lines a module models, and lists the hazards and which
property watches which.

- [Inventory](#inventory): the parts of the program
- [Modules](#modules): what models what, and how
- [Runs](#runs): what is checked, with which bounds
- [Fairness](#fairness)
- [Proofs](#proofs)
- [Where the code and its words differ](#where-the-code-and-its-words-differ)
- [Not modelled](#not-modelled)
- [Plan](#plan)

## Inventory

FUSE calls `iFuseOper.cpp` from many threads. An operation goes, by option,
through the preload layer, the buffered layer, or straight to `FS.cpp`; that
takes a connection from the pool, locks it, calls the server through
`RodsClientAPI.cpp`, and unlocks and gives the connection back. One more thread,
the timer, runs the watchdog of the API calls and the idle check of the pool.
Nothing is persisted.

| part | state | operations | what is hard | what makes it correct |
|---|---|---|---|---|
| connection pool, `iFuse.Lib.Conn.cpp` | five places for `iFuseConn_t` objects: slots of used file connections, parked ones, the short-operation connection used or parked, one-time ones; a reference count and a last-use time each | get-and-use, unuse, reconnect, idle check, keep-alive, report, destroy | connections are freed by the idle check and after the pool lock is released; errors leave between take and give-back | a connection is in the one place its count and type say; the count is exact; nothing freed is reachable; bounded; a parked connection is reused or closed |
| locks and keep-alive, same file | `g_ConnectedConnLock`, one lock per connection | lock, unlock, reconnect, keep-alive | two lock levels taken by requests and the timer; reconnect locks what its caller has locked | pool lock before connection lock; one exchange at a time on a connection; no request waits for ever |
| API calls and watchdog, `iFuse.Lib.RodsClientAPI.cpp` | `g_Operations`, the list of running calls | start, end, check of timeouts, 17 wrappers | a timeout races the answer; the checking thread can itself be blocked | a call the server leaves unanswered is ended |
| timer, `iFuse.Lib.cpp` | handler list, one thread | start, stop, register | handlers run one after the other and take locks | it keeps coming round |
| buffered files, `iFuse.BufferedFS.cpp` | `g_DeltaMap` (written bytes of a path), `g_CacheMap` (a read block of an open file), one lock | write, flush, close, read, stat | the lock is released before each call to the server; bytes are in one of four places | every read sees the bytes written before; a size is never more than the file has and, after a flush or close, no less; bytes are lost only with an error |
| metadata cache, `iFuse.Lib.MetadataCache.cpp` | `g_StatCacheMap`, `g_DirCacheMap`, with times; one lock each | put, get, add, remove, check, clear, release | a request is a server call and several cache operations, and others run between them | what is answered from a cache is what the server says, or becomes so |
| file system operations, `iFuse.FS.cpp` | none of its own (options) | one function for each FUSE operation | the order of take, lock, call, retry, unlock, give back, invalidate on many return paths | as above, of the parts it joins |
| descriptors, `iFuse.Lib.Fd.cpp` | `g_AssignedFd`, `g_AssignedDir`; per file the server's number for it and the position it should have, with a lock | open, reopen, close, close all | a reconnect voids the numbers of every file on the connection; the table lock is kept across a server call; a seek is left out when the position is thought right | an I/O goes to the file and the offset it was asked for; no server descriptor outlives its handle, but for one whose close the server refuses |
| preload, `iFuse.Preload.cpp` | per open file a list of up to `--preloadblocks` + 1 blocks, each with a thread, a status, an open file of its own; a lock of the list | open, read, close, release all | the window moves while readers wait for a block; the list is looked at, unlocked, and used | each thread is joined once, each open file is closed once, nobody loses the block it waits for, only the end of the file is reported as one |
| dispatch, `iFuseOper.cpp` | none | FUSE entry points | rename and unlink of paths that have a delta | see buffered files |
| utilities, options, `main`, scripts | options, once | parsing, path handling | none | - |

How they meet: `FS.cpp` calls the pool for each operation; open files keep their
connection while they are open (`Fd.cpp`); the buffered layer and preload call
`FS.cpp` with their own locks released or held; `FS.cpp` tells the metadata
cache of every change after it has unlocked its connection; the timer thread
calls back into the pool and the watchdog under the locks of both.

## Modules

| module | models | abstracts |
|---|---|---|
| `ConnLease` | what the pool promises its users (usage pattern, `Conn.hpp:41-51`) | how |
| `ConnPool` | `Conn.cpp` with the sessions of `FS.cpp`: it implements `ConnLease` | a pool operation is one step, since it runs under the write lock |
| `ConnPoolProofs` | the inductive invariant of `ConnPool`, and what follows | - |
| `ApiTimeout` | the lock steps of a request and of the timer, the keep-alive, the list of running calls, the watchdog | the pool is its lock and who uses what |
| `ApiTimeoutProofs` | the lock order of `ApiTimeout`, one call at a time, no deadlock | - |
| `Blocks` | block arithmetic and the in-memory operations on deltas and blocks | bytes are model values |
| `BlocksProofs` | lemmas about the operators of `Blocks`, used by the next two proofs | - |
| `File` | what a file promises its users | - |
| `BufferedFs` | `BufferedFS.cpp` for one path: it implements `File` when operations do not overlap | lengths of buffers, allocation |
| `BufferedFsProofs` | the inductive invariant of `BufferedFs`, what follows, and that it implements `File` | - |
| `BufferedRead` | the loop of `iFuseBufferedFsRead`, every offset and size | other handles |
| `BufferedReadProofs` | the loop invariant | - |
| `Preload` | `Preload.cpp` for one handle: blocks, their threads, the window, the lock of the list | the bytes of a block; `g_PreloadLock` |
| `PreloadProofs` | the inductive invariant of `Preload`, and what follows | - |
| `FdSession` | file handles: `Fd.cpp`, and open, read, write, flush, close of `FS.cpp`, with what a reconnect does to the numbers at the server | the pool is whether a connection is shared; bytes are the place they come from |
| `FdSessionProofs` | the inductive invariant of `FdSession`, and what follows; no deadlock among its locks | - |
| `MetadataCache` | `MetadataCache.cpp` for one directory, with what `FS.cpp` does to it | a stat is a version number; paths are names |
| `MetadataCacheProofs` | the inductive invariant of `MetadataCache`, and what follows | - |
| `MC...` | settings and symmetry for TLC | - |

### ConnPool

`Conn` are addresses: `calloc` takes one that is not in `allocated` and
`_freeConn` gives it back, so a freed object really is reused by the next
connection, and a reference that was kept is a reference to someone else's
connection. The five places are the variables `inUseConn` (slots),
`freeConn` (a sequence, front first), `inUseShortopConn`, `freeShortopConn`,
`inUseOnetimeuseConn`; `removeList` is the local list of the idle check.
`iFuseConnGetAndUse` has one action for each of its branches (`UseShortInUse`,
`UseShortFree`, `UseShortNew`, `UseFileFree`, `UseFileNew`, `UseFileShared`,
`UseOnetimeNew`), `iFuseConnUnuse` one for each type. Two operations are cut in
two because the code leaves the lock in between: the free of a one-time
connection (`Conn.cpp:729`), and the idle check, which collects and then frees.
A session is a request, or an open handle; when its open fails it forgets its
connection as `FS.cpp:241` does, and `lost` remembers that. Time is counted in
ticks since the last use, up to the timeout.

### ApiTimeout

A step is a stretch between two lock operations or network waits. `pc` is where
a thread is. `Release` says what an unlock does: for a thread that does not hold
the lock POSIX leaves it undefined, so it is harmless, frees the lock, or ruins
it, as the setting allows. That unlock exists: `iFuseConnReconnect` locks
and unlocks a connection its caller has locked. The two waits for `rcConnect`
are places of their own: `connect`, under the pool lock, and `rejoin`, under the
connection's. `registered` and `age` are `g_Operations`; `cut` is a socket that
is shut down; `checkDue` and `connDue` say that the interval of a handler of the
timer is over. `setting` is what a mount runs with (shared connections, keep-alive
calls, faults, a server that may be silent to a connect); one run checks all.

### BufferedFs, BufferedRead

`remote` is the file at the server, `delta` the entry of the path in
`g_DeltaMap`, `cache` the one block of each handle. Every critical section and
every server call is a step. `View`, what a reader should see, is the file, under
the delta that is on its way, under the delta. A handle that is closed is
opened again as a new one; one whose flush fails in close is `lost`
(`BufferedFS.cpp:533`). Reads in `BufferedFs` are of one block; the loop that
puts blocks together is `BufferedRead`.

A size does not come from the file. `iFuseBufferedFsGetAttr` asks
`iFuseFsGetAttr`, which answers with the stat in the metadata cache
(`FS.cpp:94-101`; `statCache`, `StatHit`) or, when there is none or it has
expired (`StatMiss`), asks the server and caches what it says (`ObjStat`,
`PutStat`); a delta that ends behind that size then extends it (`StatDelta`). The
cached stat is dropped by a flush, and by the open and close of a writer
(`DropStat`), and not by `iFuseFsWrite` (`FS.cpp:458-610`), which `_writeBlock`
calls to send a delta that makes room for another one. What the server says is
external: `registered`, the size in its catalogue, follows the file when a
writer's descriptor is closed or reopened (`Register`), and an answer is
anything between that and the file. So this is possible without any overlap, and is
in the model: a stat of an empty file is cached; block 0 is written, block 1 is
written, which sends block 0, the first byte is written again, which sends
block 1; now a stat gives 1. `File` promises no more than the code keeps:
a size is at most that of the content, at least that of the last flush or
close (`synced`), and counts the bytes written last (`recent`). Sizes are asked
for in the settings without overlap only; that a name is not found because of a
cached listing (`FS.cpp:103-109`) is in `MetadataCache`.

`BufferedRead` also has the loop of `iFusePreloadRead`, which is the same walk
with another way to get a block: with `preload` set, a round gets the block from
`_readPreload`, or fails and falls back to the buffered read (`Fallback`).

### Preload

`pblocks` is the list of blocks of a handle, `pblock` what is at each address
(which block, the status of its thread, whether it has an open file, whether the
thread was joined), so that an address can be freed and used again. The thread
of a block is `TaskOpen` and `TaskRead`. A request has a step for each stretch
of `_readPreload` between two changes of the lock: `Scan`, `JoinOld` and `DropOld`
(under the write lock, `Preload.cpp:295`: what is missing is noted, the old blocks
go, their open files move to the recycle list),
`StartFirst` (the block that is asked for, if it is missing, in a write lock of
its own), `Take`, `Look`, `Joined`, `ReadPBlock`, `LetGo` (under the read lock, the
block that is asked for), `Fill` (a write lock for each of the other missing blocks).
`JoinOld` and `Joined` wait for a thread while they hold the lock; a second
`pthread_join` on a thread is undefined in POSIX, and returns an error or ends in
a crash here. `setting` has four sides: requests that overlap, calls that fail,
threads that cannot be started, `--preloadblocks` (0 is the default, above the
limit is cut to it).

### FdSession

`agent[c]` is the table of open files of the server process behind connection
`c`; `fd[h]` the number a handle has in it, `lastFilePointer[h]` the position it
thinks it has there. A request takes the locks in the order of the code (table,
handle, connection; `TakeTable`, `TakeFd`, `TakeConn`), makes its calls (`open`;
`seek` if needed and `data`; `reclose` and `reopen` of a flush; `close`), and ends
(`EndIO`, `EndOpen`, `EndClose`). Each call can find the connection broken:
`Reconnect` makes a new agent with an empty table, releases the lock of the
connection (see `timeout_relock`), and the call is made again with the old number;
a second break, or a refusal, ends the operation as the code does (`Fail`).
`Reconnect` takes the lock of the connection again without a wait for a request
that has got it meanwhile, so it has more behaviours than the code.
`Refused` is a server that does not know the number, has none left (`Full`, at
`Numbers`), or refuses for reasons of its own, a close too. A refused close is
logged, the handle forgets connection and number and is freed
(`Fd.cpp:95-107`): `EndClose` then gives the open file to nobody (`Abandon`), and on
a shared connection it takes a number until the agent ends. A private connection
is a one-time connection, which ends with its handle and takes the file along.
A flush whose close is refused does not reopen and goes on with the old file
(`Fd.cpp:396-406`). `Data` is a read or a write: `touched` remembers which file and which position
the bytes came from or went to. `setting` chooses private connections, the
default, or one that all handles share, parked in between or not, the case of
`--connreuse` at its limit; whether connections break (`breaks`) and the server
refuses calls (`refuses`); and which handles are opened (`handles`). `disturbed` is
a history variable: connections that were replaced while a handle had a file on
them, or where a handle lost it in a reopen that failed.

### MetadataCache

`server` holds a version for each name, 0 when it does not exist. `statCache`
holds version and age, `dirCache` how often a name is in the list (the code
appends without a look) and the age of the list. A request asks or changes the
server in one step and leaves the cache operations it then does in `todo`; each
is a step, taken under the lock of one cache. `iFuseMetadataCacheAddDirEntryIfFresh2`
is two of them. Expired stats are not cleared in the model: no one can tell,
since a stat is never read without its age. Lists are (`ClearExpiredDir`),
because `_checkExistanceOfDirCacheEntry` reads them without. `dirty` are names
written to since their handle last dropped the stat. With `overlap`, requests
interleave, listings break off and answers get lost; without it, requests run
one at a time but time passes within them.

## Runs

| run | shows | size |
|---|---|---|
| `pool_all` | with `--connreuse` and without: type, exact counts, nothing dangling, one place for each connection, the assertions of `iFuseConnUnuse`, the bound, nothing left after unmount, sharing only as a last resort, the lease contract, and (liveness) a parked connection is reused or closed | 289 000 |
| `timeout_all` | lock order, one exchange at a time, every request completes with a calm server, and every silent call of an undisturbed request is ended | 413 000 |
| `timeout_relock` | violation: calls run outside the lock after a reconnect | |
| `timeout_hang` | violation: a call that hangs blocks the watchdog | |
| `buffer_all` | the buffered layer implements `File` for operations that do not overlap; a piece written is seen at once, settled caches are current; a size is exact after a flush or close and never more than the file; overlapping, with failures and holes: a delta stays in its block, bytes are lost only in a flush that says so, the writer reads its writes | 828 000 |
| `buffer_race` | violation: a reader's cache is stale for good after a race with a flush | |
| `read_slice` | every read of every file and delta in the bound returns its slice | |
| `metadata_all` | without overlap listings are exact and stats true, unless an expired list is kept; with it, errors end | 1 580 000 |
| `preload_all` | one request at a time: every thread is joined once, the window is whole after each read, only the end of the file is reported as one; also with two that overlap and with every failure: no open file or block is lost or shared, nobody loses the block it waits for, all reads end, everything is gone after the unmount | 312 000 |
| `preload_eof` | violation: with two overlapping reads, the middle of a file is reported as its end | |
| `fd_all` | a read or write reaches its own file and offset, unless its connection is shared and was replaced; remembered positions are true; no server descriptor is lost, and none outlives its handle but on a shared connection whose server refused the close; every request ends | 857 000 |
| `fd_other` | violation: after a reconnect of a shared connection a request reaches the file of another handle | |

Bounds, and why they are enough:

- pool: two slots, two sessions and three addresses make all of: a parked and a
  used connection together fill the slots, a user shares, an address is
  reused. `MaxLost` 1 lets each connection lose one reference: a second changes
  no branch, the count is only compared with 0 and 1. `ConnTimeout` 2 leaves a
  connection younger than another one.
- watchdog: two requests and the timer are the three kinds of lock users (one
  that waits, one that holds, the timer); a tick is more than half a timeout, the
  shortest time the program tells apart.
- buffer: blocks of 2 bytes have an inside and a border; 3 or 4 bytes are two
  blocks, the last one short. Two handles are needed for every property but no
  step involves three. `SerialSetting` is two writers of an empty file that ask for
  sizes, with two bytes to tell writes apart; `FailingSetting` a writer and a reader
  of a full file, still one at a time, with calls that fail; `WildSetting` overlaps,
  with holes and failures, and without sizes.
- read loop: blocks of 3 bytes, files to 5, reads of up to 6 bytes from every
  offset to one block behind: up to three rounds. The run ends when the read
  has, hence `CHECK_DEADLOCK FALSE`.
- metadata: two names, so that a rename has both and a listing an order; two
  changes and a timeout of 2 ticks one at a time (a list can expire just after
  the last check for expired ones, the case `StatTrueIfListFresh` excludes), one
  change and a timeout of 1 when requests of two threads overlap.
- preload: two overlapping requests on a file of three blocks with a window of
  one block ahead, three requests for a block in all: enough for a third request
  to drop what the first two have started (`Leftover`); alone, windows of one
  and of two blocks, forward and backward over the end of the file. Addresses
  are twice the blocks of two windows, so that a block which is being freed
  and its successor both have one.
- descriptors: two handles and two requests share a handle, a connection or
  nothing; two numbers are enough to use each again, and few enough that files left
  by refused closes fill the table of the agent; a file of one byte has an inside
  and an end, and a read that returns nothing. Reconnects are not bounded.
  `AllSettings` has both handles where connections stay up or break, and where the
  server of a shared one refuses; one handle where both happen. The theorems are
  about every combination.

`timeout_all` and its kin say `CHECK_DEADLOCK FALSE` because with faults the
program can stop: that is `timeout_hang`. Every property has a mutant: a
plausible slip in one action (named `...Kept`, `...Old`, "Variant", beside the
real one) under which the same run fails.

## Fairness

- `ConnPool!FairSpec`: time passes, the timer thread comes round and empties its
  list. Requests need not do anything. Justified by the loop of
  `iFuse.Lib.cpp`, as long as the thread is not blocked, which is `ApiTimeout`'s
  subject.
- `ApiTimeout!FairSpec`: threads run, time passes, and a lock that is free again
  and again is granted in the end (strong fairness on steps that take locks).
  POSIX rwlocks do not promise the last; without it no program with locks is
  live. The server has to answer only when the setting is without faults; a
  connect ends, well or not, unless the setting has a silent server.
- `Preload!Spec`: a thread that runs ends, a request that has begun goes on when
  its step is possible (weak fairness). The lock of the list needs no more:
  while a reader waits for a block others can only take it for reading, and
  each of them lets go.
- `FdSession!FairSpec`: strong fairness for the steps of a request, that take
  locks or make a call, as in `ApiTimeout`. A call ends: the server answers, or
  the connection breaks, by itself or by the watchdog. That the watchdog may be
  blocked is `timeout_hang`.
- `MetadataCache!FairSpec`: time passes and a request that has begun goes on; a
  call to the server returns, by itself, by failing or by the watchdog. No
  request has to begin.

## Proofs

`ConnPoolProofs` proves `Spec => []IInv` for any set of addresses, any finite
set of sessions, any number of slots and any timeout, with and without
`--connreuse` (`ConnAssumption`). `PlacedOnce` alone is not inductive: whether
the last user finds its connection in the right place depends on the count, so
`RefCount` ties it to the sessions that hold it; that the idle check frees
nobody's connection needs `ReapInv` (what is on its list is still parked: the
lock is held), and the one-time connection between its unlock and its free needs
`SessionInv` (one session frees it, and its count is 0). `FreshInv` gives a new
object the count 0. The proof has a lemma for each action with a step for each
conjunct, over three lemmas about the free list (push, pop, remove keep it
injective and change its set by one element) and one about counting holders.

From it follow `TypeCorrect`, `CountsAreExact`, `NoUseAfterFree`, `OnePlace`,
`NothingLeftOpen`, `AssertionsHold`; `PoolIsBounded`, by counting used slots
against connections in them; `SharingIsLastResort`, from the bound: when no slot
is empty all of them are in use, so nothing can be parked; `ImplementsLease`, the
refinement, step by step.

`ApiTimeoutProofs` proves `LockInvariant` (a thread that holds a connection's
lock works with that connection and stands between its lock and its unlock, so
no stray unlock gives anyone a lock) and from it `LockOrderKept`, for any number
of requests and connections, with faults, and whatever a stray unlock does.
`TypeCorrect` is the type invariant, which is inductive because it says who has a
connection. `OneExchange` is `OneCallAtATime`: without faults whoever stands
between lock and unlock holds the lock (`Held`), so two calls on one connection
are one.

`NoCircularWait` and `NoDeadlock` are the safety half of the liveness properties, for
any size. `Waits` says who needs in the next step a lock that another holds, and
`Level` orders the threads: those that ask for the pool lock, those that ask for the
lock of a connection, those that ask for none. Every wait leads to a higher level,
so no circle closes, and behind a thread that is stuck there is, one or two waits
further on, one that is not. This needs `WInv`: who holds the pool lock is where it
can be held (`PoolHeld`), and a lock is ruined only by a stray unlock of the setting
that ruins locks (`Unbroken`), which `NoDeadlock` excludes: a ruined lock can be
granted to nobody. That a stuck thread takes no step is proved too (`StuckStays`,
`StuckTimerStays`); that the other one can take its step is ENABLED, which only its
guards show, and that it comes to an end is not said: that it may wait for the
server for ever is `timeout_hang`.

`FdSessionProofs` proves `RightFile` (a read or write gets its own file and
offset) and `PositionsTrue` (a seek that is left out was not needed), with
`TypeCorrect`, for any handles, requests, table of the agent and size of file, for
private connections and a shared one, and for any number of reconnects at any
call. That `touched` is right says nothing about the step before; the invariant
`IInv` follows the position from the seek to the transfer. `LockInv` and `UseInv`
give one request inside a handle at a time, though a connection's lock may be
lost; so the position that `Seek` sets is the one `Data` uses (`PointerInv`).
`FileInv` says that on a connection which is whole the number of a handle is that
of its file at `lastFilePointer`; `PrivateInv` that on a private one, replaced or
not, it is that or nothing; `NumberInv` that only handles in use have a number, so
a connection can be given away or emptied without taking a file from anyone.
There is a lemma for each group of actions, and `EntryChanged` for what writing
one entry of an agent's table does to the other handles. The proof uses of the
agent only that it gives numbers which are free, not that they are the lowest.

`NothingLeaks` is the same table seen from the server (`DescriptorsExact`): between
requests each handle has its file, there are as many owned entries as handles,
and what is open besides is nobody's, and is nothing at all where connections are
private or the server refuses nothing. `TableInv` says that each open entry is the
file of a handle that knows its number (`Keeps`), or was left by a refused close
(`Left`), which is only where connections are shared and the server refuses; on a
replaced connection too. It is inductive because a handle forgets its number
only in a close, which has closed the file or abandons it (`AbandonFacts`), and a
handle that opens had no file before. With `FileInv` this makes the numbers of the
users and the owned entries a bijection.

`NoCircularWait` and `NoDeadlock` are the same for the three locks of a request on an
open file: the
table of descriptors, the handle, the connection, in that order, with `HeldInv`, who
holds which lock and where. They hold though the lock of a shared connection may be
lost in a reconnect. `ClosesOneByOne` is the price of the first of the three, which a
close keeps until the server has answered.

The four theorems on waits and `ClosesOneByOne` are invariants that no run checks by
name; the runs check what they are the safety half of (`LoneCallsEnd`,
`RequestsComplete`, `RequestsEnd`).

`BlocksProofs` has no theorem of its own: for every block size and every
set of bytes it says, byte by byte, what `Patch`, `BlockOf`, `Expand`, `ApplyTo`
and `Overlay` leave in a file, a block and a delta. Two relations carry the next
two proofs: a block `Covers` a file when it has the file's bytes wherever it has
any, and is `Complete` when it does not end too early.

`BufferedFsProofs` proves `IInv` for every block size, longest file, set of handles
and setting: `Flushes /\ Sizes /\ Caches`. `Flushing`: whoever sends is a writer, and with one writer, or
operations that do not overlap, there is one delta on its way. Then `Base`
(the server's file under it) and `View` (`Base` under `g_DeltaMap`) are the file,
and `CachesGood` says that a cached block, and one just read, covers `Base` and
is complete, unless there are holes: this is what `_applyDeltaToCache` is for, and
why a read, which takes its block before it takes the lock, must look
at the delta again. `SizesCurrent` says that a cached stat, unless it is about to be
dropped, and a size that a stat has found are no less than the size at the last
flush or close; the type invariant, that they are no more than the file at the
server. Since writes drop no stat, that is all there is to a size. From it: `TypeCorrect` (a delta never leaves its block),
`WritesAreSeen`, `ContentIsKept`, `WriterReadsItsWrites`, `CachesAreCurrent`, and
`OneFile`, the refinement of `File`, whose sizes lie between those two. The premises are the properties' own and are
needed: with two flushes under way (not `OneFlush`) the order of the server's
writes is open; with overlapping readers a cache goes stale (`buffer_race`); a
flush that fails (`dropped`) leaves its bytes in the caches; a hole ends a
read early. `OneFile` is about `Orderly` behaviours, those with none of these; for
the others the refinement mapping is constant and it says nothing.

`BufferedReadProofs` proves `ReadIsSlice` for a file, delta and read of any size.
The invariant of the loop, `Copied`, is that the bytes so far are those of the file
between the offset of the read and `curOffset`, and `Finished` that the loop ends
when it has them all or the file ends; so no induction over data is needed, the
loop does it. A read that runs into `Overrun`, a copy without a bound,
has no result and is not spoken of.

`PreloadProofs` proves `IInv` for any number of requests, of blocks in a file and
in a window, and of addresses, with `DefaultNum <= MaxNum` (the two constants in
`Preload.hpp`) and `MaxNum <= Addresses` (the blocks which an open starts all have
an address). It has two halves. However
requests overlap, and whatever fails: `Standing` (nothing runs on a file that is not
open, nothing is left of a closed one), `Owned`, `BlocksReachable`,
`GivenAway` (what is on a recycle list is finished and joined), `OldOnes` (the old blocks found under the
lock are still those that are old when they are dropped), `Waiting` (who waits for a
block finds it in the list: the lock is held). One request at a time, `Serially`:
a block is in the list once, `Filling` says which blocks of the window are
there and which are missing, and that the recycle list is no longer than what is
missing, so that it is empty in the end; `Found` that the block which is asked for is
there, so 0 is the end of the file; `JoinsCounted`. From these: `OneOwner`,
`NoneLeaked`, `NoneLost`, `NothingLeft` on one side, `WindowWhole`, `EofTrue`,
`ThreadsJoinedOnce` on the other. `Kept`, which takes elements off a
list, is defined by the positions that stay: `SelectSeq`, which is the same, is
recursive and out of the prover's reach; `KeptIs` says what it keeps.

`MetadataCacheProofs` proves `IInv` for any finite set of names, any threads, any
timeout and number of changes. A request leaves the caches wrong between two of
its operations, so the invariant speaks of the operations it has still to do:
`ListIs(todo)` is that a name is in the list as often as it should be once they
are done, `StatsAre` that a wrong stat will be dropped, `Planned` that they
agree with the server, `Shape` what such a series can look like (a check of the
list comes right before the addition it is for). `Certain` is the case of a
list that is gone and will be begun again. From it `ListsAreExact`, `StatsAreTrue`, and
`TypeCorrect`, the last one also when requests overlap. That `StatsAreTrue` excludes
a list that expired and was not cleared is the code's doing, see below.

What the properties leave open: `StaleEnds` is about names that are gone and stats that
are old, not about names missing from a list that was read in part;
`StatTrueIfListFresh` excludes lists that have expired and were not cleared;
the time a size lags behind is bounded by `File` only, at a flush or close; the
assertion in `iFuseFdOpen` (`Fd.cpp:302`) can fail and no property states it.

Only model-checked: the liveness properties, which the prover cannot do
(`ParkedIsReusedOrClosed`, `RequestsComplete`, `LoneCallsEnd`, `ReadsEnd`,
`RequestsEnd`, `StaleEnds`), and the violations.

## Where the code and its words differ

With a run each:

- `timeout_relock`: after `iFuseConnReconnect` the caller goes on without the
  lock it thinks it has (`Conn.cpp:765-775`).
- `timeout_hang`: the timer thread, which should end a call after
  `--apitimeout` (README.md:180-183), waits for the connection of that call in
  the keep-alive (`Conn.cpp:246`), or for the pool lock of a request that does.
  It also stops without keep-alive or shared connections, with `SilentSetting` and
  two connections in that run: a request that waits in `rcConnect` keeps the pool
  lock (`Conn.cpp:561`, `:605`, `:654`), which `_connChecker` needs (`Conn.cpp:280`), so the
  hanging calls of all other requests stay.
- `buffer_race`: a block read before a flush is put into the cache after the
  flush has updated the caches (`BufferedFS.cpp:258`).
- `preload_eof`: `_readPreload` looks at the list, unlocks it, and reads from it
  (`Preload.cpp:362`, `:380`); when another reader has dropped the block in
  between, the result 0 counts as the end of the file (`Preload.cpp:620`).
- `fd_other`: a call that is repeated after a reconnect uses the old number
  (`FS.cpp:342`, `:414`, `:501`, `:577`; `Fd.cpp:89`, `:390`). On a shared
  connection another handle may have that number by now.

Without one:

- an open that fails after the connection was taken (`FS.cpp:241`, `:892`,
  `:1502`) does not give it back, although the comment says it "must be released
  lock after use" (`FS.cpp:227`). `ConnPool` has the leak: the reference stays
  counted until the unmount (`lost`).
- "Metadata caches are invalidated after the timeout" (README.md:186-187), but an
  expired list answers "no such file" until the next check for expired lists
  (`MetadataCache.cpp:352-386`, `:651`); hence the premise of
  `StatTrueIfListFresh`.
- a handle whose private connection was replaced never recovers: its number
  means nothing to the new agent, every call on it fails, and a flush cannot
  close what is not open, so it does not reopen (`Fd.cpp:402`). A reopen that
  fails keeps the number of the closed file (`Fd.cpp:418-443`).
- the loop over the rest of the recycle list (`Preload.cpp:445-449`) takes nothing
  from the list it tests and pops from another one. Requests that do not overlap
  never enter it (`WindowComplete`); overlapping ones can (`Leftover`).
- a close of a preloaded file that fails leaves its preload in the map until the
  unmount (`Preload.cpp:541`).
- a reconnect that fails leaves a connection without a socket in the pool, which
  is parked and handed out again (`Conn.cpp:771`); `iFuseFdOpen` asserts it has
  one (`Fd.cpp:302`).
- `--maxconn` (README.md:165-166) bounds connections only with `--connreuse`:
  one-time connections have no limit (`Conn.cpp:654`).
- a read that begins behind the end of the file within its last block computes a
  negative size in an unsigned type (`BufferedFS.cpp:656`); the test for "eof"
  after it does not see it. This is `Overrun` in `BufferedRead`.
- a block that is short because a later block has the delta ends a read as if
  the file ended there (`BufferedFS.cpp:674`), and a gap between the cached bytes
  and a delta in the same block shows what the buffer had before
  (`BufferedFS.cpp:263-290`).
- a write drops no cached stat (`FS.cpp:458-610`), so a size can be older than
  blocks that were sent to make room for others, until the file is flushed or
  closed (`File`, and the example under `BufferedFs`).
- a close that the server refuses leaves the file open at an agent that is shared
  or parked, with nobody who knows its number (`Fd.cpp:95-107`).
- a flush that fails has lost its bytes, while the caches of the path keep them
  (`BufferedFS.cpp:148-157`); a close then returns before it gives back
  descriptor and connection (`:533`).

## Not modelled

- directory handles, but for the connection they hold: the cursor of a listing is
  inside the client library of iRODS.
- `g_PreloadLock`: a read of `Preload` runs under it for reading, opens and closes
  of other handles take it for writing.
- path, symlink and ticket handling, option parsing, the report of connections
  for `irodsFsCtl`, the helper script: no shared state, or read-only.
- conversions of stats, modes and error numbers: no property is about them.
- `malloc` failures, except where they are an error path like others: not those
  of `_startPreload` (`Preload.cpp:240-252`), which start no block, like a thread
  that cannot be made, but leave the file that was to be used again open.
- the server: external, by what the client sees: files, descriptors, answers
  that fail, come late, or get lost.
- changes of the collection by others: README.md excludes them ("WARNING").

In the parts that are modelled: in `FdSession` a failed call has no effect at the
server; in `ApiTimeout` a call is answered or its socket is shut down, not both
in one step; `rcDisconnect` and `rcCloseCollection`, which also
run without an entry in `g_Operations`, take no time in `ApiTimeout`; `BufferedFs` has one
path and one flush under way; `MetadataCache` has one directory, no rename or
unlink of a file with writes its handle has not flushed, and leaves out what
removing or renaming a directory does to its own list.

## Plan

Done: the pool, the locks, the buffered layer, the metadata cache, preload and
the descriptors. What is left, in the order of what matters most:

1. `BufferedFs`: several paths, with rename, unlink and truncate of one that has a
   delta; two flushes of one path in any order.
2. `MetadataCache`: a directory in a directory, with renames and removals of it.
3. Theorems: those of what 1 and 2 add.
