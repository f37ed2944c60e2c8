# A TLA+ model of the CubeFS for Android client

This directory holds a verification project for the client of CubeFS for
Android: the library `lib/libfs` (handles, read and write caches, directory
listing, requests to the proxy) and the FUSE program `client` on top of it.
The modules model the parts of the library where goroutines meet; TLC checks
small instances, and TLAPS proves the central invariants for every size of the
system.

## 1. The system

| part | state it keeps | operations | meets others through |
|---|---|---|---|
| `client/cfafuse` | one `file` per handle | FUSE requests, run concurrently by go-fuse | calls into the mount |
| `CfaMountInfo` (`mount.go`, `file.go`) | caches, proxy client, handle table | Open, Read, Write, Flush/Fsync, Close, Truncate, Stat ... | everything below |
| `FileCache` (`filecache.go`) | handle table, next free index, reference counts | NewFile, GetFileEntry, IsLastRefer, CloseFile | one RWMutex, several critical sections per call |
| `RWCache` (`rwcache.go`) | the two caches | Read = server or read cache, merged with the write cache; Write = write cache, then Clean of the read cache | block locks of both caches |
| `WCache` (`wcache.go`) | FileBuffer per file, free list, LRU list, `chSync` | Write, Flush, Close; goroutines CheckExpire (8), SyncWrite, Flush (up to 8 per call) | block locks, cache mutex, channel |
| `RCache` (`rcache.go`) | the same for prefetched blocks, prefetch window | ReadOp, DoPrefetch, Clean, Release; goroutines PrefetchRead, CheckExpire | block locks, channel |
| `Buffer`, `FileBuffer` (`cache.go`) | dirty range of a block; buffers and locks of a file | merge, lock/unlock, attach/detach | used under a block lock |
| `Dir` (`dir.go`) | fetched entries, status, wake-up channel | Opendir (starts a goroutine), Readdir, CloseDir | mutex and channel |
| dentry cache (`dentrycache.go`, `lib/cache/lru.go`) | attributes by path, expiring | Set, Get, Remove, RemovePrefix | filled by Stat and the listing, emptied by every change |
| proxy and http client (`api`, `http`) | hosts, retry settings | one method per request, retries, redirects | shared by all |
| life of the mount (`mount.go`, `client/main.go`) | `MountStu`, the goroutines | NewMount, Mount, DelMount; exitSign on a signal | CloseAll against everything that still runs |

What is hard about it: a block lock is held across a request to the server and
even handed over to another goroutine through `chSync`; a buffer moves between
the free list, a FileBuffer, the LRU list and the channel on eight code paths;
requests fail, and a failed request may have been applied; Close decides in
one critical section that it is the last and acts on it much later; a listing
is produced and consumed by two goroutines that wake each other; a request that
timed out is repeated while its first copy is still on its way; the caches are
closed under their goroutines.  The hazards
are listed one by one in `PROJECT.json`, with the properties that cover them.

## 2. Modules

| module | models | how |
|---|---|---|
| `Buffer` | `Buffer`, `RWBlockOp` of `cache.go` | pure operators; bytes are versions of the write that put them there |
| `WCache` | `wcache.go`, `write.go`, and Open/Write/Flush/Fsync/Close of `file.go` | one process per goroutine, one action per stretch of code between two points where others can interfere |
| `WriteBack` | what the write cache promises | abstract specification: no buffers, locks or goroutines |
| `WCachePromise` | `WCache` implements `WriteBack` | the refinement mapping |
| `ReadSize` | doRead, Slice, ReadOp, MergeOp: how much a read returns | operators on the states of `WCache`, against a reference |
| `MCWCache` | instances of `WCache` | symmetry only |
| `Mount` | `mount.go`, `client/main.go`, CloseAll of `wcache.go` | extends `WCachePromise`: the mount around the write cache |
| `Proxy` | tryReqProxy, `http.go`, MkdirAll | repeated, lost and late requests |
| `RWCache` | `rwcache.go`, `rcache.go`, `read.go`, the read locks and the prefetch window of `cache.go` | reads and prefetches in detail, the write cache reduced to one byte per block |
| `MCRWCache` | instances of `RWCache` | symmetry only |
| `LRUCache` | `dentrycache.go`, `lib/cache/lru.go` | one operator per method, each a critical section |
| `Stat` | `stat.go`, StatSize, and the calls of `file.go`, `dir.go`, `rm.go`, `rename.go`, `link.go`, `attr.go`, `acl.go` that change attributes | extends `LRUCache`; a call is its request, then its Remove |
| `MCStat` | instances of `Stat` | the directory tree and symmetry |
| `FileCache` | `filecache.go`, Open and Close of `file.go` | one action per critical section |
| `Dir` | Opendir, Readdir, CloseDir of `dir.go`, OpenDir of `fuse_op.go` | a producer, a reader and a directory that changes |
| `WCacheProofs`, `WCacheDataProofs` | theorems about `WCache` | types, locks and buffers; then data, the refinement of `WriteBack`, the length of a read (`ReadSize`) and the shutdown (`Mount`) |
| `RWCacheProofs` | theorems about `RWCache` | |
| `FileCacheProofs` | theorems about `FileCache` | |
| `DirProofs` | theorems about `Dir` | |
| `StatProofs` | theorems about `LRUCache` and `Stat` | |
| `WriteBackProofs` | theorems about `WriteBack` | |
| `ProxyProofs` | theorems about `Proxy` | |

### WCache

Variables named like the code's fields are those fields: `Cache`, `BufferMap`,
`LockMap`, `FreeList`, `LruList`, `chSync`.  `buf` is the content of the
buffers.  FileBuffers are numbered in the order they are made, so that a stale
pointer to a detached one stays distinguishable from its successor.  `pc` and
`loc` are the position and the locals of each goroutine, `op` the block
operation of a client, `fl` its running Flush.  `disk` and `gone` are the
server.  `ver`, `latest` and `snap` are history variables: the number of block
writes, the content every accepted write adds up to, and `latest` at the start
of a Flush.

A step runs up to the next lock acquisition, channel operation or request.
In between the code touches only the buffer whose block lock it holds and, in
single critical sections, the lists; merging those into one step hides no
behaviour another goroutine could see.  There is one exception, which is cut
further: after a successful write SyncWrite frees its buffer and only then reads
from it the number of the block to unlock (`wcache.go:576`, `:577`).  `SyncDone` ends
after FreeBuffer, and `SyncUnlock` unlocks the block the buffer names by then
(`SyncKey`), which a Write may have changed (finding 1).  Three cases deserve a word:

* a write request is two steps: the server's answer (`RpcOk`, `RpcEio`, which
  may or may not have been applied, `RpcGone`) and the code after it;
* when a full buffer is queued, the block lock stays with the queued buffer;
  `SyncDone`, after an error, or `SyncUnlock` gives it back;
* a failed `Assert` is a step that is not enabled; `NoPanic` says that this
  never blocks anybody.

Time is left out: any buffer of the LRU list may be the one that expired.  The
set `chSync` stands for the channel: its buffers belong to different blocks, so
the order is immaterial; its capacity is that of the code.

`OpenDuringLastClose` says whether a file may be opened while its last handle
is being closed.  The code does not prevent it (finding 5); the theorems and
the passing runs show that everything is in order without it.

`AllocBeforeUnlock` says whether a Write may take a buffer between SyncWrite's
FreeBuffer and its UnLockBuffer.  The code does not prevent that either.  It does no
harm if there is one block (`wcache_async` has it on) or no SyncWrite
(`wcache_sync`); with two blocks and SyncWrite the wrong block is unlocked
(`wcache_unlock`), and `mount`, which has both, has it off.  In the proofs the three
cases are one hypothesis, `OwnUnlock`.  What the code does after a wrong unlock is
not followed: the model's locks and the theorems describe it up to there.

### WriteBack and WCachePromise

`WriteBack` says in five variables what a user of the write cache may rely on:
`view` is what a read returns, `stored` what the server has, `acked` the writes
reported as successful, `flush` the Flush calls.  A write takes effect in `view`
at one moment, with a version newer than all that is there; the server catches up
with `view` in any portions (`Store`), never with anything older; a Flush may end
well only when `stored` has what was acknowledged before it.  A file somebody
removed is owed nothing.

`WCachePromise` maps `WCache` to it: `view` is the buffer over the server's block,
`stored` is `disk`, `acked` is `latest`, a Flush runs until its last goroutine has
reported.  `KeepsPromise` is the abstract specification under this mapping: each of
the thirty odd actions of `WCache` is one abstract step or none.  The versions it
allows are those up to `MaxVer` and one more for each client: `MaxVer` bounds the Write
calls, and those that are already waiting for a block lock draw their version later.  It
is checked in synchronous mode (`wcache_sync`) and with SyncWrite, during the shutdown too
(`mount`), and proved for every size (section 5).

### ReadSize

The operators follow doRead: `Slice` cuts a read into one op per block,
`DirectRead` is what the server returns of an op, `MergeOp` what the write cache
makes of its size, and `DoRead` ends at the last op that found something.
`ReadComplete` compares them, in every state `WCache` reaches and for every offset
and size, with the content that buffers and server add up to.  It does not demand that
holes are read to their end, because the code does not: a hole behind the buffer of
its own block is cut off even if later blocks are written (`wcache.go:364`), though
the same hole in a block without a buffer is not (`wcache.go:353`).

### Mount

The state of the mount and of the shutdown around the actions of `WCache`.  The thread
of `DelMount` is one of the clients of `WCache`, so that CloseAll's Close of a file
is the Flush of a last handle.  Only the first of two ways `Mount` ends is followed:
if its Stat fails, the program ends.  Requests are served until `Unmount` returns;
`MountStu` guards Open but not the calls on a handle.  With `UnmountFails = TRUE`
the unmount may fail and requests go on, which `exitSign` does not look at
(`client/main.go:80`); `NoSendOnClosed` is then violated: a writer sends on the channel that
CloseAll closed, a panic.  The run assumes that the unmount succeeds.

CheckExpire works in rounds: it tests `Stop` (`ExpireRound`, `ExpireStop`) and then
flushes expired buffers until LruExpire finds none that is old enough
(`ExpireRoundEnds`), without looking at `Stop`.  Time being left out, a round may end
or go on whenever the goroutine is between two buffers; `expiring` says who is in one.

### Proxy

`tryReqProxy` sends a request, up to `RetryTimes` times again if the connection broke
or timed out, and each time through up to `MaxRedirects` redirects.  A copy that was
given up is lost or stays on its way (`late`) until the server applies it.  The caller
is MkdirAll, whose requests depend on each other: the second needs the first, and a
repeated one finds its own directory.  The codes of an answer are those of the server:
1002 for a directory that exists, 1003 for a missing parent.  MkdirAll compares them as they
are with E_POSIX_EEXIST, 0x11, and never goes on after a directory that exists (finding 6);
only toErr, which Mkdir calls and MkdirAll does not, would translate them.  `seen` and
`disturbed` are history variables.

### RWCache

One file, seen through both caches.  What matters here is which version of a byte a
read returns, so a block is the version of one of its bytes and the write cache
is reduced to what `WCache` makes of that byte: buffered or not, under a block
lock.  A WriteOp has the outcomes of `WCache`: the op stays in a buffer
(`WriteBuffered`), goes to the server (`WriteThrough`), is queued with its block
locked (`WriteQueued`), or fails with or without having been applied
(`WriteFail`).  The read cache is modelled in full: `Cache`, `BufferMap`,
`LockMap`, `pw`, `LruList`, `chPrefetch` are the fields of `RCache` and
`FileBuffer`, and a buffer is identified by the FileBuffer and block it is
attached to.  A read is cut where it takes the two block locks and at its
request; a prefetch at the lock, the channel, the lookup, the request and the
attach.  `seen`, `latest`, `ended` and `snap` are history variables: what was
accepted when a copy was read, in all, by Writes that returned, and when a Read
began.  As in `WCache`, the passing runs exclude an Open during the last Close;
each handle is used by one thread, so no read runs on a handle being closed.
Blocks past `MaxBlock` are not prefetched.  The locks of the write cache are those that
`WCache` shows under `OwnUnlock`.  `PrefetchTimes` is what the configuration says, 0
included (finding 7).

### FileCache

Open and Close are the sequences of `FileCache` calls that `file.go` makes.
What the caches do in between is either success or failure here.  `live` is the
application's view: a handle it has and what it opened it for.

### Dir

Names are numbers in the server's key order.  The goroutine's loop is cut at its
critical sections and its request; the reader is OpenDir's loop, which may also
give up early.  The directory changes at any time.  A page of the server is stated by
what it is (`IsPage`): the names that follow the marker, in order and without gaps, as
many as fit.

### LRUCache and Stat

`dlist` and `cacheMap` are the two structures of `lru.go`; an entry's expiration
time is reduced to whether it has passed.  `MoveToFront` and `Left` are what the list of
the standard library makes of an element that is moved and of those that are left when
some are removed.  A path begins with the path of its parent (`StatAssumption`), which is
what RemovePrefix relies on.  `Stat` runs them against the server: the
attributes of a path are the version of the last change applied to it, the size of
a file is a number of blocks, and a Write appends one block, buffered or written
through.  Stat and Fstat are cut at the lookup, the request, the look at the write
cache, the block lock and the Set.  A call that changes something is two steps, its
request and the cleaning of the cache, Rename three; calls that differ only in
the request share their effect.  A request is refused (nothing changes), applied and
answered, or applied with the answer lost.  A listing fetches a page and sets
its entries one by one; it is `Dir` without the reader.

A change has two effects.  It changes the attributes of the paths it names (`Named`,
version `ver`), and it changes the directories in which it makes or removes an entry
(`Entered`, version `ent`): the server's times and link count of the directory change
with every create, mkdir, mknod, symlink, link, rename and removal.  What the call
removes from the cache (`Cleaned`) is a third set, taken from the code call by call.

`over` marks an answer that was on its way to the cache when a change of its path
returned, or that a failed call left behind.  `AttrFresh` excludes these: the code lets
them live until they expire.  It asks for two things: that no call which returned
leaves older attributes of a path it names (`done`), and that Open, Mkdir and Mknod leave
no older state of the parent (`made`), which they clean for that purpose.  The same of the
other calls that change a directory is `EntriesFresh`, and the code does not keep it
(finding 8).  Files are
followed under their first name; directories are renamed when empty.

## 3. Runs

| run | instance | result |
|---|---|---|
| `wcache_async` | 2 handles, 1 block of 2 cells, 1 buffer, 1 SyncWrite, 1 CheckExpire, 3 writes | `TypeOK`, `NoPanic`, `Coherent`, `FlushDurable`, `NoForgottenBuffer`, `DiskMonotonic` hold |
| `wcache_sync` | 1 handle, 2 blocks of 2 cells, 2 flush goroutines, 2 buffers, no SyncWrite, 2 writes, the file may be removed | `BufferConservation`, `ReadComplete`, `KeepsPromise` hold, `EventuallyDurable` under fairness |
| `wcache_unlock` | 1 handle, 2 blocks of 2 cells, 1 buffer, 1 SyncWrite, a Write may take the buffer SyncWrite has freed | `NoPanic` violated (finding 1) |
| `wcache_fsync` | 1 handle, 1 block | `FsyncDurable` violated (finding 2) |
| `rwcache` | 2 handles, 2 blocks, 1 prefetch goroutine, 1 read buffer, 1 CheckExpire, 2 reads, 1 write | `ReadNoPanic`, `ReadBufferConservation`, `CleanedAfterWrite`, `DirectReadFresh` hold, `ReadsReturn` under fairness |
| `rwcache_stale` | reads and writes of up to 2 blocks, 2 of each | `ReadFresh` violated (finding 3) |
| `filecache` | 3 threads, 2 files, 3 slots | all invariants hold |
| `dir` | 5 names, 1 change, pages of 2, Readdir of 1 or 3 | all properties hold |
| `stat` | 2 threads, 1 listing, a directory with a file and a free name, a cache of 1 entry, 2 changes or writes | `TypeOK`, `LRUConsistent`, `AttrFresh`, `FstatSeesWrites` hold |
| `stat_flush` | the same | `StatSeesWrites` violated (finding 4) |
| `mount` | 1 handle and the thread of DelMount, 2 blocks of 1 cell, 2 buffers, SyncWrite, CheckExpire, 2 writes | `NoPanic`, `NoSendOnClosed`, `CleanShutdown`, `KeepsPromise` hold, `CallsReturn`, `DelMountReturns` under fairness |
| `proxy` | 2 threads, a path of 2 directories, 1 retry, 2 copies per attempt, 1 late copy per directory | `TypeOK`, `MkdirAllComplete`, `FailureExplained` hold, `MkdirAllReturns` under fairness |

Four further configurations are kept for what they show and are not among the runs.
The first and the third change a parameter of a run; the properties of the others are
stated in the modules beside those that hold.

| configuration | instance | result |
|---|---|---|
| `wcache_reopen` | as `wcache_async`, with an Open during the last Close | `NoPanic` violated (finding 5) |
| `proxy_exists` | as `proxy` with 1 thread | `ExistingIsNoFailure` violated (finding 6) |
| `rwcache_window` | 1 handle, 3 blocks, `PrefetchTimes` 0 | `ReadNoPanic` violated (finding 7) |
| `stat_parent` | as `stat` | `EntriesFresh` violated (finding 8) |

Why the bounds are enough to be interesting.  One buffer for two handles or two
blocks makes the pool run empty and forces direct writes between buffered ones.
Blocks of two cells have ops that continue a buffer, ops that do not, ops that
end the block and ops that do not.  Three writes are needed to merge, to
fail to merge and to write over what was flushed; two in two blocks leave holes
within a block and between blocks.  Two FileBuffers let a file
be closed and opened again.  A read of block 0 prefetches block 1, so two blocks
and two reads give a prefetch that another handle writes, reads, expires and
closes over, with one buffer to share.  Three threads on three slots let two threads
close while a third opens, with the table full.  One cache entry
for three paths makes every Set of another path evict; two changes let one overtake
the cleaning of another.  Pages of two with five names give
up to three pages, the last one short, full or empty, and a Readdir of three
asks for more than a page.  In `mount` two writes leave a block queued and another
one buffered when the signal comes, in the hands of any goroutine.  In `proxy` two
directories are the least with a parent that can be missing, and one retry with one
late copy lets the first copy arrive before, after and instead of the second.

Deadlock is not an error in `wcache_sync` (the file is removed and closed, and no
writes are left) and `mount` (DelMount returned).

Fairness.  Goroutines are scheduled (weak fairness of each one's steps), and
requests are answered, by success or error (weak fairness of `Rpc`).
`EventuallyDurable` also needs that a request which is sent again and again is
not refused for ever (strong fairness of `RpcOk`); an application's calls are
never assumed to happen.  `ReadsReturn` needs the first two only, for the
goroutines of both caches.  Locks are polled, and weak fairness suffices for them
since the calls are bounded; a stream of reads without end could starve a Clean in
the code, whose locks are not queued.  In `Mount` the server may refuse every request
for ever, and CheckExpire then takes the same block lock again and again; that the
others get it (`CallsReturn`) is strong fairness, which the code's clocks provide: the
lock is polled every half millisecond, a refused buffer rests for its expiry time.
Nothing is assumed about the length of CheckExpire's rounds, only that it goes on.  A
refused request may take longer than the expiry time (500 ms against a timeout of
seconds and several attempts), so with two dirty buffers one is always old enough, and
the round, and with it DelMount, may last as long as the server refuses; TLC shows that
behaviour.  `DelMountReturns` is therefore stated for a server that accepts requests in
the end (`ServerAccepts`), which empties the list.  In `Proxy` the server
need not answer at all: the timeout of the client ends every wait.  That holds
if `client_timeout_ms` is set, as `docs/deploy-client.md` does; its default is none.  In `Dir` a caller that is between two calls
need not call again.

Every property of a passing run fails under a small change of the code's
logic (the operators marked "Mutant of ..."), so none holds by accident of the
model.

## 4. Findings

1. `wcache_unlock`.  SyncWrite unlocks `buffer.BlkIdx` (`wcache.go:577`) after it has
   freed the buffer (`wcache.go:576`).  A Write of another block can take the buffer in
   between: SyncWrite then unlocks that block, where `UnLockBuffer` fails its assertion
   (`cache.go:298`) or takes away somebody's lock, and its own block stays locked.
2. `wcache_fsync`.  `mount.Flush` overwrites the error of `rwCache.Flush`
   (`file.go:328`) with the result of the Fsync request (`file.go:332`), so an
   fsync whose data could not be written reports success.
3. `rwcache_stale`.  A prefetch attaches what the server has (`rcache.go:415`) while
   a newer write of the block is only buffered.  As long as it is, reads merge it;
   its flush empties the write cache and leaves the read cache alone, and reads
   return the old data until the copy expires.  `doRead` says that it reads from
   disk what was flushed (`rwcache.go:53`, `rwcache.go:58`).  Clean runs only after
   a Write (`rwcache.go:108`); it does catch every prefetch that started before
   the Write (`CleanedAfterWrite`).
4. `stat_flush`.  Stat asks the server for the size and then looks at the write cache
   for a longer tail (`stat.go:99`), with a second request if a buffer was flushed
   meanwhile (`stat.go:106`).  If the last buffer is flushed before StatSize looks at
   all, StatSize returns 0 without an error (`wcache.go:594`), and Stat reports, and
   caches, the size from before a Write that had returned.  Fstat asks in the other
   order, and `FstatSeesWrites` holds.

Of the following the project keeps a configuration (end of section 3), not a run.

5. `wcache_reopen`.  `mount.Close` reads the reference count, flushes, and then
   detaches the file's FileBuffer.  A handle opened after the count was read can
   fill a block and queue it before the detach; `SyncWrite` then fails
   `Assert(fileBuf != nil)` (`wcache.go:568`).  The same race makes
   `CheckExpire` drop a dirty buffer from the LRU list for good
   (`wcache.go:546`).
6. `proxy_exists`.  MkdirAll is to work like `mkdir -p` (`dir.go:79`) and to skip what
   exists (`dir.go:105`), but compares the server's code, 1002, with 0x11 (`dir.go:106`)
   without translating it: it fails on any directory that exists, one that its own
   repeated request made included.
7. `rwcache_window`.  `rw_cache_prefetch_times` is taken as configured (`mount.go:137`).
   With 0 a first read leaves an empty window, which the next read can cross, and
   DoPrefetch fails `Assert(fileBuf.pw.Size() > 0)` (`rcache.go:268`).
8. `stat_parent`.  Open, Mkdir and Mknod remove the parent directory from the dentry
   cache; Rmdir, UnLink, RmDirTree, Link, Rename and Symlink change it as well and do not
   ("clean cache.", `rm.go:43`, `link.go:65`, `rename.go:46`).  A Stat of the directory
   is answered from before the change until the entry expires.

Observed while modelling, without a run of their own:

* `exitSign` ignores the error of `Unmount`, and DelMount then closes the channel
  under the writers (`Mount` with `UnmountFails = TRUE`, see above).
* A redirect is never followed: its host is remembered by the selector, "used by
  request, and will be directly used by subsequent requests" (`selector.go:52`), but
  every URL is made from `Hosts[0]` (`proxyclient.go:75`), and the copy after a
  redirect goes to the address that redirected.
* `RetryTimes` is documented as "maximum attempts" (`cfg.go:138`) and is the number of
  repetitions: a request is sent `RetryTimes + 1` times.
* The retries of `doCtxWithHostRet` (`http.go:244`) are never reached: an error has
  returned before.
* `Mount` called while DelMount waits finds `MountStu` changed under it and mounts a
  deleted mount (`mount.go:308` tests for one state only).
* A hole behind the buffer of its own block cuts a read short (see `ReadSize`), and a
  prefetched last block is read to the end of the block (`rcache.go:414`).

## 5. Proofs

All constants are arbitrary, subject to `BufferAssumption`, `WCacheAssumption`,
`MountAssumption`, `ReadSizeAssumption`, `RWCacheAssumption`, `FileCacheAssumption`,
`DirAssumption`, `LRUCacheAssumption`, `StatAssumption` and `ProxyAssumption`, in `WriteBack` to versions being numbers and `NoFile` no
file: sets of processes are disjoint, block, page and table
sizes are natural numbers, the nil values are not real ones, there are finitely many
clients and threads, for `ReadSize` the blocks of a file are numbered from 0 without gaps, and
a path has the path of its parent as a prefix.

`WCacheProofs` proves `TypeCorrect`: `Spec => []TypeOK`.  `TypeOK` contains the
bound `Offset + Len <= BlockSize` of every buffer, and that is not inductive: a
merge keeps it only because the op fits behind the buffer it continues, and a
Flush goroutine reads its client's FileBuffer and block list.  The inductive
invariant `TypeInv` adds `BufferInv` (a buffer that is attached, queued or being
worked on has a file) and `FlushInv` (who is working for which Flush and on which
block).  There is one lemma per action.

The second part of `WCacheProofs` proves, for `~OpenDuringLastClose` and `OwnUnlock`, `NoAssertFails`:
`Spec => []NoPanic` and `BuffersConserved`: `Spec => []BufferConservation`.  The
inductive invariant `SafeInv` says who owns what: FileBuffers belong to one file
each (`TableInv`); a buffer is free or attached, and attached only under the file
and block written in it (`AttachInv`); a block lock has exactly one owner, the
process at a label of `Holding` (`LockInv`) or the buffer queued on `chSync`
(`QueueInv`); and while the last Close of a file runs, no other call on the file does and
every buffer still attached is one its Flush has yet to write or has failed to write
(`ClientInv`).  The last part is what makes it safe to detach the FileBuffer, and
it is the part that an Open during the last Close breaks.  That no other *handle* of the
file is open is an invariant of its own (`LastInv`): it is what keeps a call from beginning
under `Spec`, and it is false when DelMount closes files (below), where something else
does.  `UnlockInv` says that the buffer from which SyncWrite will read the block to unlock still
names the block it has locked; it is the only place where `OwnUnlock` is used (`ClientUnlock`,
the step in which a Write takes a buffer), and without it `LockInv` is false.  The steps fall into
four kinds (acquire a lock, work under it, hand it over, release it), each of
which has its lemma.

`WCacheDataProofs` proves, for `~OpenDuringLastClose` and `OwnUnlock`, what the locks are for:
`ReadsCoherent` (`Coherent`), `FlushIsDurable` (`FlushDurable`), `DiskMovesOn`
(`DiskMonotonic`), `NoBufferForgotten` (`NoForgottenBuffer`) and
`CacheImplementsWriteBack` (`KeepsPromise`).  The inductive invariant is `DataInv` on top
of `TypeInv`, `SafeInv` and `UnlockInv`.  `BlockInv`: the server and the accepted writes of a block are
never newer than what readers see of it.  `HoldInv`: what the holder of a block lock knows
of its block and may rely on until it unlocks it: the version of its op is newer than all
that is there, a direct write has no buffer beside it, nor has SyncWrite after it freed its
own, and after a successful answer the
server has what the buffer has.  `FlushData`: what a Flush still owes is in the blocks whose
result is missing.  The proof first classifies the steps (`NextData`): a step changes the
data of one block at most, and then as a write, as a store or by dropping a stored buffer;
the rest moves a Flush on or removes a file.  `DiskMovesOn` is an action property that
follows from the same classification, because a store takes the server to what readers
see.  `NoBufferForgotten` needs to know who comes for a buffer that left the LRU list
(`Watched`, `Coming`).  For the refinement each kind of step is matched with a step of
`WriteBack` (`BlockRefines`, `FlushRefines`, `RemoveRefines`); `BoundInv` says that
the version of a Write that waits at the lock is one the abstract specification has.  With
it the theorems of `WriteBackProofs` are theorems about `WCache`.

The next section proves `ReadsAreComplete` (`ReadComplete` of `ReadSize`).  It follows in
every state of `DataInv` in which buffers in use hold data (`FilledInv`): an empty buffer, or
one with a cell nobody wrote, would lengthen a read.  `FilledInv` is inductive with the
ops on their way, whose size is not 0 and whose version is drawn before their data is in a
buffer (`OpFilled`).  The rest is arithmetic of blocks: every position belongs to one block
and one op of `Slice` (`PositionSplit`, `SliceFacts`), the size of a file is one more than
its last written position (`SizeOfContent`), and MergeOp returns enough in each of its four
cases (`MergeOpFacts`).

The last sections are about `Mount`, for `~UnmountFails`.  `ExitInv` is about where the
processes stand.  A step moves one process: a user between two calls only while requests are
served, DelMount's thread to begin and to end a flush during CloseAll, and no goroutine that
has stopped (`OneMoves`).  So after Unmount has seen that no request runs none ever runs again
(`UnmountInv`), DelMount is past its flushes and all goroutines have stopped when CloseAll
returns (`CloserInv`), and the last SyncWrite leaves an empty channel to which nothing is
added (`ShutInv`).  `NobodySendsOnClosed` (`NoSendOnClosed`) needs nothing else.

For `ShutdownIsClean` (`CleanShutdown`), `NoAssertFailsAtExit` (`NoPanic`) and
`MountImplementsWriteBack` (`KeepsPromise`), with `~OpenDuringLastClose` and `OwnUnlock` as well, the invariant of
the cache has to survive CloseAll, which runs the last Close of files that still have handles.
`LastInv` is false then; `SafeInv` and `DataInv` hold because nobody begins a call any more
(`NobodyBegins`), so that a handle left open is as good as none.  `MountInv` therefore asks for
`LastInv` only before the unmount.  The two steps that `WCache` does not have are the beginning
of CloseAll's Close of a file (`CloseAllFileStep`; `Starts` is what it has in common with the
Flush and Close of a handle) and its failure (`CloseAllErrorStep`).  When CloseAll has
returned, no Flush is waiting, so no goroutine of a Flush is at work, and a file without a
FileBuffer has no buffers, so that the server has all that was accepted (`NoBufferStored`).
`MountInv` was checked with TLC on the instance of `mount`, with two files and with three
clients before it was proved.

`RWCacheProofs` proves the safety properties of `RWCache` for any number of handles,
prefetchers, expirers, blocks, buffers, reads and writes: `ReadNeverPanics`
(`ReadNoPanic`), `BuffersConserved` (`ReadBufferConservation`), `CleanCatchesPrefetch`
(`CleanedAfterWrite`), `DirectReadsFresh` (`DirectReadFresh`), and `TypeCorrect`.  None of
them is inductive, and they need each other, so there is one invariant, `Inv`:

* `OwnerInv`: a block locked for a prefetch has one owner, the reader that is about to
  queue it, the op in `chPrefetch` or the goroutine at work; it has no buffer, and it
  is a block of the file's present FileBuffer.  `ReaderInv`: the other locks of both
  caches count their readers, as cardinalities of the sets of threads that hold them.
* `CloseInv`, `FileInv`, `CallInv`: the last Close is alone; after its Wait no block is
  locked and it knows all buffers that are left; so a FileBuffer that was detached has
  neither, and the one a call found stays that of the file.
* `BufferInv`: free and attached buffers add up, and a buffer off the LRU list is one
  an expirer has taken and will release.
* `CleanInv`: data in a buffer, or in the hands of a prefetcher that has its answer, is as
  new as the last write of its block, or a Write has yet to come to that block with its
  Clean (`WillClean`).  Clean waits for the lock of the prefetch, so the answer it has not
  seen cannot slip past it.
* `DataInv`: a buffer of the write cache is newer than the server and nothing
  accepted is lost (`DataOK`); a Read that found no FileBuffer in the write cache
  finds what it owes on the server, and what a Read has of a block stays good until the
  merge because the block is locked (`ReadOK`).
* `WindowInv`: only a first window is empty, unless `PrefetchTimes` is 0.  `ReadNeverPanics`
  has `PrefetchTimes # 0` as its hypothesis; the other theorems do without.

Threads and goroutines are treated apart: a step of one leaves the locals of all others
alone (`ThreadAlone`, `GoroutineAlone`), and each part of `Inv` has a lemma for the
steps of a thread and one for those of the goroutines.  `Inv` was checked with TLC on the
instance of `rwcache` before it was proved.

`FileCacheProofs` proves `TypeCorrect` and the four invariants of `FileCache` from the invariant
`Inv`: the index is where a scan from slot 0 would stop; counts are
cardinalities, so opening and closing a handle adds or removes one element; a
thread inside a call owns its handle (`BusyInv`).  `OneCacheCloser` follows since a
count of 1 leaves no other cached handle that a second closer could hold.

`WriteBackProofs` proves what the promise is worth: `ReadYourWrites`,
`ServerNeverAhead` and `FlushIsDurable` hold in every behaviour of `AbstractSpec`, for
any files, blocks, clients and versions.  The three are inductive together, with
`FlushHasFile`: a Flush that succeeded stays true because the server only gets newer,
which holds because it is behind the readers, whom a write always takes forward.

`ProxyProofs` proves `AttemptsBounded`, `NilIsTrue` and `ErrnoIsExplained`, the safety
properties of `Proxy`, for any number of callers, directories, retries, redirects and
late copies.  Neither of the last two is inductive: `ProxyInv` adds that a call without a
result is still running (`ResultInv`), that the directories before the one a call is at
existed since it began (`SeenInv`), and that they are still there unless another client
removed one (`ThereInv`).  The last is the reason why repeated requests are harmless: a
Mkdir applied twice or late only ever adds the directory behind an existing parent
(`ApplyDirs`), so it never takes away what another call relies on.  `FailureExplained` names
the two ways in which the server's errors come about: the directory exists, which MkdirAll
does not recognise (finding 6), or another client removed one.

`DirProofs` proves `TypeCorrect`, `ListingsComplete`, `ListingsOrdered` and
`ListsBounded`, the safety properties of `Dir`.  What was listed, what waits in the list and
the page that is on its way form one sequence; the invariant says that it is in order and
ends at the marker of the next request (`PageInv`, `OrderInv`), that it has
every name up to that marker which was there all the time (`CoverInv`), that
the goroutine tests for room before it asks for the next page (`RoomInv`), and that
the end is reported only after the last page (`DoneInv`).

`StatProofs` proves `TypeCorrect`, `CacheConsistent` (`LRUConsistent`),
`AttributesFresh` (`AttrFresh`) and `FstatIsComplete` (`FstatSeesWrites`), for any tree of
paths and any capacity.  `AttrFresh` speaks about entries of the cache only and is not
inductive: an answer is old before it is cached.  `Current` is said of every
answer, in the cache, in the hands of a Stat or on the page of a listing: it is
the latest version of a path that exists, or it was overtaken, or a call that changed the
path has yet to clean it (`Pending`); and it knows of every entry that a returned Open, Mkdir
or Mknod has made in it (`made`), because these clean the parent in the step in which they
return.  That the path exists is needed for the calls that do
not clean what they make (OpenCreate, Mkdir, Link, Symlink): nobody can have a current
answer for a path that is not there (`CleansWhatWasThere`).  For Fstat,
`BlockInv` says that every block written is on the server or in the write cache, and
`FstatOK` what Fstat knows at each position: if the last buffer is gone when its block is
locked, it is on the server, which Fstat asks only then.  Stat asks before, which is why
the same invariant fails for it (finding 4).

Only model-checked: the liveness properties `EventuallyDurable`, `CallsReturn`,
`DelMountReturns`, `ReadsReturn`, `ReaddirReturns`, `ProducerStops` and `MkdirAllReturns`,
which are outside the prover's reach.  Every invariant and every action property of a passing
run is a theorem.

## 6. Not modelled, and the plan

Next: Truncate and DirectIO handles next to cached ones, once the code or its docs say
what they promise (the first two points below).

Not modelled, with the reason:

* Truncate (`file.go:264`): flush, Release of the read cache and the request are
  separate steps.  Two writes during a Truncate may end on different sides of it, the
  earlier one after it; nothing in the code or its docs says they may not.
* DirectIO handles next to cached ones: they write around the buffers, and whoever
  opens a file both ways gets what the order of flushes gives.
* CloseAll of the read cache: it has no data to lose, and ends its goroutines the way
  the write cache does.
* The size of a block found in the read cache (see the observations).
* The dentry cache in MkdirAll, and the rename of directories with entries.
* The host selector and the transport: no request depends on the selector's choice.
* The wrappers of `proxyclient.go` other than MkDir, and the FUSE calls that translate
  arguments and call the mount: they keep no state.
* `Mount` after a failed Stat, and several mounts in one process.

Left out for good: configuration, logging, statistics (a stub), the protocol's
message types, error code tables, and the example account server.  They are
sequential and keep no state worth a model.
