------------------------------ MODULE RWCache ------------------------------
(***************************************************************************)
(* Reading through both caches of a mount (lib/libfs/rwcache.go, rcache.go *)
(* and the read locks of cache.go): doRead, the prefetch it starts, the    *)
(* Clean after a Write, the CheckExpire goroutine of the read cache, and   *)
(* the part of Close that drops the read cache of a file.                  *)
(*                                                                         *)
(* There is one file.  A block is abstracted to the version of one of its  *)
(* bytes, 0 before the first write; the writes are those that cover it (a  *)
(* write of other bytes may flush the block's buffer, as FlushBuffer, and  *)
(* clean it).  The write cache appears as what module WCache makes of the  *)
(* byte: a buffered version or none, under a block lock.  Its steps that   *)
(* hold the lock during a request are one step here: nobody else sees the  *)
(* buffer meanwhile, and a request changes the server at one instant.      *)
(***************************************************************************)
EXTENDS Integers, FiniteSets

CONSTANTS
    Threads,       \* handles, each used by one thread
    Prefetchers,   \* PrefetchRead goroutines; {} is PrefetchRoutine = 0
    Expirers,      \* CheckExpire goroutines of the read cache (1 in the code)
    BufferMax,     \* buffers of the read cache
    PrefetchTimes, \* length of the prefetch window in reads, as configured
    MaxBlock,      \* bound: blocks are 0 .. MaxBlock
    MaxReadLen,    \* bound: blocks of a Read
    MaxWriteLen,   \* bound: blocks of a Write
    MaxFileBufs,   \* bound: FileBuffers of the read cache ever made
    MaxWrites,     \* bound: Write calls
    MaxReads       \* bound: Read calls

Procs == Threads \cup Prefetchers \cup Expirers

ASSUME RWCacheAssumption ==
    /\ BufferMax \in Nat /\ PrefetchTimes \in Nat
    /\ MaxBlock \in Nat /\ MaxReadLen \in Nat /\ MaxWriteLen \in Nat
    /\ MaxFileBufs \in Nat /\ MaxWrites \in Nat /\ MaxReads \in Nat
    /\ IsFiniteSet(Threads)
    /\ Threads \cap Prefetchers = {} /\ Threads \cap Expirers = {} /\ Prefetchers \cap Expirers = {}

Blocks   == 0 .. MaxBlock
FileBufs == 1 .. MaxFileBufs     \* 0 is nil
Keys     == FileBufs \X Blocks
None     == -1                   \* no buffer

\* A LockMap entry: absent, the CacheLock of n readers, or that of a writer.
Free      == 0
WriteLock == -1

VARIABLES
    Cache,      \* RCache.Cache of the file: its FileBuffer, 0 when absent
    made,       \* FileBuffers made so far
    BufferMap,  \* the version in the buffer of each block, None without one
    LockMap,    \* the block locks of the read cache
    pw,         \* the prefetch window of each FileBuffer
    free,       \* length of RCache.FreeList
    LruList,    \* RCache.LruList, by the keys its buffers are attached under
    chPrefetch, \* blocks queued for PrefetchRead
    wCache,     \* does the write cache have a FileBuffer for the file?
    wbuf,       \* write cache: version of the byte in each block's buffer, 0 without
    wlock,      \* write cache: block locks
    disk,       \* the server
    pc, loc,    \* position and local variables of each goroutine
    reads,      \* Read calls so far
    writes,     \* Write calls so far
    ver,        \* ghost: version of the last block write
    latest,     \* ghost: last version accepted by the write cache
    ended,      \* ghost: latest, without the Writes that are still running
    seen,       \* ghost: latest when the buffer of a key was read from the server
    snap        \* ghost: ended when the Read of a thread began

mapVars   == <<BufferMap, free, LruList, seen>>
rVars     == <<Cache, made, mapVars, LockMap, pw, chPrefetch>>
dataVars  == <<wbuf, disk, ver, latest, ended>>
wVars     == <<wCache, wlock, dataVars>>
calls     == <<reads, writes>>
vars      == <<rVars, wVars, pc, loc, calls, snap>>

Labels == {"closed", "idle", "flush", "prefetch", "psend", "rlockw", "rlockr", "rpc", "rhit", "rmerge",
           "write", "clookup", "clean", "wait", "release", "wclose",
           "fetch", "attach", "elookup", "erelease"}

\* lo .. hi-1 are the blocks of a call and cur the one it has come to; fb and wfb
\* are its FileBuffers; todo the blocks left to prefetch or to release; val what
\* it read, and seen latest at that moment.
LocType == [lo : Blocks, hi : 0 .. MaxBlock + 1, cur : 0 .. MaxBlock + 1,
            fb : 0 .. MaxFileBufs, wfb : BOOLEAN, todo : SUBSET Blocks, val : Nat, seen : Nat]
NoLoc   == [lo |-> 0, hi |-> 0, cur |-> 0, fb |-> 0, wfb |-> FALSE, todo |-> {}, val |-> 0, seen |-> 0]
Zero    == [x \in Blocks |-> 0]

\* The types of the read cache, of the write cache, of the calls and of the processes.
ReadType ==
    /\ Cache \in 0 .. MaxFileBufs /\ made \in 0 .. MaxFileBufs
    /\ BufferMap \in [Keys -> Nat \cup {None}]
    /\ LockMap \in [Keys -> Nat \cup {WriteLock}]
    /\ pw \in [FileBufs -> [BlkStart : Nat, BlkEnd : Nat]]
    /\ free \in 0 .. BufferMax
    /\ LruList \subseteq Keys
    /\ chPrefetch \subseteq Blocks
    /\ seen \in [Keys -> Nat]
WriteType ==
    /\ wCache \in BOOLEAN
    /\ wbuf \in [Blocks -> Nat] /\ disk \in [Blocks -> Nat] /\ latest \in [Blocks -> Nat]
    /\ ended \in [Blocks -> Nat]
    /\ wlock \in [Blocks -> Nat \cup {WriteLock}]
    /\ ver \in Nat
CallType ==
    /\ reads \in 0 .. MaxReads /\ writes \in 0 .. MaxWrites
    /\ snap \in [Threads -> [Blocks -> Nat]]
ProcType == pc \in [Procs -> Labels] /\ loc \in [Procs -> LocType]

TypeOK == ReadType /\ WriteType /\ CallType /\ ProcType

Init ==
    /\ Cache = 0 /\ made = 0
    /\ BufferMap = [k \in Keys |-> None] /\ LockMap = [k \in Keys |-> Free]
    /\ pw = [b \in FileBufs |-> [BlkStart |-> 0, BlkEnd |-> 0]]
    /\ free = BufferMax /\ LruList = {} /\ chPrefetch = {}
    /\ wCache = FALSE
    /\ wbuf = Zero /\ disk = Zero /\ latest = Zero /\ ended = Zero
    /\ wlock = [x \in Blocks |-> Free]
    /\ pc = [p \in Procs |-> IF p \in Threads THEN "closed" ELSE "idle"]
    /\ loc = [p \in Procs |-> NoLoc]
    /\ reads = 0 /\ writes = 0 /\ ver = 0
    /\ seen = [k \in Keys |-> 0]
    /\ snap = [t \in Threads |-> Zero]

-----------------------------------------------------------------------------
(* PrefetchWindow (cache.go) *)

Size(w)      == w.BlkEnd - w.BlkStart
Move(w)      == [BlkStart |-> w.BlkEnd, BlkEnd |-> w.BlkEnd + Size(w)]
Extend(w, n) == [w EXCEPT !.BlkEnd = w.BlkStart + Size(w) * n]
Cross(w, v)  == ~(w.BlkEnd <= v.BlkStart \/ v.BlkEnd <= w.BlkStart)

(* The locks of a block (cache.go) *)

\* Mutant of LockFree: a writer does not wait for the readers.
LockFreeOfWriters(l) == l # WriteLock
\* LockBuffer waits for this ...
LockFree(l) == l = Free
\* ... and RLockBuffer for this.
RLockFree(l) == l # WriteLock

(* The rest *)

Goto(p, label) == pc' = [pc EXCEPT ![p] = label]

RKey(p) == <<loc[p].fb, loc[p].cur>>

Return(t) ==
    /\ Goto(t, "idle")
    /\ loc' = [loc EXCEPT ![t] = NoLoc]
    /\ snap' = [snap EXCEPT ![t] = Zero]

\* On to the next block of a call, or to what follows the last one.
NextBlock(t, label, after) ==
    /\ loc' = [loc EXCEPT ![t].cur = IF @ + 1 < loc[t].hi THEN @ + 1 ELSE loc[t].lo]
    /\ Goto(t, IF loc[t].cur + 1 < loc[t].hi THEN label ELSE after)

\* Mutant of ReleaseBuffer: a block without buffer gives one back all the same.
ReleaseBufferBlindly(k) ==
    /\ LockFree(LockMap[k])
    /\ BufferMap' = [BufferMap EXCEPT ![k] = None]
    /\ seen' = [seen EXCEPT ![k] = 0]
    /\ free' = free + 1
    /\ LruList' = LruList \ {k}
\* ReleaseBuffer takes the block lock, drops the buffer if there is one and
\* unlocks: one step, since it sends no request.
ReleaseBuffer(k) ==
    /\ LockFree(LockMap[k])
    /\ IF BufferMap[k] = None
       THEN UNCHANGED mapVars
       ELSE /\ BufferMap' = [BufferMap EXCEPT ![k] = None]
            /\ seen' = [seen EXCEPT ![k] = 0]
            /\ free' = free + 1
            /\ LruList' = LruList \ {k}

-----------------------------------------------------------------------------
(* Open, and RWCache.Read: TryDoPrefetch, then one op per block *)

LastCloseRuns == \E t \in Threads : pc[t] \in {"wait", "release", "wclose"}

\* No file is opened while its last handle is being closed; what happens
\* otherwise is shown for the write cache.
Open(t) ==
    /\ pc[t] = "closed" /\ ~LastCloseRuns
    /\ Goto(t, "idle")
    /\ UNCHANGED <<rVars, wVars, loc, calls, snap>>

\* The FileBuffer of the file, a new one when there is none.
GetFileBuffer == IF Cache = 0 THEN made + 1 ELSE Cache

GetReadWindow(lo, n) == [BlkStart |-> lo, BlkEnd |-> lo + n]

\* Does the Assert of DoPrefetch hold for a read of rw at window w?
WindowAssert(rw, w) ==
    Prefetchers # {} /\ ~(rw.BlkStart = 0 /\ Size(w) = 0) /\ Cross(rw, w) => Size(w) > 0

\* The window after a read of rw.
Window(rw, w) ==
    IF Prefetchers = {} THEN w
    ELSE IF rw.BlkStart = 0 /\ Size(w) = 0 THEN Extend(Move(rw), PrefetchTimes)
    ELSE IF Cross(rw, w) THEN Move(w) ELSE w

\* doRead: the FileBuffer, and DoPrefetch up to pwLock.Unlock; blocks past MaxBlock are
\* left out of the prefetch.  A Read whose Assert would fail is not enabled.
Read(t, lo, n) ==
    LET fb == GetFileBuffer
        w  == Window(GetReadWindow(lo, n), pw[fb])
    IN  /\ pc[t] = "idle" /\ reads < MaxReads /\ fb <= MaxFileBufs
        /\ lo + n <= MaxBlock + 1
        /\ WindowAssert(GetReadWindow(lo, n), pw[fb])
        /\ Cache' = fb
        /\ made' = IF fb > made THEN fb ELSE made
        /\ pw' = [pw EXCEPT ![fb] = w]
        /\ loc' = [loc EXCEPT ![t] = [@ EXCEPT
                      !.lo = lo, !.hi = lo + n, !.cur = lo, !.fb = fb,
                      !.todo = {x \in Blocks : w # pw[fb] /\ w.BlkStart <= x /\ x < w.BlkEnd}]]
        /\ Goto(t, "prefetch")
        /\ reads' = reads + 1
        /\ snap' = [snap EXCEPT ![t] = ended]
        /\ UNCHANGED <<mapVars, LockMap, chPrefetch, wVars, writes>>

First(S) == CHOOSE x \in S : \A y \in S : x <= y

\* A block that has a buffer is left alone.  No run gets there: a window only
\* moves on, so that a FileBuffer is asked for a block once.
PrefetchLock(t) ==
    LET x == First(loc[t].todo)
        k == <<loc[t].fb, x>>
    IN  /\ pc[t] = "prefetch" /\ loc[t].todo # {}
        /\ LockFree(LockMap[k])
        /\ IF BufferMap[k] = None
           THEN /\ LockMap' = [LockMap EXCEPT ![k] = WriteLock]
                /\ Goto(t, "psend")
                /\ UNCHANGED loc
           ELSE /\ loc' = [loc EXCEPT ![t].todo = @ \ {x}]
                /\ UNCHANGED <<LockMap, pc>>
        /\ UNCHANGED <<Cache, made, mapVars, pw, chPrefetch, wVars, calls, snap>>

\* chPrefetch <- op: the block stays locked, on behalf of the queued op.
PrefetchSend(t) ==
    LET x == First(loc[t].todo)
    IN  /\ pc[t] = "psend"
        /\ Cardinality(chPrefetch) < Cardinality(Prefetchers)
        /\ chPrefetch' = chPrefetch \cup {x}
        /\ loc' = [loc EXCEPT ![t].todo = @ \ {x}]
        /\ Goto(t, "prefetch")
        /\ UNCHANGED <<Cache, made, mapVars, LockMap, pw, wVars, calls, snap>>

\* wCache.GetFileBuffer(fe, false)
ReadLookup(t) ==
    /\ pc[t] = "prefetch" /\ loc[t].todo = {}
    /\ loc' = [loc EXCEPT ![t].wfb = wCache]
    /\ Goto(t, "rlockw")
    /\ UNCHANGED <<rVars, wVars, calls, snap>>

\* First the block lock of the write cache ...
ReadLockW(t) ==
    LET x == loc[t].cur
    IN  /\ pc[t] = "rlockw"
        /\ loc[t].wfb => RLockFree(wlock[x])
        /\ wlock' = IF loc[t].wfb THEN [wlock EXCEPT ![x] = @ + 1] ELSE wlock
        /\ Goto(t, "rlockr")
        /\ UNCHANGED <<rVars, wCache, dataVars, loc, calls, snap>>

\* ... then that of the read cache, and ReadOp: a hit, which is over at once, or
\* a request.
ReadOp(t) ==
    LET k == RKey(t)
    IN  /\ pc[t] = "rlockr" /\ RLockFree(LockMap[k])
        /\ IF BufferMap[k] = None
           THEN /\ LockMap' = [LockMap EXCEPT ![k] = @ + 1]
                /\ Goto(t, "rpc")
                /\ UNCHANGED loc
           ELSE /\ loc' = [loc EXCEPT ![t].val = BufferMap[k]]
                /\ Goto(t, "rhit")
                /\ UNCHANGED LockMap
        /\ UNCHANGED <<Cache, made, mapVars, pw, chPrefetch, wVars, calls, snap>>

RUnLockRead(t) == LockMap' = [LockMap EXCEPT ![RKey(t)] = @ - 1]

\* Mutant of RUnLockWrite: the block stays locked in the write cache.
RUnLockWriteNever(t) == UNCHANGED wlock
RUnLockWrite(t)      == wlock' = IF loc[t].wfb THEN [wlock EXCEPT ![loc[t].cur] = @ - 1] ELSE wlock

DirectRead(t) ==
    /\ pc[t] = "rpc"
    /\ RUnLockRead(t)
    /\ loc' = [loc EXCEPT ![t].val = disk[loc[t].cur]]
    /\ Goto(t, "rmerge")
    /\ UNCHANGED <<Cache, made, mapVars, pw, chPrefetch, wVars, calls, snap>>

DirectReadFail(t) ==
    /\ pc[t] = "rpc"
    /\ RUnLockRead(t) /\ RUnLockWrite(t)
    /\ Return(t)
    /\ UNCHANGED <<Cache, made, mapVars, pw, chPrefetch, wCache, dataVars, calls>>

\* What MergeOp makes of the data that was read.
MergeOp(t) == IF loc[t].wfb /\ wbuf[loc[t].cur] # 0 THEN wbuf[loc[t].cur] ELSE loc[t].val

\* The op is done; Read returns after the last one.
ReadMerge(t) ==
    /\ pc[t] \in {"rhit", "rmerge"}
    /\ RUnLockWrite(t)
    /\ IF loc[t].cur + 1 < loc[t].hi
       THEN /\ loc' = [loc EXCEPT ![t] = [@ EXCEPT !.cur = loc[t].cur + 1, !.val = 0]]
            /\ Goto(t, "rlockw")
            /\ UNCHANGED snap
       ELSE Return(t)
    /\ UNCHANGED <<rVars, wCache, dataVars, calls>>

-----------------------------------------------------------------------------
(* RWCache.Write: WCache.Write block by block, then Clean of the same      *)
(* blocks.  The outcomes are those of the actions Write... of WCache.      *)

Write(t, lo, n) ==
    /\ pc[t] = "idle" /\ writes < MaxWrites
    /\ lo + n <= MaxBlock + 1
    /\ wCache' = TRUE
    /\ loc' = [loc EXCEPT ![t] = [@ EXCEPT !.lo = lo, !.hi = lo + n, !.cur = lo]]
    /\ Goto(t, "write")
    /\ writes' = writes + 1
    /\ UNCHANGED <<rVars, wlock, dataVars, reads, snap>>

\* WriteOp gets the block lock and gives it back at its end.
AtWrite(t) ==
    /\ pc[t] = "write" /\ LockFree(wlock[loc[t].cur])
    /\ ver' = ver + 1

Set(fn, x, v) == [fn EXCEPT ![x] = v]
Accept(x)     == latest' = Set(latest, x, ver + 1)

\* The server after the buffer of a block, if it holds the byte, was written.
Flushed(x) == Set(disk, x, IF wbuf[x] # 0 THEN wbuf[x] ELSE disk[x])

\* The op stays in a buffer; a buffer with the byte takes no second version of
\* it and was written out first.
WriteBuffered(t) ==
    LET x == loc[t].cur
    IN  /\ AtWrite(t) /\ Accept(x)
        /\ wbuf' = Set(wbuf, x, ver + 1) /\ disk' = Flushed(x)
        /\ NextBlock(t, "write", "clookup")
        /\ UNCHANGED <<rVars, wCache, wlock, ended, calls, snap>>

\* The op goes to the server, with the buffer or after it.
WriteThrough(t) ==
    LET x == loc[t].cur
    IN  /\ AtWrite(t) /\ Accept(x)
        /\ wbuf' = Set(wbuf, x, 0) /\ disk' = Set(disk, x, ver + 1)
        /\ NextBlock(t, "write", "clookup")
        /\ UNCHANGED <<rVars, wCache, wlock, ended, calls, snap>>

\* The op fills a buffer, which is queued for SyncWrite with its block locked.
WriteQueued(t) ==
    LET x == loc[t].cur
    IN  /\ AtWrite(t) /\ Accept(x)
        /\ wbuf[x] = 0 /\ wbuf' = Set(wbuf, x, ver + 1)
        /\ wlock' = Set(wlock, x, WriteLock)
        /\ NextBlock(t, "write", "clookup")
        /\ UNCHANGED <<rVars, wCache, disk, ended, calls, snap>>

\* A request fails, applied or not: the one for an older buffer, the one for the
\* op, or the one for the buffer that the op filled.
WriteFailed(x) ==
    \/ wbuf[x] # 0 /\ disk' \in {disk, Flushed(x)} /\ UNCHANGED <<wbuf, latest>>
    \/ disk' \in {Flushed(x), Set(disk, x, ver + 1)} /\ wbuf' = Set(wbuf, x, 0) /\ UNCHANGED latest
    \/ /\ wbuf[x] = 0 /\ disk' \in {disk, Set(disk, x, ver + 1)}
       /\ wbuf' = Set(wbuf, x, ver + 1) /\ Accept(x)

\* Write ends with the error, and Clean follows.
WriteFail(t) ==
    /\ AtWrite(t) /\ WriteFailed(loc[t].cur)
    /\ loc' = [loc EXCEPT ![t].cur = loc[t].lo]
    /\ Goto(t, "clookup")
    /\ UNCHANGED <<rVars, wCache, wlock, ended, calls, snap>>

\* A Write that covers a block runs.
Writing(t, x) == pc[t] \in {"write", "clookup", "clean"} /\ x \in loc[t].lo .. loc[t].hi - 1

WriteReturn(t) ==
    /\ Return(t)
    /\ ended' = [x \in Blocks |-> IF \E u \in Threads \ {t} : Writing(u, x) THEN ended[x] ELSE latest[x]]

\* Mutant of CleanLookup: Write returns without Clean.
CleanNever(t) ==
    /\ pc[t] = "clookup"
    /\ WriteReturn(t)
    /\ UNCHANGED <<rVars, wCache, wlock, wbuf, disk, ver, latest, calls>>
CleanLookup(t) ==
    /\ pc[t] = "clookup"
    /\ IF Cache = 0
       THEN WriteReturn(t)
       ELSE /\ loc' = [loc EXCEPT ![t].fb = Cache]
            /\ Goto(t, "clean")
            /\ UNCHANGED <<ended, snap>>
    /\ UNCHANGED <<rVars, wCache, wlock, wbuf, disk, ver, latest, calls>>

Clean(t) ==
    /\ pc[t] = "clean"
    /\ ReleaseBuffer(RKey(t))
    /\ IF loc[t].cur + 1 < loc[t].hi
       THEN loc' = [loc EXCEPT ![t].cur = @ + 1] /\ UNCHANGED <<pc, ended, snap>>
       ELSE WriteReturn(t)
    /\ UNCHANGED <<Cache, made, LockMap, pw, chPrefetch, wCache, wlock, wbuf, disk, ver, latest, calls>>

-----------------------------------------------------------------------------
(* The goroutines of the write cache *)

\* FlushBuffer, of a CheckExpire or of a Flush; it may fail, applied or not.
FlushBuffer(x) ==
    /\ LockFree(wlock[x]) /\ wbuf[x] # 0
    /\ disk' = Set(disk, x, wbuf[x])
    /\ wbuf' \in {wbuf, Set(wbuf, x, 0)}
    /\ UNCHANGED <<rVars, wCache, wlock, ver, latest, ended, pc, loc, calls, snap>>

SyncWrite(x) ==
    /\ wlock[x] = WriteLock
    /\ wlock' = Set(wlock, x, Free)
    /\ \/ disk' = Set(disk, x, wbuf[x]) /\ wbuf' \in {wbuf, Set(wbuf, x, 0)}
       \/ UNCHANGED <<disk, wbuf>>
    /\ UNCHANGED <<rVars, wCache, ver, latest, ended, pc, loc, calls, snap>>

-----------------------------------------------------------------------------
(* PrefetchRead and CheckExpire of the read cache *)

PrefetchTake(p) ==
    /\ pc[p] = "idle"
    /\ Cache # 0
    /\ \E x \in chPrefetch :
          /\ chPrefetch' = chPrefetch \ {x}
          /\ loc' = [loc EXCEPT ![p] = [@ EXCEPT !.fb = Cache, !.cur = x]]
    /\ Goto(p, "fetch")
    /\ UNCHANGED <<Cache, made, mapVars, LockMap, pw, wVars, calls, snap>>

PrefetchUnLock(p) ==
    /\ LockMap[RKey(p)] = WriteLock
    /\ LockMap' = [LockMap EXCEPT ![RKey(p)] = Free]
    /\ Goto(p, "idle")
    /\ loc' = [loc EXCEPT ![p] = NoLoc]

\* The request of DoPrefetchRead.
PrefetchFetch(p) ==
    LET x == loc[p].cur
    IN  /\ pc[p] = "fetch"
        /\ loc' = [loc EXCEPT ![p] = [@ EXCEPT !.val = disk[x], !.seen = latest[x]]]
        /\ Goto(p, "attach")
        /\ UNCHANGED <<rVars, wVars, calls, snap>>

\* It fails, or finds nothing at the end of the file.
PrefetchNothing(p) ==
    /\ pc[p] = "fetch"
    /\ PrefetchUnLock(p)
    /\ UNCHANGED <<Cache, made, mapVars, pw, chPrefetch, wVars, calls, snap>>

\* AllocBuffer and AttachBuffer.
TakeBuffer(k, p) ==
    /\ free' = free - 1
    /\ BufferMap' = [BufferMap EXCEPT ![k] = loc[p].val]
    /\ seen' = [seen EXCEPT ![k] = loc[p].seen]

\* Mutant of PrefetchAttach: no DoLru.
PrefetchAttachNoLru(p) ==
    /\ pc[p] = "attach"
    /\ IF free = 0 THEN UNCHANGED mapVars ELSE TakeBuffer(RKey(p), p) /\ UNCHANGED LruList
    /\ PrefetchUnLock(p)
    /\ UNCHANGED <<Cache, made, pw, chPrefetch, wVars, calls, snap>>
PrefetchAttach(p) ==
    /\ pc[p] = "attach"
    /\ IF free = 0
       THEN UNCHANGED mapVars
       ELSE TakeBuffer(RKey(p), p) /\ LruList' = LruList \cup {RKey(p)}
    /\ PrefetchUnLock(p)
    /\ UNCHANGED <<Cache, made, pw, chPrefetch, wVars, calls, snap>>

\* Time is left out: any buffer of the list may be the one that expired.
LruExpire(e) ==
    /\ pc[e] = "idle"
    /\ \E k \in LruList :
          /\ LruList' = LruList \ {k}
          /\ loc' = [loc EXCEPT ![e].cur = k[2]]
    /\ Goto(e, "elookup")
    /\ UNCHANGED <<Cache, made, BufferMap, free, seen, LockMap, pw, chPrefetch, wVars, calls, snap>>

ExpireLookup(e) ==
    /\ pc[e] = "elookup"
    /\ IF Cache = 0
       THEN Goto(e, "idle") /\ loc' = [loc EXCEPT ![e] = NoLoc]
       ELSE Goto(e, "erelease") /\ loc' = [loc EXCEPT ![e].fb = Cache]
    /\ UNCHANGED <<rVars, wVars, calls, snap>>

ExpireRelease(e) ==
    /\ pc[e] = "erelease"
    /\ ReleaseBuffer(RKey(e))
    /\ Goto(e, "idle") /\ loc' = [loc EXCEPT ![e] = NoLoc]
    /\ UNCHANGED <<Cache, made, LockMap, pw, chPrefetch, wVars, calls, snap>>

-----------------------------------------------------------------------------
(* Close.  A handle that is not the last flushes the write cache and goes; *)
(* the flushing is FlushBuffer's.                                          *)

IsLastRefer(t) == \A u \in Threads \ {t} : pc[u] = "closed"

Close(t) ==
    /\ pc[t] = "idle" /\ ~IsLastRefer(t)
    /\ Goto(t, "flush")
    /\ UNCHANGED <<rVars, wVars, loc, calls, snap>>

CloseFile(t) ==
    /\ pc[t] = "flush"
    /\ Goto(t, "closed")
    /\ UNCHANGED <<rVars, wVars, loc, calls, snap>>

\* The last one begins with rCache.Close, Release of which returns at once when
\* the file has no FileBuffer.
CloseLast(t) ==
    /\ pc[t] = "idle" /\ IsLastRefer(t)
    /\ loc' = [loc EXCEPT ![t].fb = Cache]
    /\ Goto(t, IF Cache = 0 THEN "wclose" ELSE "wait")
    /\ UNCHANGED <<rVars, wVars, calls, snap>>

\* Mutant of WaitOver: Release does not wait for the prefetch to complete.
WaitOverAtOnce(fb) == TRUE
WaitOver(fb) == \A x \in Blocks : LockMap[<<fb, x>>] = Free

\* Wait, then the indexes of the attached buffers.
Wait(t) ==
    /\ pc[t] = "wait" /\ WaitOver(loc[t].fb)
    /\ loc' = [loc EXCEPT ![t].todo = {x \in Blocks : BufferMap[<<loc[t].fb, x>>] # None}]
    /\ Goto(t, "release")
    /\ UNCHANGED <<rVars, wVars, calls, snap>>

Release(t) ==
    /\ pc[t] = "release"
    /\ \E x \in loc[t].todo :
          /\ ReleaseBuffer(<<loc[t].fb, x>>)
          /\ loc' = [loc EXCEPT ![t].todo = @ \ {x}]
    /\ UNCHANGED <<Cache, made, LockMap, pw, chPrefetch, wVars, pc, calls, snap>>

DetachFileBuffer(t) ==
    /\ pc[t] = "release" /\ loc[t].todo = {}
    /\ Cache' = 0
    /\ Goto(t, "wclose")
    /\ loc' = [loc EXCEPT ![t] = NoLoc]
    /\ UNCHANGED <<made, mapVars, LockMap, pw, chPrefetch, wVars, calls, snap>>

\* wCache.Close: it flushed everything and drops the FileBuffer, or it failed
\* and the handle stays.
WCacheClosed(t) ==
    /\ pc[t] = "wclose"
    /\ \A x \in Blocks : wbuf[x] = 0 /\ wlock[x] = Free
    /\ wCache' = FALSE
    /\ Goto(t, "closed")
    /\ UNCHANGED <<rVars, wlock, dataVars, loc, calls, snap>>

WCacheCloseFailed(t) ==
    /\ pc[t] = "wclose"
    /\ \E x \in Blocks : wbuf[x] # 0
    /\ Goto(t, "idle")
    /\ UNCHANGED <<rVars, wVars, loc, calls, snap>>

-----------------------------------------------------------------------------
ReadStep(t) ==
    \/ PrefetchLock(t) \/ PrefetchSend(t) \/ ReadLookup(t) \/ ReadLockW(t) \/ ReadOp(t)
    \/ DirectRead(t) \/ DirectReadFail(t) \/ ReadMerge(t)
WriteStep(t) ==
    \/ WriteBuffered(t) \/ WriteThrough(t) \/ WriteQueued(t) \/ WriteFail(t)
    \/ CleanLookup(t) \/ Clean(t)
CloseStep(t) == CloseFile(t) \/ Wait(t) \/ Release(t) \/ DetachFileBuffer(t) \/ WCacheClosed(t) \/ WCacheCloseFailed(t)
PrefetchStep(p) == PrefetchTake(p) \/ PrefetchFetch(p) \/ PrefetchNothing(p) \/ PrefetchAttach(p)
ExpireStep(e)   == LruExpire(e) \/ ExpireLookup(e) \/ ExpireRelease(e)

Next ==
    \/ \E t \in Threads :
          \/ Open(t) \/ Close(t) \/ CloseLast(t)
          \/ \E lo \in Blocks, n \in 1 .. MaxReadLen : Read(t, lo, n)
          \/ \E lo \in Blocks, n \in 1 .. MaxWriteLen : Write(t, lo, n)
          \/ ReadStep(t) \/ WriteStep(t) \/ CloseStep(t)
    \/ \E p \in Prefetchers : PrefetchStep(p)
    \/ \E e \in Expirers : ExpireStep(e)
    \/ \E x \in Blocks : FlushBuffer(x) \/ SyncWrite(x)

Spec == Init /\ [][Next]_vars

\* Goroutines are scheduled and requests are answered.
Fairness ==
    /\ \A t \in Threads     : WF_vars(ReadStep(t) \/ WriteStep(t) \/ CloseStep(t))
    /\ \A p \in Prefetchers : WF_vars(PrefetchStep(p))
    /\ \A e \in Expirers    : WF_vars(ExpireStep(e))
    /\ \A x \in Blocks      : WF_vars(SyncWrite(x))

FairSpec == Spec /\ Fairness

-----------------------------------------------------------------------------
(* Properties *)

\* No Assert of the read path fails: a queued prefetch finds the FileBuffer of
\* its file (rcache.go:426) and its block locked for it (cache.go:298) and without a
\* buffer (cache.go:263), a reader finds its two read locks (cache.go:329), and
\* no read that may come next crosses an empty window (rcache.go:268).
ReadNoPanic ==
    /\ chPrefetch # {} => Cache # 0
    /\ \A x \in chPrefetch : LockMap[<<Cache, x>>] = WriteLock /\ BufferMap[<<Cache, x>>] = None
    /\ \A p \in Prefetchers : pc[p] \in {"fetch", "attach"} =>
          LockMap[RKey(p)] = WriteLock /\ BufferMap[RKey(p)] = None
    /\ \A t \in Threads :
          /\ pc[t] = "rpc" => LockMap[RKey(t)] > 0
          /\ pc[t] \in {"rlockr", "rpc", "rhit", "rmerge"} /\ loc[t].wfb => wlock[loc[t].cur] > 0
    /\ \A b \in FileBufs, lo \in Blocks, n \in 1 .. MaxReadLen :
          lo + n <= MaxBlock + 1 => WindowAssert(GetReadWindow(lo, n), pw[b])

Attached == {k \in Keys : BufferMap[k] # None}

\* No buffer of the read cache is lost: one that is not in the pool is attached to
\* the FileBuffer of its file, where Clean and Close find it, and is on the
\* LruList or in the hands of CheckExpire; and the list holds no other.
ReadBufferConservation ==
    /\ free + Cardinality(Attached) = BufferMax
    /\ LruList \subseteq Attached
    /\ \A k \in Attached :
          /\ k[1] = Cache
          /\ k \in LruList \/ \E e \in Expirers : pc[e] \in {"elookup", "erelease"} /\ loc[e].cur = k[2]

\* Clean catches every prefetch that a Write overtook: while no Write of its block
\* runs, a buffer was read from the server after the last Write was accepted, so
\* data that went through to the server is never hidden behind an older copy.
CleanedAfterWrite ==
    \A k \in Attached : seen[k] = latest[k[2]] \/ \E t \in Threads : Writing(t, k[2])

\* What a thread is about to return has all writes that returned before its Read began.
Fresh(t) == MergeOp(t) >= snap[t][loc[t].cur]

\* A block that a Read asks the server for is returned with all writes that
\* returned before the Read began, whatever is written, flushed, prefetched and
\* expired between the answer and the merge with the write cache (rwcache.go:72).
DirectReadFresh == \A t \in Threads : pc[t] = "rmerge" => Fresh(t)

\* The same of every block, also one found in a prefetched buffer: once the lock of
\* the write cache is held, the data is in its buffer or read from the disk
\* (rwcache.go:53, 58).
ReadFresh == \A t \in Threads : pc[t] \in {"rhit", "rmerge"} => Fresh(t)

\* Every Read, Write and Close returns: the two locks of a block, the prefetch
\* channel and Wait do not block each other for ever.
ReadsReturn ==
    \A t \in Threads : pc[t] \notin {"idle", "closed"} ~> pc[t] \in {"idle", "closed"}
=============================================================================
