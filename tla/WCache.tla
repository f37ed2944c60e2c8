------------------------------- MODULE WCache -------------------------------
(***************************************************************************)
(* The write-back cache of a mount (lib/libfs/wcache.go) together with the *)
(* part of file.go that drives it: Open, Write, Flush/Fsync and Close of a *)
(* handle, the goroutines Flush starts, the CheckExpire goroutines and the *)
(* SyncWrite goroutines.                                                   *)
(*                                                                         *)
(* Every process is a goroutine.  A client is a handle used by one thread; *)
(* FUSE runs the requests of different handles concurrently.  A step of a  *)
(* process runs up to the next point where another process can observe it: *)
(* the acquisition of a block lock, a send on chSync, or the sending and   *)
(* the return of an RPC.  What happens between two such points touches     *)
(* only the buffer whose block lock is held, and the lists under the cache *)
(* mutex in one critical section each.  The exception is SyncWrite, which  *)
(* frees its buffer before it reads from it the block to unlock: that is a *)
(* step of its own.                                                        *)
(***************************************************************************)
EXTENDS Buffer, FiniteSets

CONSTANTS
    Clients,     \* handle slots, each used by one thread
    FlushIds,    \* goroutines one Flush starts (wcache.go: min(8, indexes))
    Expirers,    \* CheckExpire goroutines (8 in the code)
    Syncers,     \* SyncWrite goroutines; {} is SyncRoutine = 0
    Buffers,     \* the buffers made by NewWCache (BufferMax)
    NoBuf,       \* the nil *Buffer
    MaxFileBufs, \* bound: FileBuffer objects ever allocated
    MaxVer,      \* bound: block writes ever performed
    Unlinks,     \* files somebody may remove while they are open
    OpenDuringLastClose, \* may Open overlap the last Close of the same file?
    AllocBeforeUnlock    \* may Write take a buffer between FreeBuffer and UnLockBuffer of SyncWrite?

Workers == Clients \X FlushIds
Procs   == Clients \cup Workers \cup Expirers \cup Syncers

ASSUME WCacheAssumption ==
    /\ NoBuf \notin Buffers
    /\ IsFiniteSet(Clients)
    /\ MaxFileBufs \in Nat \ {0} /\ MaxVer \in Nat
    /\ Unlinks \subseteq Files
    /\ OpenDuringLastClose \in BOOLEAN /\ AllocBeforeUnlock \in BOOLEAN
    /\ Clients \cap Workers = {} /\ Clients \cap Expirers = {} /\ Clients \cap Syncers = {}
    /\ Workers \cap Expirers = {} /\ Workers \cap Syncers = {} /\ Expirers \cap Syncers = {}

FileBufs == 1 .. MaxFileBufs      \* identities of FileBuffer objects; 0 is nil
Keys     == FileBufs \X Blocks    \* one entry of a FileBuffer's maps

\* Values of a LockMap entry: absent, or the CacheLock of a writer.  The n readers
\* of a block, none of which belong to the write path, would be the value n.
Free      == 0
WriteLock == -1

VARIABLES
    Cache,      \* WCache.Cache: the FileBuffer of each file, 0 when absent
    made,       \* number of FileBuffer objects allocated so far
    BufferMap,  \* FileBuffer.BufferMap of every FileBuffer
    LockMap,    \* FileBuffer.LockMap of every FileBuffer
    FreeList,   \* WCache.FreeList
    LruList,    \* WCache.LruList (a buffer is in it iff its elm is not nil)
    chSync,     \* buffers queued on WCache.chSync; they are of different blocks,
                \* so the order in which SyncWrite takes them does not matter
    buf,        \* the buffers
    pc,         \* where each goroutine stands
    loc,        \* its local variables: file, FileBuffer, block, buffer, RPC result
    op,         \* the RWBlockOp of a client's Write
    fl,         \* the Flush call of a client: why, mq, results missing, flushErr
    disk,       \* content of the files on the server
    gone,       \* files removed on the server: requests answer ENOENT
    ver,        \* ghost: version of the last block write
    latest,     \* ghost: content after every write the cache accepted
    snap        \* ghost: latest when the current Flush of a client began

poolVars  == <<FreeList, LruList, chSync, buf>>
tableVars == <<Cache, made, BufferMap, LockMap>>
localVars == <<pc, loc, op, fl>>
diskVars  == <<disk, gone>>
ghostVars == <<ver, latest, snap>>
vars == <<poolVars, tableVars, localVars, diskVars, ghostVars>>

-----------------------------------------------------------------------------
(* Types *)

Labels == {"closed", "idle", "wlock", "wdirect", "wdirectR", "wfull", "wfullR",
           "wflush", "wflushR", "wsend", "flushing", "fsync", "synced",
           "elookup", "flock", "fflush", "fflushR", "sync", "syncR", "syncU"}

LocType == [fe : Files \cup {NoFile}, fb : 0 .. MaxFileBufs, blk : Blocks,
            cur : Buffers \cup {NoBuf}, res : {"none", "ok", "eio", "enoent"}]
FlType  == [kind : {"none", "fsync", "close", "closelast"}, mq : SUBSET Blocks,
            pend : SUBSET Blocks, failed : BOOLEAN]

NoLoc == [fe |-> NoFile, fb |-> 0, blk |-> 0, cur |-> NoBuf, res |-> "none"]
NoOp  == [RwOffset |-> 0, RwSize |-> 0, ver |-> 0]
NoFl  == [kind |-> "none", mq |-> {}, pend |-> {}, failed |-> FALSE]

FileContent == [Blocks -> Content]

TypeOK ==
    /\ Cache \in [Files -> 0 .. MaxFileBufs]
    /\ made \in 0 .. MaxFileBufs
    /\ BufferMap \in [Keys -> Buffers \cup {NoBuf}]
    /\ LockMap \in [Keys -> Nat \cup {WriteLock}]
    /\ FreeList \subseteq Buffers /\ LruList \subseteq Buffers /\ chSync \subseteq Buffers
    /\ buf \in [Buffers -> BufferType]
    /\ pc \in [Procs -> Labels]
    /\ loc \in [Procs -> LocType]
    /\ op \in [Clients -> OpType]
    /\ fl \in [Clients -> FlType]
    /\ disk \in [Files -> FileContent]
    /\ gone \in [Files -> BOOLEAN]
    /\ ver \in Nat
    /\ latest \in [Files -> FileContent]
    /\ snap \in [Clients -> FileContent]

Init ==
    /\ Cache = [f \in Files |-> 0]
    /\ made = 0
    /\ BufferMap = [k \in Keys |-> NoBuf]
    /\ LockMap = [k \in Keys |-> Free]
    /\ FreeList = Buffers /\ LruList = {} /\ chSync = {}
    /\ buf = [b \in Buffers |-> NewBuffer]
    /\ pc = [p \in Procs |-> IF p \in Clients THEN "closed" ELSE "idle"]
    /\ loc = [p \in Procs |-> NoLoc]
    /\ op = [c \in Clients |-> NoOp]
    /\ fl = [c \in Clients |-> NoFl]
    /\ disk = [f \in Files |-> [x \in Blocks |-> Blank]]
    /\ gone = [f \in Files |-> FALSE]
    /\ ver = 0
    /\ latest = [f \in Files |-> [x \in Blocks |-> Blank]]
    /\ snap = [c \in Clients |-> [x \in Blocks |-> Blank]]

-----------------------------------------------------------------------------
(* Helpers: the critical sections of WCache and FileBuffer *)

SyncIo == Syncers = {}

Key(p) == <<loc[p].fb, loc[p].blk>>

AttachBuffer(k, b) == BufferMap' = [BufferMap EXCEPT ![k] = b]
DetachBuffer(k)    == BufferMap' = [BufferMap EXCEPT ![k] = NoBuf]

\* Mutant of LockBuffer: the lock is taken without looking whether it is free.
LockBufferBlindly(k) == LockMap' = [LockMap EXCEPT ![k] = WriteLock]
LockBuffer(k)        == LockMap[k] = Free /\ LockMap' = [LockMap EXCEPT ![k] = WriteLock]

\* Mutant of UnLockBuffer: the lock is never given back.
UnLockBufferNever(k) == UNCHANGED LockMap
UnLockBuffer(k)      == LockMap[k] = WriteLock /\ LockMap' = [LockMap EXCEPT ![k] = Free]

AllocBuffer(b) == b \in FreeList /\ FreeList' = FreeList \ {b}
FreeBuffer(b)  == FreeList' = FreeList \cup {b}

\* Mutant of DoLru: the buffer is not put (back) on the list.
DoLruNever(b) == UNCHANGED LruList
DoLru(b)      == LruList' = LruList \cup {b}
RemoveLru(b)  == LruList' = LruList \ {b}

\* Handles (FileCache): a handle counts until its Close has succeeded.
Handles(f) == {c \in Clients : pc[c] # "closed" /\ loc[c].fe = f}

\* Mutant of IsLastRefer: every Close takes itself for the last one.
IsLastReferAlways(c) == TRUE
IsLastRefer(c)       == Handles(loc[c].fe) = {c}

Goto(p, label) == pc' = [pc EXCEPT ![p] = label]

\* A client's operation returns: its locals are gone, the handle stays.
Return(c) ==
    /\ Goto(c, "idle")
    /\ loc' = [loc EXCEPT ![c] = [NoLoc EXCEPT !.fe = loc[c].fe]]
    /\ op' = [op EXCEPT ![c] = NoOp]

\* The op becomes part of what every later read has to see.
Accept(c, o) ==
    LET f == loc[c].fe  x == loc[c].blk
    IN  latest' = [latest EXCEPT ![f][x] = Overlay(@, OpBuffer(f, x, o))]

-----------------------------------------------------------------------------
(* mount.Open and mount.Write (file.go), WCache.Write and WriteOp.         *)
(* A Write over several blocks is a Write per block: Slice cuts it up, and *)
(* nothing is held from one op to the next.                                *)

LastCloseRuns(f) == \E c \in Clients : fl[c].kind = "closelast" /\ loc[c].fe = f

Open(c, f) ==
    /\ pc[c] = "closed" /\ ~gone[f]
    /\ OpenDuringLastClose \/ ~LastCloseRuns(f)
    /\ Goto(c, "idle")
    /\ loc' = [loc EXCEPT ![c].fe = f]
    /\ UNCHANGED <<poolVars, tableVars, op, fl, diskVars, ghostVars>>

\* Up to LockBuffer: GetFileBuffer(fe, true) and the op.
Write(c, x, off, size) ==
    LET f   == loc[c].fe
        new == IF Cache[f] = 0 THEN made + 1 ELSE Cache[f]
    IN  /\ pc[c] = "idle" /\ ver < MaxVer
        /\ off + size <= BlockSize
        /\ new <= MaxFileBufs
        /\ Cache' = [Cache EXCEPT ![f] = new]
        /\ made' = IF Cache[f] = 0 THEN made + 1 ELSE made
        /\ op' = [op EXCEPT ![c] = [RwOffset |-> off, RwSize |-> size, ver |-> 0]]
        /\ loc' = [loc EXCEPT ![c] = [@ EXCEPT !.fb = new, !.blk = x]]
        /\ Goto(c, "wlock")
        /\ UNCHANGED <<poolVars, BufferMap, LockMap, fl, diskVars, ghostVars>>

\* The block lock orders the writes of a block: the version is drawn here.
Versioned(c) == [op[c] EXCEPT !.ver = ver + 1]

AtWriteLock(c) ==
    /\ pc[c] = "wlock" /\ LockMap[Key(c)] = Free
    /\ ver' = ver + 1

\* No buffer, and the op ends the block under SyncIo or the pool is empty.
WriteDirect(c) ==
    /\ AtWriteLock(c)
    /\ BufferMap[Key(c)] = NoBuf
    /\ (OpIsFull(op[c]) /\ SyncIo) \/ FreeList = {}
    /\ LockBuffer(Key(c))
    /\ op' = [op EXCEPT ![c] = Versioned(c)]
    /\ Goto(c, "wdirect")
    /\ UNCHANGED <<poolVars, Cache, made, BufferMap, loc, fl, diskVars, latest, snap>>

\* The buffers SyncWrite has freed and will read once more.
Unlocking == {loc[s].cur : s \in {u \in Syncers : pc[u] = "syncU"}}

\* No buffer: allocate one, attach it, and queue it when the op ends the block.
WriteAlloc(c, b) ==
    /\ AtWriteLock(c)
    /\ BufferMap[Key(c)] = NoBuf
    /\ ~(OpIsFull(op[c]) /\ SyncIo)
    /\ AllocBuffer(b) /\ b \notin LruList
    /\ AllocBeforeUnlock \/ b \notin Unlocking
    /\ buf' = [buf EXCEPT ![b] = OpBuffer(loc[c].fe, loc[c].blk, Versioned(c))]
    /\ AttachBuffer(Key(c), b)
    /\ Accept(c, Versioned(c))
    /\ \/ /\ OpIsFull(op[c])
          /\ LockBuffer(Key(c))
          /\ loc' = [loc EXCEPT ![c].cur = b]
          /\ Goto(c, "wsend")
          /\ UNCHANGED <<LruList, op>>
       \/ /\ ~OpIsFull(op[c])
          /\ DoLru(b)
          /\ Return(c)
          /\ UNCHANGED LockMap
    /\ UNCHANGED <<chSync, Cache, made, fl, diskVars, snap>>

\* The op continues the buffer: merge, and write out a buffer that became full.
WriteMerge(c) ==
    LET b == BufferMap[Key(c)]
        m == MergeData(buf[b], op[c].RwSize, ver + 1)
    IN  /\ AtWriteLock(c)
        /\ b # NoBuf /\ CanMerge(buf[b], op[c].RwOffset)
        /\ buf' = [buf EXCEPT ![b] = m]
        /\ Accept(c, Versioned(c))
        /\ \/ /\ IsFull(m)
              /\ LockBuffer(Key(c))
              /\ RemoveLru(b)
              /\ loc' = [loc EXCEPT ![c].cur = b]
              /\ Goto(c, IF SyncIo THEN "wfull" ELSE "wsend")
              /\ UNCHANGED op
           \/ /\ ~IsFull(m)
              /\ DoLru(b)
              /\ Return(c)
              /\ UNCHANGED LockMap
        /\ UNCHANGED <<FreeList, chSync, Cache, made, BufferMap, fl, diskVars, snap>>

\* Mutant of WriteNoMerge: an op that ends the block is sent around the buffer.
WriteNoMergeAround(c) ==
    /\ AtWriteLock(c)
    /\ BufferMap[Key(c)] # NoBuf /\ ~CanMerge(buf[BufferMap[Key(c)]], op[c].RwOffset)
    /\ OpIsFull(op[c])
    /\ LockBuffer(Key(c))
    /\ op' = [op EXCEPT ![c] = Versioned(c)]
    /\ Goto(c, "wdirect")
    /\ UNCHANGED <<poolVars, Cache, made, BufferMap, loc, fl, diskVars, latest, snap>>

\* The op does not continue the buffer: the buffer has to go out first.
WriteNoMerge(c) ==
    LET b == BufferMap[Key(c)]
    IN  /\ AtWriteLock(c)
        /\ b # NoBuf /\ ~CanMerge(buf[b], op[c].RwOffset)
        /\ LockBuffer(Key(c))
        /\ RemoveLru(b)
        /\ loc' = [loc EXCEPT ![c].cur = b]
        /\ op' = [op EXCEPT ![c] = Versioned(c)]
        /\ Goto(c, "wflush")
        /\ UNCHANGED <<FreeList, chSync, buf, Cache, made, BufferMap, fl, diskVars, latest, snap>>

\* chSync <- buffer: blocks while the channel is full.  The block stays locked
\* and the lock now belongs to the queued buffer.
Send(c) ==
    /\ pc[c] = "wsend" /\ Cardinality(chSync) < Cardinality(Syncers)
    /\ chSync' = chSync \cup {loc[c].cur}
    /\ Return(c)
    /\ UNCHANGED <<FreeList, LruList, buf, tableVars, fl, diskVars, ghostVars>>

\* The reply to the direct write of the op.
WriteDirectDone(c) ==
    /\ pc[c] = "wdirectR"
    /\ IF loc[c].res = "ok" THEN Accept(c, op[c]) ELSE UNCHANGED latest
    /\ UnLockBuffer(Key(c))
    /\ Return(c)
    /\ UNCHANGED <<poolVars, Cache, made, BufferMap, fl, diskVars, ver, snap>>

\* The reply to the write of a buffer that a merge made full.
WriteFullDone(c) ==
    /\ pc[c] = "wfullR"
    /\ IF loc[c].res = "ok"
       THEN DetachBuffer(Key(c)) /\ FreeBuffer(loc[c].cur) /\ UNCHANGED LruList
       ELSE DoLru(loc[c].cur) /\ UNCHANGED <<BufferMap, FreeList>>
    /\ UnLockBuffer(Key(c))
    /\ Return(c)
    /\ UNCHANGED <<chSync, buf, Cache, made, fl, diskVars, ghostVars>>

\* The reply to the write of a buffer the op did not continue.
WriteFlushFail(c) ==
    /\ pc[c] = "wflushR" /\ loc[c].res # "ok"
    /\ DoLru(loc[c].cur)
    /\ UnLockBuffer(Key(c))
    /\ Return(c)
    /\ UNCHANGED <<FreeList, chSync, buf, Cache, made, BufferMap, fl, diskVars, ghostVars>>

WriteFlushDirect(c) ==
    /\ pc[c] = "wflushR" /\ loc[c].res = "ok" /\ OpIsFull(op[c])
    /\ DetachBuffer(Key(c)) /\ FreeBuffer(loc[c].cur)
    /\ loc' = [loc EXCEPT ![c] = [@ EXCEPT !.cur = NoBuf, !.res = "none"]]
    /\ Goto(c, "wdirect")
    /\ UNCHANGED <<LruList, chSync, buf, Cache, made, LockMap, op, fl, diskVars, ghostVars>>

WriteFlushReuse(c) ==
    LET b == loc[c].cur
    IN  /\ pc[c] = "wflushR" /\ loc[c].res = "ok" /\ ~OpIsFull(op[c])
        /\ b \notin LruList
        /\ buf' = [buf EXCEPT ![b] = OpBuffer(loc[c].fe, loc[c].blk, op[c])]
        /\ DoLru(b)
        /\ Accept(c, op[c])
        /\ UnLockBuffer(Key(c))
        /\ Return(c)
        /\ UNCHANGED <<FreeList, chSync, Cache, made, BufferMap, fl, diskVars, ver, snap>>

-----------------------------------------------------------------------------
(* The write request (write.go): DirectWrite of a buffer or of an op.  The *)
(* request may fail and still have been applied by the server.             *)

Replied == [wdirect |-> "wdirectR", wfull |-> "wfullR", wflush |-> "wflushR",
            fflush |-> "fflushR", sync |-> "syncR"]

Request(p) == IF pc[p] = "wdirect" THEN OpBuffer(loc[p].fe, loc[p].blk, op[p])
                                   ELSE buf[loc[p].cur]

Reply(p, r) ==
    /\ pc[p] \in DOMAIN Replied
    /\ Goto(p, Replied[pc[p]])
    /\ loc' = [loc EXCEPT ![p].res = r]
    /\ UNCHANGED <<poolVars, tableVars, op, fl, gone, ghostVars>>

Apply(p) == LET q == Request(p)
            IN  disk' = [disk EXCEPT ![q.fe][q.BlkIdx] = Overlay(@, q)]

RpcOk(p)   == Reply(p, "ok") /\ ~gone[Request(p).fe] /\ Apply(p)
RpcEio(p)  == Reply(p, "eio") /\ ~gone[Request(p).fe] /\ (Apply(p) \/ UNCHANGED disk)
RpcGone(p) == Reply(p, "enoent") /\ gone[Request(p).fe] /\ UNCHANGED disk

-----------------------------------------------------------------------------
(* FlushBuffer, run by the goroutines of Flush and of CheckExpire *)

\* The result of one index reaches the Flush that waits for it.
Result(q, x, failed) == [q EXCEPT !.pend = @ \ {x}, !.failed = @ \/ failed]

\* Mutant of Report: the error of a buffer is not kept.
ReportNoError(p, failed) ==
    /\ Goto(p, "idle")
    /\ loc' = [loc EXCEPT ![p] = NoLoc]
    /\ fl' = IF p \in Workers
             THEN [fl EXCEPT ![p[1]] = Result(@, loc[p].blk, FALSE)] ELSE fl

\* A goroutine is done with its block; one of Flush reports the result.
Report(p, failed) ==
    /\ Goto(p, "idle")
    /\ loc' = [loc EXCEPT ![p] = NoLoc]
    /\ fl' = IF p \in Workers
             THEN [fl EXCEPT ![p[1]] = Result(@, loc[p].blk, failed)] ELSE fl

FlushLock(p) ==
    LET b == BufferMap[Key(p)]
    IN  /\ pc[p] = "flock" /\ b # NoBuf
        /\ LockBuffer(Key(p))
        /\ RemoveLru(b)
        /\ loc' = [loc EXCEPT ![p].cur = b]
        /\ Goto(p, "fflush")
        /\ UNCHANGED <<FreeList, chSync, buf, Cache, made, BufferMap, op, fl, diskVars, ghostVars>>

FlushNothing(p) ==
    /\ pc[p] = "flock" /\ LockMap[Key(p)] = Free /\ BufferMap[Key(p)] = NoBuf
    /\ Report(p, FALSE)
    /\ UNCHANGED <<poolVars, tableVars, op, diskVars, ghostVars>>

\* ENOENT drops the data: there is no file left to hold it.
\* Mutant of Releases: any reply drops it.
ReleasesAlways(res) == TRUE
Releases(res)       == res \in {"ok", "enoent"}

FlushDone(p) ==
    /\ pc[p] = "fflushR"
    /\ IF Releases(loc[p].res)
       THEN DetachBuffer(Key(p)) /\ FreeBuffer(loc[p].cur) /\ UNCHANGED LruList
       ELSE DoLru(loc[p].cur) /\ UNCHANGED <<BufferMap, FreeList>>
    /\ UnLockBuffer(Key(p))
    /\ Report(p, loc[p].res # "ok")
    /\ UNCHANGED <<chSync, buf, Cache, made, op, diskVars, ghostVars>>

-----------------------------------------------------------------------------
(* CheckExpire *)

\* The back of the list once it is old enough.  Time is left out, so any buffer
\* of the list may be the one.
LruExpire(e) ==
    /\ pc[e] = "idle"
    /\ \E b \in LruList :
          /\ RemoveLru(b)
          /\ loc' = [loc EXCEPT ![e] = [@ EXCEPT !.fe = buf[b].fe, !.blk = buf[b].BlkIdx]]
    /\ Goto(e, "elookup")
    /\ UNCHANGED <<FreeList, chSync, buf, tableVars, op, fl, diskVars, ghostVars>>

ExpireLookup(e) ==
    LET fb == Cache[loc[e].fe]
    IN  /\ pc[e] = "elookup"
        /\ IF fb = 0
           THEN Goto(e, "idle") /\ loc' = [loc EXCEPT ![e] = NoLoc]
           ELSE Goto(e, "flock") /\ loc' = [loc EXCEPT ![e].fb = fb]
        /\ UNCHANGED <<poolVars, tableVars, op, fl, diskVars, ghostVars>>

-----------------------------------------------------------------------------
(* SyncWrite *)

SyncTake(s) ==
    /\ pc[s] = "idle"
    /\ \E b \in chSync :
          /\ Cache[buf[b].fe] # 0
          /\ chSync' = chSync \ {b}
          /\ loc' = [loc EXCEPT ![s] = [@ EXCEPT !.fb = Cache[buf[b].fe],
                                             !.blk = buf[b].BlkIdx, !.cur = b]]
    /\ Goto(s, "sync")
    /\ UNCHANGED <<FreeList, LruList, buf, tableVars, op, fl, diskVars, ghostVars>>

\* The reply: after an error the buffer stays, else it is detached and freed.
SyncDone(s) ==
    /\ pc[s] = "syncR"
    /\ \/ /\ loc[s].res # "ok"
          /\ DoLru(loc[s].cur)
          /\ UnLockBuffer(Key(s))
          /\ Goto(s, "idle")
          /\ loc' = [loc EXCEPT ![s] = NoLoc]
          /\ UNCHANGED <<BufferMap, FreeList>>
       \/ /\ loc[s].res = "ok"
          /\ DetachBuffer(Key(s)) /\ FreeBuffer(loc[s].cur)
          /\ Goto(s, "syncU")
          /\ UNCHANGED <<LruList, LockMap, loc>>
    /\ UNCHANGED <<chSync, buf, Cache, made, op, fl, diskVars, ghostVars>>

\* The block to unlock is the BlkIdx of the buffer, which is free by now or serves
\* another block.
SyncKey(s) == <<loc[s].fb, buf[loc[s].cur].BlkIdx>>

SyncUnlock(s) ==
    /\ pc[s] = "syncU"
    /\ UnLockBuffer(SyncKey(s))
    /\ Goto(s, "idle")
    /\ loc' = [loc EXCEPT ![s] = NoLoc]
    /\ UNCHANGED <<poolVars, Cache, made, BufferMap, op, fl, diskVars, ghostVars>>

-----------------------------------------------------------------------------
(* Flush, Fsync and Close of a handle *)

\* WCache.Flush: the indexes of the buffers attached now, for the goroutines.
StartFlush(c, kind) ==
    LET fb  == Cache[loc[c].fe]
        idx == {x \in Blocks : fb # 0 /\ BufferMap[<<fb, x>>] # NoBuf}
    IN  /\ pc[c] = "idle"
        /\ fl' = [fl EXCEPT ![c] = [kind |-> kind, mq |-> idx, pend |-> idx, failed |-> FALSE]]
        /\ loc' = [loc EXCEPT ![c].fb = fb]
        /\ snap' = [snap EXCEPT ![c] = latest[loc[c].fe]]
        /\ Goto(c, "flushing")
        /\ UNCHANGED <<poolVars, tableVars, op, diskVars, ver, latest>>

Flush(c) == StartFlush(c, "fsync")
Close(c) == StartFlush(c, IF IsLastRefer(c) THEN "closelast" ELSE "close")

TakeIndex(w) ==
    LET c == w[1]
    IN  /\ pc[w] = "idle"
        /\ \E x \in fl[c].mq :
              /\ fl' = [fl EXCEPT ![c].mq = @ \ {x}]
              /\ loc' = [loc EXCEPT ![w] = [@ EXCEPT !.fb = loc[c].fb, !.blk = x]]
        /\ Goto(w, "flock")
        /\ UNCHANGED <<poolVars, tableVars, op, diskVars, ghostVars>>

FlushReturned(c) == pc[c] = "flushing" /\ fl[c].pend = {}

EndFlush(c) ==
    /\ fl' = [fl EXCEPT ![c] = NoFl]
    /\ snap' = [snap EXCEPT ![c] = [x \in Blocks |-> Blank]]

\* mount.Flush goes on to the Fsync request whatever rwCache.Flush returned.
FlushToFsync(c) ==
    /\ FlushReturned(c) /\ fl[c].kind = "fsync"
    /\ Goto(c, "fsync")
    /\ UNCHANGED <<poolVars, tableVars, loc, op, fl, diskVars, ghostVars>>

FsyncReply(c) ==
    /\ pc[c] = "fsync"
    /\ \/ ~gone[loc[c].fe] /\ Goto(c, "synced") /\ UNCHANGED <<loc, op, fl, snap>>
       \/ Return(c) /\ EndFlush(c)
    /\ UNCHANGED <<poolVars, tableVars, diskVars, ver, latest>>

FsyncReturn(c) ==
    /\ pc[c] = "synced"
    /\ Return(c) /\ EndFlush(c)
    /\ UNCHANGED <<poolVars, tableVars, diskVars, ver, latest>>

\* Close: a failed flush keeps the handle open.
CloseFail(c) ==
    /\ FlushReturned(c) /\ fl[c].kind \in {"close", "closelast"} /\ fl[c].failed
    /\ Return(c) /\ EndFlush(c)
    /\ UNCHANGED <<poolVars, tableVars, diskVars, ver, latest>>

\* Otherwise the last handle drops the FileBuffer, and the handle goes.
CloseDone(c) ==
    /\ FlushReturned(c) /\ fl[c].kind \in {"close", "closelast"} /\ ~fl[c].failed
    /\ Cache' = IF fl[c].kind = "closelast" THEN [Cache EXCEPT ![loc[c].fe] = 0] ELSE Cache
    /\ Goto(c, "closed")
    /\ loc' = [loc EXCEPT ![c] = NoLoc]
    /\ EndFlush(c)
    /\ UNCHANGED <<poolVars, made, BufferMap, LockMap, op, diskVars, ver, latest>>

-----------------------------------------------------------------------------
\* Somebody removes the file on the server.
Unlink(f) ==
    /\ ~gone[f]
    /\ gone' = [gone EXCEPT ![f] = TRUE]
    /\ UNCHANGED <<poolVars, tableVars, localVars, disk, ghostVars>>

\* The steps a process that has begun something takes without further input.
ClientStep(c) ==
    \/ WriteDirect(c) \/ WriteMerge(c) \/ WriteNoMerge(c)
    \/ \E b \in Buffers : WriteAlloc(c, b)
    \/ Send(c) \/ WriteDirectDone(c) \/ WriteFullDone(c)
    \/ WriteFlushFail(c) \/ WriteFlushDirect(c) \/ WriteFlushReuse(c)
    \/ FlushToFsync(c) \/ FsyncReply(c) \/ FsyncReturn(c) \/ CloseFail(c) \/ CloseDone(c)
FlushStep(p)  == FlushLock(p) \/ FlushNothing(p) \/ FlushDone(p)
ExpireStep(e) == LruExpire(e) \/ ExpireLookup(e)
SyncStep(s)   == SyncTake(s) \/ SyncDone(s) \/ SyncUnlock(s)
Rpc(p)        == RpcOk(p) \/ RpcEio(p) \/ RpcGone(p)

Next ==
    \/ \E c \in Clients :
          \/ \E f \in Files : Open(c, f)
          \/ \E x \in Blocks, off \in Cells, size \in 1 .. BlockSize : Write(c, x, off, size)
          \/ Flush(c) \/ Close(c)
          \/ ClientStep(c)
    \/ \E w \in Workers : TakeIndex(w)
    \/ \E p \in Workers \cup Expirers : FlushStep(p)
    \/ \E e \in Expirers : ExpireStep(e)
    \/ \E s \in Syncers : SyncStep(s)
    \/ \E p \in Procs : Rpc(p)
    \/ \E f \in Unlinks : Unlink(f)

Spec == Init /\ [][Next]_vars

\* Goroutines are scheduled and requests are answered; a request sent again and
\* again is not refused for ever.
Fairness ==
    /\ \A c \in Clients  : WF_vars(ClientStep(c))
    /\ \A w \in Workers  : WF_vars(TakeIndex(w) \/ FlushStep(w))
    /\ \A e \in Expirers : WF_vars(ExpireStep(e) \/ FlushStep(e))
    /\ \A s \in Syncers  : WF_vars(SyncStep(s))
    /\ \A p \in Procs    : WF_vars(Rpc(p)) /\ SF_vars(RpcOk(p))

FairSpec == Spec /\ Fairness

-----------------------------------------------------------------------------
(* Properties *)

\* Labels of a process that holds the lock of its block.
Holding == {"wdirect", "wdirectR", "wfull", "wfullR", "wflush", "wflushR", "wsend",
            "fflush", "fflushR", "sync", "syncR", "syncU"}
\* Labels at which it also works on the buffer attached there.
Working == Holding \ {"wdirect", "wdirectR", "syncU"}
\* The block it will unlock.
UnlockKey(p) == IF pc[p] = "syncU" THEN SyncKey(p) ELSE Key(p)

\* No Assert of the write path can fail: a queued buffer still has its file's
\* FileBuffer when SyncWrite takes it (wcache.go:568), every UnLockBuffer finds
\* the block write-locked (cache.go:298), and no buffer is reset while the LRU
\* list holds it (cache.go:65).  A step whose Assert would fail is not enabled.
NoPanic ==
    /\ \A b \in chSync : Cache[buf[b].fe] # 0
    /\ \A p \in Procs : pc[p] \in Holding => LockMap[UnlockKey(p)] = WriteLock
    /\ FreeList \cap LruList = {}
    /\ \A p \in Procs : pc[p] \in Working => loc[p].cur \notin LruList

\* Every buffer is in the free list or attached to exactly one block, never
\* both: none leaks and none serves two blocks (AllocBuffer, FreeBuffer,
\* AttachBuffer, DetachBuffer spread over eight code paths).
BufferConservation ==
    \A b \in Buffers :
        LET at == {k \in Keys : BufferMap[k] = b}
        IN  IF b \in FreeList THEN at = {} ELSE Cardinality(at) = 1

\* What a read under the block lock returns: the cached buffer over the server.
View(f, x) ==
    LET b == IF Cache[f] = 0 THEN NoBuf ELSE BufferMap[<<Cache[f], x>>]
    IN  IF b = NoBuf THEN disk[f][x] ELSE Overlay(disk[f][x], buf[b])

\* A read never sees less than every write the cache has accepted, whatever
\* flushes, expirations, failed or half-failed requests happened in between.
Coherent ==
    \A f \in Files, x \in Blocks, i \in Cells : ~gone[f] => View(f, x)[i] >= latest[f][x][i]

\* When WCache.Flush returns nil, all that was accepted before it began is on
\* the server.
FlushDurable ==
    \A c \in Clients : FlushReturned(c) /\ ~fl[c].failed /\ ~gone[loc[c].fe] =>
        \A x \in Blocks, i \in Cells : disk[loc[c].fe][x][i] >= snap[c][x][i]

\* No attached buffer is forgotten: it is in the LRU list, or its block is
\* locked by someone who will deal with it, or a CheckExpire goroutine that
\* took it off the list is on its way to it.
NoForgottenBuffer ==
    \A k \in Keys : BufferMap[k] # NoBuf =>
        \/ BufferMap[k] \in LruList
        \/ LockMap[k] = WriteLock
        \/ \E e \in Expirers : /\ pc[e] \in {"elookup", "flock"}
                               /\ loc[e].blk = k[2]
                               /\ IF pc[e] = "elookup" THEN Cache[loc[e].fe] = k[1]
                                                       ELSE loc[e].fb = k[1]

\* No request takes a cell of a file back to an older version.
DiskMonotonic ==
    [][\A f \in Files, x \in Blocks, i \in Cells : disk'[f][x][i] >= disk[f][x][i]]_vars

\* mount.Flush, the fsync of an application, returns nil only when every buffer
\* it had to flush was flushed.
FsyncDurable ==
    \A c \in Clients : pc[c] = "synced" /\ ~gone[loc[c].fe] =>
        \A x \in Blocks, i \in Cells : disk[loc[c].fe][x][i] >= snap[c][x][i]

\* The server misses something the cache accepted.
Dirty(f) == \E x \in Blocks, i \in Cells : disk[f][x][i] < latest[f][x][i]

\* Once writing pauses (MaxVer bounds it) every accepted write reaches the
\* server without any Flush: CheckExpire and SyncWrite see to it.
EventuallyDurable == \A f \in Files : Dirty(f) ~> (~Dirty(f) \/ gone[f])

\* Every Write, Flush and Close returns: nobody waits for ever on a block lock,
\* on a full chSync or on the results of a Flush.  Not so after SyncWrite has
\* unlocked another block than its own (AllocBeforeUnlock).
CallsReturn ==
    \A c \in Clients : pc[c] \notin {"idle", "closed"} ~> pc[c] \in {"idle", "closed"}
=============================================================================
