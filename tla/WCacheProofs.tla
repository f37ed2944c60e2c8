---------------------------- MODULE WCacheProofs ----------------------------
(***************************************************************************)
(* The types, the locks and the buffers of the write-back cache, for any   *)
(* number of files, blocks, cells, handles, goroutines and buffers.        *)
(*                                                                         *)
(* TypeOK is not inductive: a process follows the FileBuffer, the buffer   *)
(* or the file in its locals, so what its place in the code says of them   *)
(* (BufferInv) and what the goroutines of a Flush share (FlushInv) belongs *)
(* to the invariant.  In the second part (SafeInv) no Open overlaps the    *)
(* last Close of its file, and SyncWrite unlocks the block it has written  *)
(* (OwnUnlock): then no Assert fails and no buffer is lost or serves two   *)
(* blocks.                                                                 *)
(***************************************************************************)
EXTENDS WCache, FiniteSetTheorems, TLAPS

-----------------------------------------------------------------------------
(* The inductive invariant: types, and what they rest on.                  *)

\* A process that is about to lock a block or holds it knows the FileBuffer.
Located == {"wlock", "flock"} \cup Holding

\* The buffers that have been given to a file.
Named == {b \in Buffers : buf[b].fe \in Files}

\* What a process relies on at its place in the code.
LocalOK(p) ==
    /\ pc[p] \in Located => loc[p].fb # 0
    /\ pc[p] \in Working => loc[p].cur \in Named
    /\ pc[p] = "elookup" => loc[p].fe \in Files
    /\ pc[p] = "wdirect" => p \in Clients
    /\ p \in Clients /\ pc[p] # "closed" => loc[p].fe \in Files

\* Every process has it, and every buffer in use belongs to a file.
BufferInv ==
    /\ \A p \in Procs : LocalOK(p)
    /\ LruList \cup chSync \subseteq Named
    /\ \A k \in Keys : BufferMap[k] \in Named \cup {NoBuf}

\* The goroutines of a Flush share out its indexes.
Flushers == {"flock", "fflush", "fflushR"}

FlushInv ==
    /\ \A c \in Clients :
          /\ fl[c].mq \subseteq fl[c].pend
          /\ fl[c].pend # {} => pc[c] = "flushing" /\ loc[c].fb # 0
    /\ \A w \in Workers : pc[w] \in Flushers =>
          /\ loc[w].blk \in fl[w[1]].pend \ fl[w[1]].mq
          /\ loc[w].fb = loc[w[1]].fb
    /\ \A v, w \in Workers :
          pc[v] \in Flushers /\ pc[w] \in Flushers /\ v[1] = w[1] /\ v # w
          => loc[v].blk # loc[w].blk

TypeInv == TypeOK /\ BufferInv /\ FlushInv

-----------------------------------------------------------------------------
(* Buffers as values *)

\* Merging within the block keeps a buffer a buffer of the same block.
LEMMA MergeDataType ==
    ASSUME NEW b \in BufferType, NEW size \in Nat, NEW v \in Nat,
           b.Offset + b.Len + size <= BlockSize
    PROVE  /\ MergeData(b, size, v) \in BufferType
           /\ MergeData(b, size, v).fe = b.fe
           /\ MergeData(b, size, v).BlkIdx = b.BlkIdx
<1> DEFINE tail == b.Offset + b.Len
           d == [i \in Cells |-> IF tail <= i /\ i < tail + size THEN v ELSE b.data[i]]
           m == MergeData(b, size, v)
<1>1. m = [b EXCEPT !.Len = @ + size, !.data = d]
  BY DEF MergeData
<1>2. d \in Content
  BY DEF BufferType, Content
<1> HIDE DEF d, m
<1>3. b.Len + size \in 0 .. BlockSize
  BY BufferAssumption DEF BufferType
<1>4. /\ m \in [fe : Files \cup {NoFile}, BlkIdx : Blocks,
                  Offset : 0 .. BlockSize, Len : 0 .. BlockSize, data : Content]
      /\ m.fe = b.fe /\ m.BlkIdx = b.BlkIdx
      /\ m.Offset = b.Offset /\ m.Len = b.Len + size
  BY <1>1, <1>2, <1>3 DEF BufferType
<1>5. m.Offset + m.Len <= BlockSize
  BY <1>4 DEF BufferType
<1> QED BY <1>4, <1>5 DEF BufferType, m

\* Resetting a buffer and merging an op into it gives a buffer of the block.
LEMMA OpBufferType ==
    ASSUME NEW f \in Files \cup {NoFile}, NEW x \in Blocks, NEW o \in OpType
    PROVE  /\ OpBuffer(f, x, o) \in BufferType
           /\ OpBuffer(f, x, o).fe = f
           /\ OpBuffer(f, x, o).BlkIdx = x
<1>1. ReSet(f, x) \in BufferType /\ ReSet(f, x).fe = f /\ ReSet(f, x).BlkIdx = x
      /\ ReSet(f, x).Offset = 0 /\ ReSet(f, x).Len = 0
  BY BufferAssumption DEF ReSet, BufferType, Content, Cells, Blank
<1>2. o.RwOffset \in 0 .. BlockSize /\ o.RwSize \in Nat /\ o.ver \in Nat
      /\ o.RwOffset + o.RwSize <= BlockSize
  BY BufferAssumption DEF OpType, Cells
<1> DEFINE s == Skip(ReSet(f, x), o.RwOffset)
<1>3. s \in BufferType /\ s.fe = f /\ s.BlkIdx = x /\ s.Offset = o.RwOffset /\ s.Len = 0
  BY <1>1, <1>2, BufferAssumption DEF Skip, BufferType
<1>4. OpBuffer(f, x, o) = MergeData(s, o.RwSize, o.ver)
  BY DEF OpBuffer
<1>5. s.Offset + s.Len + o.RwSize <= BlockSize
  BY <1>2, <1>3
<1> QED
  <2> HIDE DEF s
  <2> QED BY <1>2, <1>3, <1>4, <1>5, MergeDataType

\* Writing a buffer over a block gives a block.
LEMMA OverlayType ==
    ASSUME NEW content \in Content, NEW b \in BufferType
    PROVE  Overlay(content, b) \in Content
BY DEF Overlay, BufferType, Content, Cells

\* The op of a client with its version drawn.
LEMMA VersionedType ==
    ASSUME TypeOK, NEW c \in Clients
    PROVE  /\ Versioned(c) \in OpType
           /\ Versioned(c).RwOffset = op[c].RwOffset
           /\ Versioned(c).RwSize = op[c].RwSize
BY DEF TypeOK, Versioned, OpType

-----------------------------------------------------------------------------
(* Types *)

\* The initial state.
LEMMA InitTypeInv == Init => TypeInv
<1> SUFFICES ASSUME Init PROVE TypeInv
  OBVIOUS
<1>1. NewBuffer \in BufferType /\ Blank \in Content /\ NoOp \in OpType
  BY BufferAssumption DEF NewBuffer, BufferType, Blank, Content, Cells, NoOp, OpType
<1>2. NoLoc \in LocType /\ NoFl \in FlType
  BY BufferAssumption, WCacheAssumption DEF NoLoc, LocType, NoFl, FlType
<1>3. TypeOK
  BY <1>1, <1>2, WCacheAssumption DEF Init, TypeOK, FileContent, Labels, Free
<1>4. BufferInv
  BY WCacheAssumption DEF Init, BufferInv, LocalOK, Named, Located, Holding, Working, Procs, NoLoc
<1>5. FlushInv
  BY DEF Init, FlushInv, Flushers, NoFl, Workers, Procs
<1> QED BY <1>3, <1>4, <1>5 DEF TypeInv

\* What Return leaves in a client's locals.
LEMMA ReturnType ==
    ASSUME TypeOK, NEW c \in Clients, Return(c)
    PROVE  /\ pc' \in [Procs -> Labels] /\ loc' \in [Procs -> LocType]
           /\ op' \in [Clients -> OpType]
BY BufferAssumption, WCacheAssumption
   DEF TypeOK, Return, Goto, Labels, NoLoc, LocType, NoOp, OpType, Cells, Procs

\* What Accept leaves in latest.
LEMMA AcceptType ==
    ASSUME TypeOK, NEW c \in Clients, NEW o \in OpType, Accept(c, o)
    PROVE  latest' \in [Files -> FileContent]
<1> DEFINE f == loc[c].fe  x == loc[c].blk
<1>1. f \in Files \cup {NoFile} /\ x \in Blocks
  BY DEF TypeOK, LocType, Procs
<1>2. CASE f \notin Files
  BY <1>2 DEF TypeOK, Accept
<1>3. CASE f \in Files
  <2>1. Overlay(latest[f][x], OpBuffer(f, x, o)) \in Content
    BY <1>1, <1>3, OpBufferType, OverlayType DEF TypeOK, FileContent
  <2> QED BY <1>1, <1>3, <2>1 DEF TypeOK, FileContent, Accept
<1> QED BY <1>2, <1>3

\* New locals of one process.
LEMMA LocUpdate ==
    ASSUME TypeOK, NEW p \in Procs, NEW l \in LocType, loc' = [loc EXCEPT ![p] = l]
    PROVE  loc' \in [Procs -> LocType]
BY DEF TypeOK

\* What the lock operations leave in LockMap.
LEMMA LockType ==
    ASSUME TypeOK, NEW k, LockBuffer(k) \/ UnLockBuffer(k)
    PROVE  LockMap' \in [Keys -> Nat \cup {WriteLock}]
BY DEF TypeOK, LockBuffer, UnLockBuffer, Free, WriteLock

\* The result of an index takes it off the pending ones and keeps an error.
LEMMA ResultType ==
    ASSUME NEW q \in FlType, NEW x, NEW failed \in BOOLEAN
    PROVE  /\ Result(q, x, failed) \in FlType
           /\ Result(q, x, failed).kind = q.kind /\ Result(q, x, failed).mq = q.mq
           /\ Result(q, x, failed).pend = q.pend \ {x}
           /\ Result(q, x, failed).failed <=> q.failed \/ failed
<1> DEFINE a == q.pend \ {x}
           e == q.failed \/ failed
<1>1. Result(q, x, failed) = [q EXCEPT !.pend = a, !.failed = e]
  BY Zenon DEF Result
<1>2. a \in SUBSET Blocks
  BY DEF FlType
<1>3. e \in BOOLEAN
  BY Zenon
<1> HIDE DEF a, e
<1>4. /\ Result(q, x, failed) \in FlType
      /\ Result(q, x, failed).kind = q.kind /\ Result(q, x, failed).mq = q.mq
      /\ Result(q, x, failed).pend = a
      /\ Result(q, x, failed).failed = e
  BY <1>1, <1>2, <1>3 DEF FlType
<1> QED BY <1>4 DEF a, e

\* What Report leaves in the locals of a goroutine and in the Flush.
LEMMA ReportType ==
    ASSUME TypeOK, NEW p \in Procs, NEW failed \in BOOLEAN, Report(p, failed)
    PROVE  /\ pc' \in [Procs -> Labels] /\ loc' \in [Procs -> LocType]
           /\ fl' \in [Clients -> FlType]
<1>1. pc' \in [Procs -> Labels] /\ loc' \in [Procs -> LocType]
  BY BufferAssumption, WCacheAssumption DEF TypeOK, Report, Goto, Labels, NoLoc, LocType
<1>2. p \in Workers => p[1] \in Clients
  BY DEF Workers
<1>3. fl' \in [Clients -> FlType]
  BY <1>2, ResultType DEF TypeOK, Report
<1> QED BY <1>1, <1>3

\* A client's steps of a Write keep the types.
LEMMA WriteType ==
    ASSUME TypeInv, NEW c \in Clients
    PROVE  (\/ \E x \in Blocks, off \in Cells, size \in 1 .. BlockSize : Write(c, x, off, size)
            \/ \E b \in Buffers : WriteAlloc(c, b)
            \/ WriteDirect(c) \/ WriteMerge(c) \/ WriteNoMerge(c)
            \/ Send(c) \/ WriteDirectDone(c) \/ WriteFullDone(c)
            \/ WriteFlushFail(c) \/ WriteFlushDirect(c) \/ WriteFlushReuse(c)) => TypeOK'
<1> USE DEF TypeInv
<1>0. /\ Versioned(c) \in OpType
      /\ Versioned(c).RwOffset = op[c].RwOffset
      /\ Versioned(c).RwSize = op[c].RwSize
  BY VersionedType
<1>1. /\ c \in Procs
      /\ loc[c].fe \in Files \cup {NoFile} /\ loc[c].blk \in Blocks
      /\ op[c] \in OpType
  BY DEF TypeOK, LocType, Procs
<1>k. pc[c] \in Located => Key(c) \in Keys
  BY <1>1 DEF BufferInv, LocalOK, Named, Key, Keys, FileBufs, TypeOK, LocType
<1>w. pc[c] \in Working => loc[c].cur \in Buffers
  BY <1>1 DEF BufferInv, LocalOK, Named
<1>2. ASSUME NEW x \in Blocks, NEW off \in Cells, NEW size \in 1 .. BlockSize,
             Write(c, x, off, size)
      PROVE  TypeOK'
  <2>1. op' \in [Clients -> OpType]
    BY <1>2 DEF Write, TypeOK, OpType, Cells
  <2>2. loc' \in [Procs -> LocType]
    <3>1. (IF Cache[loc[c].fe] = 0 THEN made + 1 ELSE Cache[loc[c].fe]) \in 0 .. MaxFileBufs
      BY <1>1, <1>2 DEF Write, TypeOK, BufferInv, LocalOK, Named
    <3> DEFINE new == IF Cache[loc[c].fe] = 0 THEN made + 1 ELSE Cache[loc[c].fe]
               l   == [loc[c] EXCEPT !.fb = new, !.blk = x]
    <3>2. loc' = [loc EXCEPT ![c] = l]
      BY <1>1, <1>2 DEF Write, TypeOK
    <3> HIDE DEF new
    <3>3. l \in LocType
      BY <1>1, <1>2, <3>1 DEF TypeOK, LocType, new
    <3> QED BY <3>2, <3>3 DEF TypeOK
  <2>3. pc' \in [Procs -> Labels]
    BY <1>1, <1>2 DEF Write, TypeOK, Goto, Labels
  <2>4. Cache' \in [Files -> 0 .. MaxFileBufs] /\ made' \in 0 .. MaxFileBufs
    BY <1>1, <1>2, WCacheAssumption DEF Write, TypeOK, BufferInv, LocalOK, Named
  <2> QED BY <1>2, <2>1, <2>2, <2>3, <2>4 DEF Write, TypeOK, poolVars, diskVars, ghostVars
<1>3. ASSUME NEW b \in Buffers, WriteAlloc(c, b)
      PROVE  TypeOK'
  <2>3. buf' \in [Buffers -> BufferType]
    BY <1>0, <1>1, <1>3, OpBufferType DEF TypeOK, WriteAlloc
  <2>4. latest' \in [Files -> FileContent]
    BY <1>0, <1>3, AcceptType DEF WriteAlloc
  <2>5. /\ pc' \in [Procs -> Labels] /\ loc' \in [Procs -> LocType]
        /\ op' \in [Clients -> OpType]
    <3>1. CASE Return(c)
      BY <3>1, ReturnType
    <3>2. CASE Goto(c, "wsend") /\ loc' = [loc EXCEPT ![c].cur = b] /\ op' = op
      BY <1>1, <3>2 DEF TypeOK, Goto, Labels, LocType
    <3> QED BY <1>3, <3>1, <3>2 DEF WriteAlloc
  <2>6. LockMap' \in [Keys -> Nat \cup {WriteLock}]
    BY <1>3, LockType DEF WriteAlloc, TypeOK
  <2>7. FreeList' \subseteq Buffers /\ LruList' \subseteq Buffers
    BY <1>3 DEF WriteAlloc, AllocBuffer, DoLru, TypeOK
  <2>8. /\ UNCHANGED <<chSync, Cache, made, fl, disk, gone, snap>>
        /\ ver' = ver + 1
    BY <1>3 DEF WriteAlloc, AtWriteLock, AttachBuffer, diskVars
  <2>9. BufferMap' \in [Keys -> Buffers \cup {NoBuf}]
    BY <1>3 DEF WriteAlloc, AttachBuffer, TypeOK
  <2> QED
    BY <2>3, <2>4, <2>5, <2>6, <2>7, <2>8, <2>9 DEF TypeOK
<1>4. ASSUME WriteDirect(c) PROVE TypeOK'
  <2>1. op' \in [Clients -> OpType]
    BY <1>0, <1>4 DEF WriteDirect, TypeOK
  <2>2. pc' \in [Procs -> Labels]
    BY <1>1, <1>4 DEF WriteDirect, TypeOK, Goto, Labels
  <2> QED
    BY <1>4, <2>1, <2>2, LockType DEF WriteDirect, TypeOK, AtWriteLock, poolVars, diskVars
<1>5. ASSUME WriteMerge(c) PROVE TypeOK'
  <2> DEFINE b == BufferMap[Key(c)]
             m == MergeData(buf[b], op[c].RwSize, ver + 1)
  <2>1. b \in Buffers /\ Key(c) \in Keys
    BY <1>5, <1>k DEF WriteMerge, AtWriteLock, Located, TypeOK
  <2>2. m \in BufferType
    <3>1. /\ buf[b] \in BufferType /\ op[c].RwSize \in Nat /\ ver + 1 \in Nat
      BY <2>1, <1>1 DEF TypeOK, OpType
    <3>2. buf[b].Offset + buf[b].Len + op[c].RwSize <= BlockSize
      BY <1>1, <1>5, <2>1 DEF WriteMerge, CanMerge, OpType
    <3> QED BY <3>1, <3>2, MergeDataType
  <2>3. buf' \in [Buffers -> BufferType]
    BY <1>5, <2>2 DEF WriteMerge, TypeOK
  <2>4. latest' \in [Files -> FileContent]
    BY <1>0, <1>5, AcceptType DEF WriteMerge
  <2>5. /\ pc' \in [Procs -> Labels] /\ loc' \in [Procs -> LocType]
        /\ op' \in [Clients -> OpType]
    <3>1. CASE Return(c)
      BY <3>1, ReturnType
    <3>2. CASE Goto(c, IF SyncIo THEN "wfull" ELSE "wsend")
               /\ loc' = [loc EXCEPT ![c].cur = b] /\ op' = op
      <4>1. pc' \in [Procs -> Labels]
        BY <3>2 DEF TypeOK, Goto, Labels
      <4>2. loc[c] \in LocType /\ loc' = [loc EXCEPT ![c] = [loc[c] EXCEPT !.cur = b]]
        BY <1>1, <3>2 DEF TypeOK
      <4>3. [loc[c] EXCEPT !.cur = b] \in LocType
        BY <2>1, <4>2 DEF LocType
      <4>4. loc' \in [Procs -> LocType]
        BY <1>1, <4>2, <4>3, LocUpdate
      <4> QED BY <3>2, <4>1, <4>4 DEF TypeOK
    <3> QED BY <1>5, <3>1, <3>2 DEF WriteMerge
  <2> QED
    <3> HIDE DEF m
    <3> QED
      BY <1>5, <2>1, <2>3, <2>4, <2>5 DEF TypeOK, WriteMerge, AtWriteLock,
         LockBuffer, DoLru, RemoveLru, WriteLock, Free, diskVars
<1>6. ASSUME WriteNoMerge(c) PROVE TypeOK'
  <2>1. BufferMap[Key(c)] \in Buffers
    BY <1>6, <1>k DEF WriteNoMerge, AtWriteLock, Located, TypeOK
  <2> QED
    <3>1. op' \in [Clients -> OpType]
      BY <1>0, <1>6 DEF WriteNoMerge, TypeOK
    <3>2. pc' \in [Procs -> Labels] /\ loc' \in [Procs -> LocType]
      BY <1>1, <1>6, <2>1 DEF WriteNoMerge, TypeOK, Goto, Labels, LocType
    <3> QED
      BY <1>6, <3>1, <3>2, LockType DEF WriteNoMerge, TypeOK, AtWriteLock, RemoveLru, diskVars
<1>7. ASSUME Send(c) PROVE TypeOK'
  <2>1. chSync' \subseteq Buffers
    BY <1>7, <1>w DEF Send, TypeOK, Working, Holding
  <2>2. Return(c)
    BY <1>7 DEF Send
  <2> QED
    BY <1>7, <2>1, <2>2, ReturnType DEF Send, TypeOK, tableVars, diskVars, ghostVars
<1>8. ASSUME WriteDirectDone(c) PROVE TypeOK'
  <2>1. latest' \in [Files -> FileContent]
    BY <1>1, <1>8, AcceptType DEF WriteDirectDone, TypeOK
  <2>2. Return(c)
    BY <1>8 DEF WriteDirectDone
  <2> QED
    BY <1>8, <2>1, <2>2, ReturnType DEF WriteDirectDone, TypeOK, UnLockBuffer, Free, WriteLock, poolVars, diskVars
<1>9. ASSUME WriteFullDone(c) PROVE TypeOK'
  <2>1. loc[c].cur \in Buffers
    BY <1>9, <1>w DEF WriteFullDone, Working, Holding
  <2>2. Return(c)
    BY <1>9 DEF WriteFullDone
  <2> QED
    BY <1>9, <2>1, <2>2, ReturnType DEF WriteFullDone, TypeOK, UnLockBuffer, Free, WriteLock,
       DetachBuffer, FreeBuffer, DoLru, diskVars, ghostVars
<1>10. ASSUME WriteFlushFail(c) PROVE TypeOK'
  <2>1. loc[c].cur \in Buffers
    BY <1>10, <1>w DEF WriteFlushFail, Working, Holding
  <2>2. Return(c)
    BY <1>10 DEF WriteFlushFail
  <2> QED
    BY <1>10, <2>1, <2>2, ReturnType DEF WriteFlushFail, TypeOK, UnLockBuffer, Free, WriteLock,
       DoLru, diskVars, ghostVars
<1>11. ASSUME WriteFlushDirect(c) PROVE TypeOK'
  <2>1. loc[c].cur \in Buffers
    BY <1>11, <1>w DEF WriteFlushDirect, Working, Holding
  <2>2. loc' \in [Procs -> LocType]
    <3> DEFINE l == [loc[c] EXCEPT !.cur = NoBuf, !.res = "none"]
    <3>1. loc[c] \in LocType
      BY <1>1 DEF TypeOK
    <3>2. l \in LocType
      BY <3>1 DEF LocType
    <3>3. loc' = [loc EXCEPT ![c] = l]
      BY <1>11 DEF WriteFlushDirect
    <3> HIDE DEF l
    <3> QED BY <1>1, <3>2, <3>3, LocUpdate
  <2>3. pc' \in [Procs -> Labels]
    BY <1>1, <1>11 DEF WriteFlushDirect, TypeOK, Goto, Labels
  <2>4. BufferMap' \in [Keys -> Buffers \cup {NoBuf}] /\ FreeList' \subseteq Buffers
    BY <1>11, <2>1 DEF WriteFlushDirect, TypeOK, DetachBuffer, FreeBuffer
  <2> QED
    BY <1>11, <2>2, <2>3, <2>4 DEF WriteFlushDirect, TypeOK, diskVars, ghostVars
<1>12. ASSUME WriteFlushReuse(c) PROVE TypeOK'
  <2>1. loc[c].cur \in Buffers
    BY <1>12, <1>w DEF WriteFlushReuse, Working, Holding
  <2>2. Return(c) /\ Accept(c, op[c])
    BY <1>12 DEF WriteFlushReuse
  <2>3. buf' \in [Buffers -> BufferType]
    BY <1>1, <1>12, OpBufferType DEF TypeOK, WriteFlushReuse
  <2>4. latest' \in [Files -> FileContent]
    BY <1>1, <2>2, AcceptType
  <2> QED
    BY <1>12, <2>1, <2>2, <2>3, <2>4, ReturnType DEF WriteFlushReuse, TypeOK, UnLockBuffer, Free, WriteLock,
       DoLru, diskVars
<1> QED BY <1>2, <1>3, <1>4, <1>5, <1>6, <1>7, <1>8, <1>9, <1>10, <1>11, <1>12

\* The steps of the goroutines and of the server keep the types.
LEMMA GoroutineType ==
    ASSUME TypeInv, NEW p \in Procs
    PROVE  (TakeIndex(p) /\ p \in Workers) \/ FlushStep(p) \/ ExpireStep(p) \/ SyncStep(p) \/ Rpc(p) => TypeOK'
<1> USE DEF TypeInv
<1>k. pc[p] \in Located => Key(p) \in Keys
  BY DEF BufferInv, LocalOK, Named, Key, Keys, FileBufs, TypeOK, LocType
<1>w. pc[p] \in Working => loc[p].cur \in Buffers
  BY DEF BufferInv, LocalOK, Named
<1>1. ASSUME p \in Workers, TakeIndex(p) PROVE TypeOK'
  <2>1. PICK x \in fl[p[1]].mq : /\ fl' = [fl EXCEPT ![p[1]].mq = @ \ {x}]
                                 /\ loc' = [loc EXCEPT ![p] = [@ EXCEPT !.fb = loc[p[1]].fb, !.blk = x]]
    BY <1>1 DEF TakeIndex
  <2>2. p[1] \in Clients /\ p[1] \in Procs
    BY <1>1 DEF Workers, Procs
  <2>3. x \in Blocks /\ loc[p[1]].fb \in 0 .. MaxFileBufs
    BY <2>2 DEF TypeOK, FlType, LocType
  <2>4. fl' \in [Clients -> FlType]
    <3> DEFINE q == [fl[p[1]] EXCEPT !.mq = @ \ {x}]
    <3>1. fl[p[1]].mq \ {x} \in SUBSET Blocks /\ fl[p[1]] \in FlType
      BY <2>2 DEF TypeOK, FlType
    <3>2. q \in FlType
      BY <3>1 DEF FlType
    <3>3. fl' = [fl EXCEPT ![p[1]] = q]
      BY <2>1
    <3> QED BY <3>2, <3>3 DEF TypeOK
  <2>5. loc' \in [Procs -> LocType]
    <3> DEFINE l == [loc[p] EXCEPT !.fb = loc[p[1]].fb, !.blk = x]
    <3>1. loc[p] \in LocType
      BY DEF TypeOK
    <3>2. l \in LocType
      BY <2>3, <3>1 DEF LocType
    <3>3. loc' = [loc EXCEPT ![p] = l]
      BY <2>1
    <3> HIDE DEF l
    <3> QED BY <3>2, <3>3, LocUpdate
  <2>6. pc' \in [Procs -> Labels]
    BY <1>1 DEF TakeIndex, TypeOK, Goto, Labels
  <2> QED BY <1>1, <2>4, <2>5, <2>6 DEF TakeIndex, TypeOK, poolVars, tableVars, diskVars, ghostVars
<1>2. ASSUME FlushLock(p) PROVE TypeOK'
  <2>1. BufferMap[Key(p)] \in Buffers
    BY <1>2, <1>k DEF FlushLock, Located, TypeOK
  <2>2. pc' \in [Procs -> Labels] /\ loc' \in [Procs -> LocType]
    BY <1>2, <2>1 DEF FlushLock, TypeOK, Goto, Labels, LocType
  <2> QED BY <1>2, <2>2, LockType DEF FlushLock, TypeOK, RemoveLru, diskVars, ghostVars
<1>3. ASSUME FlushNothing(p) PROVE TypeOK'
  BY <1>3, ReportType DEF FlushNothing, TypeOK, poolVars, tableVars, diskVars, ghostVars
<1>4. ASSUME FlushDone(p) PROVE TypeOK'
  <2>1. loc[p].cur \in Buffers
    BY <1>4, <1>w DEF FlushDone, Working, Holding
  <2>2. Report(p, loc[p].res # "ok") /\ UnLockBuffer(Key(p)) /\ (loc[p].res # "ok") \in BOOLEAN
    BY <1>4 DEF FlushDone
  <2>3. /\ pc' \in [Procs -> Labels] /\ loc' \in [Procs -> LocType]
        /\ fl' \in [Clients -> FlType]
    BY <2>2, ReportType
  <2>4. LockMap' \in [Keys -> Nat \cup {WriteLock}]
    BY <2>2, LockType
  <2>5. BufferMap' \in [Keys -> Buffers \cup {NoBuf}]
        /\ FreeList' \subseteq Buffers /\ LruList' \subseteq Buffers
    BY <1>4, <2>1 DEF FlushDone, DetachBuffer, FreeBuffer, DoLru, TypeOK
  <2> QED BY <1>4, <2>3, <2>4, <2>5 DEF FlushDone, TypeOK, diskVars, ghostVars
<1>5. ASSUME LruExpire(p) PROVE TypeOK'
  <2>0. PICK b \in LruList : /\ RemoveLru(b)
                             /\ loc' = [loc EXCEPT ![p] = [@ EXCEPT !.fe = buf[b].fe, !.blk = buf[b].BlkIdx]]
    BY <1>5 DEF LruExpire
  <2>1. loc' \in [Procs -> LocType] /\ LruList' \subseteq Buffers
    <3> DEFINE l == [loc[p] EXCEPT !.fe = buf[b].fe, !.blk = buf[b].BlkIdx]
    <3>1. buf[b].fe \in Files \cup {NoFile} /\ buf[b].BlkIdx \in Blocks
      BY DEF TypeOK, BufferType
    <3>2. l \in LocType
      BY <3>1 DEF TypeOK, LocType
    <3> QED BY <2>0, <3>2, LocUpdate DEF RemoveLru, TypeOK
  <2>2. pc' \in [Procs -> Labels]
    BY <1>5 DEF LruExpire, Goto, TypeOK, Labels
  <2> QED BY <1>5, <2>1, <2>2 DEF LruExpire, TypeOK, tableVars, diskVars, ghostVars
<1>6. ASSUME ExpireLookup(p) PROVE TypeOK'
  <2>1. Cache[loc[p].fe] \in 0 .. MaxFileBufs
    BY <1>6 DEF ExpireLookup, BufferInv, LocalOK, Named, TypeOK
  <2>2. pc' \in [Procs -> Labels]
    BY <1>6 DEF ExpireLookup, Goto, TypeOK, Labels
  <2>3. loc' \in [Procs -> LocType]
    <3>1. NoLoc \in LocType
      BY BufferAssumption, WCacheAssumption DEF LocType, NoLoc
    <3>2. CASE loc' = [loc EXCEPT ![p] = NoLoc]
      BY <3>1, <3>2, LocUpdate
    <3>3. CASE loc' = [loc EXCEPT ![p].fb = Cache[loc[p].fe]]
      BY <2>1, <3>3 DEF TypeOK, LocType
    <3> QED BY <1>6, <3>2, <3>3 DEF ExpireLookup
  <2> QED BY <1>6, <2>2, <2>3 DEF ExpireLookup, TypeOK, poolVars, tableVars, diskVars, ghostVars
<1>7. ASSUME SyncTake(p) PROVE TypeOK'
  <2>1. PICK b \in chSync :
           /\ chSync' = chSync \ {b}
           /\ loc' = [loc EXCEPT ![p] = [@ EXCEPT !.fb = Cache[buf[b].fe],
                                                  !.blk = buf[b].BlkIdx, !.cur = b]]
    BY <1>7 DEF SyncTake
  <2>2. b \in Buffers /\ Cache[buf[b].fe] \in 0 .. MaxFileBufs /\ buf[b].BlkIdx \in Blocks
    BY DEF TypeOK, BufferInv, LocalOK, Named, BufferType
  <2>3. loc' \in [Procs -> LocType]
    <3> DEFINE l == [loc[p] EXCEPT !.fb = Cache[buf[b].fe], !.blk = buf[b].BlkIdx, !.cur = b]
    <3>1. l \in LocType
      BY <2>2 DEF TypeOK, LocType
    <3> QED BY <2>1, <3>1, LocUpdate
  <2>4. pc' \in [Procs -> Labels]
    BY <1>7 DEF SyncTake, Goto, TypeOK, Labels
  <2>5. chSync' \subseteq Buffers
    BY <2>1 DEF TypeOK
  <2> QED BY <1>7, <2>3, <2>4, <2>5 DEF SyncTake, TypeOK, tableVars, diskVars, ghostVars
<1>8. ASSUME SyncDone(p) PROVE TypeOK'
  <2>1. loc[p].cur \in Buffers
    BY <1>8, <1>w DEF SyncDone, Working, Holding
  <2>2. pc' \in [Procs -> Labels]
    BY <1>8 DEF SyncDone, Goto, TypeOK, Labels
  <2>3. loc' \in [Procs -> LocType]
    BY <1>8, BufferAssumption, WCacheAssumption DEF SyncDone, TypeOK, NoLoc, LocType
  <2>4. LockMap' \in [Keys -> Nat \cup {WriteLock}]
    BY <1>8, LockType DEF SyncDone, TypeOK
  <2>5. BufferMap' \in [Keys -> Buffers \cup {NoBuf}]
        /\ FreeList' \subseteq Buffers /\ LruList' \subseteq Buffers
    BY <1>8, <2>1 DEF SyncDone, DetachBuffer, FreeBuffer, DoLru, TypeOK
  <2> QED BY <1>8, <2>2, <2>3, <2>4, <2>5 DEF SyncDone, TypeOK, diskVars, ghostVars
<1>10. ASSUME SyncUnlock(p) PROVE TypeOK'
  <2>1. pc' \in [Procs -> Labels] /\ loc' \in [Procs -> LocType]
    BY <1>10, BufferAssumption, WCacheAssumption DEF SyncUnlock, Goto, TypeOK, Labels, NoLoc, LocType
  <2>2. LockMap' \in [Keys -> Nat \cup {WriteLock}]
    BY <1>10, LockType DEF SyncUnlock
  <2> QED BY <1>10, <2>1, <2>2 DEF SyncUnlock, TypeOK, poolVars, diskVars, ghostVars
<1>9. ASSUME Rpc(p) PROVE TypeOK'
  <2>1. PICK r \in {"ok", "eio", "enoent"} : Reply(p, r) /\ (Apply(p) \/ disk' = disk)
    BY <1>9 DEF Rpc, RpcOk, RpcEio, RpcGone
  <2>2. pc' \in [Procs -> Labels] /\ loc' \in [Procs -> LocType]
    <3>1. \A l \in DOMAIN Replied : Replied[l] \in Labels
      BY DEF Replied, Labels
    <3>2. pc' \in [Procs -> Labels]
      BY <2>1, <3>1 DEF Reply, Goto, TypeOK
    <3>3. loc[p] \in LocType /\ loc' = [loc EXCEPT ![p] = [loc[p] EXCEPT !.res = r]]
      BY <2>1 DEF Reply, TypeOK
    <3>4. [loc[p] EXCEPT !.res = r] \in LocType
      BY <3>3 DEF LocType
    <3> QED BY <3>2, <3>3, <3>4, LocUpdate
  <2>3. ASSUME Apply(p) PROVE disk' \in [Files -> FileContent]
    <3>1. Request(p) \in BufferType
      <4>1. CASE pc[p] = "wdirect" /\ p \in Clients
        BY <4>1, OpBufferType DEF Request, TypeOK, LocType
      <4>2. CASE pc[p] # "wdirect"
        BY <2>1, <1>w, <4>2 DEF Reply, Replied, Request, Working, Holding, TypeOK
      <4> QED BY <4>1, <4>2 DEF BufferInv, LocalOK, Named
    <3>2. Request(p).fe \in Files \cup {NoFile} /\ Request(p).BlkIdx \in Blocks
      BY <3>1 DEF BufferType
    <3>3. CASE Request(p).fe \notin Files
      BY <2>3, <3>3 DEF Apply, TypeOK
    <3>4. CASE Request(p).fe \in Files
      <4>1. Overlay(disk[Request(p).fe][Request(p).BlkIdx], Request(p)) \in Content
        BY <3>1, <3>2, <3>4, OverlayType DEF TypeOK, FileContent
      <4> QED BY <2>3, <3>2, <3>4, <4>1 DEF Apply, TypeOK, FileContent
    <3> QED BY <3>3, <3>4
  <2> QED BY <2>1, <2>2, <2>3 DEF Reply, TypeOK, poolVars, tableVars, ghostVars
<1> QED BY <1>1, <1>2, <1>3, <1>4, <1>5, <1>6, <1>7, <1>8, <1>9, <1>10 DEF FlushStep, ExpireStep, SyncStep

\* A handle between two calls, or a slot without one.
Resting == {"closed", "idle"}

\* WCache.Flush begins on a file, for a Flush or Close of a handle or for CloseAll.
Starts(c, f, kind) ==
    LET idx == {x \in Blocks : Cache[f] # 0 /\ BufferMap[<<Cache[f], x>>] # NoBuf}
    IN  /\ pc[c] \in Resting
        /\ fl' = [fl EXCEPT ![c] = [kind |-> kind, mq |-> idx, pend |-> idx, failed |-> FALSE]]
        /\ loc' = [loc EXCEPT ![c] = [loc[c] EXCEPT !.fe = f, !.fb = Cache[f]]]
        /\ snap' = [snap EXCEPT ![c] = latest[f]]
        /\ Goto(c, "flushing")
        /\ UNCHANGED <<poolVars, tableVars, op, diskVars, ver, latest>>

LEMMA FlushStarts ==
    ASSUME TypeInv, NEW c \in Clients, NEW kind, StartFlush(c, kind)
    PROVE  loc[c].fe \in Files /\ Starts(c, loc[c].fe, kind)
<1>1. pc[c] = "idle" /\ c \in Procs /\ loc[c] \in LocType /\ loc \in [Procs -> LocType]
  BY DEF StartFlush, Procs, TypeInv, TypeOK
<1>2. PICK f \in Files : f = loc[c].fe
  BY <1>1 DEF TypeInv, BufferInv, LocalOK
<1>3. [loc[c] EXCEPT !.fb = Cache[f]] = [loc[c] EXCEPT !.fe = f, !.fb = Cache[f]]
  BY <1>1, <1>2 DEF LocType
<1>4. loc' = [loc EXCEPT ![c] = [loc[c] EXCEPT !.fe = f, !.fb = Cache[f]]]
  BY <1>2, <1>3 DEF StartFlush
<1>5. Starts(c, f, kind)
  BY <1>1, <1>2, <1>4 DEF StartFlush, Starts, Resting
<1> QED BY <1>2, <1>5

\* The process and the file it is about; nothing else changes.
LEMMA StartFacts ==
    ASSUME TypeOK, NEW c \in Clients, NEW f \in Files, NEW kind, Starts(c, f, kind)
    PROVE  /\ \A q \in Procs \ {c} : pc'[q] = pc[q] /\ loc'[q] = loc[q]
           /\ c \in Procs /\ pc[c] \in Resting /\ pc'[c] = "flushing"
           /\ loc'[c].fe = f /\ loc'[c].fb = Cache[f]
           /\ \A d \in Clients \ {c} : snap'[d] = snap[d]
           /\ snap'[c] = latest[f] /\ op' = op
           /\ UNCHANGED <<FreeList, LruList, chSync, buf, Cache, made, BufferMap, LockMap>>
           /\ UNCHANGED <<disk, gone, ver, latest>>
<1>1. /\ pc[c] \in Resting /\ pc' = [pc EXCEPT ![c] = "flushing"]
      /\ snap' = [snap EXCEPT ![c] = latest[f]] /\ op' = op
      /\ loc' = [loc EXCEPT ![c] = [loc[c] EXCEPT !.fe = f, !.fb = Cache[f]]]
  BY DEF Starts, Goto
<1>2. /\ UNCHANGED <<FreeList, LruList, chSync, buf, Cache, made, BufferMap, LockMap>>
      /\ UNCHANGED <<disk, gone, ver, latest>>
  BY DEF Starts, poolVars, tableVars, diskVars
<1>3. c \in Procs /\ loc[c] \in LocType
  BY DEF Procs, TypeOK
<1>4. snap'[c] = latest[f] /\ \A d \in Clients \ {c} : snap'[d] = snap[d]
  BY <1>1 DEF TypeOK
<1>5. /\ pc'[c] = "flushing" /\ loc'[c] = [loc[c] EXCEPT !.fe = f, !.fb = Cache[f]]
      /\ \A p \in Procs \ {c} : pc'[p] = pc[p] /\ loc'[p] = loc[p]
  BY <1>1, <1>3 DEF TypeOK
<1>6. loc'[c].fe = f /\ loc'[c].fb = Cache[f]
  BY <1>3, <1>5 DEF LocType
<1> QED BY <1>1, <1>2, <1>3, <1>4, <1>5, <1>6

\* What it finds: the blocks of the file that have a buffer.
LEMMA StartFinds ==
    ASSUME TypeOK, NEW c \in Clients, NEW f \in Files, NEW kind, Starts(c, f, kind)
    PROVE  /\ fl'[c].kind = kind /\ ~fl'[c].failed /\ fl'[c].mq = fl'[c].pend
           /\ fl'[c].pend = {x \in Blocks : Cache[f] # 0 /\ BufferMap[<<Cache[f], x>>] # NoBuf}
           /\ \A d \in Clients \ {c} : fl'[d] = fl[d]
<1> DEFINE idx == {x \in Blocks : Cache[f] # 0 /\ BufferMap[<<Cache[f], x>>] # NoBuf}
           q   == [kind |-> kind, mq |-> idx, pend |-> idx, failed |-> FALSE]
<1>1. fl' = [fl EXCEPT ![c] = q]
  BY DEF Starts
<1>2. q.kind = kind /\ q.mq = idx /\ q.pend = idx /\ ~q.failed
  OBVIOUS
<1> HIDE DEF q, idx
<1>3. fl'[c] = q /\ \A d \in Clients \ {c} : fl'[d] = fl[d]
  BY <1>1 DEF TypeOK
<1> QED BY <1>2, <1>3 DEF idx

LEMMA StartType ==
    ASSUME TypeOK, NEW c \in Clients, NEW f \in Files, NEW kind \in {"fsync", "close", "closelast"},
           Starts(c, f, kind)
    PROVE  TypeOK'
<1> DEFINE idx == {x \in Blocks : Cache[f] # 0 /\ BufferMap[<<Cache[f], x>>] # NoBuf}
           q   == [kind |-> kind, mq |-> idx, pend |-> idx, failed |-> FALSE]
           l   == [loc[c] EXCEPT !.fe = f, !.fb = Cache[f]]
<1>1. c \in Procs
  BY DEF Procs
<1>2. q \in FlType
  <2>1. idx \in SUBSET Blocks
    OBVIOUS
  <2> HIDE DEF idx
  <2> QED BY <2>1 DEF FlType
<1>3. fl' = [fl EXCEPT ![c] = q] /\ loc' = [loc EXCEPT ![c] = l]
  BY DEF Starts
<1>4. fl' \in [Clients -> FlType]
  <2> HIDE DEF q
  <2> QED BY <1>2, <1>3 DEF TypeOK
<1>5. l \in LocType
  BY <1>1 DEF TypeOK, LocType
<1>6. loc' \in [Procs -> LocType]
  <2> HIDE DEF l
  <2> QED BY <1>1, <1>3, <1>5, LocUpdate
<1>7. pc' \in [Procs -> Labels]
  BY <1>1 DEF Starts, TypeOK, Goto, Labels
<1>8. snap' \in [Clients -> FileContent]
  BY DEF Starts, TypeOK
<1> QED BY <1>4, <1>6, <1>7, <1>8 DEF Starts, TypeOK, poolVars, tableVars, diskVars

\* Opening, flushing and closing a handle keeps the types.
LEMMA HandleType ==
    ASSUME TypeInv, NEW c \in Clients
    PROVE  (\/ \E f \in Files : Open(c, f)
            \/ Flush(c) \/ Close(c) \/ FlushToFsync(c) \/ FsyncReply(c) \/ FsyncReturn(c)
            \/ CloseFail(c) \/ CloseDone(c)) => TypeOK'
<1> USE DEF TypeInv
<1>1. c \in Procs /\ NoFl \in FlType /\ [x \in Blocks |-> Blank] \in FileContent /\ NoLoc \in LocType
  BY BufferAssumption, WCacheAssumption DEF Procs, NoFl, FlType, FileContent, Content, Blank, NoLoc, LocType
<1>2. ASSUME NEW f \in Files, Open(c, f) PROVE TypeOK'
  <2>1. pc' \in [Procs -> Labels] /\ loc' \in [Procs -> LocType]
    BY <1>1, <1>2 DEF Open, TypeOK, Goto, Labels, LocType
  <2> QED BY <1>2, <2>1 DEF Open, TypeOK, poolVars, tableVars, diskVars, ghostVars
<1>3. ASSUME NEW kind \in {"fsync", "close", "closelast"}, StartFlush(c, kind) PROVE TypeOK'
  BY <1>3, FlushStarts, StartType
<1>4. ASSUME FlushToFsync(c) PROVE TypeOK'
  BY <1>1, <1>4 DEF FlushToFsync, TypeOK, Goto, Labels, poolVars, tableVars, diskVars, ghostVars
<1>5. ASSUME EndFlush(c) PROVE fl' \in [Clients -> FlType] /\ snap' \in [Clients -> FileContent]
  BY <1>1, <1>5 DEF EndFlush, TypeOK
<1>6. ASSUME FsyncReply(c) PROVE TypeOK'
  <2>1. CASE Return(c) /\ EndFlush(c)
    BY <1>5, <1>6, <2>1, ReturnType DEF FsyncReply, TypeOK, poolVars, tableVars, diskVars
  <2>2. CASE Goto(c, "synced") /\ UNCHANGED <<loc, op, fl, snap>>
    BY <1>1, <1>6, <2>2 DEF FsyncReply, TypeOK, Goto, Labels, poolVars, tableVars, diskVars
  <2> QED BY <1>6, <2>1, <2>2 DEF FsyncReply
<1>7. ASSUME FsyncReturn(c) PROVE TypeOK'
  BY <1>5, <1>7, ReturnType DEF FsyncReturn, TypeOK, poolVars, tableVars, diskVars
<1>8. ASSUME CloseFail(c) PROVE TypeOK'
  BY <1>5, <1>8, ReturnType DEF CloseFail, TypeOK, poolVars, tableVars, diskVars
<1>9. ASSUME CloseDone(c) PROVE TypeOK'
  <2>1. loc' \in [Procs -> LocType] /\ pc' \in [Procs -> Labels]
    BY <1>1, <1>9 DEF CloseDone, TypeOK, Goto, Labels
  <2>2. Cache' \in [Files -> 0 .. MaxFileBufs]
    <3>1. Cache' = Cache \/ Cache' = [Cache EXCEPT ![loc[c].fe] = 0]
      BY <1>9 DEF CloseDone
    <3> QED BY <3>1, WCacheAssumption DEF TypeOK
  <2> QED BY <1>5, <1>9, <2>1, <2>2 DEF CloseDone, TypeOK, poolVars, diskVars
<1>10. ASSUME Flush(c) \/ Close(c) PROVE TypeOK'
  BY <1>3, <1>10 DEF Flush, Close
<1> QED BY <1>2, <1>4, <1>6, <1>7, <1>8, <1>9, <1>10

-----------------------------------------------------------------------------
(* What every process relies on *)

\* A step of one process leaves the others where they are.
Alone(p) == \A q \in Procs \ {p} : pc'[q] = pc[q] /\ loc'[q] = loc[q]

\* It suffices to look at the process that moves.
LEMMA LocalFrame ==
    ASSUME TypeInv, NEW p \in Procs, Alone(p), Named \subseteq Named', LocalOK(p)'
    PROVE  \A q \in Procs : LocalOK(q)'
<1> SUFFICES ASSUME NEW q \in Procs \ {p} PROVE LocalOK(q)'
  OBVIOUS
<1>1. LocalOK(q) /\ pc'[q] = pc[q] /\ loc'[q] = loc[q]
  BY DEF TypeInv, BufferInv, Alone
<1> QED BY <1>1 DEF LocalOK

\* A step that neither begins a Flush nor shares out nor reports an index.
LEMMA FlushFrame ==
    ASSUME TypeInv, NEW p \in Procs, Alone(p),
           fl' = fl \/ fl' = [fl EXCEPT ![p] = NoFl],
           pc[p] # "flushing" \/ FlushReturned(p),
           p \in Workers /\ pc'[p] \in Flushers =>
               pc[p] \in Flushers /\ loc'[p].blk = loc[p].blk /\ loc'[p].fb = loc[p].fb
    PROVE  FlushInv'
<1> USE DEF TypeInv
<1>0. p \in Clients => fl[p].pend = {} /\ fl[p].mq = {}
  BY DEF FlushInv, FlushReturned
<1>1. \A c \in Clients : fl'[c].pend = fl[c].pend /\ fl'[c].mq = fl[c].mq
  <2> SUFFICES ASSUME NEW c \in Clients
               PROVE  fl'[c].pend = fl[c].pend /\ fl'[c].mq = fl[c].mq
    OBVIOUS
  <2>1. NoFl.pend = {} /\ NoFl.mq = {}
    BY DEF NoFl
  <2>2. fl'[c] = fl[c] \/ (c = p /\ fl'[c] = NoFl)
    BY DEF TypeOK
  <2> QED BY <1>0, <2>1, <2>2
<1>2. ASSUME NEW c \in Clients
      PROVE  /\ fl'[c].mq \subseteq fl'[c].pend
             /\ fl'[c].pend # {} => pc'[c] = "flushing" /\ loc'[c].fb # 0
  BY <1>0, <1>1 DEF FlushInv, Alone, Procs
<1>3. ASSUME NEW w \in Workers, pc'[w] \in Flushers
      PROVE  /\ pc[w] \in Flushers /\ loc'[w].blk = loc[w].blk
             /\ loc'[w].blk \in fl'[w[1]].pend \ fl'[w[1]].mq
             /\ loc'[w].fb = loc'[w[1]].fb
  <2>1. w \in Procs /\ w[1] \in Clients /\ w[1] \in Procs
    BY DEF Workers, Procs
  <2>2. pc[w] \in Flushers /\ loc'[w].blk = loc[w].blk /\ loc'[w].fb = loc[w].fb
    BY <1>3, <2>1 DEF Alone
  <2>3. w[1] # p
    BY <1>0, <2>1, <2>2 DEF FlushInv
  <2> QED BY <1>1, <2>1, <2>2, <2>3 DEF FlushInv, Alone
<1> QED BY <1>2, <1>3 DEF FlushInv

\* A goroutine reports its index.
LEMMA ReportFlush ==
    ASSUME TypeInv, NEW p \in Workers \cup Expirers, NEW failed \in BOOLEAN, Report(p, failed),
           pc[p] \in Flushers
    PROVE  /\ Alone(p) /\ LocalOK(p)' /\ pc'[p] = "idle"
           /\ FlushInv'
<1> USE DEF TypeInv
<1>1. p \in Procs /\ p \notin Clients
  BY WCacheAssumption DEF Procs
<1>2. Alone(p) /\ LocalOK(p)' /\ pc'[p] = "idle"
  BY <1>1 DEF Report, Goto, Alone, LocalOK, TypeOK, NoLoc, Located, Working, Holding
<1>3. CASE p \notin Workers
  <2>1. fl' = fl /\ pc[p] # "flushing"
    BY <1>3 DEF Report, Flushers
  <2> QED BY <1>1, <1>2, <1>3, <2>1, FlushFrame
<1>4. CASE p \in Workers
  <2> DEFINE o == p[1]
             x == loc[p].blk
  <2>1. o \in Clients /\ o \in Procs /\ o # p
    BY <1>1, <1>4 DEF Workers, Procs
  <2>2. fl' = [fl EXCEPT ![o] = Result(fl[o], x, failed)]
    BY <1>4 DEF Report
  <2>3. /\ fl'[o].pend = fl[o].pend \ {x} /\ fl'[o].mq = fl[o].mq
        /\ \A c \in Clients \ {o} : fl'[c] = fl[c]
    BY <2>1, <2>2, ResultType DEF TypeOK
  <2>4. x \in fl[o].pend \ fl[o].mq
    BY <1>4 DEF FlushInv
  <2>5. ASSUME NEW c \in Clients
        PROVE  /\ fl'[c].mq \subseteq fl'[c].pend
               /\ fl'[c].pend # {} => pc'[c] = "flushing" /\ loc'[c].fb # 0
    <3>1. c \in Procs /\ c # p
      BY <1>1 DEF Procs
    <3> HIDE DEF x
    <3> QED BY <1>2, <2>3, <2>4, <3>1 DEF FlushInv, Alone
  <2>6. ASSUME NEW w \in Workers, pc'[w] \in Flushers
        PROVE  /\ pc[w] \in Flushers /\ loc'[w].blk = loc[w].blk
               /\ loc'[w].blk \in fl'[w[1]].pend \ fl'[w[1]].mq
               /\ loc'[w].fb = loc'[w[1]].fb
    <3>1. w \in Procs /\ w[1] \in Clients /\ w[1] \in Procs /\ w # p /\ w[1] # p
      BY <1>1, <1>2, <2>6 DEF Workers, Procs, Flushers
    <3>2. pc[w] \in Flushers /\ loc'[w] = loc[w] /\ loc'[w[1]] = loc[w[1]]
      BY <1>2, <2>6, <3>1 DEF Alone
    <3>3. w[1] = o => loc[w].blk # x
      BY <1>4, <3>1, <3>2 DEF FlushInv
    <3> HIDE DEF x
    <3> QED BY <2>3, <3>1, <3>2, <3>3 DEF FlushInv
  <2>7. FlushInv'
    BY <2>5, <2>6 DEF FlushInv
  <2> QED BY <1>2, <2>7
<1> QED BY <1>3, <1>4

\* The steps of a Write.
LEMMA WriteBuffer ==
    ASSUME TypeInv, NEW c \in Clients
    PROVE  (\/ \E x \in Blocks, off \in Cells, size \in 1 .. BlockSize : Write(c, x, off, size)
            \/ \E b \in Buffers : WriteAlloc(c, b)
            \/ WriteDirect(c) \/ WriteMerge(c) \/ WriteNoMerge(c)
            \/ Send(c) \/ WriteDirectDone(c) \/ WriteFullDone(c)
            \/ WriteFlushFail(c) \/ WriteFlushDirect(c) \/ WriteFlushReuse(c))
           => BufferInv' /\ FlushInv'
<1> USE DEF TypeInv
<1>1. c \in Procs /\ c \notin Workers
  BY WCacheAssumption DEF Procs
<1>2. /\ LocalOK(c) /\ loc[c].blk \in Blocks
      /\ pc[c] \in Located => Key(c) \in Keys
  BY <1>1 DEF BufferInv, LocalOK, Key, Keys, FileBufs, TypeOK, LocType
<1>r. ASSUME Return(c), pc[c] # "closed"
      PROVE  Alone(c) /\ LocalOK(c)' /\ pc'[c] = "idle"
  BY <1>1, <1>2, <1>r DEF Return, Goto, Alone, LocalOK, TypeOK, NoLoc, Located, Working, Holding
<1>3. ASSUME NEW x \in Blocks, NEW off \in Cells, NEW size \in 1 .. BlockSize,
             Write(c, x, off, size)
      PROVE  BufferInv' /\ FlushInv'
  <2>1. /\ pc[c] = "idle" /\ pc'[c] = "wlock" /\ fl' = fl
        /\ Named' = Named /\ UNCHANGED <<LruList, chSync, BufferMap>>
    BY <1>1, <1>3 DEF Write, Goto, TypeOK, Named, poolVars
  <2>2. Alone(c) /\ loc'[c].fe = loc[c].fe /\ loc'[c].fb # 0
    <3> DEFINE new == IF Cache[loc[c].fe] = 0 THEN made + 1 ELSE Cache[loc[c].fe]
    <3>1. new # 0
      BY DEF TypeOK
    <3>2. loc' = [loc EXCEPT ![c] = [loc[c] EXCEPT !.fb = new, !.blk = x]] /\ pc' = [pc EXCEPT ![c] = "wlock"]
      BY <1>3 DEF Write, Goto
    <3> HIDE DEF new
    <3> QED BY <1>1, <3>1, <3>2 DEF Alone, TypeOK, LocType
  <2>3. LocalOK(c)'
    BY <1>2, <2>1, <2>2 DEF LocalOK, Working, Holding
  <2>4. FlushInv'
    BY <1>1, <2>1, <2>2, FlushFrame
  <2>5. BufferInv'
    BY <1>1, <2>1, <2>2, <2>3, LocalFrame DEF BufferInv
  <2> QED BY <2>4, <2>5
<1>4. ASSUME NEW b \in Buffers, WriteAlloc(c, b)
      PROVE  BufferInv' /\ FlushInv'
  <2>1. /\ pc[c] = "wlock" /\ fl' = fl /\ chSync' = chSync
        /\ LruList' \subseteq LruList \cup {b}
        /\ BufferMap' = [BufferMap EXCEPT ![Key(c)] = b]
        /\ buf' = [buf EXCEPT ![b] = OpBuffer(loc[c].fe, loc[c].blk, Versioned(c))]
    BY <1>4 DEF WriteAlloc, AtWriteLock, AttachBuffer, DoLru
  <2>2. loc[c].fe \in Files
    BY <1>2, <2>1 DEF LocalOK
  <2>3. Named' = Named \cup {b}
    BY <1>2, <2>1, <2>2, VersionedType, OpBufferType DEF Named, TypeOK
  <2>4. Alone(c) /\ LocalOK(c)' /\ pc'[c] \in {"idle", "wsend"}
    <3>1. CASE Return(c)
      BY <1>r, <2>1, <3>1
    <3>2. CASE loc' = [loc EXCEPT ![c].cur = b] /\ Goto(c, "wsend")
      BY <1>1, <1>2, <2>1, <2>3, <3>2 DEF Goto, Alone, LocalOK, TypeOK, LocType, Located
    <3> QED BY <1>4, <3>1, <3>2 DEF WriteAlloc
  <2>5. FlushInv'
    BY <1>1, <2>1, <2>4, FlushFrame
  <2>6. BufferInv'
    <3>1. \A q \in Procs : LocalOK(q)'
      BY <1>1, <2>3, <2>4, LocalFrame
    <3> QED BY <2>1, <2>3, <3>1 DEF BufferInv, TypeOK
  <2> QED BY <2>5, <2>6
<1>5. ASSUME WriteDirect(c) PROVE BufferInv' /\ FlushInv'
  <2>1. /\ pc[c] = "wlock" /\ pc' = [pc EXCEPT ![c] = "wdirect"] /\ loc' = loc /\ fl' = fl
        /\ Named' = Named /\ UNCHANGED <<LruList, chSync, BufferMap>>
    BY <1>5 DEF WriteDirect, AtWriteLock, Goto, Named, poolVars
  <2>2. Alone(c) /\ LocalOK(c)' /\ pc'[c] = "wdirect"
    BY <1>1, <1>2, <2>1 DEF Alone, LocalOK, TypeOK, Located, Working, Holding
  <2>3. FlushInv'
    BY <1>1, <2>1, <2>2, FlushFrame
  <2>4. BufferInv'
    BY <1>1, <2>1, <2>2, LocalFrame DEF BufferInv
  <2> QED BY <2>3, <2>4
<1>6. ASSUME WriteMerge(c) PROVE BufferInv' /\ FlushInv'
  <2> DEFINE b == BufferMap[Key(c)]
             m == MergeData(buf[b], op[c].RwSize, ver + 1)
  <2>1. /\ pc[c] = "wlock" /\ fl' = fl /\ chSync' = chSync /\ BufferMap' = BufferMap
        /\ b # NoBuf /\ buf' = [buf EXCEPT ![b] = m]
        /\ LruList' \subseteq LruList \cup {b}
    BY <1>6 DEF WriteMerge, AtWriteLock, DoLru, RemoveLru
  <2>2. b \in Named
    BY <1>2, <2>1 DEF BufferInv, Located
  <2>3. m.fe = buf[b].fe
    <3>1. /\ buf[b] \in BufferType /\ op[c].RwSize \in Nat /\ ver + 1 \in Nat
      BY <2>2 DEF TypeOK, OpType, Named
    <3>2. buf[b].Offset + buf[b].Len + op[c].RwSize <= BlockSize
      BY <1>6 DEF WriteMerge, CanMerge, OpType, TypeOK
    <3> QED BY <3>1, <3>2, MergeDataType
  <2>4. Named' = Named
    <3> HIDE DEF m, b
    <3> QED BY <2>1, <2>2, <2>3 DEF Named, TypeOK
  <2>5. Alone(c) /\ LocalOK(c)' /\ pc'[c] \in {"idle", "wfull", "wsend"}
    <3>1. CASE Return(c)
      BY <1>r, <2>1, <3>1
    <3>2. CASE loc' = [loc EXCEPT ![c].cur = b] /\ Goto(c, IF SyncIo THEN "wfull" ELSE "wsend")
      <4> HIDE DEF b
      <4> QED BY <1>1, <1>2, <2>1, <2>2, <2>4, <3>2 DEF Goto, Alone, LocalOK, TypeOK, LocType, Located
    <3> QED BY <1>6, <3>1, <3>2 DEF WriteMerge
  <2>6. FlushInv'
    BY <1>1, <2>1, <2>5, FlushFrame
  <2>7. BufferInv'
    <3>1. \A q \in Procs : LocalOK(q)'
      BY <1>1, <2>4, <2>5, LocalFrame
    <3> QED BY <2>1, <2>2, <2>4, <3>1 DEF BufferInv
  <2> QED BY <2>6, <2>7
<1>7. ASSUME WriteNoMerge(c) PROVE BufferInv' /\ FlushInv'
  <2> DEFINE b == BufferMap[Key(c)]
  <2>1. /\ pc[c] = "wlock" /\ fl' = fl /\ chSync' = chSync /\ BufferMap' = BufferMap
        /\ b # NoBuf /\ Named' = Named /\ LruList' \subseteq LruList
        /\ loc' = [loc EXCEPT ![c].cur = b] /\ pc' = [pc EXCEPT ![c] = "wflush"]
    BY <1>7 DEF WriteNoMerge, AtWriteLock, RemoveLru, Goto, Named
  <2>2. b \in Named
    BY <1>2, <2>1 DEF BufferInv, Located
  <2>3. Alone(c) /\ LocalOK(c)' /\ pc'[c] = "wflush"
    <3> HIDE DEF b
    <3> QED BY <1>1, <1>2, <2>1, <2>2 DEF Alone, LocalOK, TypeOK, LocType, Located
  <2>4. FlushInv'
    BY <1>1, <2>1, <2>3, FlushFrame
  <2>5. BufferInv'
    <3>1. \A q \in Procs : LocalOK(q)'
      BY <1>1, <2>1, <2>3, LocalFrame
    <3> QED BY <2>1, <3>1 DEF BufferInv
  <2> QED BY <2>4, <2>5
<1>8. ASSUME Send(c) PROVE BufferInv' /\ FlushInv'
  <2>1. /\ pc[c] = "wsend" /\ Return(c) /\ fl' = fl /\ chSync' = chSync \cup {loc[c].cur}
        /\ UNCHANGED <<BufferMap, LruList>> /\ Named' = Named
    BY <1>8 DEF Send, tableVars, Named
  <2>2. loc[c].cur \in Named
    BY <1>2, <2>1 DEF LocalOK, Working, Holding
  <2>3. FlushInv'
    BY <1>1, <1>r, <2>1, FlushFrame
  <2>4. BufferInv'
    <3>1. \A q \in Procs : LocalOK(q)'
      BY <1>1, <1>r, <2>1, LocalFrame
    <3> QED BY <2>1, <2>2, <3>1 DEF BufferInv
  <2> QED BY <2>3, <2>4
<1>9. ASSUME WriteDirectDone(c) PROVE BufferInv' /\ FlushInv'
  <2>1. /\ pc[c] = "wdirectR" /\ Return(c) /\ fl' = fl
        /\ UNCHANGED <<BufferMap, LruList, chSync>> /\ Named' = Named
    BY <1>9 DEF WriteDirectDone, poolVars, Named
  <2>3. FlushInv'
    BY <1>1, <1>r, <2>1, FlushFrame
  <2>4. BufferInv'
    <3>1. \A q \in Procs : LocalOK(q)'
      BY <1>1, <1>r, <2>1, LocalFrame
    <3> QED BY <2>1, <3>1 DEF BufferInv
  <2> QED BY <2>3, <2>4
<1>10. ASSUME WriteFullDone(c) \/ WriteFlushFail(c) PROVE BufferInv' /\ FlushInv'
  <2>1. /\ pc[c] \in {"wfullR", "wflushR"} /\ Return(c) /\ fl' = fl /\ chSync' = chSync
        /\ BufferMap' = [BufferMap EXCEPT ![Key(c)] = NoBuf] \/ BufferMap' = BufferMap
        /\ LruList' \subseteq LruList \cup {loc[c].cur} /\ Named' = Named
    BY <1>10 DEF WriteFullDone, WriteFlushFail, DetachBuffer, DoLru, Named
  <2>2. loc[c].cur \in Named
    BY <1>2, <2>1 DEF LocalOK, Working, Holding
  <2>3. FlushInv'
    BY <1>1, <1>r, <2>1, FlushFrame
  <2>4. BufferInv'
    <3>1. \A q \in Procs : LocalOK(q)'
      BY <1>1, <1>r, <2>1, LocalFrame
    <3> QED BY <2>1, <2>2, <3>1 DEF BufferInv, TypeOK
  <2> QED BY <2>3, <2>4
<1>11. ASSUME WriteFlushDirect(c) PROVE BufferInv' /\ FlushInv'
  <2>1. /\ pc[c] = "wflushR" /\ fl' = fl /\ chSync' = chSync /\ LruList' = LruList
        /\ BufferMap' = [BufferMap EXCEPT ![Key(c)] = NoBuf] /\ Named' = Named
        /\ loc' = [loc EXCEPT ![c] = [loc[c] EXCEPT !.cur = NoBuf, !.res = "none"]]
        /\ pc' = [pc EXCEPT ![c] = "wdirect"]
    BY <1>11 DEF WriteFlushDirect, DetachBuffer, Goto, Named
  <2>2. Alone(c) /\ LocalOK(c)' /\ pc'[c] = "wdirect"
    BY <1>1, <1>2, <2>1 DEF Alone, LocalOK, TypeOK, LocType, Located, Working, Holding
  <2>3. FlushInv'
    BY <1>1, <2>1, <2>2, FlushFrame
  <2>4. BufferInv'
    <3>1. \A q \in Procs : LocalOK(q)'
      BY <1>1, <2>1, <2>2, LocalFrame
    <3> QED BY <2>1, <3>1 DEF BufferInv, TypeOK
  <2> QED BY <2>3, <2>4
<1>12. ASSUME WriteFlushReuse(c) PROVE BufferInv' /\ FlushInv'
  <2>1. /\ pc[c] = "wflushR" /\ Return(c) /\ fl' = fl /\ chSync' = chSync /\ BufferMap' = BufferMap
        /\ LruList' = LruList \cup {loc[c].cur}
        /\ buf' = [buf EXCEPT ![loc[c].cur] = OpBuffer(loc[c].fe, loc[c].blk, op[c])]
    BY <1>12 DEF WriteFlushReuse, DoLru
  <2>2. loc[c].cur \in Named /\ loc[c].fe \in Files
    BY <1>2, <2>1 DEF LocalOK, Working, Holding
  <2>3. Named' = Named
    BY <1>2, <2>1, <2>2, OpBufferType DEF Named, TypeOK
  <2>4. FlushInv'
    BY <1>1, <1>r, <2>1, FlushFrame
  <2>5. BufferInv'
    <3>1. \A q \in Procs : LocalOK(q)'
      BY <1>1, <1>r, <2>1, <2>3, LocalFrame
    <3> QED BY <2>1, <2>2, <2>3, <3>1 DEF BufferInv
  <2> QED BY <2>4, <2>5
<1> QED BY <1>3, <1>4, <1>5, <1>6, <1>7, <1>8, <1>9, <1>10, <1>11, <1>12

\* The steps of the goroutines of a Flush and of CheckExpire.
LEMMA FlushBuffer ==
    ASSUME TypeInv, NEW p \in Workers \cup Expirers
    PROVE  FlushStep(p) => BufferInv' /\ FlushInv'
<1> USE DEF TypeInv
<1>1. p \in Procs /\ p \notin Clients
  BY WCacheAssumption DEF Procs
<1>2. /\ LocalOK(p) /\ loc[p].blk \in Blocks
      /\ pc[p] \in Located => Key(p) \in Keys
  BY <1>1 DEF BufferInv, LocalOK, Key, Keys, FileBufs, TypeOK, LocType
<1>3. ASSUME FlushLock(p) PROVE BufferInv' /\ FlushInv'
  <2> DEFINE b == BufferMap[Key(p)]
  <2>1. /\ pc[p] = "flock" /\ fl' = fl /\ chSync' = chSync /\ BufferMap' = BufferMap
        /\ b # NoBuf /\ Named' = Named /\ LruList' \subseteq LruList
        /\ loc' = [loc EXCEPT ![p].cur = b] /\ pc' = [pc EXCEPT ![p] = "fflush"]
    BY <1>3 DEF FlushLock, RemoveLru, Goto, Named
  <2>2. b \in Named
    BY <1>2, <2>1 DEF BufferInv, Located
  <2>3. Alone(p) /\ LocalOK(p)' /\ loc'[p].blk = loc[p].blk /\ loc'[p].fb = loc[p].fb
    <3> HIDE DEF b
    <3> QED BY <1>1, <1>2, <2>1, <2>2 DEF Alone, LocalOK, TypeOK, LocType, Located
  <2>4. FlushInv'
    BY <1>1, <2>1, <2>3, FlushFrame DEF Flushers
  <2>5. BufferInv'
    <3>1. \A q \in Procs : LocalOK(q)'
      BY <1>1, <2>1, <2>3, LocalFrame
    <3> QED BY <2>1, <3>1 DEF BufferInv
  <2> QED BY <2>4, <2>5
<1>4. ASSUME FlushNothing(p) PROVE BufferInv' /\ FlushInv'
  <2>1. /\ Report(p, FALSE) /\ pc[p] \in Flushers
        /\ UNCHANGED <<LruList, chSync, BufferMap>> /\ Named' = Named
    BY <1>4 DEF FlushNothing, Flushers, poolVars, tableVars, Named
  <2>2. Alone(p) /\ LocalOK(p)' /\ FlushInv'
    BY <2>1, ReportFlush
  <2>3. \A q \in Procs : LocalOK(q)'
    BY <1>1, <2>1, <2>2, LocalFrame
  <2> QED BY <2>1, <2>2, <2>3 DEF BufferInv
<1>5. ASSUME FlushDone(p) PROVE BufferInv' /\ FlushInv'
  <2>1. /\ Report(p, loc[p].res # "ok") /\ pc[p] = "fflushR" /\ chSync' = chSync
        /\ BufferMap' = [BufferMap EXCEPT ![Key(p)] = NoBuf] \/ BufferMap' = BufferMap
        /\ LruList' \subseteq LruList \cup {loc[p].cur} /\ Named' = Named
    BY <1>5 DEF FlushDone, DetachBuffer, DoLru, Named
  <2>2. Alone(p) /\ LocalOK(p)' /\ FlushInv'
    <3>1. (loc[p].res # "ok") \in BOOLEAN
      OBVIOUS
    <3> QED BY <2>1, <3>1, ReportFlush DEF Flushers
  <2>3. \A q \in Procs : LocalOK(q)'
    BY <1>1, <2>1, <2>2, LocalFrame
  <2>4. loc[p].cur \in Named
    BY <1>2, <2>1 DEF LocalOK, Working, Holding
  <2> QED BY <2>1, <2>2, <2>3, <2>4 DEF BufferInv, TypeOK
<1> QED BY <1>3, <1>4, <1>5 DEF FlushStep

\* The other steps of CheckExpire.
LEMMA ExpireBuffer ==
    ASSUME TypeInv, NEW e \in Expirers
    PROVE  ExpireStep(e) => BufferInv' /\ FlushInv'
<1> USE DEF TypeInv
<1>1. e \in Procs /\ e \notin Clients /\ e \notin Workers
  BY WCacheAssumption DEF Procs
<1>2. LocalOK(e)
  BY <1>1 DEF BufferInv
<1>3. ASSUME LruExpire(e) PROVE BufferInv' /\ FlushInv'
  <2>1. PICK b \in LruList :
          loc' = [loc EXCEPT ![e] = [loc[e] EXCEPT !.fe = buf[b].fe, !.blk = buf[b].BlkIdx]]
    BY <1>3 DEF LruExpire
  <2>2. /\ pc[e] = "idle" /\ fl' = fl /\ LruList' \subseteq LruList
        /\ pc' = [pc EXCEPT ![e] = "elookup"]
        /\ UNCHANGED <<chSync, BufferMap>> /\ Named' = Named
    BY <1>3 DEF LruExpire, RemoveLru, Goto, tableVars, Named
  <2>3. buf[b].fe \in Files
    BY DEF BufferInv, Named
  <2>4. Alone(e) /\ LocalOK(e)'
    BY <1>1, <2>1, <2>2, <2>3 DEF Alone, LocalOK, TypeOK, LocType, Located, Working, Holding
  <2>5. FlushInv'
    BY <1>1, <2>2, <2>4, FlushFrame
  <2>6. \A q \in Procs : LocalOK(q)'
    BY <1>1, <2>2, <2>4, LocalFrame
  <2> QED BY <2>2, <2>5, <2>6 DEF BufferInv
<1>4. ASSUME ExpireLookup(e) PROVE BufferInv' /\ FlushInv'
  <2>2. /\ pc[e] = "elookup" /\ fl' = fl
        /\ UNCHANGED <<LruList, chSync, BufferMap>> /\ Named' = Named
    BY <1>4 DEF ExpireLookup, poolVars, tableVars, Named
  <2>4. Alone(e) /\ LocalOK(e)'
    BY <1>1, <1>2, <1>4 DEF ExpireLookup, Goto, Alone, LocalOK, TypeOK, LocType, NoLoc, Located, Working, Holding
  <2>5. FlushInv'
    BY <1>1, <2>2, <2>4, FlushFrame
  <2>6. \A q \in Procs : LocalOK(q)'
    BY <1>1, <2>2, <2>4, LocalFrame
  <2> QED BY <2>2, <2>5, <2>6 DEF BufferInv
<1> QED BY <1>3, <1>4 DEF ExpireStep

\* The steps of SyncWrite.
LEMMA SyncBuffer ==
    ASSUME TypeInv, NEW s \in Syncers
    PROVE  SyncStep(s) => BufferInv' /\ FlushInv'
<1> USE DEF TypeInv
<1>1. s \in Procs /\ s \notin Clients /\ s \notin Workers
  BY WCacheAssumption DEF Procs
<1>2. LocalOK(s)
  BY <1>1 DEF BufferInv
<1>3. ASSUME SyncTake(s) PROVE BufferInv' /\ FlushInv'
  <2>1. PICK b \in chSync :
           /\ Cache[buf[b].fe] # 0
           /\ loc' = [loc EXCEPT ![s] = [loc[s] EXCEPT !.fb = Cache[buf[b].fe],
                                                       !.blk = buf[b].BlkIdx, !.cur = b]]
    BY <1>3 DEF SyncTake
  <2>2. /\ pc[s] = "idle" /\ fl' = fl /\ chSync' \subseteq chSync
        /\ pc' = [pc EXCEPT ![s] = "sync"]
        /\ UNCHANGED <<LruList, BufferMap>> /\ Named' = Named
    BY <1>3 DEF SyncTake, Goto, tableVars, Named
  <2>3. b \in Named
    BY DEF BufferInv
  <2>4. Alone(s) /\ LocalOK(s)'
    BY <1>1, <2>1, <2>2, <2>3 DEF Alone, LocalOK, TypeOK, LocType
  <2>5. FlushInv'
    BY <1>1, <2>2, <2>4, FlushFrame
  <2>6. \A q \in Procs : LocalOK(q)'
    BY <1>1, <2>2, <2>4, LocalFrame
  <2> QED BY <2>2, <2>5, <2>6 DEF BufferInv
<1>4. ASSUME SyncDone(s) PROVE BufferInv' /\ FlushInv'
  <2>1. /\ pc[s] = "syncR" /\ fl' = fl /\ chSync' = chSync
        /\ \/ pc' = [pc EXCEPT ![s] = "idle"] /\ loc' = [loc EXCEPT ![s] = NoLoc]
           \/ pc' = [pc EXCEPT ![s] = "syncU"] /\ loc' = loc
        /\ BufferMap' = [BufferMap EXCEPT ![Key(s)] = NoBuf] \/ BufferMap' = BufferMap
        /\ LruList' \subseteq LruList \cup {loc[s].cur} /\ Named' = Named
    BY <1>4 DEF SyncDone, Goto, DetachBuffer, DoLru, Named
  <2>2. loc[s].cur \in Named
    BY <1>2, <2>1 DEF LocalOK, Working, Holding
  <2>4. Alone(s) /\ LocalOK(s)'
    BY <1>1, <1>2, <2>1 DEF Alone, LocalOK, TypeOK, NoLoc, Located, Working, Holding
  <2>5. FlushInv'
    BY <1>1, <2>1, <2>4, FlushFrame
  <2>6. \A q \in Procs : LocalOK(q)'
    BY <1>1, <2>1, <2>4, LocalFrame
  <2> QED BY <2>1, <2>2, <2>5, <2>6 DEF BufferInv, TypeOK
<1>5. ASSUME SyncUnlock(s) PROVE BufferInv' /\ FlushInv'
  <2>1. /\ pc[s] = "syncU" /\ fl' = fl
        /\ pc' = [pc EXCEPT ![s] = "idle"] /\ loc' = [loc EXCEPT ![s] = NoLoc]
        /\ UNCHANGED <<LruList, chSync, BufferMap>> /\ Named' = Named
    BY <1>5 DEF SyncUnlock, Goto, poolVars, Named
  <2>2. Alone(s) /\ LocalOK(s)'
    BY <1>1, <2>1 DEF Alone, LocalOK, TypeOK, NoLoc, Located, Working, Holding
  <2>3. FlushInv'
    BY <1>1, <2>1, <2>2, FlushFrame
  <2>4. \A q \in Procs : LocalOK(q)'
    BY <1>1, <2>1, <2>2, LocalFrame
  <2> QED BY <2>1, <2>3, <2>4 DEF BufferInv
<1> QED BY <1>3, <1>4, <1>5 DEF SyncStep

\* A reply of the server.
LEMMA RpcBuffer ==
    ASSUME TypeInv, NEW p \in Procs
    PROVE  Rpc(p) => BufferInv' /\ FlushInv'
<1> USE DEF TypeInv
<1> SUFFICES ASSUME Rpc(p) PROVE BufferInv' /\ FlushInv'
  OBVIOUS
<1>1. PICK r \in {"ok", "eio", "enoent"} : Reply(p, r)
  BY DEF Rpc, RpcOk, RpcEio, RpcGone
<1>2. /\ pc[p] \in {"wdirect", "wfull", "wflush", "fflush", "sync"}
      /\ pc' = [pc EXCEPT ![p] = Replied[pc[p]]] /\ loc' = [loc EXCEPT ![p].res = r]
      /\ fl' = fl /\ UNCHANGED <<LruList, chSync, BufferMap>> /\ Named' = Named
  BY <1>1 DEF Reply, Replied, Goto, poolVars, tableVars, Named
<1>3. LocalOK(p)
  BY DEF BufferInv
<1>4. /\ loc'[p].blk = loc[p].blk /\ loc'[p].fb = loc[p].fb
      /\ loc'[p].cur = loc[p].cur /\ loc'[p].fe = loc[p].fe
  BY <1>2 DEF TypeOK, LocType
<1>5. /\ pc'[p] \in {"wdirectR", "wfullR", "wflushR", "fflushR", "syncR"}
      /\ pc'[p] = "fflushR" => pc[p] = "fflush"
      /\ pc'[p] = "wdirectR" <=> pc[p] = "wdirect"
  BY <1>2 DEF Replied, TypeOK
<1>6. Alone(p) /\ LocalOK(p)'
  BY <1>2, <1>3, <1>4, <1>5 DEF Alone, LocalOK, Located, Working, Holding, TypeOK
<1>7. FlushInv'
  BY <1>2, <1>4, <1>5, <1>6, FlushFrame DEF Flushers
<1>8. \A q \in Procs : LocalOK(q)'
  BY <1>2, <1>6, LocalFrame
<1> QED BY <1>2, <1>7, <1>8 DEF BufferInv

\* WCache.Flush begins.
LEMMA StartBuffer ==
    ASSUME TypeInv, NEW c \in Clients, NEW f \in Files, NEW kind, Starts(c, f, kind)
    PROVE  BufferInv' /\ FlushInv'
<1> USE DEF TypeInv
<1>1. c \in Procs /\ c \notin Workers
  BY WCacheAssumption DEF Procs
<1>2. /\ Alone(c) /\ pc[c] \in Resting /\ pc'[c] = "flushing" /\ loc'[c].fe = f /\ loc'[c].fb = Cache[f]
      /\ fl'[c].mq = fl'[c].pend /\ (fl'[c].pend # {} => Cache[f] # 0)
      /\ \A d \in Clients \ {c} : fl'[d] = fl[d]
      /\ UNCHANGED <<LruList, chSync, BufferMap>> /\ Named' = Named
  BY StartFacts, StartFinds DEF Alone, Named
<1>3. LocalOK(c)'
  BY <1>2 DEF LocalOK, Located, Working, Holding
<1>4. ASSUME NEW d \in Clients
      PROVE  /\ fl'[d].mq \subseteq fl'[d].pend
             /\ fl'[d].pend # {} => pc'[d] = "flushing" /\ loc'[d].fb # 0
  BY <1>2 DEF FlushInv, Alone, Procs
<1>5. ASSUME NEW w \in Workers, pc'[w] \in Flushers
      PROVE  /\ pc[w] \in Flushers /\ loc'[w] = loc[w]
             /\ loc'[w].blk \in fl'[w[1]].pend \ fl'[w[1]].mq
             /\ loc'[w].fb = loc'[w[1]].fb
  <2>1. w \in Procs /\ w[1] \in Clients /\ w[1] \in Procs /\ w # c
    BY <1>1 DEF Workers, Procs
  <2>2. pc[w] \in Flushers /\ loc'[w] = loc[w]
    BY <1>2, <1>5, <2>1 DEF Alone
  <2>3. w[1] # c
    BY <1>2, <2>1, <2>2 DEF FlushInv, Resting
  <2> QED BY <1>2, <2>1, <2>2, <2>3 DEF FlushInv, Alone
<1>6. FlushInv'
  BY <1>4, <1>5 DEF FlushInv
<1>7. \A q \in Procs : LocalOK(q)'
  BY <1>1, <1>2, <1>3, LocalFrame
<1> QED BY <1>2, <1>6, <1>7 DEF BufferInv

\* Opening, flushing and closing a handle.
LEMMA HandleBuffer ==
    ASSUME TypeInv, NEW c \in Clients
    PROVE  (\/ \E f \in Files : Open(c, f)
            \/ Flush(c) \/ Close(c) \/ FlushToFsync(c) \/ FsyncReply(c) \/ FsyncReturn(c)
            \/ CloseFail(c) \/ CloseDone(c)) => BufferInv' /\ FlushInv'
<1> USE DEF TypeInv
<1>1. c \in Procs /\ c \notin Workers
  BY WCacheAssumption DEF Procs
<1>2. LocalOK(c)
  BY <1>1 DEF BufferInv
<1>r. ASSUME Return(c), pc[c] # "closed"
      PROVE  Alone(c) /\ LocalOK(c)' /\ pc'[c] = "idle"
  BY <1>1, <1>2, <1>r DEF Return, Goto, Alone, LocalOK, TypeOK, NoLoc, Located, Working, Holding
<1>3. ASSUME Alone(c), LocalOK(c)', Named' = Named, UNCHANGED <<LruList, chSync, BufferMap>>
      PROVE  BufferInv'
  BY <1>1, <1>3, LocalFrame DEF BufferInv
<1>4. ASSUME NEW f \in Files, Open(c, f) PROVE BufferInv' /\ FlushInv'
  <2>1. /\ pc[c] = "closed" /\ fl' = fl /\ loc' = [loc EXCEPT ![c].fe = f]
        /\ pc' = [pc EXCEPT ![c] = "idle"]
        /\ UNCHANGED <<LruList, chSync, BufferMap>> /\ Named' = Named
    BY <1>4 DEF Open, Goto, poolVars, tableVars, Named
  <2>2. Alone(c) /\ LocalOK(c)'
    BY <1>1, <2>1 DEF Alone, LocalOK, TypeOK, LocType, Located, Working, Holding
  <2> QED BY <1>1, <1>3, <2>1, <2>2, FlushFrame
<1>5. ASSUME NEW kind \in {"fsync", "close", "closelast"}, StartFlush(c, kind)
      PROVE  BufferInv' /\ FlushInv'
  BY <1>5, FlushStarts, StartBuffer
<1>6. ASSUME FlushToFsync(c) PROVE BufferInv' /\ FlushInv'
  <2>1. /\ FlushReturned(c) /\ fl' = fl /\ loc' = loc /\ pc' = [pc EXCEPT ![c] = "fsync"]
        /\ UNCHANGED <<LruList, chSync, BufferMap>> /\ Named' = Named
    BY <1>6 DEF FlushToFsync, Goto, poolVars, tableVars, Named
  <2>2. Alone(c) /\ LocalOK(c)'
    BY <1>1, <1>2, <2>1 DEF Alone, LocalOK, FlushReturned, TypeOK, Located, Working, Holding
  <2> QED BY <1>1, <1>3, <2>1, <2>2, FlushFrame
<1>7. ASSUME Return(c), EndFlush(c), pc[c] \in {"fsync", "synced"} \/ FlushReturned(c),
             UNCHANGED <<LruList, chSync, BufferMap, buf>>
      PROVE  BufferInv' /\ FlushInv'
  <2>1. Alone(c) /\ LocalOK(c)'
    BY <1>r, <1>7 DEF FlushReturned
  <2>2. Named' = Named /\ fl' = [fl EXCEPT ![c] = NoFl]
    BY <1>7 DEF Named, EndFlush
  <2> QED BY <1>1, <1>3, <1>7, <2>1, <2>2, FlushFrame
<1>8. ASSUME FsyncReply(c) PROVE BufferInv' /\ FlushInv'
  <2>1. CASE Return(c) /\ EndFlush(c)
    BY <1>7, <1>8, <2>1 DEF FsyncReply, poolVars, tableVars
  <2>2. CASE Goto(c, "synced") /\ UNCHANGED <<loc, op, fl, snap>>
    <3>1. /\ pc[c] = "fsync" /\ fl' = fl /\ loc' = loc /\ pc' = [pc EXCEPT ![c] = "synced"]
          /\ UNCHANGED <<LruList, chSync, BufferMap>> /\ Named' = Named
      BY <1>8, <2>2 DEF FsyncReply, Goto, poolVars, tableVars, Named
    <3>2. Alone(c) /\ LocalOK(c)'
      BY <1>1, <1>2, <3>1 DEF Alone, LocalOK, TypeOK, Located, Working, Holding
    <3> QED BY <1>1, <1>3, <3>1, <3>2, FlushFrame
  <2> QED BY <1>8, <2>1, <2>2 DEF FsyncReply
<1>9. ASSUME FsyncReturn(c) \/ CloseFail(c) PROVE BufferInv' /\ FlushInv'
  BY <1>7, <1>9 DEF FsyncReturn, CloseFail, poolVars, tableVars
<1>10. ASSUME CloseDone(c) PROVE BufferInv' /\ FlushInv'
  <2>1. /\ FlushReturned(c) /\ fl' = [fl EXCEPT ![c] = NoFl]
        /\ loc' = [loc EXCEPT ![c] = NoLoc] /\ pc' = [pc EXCEPT ![c] = "closed"]
        /\ UNCHANGED <<LruList, chSync, BufferMap>> /\ Named' = Named
    BY <1>10 DEF CloseDone, EndFlush, Goto, poolVars, Named
  <2>2. Alone(c) /\ LocalOK(c)'
    BY <1>1, <2>1 DEF Alone, LocalOK, TypeOK, Located, Working, Holding
  <2> QED BY <1>1, <1>3, <2>1, <2>2, FlushFrame
<1>11. ASSUME Flush(c) \/ Close(c) PROVE BufferInv' /\ FlushInv'
  BY <1>5, <1>11 DEF Flush, Close
<1> QED BY <1>4, <1>6, <1>8, <1>9, <1>10, <1>11

\* A goroutine of a Flush takes an index.
LEMMA TakeIndexBuffer ==
    ASSUME TypeInv, NEW w \in Workers, TakeIndex(w)
    PROVE  BufferInv' /\ FlushInv'
<1> USE DEF TypeInv
<1> DEFINE o == w[1]
<1>1. w \in Procs /\ w \notin Clients /\ o \in Clients /\ o \in Procs /\ o # w
  BY WCacheAssumption DEF Procs, Workers
<1>2. PICK x \in fl[o].mq :
         /\ fl' = [fl EXCEPT ![o].mq = @ \ {x}]
         /\ loc' = [loc EXCEPT ![w] = [loc[w] EXCEPT !.fb = loc[o].fb, !.blk = x]]
  BY DEF TakeIndex
<1>3. /\ pc[w] = "idle" /\ pc' = [pc EXCEPT ![w] = "flock"]
      /\ UNCHANGED <<LruList, chSync, BufferMap>> /\ Named' = Named
  BY DEF TakeIndex, Goto, poolVars, tableVars, Named
<1>4. x \in fl[o].pend /\ loc[o].fb # 0
  BY <1>1 DEF FlushInv
<1>5. /\ Alone(w) /\ LocalOK(w)' /\ loc'[w].fb = loc[o].fb /\ loc'[w].blk = x
      /\ pc'[w] = "flock" /\ loc'[o] = loc[o]
  BY <1>1, <1>2, <1>3, <1>4 DEF Alone, LocalOK, TypeOK, LocType, Working, Holding
<1>6. /\ fl'[o].mq = fl[o].mq \ {x} /\ fl'[o].pend = fl[o].pend
      /\ \A c \in Clients \ {o} : fl'[c] = fl[c]
  <2> DEFINE q == [fl[o] EXCEPT !.mq = @ \ {x}]
  <2>1. fl' = [fl EXCEPT ![o] = q]
    BY <1>2
  <2>2. q.mq = fl[o].mq \ {x} /\ q.pend = fl[o].pend
    BY <1>1 DEF TypeOK, FlType
  <2> HIDE DEF q
  <2> QED BY <1>1, <2>1, <2>2 DEF TypeOK
<1>7. ASSUME NEW c \in Clients
      PROVE  /\ fl'[c].mq \subseteq fl'[c].pend
             /\ fl'[c].pend # {} => pc'[c] = "flushing" /\ loc'[c].fb # 0
  <2>1. c \in Procs /\ c # w
    BY <1>1 DEF Procs
  <2> QED BY <1>5, <1>6, <2>1 DEF FlushInv, Alone
<1>8. ASSUME NEW v \in Workers, v # w, pc'[v] \in Flushers
      PROVE  /\ pc[v] \in Flushers /\ loc'[v] = loc[v]
             /\ loc'[v].blk \in fl'[v[1]].pend \ fl'[v[1]].mq
             /\ loc'[v].fb = loc'[v[1]].fb
             /\ v[1] = o => loc'[v].blk # x
  <2>1. v \in Procs /\ v[1] \in Clients /\ v[1] \in Procs /\ v[1] # w
    BY <1>1 DEF Workers, Procs
  <2>2. pc[v] \in Flushers /\ loc'[v] = loc[v] /\ loc'[v[1]] = loc[v[1]]
    BY <1>5, <1>8, <2>1 DEF Alone
  <2>3. loc[v].blk \in fl[v[1]].pend \ fl[v[1]].mq /\ loc[v].fb = loc[v[1]].fb
    BY <2>2 DEF FlushInv
  <2>4. v[1] = o => loc[v].blk # x
    BY <2>3
  <2> HIDE DEF o
  <2> QED BY <1>6, <2>1, <2>2, <2>3, <2>4
<1>9. FlushInv'
  <2>1. /\ loc'[w].blk \in fl'[o].pend \ fl'[o].mq /\ loc'[w].fb = loc'[o].fb
    BY <1>4, <1>5, <1>6
  <2>2. \A u, v \in Workers :
          pc'[u] \in Flushers /\ pc'[v] \in Flushers /\ u[1] = v[1] /\ u # v
          => loc'[u].blk # loc'[v].blk
    BY <1>5, <1>8 DEF FlushInv
  <2> QED BY <1>7, <1>8, <2>1, <2>2 DEF FlushInv
<1>10. \A q \in Procs : LocalOK(q)'
  BY <1>1, <1>3, <1>5, LocalFrame
<1> QED BY <1>3, <1>9, <1>10 DEF BufferInv

\* Every step keeps the types and what they rest on.
LEMMA NextTypeInv == TypeInv /\ [Next]_vars => TypeInv'
<1> SUFFICES ASSUME TypeInv, [Next]_vars PROVE TypeInv'
  OBVIOUS
<1>0. Clients \subseteq Procs /\ Workers \subseteq Procs /\ Expirers \subseteq Procs
      /\ Syncers \subseteq Procs
  BY DEF Procs
<1>1. ASSUME NEW c \in Clients,
             \/ \E f \in Files : Open(c, f)
             \/ \E x \in Blocks, off \in Cells, size \in 1 .. BlockSize : Write(c, x, off, size)
             \/ Flush(c) \/ Close(c) \/ ClientStep(c)
      PROVE  TypeInv'
  BY <1>1, WriteType, HandleType, WriteBuffer, HandleBuffer, Zenon DEF ClientStep, TypeInv
<1>2. ASSUME NEW w \in Workers, TakeIndex(w) PROVE TypeInv'
  BY <1>0, <1>2, GoroutineType, TakeIndexBuffer DEF TypeInv
<1>3. ASSUME NEW p \in Workers \cup Expirers, FlushStep(p) PROVE TypeInv'
  BY <1>0, <1>3, GoroutineType, FlushBuffer DEF TypeInv
<1>4. ASSUME NEW e \in Expirers, ExpireStep(e) PROVE TypeInv'
  BY <1>0, <1>4, GoroutineType, ExpireBuffer DEF TypeInv
<1>5. ASSUME NEW s \in Syncers, SyncStep(s) PROVE TypeInv'
  BY <1>0, <1>5, GoroutineType, SyncBuffer DEF TypeInv
<1>6. ASSUME NEW p \in Procs, Rpc(p) PROVE TypeInv'
  BY <1>6, GoroutineType, RpcBuffer DEF TypeInv
<1>7. ASSUME NEW f \in Unlinks, Unlink(f) PROVE TypeInv'
  BY <1>7 DEF Unlink, TypeInv, TypeOK, BufferInv, LocalOK, Named, FlushInv,
     poolVars, tableVars, localVars, ghostVars
<1>8. CASE UNCHANGED vars
  BY <1>8 DEF vars, TypeInv, TypeOK, BufferInv, LocalOK, Named, FlushInv,
     poolVars, tableVars, localVars, diskVars, ghostVars
<1> QED BY <1>1, <1>2, <1>3, <1>4, <1>5, <1>6, <1>7, <1>8 DEF Next

\* The invariant of the types holds in every reachable state.
LEMMA TypeInvHolds == Spec => []TypeInv
BY InitTypeInv, NextTypeInv, PTL DEF Spec

\* Every variable of the write cache keeps its type: in particular no merge or
\* reset makes a buffer reach past the end of its block (the Assert of IsFull,
\* cache.go:80), and nobody follows a nil FileBuffer, buffer or file.
THEOREM TypeCorrect == Spec => []TypeOK
BY TypeInvHolds, PTL DEF TypeInv

-----------------------------------------------------------------------------
(* The inductive invariant: who owns a block's lock, where a buffer is     *)
(* attached, and what the last Close of a file still has to write.         *)

\* FileBuffers belong to one file each.
TableInv ==
    /\ \A f \in Files : Cache[f] <= made
    /\ \A f, g \in Files : Cache[f] = Cache[g] /\ Cache[f] # 0 => f = g

\* The key a buffer belongs under.
Home(b) == <<Cache[buf[b].fe], buf[b].BlkIdx>>

\* A buffer is free or attached, and attached only at home.
AttachInv ==
    /\ \A k \in Keys : BufferMap[k] # NoBuf => /\ BufferMap[k] \notin FreeList
                                               /\ Home(BufferMap[k]) = k
    /\ \A b \in Buffers \ FreeList : Home(b) \in Keys /\ BufferMap[Home(b)] = b
    /\ FreeList \cap LruList = {}

\* The lock of a block has one owner: the process that holds it ...
LockInv ==
    /\ \A p \in Procs : pc[p] \in Holding => LockMap[Key(p)] = WriteLock
    /\ \A p, q \in Procs : pc[p] \in Holding /\ pc[q] \in Holding /\ p # q => Key(p) # Key(q)
    /\ \A p \in Procs : pc[p] \in Working => /\ BufferMap[Key(p)] = loc[p].cur
                                             /\ loc[p].cur \notin LruList

\* ... or the buffer queued on chSync.
QueueInv ==
    \A b \in chSync :
        /\ b \notin FreeList \cup LruList
        /\ LockMap[Home(b)] = WriteLock
        /\ \A p \in Procs : pc[p] \in Holding => Key(p) # Home(b)

\* A client's FileBuffer is still its file's.
Writes == {"wlock", "wdirect", "wdirectR", "wfull", "wfullR", "wflush", "wflushR", "wsend"}

ClientInv ==
    /\ \A c \in Clients : pc[c] \in Writes => loc[c].fb = Cache[loc[c].fe]
    /\ \A c \in Clients : fl[c].kind # "none" => pc[c] \in {"flushing", "fsync", "synced"}
    /\ \A c \in Clients : fl[c].kind = "closelast" =>
          /\ pc[c] = "flushing"
          /\ loc[c].fb = Cache[loc[c].fe]
          /\ \A d \in Clients \ {c} : pc[d] \notin Resting => loc[d].fe # loc[c].fe
          /\ \A k \in Keys : k[1] = loc[c].fb /\ BufferMap[k] # NoBuf
                             => k[2] \in fl[c].pend \/ fl[c].failed

SafeInv == TableInv /\ AttachInv /\ LockInv /\ QueueInv /\ ClientInv

\* The buffer from which SyncWrite reads the block to unlock, after it has freed it,
\* still names that block.
UnlockInv ==
    \A p \in Procs : pc[p] = "syncU" =>
        p \in Syncers /\ loc[p].cur \in Buffers /\ buf[loc[p].cur].BlkIdx = loc[p].blk

\* That is so when no Write takes the buffer before the unlock, or when there is
\* nothing else it could name: no SyncWrite, or files of one block.
OwnUnlock == AllocBeforeUnlock => Syncers = {} \/ \A x, y \in Blocks : x = y

\* The last Close of a file leaves no other handle of it: nobody begins a call on
\* the file before it has ended.  SafeInv does without, because DelMount closes
\* files that still have handles.
LastInv ==
    \A c \in Clients : fl[c].kind = "closelast" =>
        \A d \in Clients \ {c} : pc[d] # "closed" => loc[d].fe # loc[c].fe

\* What the locks and the buffers rest on.
CoreInv == AttachInv /\ LockInv /\ QueueInv

-----------------------------------------------------------------------------
(* Kinds of steps *)

\* Keys of the processes that do not move.
LEMMA KeysStay ==
    ASSUME NEW p \in Procs, Alone(p), NEW q \in Procs \ {p}
    PROVE  Key(q)' = Key(q) /\ pc'[q] = pc[q] /\ loc'[q].cur = loc[q].cur
BY DEF Alone, Key

\* The buffers in use keep their place.
HomesStay == \A b \in Buffers \ FreeList : Home(b)' = Home(b)

\* A step that touches no lock and no buffer, except to take one off the list.
LEMMA QuietCore ==
    ASSUME TypeInv, TypeInv', CoreInv, NEW p \in Procs, Alone(p), HomesStay,
           UNCHANGED <<BufferMap, LockMap, FreeList, chSync>>, LruList' \subseteq LruList,
           pc'[p] \in Holding => pc[p] \in Holding /\ Key(p)' = Key(p),
           pc'[p] \in Working => pc[p] \in Working /\ loc'[p].cur = loc[p].cur
    PROVE  CoreInv'
<1> USE DEF CoreInv
<1>1. AttachInv'
  BY DEF AttachInv, HomesStay, TypeInv, TypeOK
<1>2. \A q \in Procs : /\ pc'[q] \in Holding => pc[q] \in Holding /\ Key(q)' = Key(q)
                       /\ pc'[q] \in Working => pc[q] \in Working /\ loc'[q].cur = loc[q].cur
  BY KeysStay
<1>3. LockInv'
  BY <1>2 DEF LockInv, Working
<1>4. QueueInv'
  <2>1. \A b \in chSync : b \in Buffers \ FreeList
    BY DEF QueueInv, TypeInv, TypeOK
  <2> QED BY <1>2, <2>1 DEF QueueInv, HomesStay
<1> QED BY <1>1, <1>3, <1>4

\* A process locks its block.
LEMMA AcquireCore ==
    ASSUME TypeInv, TypeInv', CoreInv, NEW p \in Procs, Alone(p), HomesStay,
           NEW k \in Keys, Key(p)' = k, LockMap[k] = Free,
           LockMap' = [LockMap EXCEPT ![k] = WriteLock],
           UNCHANGED <<BufferMap, FreeList, chSync>>, LruList' \subseteq LruList,
           pc'[p] \in Working => loc'[p].cur = BufferMap[k] /\ loc'[p].cur \notin LruList'
    PROVE  CoreInv'
<1> USE DEF CoreInv
<1>0. /\ Free # WriteLock
      /\ \A j \in Keys \ {k} : LockMap'[j] = LockMap[j]
      /\ LockMap'[k] = WriteLock
  BY DEF Free, WriteLock, TypeInv, TypeOK
<1>1. AttachInv'
  BY DEF AttachInv, HomesStay, TypeInv, TypeOK
<1>2. \A q \in Procs \ {p} : Key(q)' = Key(q) /\ pc'[q] = pc[q] /\ loc'[q].cur = loc[q].cur
  BY KeysStay
<1>3. \A q \in Procs \ {p} : pc[q] \in Holding => Key(q) # k /\ Key(q) \in Keys
  BY <1>0 DEF LockInv, TypeInv, TypeOK, BufferInv, LocalOK, Located, Key, Keys, FileBufs, LocType
<1>4. LockInv'
  BY <1>0, <1>2, <1>3 DEF LockInv, Working
<1>5. QueueInv'
  <2>1. \A b \in chSync : b \in Buffers \ FreeList /\ Home(b) \in Keys /\ Home(b) # k
    BY <1>0 DEF QueueInv, AttachInv, TypeInv, TypeOK
  <2> QED BY <1>0, <1>2, <2>1 DEF QueueInv, HomesStay
<1> QED BY <1>1, <1>4, <1>5

\* A process unlocks its block and leaves the buffer alone, frees it or lists it.
LEMMA ReleaseCore ==
    ASSUME TypeInv, TypeInv', CoreInv, NEW p \in Procs, Alone(p), HomesStay,
           pc[p] \in Holding, pc'[p] \notin Holding, chSync' = chSync,
           LockMap' = [LockMap EXCEPT ![Key(p)] = Free],
           \/ UNCHANGED <<BufferMap, FreeList, LruList>>
           \/ /\ pc[p] \in Working
              /\ BufferMap' = [BufferMap EXCEPT ![Key(p)] = NoBuf]
              /\ FreeList' = FreeList \cup {loc[p].cur} /\ LruList' = LruList
           \/ /\ pc[p] \in Working
              /\ UNCHANGED <<BufferMap, FreeList>> /\ LruList' = LruList \cup {loc[p].cur}
    PROVE  CoreInv'
<1> USE DEF CoreInv
<1> DEFINE k == Key(p)
<1>0. k \in Keys
  BY DEF TypeInv, TypeOK, BufferInv, LocalOK, Located, Key, Keys, FileBufs, LocType
<1>1. \A j \in Keys \ {k} : LockMap'[j] = LockMap[j] /\ BufferMap'[j] = BufferMap[j]
  BY <1>0 DEF TypeInv, TypeOK
<1>2. pc[p] \in Working => /\ BufferMap[k] = loc[p].cur /\ loc[p].cur \in Buffers
                           /\ loc[p].cur \notin LruList /\ loc[p].cur \notin FreeList
                           /\ Home(loc[p].cur) = k
  BY <1>0, WCacheAssumption DEF LockInv, AttachInv, TypeInv, BufferInv, LocalOK, Named
<1> HIDE DEF k
<1>3. AttachInv'
  <2>1. CASE UNCHANGED <<BufferMap, FreeList, LruList>>
    BY <2>1 DEF AttachInv, HomesStay, TypeInv, TypeOK
  <2>2. CASE /\ pc[p] \in Working
             /\ BufferMap' = [BufferMap EXCEPT ![k] = NoBuf]
             /\ FreeList' = FreeList \cup {loc[p].cur} /\ LruList' = LruList
    <3>1. BufferMap'[k] = NoBuf
      BY <1>0, <2>2 DEF TypeInv, TypeOK
    <3>2. ASSUME NEW j \in Keys, NEW b \in Buffers, BufferMap'[j] = b
          PROVE  b \notin FreeList' /\ Home(b)' = j
      <4>1. j # k /\ BufferMap[j] = b
        BY <1>1, <3>1, <3>2, WCacheAssumption
      <4>2. b \notin FreeList /\ Home(b) = j
        BY <4>1, WCacheAssumption DEF AttachInv
      <4>3. b # loc[p].cur
        BY <1>2, <2>2, <4>1, <4>2
      <4> QED BY <2>2, <4>1, <4>2, <4>3 DEF HomesStay
    <3>3. ASSUME NEW b \in Buffers \ FreeList'
          PROVE  Home(b)' \in Keys /\ BufferMap'[Home(b)'] = b
      <4>1. b \in Buffers \ FreeList /\ b # loc[p].cur
        BY <2>2
      <4>2. Home(b)' = Home(b) /\ Home(b) \in Keys /\ BufferMap[Home(b)] = b
        BY <4>1 DEF AttachInv, HomesStay
      <4>3. Home(b) # k
        BY <1>2, <2>2, <4>1, <4>2
      <4> QED BY <1>1, <4>2, <4>3
    <3>4. (FreeList \cap LruList = {})'
      BY <1>2, <2>2 DEF AttachInv
    <3> QED BY <3>2, <3>3, <3>4 DEF AttachInv, Home, TypeInv, TypeOK
  <2>3. CASE /\ pc[p] \in Working
             /\ UNCHANGED <<BufferMap, FreeList>> /\ LruList' = LruList \cup {loc[p].cur}
    BY <1>2, <2>3 DEF AttachInv, HomesStay, TypeInv, TypeOK
  <2> QED BY <2>1, <2>2, <2>3 DEF k
<1>4. \A q \in Procs \ {p} : Key(q)' = Key(q) /\ pc'[q] = pc[q] /\ loc'[q].cur = loc[q].cur
  BY KeysStay
<1>5. ASSUME NEW q \in Procs \ {p}, pc[q] \in Holding
      PROVE  /\ Key(q) # k /\ Key(q) \in Keys
             /\ pc[q] \in Working => BufferMap[Key(q)] = loc[q].cur /\ loc[q].cur \notin LruList'
  <2>1. Key(q) # k /\ Key(q) \in Keys
    BY <1>5 DEF LockInv, TypeInv, TypeOK, BufferInv, LocalOK, Located, Key, Keys, FileBufs, LocType, k
  <2>2. pc[q] \in Working => /\ BufferMap[Key(q)] = loc[q].cur /\ loc[q].cur \notin LruList
                             /\ Home(loc[q].cur) = Key(q)
    BY <2>1, WCacheAssumption DEF LockInv, AttachInv, TypeInv, BufferInv, LocalOK, Named
  <2> QED BY <1>2, <2>1, <2>2
<1>6. LockInv'
  BY <1>1, <1>4, <1>5 DEF LockInv, Working
<1>7. QueueInv'
  <2>1. ASSUME NEW b \in chSync
        PROVE  /\ b \in Buffers \ FreeList /\ b \notin LruList /\ Home(b) \in Keys /\ Home(b) # k
               /\ LockMap[Home(b)] = WriteLock
               /\ Home(b)' = Home(b) /\ \A q \in Procs : pc[q] \in Holding => Key(q) # Home(b)
    BY DEF QueueInv, AttachInv, TypeInv, TypeOK, HomesStay, k
  <2>2. ASSUME NEW b \in chSync PROVE b \notin FreeList' \cup LruList'
    BY <1>2, <2>1
  <2> QED BY <1>1, <1>4, <2>1, <2>2 DEF QueueInv
<1> QED BY <1>3, <1>6, <1>7

\* What is known of a process that works on a buffer, or holds a lock.
LEMMA HolderFacts ==
    ASSUME TypeInv, CoreInv, NEW p \in Procs
    PROVE  /\ pc[p] \in Located => Key(p) \in Keys
           /\ pc[p] \in Holding => LockMap[Key(p)] = WriteLock
           /\ pc[p] \in Working => /\ BufferMap[Key(p)] = loc[p].cur /\ loc[p].cur \in Buffers
                                   /\ loc[p].cur \notin LruList /\ loc[p].cur \notin FreeList
                                   /\ Home(loc[p].cur) = Key(p)
<1>1. pc[p] \in Located => Key(p) \in Keys
  BY DEF TypeInv, TypeOK, BufferInv, LocalOK, Key, Keys, FileBufs, LocType
<1>2. pc[p] \in Working => pc[p] \in Holding /\ pc[p] \in Located
  BY DEF Working, Located
<1> QED
  BY <1>1, <1>2, WCacheAssumption DEF CoreInv, LockInv, AttachInv, TypeInv, BufferInv, LocalOK, Named

\* Under a free lock nobody works, so a buffer there may go to the list.
LEMMA ListCore ==
    ASSUME TypeInv, TypeInv', CoreInv, NEW p \in Procs, Alone(p), HomesStay,
           NEW k \in Keys, LockMap[k] = Free, BufferMap[k] # NoBuf,
           pc'[p] \notin Holding,
           UNCHANGED <<BufferMap, LockMap, FreeList, chSync>>, LruList' = LruList \cup {BufferMap[k]}
    PROVE  CoreInv'
<1> DEFINE b == BufferMap[k]
<1>0. Free # WriteLock /\ b \in Buffers /\ b \notin FreeList /\ Home(b) = k
  BY DEF Free, WriteLock, TypeInv, TypeOK, CoreInv, AttachInv
<1> HIDE DEF b
<1>1. AttachInv'
  BY <1>0 DEF CoreInv, AttachInv, HomesStay, TypeInv, TypeOK, b
<1>2. \A q \in Procs \ {p} : Key(q)' = Key(q) /\ pc'[q] = pc[q] /\ loc'[q].cur = loc[q].cur
  BY KeysStay
<1>3. ASSUME NEW q \in Procs, pc[q] \in Working PROVE loc[q].cur # b
  <2>1. pc[q] \in Holding
    BY <1>3 DEF Working
  <2> QED BY <1>0, <1>3, <2>1, HolderFacts
<1>4. LockInv'
  BY <1>2, <1>3 DEF CoreInv, LockInv, Working, b
<1>5. QueueInv'
  <2>1. ASSUME NEW d \in chSync
        PROVE  d \in Buffers \ FreeList /\ d # b /\ Home(d)' = Home(d)
    BY <1>0 DEF CoreInv, QueueInv, TypeInv, TypeOK, HomesStay
  <2> QED BY <1>2, <2>1 DEF CoreInv, QueueInv, b
<1> QED BY <1>1, <1>4, <1>5 DEF CoreInv

\* A free buffer is attached to a block without one, listed or locked.
LEMMA AllocCore ==
    ASSUME TypeInv, TypeInv', CoreInv, NEW p \in Procs, Alone(p), HomesStay,
           NEW k \in Keys, LockMap[k] = Free, BufferMap[k] = NoBuf,
           NEW b \in FreeList, Home(b)' = k,
           BufferMap' = [BufferMap EXCEPT ![k] = b], FreeList' = FreeList \ {b},
           chSync' = chSync, Key(p)' = k \/ pc'[p] \notin Holding,
           \/ /\ pc'[p] \notin Holding /\ LockMap' = LockMap /\ LruList' = LruList \cup {b}
           \/ /\ loc'[p].cur = b /\ LockMap' = [LockMap EXCEPT ![k] = WriteLock]
              /\ LruList' = LruList
    PROVE  CoreInv'
<1>0. /\ Free # WriteLock /\ b \in Buffers
      /\ BufferMap'[k] = b /\ \A j \in Keys \ {k} : BufferMap'[j] = BufferMap[j]
      /\ \A j \in Keys \ {k} : LockMap'[j] = LockMap[j]
      /\ pc'[p] \in Holding => LockMap'[k] = WriteLock
      /\ b \notin LruList
  BY DEF Free, WriteLock, TypeInv, TypeOK, CoreInv, AttachInv
<1>1. AttachInv'
  <2>1. ASSUME NEW j \in Keys, NEW d \in Buffers, BufferMap'[j] = d
        PROVE  d \notin FreeList' /\ Home(d)' = j
    <3>1. CASE j = k
      BY <1>0, <2>1, <3>1
    <3>2. CASE j # k
      BY <1>0, <2>1, <3>2, WCacheAssumption DEF CoreInv, AttachInv, HomesStay
    <3> QED BY <3>1, <3>2
  <2>2. ASSUME NEW d \in Buffers \ FreeList'
        PROVE  Home(d)' \in Keys /\ BufferMap'[Home(d)'] = d
    <3>1. CASE d = b
      BY <1>0, <3>1
    <3>2. CASE d # b
      <4>1. d \in Buffers \ FreeList /\ Home(d)' = Home(d) /\ Home(d) \in Keys /\ BufferMap[Home(d)] = d
        BY <3>2 DEF CoreInv, AttachInv, HomesStay
      <4>2. Home(d) # k
        BY <4>1, WCacheAssumption
      <4> QED BY <1>0, <4>1, <4>2
    <3> QED BY <3>1, <3>2
  <2>3. (FreeList \cap LruList = {})'
    BY DEF CoreInv, AttachInv
  <2> QED BY <2>1, <2>2, <2>3 DEF AttachInv, Home, TypeInv, TypeOK
<1>2. \A q \in Procs \ {p} : Key(q)' = Key(q) /\ pc'[q] = pc[q] /\ loc'[q].cur = loc[q].cur
  BY KeysStay
<1>3. ASSUME NEW q \in Procs \ {p}, pc[q] \in Holding
      PROVE  /\ Key(q) # k /\ Key(q) \in Keys /\ LockMap[Key(q)] = WriteLock
             /\ pc[q] \in Working => /\ BufferMap[Key(q)] = loc[q].cur
                                     /\ loc[q].cur \notin LruList'
  <2>1. pc[q] \in Located
    BY <1>3 DEF Located
  <2> QED BY <1>0, <1>3, <2>1, HolderFacts
<1>4. LockInv'
  BY <1>0, <1>2, <1>3 DEF CoreInv, LockInv, Working
<1>5. QueueInv'
  <2>1. ASSUME NEW d \in chSync
        PROVE  /\ d \in Buffers \ FreeList /\ d # b /\ Home(d)' = Home(d) /\ Home(d) \in Keys
               /\ Home(d) # k /\ d \notin LruList /\ LockMap[Home(d)] = WriteLock
               /\ \A q \in Procs : pc[q] \in Holding => Key(q) # Home(d)
    BY <1>0 DEF CoreInv, QueueInv, AttachInv, TypeInv, TypeOK, HomesStay
  <2> QED BY <1>0, <1>2, <2>1 DEF QueueInv
<1> QED BY <1>1, <1>4, <1>5 DEF CoreInv

\* The holder of a lock hands it over to the queued buffer.
LEMMA SendCore ==
    ASSUME TypeInv, TypeInv', CoreInv, NEW p \in Procs, Alone(p), HomesStay,
           pc[p] \in Working, pc'[p] \notin Holding,
           UNCHANGED <<BufferMap, LockMap, FreeList, LruList>>,
           chSync' = chSync \cup {loc[p].cur}
    PROVE  CoreInv'
<1> DEFINE b == loc[p].cur
<1>0. /\ pc[p] \in Holding /\ Key(p) \in Keys /\ BufferMap[Key(p)] = b /\ b \in Buffers
      /\ b \notin LruList /\ b \notin FreeList /\ Home(b) = Key(p) /\ LockMap[Key(p)] = WriteLock
  BY HolderFacts DEF Working, Located
<1> HIDE DEF b
<1>1. AttachInv'
  BY DEF CoreInv, AttachInv, HomesStay, TypeInv, TypeOK
<1>2. \A q \in Procs \ {p} : Key(q)' = Key(q) /\ pc'[q] = pc[q] /\ loc'[q].cur = loc[q].cur
  BY KeysStay
<1>3. LockInv'
  BY <1>2 DEF CoreInv, LockInv, Working
<1>4. QueueInv'
  <2>1. ASSUME NEW d \in chSync \cup {b}
        PROVE  /\ d \in Buffers \ FreeList /\ d \notin LruList /\ Home(d)' = Home(d)
               /\ LockMap[Home(d)] = WriteLock
               /\ \A q \in Procs \ {p} : pc[q] \in Holding => Key(q) # Home(d)
    BY <1>0 DEF CoreInv, LockInv, QueueInv, TypeInv, TypeOK, HomesStay
  <2> QED BY <1>2, <2>1 DEF QueueInv, b
<1> QED BY <1>1, <1>3, <1>4 DEF CoreInv

\* A process takes a queued buffer and its lock.
LEMMA TakeCore ==
    ASSUME TypeInv, TypeInv', CoreInv, NEW p \in Procs, Alone(p), HomesStay,
           pc[p] \notin Holding, pc'[p] \in Holding,
           UNCHANGED <<BufferMap, LockMap, FreeList, LruList>>,
           NEW b \in chSync, chSync' = chSync \ {b}, loc'[p].cur = b, Key(p)' = Home(b)
    PROVE  CoreInv'
<1>0. \A d \in chSync : /\ d \in Buffers \ FreeList /\ d \notin LruList /\ Home(d)' = Home(d)
                        /\ Home(d) \in Keys /\ BufferMap[Home(d)] = d /\ LockMap[Home(d)] = WriteLock
                        /\ \A q \in Procs : pc[q] \in Holding => Key(q) # Home(d)
  BY DEF CoreInv, QueueInv, AttachInv, TypeInv, TypeOK, HomesStay
<1>1. AttachInv'
  BY DEF CoreInv, AttachInv, HomesStay, TypeInv, TypeOK
<1>2. \A q \in Procs \ {p} : Key(q)' = Key(q) /\ pc'[q] = pc[q] /\ loc'[q].cur = loc[q].cur
  BY KeysStay
<1>3. LockInv'
  BY <1>0, <1>2 DEF CoreInv, LockInv, Working
<1>4. QueueInv'
  BY <1>0, <1>2 DEF QueueInv
<1> QED BY <1>1, <1>3, <1>4 DEF CoreInv

\* The holder of a lock frees the buffer and keeps the lock.
LEMMA DetachCore ==
    ASSUME TypeInv, TypeInv', CoreInv, NEW p \in Procs, Alone(p), HomesStay,
           pc[p] \in Working, pc'[p] \in Holding \ Working, Key(p)' = Key(p),
           UNCHANGED <<LockMap, LruList, chSync>>,
           BufferMap' = [BufferMap EXCEPT ![Key(p)] = NoBuf],
           FreeList' = FreeList \cup {loc[p].cur}
    PROVE  CoreInv'
<1> DEFINE b == loc[p].cur
           k == Key(p)
<1>0. /\ pc[p] \in Holding /\ k \in Keys /\ BufferMap[k] = b /\ b \in Buffers
      /\ b \notin LruList /\ b \notin FreeList /\ Home(b) = k /\ LockMap[k] = WriteLock
  BY HolderFacts DEF Working, Located
<1>1. BufferMap'[k] = NoBuf /\ \A j \in Keys \ {k} : BufferMap'[j] = BufferMap[j]
  BY <1>0 DEF TypeInv, TypeOK
<1>2. FreeList' = FreeList \cup {b} /\ Key(p)' = k
  OBVIOUS
<1> HIDE DEF b, k
<1>3. AttachInv'
  <2>1. ASSUME NEW j \in Keys, NEW d \in Buffers, BufferMap'[j] = d
        PROVE  d \notin FreeList' /\ Home(d)' = j
    <3>1. j # k /\ BufferMap[j] = d
      BY <1>1, <2>1, WCacheAssumption
    <3>2. d \notin FreeList /\ Home(d) = j
      BY <3>1, WCacheAssumption DEF CoreInv, AttachInv
    <3> QED BY <1>0, <1>2, <3>1, <3>2 DEF HomesStay
  <2>2. ASSUME NEW d \in Buffers \ FreeList'
        PROVE  Home(d)' \in Keys /\ BufferMap'[Home(d)'] = d
    <3>1. d \in Buffers \ FreeList /\ d # b
      BY <1>2
    <3>2. Home(d)' = Home(d) /\ Home(d) \in Keys /\ BufferMap[Home(d)] = d
      BY <3>1 DEF CoreInv, AttachInv, HomesStay
    <3> QED BY <1>0, <1>1, <3>1, <3>2
  <2>3. (FreeList \cap LruList = {})'
    BY <1>0, <1>2 DEF CoreInv, AttachInv
  <2> QED BY <2>1, <2>2, <2>3 DEF AttachInv, Home, TypeInv, TypeOK
<1>4. \A q \in Procs \ {p} : Key(q)' = Key(q) /\ pc'[q] = pc[q] /\ loc'[q].cur = loc[q].cur
  BY KeysStay
<1>5. ASSUME NEW q \in Procs \ {p}, pc[q] \in Holding
      PROVE  Key(q) # k /\ Key(q) \in Keys
  BY <1>0, <1>5, HolderFacts DEF CoreInv, LockInv, Located, k
<1>6. LockInv'
  BY <1>0, <1>1, <1>2, <1>4, <1>5 DEF CoreInv, LockInv, Working
<1>7. QueueInv'
  <2>1. ASSUME NEW d \in chSync
        PROVE  /\ d \in Buffers \ FreeList /\ d \notin LruList /\ Home(d)' = Home(d)
               /\ Home(d) # k /\ d # b /\ LockMap[Home(d)] = WriteLock
               /\ \A q \in Procs : pc[q] \in Holding => Key(q) # Home(d)
    BY <1>0 DEF CoreInv, QueueInv, TypeInv, TypeOK, HomesStay, k
  <2> QED BY <1>2, <1>4, <2>1 DEF QueueInv
<1> QED BY <1>3, <1>6, <1>7 DEF CoreInv

-----------------------------------------------------------------------------
(* The clients' FileBuffers and the last Close *)

\* A step of a goroutine: it may detach buffers and report results.
LEMMA GoroutineClient ==
    ASSUME TypeInv, ClientInv, NEW p \in Procs, p \notin Clients, Alone(p), Cache' = Cache,
           \A c \in Clients : fl'[c].kind = fl[c].kind,
           \A c \in Clients, k \in Keys : BufferMap'[k] # NoBuf =>
               /\ BufferMap[k] # NoBuf
               /\ k[1] = loc[c].fb /\ (k[2] \in fl[c].pend \/ fl[c].failed)
                  => k[2] \in fl'[c].pend \/ fl'[c].failed
    PROVE  ClientInv'
<1>1. \A c \in Clients : pc'[c] = pc[c] /\ loc'[c] = loc[c]
  BY DEF Alone, Procs
<1>2. \A c \in Clients : pc'[c] \in Writes => loc'[c].fb = Cache'[loc'[c].fe]
  BY <1>1 DEF ClientInv
<1>3. \A c \in Clients : fl'[c].kind # "none" => pc'[c] \in {"flushing", "fsync", "synced"}
  BY <1>1 DEF ClientInv
<1>4. ASSUME NEW c \in Clients, fl'[c].kind = "closelast"
      PROVE  /\ pc'[c] = "flushing"
             /\ loc'[c].fb = Cache'[loc'[c].fe]
             /\ \A d \in Clients \ {c} : pc'[d] \notin Resting => loc'[d].fe # loc'[c].fe
             /\ \A k \in Keys : k[1] = loc'[c].fb /\ BufferMap'[k] # NoBuf
                                => k[2] \in fl'[c].pend \/ fl'[c].failed
  BY <1>1, <1>4 DEF ClientInv
<1> QED BY <1>2, <1>3, <1>4 DEF ClientInv

\* A step of a client inside a Write: it disturbs no other client's Close.
LEMMA WriteClient ==
    ASSUME TypeInv, TableInv, ClientInv, NEW c \in Clients, Alone(c), Cache' = Cache, fl' = fl,
           pc[c] \notin Resting \cup {"flushing", "fsync", "synced"}, pc'[c] # "closed",
           loc'[c].fe = loc[c].fe,
           pc'[c] \in Writes => pc[c] \in Writes /\ loc'[c].fb = loc[c].fb,
           \/ BufferMap' = BufferMap
           \/ /\ pc[c] \in Writes /\ loc[c].fb # 0
              /\ \A k \in Keys \ {Key(c)} : BufferMap'[k] = BufferMap[k]
    PROVE  ClientInv'
<1>1. \A d \in Clients \ {c} : pc'[d] = pc[d] /\ loc'[d] = loc[d]
  BY DEF Alone, Procs
<1>2. fl[c].kind = "none"
  BY DEF ClientInv
<1>3. \A d \in Clients : pc'[d] \in Writes => loc'[d].fb = Cache'[loc'[d].fe]
  BY <1>1 DEF ClientInv
<1>4. \A d \in Clients : fl'[d].kind # "none" => pc'[d] \in {"flushing", "fsync", "synced"}
  BY <1>1, <1>2 DEF ClientInv
<1>5. ASSUME NEW d \in Clients, fl'[d].kind = "closelast"
      PROVE  /\ pc'[d] = "flushing"
             /\ loc'[d].fb = Cache'[loc'[d].fe]
             /\ \A e \in Clients \ {d} : pc'[e] \notin Resting => loc'[e].fe # loc'[d].fe
             /\ \A k \in Keys : k[1] = loc'[d].fb /\ BufferMap'[k] # NoBuf
                                => k[2] \in fl'[d].pend \/ fl'[d].failed
  <2>1. d # c /\ fl[d].kind = "closelast" /\ loc[c].fe # loc[d].fe
    BY <1>2, <1>5 DEF ClientInv
  <2>2. \A e \in Clients \ {d} : pc'[e] \notin Resting => loc'[e].fe # loc'[d].fe
    BY <1>1, <2>1 DEF ClientInv
  <2>3. ASSUME NEW k \in Keys, k[1] = loc[d].fb PROVE BufferMap'[k] = BufferMap[k]
    <3>1. CASE BufferMap' = BufferMap
      BY <3>1
    <3>2. CASE pc[c] \in Writes /\ loc[c].fb # 0 /\ \A j \in Keys \ {Key(c)} : BufferMap'[j] = BufferMap[j]
      <4>1. loc[c].fe \in Files /\ loc[d].fe \in Files
        BY <2>1 DEF ClientInv, TypeInv, BufferInv, LocalOK, Procs, Resting
      <4>2. loc[c].fb # loc[d].fb
        BY <2>1, <3>2, <4>1 DEF ClientInv, TableInv
      <4> QED BY <2>3, <3>2, <4>2 DEF Key
    <3> QED BY <3>1, <3>2
  <2> QED BY <1>1, <2>1, <2>2, <2>3 DEF ClientInv
<1> QED BY <1>3, <1>4, <1>5 DEF ClientInv

-----------------------------------------------------------------------------
(* The steps of a Write *)

\* Write looks up or makes the FileBuffer.
LEMMA WriteSafe ==
    ASSUME TypeInv, TypeInv', SafeInv, LastInv, NEW c \in Clients, NEW x \in Blocks, NEW off \in Cells,
           NEW size \in 1 .. BlockSize, Write(c, x, off, size)
    PROVE  SafeInv'
<1> USE DEF SafeInv
<1> DEFINE f == loc[c].fe
           new == IF Cache[f] = 0 THEN made + 1 ELSE Cache[f]
<1>1. c \in Procs /\ f \in Files /\ pc[c] = "idle"
  BY DEF Write, TypeInv, BufferInv, LocalOK, Procs
<1>2. /\ Cache' = [Cache EXCEPT ![f] = new] /\ made' = IF Cache[f] = 0 THEN made + 1 ELSE made
      /\ loc' = [loc EXCEPT ![c] = [loc[c] EXCEPT !.fb = new, !.blk = x]]
      /\ pc' = [pc EXCEPT ![c] = "wlock"]
      /\ UNCHANGED <<BufferMap, LockMap, FreeList, LruList, chSync, buf, fl>>
  BY DEF Write, Goto, poolVars
<1>3. Cache[f] \in Nat /\ made \in Nat /\ new # 0 /\ (Cache[f] # 0 => new = Cache[f])
  BY <1>1 DEF TypeInv, TypeOK
<1>4. TableInv'
  BY <1>1, <1>2, <1>3 DEF TableInv, TypeInv, TypeOK
<1> HIDE DEF new
<1>5. /\ Alone(c) /\ pc'[c] = "wlock" /\ loc'[c].fe = f /\ loc'[c].fb = new
      /\ Cache'[f] = new /\ \A g \in Files \ {f} : Cache'[g] = Cache[g]
  BY <1>1, <1>2 DEF Alone, TypeInv, TypeOK, LocType
<1>6. HomesStay
  <2> SUFFICES ASSUME NEW b \in Buffers \ FreeList PROVE Home(b)' = Home(b)
    BY DEF HomesStay
  <2>1. Home(b) \in Keys
    BY DEF AttachInv
  <2>2. Cache[buf[b].fe] # 0
    BY <2>1 DEF Home, Keys, FileBufs
  <2>3. buf[b].fe \in Files
    <3>1. BufferMap[Home(b)] = b
      BY DEF AttachInv
    <3> QED BY <2>1, <3>1, WCacheAssumption DEF TypeInv, BufferInv, Named
  <2>4. Cache'[buf[b].fe] = Cache[buf[b].fe]
    BY <1>3, <1>5, <2>2, <2>3
  <2> QED BY <1>2, <2>4 DEF Home
<1>7. CoreInv'
  BY <1>1, <1>2, <1>5, <1>6, QuietCore DEF CoreInv, Holding, Working
<1>8. ClientInv'
  <2>1. \A d \in Clients \ {c} : pc'[d] = pc[d] /\ loc'[d] = loc[d]
    BY <1>5 DEF Alone, Procs
  <2>2. fl[c].kind = "none"
    BY <1>1 DEF ClientInv
  <2>3. ASSUME NEW d \in Clients, pc'[d] \in Writes PROVE loc'[d].fb = Cache'[loc'[d].fe]
    <3>1. CASE d = c
      BY <1>5, <3>1
    <3>2. CASE d # c
      <4>1. /\ loc[d].fe \in Files /\ loc[d].fb = Cache[loc[d].fe] /\ loc[d].fb # 0
        BY <2>1, <2>3, <3>2 DEF ClientInv, TypeInv, BufferInv, LocalOK, Writes, Located, Holding, Procs
      <4> QED BY <1>3, <1>5, <2>1, <3>2, <4>1
    <3> QED BY <3>1, <3>2
  <2>4. \A d \in Clients : fl'[d].kind # "none" => pc'[d] \in {"flushing", "fsync", "synced"}
    BY <1>2, <2>1, <2>2 DEF ClientInv
  <2>5. ASSUME NEW d \in Clients, fl'[d].kind = "closelast"
        PROVE  /\ pc'[d] = "flushing"
               /\ loc'[d].fb = Cache'[loc'[d].fe]
               /\ \A e \in Clients \ {d} : pc'[e] \notin Resting => loc'[e].fe # loc'[d].fe
               /\ \A k \in Keys : k[1] = loc'[d].fb /\ BufferMap'[k] # NoBuf
                                  => k[2] \in fl'[d].pend \/ fl'[d].failed
    <3>1. d # c /\ fl[d].kind = "closelast"
      BY <1>2, <2>2, <2>5
    <3>2. loc[d].fe # f /\ pc[d] = "flushing" /\ loc[d].fb = Cache[loc[d].fe]
      BY <1>1, <3>1 DEF ClientInv, Resting, LastInv
    <3>3. loc[d].fe \in Files
      BY <3>2 DEF TypeInv, BufferInv, LocalOK, Procs
    <3>4. \A e \in Clients \ {d} : pc'[e] \notin Resting => loc'[e].fe # loc'[d].fe
      BY <1>1, <1>5, <2>1, <3>1 DEF ClientInv, Resting, LastInv
    <3> QED BY <1>2, <1>5, <2>1, <3>1, <3>2, <3>3, <3>4 DEF ClientInv
  <2> QED BY <2>3, <2>4, <2>5 DEF ClientInv
<1> QED BY <1>4, <1>7, <1>8 DEF CoreInv

\* What Return does to the invariant's view of a client.
LEMMA ReturnFacts ==
    ASSUME TypeInv, NEW c \in Clients, Return(c)
    PROVE  /\ c \in Procs /\ Alone(c) /\ pc'[c] = "idle" /\ loc'[c].fe = loc[c].fe
           /\ pc'[c] \notin Holding
BY DEF Return, Goto, Alone, TypeInv, TypeOK, NoLoc, Holding, Procs

\* Buffers that keep their block and Caches that keep their FileBuffers.
LEMMA HomesKept ==
    ASSUME Cache' = Cache,
           \A b \in Buffers \ FreeList : buf'[b].fe = buf[b].fe /\ buf'[b].BlkIdx = buf[b].BlkIdx
    PROVE  HomesStay
BY DEF HomesStay, Home

\* The steps of WriteOp that take the lock, or find it free and finish at once.
LEMMA WriteOpSafe ==
    ASSUME TypeInv, TypeInv', SafeInv, NEW c \in Clients
    PROVE  (WriteDirect(c) \/ (\E b \in Buffers : WriteAlloc(c, b)) \/ WriteMerge(c) \/ WriteNoMerge(c))
           => SafeInv'
<1> USE DEF SafeInv
<1> SUFFICES ASSUME AtWriteLock(c), made' = made, Cache' = Cache, fl' = fl,
                    \/ WriteDirect(c) \/ (\E b \in Buffers : WriteAlloc(c, b))
                    \/ WriteMerge(c) \/ WriteNoMerge(c)
             PROVE  SafeInv'
  BY DEF WriteDirect, WriteAlloc, WriteMerge, WriteNoMerge
<1>1. TableInv'
  BY DEF TableInv
<1>2. /\ c \in Procs /\ pc[c] = "wlock" /\ LockMap[Key(c)] = Free /\ loc[c].fb # 0
      /\ Key(c) \in Keys /\ loc[c].fe \in Files /\ pc[c] \in Writes /\ pc[c] \notin Holding
      /\ loc[c].fb = Cache[loc[c].fe] /\ loc[c].blk \in Blocks
  BY DEF AtWriteLock, TypeInv, TypeOK, BufferInv, LocalOK, Located, Key, Keys, FileBufs, LocType, Procs,
     Holding, Writes, ClientInv
<1>3. ASSUME WriteDirect(c) PROVE SafeInv'
  <2>1. /\ LockMap' = [LockMap EXCEPT ![Key(c)] = WriteLock] /\ loc' = loc
        /\ pc' = [pc EXCEPT ![c] = "wdirect"]
        /\ UNCHANGED <<BufferMap, FreeList, LruList, chSync, buf>>
    BY <1>3 DEF WriteDirect, LockBuffer, Goto, poolVars
  <2>2. Alone(c) /\ pc'[c] = "wdirect" /\ Key(c)' = Key(c) /\ HomesStay
    BY <1>2, <2>1, HomesKept DEF Alone, Key, TypeInv, TypeOK
  <2>3. CoreInv'
    BY <1>2, <2>1, <2>2, AcquireCore DEF CoreInv, Working, Holding
  <2>4. ClientInv'
    BY <1>2, <2>1, <2>2, WriteClient DEF Resting
  <2> QED BY <1>1, <2>3, <2>4 DEF CoreInv
<1>4. ASSUME NEW b \in Buffers, WriteAlloc(c, b) PROVE SafeInv'
  <2>1. /\ b \in FreeList /\ FreeList' = FreeList \ {b} /\ chSync' = chSync
        /\ buf' = [buf EXCEPT ![b] = OpBuffer(loc[c].fe, loc[c].blk, Versioned(c))]
        /\ BufferMap[Key(c)] = NoBuf /\ BufferMap' = [BufferMap EXCEPT ![Key(c)] = b]
    BY <1>4 DEF WriteAlloc, AllocBuffer, AttachBuffer
  <2>2. buf'[b].fe = loc[c].fe /\ buf'[b].BlkIdx = loc[c].blk
        /\ \A d \in Buffers \ {b} : buf'[d] = buf[d]
    BY <1>2, <1>4, <2>1, VersionedType, OpBufferType DEF TypeInv, TypeOK
  <2>3. HomesStay
    BY <2>1, <2>2, HomesKept
  <2>4. Home(b)' = Key(c)
    BY <1>2, <2>2 DEF Home, Key
  <2>5. /\ Alone(c) /\ loc'[c].fe = loc[c].fe
        /\ \/ /\ pc'[c] = "idle" /\ LockMap' = LockMap /\ LruList' = LruList \cup {b}
           \/ /\ pc'[c] = "wsend" /\ loc'[c].cur = b /\ loc'[c].fb = loc[c].fb /\ loc'[c].blk = loc[c].blk
              /\ LockMap' = [LockMap EXCEPT ![Key(c)] = WriteLock] /\ LruList' = LruList
    <3>1. CASE Return(c) /\ DoLru(b) /\ LockMap' = LockMap
      BY <3>1, ReturnFacts DEF DoLru
    <3>2. CASE /\ LockBuffer(Key(c)) /\ loc' = [loc EXCEPT ![c].cur = b]
               /\ Goto(c, "wsend") /\ LruList' = LruList
      BY <1>2, <3>2 DEF LockBuffer, Goto, Alone, TypeInv, TypeOK, LocType
    <3> QED BY <1>4, <3>1, <3>2 DEF WriteAlloc
  <2>6. pc'[c] \in Holding => Key(c)' = Key(c)
    BY <2>5 DEF Key, Holding
  <2>7. CoreInv'
    BY <1>2, <2>1, <2>3, <2>4, <2>5, <2>6, AllocCore DEF CoreInv, Holding
  <2>8. ClientInv'
    <3>1. \A k \in Keys \ {Key(c)} : BufferMap'[k] = BufferMap[k]
      BY <1>2, <2>1 DEF TypeInv, TypeOK
    <3> QED BY <1>2, <2>5, <3>1, WriteClient DEF Writes, Resting
  <2> QED BY <1>1, <2>7, <2>8 DEF CoreInv
<1>5. ASSUME WriteMerge(c) PROVE SafeInv'
  <2> DEFINE b == BufferMap[Key(c)]
             m == MergeData(buf[b], op[c].RwSize, ver + 1)
  <2>1. /\ b # NoBuf /\ buf' = [buf EXCEPT ![b] = m]
        /\ UNCHANGED <<BufferMap, FreeList, chSync>>
    BY <1>5 DEF WriteMerge
  <2>2. b \in Buffers
    BY <1>2, <2>1 DEF TypeInv, TypeOK
  <2>3. m.fe = buf[b].fe /\ m.BlkIdx = buf[b].BlkIdx
    <3>1. /\ buf[b] \in BufferType /\ op[c].RwSize \in Nat /\ ver + 1 \in Nat
      BY <2>2 DEF TypeInv, TypeOK, OpType
    <3>2. buf[b].Offset + buf[b].Len + op[c].RwSize <= BlockSize
      BY <1>5 DEF WriteMerge, CanMerge, OpType, TypeInv, TypeOK
    <3> QED BY <3>1, <3>2, MergeDataType
  <2>4. HomesStay
    <3> HIDE DEF m, b
    <3>1. \A d \in Buffers : buf'[d].fe = buf[d].fe /\ buf'[d].BlkIdx = buf[d].BlkIdx
      BY <2>1, <2>2, <2>3 DEF TypeInv, TypeOK
    <3> QED BY <3>1, HomesKept
  <2>5. CASE Return(c) /\ DoLru(b) /\ LockMap' = LockMap
    <3>1. CoreInv'
      BY <1>2, <2>1, <2>4, <2>5, ReturnFacts, ListCore DEF CoreInv, DoLru
    <3>2. ClientInv'
      BY <1>2, <2>1, <2>5, ReturnFacts, WriteClient DEF Writes, Resting
    <3> QED BY <1>1, <3>1, <3>2 DEF CoreInv
  <2>6. CASE /\ LockBuffer(Key(c)) /\ RemoveLru(b) /\ loc' = [loc EXCEPT ![c].cur = b]
             /\ Goto(c, IF SyncIo THEN "wfull" ELSE "wsend")
    <3>0. b = BufferMap[Key(c)]
      OBVIOUS
    <3> HIDE DEF b
    <3>1. /\ Alone(c) /\ loc'[c].fe = loc[c].fe /\ loc'[c].fb = loc[c].fb /\ loc'[c].blk = loc[c].blk
          /\ loc'[c].cur = b /\ pc'[c] \in {"wfull", "wsend"}
          /\ LruList' = LruList \ {b} /\ LockMap' = [LockMap EXCEPT ![Key(c)] = WriteLock]
      BY <1>2, <2>6 DEF LockBuffer, RemoveLru, Goto, Alone, TypeInv, TypeOK, LocType
    <3>2. Key(c)' = Key(c)
      BY <3>1 DEF Key
    <3>3. CoreInv'
      BY <1>2, <2>1, <2>4, <3>0, <3>1, <3>2, AcquireCore DEF CoreInv
    <3>4. ClientInv'
      BY <1>2, <2>1, <3>1, WriteClient DEF Resting
    <3> QED BY <1>1, <3>3, <3>4 DEF CoreInv
  <2> QED BY <1>5, <2>5, <2>6 DEF WriteMerge
<1>6. ASSUME WriteNoMerge(c) PROVE SafeInv'
  <2> DEFINE b == BufferMap[Key(c)]
  <2>0. b = BufferMap[Key(c)]
    OBVIOUS
  <2>1. /\ LockMap' = [LockMap EXCEPT ![Key(c)] = WriteLock] /\ loc' = [loc EXCEPT ![c].cur = b]
        /\ pc' = [pc EXCEPT ![c] = "wflush"] /\ LruList' = LruList \ {b}
        /\ UNCHANGED <<BufferMap, FreeList, chSync, buf>>
    BY <1>6 DEF WriteNoMerge, LockBuffer, RemoveLru, Goto
  <2> HIDE DEF b
  <2>2. /\ Alone(c) /\ pc'[c] = "wflush" /\ loc'[c].cur = b /\ HomesStay
        /\ loc'[c].fe = loc[c].fe /\ loc'[c].fb = loc[c].fb /\ loc'[c].blk = loc[c].blk
    BY <1>2, <2>1, HomesKept DEF Alone, TypeInv, TypeOK, LocType
  <2>3. Key(c)' = Key(c)
    BY <2>2 DEF Key
  <2>4. CoreInv'
    <3>1. /\ UNCHANGED <<BufferMap, FreeList, chSync>> /\ LruList' \subseteq LruList
          /\ LockMap' = [LockMap EXCEPT ![Key(c)] = WriteLock] /\ b \notin LruList'
      BY <2>1
    <3> QED BY <1>2, <2>0, <2>2, <2>3, <3>1, AcquireCore DEF CoreInv
  <2>5. ClientInv'
    BY <1>2, <2>1, <2>2, WriteClient DEF Resting
  <2> QED BY <1>1, <2>4, <2>5 DEF CoreInv
<1> QED BY <1>3, <1>4, <1>5, <1>6

\* The steps of WriteOp that hold the lock.
LEMMA WriteEndSafe ==
    ASSUME TypeInv, TypeInv', SafeInv, NEW c \in Clients
    PROVE  (\/ Send(c) \/ WriteDirectDone(c) \/ WriteFullDone(c)
            \/ WriteFlushFail(c) \/ WriteFlushDirect(c) \/ WriteFlushReuse(c)) => SafeInv'
<1> USE DEF SafeInv
<1>0. ASSUME Cache' = Cache, made' = made PROVE TableInv'
  BY <1>0 DEF TableInv
<1>1. c \in Procs
  BY DEF Procs
<1>2. ASSUME pc[c] \in Writes \ {"wlock"}
      PROVE  pc[c] \in Holding /\ Key(c) \in Keys /\ loc[c].fb # 0
             /\ pc[c] \notin Resting \cup {"flushing", "fsync", "synced"}
  BY <1>1, <1>2 DEF Writes, Holding, Located, TypeInv, TypeOK, BufferInv, LocalOK, Key, Keys, FileBufs, LocType, Resting
<1>3. ASSUME Send(c) PROVE SafeInv'
  <2>1. /\ pc[c] = "wsend" /\ Return(c) /\ chSync' = chSync \cup {loc[c].cur} /\ fl' = fl
        /\ UNCHANGED <<BufferMap, LockMap, FreeList, LruList, buf, Cache, made>>
    BY <1>3 DEF Send, tableVars
  <2>2. HomesStay
    BY <2>1, HomesKept
  <2>3. CoreInv'
    BY <2>1, <2>2, ReturnFacts, SendCore DEF CoreInv, Working, Holding
  <2>4. ClientInv'
    BY <1>2, <2>1, ReturnFacts, WriteClient DEF Writes
  <2> QED BY <1>0, <2>1, <2>3, <2>4 DEF CoreInv
<1>4. ASSUME WriteDirectDone(c) PROVE SafeInv'
  <2>1. /\ pc[c] = "wdirectR" /\ Return(c) /\ fl' = fl /\ LockMap' = [LockMap EXCEPT ![Key(c)] = Free]
        /\ UNCHANGED <<BufferMap, FreeList, LruList, chSync, buf, Cache, made>>
    BY <1>4 DEF WriteDirectDone, UnLockBuffer, poolVars
  <2>2. HomesStay
    BY <2>1, HomesKept
  <2>3. CoreInv'
    BY <2>1, <2>2, ReturnFacts, ReleaseCore DEF CoreInv, Holding
  <2>4. ClientInv'
    BY <1>2, <2>1, ReturnFacts, WriteClient DEF Writes
  <2> QED BY <1>0, <2>1, <2>3, <2>4 DEF CoreInv
<1>5. ASSUME WriteFullDone(c) \/ WriteFlushFail(c) \/ WriteFlushReuse(c) PROVE SafeInv'
  <2>1. /\ pc[c] \in {"wfullR", "wflushR"} /\ Return(c) /\ fl' = fl
        /\ LockMap' = [LockMap EXCEPT ![Key(c)] = Free]
        /\ UNCHANGED <<chSync, Cache, made>>
    BY <1>5 DEF WriteFullDone, WriteFlushFail, WriteFlushReuse, UnLockBuffer
  <2>2. \/ /\ BufferMap' = [BufferMap EXCEPT ![Key(c)] = NoBuf]
           /\ FreeList' = FreeList \cup {loc[c].cur} /\ LruList' = LruList
        \/ UNCHANGED <<BufferMap, FreeList>> /\ LruList' = LruList \cup {loc[c].cur}
    BY <1>5 DEF WriteFullDone, WriteFlushFail, WriteFlushReuse, DetachBuffer, FreeBuffer, DoLru
  <2>3. HomesStay
    <3>1. CASE buf' = buf
      BY <2>1, <3>1, HomesKept
    <3>2. CASE WriteFlushReuse(c)
      <4>1. buf' = [buf EXCEPT ![loc[c].cur] = OpBuffer(loc[c].fe, loc[c].blk, op[c])]
        BY <3>2 DEF WriteFlushReuse
      <4>2. /\ loc[c].fe \in Files /\ loc[c].blk \in Blocks /\ op[c] \in OpType
            /\ loc[c].fb = Cache[loc[c].fe]
        BY <1>1, <2>1 DEF TypeInv, TypeOK, LocType, BufferInv, LocalOK, ClientInv, Writes
      <4>3. Home(loc[c].cur) = Key(c) /\ loc[c].cur \in Buffers
        BY <1>1, <2>1, HolderFacts DEF CoreInv, Working, Holding
      <4>4. buf'[loc[c].cur].fe = loc[c].fe /\ buf'[loc[c].cur].BlkIdx = loc[c].blk
            /\ \A b \in Buffers \ {loc[c].cur} : buf'[b] = buf[b]
        BY <4>1, <4>2, <4>3, OpBufferType DEF TypeInv, TypeOK
      <4> SUFFICES ASSUME NEW d \in Buffers PROVE Home(d)' = Home(d)
        BY DEF HomesStay
      <4>5. CASE d = loc[c].cur
        BY <2>1, <4>2, <4>3, <4>4, <4>5 DEF Home, Key
      <4>6. CASE d # loc[c].cur
        BY <2>1, <4>4, <4>6 DEF Home
      <4> QED BY <4>5, <4>6
    <3> QED BY <1>5, <3>1, <3>2 DEF WriteFullDone, WriteFlushFail
  <2>4. CoreInv'
    BY <2>1, <2>2, <2>3, ReturnFacts, ReleaseCore DEF CoreInv, Holding, Working
  <2>5. ClientInv'
    <3>1. \A k \in Keys \ {Key(c)} : BufferMap'[k] = BufferMap[k]
      BY <2>2 DEF TypeInv, TypeOK
    <3> QED BY <1>2, <2>1, <3>1, ReturnFacts, WriteClient DEF Writes
  <2> QED BY <1>0, <2>1, <2>4, <2>5 DEF CoreInv
<1>6. ASSUME WriteFlushDirect(c) PROVE SafeInv'
  <2>1. /\ pc[c] = "wflushR" /\ fl' = fl
        /\ BufferMap' = [BufferMap EXCEPT ![Key(c)] = NoBuf]
        /\ FreeList' = FreeList \cup {loc[c].cur}
        /\ loc' = [loc EXCEPT ![c] = [loc[c] EXCEPT !.cur = NoBuf, !.res = "none"]]
        /\ pc' = [pc EXCEPT ![c] = "wdirect"]
        /\ UNCHANGED <<LockMap, LruList, chSync, buf, Cache, made>>
    BY <1>6 DEF WriteFlushDirect, DetachBuffer, FreeBuffer, Goto
  <2>2. /\ Alone(c) /\ pc'[c] = "wdirect" /\ HomesStay
        /\ loc'[c].fe = loc[c].fe /\ loc'[c].fb = loc[c].fb /\ loc'[c].blk = loc[c].blk
    BY <1>1, <2>1, HomesKept DEF Alone, TypeInv, TypeOK, LocType
  <2>3. Key(c)' = Key(c)
    BY <2>2 DEF Key
  <2>4. CoreInv'
    BY <1>1, <2>1, <2>2, <2>3, DetachCore DEF CoreInv, Holding, Working
  <2>5. ClientInv'
    <3>1. \A k \in Keys \ {Key(c)} : BufferMap'[k] = BufferMap[k]
      BY <2>1 DEF TypeInv, TypeOK
    <3> QED BY <1>2, <2>1, <2>2, <3>1, WriteClient DEF Writes
  <2> QED BY <1>0, <2>1, <2>4, <2>5 DEF CoreInv
<1> QED BY <1>3, <1>4, <1>5, <1>6

-----------------------------------------------------------------------------
(* The goroutines and the server *)

\* What Report does to the invariant's view of a goroutine and of a Flush.
LEMMA ReportFacts ==
    ASSUME TypeInv, NEW p \in Workers \cup Expirers, NEW failed \in BOOLEAN, Report(p, failed)
    PROVE  /\ p \in Procs /\ p \notin Clients /\ Alone(p) /\ pc'[p] = "idle" /\ pc'[p] \notin Holding
           /\ \A c \in Clients : fl'[c].kind = fl[c].kind
           /\ \A c \in Clients : \A x : /\ fl[c].failed => fl'[c].failed
                                        /\ x \in fl[c].pend /\ x \notin fl'[c].pend =>
                                           p \in Workers /\ c = p[1] /\ x = loc[p].blk
                                           /\ (failed => fl'[c].failed)
<1>1. /\ p \in Procs /\ p \notin Clients /\ Alone(p) /\ pc'[p] = "idle" /\ pc'[p] \notin Holding
  BY WCacheAssumption DEF Report, Goto, Alone, TypeInv, TypeOK, Holding, Procs
<1>2. CASE p \notin Workers
  <2>1. fl' = fl
    BY <1>2 DEF Report
  <2> QED BY <1>1, <2>1
<1>3. CASE p \in Workers
  <2>1. /\ p[1] \in Clients
        /\ fl' = [fl EXCEPT ![p[1]] = Result(fl[p[1]], loc[p].blk, failed)]
    BY <1>3 DEF Report, Workers
  <2>2. /\ fl'[p[1]].kind = fl[p[1]].kind /\ fl'[p[1]].pend = fl[p[1]].pend \ {loc[p].blk}
        /\ (fl'[p[1]].failed <=> fl[p[1]].failed \/ failed)
        /\ \A c \in Clients \ {p[1]} : fl'[c] = fl[c]
    BY <2>1, ResultType DEF TypeInv, TypeOK
  <2> QED BY <1>1, <1>3, <2>1, <2>2
<1> QED BY <1>2, <1>3

\* FlushBuffer, by a goroutine of a Flush or by CheckExpire.
LEMMA FlushSafe ==
    ASSUME TypeInv, TypeInv', SafeInv, NEW p \in Workers \cup Expirers
    PROVE  FlushStep(p) => SafeInv'
<1> USE DEF SafeInv
<1>0. ASSUME Cache' = Cache, made' = made PROVE TableInv'
  BY <1>0 DEF TableInv
<1>1. p \in Procs /\ p \notin Clients
  BY WCacheAssumption DEF Procs
<1>2. ASSUME FlushLock(p) PROVE SafeInv'
  <2> DEFINE b == BufferMap[Key(p)]
  <2>0. b = BufferMap[Key(p)] /\ pc[p] = "flock" /\ LockMap[Key(p)] = Free /\ Key(p) \in Keys
    BY <1>1, <1>2, HolderFacts DEF FlushLock, LockBuffer, Located, CoreInv
  <2>1. /\ LockMap' = [LockMap EXCEPT ![Key(p)] = WriteLock] /\ loc' = [loc EXCEPT ![p].cur = b]
        /\ pc' = [pc EXCEPT ![p] = "fflush"] /\ LruList' = LruList \ {b} /\ fl' = fl
        /\ UNCHANGED <<BufferMap, FreeList, chSync, buf, Cache, made>>
    BY <1>2 DEF FlushLock, LockBuffer, RemoveLru, Goto
  <2> HIDE DEF b
  <2>2. /\ Alone(p) /\ pc'[p] = "fflush" /\ loc'[p].cur = b /\ HomesStay
        /\ loc'[p].fb = loc[p].fb /\ loc'[p].blk = loc[p].blk
    BY <1>1, <2>1, HomesKept DEF Alone, TypeInv, TypeOK, LocType
  <2>3. Key(p)' = Key(p)
    BY <2>2 DEF Key
  <2>4. CoreInv'
    <3>1. /\ UNCHANGED <<BufferMap, FreeList, chSync>> /\ LruList' \subseteq LruList
          /\ LockMap' = [LockMap EXCEPT ![Key(p)] = WriteLock] /\ b \notin LruList'
      BY <2>1
    <3> QED BY <1>1, <2>0, <2>2, <2>3, <3>1, AcquireCore DEF CoreInv
  <2>5. ClientInv'
    BY <1>1, <2>1, <2>2, GoroutineClient
  <2> QED BY <1>0, <2>1, <2>4, <2>5 DEF CoreInv
<1>3. ASSUME FlushNothing(p) PROVE SafeInv'
  <2>1. /\ Report(p, FALSE) /\ pc[p] = "flock" /\ BufferMap[Key(p)] = NoBuf
        /\ UNCHANGED <<BufferMap, LockMap, FreeList, LruList, chSync, buf, Cache, made>>
    BY <1>3 DEF FlushNothing, poolVars, tableVars
  <2>2. HomesStay
    BY <2>1, HomesKept
  <2>3. CoreInv'
    BY <2>1, <2>2, ReportFacts, QuietCore DEF CoreInv, Working
  <2>4. p \in Workers => loc[p].fb = loc[p[1]].fb
    BY <2>1 DEF TypeInv, FlushInv, Flushers
  <2>r. \A c \in Clients : \A x : /\ fl[c].failed => fl'[c].failed
                                  /\ x \in fl[c].pend /\ x \notin fl'[c].pend =>
                                     p \in Workers /\ c = p[1] /\ x = loc[p].blk
    BY <2>1, ReportFacts
  <2>5. ASSUME NEW c \in Clients, NEW k \in Keys, BufferMap[k] # NoBuf, k[1] = loc[c].fb,
               k[2] \in fl[c].pend \/ fl[c].failed
        PROVE  k[2] \in fl'[c].pend \/ fl'[c].failed
    <3>1. k = <<k[1], k[2]>>
      BY DEF Keys
    <3>2. /\ fl[c].failed => fl'[c].failed
          /\ k[2] \in fl[c].pend /\ k[2] \notin fl'[c].pend =>
             p \in Workers /\ c = p[1] /\ k[2] = loc[p].blk
      BY <2>r
    <3>3. k # Key(p)
      BY <2>1, <2>5
    <3> QED BY <2>4, <2>5, <3>1, <3>2, <3>3 DEF Key
  <2>6. ClientInv'
    <3>1. \A c \in Clients : fl'[c].kind = fl[c].kind
      BY <2>1, ReportFacts
    <3>2. Alone(p) /\ Cache' = Cache
      BY <2>1, ReportFacts
    <3>3. \A c \in Clients, k \in Keys : BufferMap'[k] # NoBuf =>
               /\ BufferMap[k] # NoBuf
               /\ k[1] = loc[c].fb /\ (k[2] \in fl[c].pend \/ fl[c].failed)
                  => k[2] \in fl'[c].pend \/ fl'[c].failed
      BY <2>1, <2>5
    <3> QED BY <1>1, <3>1, <3>2, <3>3, GoroutineClient
  <2> QED BY <1>0, <2>1, <2>3, <2>6 DEF CoreInv
<1>4. ASSUME FlushDone(p) PROVE SafeInv'
  <2> DEFINE failed == loc[p].res # "ok"
  <2>1. /\ Report(p, failed) /\ pc[p] = "fflushR" /\ failed \in BOOLEAN
        /\ LockMap' = [LockMap EXCEPT ![Key(p)] = Free]
        /\ UNCHANGED <<chSync, buf, Cache, made>>
    BY <1>4 DEF FlushDone, UnLockBuffer
  <2>2. \/ /\ BufferMap' = [BufferMap EXCEPT ![Key(p)] = NoBuf]
           /\ FreeList' = FreeList \cup {loc[p].cur} /\ LruList' = LruList
        \/ UNCHANGED <<BufferMap, FreeList>> /\ LruList' = LruList \cup {loc[p].cur} /\ failed
    BY <1>4 DEF FlushDone, Releases, DetachBuffer, FreeBuffer, DoLru
  <2> HIDE DEF failed
  <2>3. HomesStay
    BY <2>1, HomesKept
  <2>r. /\ Alone(p) /\ pc'[p] \notin Holding
        /\ \A c \in Clients : fl'[c].kind = fl[c].kind
        /\ \A c \in Clients : \A x : /\ fl[c].failed => fl'[c].failed
                                     /\ x \in fl[c].pend /\ x \notin fl'[c].pend =>
                                        p \in Workers /\ c = p[1] /\ x = loc[p].blk
                                        /\ (failed => fl'[c].failed)
    BY <2>1, ReportFacts
  <2>4. CoreInv'
    BY <1>1, <2>1, <2>2, <2>3, <2>r, ReleaseCore DEF CoreInv, Holding, Working
  <2>5. p \in Workers => loc[p].fb = loc[p[1]].fb
    BY <2>1 DEF TypeInv, FlushInv, Flushers
  <2>6. ASSUME NEW c \in Clients, NEW k \in Keys, BufferMap'[k] # NoBuf
        PROVE  /\ BufferMap[k] # NoBuf
               /\ k[1] = loc[c].fb /\ (k[2] \in fl[c].pend \/ fl[c].failed)
                  => k[2] \in fl'[c].pend \/ fl'[c].failed
    <3>1. k = <<k[1], k[2]>>
      BY DEF Keys
    <3>2. BufferMap[k] # NoBuf /\ (k # Key(p) \/ failed)
      BY <2>2, <2>6 DEF TypeInv, TypeOK
    <3> QED BY <2>r, <2>5, <3>1, <3>2 DEF Key
  <2>7. ClientInv'
    BY <1>1, <2>1, <2>r, <2>6, GoroutineClient
  <2> QED BY <1>0, <2>1, <2>4, <2>7 DEF CoreInv
<1> QED BY <1>2, <1>3, <1>4 DEF FlushStep

\* A step of a goroutine that changes no shared state but the lists and chSync.
LEMMA QuietSafe ==
    ASSUME TypeInv, TypeInv', SafeInv, NEW p \in Procs, p \notin Clients, Alone(p),
           UNCHANGED <<BufferMap, LockMap, FreeList, chSync, buf, Cache, made>>,
           LruList' \subseteq LruList,
           \A c \in Clients : /\ fl'[c].kind = fl[c].kind /\ fl'[c].pend = fl[c].pend
                              /\ fl'[c].failed = fl[c].failed,
           pc'[p] \in Holding => pc[p] \in Holding /\ Key(p)' = Key(p),
           pc'[p] \in Working => pc[p] \in Working /\ loc'[p].cur = loc[p].cur
    PROVE  SafeInv'
<1>1. TableInv'
  BY DEF SafeInv, TableInv
<1>2. HomesStay
  BY HomesKept
<1>3. CoreInv'
  BY <1>2, QuietCore DEF SafeInv, CoreInv
<1>4. ClientInv'
  BY GoroutineClient DEF SafeInv
<1> QED BY <1>1, <1>3, <1>4 DEF SafeInv, CoreInv

\* CheckExpire, and a goroutine of a Flush that takes an index.
LEMMA ExpireSafe ==
    ASSUME TypeInv, TypeInv', SafeInv, NEW p \in Procs
    PROVE  (p \in Expirers /\ ExpireStep(p)) \/ (p \in Workers /\ TakeIndex(p)) => SafeInv'
<1>1. ASSUME p \in Expirers, LruExpire(p) PROVE SafeInv'
  <2>1. PICK b \in LruList :
          /\ LruList' = LruList \ {b}
          /\ loc' = [loc EXCEPT ![p] = [loc[p] EXCEPT !.fe = buf[b].fe, !.blk = buf[b].BlkIdx]]
    BY <1>1 DEF LruExpire, RemoveLru
  <2>2. /\ pc' = [pc EXCEPT ![p] = "elookup"] /\ fl' = fl
        /\ UNCHANGED <<BufferMap, LockMap, FreeList, chSync, buf, Cache, made>>
    BY <1>1 DEF LruExpire, Goto, tableVars
  <2>3. p \notin Clients /\ Alone(p) /\ pc'[p] = "elookup"
    BY <1>1, <2>1, <2>2, WCacheAssumption DEF Alone, TypeInv, TypeOK
  <2> QED BY <2>1, <2>2, <2>3, QuietSafe DEF Holding, Working
<1>2. ASSUME p \in Expirers, ExpireLookup(p) PROVE SafeInv'
  <2>1. /\ fl' = fl /\ UNCHANGED <<BufferMap, LockMap, FreeList, LruList, chSync, buf, Cache, made>>
    BY <1>2 DEF ExpireLookup, poolVars, tableVars
  <2>2. p \notin Clients /\ Alone(p) /\ pc'[p] \in {"idle", "flock"}
    BY <1>2, WCacheAssumption DEF ExpireLookup, Goto, Alone, TypeInv, TypeOK
  <2> QED BY <2>1, <2>2, QuietSafe DEF Holding, Working
<1>3. ASSUME p \in Workers, TakeIndex(p) PROVE SafeInv'
  <2> DEFINE o == p[1]
  <2>1. PICK x \in fl[o].mq :
           /\ fl' = [fl EXCEPT ![o].mq = @ \ {x}]
           /\ loc' = [loc EXCEPT ![p] = [loc[p] EXCEPT !.fb = loc[o].fb, !.blk = x]]
    BY <1>3 DEF TakeIndex
  <2>2. /\ pc' = [pc EXCEPT ![p] = "flock"]
        /\ UNCHANGED <<BufferMap, LockMap, FreeList, LruList, chSync, buf, Cache, made>>
    BY <1>3 DEF TakeIndex, Goto, poolVars, tableVars
  <2>3. p \notin Clients /\ Alone(p) /\ pc'[p] = "flock" /\ o \in Clients
    BY <1>3, <2>1, <2>2, WCacheAssumption DEF Alone, TypeInv, TypeOK, Workers
  <2>4. \A c \in Clients : /\ fl'[c].kind = fl[c].kind /\ fl'[c].pend = fl[c].pend
                           /\ fl'[c].failed = fl[c].failed
    <3> DEFINE q == [fl[o] EXCEPT !.mq = @ \ {x}]
    <3>1. fl' = [fl EXCEPT ![o] = q]
      BY <2>1
    <3>2. q.kind = fl[o].kind /\ q.pend = fl[o].pend /\ q.failed = fl[o].failed
      BY <2>3 DEF TypeInv, TypeOK, FlType
    <3> HIDE DEF q
    <3> QED BY <3>1, <3>2 DEF TypeInv, TypeOK
  <2> QED BY <2>2, <2>3, <2>4, QuietSafe DEF Holding, Working
<1> QED BY <1>1, <1>2, <1>3 DEF ExpireStep

\* SyncWrite.
LEMMA SyncSafe ==
    ASSUME TypeInv, TypeInv', SafeInv, UnlockInv, NEW s \in Syncers
    PROVE  SyncStep(s) => SafeInv'
<1> USE DEF SafeInv
<1>0. ASSUME Cache' = Cache, made' = made PROVE TableInv'
  BY <1>0 DEF TableInv
<1>1. s \in Procs /\ s \notin Clients
  BY WCacheAssumption DEF Procs
<1>2. ASSUME SyncTake(s) PROVE SafeInv'
  <2>1. PICK b \in chSync :
           /\ chSync' = chSync \ {b}
           /\ loc' = [loc EXCEPT ![s] = [loc[s] EXCEPT !.fb = Cache[buf[b].fe],
                                                       !.blk = buf[b].BlkIdx, !.cur = b]]
    BY <1>2 DEF SyncTake
  <2>2. /\ pc[s] = "idle" /\ pc' = [pc EXCEPT ![s] = "sync"] /\ fl' = fl
        /\ UNCHANGED <<BufferMap, LockMap, FreeList, LruList, buf, Cache, made>>
    BY <1>2 DEF SyncTake, Goto, tableVars
  <2>3. /\ Alone(s) /\ pc'[s] = "sync" /\ HomesStay
        /\ loc'[s].fb = Cache[buf[b].fe] /\ loc'[s].blk = buf[b].BlkIdx /\ loc'[s].cur = b
    BY <1>1, <2>1, <2>2, HomesKept DEF Alone, TypeInv, TypeOK, LocType
  <2>4. Key(s)' = Home(b)
    BY <2>3 DEF Key, Home
  <2>5. CoreInv'
    BY <1>1, <2>1, <2>2, <2>3, <2>4, TakeCore DEF CoreInv, Holding
  <2>6. ClientInv'
    BY <1>1, <2>2, <2>3, GoroutineClient
  <2> QED BY <1>0, <2>2, <2>5, <2>6 DEF CoreInv
<1>3. ASSUME SyncDone(s) PROVE SafeInv'
  <2>1. /\ pc[s] = "syncR" /\ pc[s] \in Working /\ pc[s] \in Holding /\ fl' = fl
        /\ UNCHANGED <<chSync, buf, Cache, made>>
    BY <1>3 DEF SyncDone, Working, Holding
  <2>2. HomesStay
    BY <2>1, HomesKept
  <2>3. CASE /\ DoLru(loc[s].cur) /\ UnLockBuffer(Key(s)) /\ Goto(s, "idle")
             /\ loc' = [loc EXCEPT ![s] = NoLoc] /\ UNCHANGED <<BufferMap, FreeList>>
    <3>1. /\ LockMap' = [LockMap EXCEPT ![Key(s)] = Free] /\ LruList' = LruList \cup {loc[s].cur}
          /\ Alone(s) /\ pc'[s] \notin Holding
      BY <1>1, <2>3 DEF DoLru, UnLockBuffer, Goto, Alone, TypeInv, TypeOK, Holding
    <3>2. CoreInv'
      BY <1>1, <2>1, <2>2, <2>3, <3>1, ReleaseCore DEF CoreInv
    <3>3. ClientInv'
      BY <1>1, <2>1, <2>3, <3>1, GoroutineClient
    <3> QED BY <1>0, <2>1, <3>2, <3>3 DEF CoreInv
  <2>4. CASE /\ DetachBuffer(Key(s)) /\ FreeBuffer(loc[s].cur) /\ Goto(s, "syncU")
             /\ UNCHANGED <<LruList, LockMap, loc>>
    <3>1. /\ BufferMap' = [BufferMap EXCEPT ![Key(s)] = NoBuf]
          /\ FreeList' = FreeList \cup {loc[s].cur} /\ Key(s)' = Key(s)
          /\ Alone(s) /\ pc'[s] = "syncU"
      BY <1>1, <2>4 DEF DetachBuffer, FreeBuffer, Goto, Alone, Key, TypeInv, TypeOK
    <3>2. CoreInv'
      BY <1>1, <2>1, <2>2, <2>4, <3>1, DetachCore DEF CoreInv, Holding, Working
    <3>3. \A k \in Keys : BufferMap'[k] # NoBuf => BufferMap[k] # NoBuf
      BY <3>1 DEF TypeInv, TypeOK
    <3>4. ClientInv'
      BY <1>1, <2>1, <3>1, <3>3, GoroutineClient
    <3> QED BY <1>0, <2>1, <3>2, <3>4 DEF CoreInv
  <2> QED BY <1>3, <2>3, <2>4 DEF SyncDone
<1>4. ASSUME SyncUnlock(s) PROVE SafeInv'
  <2>1. /\ pc[s] = "syncU" /\ fl' = fl /\ UNCHANGED <<poolVars, Cache, made, BufferMap>>
        /\ LockMap' = [LockMap EXCEPT ![SyncKey(s)] = Free]
        /\ pc' = [pc EXCEPT ![s] = "idle"] /\ loc' = [loc EXCEPT ![s] = NoLoc]
    BY <1>4 DEF SyncUnlock, UnLockBuffer, Goto
  <2>2. SyncKey(s) = Key(s)
    BY <1>1, <2>1 DEF UnlockInv, SyncKey, Key
  <2>3. /\ Alone(s) /\ pc[s] \in Holding /\ pc'[s] \notin Holding
        /\ UNCHANGED <<chSync, buf, FreeList, LruList>>
    BY <1>1, <2>1 DEF Alone, TypeInv, TypeOK, Holding, poolVars
  <2>4. HomesStay
    BY <2>1, <2>3, HomesKept
  <2>5. CoreInv'
    BY <1>1, <2>1, <2>2, <2>3, <2>4, ReleaseCore DEF CoreInv
  <2>6. ClientInv'
    BY <1>1, <2>1, <2>3, GoroutineClient
  <2> QED BY <1>0, <2>1, <2>5, <2>6 DEF CoreInv
<1> QED BY <1>2, <1>3, <1>4 DEF SyncStep

\* A reply changes where its process stands, and nothing the invariant is about.
LEMMA RpcSafe ==
    ASSUME TypeInv, TypeInv', SafeInv, NEW p \in Procs
    PROVE  Rpc(p) => SafeInv'
<1> SUFFICES ASSUME Rpc(p) PROVE SafeInv'
  OBVIOUS
<1>1. PICK r \in {"ok", "eio", "enoent"} : Reply(p, r)
  BY DEF Rpc, RpcOk, RpcEio, RpcGone
<1>2. /\ pc[p] \in {"wdirect", "wfull", "wflush", "fflush", "sync"}
      /\ pc' = [pc EXCEPT ![p] = Replied[pc[p]]] /\ loc' = [loc EXCEPT ![p].res = r]
      /\ fl' = fl /\ UNCHANGED <<BufferMap, LockMap, FreeList, LruList, chSync, buf, Cache, made>>
  BY <1>1 DEF Reply, Replied, Goto, poolVars, tableVars
<1>3. /\ Alone(p) /\ loc'[p].fb = loc[p].fb /\ loc'[p].blk = loc[p].blk
      /\ loc'[p].cur = loc[p].cur /\ loc'[p].fe = loc[p].fe
  BY <1>2 DEF Alone, TypeInv, TypeOK, LocType
<1>4. /\ pc'[p] \in {"wdirectR", "wfullR", "wflushR", "fflushR", "syncR"}
      /\ pc'[p] \in Writes <=> pc[p] \in Writes
      /\ pc'[p] \in Working <=> pc[p] \in Working
      /\ pc[p] \in Holding
  BY <1>2 DEF Replied, TypeInv, TypeOK, Holding, Working, Writes
<1>5. Key(p)' = Key(p)
  BY <1>3 DEF Key
<1>6. CASE p \notin Clients
  BY <1>2, <1>3, <1>4, <1>5, <1>6, QuietSafe
<1>7. CASE p \in Clients
  <2>1. TableInv'
    BY <1>2 DEF SafeInv, TableInv
  <2>2. HomesStay
    BY <1>2, HomesKept
  <2>3. CoreInv'
    BY <1>2, <1>3, <1>4, <1>5, <2>2, QuietCore DEF SafeInv, CoreInv
  <2>4. ClientInv'
    BY <1>2, <1>3, <1>4, <1>7, WriteClient DEF SafeInv, Resting
  <2> QED BY <2>1, <2>3, <2>4 DEF SafeInv, CoreInv
<1> QED BY <1>6, <1>7

-----------------------------------------------------------------------------
(* Open, Flush and Close *)

\* A step of a client outside a Write touches no lock and no buffer.
LEMMA HandleCore ==
    ASSUME TypeInv, TypeInv', SafeInv, NEW c \in Clients, Alone(c), HomesStay,
           UNCHANGED <<BufferMap, LockMap, FreeList, LruList, chSync>>, pc'[c] \notin Holding
    PROVE  CoreInv'
<1>1. c \in Procs
  BY DEF Procs
<1> QED BY <1>1, QuietCore DEF SafeInv, CoreInv, Working

\* A step of a client that keeps the FileBuffers, and begins no last Close.
LEMMA HandleClient ==
    ASSUME TypeInv, ClientInv, NEW c \in Clients, Alone(c), Cache' = Cache, BufferMap' = BufferMap,
           \A d \in Clients \ {c} : fl'[d] = fl[d], fl'[c].kind # "closelast",
           fl'[c].kind # "none" => pc'[c] \in {"flushing", "fsync", "synced"},
           pc'[c] \notin Writes,
           \/ pc'[c] \in Resting
           \/ pc[c] \notin Resting /\ loc'[c].fe = loc[c].fe
           \/ \A d \in Clients : fl[d].kind = "closelast" => loc'[c].fe # loc[d].fe
    PROVE  ClientInv'
<1>1. \A d \in Clients \ {c} : pc'[d] = pc[d] /\ loc'[d] = loc[d]
  BY DEF Alone, Procs
<1>2. \A d \in Clients : pc'[d] \in Writes => loc'[d].fb = Cache'[loc'[d].fe]
  BY <1>1 DEF ClientInv
<1>3. \A d \in Clients : fl'[d].kind # "none" => pc'[d] \in {"flushing", "fsync", "synced"}
  BY <1>1 DEF ClientInv
<1>4. ASSUME NEW d \in Clients, fl'[d].kind = "closelast"
      PROVE  /\ pc'[d] = "flushing"
             /\ loc'[d].fb = Cache'[loc'[d].fe]
             /\ \A e \in Clients \ {d} : pc'[e] \notin Resting => loc'[e].fe # loc'[d].fe
             /\ \A k \in Keys : k[1] = loc'[d].fb /\ BufferMap'[k] # NoBuf
                                => k[2] \in fl'[d].pend \/ fl'[d].failed
  <2>1. d # c /\ fl[d].kind = "closelast"
    BY <1>4
  <2>2. \A e \in Clients \ {d} : pc'[e] \notin Resting => loc'[e].fe # loc'[d].fe
    BY <1>1, <2>1 DEF ClientInv
  <2> QED BY <1>1, <2>1, <2>2 DEF ClientInv
<1> QED BY <1>2, <1>3, <1>4 DEF ClientInv

\* WCache.Flush begins on a file no last Close is about; a last Close begins
\* while no other handle of its file is used.
LEMMA StartSafe ==
    ASSUME TypeInv, TypeInv', SafeInv, NEW c \in Clients, NEW f \in Files,
           NEW kind \in {"fsync", "close", "closelast"}, Starts(c, f, kind),
           \A d \in Clients : fl[d].kind = "closelast" => f # loc[d].fe,
           kind = "closelast" => \A d \in Clients \ {c} : pc[d] \notin Resting => loc[d].fe # f
    PROVE  SafeInv'
<1> USE DEF SafeInv
<1>0. TypeOK
  BY DEF TypeInv
<1>1. /\ Alone(c) /\ pc'[c] = "flushing" /\ loc'[c].fe = f /\ loc'[c].fb = Cache[f]
      /\ fl'[c].kind = kind /\ \A d \in Clients \ {c} : fl'[d] = fl[d]
      /\ UNCHANGED <<BufferMap, LockMap, FreeList, LruList, chSync, buf, Cache, made>>
  BY <1>0, StartFacts, StartFinds DEF Alone
<1>2. \A k \in Keys : k[1] = Cache[f] /\ BufferMap[k] # NoBuf => k[2] \in fl'[c].pend
  <2>1. fl'[c].pend = {x \in Blocks : Cache[f] # 0 /\ BufferMap[<<Cache[f], x>>] # NoBuf}
    BY <1>0, StartFinds
  <2> QED BY <2>1 DEF Keys, FileBufs
<1>3. HomesStay
  BY <1>1, HomesKept
<1>4. TableInv' /\ CoreInv'
  BY <1>1, <1>3, HandleCore DEF TableInv, Holding
<1>5. CASE kind # "closelast"
  <2>1. ClientInv'
    BY <1>1, <1>5, HandleClient DEF Writes
  <2> QED BY <1>4, <2>1 DEF CoreInv
<1>6. CASE kind = "closelast"
  <2>1. \A d \in Clients \ {c} : pc'[d] = pc[d] /\ loc'[d] = loc[d]
    BY <1>1 DEF Alone, Procs
  <2>2. \A d \in Clients : pc'[d] \in Writes => loc'[d].fb = Cache'[loc'[d].fe]
    BY <1>1, <2>1 DEF ClientInv, Writes
  <2>3. \A d \in Clients : fl'[d].kind # "none" => pc'[d] \in {"flushing", "fsync", "synced"}
    BY <1>1, <2>1 DEF ClientInv
  <2>4. ASSUME NEW d \in Clients, fl'[d].kind = "closelast"
        PROVE  /\ pc'[d] = "flushing"
               /\ loc'[d].fb = Cache'[loc'[d].fe]
               /\ \A e \in Clients \ {d} : pc'[e] \notin Resting => loc'[e].fe # loc'[d].fe
               /\ \A k \in Keys : k[1] = loc'[d].fb /\ BufferMap'[k] # NoBuf
                                  => k[2] \in fl'[d].pend \/ fl'[d].failed
    <3>1. CASE d = c
      BY <1>1, <1>2, <1>6, <2>1, <3>1
    <3>2. CASE d # c
      <4>1. fl[d].kind = "closelast" /\ fl'[d] = fl[d]
        BY <1>1, <2>4, <3>2
      <4>2. pc[d] = "flushing" /\ loc[d].fb = Cache[loc[d].fe]
        BY <4>1 DEF ClientInv
      <4>3. \A e \in Clients \ {d} : pc'[e] \notin Resting => loc'[e].fe # loc'[d].fe
        BY <1>1, <2>1, <3>2, <4>1 DEF ClientInv
      <4> QED BY <1>1, <2>1, <3>2, <4>1, <4>2, <4>3 DEF ClientInv
    <3> QED BY <3>1, <3>2
  <2>5. ClientInv'
    BY <2>2, <2>3, <2>4 DEF ClientInv
  <2> QED BY <1>4, <2>5 DEF CoreInv
<1> QED BY <1>5, <1>6

\* Opening, flushing and closing a handle.
LEMMA HandleSafe ==
    ASSUME TypeInv, TypeInv', SafeInv, NEW c \in Clients, ~OpenDuringLastClose,
           pc[c] = "idle" => LastInv
    PROVE  (\/ \E f \in Files : Open(c, f)
            \/ Flush(c) \/ Close(c) \/ FlushToFsync(c) \/ FsyncReply(c) \/ FsyncReturn(c)
            \/ CloseFail(c) \/ CloseDone(c)) => SafeInv'
<1> USE DEF SafeInv
<1>0. c \in Procs
  BY DEF Procs
<1>1. ASSUME Alone(c), UNCHANGED <<BufferMap, LockMap, FreeList, LruList, chSync, buf, Cache, made>>,
             pc'[c] \notin Holding
      PROVE  TableInv' /\ CoreInv'
  <2>1. HomesStay
    BY <1>1, HomesKept
  <2> QED BY <1>1, <2>1, HandleCore DEF TableInv
<1>2. ASSUME NEW f \in Files, Open(c, f) PROVE SafeInv'
  <2>1. /\ pc[c] = "closed" /\ fl' = fl /\ loc' = [loc EXCEPT ![c].fe = f] /\ ~LastCloseRuns(f)
        /\ pc' = [pc EXCEPT ![c] = "idle"]
        /\ UNCHANGED <<BufferMap, LockMap, FreeList, LruList, chSync, buf, Cache, made>>
    BY <1>2 DEF Open, Goto, poolVars, tableVars
  <2>2. Alone(c) /\ pc'[c] = "idle" /\ loc'[c].fe = f /\ fl[c].kind = "none"
    BY <1>0, <2>1 DEF Alone, TypeInv, TypeOK, LocType, ClientInv
  <2>3. ClientInv'
    BY <2>1, <2>2, HandleClient DEF LastCloseRuns, Writes
  <2> QED BY <1>1, <2>1, <2>2, <2>3 DEF CoreInv, Holding
<1>3. ASSUME NEW kind \in {"fsync", "close", "closelast"}, StartFlush(c, kind),
             kind = "closelast" => IsLastRefer(c)
      PROVE  SafeInv'
  <2>1. PICK f \in Files : f = loc[c].fe /\ Starts(c, f, kind)
    BY <1>3, FlushStarts
  <2>2. LastInv /\ fl[c].kind = "none" /\ pc[c] = "idle"
    BY <1>3 DEF StartFlush, ClientInv
  <2>3. \A d \in Clients : fl[d].kind = "closelast" => f # loc[d].fe
    BY <2>1, <2>2 DEF LastInv
  <2>4. kind = "closelast" => \A d \in Clients \ {c} : pc[d] \notin Resting => loc[d].fe # f
    BY <1>3, <2>1 DEF IsLastRefer, Handles, Resting
  <2> QED BY <2>1, <2>3, <2>4, StartSafe
<1>4. ASSUME Flush(c) \/ Close(c) PROVE SafeInv'
  BY <1>3, <1>4 DEF Flush, Close
<1>5. ASSUME FlushToFsync(c) PROVE SafeInv'
  <2>1. /\ pc[c] = "flushing" /\ fl[c].kind = "fsync" /\ fl' = fl /\ loc' = loc
        /\ pc' = [pc EXCEPT ![c] = "fsync"]
        /\ UNCHANGED <<BufferMap, LockMap, FreeList, LruList, chSync, buf, Cache, made>>
    BY <1>5 DEF FlushToFsync, FlushReturned, Goto, poolVars, tableVars
  <2>2. Alone(c) /\ pc'[c] = "fsync"
    BY <1>0, <2>1 DEF Alone, TypeInv, TypeOK
  <2>3. ClientInv'
    BY <2>1, <2>2, HandleClient DEF Writes, Resting
  <2> QED BY <1>1, <2>1, <2>2, <2>3 DEF CoreInv, Holding
<1>6. ASSUME Return(c), fl' = [fl EXCEPT ![c] = NoFl], pc[c] # "closed",
             UNCHANGED <<BufferMap, LockMap, FreeList, LruList, chSync, buf, Cache, made>>
      PROVE  SafeInv'
  <2>1. fl'[c].kind = "none" /\ \A d \in Clients \ {c} : fl'[d] = fl[d]
    BY <1>6 DEF TypeInv, TypeOK, NoFl
  <2>2. Alone(c) /\ pc'[c] = "idle" /\ loc'[c].fe = loc[c].fe /\ pc'[c] \notin Holding
    BY <1>6, ReturnFacts
  <2>3. ClientInv'
    BY <1>6, <2>1, <2>2, HandleClient DEF Writes, Resting
  <2> QED BY <1>1, <1>6, <2>2, <2>3 DEF CoreInv
<1>7. ASSUME FsyncReply(c) PROVE SafeInv'
  <2>1. /\ pc[c] = "fsync"
        /\ UNCHANGED <<BufferMap, LockMap, FreeList, LruList, chSync, buf, Cache, made>>
    BY <1>7 DEF FsyncReply, poolVars, tableVars
  <2>2. CASE Return(c) /\ EndFlush(c)
    BY <1>6, <2>1, <2>2 DEF EndFlush
  <2>3. CASE Goto(c, "synced") /\ UNCHANGED <<loc, op, fl, snap>>
    <3>1. Alone(c) /\ pc'[c] = "synced" /\ loc' = loc /\ fl' = fl
      BY <1>0, <2>3 DEF Goto, Alone, TypeInv, TypeOK
    <3>2. fl[c].kind # "closelast"
      BY <2>1 DEF ClientInv
    <3>3. ClientInv'
      BY <2>1, <3>1, <3>2, HandleClient DEF Writes, Resting
    <3> QED BY <1>1, <2>1, <3>1, <3>3 DEF CoreInv, Holding
  <2> QED BY <1>7, <2>2, <2>3 DEF FsyncReply
<1>8. ASSUME FsyncReturn(c) \/ CloseFail(c) PROVE SafeInv'
  BY <1>6, <1>8 DEF FsyncReturn, CloseFail, FlushReturned, EndFlush, poolVars, tableVars
<1>9. ASSUME CloseDone(c) PROVE SafeInv'
  <2> DEFINE f == loc[c].fe
  <2>1. /\ pc[c] = "flushing" /\ fl[c].pend = {} /\ ~fl[c].failed
        /\ Cache' = IF fl[c].kind = "closelast" THEN [Cache EXCEPT ![f] = 0] ELSE Cache
        /\ fl' = [fl EXCEPT ![c] = NoFl]
        /\ loc' = [loc EXCEPT ![c] = NoLoc] /\ pc' = [pc EXCEPT ![c] = "closed"]
        /\ UNCHANGED <<BufferMap, LockMap, FreeList, LruList, chSync, buf, made>>
    BY <1>9 DEF CloseDone, FlushReturned, EndFlush, Goto, poolVars
  <2>2. /\ Alone(c) /\ pc'[c] = "closed" /\ fl'[c].kind = "none"
        /\ \A d \in Clients \ {c} : fl'[d] = fl[d]
    BY <1>0, <2>1 DEF Alone, TypeInv, TypeOK, NoFl
  <2>3. CASE fl[c].kind # "closelast"
    <3>1. ClientInv'
      BY <2>1, <2>2, <2>3, HandleClient DEF Writes, Resting
    <3> QED BY <1>1, <2>1, <2>2, <2>3, <3>1 DEF CoreInv, Holding
  <2>4. CASE fl[c].kind = "closelast"
    <3>1. f \in Files /\ loc[c].fb = Cache[f]
          /\ \A d \in Clients \ {c} : pc[d] \notin Resting => loc[d].fe # f
      BY <1>0, <2>1, <2>4 DEF ClientInv, TypeInv, BufferInv, LocalOK
    <3>2. Cache'[f] = 0 /\ \A g \in Files \ {f} : Cache'[g] = Cache[g]
      BY <2>1, <2>4, <3>1 DEF TypeInv, TypeOK
    <3>3. \A k \in Keys : k[1] = Cache[f] => BufferMap[k] = NoBuf
      BY <2>1, <2>4, <3>1 DEF ClientInv
    <3>4. HomesStay
      <4> SUFFICES ASSUME NEW b \in Buffers \ FreeList PROVE Home(b)' = Home(b)
        BY DEF HomesStay
      <4>1. Home(b) \in Keys /\ BufferMap[Home(b)] = b
        BY DEF AttachInv
      <4>2. buf[b].fe \in Files
        BY <4>1, WCacheAssumption DEF TypeInv, BufferInv, Named
      <4>3. buf[b].fe # f
        <5>1. Home(b)[1] = Cache[buf[b].fe]
          BY DEF Home
        <5> QED BY <3>3, <4>1, <5>1, WCacheAssumption
      <4> QED BY <2>1, <3>2, <4>2, <4>3 DEF Home
    <3>5. CoreInv'
      BY <2>1, <2>2, <3>4, HandleCore DEF Holding
    <3>6. TableInv'
      <4>1. \A g \in Files : Cache'[g] = 0 \/ (g # f /\ Cache'[g] = Cache[g])
        BY <3>2
      <4> QED BY <2>1, <4>1 DEF TableInv, TypeInv, TypeOK
    <3>7. ClientInv'
      <4>1. \A d \in Clients \ {c} : pc'[d] = pc[d] /\ loc'[d] = loc[d]
        BY <2>2 DEF Alone, Procs
      <4>2. \A d \in Clients \ {c} : pc[d] \notin Resting =>
               loc[d].fe \in Files /\ loc[d].fe # f /\ Cache'[loc[d].fe] = Cache[loc[d].fe]
        BY <3>1, <3>2 DEF TypeInv, BufferInv, LocalOK, Procs, Resting
      <4>3. \A d \in Clients : pc'[d] \in Writes => loc'[d].fb = Cache'[loc'[d].fe]
        BY <2>2, <4>1, <4>2 DEF ClientInv, Writes, Resting
      <4>4. \A d \in Clients : fl'[d].kind # "none" => pc'[d] \in {"flushing", "fsync", "synced"}
        BY <2>2, <4>1 DEF ClientInv
      <4>5. ASSUME NEW d \in Clients, fl'[d].kind = "closelast"
            PROVE  /\ pc'[d] = "flushing"
                   /\ loc'[d].fb = Cache'[loc'[d].fe]
                   /\ \A e \in Clients \ {d} : pc'[e] \notin Resting => loc'[e].fe # loc'[d].fe
                   /\ \A k \in Keys : k[1] = loc'[d].fb /\ BufferMap'[k] # NoBuf
                                      => k[2] \in fl'[d].pend \/ fl'[d].failed
        <5>1. d # c /\ fl'[d] = fl[d] /\ fl[d].kind = "closelast"
          BY <2>2, <4>5
        <5>2. pc[d] = "flushing" /\ loc[d].fb = Cache[loc[d].fe]
          BY <5>1 DEF ClientInv
        <5>3. \A e \in Clients \ {d} : pc'[e] \notin Resting => loc'[e].fe # loc'[d].fe
          BY <2>2, <4>1, <5>1 DEF ClientInv, Resting
        <5> QED BY <2>1, <4>1, <4>2, <5>1, <5>2, <5>3 DEF ClientInv, Resting
      <4> QED BY <4>3, <4>4, <4>5 DEF ClientInv
    <3> QED BY <3>5, <3>6, <3>7 DEF CoreInv
  <2> QED BY <2>3, <2>4
<1> QED BY <1>2, <1>4, <1>5, <1>7, <1>8, <1>9

-----------------------------------------------------------------------------
(* The last Close and the other handles *)

\* A step of one client that begins no last Close.
LEMMA LastKept ==
    ASSUME LastInv, NEW c \in Clients, Alone(c),
           \A d \in Clients \ {c} : fl'[d].kind = fl[d].kind,
           fl'[c].kind = "closelast" => fl[c].kind = "closelast" /\ loc'[c].fe = loc[c].fe,
           \/ pc[c] # "closed" /\ (pc'[c] = "closed" \/ loc'[c].fe = loc[c].fe)
           \/ \A d \in Clients : fl[d].kind = "closelast" => loc'[c].fe # loc[d].fe
    PROVE  LastInv'
<1>0. \A d \in Clients \ {c} : pc'[d] = pc[d] /\ loc'[d] = loc[d]
  BY DEF Alone, Procs
<1>1. ASSUME NEW d \in Clients, fl'[d].kind = "closelast", NEW e \in Clients \ {d}, pc'[e] # "closed"
      PROVE  loc'[e].fe # loc'[d].fe
  <2>1. fl[d].kind = "closelast" /\ loc'[d].fe = loc[d].fe
    BY <1>0, <1>1
  <2>2. CASE e = c /\ \A g \in Clients : fl[g].kind = "closelast" => loc'[c].fe # loc[g].fe
    BY <2>1, <2>2
  <2>3. CASE pc[e] # "closed" /\ loc'[e].fe = loc[e].fe
    BY <1>1, <2>1, <2>3 DEF LastInv
  <2> QED BY <1>0, <1>1, <2>2, <2>3
<1> QED BY <1>1 DEF LastInv

\* The calls on a handle and their steps.
LEMMA ClientLast ==
    ASSUME TypeInv, SafeInv, LastInv, ~OpenDuringLastClose, NEW c \in Clients,
           \/ \E f \in Files : Open(c, f)
           \/ \E x \in Blocks, off \in Cells, size \in 1 .. BlockSize : Write(c, x, off, size)
           \/ Flush(c) \/ Close(c) \/ ClientStep(c)
    PROVE  LastInv'
<1>0. c \in Procs /\ loc[c] \in LocType
  BY DEF Procs, TypeInv, TypeOK
<1>1. ASSUME pc[c] # "closed", Alone(c), loc'[c].fe = loc[c].fe \/ pc'[c] = "closed",
             (fl' = fl /\ pc'[c] # "closed") \/ fl' = [fl EXCEPT ![c] = NoFl]
      PROVE  LastInv'
  <2>1. /\ \A d \in Clients \ {c} : fl'[d].kind = fl[d].kind
        /\ fl'[c].kind = "closelast" => fl[c].kind = "closelast" /\ loc'[c].fe = loc[c].fe
    BY <1>1 DEF TypeInv, TypeOK, NoFl
  <2> QED BY <1>1, <2>1, LastKept
<1>2. ASSUME NEW f \in Files, Open(c, f) PROVE LastInv'
  <2>1. /\ pc[c] = "closed" /\ fl' = fl /\ loc' = [loc EXCEPT ![c].fe = f] /\ ~LastCloseRuns(f)
        /\ pc' = [pc EXCEPT ![c] = "idle"]
    BY <1>2 DEF Open, Goto
  <2>2. Alone(c) /\ loc'[c].fe = f /\ fl[c].kind = "none"
    BY <1>0, <2>1 DEF Alone, TypeInv, TypeOK, LocType, SafeInv, ClientInv
  <2> QED BY <2>1, <2>2, LastKept DEF LastCloseRuns
<1>3. ASSUME NEW x \in Blocks, NEW off \in Cells, NEW size \in 1 .. BlockSize, Write(c, x, off, size)
      PROVE  LastInv'
  <2>1. /\ pc[c] = "idle" /\ fl' = fl /\ pc' = [pc EXCEPT ![c] = "wlock"]
        /\ \E n : loc' = [loc EXCEPT ![c] = [loc[c] EXCEPT !.fb = n, !.blk = x]]
    BY <1>3 DEF Write, Goto
  <2>2. Alone(c) /\ loc'[c].fe = loc[c].fe /\ pc'[c] = "wlock"
    BY <1>0, <2>1 DEF Alone, TypeInv, TypeOK, LocType
  <2> QED BY <1>1, <2>1, <2>2
<1>4. ASSUME NEW kind \in {"fsync", "close", "closelast"}, StartFlush(c, kind),
             kind = "closelast" => IsLastRefer(c)
      PROVE  LastInv'
  <2>1. /\ pc[c] = "idle" /\ pc' = [pc EXCEPT ![c] = "flushing"]
        /\ \E n : loc' = [loc EXCEPT ![c].fb = n]
        /\ \E s : fl' = [fl EXCEPT ![c] = [kind |-> kind, mq |-> s, pend |-> s, failed |-> FALSE]]
    BY <1>4 DEF StartFlush, Goto
  <2>2. /\ Alone(c) /\ loc'[c].fe = loc[c].fe /\ fl'[c].kind = kind
        /\ \A d \in Clients \ {c} : fl'[d] = fl[d] /\ pc'[d] = pc[d] /\ loc'[d] = loc[d]
    BY <1>0, <2>1 DEF Alone, TypeInv, TypeOK, LocType, Procs
  <2>3. CASE kind # "closelast"
    BY <2>1, <2>2, <2>3, LastKept
  <2>4. CASE kind = "closelast"
    <3>1. \A d \in Clients \ {c} : pc[d] # "closed" => loc[d].fe # loc[c].fe
      BY <1>4, <2>4 DEF IsLastRefer, Handles
    <3> QED BY <2>1, <2>2, <3>1 DEF LastInv
  <2> QED BY <2>3, <2>4
<1>5. ASSUME Flush(c) \/ Close(c) PROVE LastInv'
  BY <1>4, <1>5 DEF Flush, Close
<1>6. ASSUME Return(c), pc[c] # "closed", fl' = fl \/ EndFlush(c) PROVE LastInv'
  BY <1>1, <1>6, ReturnFacts DEF EndFlush
<1>7. ASSUME pc[c] # "closed", NEW l, l # "closed", Goto(c, l), fl' = fl,
             \/ loc' = loc
             \/ \E b, r : loc' = [loc EXCEPT ![c] = [loc[c] EXCEPT !.cur = b, !.res = r]]
             \/ \E b : loc' = [loc EXCEPT ![c].cur = b]
      PROVE  LastInv'
  <2>1. Alone(c) /\ loc'[c].fe = loc[c].fe /\ pc'[c] = l
    BY <1>0, <1>7 DEF Goto, Alone, TypeInv, TypeOK, LocType
  <2> QED BY <1>1, <1>7, <2>1
<1>8. ASSUME WriteDirect(c) \/ WriteMerge(c) \/ WriteNoMerge(c) \/ \E b \in Buffers : WriteAlloc(c, b)
      PROVE  LastInv'
  <2>1. pc[c] = "wlock" /\ fl' = fl
    BY <1>8 DEF WriteDirect, WriteMerge, WriteNoMerge, WriteAlloc, AtWriteLock
  <2>2. \/ Return(c)
        \/ Goto(c, "wdirect") /\ loc' = loc
        \/ \E l \in {"wfull", "wsend", "wflush"} : Goto(c, l) /\ \E b : loc' = [loc EXCEPT ![c].cur = b]
    BY <1>8 DEF WriteDirect, WriteMerge, WriteNoMerge, WriteAlloc
  <2> QED BY <1>6, <1>7, <2>1, <2>2
<1>9. ASSUME Send(c) \/ WriteDirectDone(c) \/ WriteFullDone(c) \/ WriteFlushFail(c) \/ WriteFlushReuse(c)
      PROVE  LastInv'
  BY <1>6, <1>9 DEF Send, WriteDirectDone, WriteFullDone, WriteFlushFail, WriteFlushReuse
<1>10. ASSUME WriteFlushDirect(c) \/ FlushToFsync(c) PROVE LastInv'
  BY <1>7, <1>10 DEF WriteFlushDirect, FlushToFsync, FlushReturned
<1>11. ASSUME FsyncReply(c) \/ FsyncReturn(c) \/ CloseFail(c) PROVE LastInv'
  BY <1>6, <1>7, <1>11 DEF FsyncReply, FsyncReturn, CloseFail, FlushReturned
<1>12. ASSUME CloseDone(c) PROVE LastInv'
  <2>1. /\ pc[c] = "flushing" /\ pc' = [pc EXCEPT ![c] = "closed"] /\ loc' = [loc EXCEPT ![c] = NoLoc]
        /\ fl' = [fl EXCEPT ![c] = NoFl]
    BY <1>12 DEF CloseDone, FlushReturned, Goto, EndFlush
  <2>2. Alone(c) /\ pc'[c] = "closed"
    BY <1>0, <2>1 DEF Alone, TypeInv, TypeOK
  <2> QED BY <1>1, <2>1, <2>2
<1> QED BY <1>2, <1>3, <1>5, <1>8, <1>9, <1>10, <1>11, <1>12 DEF ClientStep

\* Every step: the goroutines change no handle and no reason of a Flush.
LEMMA NextLastInv ==
    ASSUME TypeInv, SafeInv, LastInv, ~OpenDuringLastClose, [Next]_vars
    PROVE  LastInv'
<1>0. /\ Clients \subseteq Procs
      /\ \A p \in Workers \cup Expirers \cup Syncers : p \notin Clients /\ p \in Procs
  BY WCacheAssumption DEF Procs
<1>1. ASSUME \A c \in Clients : pc'[c] = pc[c] /\ loc'[c].fe = loc[c].fe /\ fl'[c].kind = fl[c].kind
      PROVE  LastInv'
  BY <1>1 DEF LastInv
<1>2. ASSUME NEW c \in Clients,
             \/ \E f \in Files : Open(c, f)
             \/ \E x \in Blocks, off \in Cells, size \in 1 .. BlockSize : Write(c, x, off, size)
             \/ Flush(c) \/ Close(c) \/ ClientStep(c)
      PROVE  LastInv'
  BY <1>2, ClientLast
<1>3. ASSUME NEW p \in Workers \cup Expirers \cup Syncers, NEW l, Goto(p, l),
             NEW r, loc' = [loc EXCEPT ![p] = r], \A c \in Clients : fl'[c].kind = fl[c].kind
      PROVE  LastInv'
  BY <1>0, <1>1, <1>3 DEF Goto, TypeInv, TypeOK
<1>4. ASSUME NEW c \in Clients, NEW q, q.kind = fl[c].kind, fl' = [fl EXCEPT ![c] = q]
      PROVE  \A d \in Clients : fl'[d].kind = fl[d].kind
  BY <1>4 DEF TypeInv, TypeOK
<1>5. ASSUME NEW w \in Workers, TakeIndex(w) PROVE LastInv'
  <2>1. PICK x \in fl[w[1]].mq :
           /\ fl' = [fl EXCEPT ![w[1]] = [fl[w[1]] EXCEPT !.mq = @ \ {x}]]
           /\ loc' = [loc EXCEPT ![w] = [loc[w] EXCEPT !.fb = loc[w[1]].fb, !.blk = x]]
    BY <1>5 DEF TakeIndex
  <2>2. w[1] \in Clients /\ fl[w[1]] \in FlType
    BY DEF Workers, TypeInv, TypeOK
  <2>3. [fl[w[1]] EXCEPT !.mq = @ \ {x}].kind = fl[w[1]].kind
    BY <2>2 DEF FlType
  <2>4. \A c \in Clients : fl'[c].kind = fl[c].kind
    BY <1>4, <2>1, <2>2, <2>3
  <2>5. Goto(w, "flock")
    BY <1>5 DEF TakeIndex
  <2> QED BY <1>3, <2>1, <2>4, <2>5
<1>6. ASSUME NEW p \in Workers \cup Expirers, NEW failed, Report(p, failed) PROVE LastInv'
  <2>1. \A c \in Clients : fl'[c].kind = fl[c].kind
    <3>1. CASE p \in Workers
      <4>1. p[1] \in Clients /\ fl[p[1]] \in FlType
        BY <3>1 DEF Workers, TypeInv, TypeOK
      <4>2. Result(fl[p[1]], loc[p].blk, failed).kind = fl[p[1]].kind
        BY <4>1 DEF Result, FlType
      <4> QED BY <1>4, <1>6, <3>1, <4>1, <4>2 DEF Report
    <3>2. CASE p \notin Workers
      BY <1>6, <3>2 DEF Report
    <3> QED BY <3>1, <3>2
  <2> QED BY <1>3, <1>6, <2>1 DEF Report
<1>7. ASSUME NEW p \in Workers \cup Expirers, FlushStep(p) PROVE LastInv'
  <2>1. CASE FlushLock(p)
    BY <1>3, <2>1 DEF FlushLock
  <2>2. CASE FlushNothing(p) \/ FlushDone(p)
    BY <1>6, <2>2 DEF FlushNothing, FlushDone
  <2> QED BY <1>7, <2>1, <2>2 DEF FlushStep
<1>8. ASSUME NEW e \in Expirers, ExpireStep(e) PROVE LastInv'
  BY <1>3, <1>8 DEF ExpireStep, LruExpire, ExpireLookup
<1>9. ASSUME NEW s \in Syncers, SyncStep(s) PROVE LastInv'
  <2>1. CASE SyncTake(s) \/ SyncUnlock(s)
    BY <1>3, <1>9, <2>1 DEF SyncTake, SyncUnlock
  <2>2. CASE SyncDone(s)
    <3>1. fl' = fl /\ \E l, r : Goto(s, l) /\ (loc' = loc \/ loc' = [loc EXCEPT ![s] = r])
      BY <2>2 DEF SyncDone
    <3> QED BY <1>0, <1>1, <3>1 DEF Goto, TypeInv, TypeOK
  <2> QED BY <1>9, <2>1, <2>2 DEF SyncStep
<1>10. ASSUME NEW p \in Procs, Rpc(p) PROVE LastInv'
  <2>1. \E r : Reply(p, r)
    BY <1>10 DEF Rpc, RpcOk, RpcEio, RpcGone
  <2>2. PICK r : Reply(p, r)
    BY <2>1
  <2>3. /\ pc[p] \in DOMAIN Replied /\ pc' = [pc EXCEPT ![p] = Replied[pc[p]]]
        /\ loc' = [loc EXCEPT ![p].res = r] /\ fl' = fl
    BY <2>2 DEF Reply, Goto
  <2>4. Alone(p) /\ loc'[p].fe = loc[p].fe
    BY <2>3 DEF Alone, TypeInv, TypeOK, LocType
  <2>5. CASE p \in Clients
    <3>1. pc[p] # "closed"
      BY <2>3 DEF Replied
    <3> QED BY <2>3, <2>4, <2>5, <3>1, LastKept
  <2>6. CASE p \notin Clients
    BY <1>0, <1>1, <2>3, <2>4, <2>6 DEF Alone
  <2> QED BY <2>5, <2>6
<1>11. CASE (\E f \in Unlinks : Unlink(f)) \/ UNCHANGED vars
  BY <1>1, <1>11 DEF Unlink, vars, localVars
<1> QED BY <1>2, <1>5, <1>7, <1>8, <1>9, <1>10, <1>11 DEF Next

-----------------------------------------------------------------------------
(* The block SyncWrite unlocks *)

\* A step of one process that leaves the buffers SyncWrite has freed to their blocks.
LEMMA UnlockKept ==
    ASSUME UnlockInv, NEW p \in Procs, Alone(p), pc'[p] # "syncU",
           \/ buf' = buf
           \/ \A s \in Syncers : pc[s] = "syncU" => buf'[loc[s].cur].BlkIdx = buf[loc[s].cur].BlkIdx
    PROVE  UnlockInv'
<1> SUFFICES ASSUME NEW q \in Procs, pc'[q] = "syncU"
             PROVE  /\ q \in Syncers /\ loc'[q].cur \in Buffers
                    /\ buf'[loc'[q].cur].BlkIdx = loc'[q].blk
  BY DEF UnlockInv
<1>1. pc[q] = "syncU" /\ loc'[q] = loc[q]
  BY DEF Alone
<1> QED BY <1>1 DEF UnlockInv

\* The steps of a client: a Write may give a free buffer to its block.
LEMMA ClientUnlock ==
    ASSUME TypeInv, TypeInv', SafeInv, UnlockInv, OwnUnlock, NEW c \in Clients,
           \/ \E f \in Files : Open(c, f)
           \/ \E x \in Blocks, off \in Cells, size \in 1 .. BlockSize : Write(c, x, off, size)
           \/ Flush(c) \/ Close(c) \/ ClientStep(c)
    PROVE  UnlockInv'
<1>0. c \in Procs
  BY DEF Procs
<1>1. ASSUME NEW l, l # "syncU", Goto(c, l), loc' = loc \/ \E r : loc' = [loc EXCEPT ![c] = r]
      PROVE  Alone(c) /\ pc'[c] # "syncU"
  BY <1>0, <1>1 DEF Goto, Alone, TypeInv, TypeOK
<1>2. ASSUME Return(c) PROVE Alone(c) /\ pc'[c] # "syncU"
  BY <1>2, ReturnFacts
<1>3. ASSUME \/ \E f \in Files : Open(c, f)
             \/ \E x \in Blocks, off \in Cells, size \in 1 .. BlockSize : Write(c, x, off, size)
             \/ Flush(c) \/ Close(c)
      PROVE  UnlockInv'
  <2>1. buf' = buf
    BY <1>3 DEF Open, Write, Flush, Close, StartFlush, poolVars
  <2>2. Alone(c) /\ pc'[c] # "syncU"
    BY <1>1, <1>3 DEF Open, Write, Flush, Close, StartFlush
  <2> QED BY <1>0, <2>1, <2>2, UnlockKept
<1>4. ASSUME WriteDirect(c) \/ WriteNoMerge(c) PROVE UnlockInv'
  <2>1. buf' = buf /\ Alone(c) /\ pc'[c] # "syncU"
    BY <1>1, <1>4 DEF WriteDirect, WriteNoMerge, poolVars
  <2> QED BY <1>0, <2>1, UnlockKept
<1>5. ASSUME NEW b \in Buffers, WriteAlloc(c, b) PROVE UnlockInv'
  <2>1. Alone(c) /\ pc'[c] # "syncU"
    BY <1>1, <1>2, <1>5 DEF WriteAlloc
  <2>2. buf' = [buf EXCEPT ![b] = OpBuffer(loc[c].fe, loc[c].blk, Versioned(c))]
    BY <1>5 DEF WriteAlloc
  <2>3. ASSUME NEW s \in Syncers, pc[s] = "syncU"
        PROVE  buf'[loc[s].cur].BlkIdx = buf[loc[s].cur].BlkIdx
    <3>1. loc[s].cur \in Buffers
      BY <2>3 DEF UnlockInv, Procs
    <3>2. CASE AllocBeforeUnlock
      <4>1. \A x, y \in Blocks : x = y
        BY <3>2 DEF OwnUnlock
      <4>2. buf'[loc[s].cur] \in BufferType /\ buf[loc[s].cur] \in BufferType
        BY <3>1 DEF TypeInv, TypeOK
      <4> QED BY <4>1, <4>2 DEF BufferType
    <3>3. CASE ~AllocBeforeUnlock
      <4>1. b # loc[s].cur
        BY <1>5, <2>3, <3>3 DEF WriteAlloc, Unlocking
      <4> QED BY <2>2, <3>1, <4>1 DEF TypeInv, TypeOK
    <3> QED BY <3>2, <3>3
  <2> QED BY <1>0, <2>1, <2>3, UnlockKept
<1>6. ASSUME WriteMerge(c) PROVE UnlockInv'
  <2> DEFINE b == BufferMap[Key(c)]
             m == MergeData(buf[b], op[c].RwSize, ver + 1)
  <2>1. Alone(c) /\ pc'[c] # "syncU"
    <3>1. \/ Return(c)
          \/ /\ loc' = [loc EXCEPT ![c].cur = BufferMap[Key(c)]]
             /\ Goto(c, IF SyncIo THEN "wfull" ELSE "wsend")
      BY <1>6 DEF WriteMerge
    <3> QED BY <1>1, <1>2, <3>1
  <2>2. buf' = [buf EXCEPT ![b] = m] /\ b # NoBuf
    BY <1>6 DEF WriteMerge
  <2>3. b \in Buffers
    <3>1. Key(c) \in Keys
      BY <1>0, <1>6, HolderFacts DEF WriteMerge, AtWriteLock, Located, SafeInv, CoreInv
    <3> QED BY <2>2, <3>1 DEF TypeInv, TypeOK
  <2>4. m.BlkIdx = buf[b].BlkIdx
    <3>1. /\ buf[b] \in BufferType /\ op[c].RwSize \in Nat /\ ver + 1 \in Nat
      BY <2>3 DEF TypeInv, TypeOK, OpType
    <3>2. buf[b].Offset + buf[b].Len + op[c].RwSize <= BlockSize
      BY <1>6 DEF WriteMerge, CanMerge, OpType, TypeInv, TypeOK
    <3> QED BY <3>1, <3>2, MergeDataType
  <2> HIDE DEF m, b
  <2>5. \A d \in Buffers : buf'[d].BlkIdx = buf[d].BlkIdx
    BY <2>2, <2>3, <2>4 DEF TypeInv, TypeOK
  <2>6. \A s \in Syncers : pc[s] = "syncU" => loc[s].cur \in Buffers
    BY DEF UnlockInv, Procs
  <2> QED BY <1>0, <2>1, <2>5, <2>6, UnlockKept
<1>7. ASSUME Send(c) \/ WriteDirectDone(c) \/ WriteFullDone(c) \/ WriteFlushFail(c)
      PROVE  UnlockInv'
  <2>1. buf' = buf /\ Return(c)
    BY <1>7 DEF Send, WriteDirectDone, WriteFullDone, WriteFlushFail, poolVars
  <2> QED BY <1>0, <1>2, <2>1, UnlockKept
<1>8. ASSUME WriteFlushDirect(c) \/ FlushToFsync(c) \/ FsyncReply(c) \/ FsyncReturn(c)
             \/ CloseFail(c) \/ CloseDone(c)
      PROVE  UnlockInv'
  <2>1. buf' = buf
    BY <1>8 DEF WriteFlushDirect, FlushToFsync, FsyncReply, FsyncReturn, CloseFail, CloseDone, poolVars
  <2>2. Alone(c) /\ pc'[c] # "syncU"
    BY <1>1, <1>2, <1>8 DEF WriteFlushDirect, FlushToFsync, FsyncReply, FsyncReturn, CloseFail, CloseDone
  <2> QED BY <1>0, <2>1, <2>2, UnlockKept
<1>9. ASSUME WriteFlushReuse(c) PROVE UnlockInv'
  <2>1. /\ Return(c) /\ pc[c] = "wflushR"
        /\ buf' = [buf EXCEPT ![loc[c].cur] = OpBuffer(loc[c].fe, loc[c].blk, op[c])]
    BY <1>9 DEF WriteFlushReuse
  <2>2. loc[c].fe \in Files /\ loc[c].blk \in Blocks /\ op[c] \in OpType
    BY <1>0, <2>1 DEF TypeInv, TypeOK, LocType, BufferInv, LocalOK
  <2>3. Home(loc[c].cur) = Key(c) /\ loc[c].cur \in Buffers
    BY <1>0, <2>1, HolderFacts DEF SafeInv, CoreInv, Working, Holding
  <2>4. buf'[loc[c].cur].BlkIdx = buf[loc[c].cur].BlkIdx
    BY <2>1, <2>2, <2>3, OpBufferType DEF TypeInv, TypeOK, Home, Key
  <2>5. \A d \in Buffers : buf'[d].BlkIdx = buf[d].BlkIdx
    BY <2>1, <2>3, <2>4 DEF TypeInv, TypeOK
  <2>6. \A s \in Syncers : pc[s] = "syncU" => loc[s].cur \in Buffers
    BY DEF UnlockInv, Procs
  <2> QED BY <1>0, <1>2, <2>1, <2>5, <2>6, UnlockKept
<1> QED BY <1>3, <1>4, <1>5, <1>6, <1>7, <1>8, <1>9 DEF ClientStep

\* The goroutines change no buffer, and SyncWrite frees the one of its block.
LEMMA NextUnlockInv ==
    ASSUME OwnUnlock, TypeInv, TypeInv', SafeInv, UnlockInv, [Next]_vars
    PROVE  UnlockInv'
<1>0. /\ Workers \cup Expirers \cup Syncers \subseteq Procs
      /\ \A s \in Syncers : s \in Procs
  BY DEF Procs
<1>1. ASSUME NEW p \in Procs, NEW l, l # "syncU", Goto(p, l), NEW r, loc' = [loc EXCEPT ![p] = r],
             buf' = buf
      PROVE  UnlockInv'
  <2>1. Alone(p) /\ pc'[p] # "syncU"
    BY <1>1 DEF Goto, Alone, TypeInv, TypeOK
  <2> QED BY <1>1, <2>1, UnlockKept
<1>2. ASSUME NEW c \in Clients,
             \/ \E f \in Files : Open(c, f)
             \/ \E x \in Blocks, off \in Cells, size \in 1 .. BlockSize : Write(c, x, off, size)
             \/ Flush(c) \/ Close(c) \/ ClientStep(c)
      PROVE  UnlockInv'
  BY <1>2, ClientUnlock
<1>3. ASSUME NEW w \in Workers, TakeIndex(w) PROVE UnlockInv'
  BY <1>0, <1>1, <1>3 DEF TakeIndex, poolVars
<1>4. ASSUME NEW p \in Workers \cup Expirers, FlushStep(p) PROVE UnlockInv'
  BY <1>0, <1>1, <1>4 DEF FlushStep, FlushLock, FlushNothing, FlushDone, Report, poolVars
<1>5. ASSUME NEW e \in Expirers, ExpireStep(e) PROVE UnlockInv'
  BY <1>0, <1>1, <1>5 DEF ExpireStep, LruExpire, ExpireLookup, poolVars
<1>6. ASSUME NEW s \in Syncers, SyncTake(s) \/ SyncUnlock(s) PROVE UnlockInv'
  BY <1>0, <1>1, <1>6 DEF SyncTake, SyncUnlock, poolVars
<1>7. ASSUME NEW s \in Syncers, SyncDone(s) PROVE UnlockInv'
  <2>1. CASE Goto(s, "idle") /\ loc' = [loc EXCEPT ![s] = NoLoc]
    BY <1>0, <1>1, <1>7, <2>1 DEF SyncDone
  <2>2. CASE Goto(s, "syncU") /\ loc' = loc
    <3>1. pc[s] = "syncR" /\ buf' = buf
      BY <1>7 DEF SyncDone
    <3>2. loc[s].cur \in Buffers /\ Home(loc[s].cur) = Key(s)
      BY <1>0, <3>1, HolderFacts DEF SafeInv, CoreInv, Working, Holding
    <3>3. buf[loc[s].cur].BlkIdx = loc[s].blk
      BY <3>2 DEF Home, Key
    <3>4. \A q \in Procs : q # s => pc'[q] = pc[q]
      BY <2>2 DEF Goto, TypeInv, TypeOK
    <3> QED BY <2>2, <3>1, <3>2, <3>3, <3>4 DEF UnlockInv
  <2> QED BY <1>7, <2>1, <2>2 DEF SyncDone
<1>8. ASSUME NEW p \in Procs, Rpc(p) PROVE UnlockInv'
  <2>1. PICK r \in {"ok", "eio", "enoent"} : Reply(p, r)
    BY <1>8 DEF Rpc, RpcOk, RpcEio, RpcGone
  <2>2. /\ pc[p] \in DOMAIN Replied /\ Goto(p, Replied[pc[p]]) /\ buf' = buf
        /\ loc' = [loc EXCEPT ![p] = [loc[p] EXCEPT !.res = r]]
    BY <2>1 DEF Reply, poolVars
  <2>3. Replied[pc[p]] # "syncU"
    BY <2>2 DEF Replied
  <2> QED BY <1>1, <2>2, <2>3
<1>9. CASE (\E f \in Unlinks : Unlink(f)) \/ UNCHANGED vars
  BY <1>9 DEF Unlink, vars, poolVars, localVars, UnlockInv
<1> QED BY <1>2, <1>3, <1>4, <1>5, <1>6, <1>7, <1>8, <1>9 DEF Next, SyncStep

-----------------------------------------------------------------------------
(* The theorems *)

\* The initial state.
LEMMA InitSafeInv == Init => SafeInv /\ UnlockInv /\ LastInv
<1> SUFFICES ASSUME Init PROVE SafeInv /\ UnlockInv /\ LastInv
  OBVIOUS
<1>1. TableInv
  BY DEF Init, TableInv
<1>2. AttachInv
  BY DEF Init, AttachInv
<1>3. \A p \in Procs : pc[p] \in {"closed", "idle"}
  BY DEF Init
<1>4. LockInv /\ QueueInv
  BY <1>3 DEF Init, LockInv, QueueInv, Holding, Working
<1>5. ClientInv
  <2>1. Clients \subseteq Procs
    BY DEF Procs
  <2> QED BY <1>3, <2>1 DEF Init, ClientInv, NoFl, Writes
<1>6. LastInv
  BY DEF Init, LastInv, NoFl
<1>7. UnlockInv
  BY <1>3 DEF UnlockInv
<1> QED BY <1>1, <1>2, <1>4, <1>5, <1>6, <1>7 DEF SafeInv

\* No call on a handle begins.
NobodyBegins == \A c \in Clients : pc[c] = "idle" => pc'[c] = "idle"

\* Every step keeps the invariant when no Open overlaps a last Close, and no call
\* begins on a file that is being closed.
LEMMA NextSafeInv ==
    ASSUME ~OpenDuringLastClose, TypeInv, TypeInv', SafeInv, UnlockInv, LastInv \/ NobodyBegins,
           [Next]_vars
    PROVE  SafeInv'
<1>0. Clients \subseteq Procs /\ Workers \subseteq Procs /\ Expirers \subseteq Procs
      /\ Syncers \subseteq Procs
  BY DEF Procs
<1>1. ASSUME NEW c \in Clients,
             \/ \E f \in Files : Open(c, f)
             \/ \E x \in Blocks, off \in Cells, size \in 1 .. BlockSize : Write(c, x, off, size)
             \/ Flush(c) \/ Close(c) \/ ClientStep(c)
      PROVE  SafeInv'
  <2>1. ASSUME NEW l, l # "idle", Goto(c, l), pc[c] = "idle" PROVE LastInv
    BY <1>0, <2>1 DEF Goto, NobodyBegins, TypeInv, TypeOK
  <2>2. ASSUME NEW x \in Blocks, NEW off \in Cells, NEW size \in 1 .. BlockSize, Write(c, x, off, size)
        PROVE  SafeInv'
    <3>1. LastInv
      BY <2>1, <2>2 DEF Write
    <3> QED BY <2>2, <3>1, WriteSafe
  <2>3. ASSUME Flush(c) \/ Close(c) PROVE SafeInv'
    <3>1. LastInv
      BY <2>1, <2>3 DEF Flush, Close, StartFlush
    <3> QED BY <2>3, <3>1, HandleSafe
  <2>4. ASSUME \/ \E f \in Files : Open(c, f)
               \/ FlushToFsync(c) \/ FsyncReply(c) \/ FsyncReturn(c) \/ CloseFail(c) \/ CloseDone(c)
        PROVE  SafeInv'
    <3>1. pc[c] # "idle"
      BY <2>4 DEF Open, FlushToFsync, FsyncReply, FsyncReturn, CloseFail, CloseDone, FlushReturned
    <3> QED BY <2>4, <3>1, HandleSafe
  <2> QED BY <1>1, <2>2, <2>3, <2>4, WriteOpSafe, WriteEndSafe, Zenon DEF ClientStep
<1>2. ASSUME NEW w \in Workers, TakeIndex(w) PROVE SafeInv'
  BY <1>0, <1>2, ExpireSafe
<1>3. ASSUME NEW p \in Workers \cup Expirers, FlushStep(p) PROVE SafeInv'
  BY <1>3, FlushSafe
<1>4. ASSUME NEW e \in Expirers, ExpireStep(e) PROVE SafeInv'
  BY <1>0, <1>4, ExpireSafe
<1>5. ASSUME NEW s \in Syncers, SyncStep(s) PROVE SafeInv'
  BY <1>5, SyncSafe
<1>6. ASSUME NEW p \in Procs, Rpc(p) PROVE SafeInv'
  BY <1>6, RpcSafe
<1>7. CASE (\E f \in Unlinks : Unlink(f)) \/ UNCHANGED vars
  <2>1. UNCHANGED <<poolVars, tableVars, localVars>>
    BY <1>7 DEF Unlink, vars
  <2> QED
    BY <2>1 DEF SafeInv, TableInv, AttachInv, Home, LockInv, QueueInv, ClientInv, Key,
       poolVars, tableVars, localVars
<1> QED BY <1>1, <1>2, <1>3, <1>4, <1>5, <1>6, <1>7 DEF Next

\* The invariant of locks and buffers holds in every reachable state.
LEMMA SafeInvHolds ==
    ASSUME ~OpenDuringLastClose, OwnUnlock
    PROVE  Spec => [](TypeInv /\ SafeInv /\ UnlockInv /\ LastInv)
<1> DEFINE I == TypeInv /\ SafeInv /\ UnlockInv /\ LastInv
<1>1. Init => I
  BY InitTypeInv, InitSafeInv
<1>2. I /\ [Next]_vars => I'
  BY NextTypeInv, NextSafeInv, NextUnlockInv, NextLastInv
<1> QED BY <1>1, <1>2, PTL DEF Spec

LEMMA SafeNoPanic ==
    ASSUME TypeInv, SafeInv, UnlockInv
    PROVE  NoPanic
<1>1. ASSUME NEW b \in chSync PROVE Cache[buf[b].fe] # 0
  <2>1. Home(b) \in Keys
    BY DEF SafeInv, QueueInv, AttachInv, TypeInv, TypeOK
  <2> QED BY <2>1 DEF Home, Keys, FileBufs
<1>2. ASSUME NEW p \in Procs, pc[p] \in Holding PROVE LockMap[UnlockKey(p)] = WriteLock
  <2>1. UnlockKey(p) = Key(p)
    BY DEF UnlockKey, UnlockInv, SyncKey, Key
  <2> QED BY <1>2, <2>1 DEF SafeInv, LockInv
<1> QED BY <1>1, <1>2 DEF SafeInv, AttachInv, LockInv, NoPanic

\* No Assert of the write path fails, for any number of handles, goroutines and
\* buffers, unless a file is opened again while its last handle is being closed,
\* or a Write takes a buffer for another block between SyncWrite's FreeBuffer and
\* its UnLockBuffer.
THEOREM NoAssertFails ==
    ASSUME ~OpenDuringLastClose, OwnUnlock
    PROVE  Spec => []NoPanic
<1>1. TypeInv /\ SafeInv /\ UnlockInv => NoPanic
  BY SafeNoPanic
<1> QED BY <1>1, SafeInvHolds, PTL

\* No buffer is lost and none serves two blocks, under the same provisos.
THEOREM BuffersConserved ==
    ASSUME ~OpenDuringLastClose, OwnUnlock
    PROVE  Spec => []BufferConservation
<1>1. TypeInv /\ SafeInv => BufferConservation
  <2> SUFFICES ASSUME TypeInv, SafeInv, NEW b \in Buffers
               PROVE  LET at == {k \in Keys : BufferMap[k] = b}
                      IN  IF b \in FreeList THEN at = {} ELSE Cardinality(at) = 1
    BY DEF BufferConservation
  <2> DEFINE at == {k \in Keys : BufferMap[k] = b}
  <2>0. b # NoBuf
    BY WCacheAssumption
  <2>1. CASE b \in FreeList
    BY <2>0, <2>1 DEF SafeInv, AttachInv
  <2>2. CASE b \notin FreeList
    <3>1. at = {Home(b)}
      BY <2>0, <2>2 DEF SafeInv, AttachInv
    <3>2. Cardinality(at) = 1
      BY <3>1, FS_Singleton
    <3> QED BY <2>2, <3>2
  <2> QED BY <2>1, <2>2
<1> QED BY <1>1, SafeInvHolds, PTL
=============================================================================
