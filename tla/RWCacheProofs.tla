--------------------------- MODULE RWCacheProofs ---------------------------
(***************************************************************************)
(* Proofs about reading through both caches, for any number of handles,    *)
(* prefetchers, expirers, blocks and buffers: the locks of the read path,  *)
(* the buffers of the read cache, Clean after a Write, and what a Read     *)
(* that asks the server returns.                                           *)
(***************************************************************************)
EXTENDS RWCache, FiniteSetTheorems, WellFoundedInduction, TLAPS

-----------------------------------------------------------------------------
(* The inductive invariant *)

Reading  == {"prefetch", "psend", "rlockw", "rlockr", "rpc", "rhit", "rmerge"}
Locking  == {"rlockr", "rpc", "rhit", "rmerge"}   \* with the lock of the write cache
Changing == {"write", "clookup", "clean"}
Closing  == {"wait", "release", "wclose"}

\* A call stays within its blocks, and the FileBuffer it found stays the one of
\* the file.
CallOK(t) ==
    /\ pc[t] \in Reading \cup Changing => loc[t].lo <= loc[t].cur /\ loc[t].cur < loc[t].hi
    /\ pc[t] = "clookup" => loc[t].cur = loc[t].lo
    /\ pc[t] \in Reading \cup {"clean", "wait", "release"} => loc[t].fb = Cache /\ Cache # 0
    /\ pc[t] = "psend" => loc[t].todo # {}
CallInv == \A t \in Threads : CallOK(t)

\* A window is a range, and only the first one is empty, unless PrefetchTimes is 0.
WindowOK(w) ==
    w.BlkStart <= w.BlkEnd /\ (PrefetchTimes # 0 /\ Size(w) = 0 => w.BlkStart = 0)
WindowInv == \A b \in FileBufs : WindowOK(pw[b])

\* The last Close is alone, and knows the buffers that are left when the prefetch
\* is over.
CloseInv ==
    \A t \in Threads :
        /\ pc[t] \in Closing => \A u \in Threads \ {t} : pc[u] = "closed"
        /\ pc[t] = "release" => \A x \in Blocks :
              /\ LockMap[<<Cache, x>>] = Free
              /\ BufferMap[<<Cache, x>>] # None => x \in loc[t].todo

\* Other FileBuffers than that of the file have neither locks nor buffers.
FileInv == \A k \in Keys : k[1] # Cache => LockMap[k] = Free /\ BufferMap[k] = None

\* Block x is locked on behalf of p, or of its op in chPrefetch.
Holds(p, x) ==
    \/ p \in Threads /\ pc[p] = "psend" /\ x = First(loc[p].todo)
    \/ p \in Prefetchers /\ pc[p] \in {"fetch", "attach"} /\ x = loc[p].cur
Held(x) == Cache # 0 /\ LockMap[<<Cache, x>>] = WriteLock /\ BufferMap[<<Cache, x>>] = None

OwnerInv ==
    /\ \A x \in chPrefetch : Held(x)
    /\ \A p \in Procs, x \in 0 .. MaxBlock + 1 : Holds(p, x) =>
          /\ x \in Blocks /\ loc[p].fb = Cache /\ Held(x) /\ x \notin chPrefetch
          /\ \A q \in Procs : Holds(q, x) => q = p

\* The locks count their readers.
Readers(k)  == {t \in Threads : pc[t] = "rpc" /\ RKey(t) = k}
WReaders(x) == {t \in Threads : pc[t] \in Locking /\ loc[t].wfb /\ loc[t].cur = x}
Counts(l, S) == IF l = WriteLock THEN S = {} ELSE l = Cardinality(S)

ReaderInv ==
    /\ \A k \in Keys : Counts(LockMap[k], Readers(k))
    /\ \A x \in Blocks : Counts(wlock[x], WReaders(x))

\* CheckExpire has taken the buffer of k from the LruList.
Expiring(e, k) ==
    /\ loc[e].cur = k[2]
    /\ pc[e] = "elookup" \/ (pc[e] = "erelease" /\ loc[e].fb = k[1])

BufferInv ==
    /\ free + Cardinality(Attached) = BufferMax
    /\ LruList \subseteq Attached
    /\ \A k \in Attached : k \in LruList \/ \E e \in Expirers : Expiring(e, k)
    /\ \A e \in Expirers :
          /\ pc[e] \in {"elookup", "erelease"} => loc[e].cur \in Blocks
          /\ pc[e] = "erelease" => loc[e].fb # 0

\* t has yet to clean block x.
WillClean(t, x) ==
    \/ pc[t] \in {"write", "clookup"} /\ x \in loc[t].lo .. loc[t].hi - 1
    \/ pc[t] = "clean" /\ x \in loc[t].cur .. loc[t].hi - 1

\* Data of a block, in a buffer or on its way to one, is as new as the last write
\* of the block, or will be cleaned.
UpToDate(x, n) == n = latest[x] \/ \E t \in Threads : WillClean(t, x)
CleanInv ==
    /\ \A k \in Attached : UpToDate(k[2], seen[k])
    /\ \A p \in Prefetchers : pc[p] = "attach" => UpToDate(loc[p].cur, loc[p].seen)

\* The byte of block x as the caches hold it.
Newest(x) == IF wbuf[x] # 0 THEN wbuf[x] ELSE disk[x]

\* A buffer is newer than the server, and nothing that was accepted is lost.
DataOK(x) ==
    /\ disk[x] <= Newest(x) /\ Newest(x) <= ver /\ latest[x] <= Newest(x) /\ ended[x] <= latest[x]
    /\ wlock[x] = WriteLock => wbuf[x] # 0
    /\ ~wCache => wbuf[x] = 0

\* A Read that looked for the FileBuffer of the write cache before there was one
\* finds what it has to return on the server.
ReadOK(t) ==
    /\ pc[t] = "write" => wCache
    /\ \A x \in Blocks : snap[t][x] <= ended[x]
    /\ pc[t] \in {"rlockw"} \cup Locking /\ ~loc[t].wfb => \A x \in Blocks : snap[t][x] <= disk[x]
    /\ pc[t] = "rmerge" => Fresh(t)

DataInv == (\A x \in Blocks : DataOK(x)) /\ (\A t \in Threads : ReadOK(t))

Inv ==
    /\ TypeOK /\ CallInv /\ WindowInv /\ CloseInv /\ FileInv /\ OwnerInv /\ ReaderInv
    /\ BufferInv /\ CleanInv /\ DataInv

-----------------------------------------------------------------------------
(* Constants, blocks and keys *)

LEMMA Consts ==
    /\ Blocks \subseteq Nat /\ IsFiniteSet(Blocks) /\ \A x \in Blocks : x <= MaxBlock
    /\ MaxBlock \in Nat /\ MaxFileBufs \in Nat /\ BufferMax \in Nat /\ PrefetchTimes \in Nat
    /\ IsFiniteSet(Keys) /\ IsFiniteSet(Threads)
    /\ Threads \subseteq Procs /\ Prefetchers \subseteq Procs /\ Expirers \subseteq Procs
    /\ Threads \cap Prefetchers = {} /\ Threads \cap Expirers = {} /\ Prefetchers \cap Expirers = {}
<1>1. IsFiniteSet(FileBufs) /\ IsFiniteSet(Blocks)
  BY RWCacheAssumption, FS_Interval DEF FileBufs, Blocks
<1>2. IsFiniteSet(Keys)
  BY <1>1, FS_Product DEF Keys
<1> QED BY <1>1, <1>2, RWCacheAssumption DEF Blocks, Procs

\* The first block of a set of blocks.
LEMMA FirstFacts ==
    ASSUME NEW S \in SUBSET Blocks, S # {}
    PROVE  First(S) \in S
<1> DEFINE R == OpToRel(<, Nat)
<1>1. S \subseteq Nat
  BY Consts
<1>2. IsWellFoundedOn(R, Nat)
  BY NatLessThanWellFounded
<1>3. \A x, y \in Nat : y < x => <<y, x>> \in R
  BY DEF OpToRel
<1> HIDE DEF R
<1>4. PICK m \in S : \A y \in S : ~ (<<y, m>> \in R)
  BY <1>1, <1>2, WFMin
<1>5. ASSUME NEW y \in S PROVE m <= y
  <2>1. m \in Nat /\ y \in Nat
    BY <1>1
  <2>2. ~(y < m)
    BY <1>3, <1>4, <2>1
  <2> QED BY <2>1, <2>2
<1> QED BY <1>5 DEF First

\* What TypeOK says of a process and of the block it is at.
LEMMA LocFacts ==
    ASSUME TypeOK, NEW p \in Procs
    PROVE  /\ loc[p] \in LocType /\ loc[p].lo \in Nat /\ loc[p].hi \in Nat /\ loc[p].cur \in Nat
           /\ loc[p].hi <= MaxBlock + 1 /\ loc[p].cur <= MaxBlock + 1
           /\ loc[p].fb \in Nat /\ loc[p].fb <= MaxFileBufs /\ loc[p].wfb \in BOOLEAN
           /\ loc[p].todo \subseteq Blocks /\ loc[p].val \in Nat /\ loc[p].seen \in Nat
           /\ loc[p].cur < loc[p].hi => loc[p].cur \in Blocks
           /\ loc[p].fb # 0 => loc[p].fb \in FileBufs
           /\ loc[p].cur < loc[p].hi /\ loc[p].fb # 0 => RKey(p) \in Keys
<1>1. /\ loc[p] \in LocType /\ loc[p].lo \in Blocks /\ loc[p].hi \in 0 .. MaxBlock + 1
      /\ loc[p].cur \in 0 .. MaxBlock + 1 /\ loc[p].fb \in 0 .. MaxFileBufs /\ loc[p].wfb \in BOOLEAN
      /\ loc[p].todo \subseteq Blocks /\ loc[p].val \in Nat /\ loc[p].seen \in Nat
  BY DEF TypeOK, ProcType, LocType
<1> QED BY <1>1, Consts DEF RKey, Keys, FileBufs, Blocks

\* A thread that reads or changes is at a block.
LEMMA AtBlock ==
    ASSUME TypeOK, CallInv, NEW t \in Threads, pc[t] \in Reading \cup Changing
    PROVE  /\ loc[t].cur \in Blocks /\ loc[t].cur < loc[t].hi /\ loc[t].lo <= loc[t].cur
           /\ pc[t] \in Reading \cup {"clean"} => RKey(t) \in Keys /\ loc[t].fb = Cache /\ Cache # 0
<1>1. t \in Procs
  BY Consts
<1> QED BY <1>1, LocFacts DEF CallInv, CallOK

-----------------------------------------------------------------------------
(* Types *)

\* A process moves to label c with locals l.
Moves(p, c, l) == pc' = [pc EXCEPT ![p] = c] /\ loc' = [loc EXCEPT ![p] = l]

\* Locals with new values.
LEMMA LocSet ==
    ASSUME NEW l \in LocType
    PROVE  /\ \A v \in 0 .. MaxFileBufs : [l EXCEPT !.fb = v] \in LocType
           /\ \A v \in 0 .. MaxBlock + 1 : [l EXCEPT !.cur = v] \in LocType
           /\ \A v \in BOOLEAN : [l EXCEPT !.wfb = v] \in LocType
           /\ \A v \in SUBSET Blocks : [l EXCEPT !.todo = v] \in LocType
           /\ \A v \in Nat : [l EXCEPT !.val = v] \in LocType
           /\ NoLoc \in LocType
<1>1. \A v \in 0 .. MaxFileBufs : [l EXCEPT !.fb = v] \in LocType
  BY DEF LocType
<1>2. \A v \in 0 .. MaxBlock + 1 : [l EXCEPT !.cur = v] \in LocType
  BY DEF LocType
<1>3. \A v \in BOOLEAN : [l EXCEPT !.wfb = v] \in LocType
  BY DEF LocType
<1>4. \A v \in SUBSET Blocks : [l EXCEPT !.todo = v] \in LocType
  BY DEF LocType
<1>5. \A v \in Nat : [l EXCEPT !.val = v] \in LocType
  BY DEF LocType
<1>6. NoLoc \in LocType
  BY Consts DEF LocType, NoLoc, Blocks
<1> QED BY <1>1, <1>2, <1>3, <1>4, <1>5, <1>6

\* What an action leaves alone.
LEMMA TypeFrame ==
    /\ ReadType /\ UNCHANGED rVars => ReadType'
    /\ WriteType /\ UNCHANGED wVars => WriteType'
    /\ CallType /\ UNCHANGED <<calls, snap>> => CallType'
    /\ ProcType /\ UNCHANGED <<pc, loc>> => ProcType'
  BY DEF ReadType, WriteType, CallType, ProcType, rVars, wVars, mapVars, dataVars, calls

\* A process that only moves, or sets its locals.
LEMMA ProcMove ==
    ASSUME TypeOK, NEW p \in Procs, NEW c \in Labels, Goto(p, c),
           UNCHANGED loc \/ \E l \in LocType : loc' = [loc EXCEPT ![p] = l]
    PROVE  ProcType'
<1>1. ProcType
  BY DEF TypeOK
<1> HIDE DEF LocType, Labels
<1> QED BY <1>1 DEF ProcType, Goto

LEMMA ProcSet ==
    ASSUME TypeOK, NEW p \in Procs, UNCHANGED pc, NEW l \in LocType, loc' = [loc EXCEPT ![p] = l]
    PROVE  ProcType'
<1>1. ProcType
  BY DEF TypeOK
<1> HIDE DEF LocType, Labels
<1> QED BY <1>1 DEF ProcType

\* The buffers: what ReleaseBuffer does.
LEMMA ReleaseFacts ==
    ASSUME TypeOK, BufferInv, NEW k \in Keys, ReleaseBuffer(k)
    PROVE  /\ LockMap[k] = Free
           /\ BufferMap' \in [Keys -> Nat \cup {None}] /\ seen' \in [Keys -> Nat]
           /\ BufferMap'[k] = None
           /\ \A j \in Keys \ {k} : BufferMap'[j] = BufferMap[j] /\ seen'[j] = seen[j]
           /\ Attached' = Attached \ {k} /\ LruList' = LruList \ {k}
           /\ free' \in 0 .. BufferMax /\ free' + Cardinality(Attached') = BufferMax
<1>0. ReadType /\ Cardinality(Attached) \in Nat /\ IsFiniteSet(Attached)
  BY Consts, FS_Subset, FS_CardinalityType DEF TypeOK, Attached
<1>1. CASE BufferMap[k] = None
  <2>1. UNCHANGED mapVars /\ k \notin Attached
    BY <1>1 DEF ReleaseBuffer, Attached
  <2>2. Attached' = Attached /\ k \notin LruList
    BY <2>1 DEF Attached, mapVars, BufferInv
  <2> QED BY <1>0, <1>1, <2>1, <2>2 DEF ReadType, mapVars, BufferInv, ReleaseBuffer, LockFree
<1>2. CASE BufferMap[k] # None
  <2>1. /\ LockMap[k] = Free
        /\ BufferMap' = [BufferMap EXCEPT ![k] = None] /\ seen' = [seen EXCEPT ![k] = 0]
        /\ free' = free + 1 /\ LruList' = LruList \ {k}
    BY <1>2 DEF ReleaseBuffer, LockFree
  <2>2. Attached' = Attached \ {k} /\ k \in Attached
    BY <1>0, <1>2, <2>1 DEF Attached, ReadType
  <2>3. Cardinality(Attached') = Cardinality(Attached) - 1 /\ Cardinality(Attached') \in Nat
    BY <1>0, <2>2, FS_RemoveElement, FS_CardinalityType
  <2>4. free' \in 0 .. BufferMax /\ free' + Cardinality(Attached') = BufferMax
    BY <1>0, <2>1, <2>3, Consts DEF ReadType, BufferInv
  <2> QED BY <1>0, <2>1, <2>2, <2>4 DEF ReadType
<1> QED BY <1>1, <1>2

LEMMA ReleaseType ==
    ASSUME TypeOK, BufferInv, NEW k \in Keys, ReleaseBuffer(k),
           UNCHANGED <<Cache, made, LockMap, pw, chPrefetch>>
    PROVE  ReadType'
  BY ReleaseFacts DEF TypeOK, ReadType

LEMMA TypeClose ==
    ASSUME Inv, NEW t \in Threads, Open(t) \/ Close(t) \/ CloseLast(t) \/ CloseStep(t)
    PROVE  TypeOK'
<1>0. t \in Procs /\ TypeOK /\ ReadType /\ WriteType /\ CallType /\ ProcType
  BY Consts DEF Inv, TypeOK
<1>a. loc[t] \in LocType
  BY <1>0 DEF ProcType
<1>1. CASE Open(t) \/ Close(t) \/ CloseFile(t) \/ WCacheCloseFailed(t)
  <2>1. ProcType'
    BY <1>0, <1>1, ProcMove DEF Open, Close, CloseFile, WCacheCloseFailed, Labels
  <2> QED BY <1>0, <1>1, <2>1, TypeFrame DEF TypeOK, Open, Close, CloseFile, WCacheCloseFailed
<1>2. CASE CloseLast(t)
  <2>1. [loc[t] EXCEPT !.fb = Cache] \in LocType
    BY <1>0, <1>a, LocSet DEF ReadType
  <2>2. loc' = [loc EXCEPT ![t] = [loc[t] EXCEPT !.fb = Cache]]
    BY <1>2 DEF CloseLast
  <2>3. ProcType'
    BY <1>0, <1>2, <2>1, <2>2, ProcMove DEF CloseLast, Labels
  <2> QED BY <1>0, <1>2, <2>3, TypeFrame DEF TypeOK, CloseLast
<1>3. CASE Wait(t)
  <2> DEFINE s == {x \in Blocks : BufferMap[<<loc[t].fb, x>>] # None}
  <2>1. [loc[t] EXCEPT !.todo = s] \in LocType
    BY <1>0, <1>a, LocSet
  <2>2. loc' = [loc EXCEPT ![t] = [loc[t] EXCEPT !.todo = s]]
    BY <1>3 DEF Wait
  <2>3. ProcType'
    BY <1>0, <1>3, <2>1, <2>2, ProcMove DEF Wait, Labels
  <2> QED BY <1>0, <1>3, <2>3, TypeFrame DEF TypeOK, Wait
<1>4. CASE Release(t)
  <2>1. PICK x \in loc[t].todo : /\ ReleaseBuffer(<<loc[t].fb, x>>)
                                 /\ loc' = [loc EXCEPT ![t] = [loc[t] EXCEPT !.todo = @ \ {x}]]
    BY <1>4 DEF Release
  <2>2. [loc[t] EXCEPT !.todo = @ \ {x}] \in LocType
    BY <1>0, <1>a, LocSet, LocFacts
  <2>3. ProcType'
    BY <1>0, <1>4, <2>1, <2>2, ProcSet DEF Release
  <2>4. <<loc[t].fb, x>> \in Keys
    BY <1>0, <1>4, LocFacts DEF Inv, CallInv, CallOK, Release, Keys
  <2> QED BY <1>0, <1>4, <2>1, <2>3, <2>4, ReleaseType, TypeFrame DEF TypeOK, Release, Inv
<1>5. CASE DetachFileBuffer(t)
  <2>1. ProcType'
    BY <1>0, <1>a, <1>5, ProcMove, LocSet DEF DetachFileBuffer, Labels
  <2>2. ReadType'
    BY <1>0, <1>5, Consts DEF DetachFileBuffer, ReadType, mapVars
  <2> QED BY <1>0, <1>5, <2>1, <2>2, TypeFrame DEF TypeOK, DetachFileBuffer
<1>6. CASE WCacheClosed(t)
  <2>1. ProcType'
    BY <1>0, <1>6, ProcMove DEF WCacheClosed, Labels
  <2>2. WriteType'
    BY <1>0, <1>6 DEF WCacheClosed, WriteType, dataVars
  <2> QED BY <1>0, <1>6, <2>1, <2>2, TypeFrame DEF TypeOK, WCacheClosed
<1> QED BY <1>1, <1>2, <1>3, <1>4, <1>5, <1>6 DEF CloseStep

\* The windows: one that moves on or is extended is not empty.
Windows == [BlkStart : Nat, BlkEnd : Nat]

LEMMA WindowFacts ==
    ASSUME NEW lo \in Nat, NEW n \in Nat \ {0}, NEW w \in Windows, WindowOK(w)
    PROVE  Window(GetReadWindow(lo, n), w) \in Windows /\ WindowOK(Window(GetReadWindow(lo, n), w))
<1> DEFINE rw == GetReadWindow(lo, n)
<1>0. rw \in Windows /\ rw.BlkStart = lo /\ rw.BlkEnd = lo + n /\ w.BlkStart \in Nat /\ w.BlkEnd \in Nat
  BY DEF GetReadWindow, Windows
<1>1. Move(w) \in Windows /\ Move(w).BlkStart = w.BlkEnd /\ Size(Move(w)) = Size(w)
  BY <1>0 DEF Move, Size, WindowOK, Windows
<1>2. CASE rw.BlkStart = 0 /\ Size(w) = 0 /\ Prefetchers # {}
  <2> DEFINE e == Extend(Move(rw), PrefetchTimes)
  <2>1. Move(rw) \in Windows /\ Move(rw).BlkStart = n /\ Size(Move(rw)) = n
    BY <1>0, <1>2 DEF Move, Size, Windows
  <2>2. n * PrefetchTimes \in Nat /\ (PrefetchTimes # 0 => n * PrefetchTimes > 0)
    BY Consts
  <2>3. e \in Windows /\ e.BlkStart = n /\ e.BlkEnd = n + n * PrefetchTimes
    BY <2>1, <2>2 DEF Extend, Windows
  <2>4. WindowOK(e)
    BY <2>2, <2>3 DEF WindowOK, Size
  <2> QED BY <1>2, <2>3, <2>4 DEF Window
<1>3. CASE ~(rw.BlkStart = 0 /\ Size(w) = 0) /\ Prefetchers # {} /\ Cross(rw, w)
  <2>1. PrefetchTimes # 0 => Size(w) # 0
    BY <1>0, <1>3 DEF Cross, WindowOK, Size
  <2>2. WindowOK(Move(w))
    BY <1>0, <1>1, <2>1 DEF WindowOK, Size, Windows
  <2> QED BY <1>1, <1>3, <2>2 DEF Window
<1>4. CASE Prefetchers = {} \/ (~(rw.BlkStart = 0 /\ Size(w) = 0) /\ ~Cross(rw, w))
  BY <1>4 DEF Window
<1> QED BY <1>2, <1>3, <1>4

\* What a new Read finds and does.
LEMMA ReadFacts ==
    ASSUME Inv, NEW t \in Threads, NEW lo \in Blocks, NEW n \in 1 .. MaxReadLen, Read(t, lo, n)
    PROVE  /\ Cache' \in FileBufs /\ (Cache # 0 => Cache' = Cache)
           /\ pw' \in [FileBufs -> Windows] /\ WindowInv'
           /\ lo + n \in Nat /\ lo + n <= MaxBlock + 1 /\ lo < lo + n
           /\ \E s \in SUBSET Blocks :
                 Moves(t, "prefetch", [loc[t] EXCEPT !.lo = lo, !.hi = lo + n, !.cur = lo,
                                                     !.fb = Cache', !.todo = s])
           /\ TypeOK'
<1> DEFINE fb == GetFileBuffer
           w  == Window(GetReadWindow(lo, n), pw[fb])
           s  == {x \in Blocks : w # pw[fb] /\ w.BlkStart <= x /\ x < w.BlkEnd}
           l  == [loc[t] EXCEPT !.lo = lo, !.hi = lo + n, !.cur = lo, !.fb = fb, !.todo = s]
<1>0. t \in Procs /\ TypeOK /\ ReadType /\ WriteType /\ CallType /\ ProcType
  BY Consts DEF Inv, TypeOK
<1>1. fb \in FileBufs /\ (Cache # 0 => fb = Cache)
  BY <1>0, Consts DEF Read, GetFileBuffer, FileBufs, ReadType
<1>2. lo \in Nat /\ n \in Nat \ {0} /\ lo + n \in Nat /\ lo + n <= MaxBlock + 1 /\ lo < lo + n
  BY Consts, RWCacheAssumption DEF Read
<1>3. pw[fb] \in Windows /\ WindowOK(pw[fb])
  BY <1>0, <1>1 DEF ReadType, Windows, Inv, WindowInv
<1>4. w \in Windows /\ WindowOK(w)
  BY <1>2, <1>3, WindowFacts
<1>5. /\ Cache' = fb /\ made' = (IF fb > made THEN fb ELSE made) /\ pw' = [pw EXCEPT ![fb] = w]
      /\ loc' = [loc EXCEPT ![t] = l] /\ Goto(t, "prefetch") /\ reads < MaxReads /\ reads' = reads + 1
      /\ snap' = [snap EXCEPT ![t] = ended]
      /\ UNCHANGED <<mapVars, LockMap, chPrefetch, wVars, writes>>
  BY DEF Read
<1> HIDE DEF w, fb
<1>6. pw' \in [FileBufs -> Windows] /\ WindowInv'
  BY <1>0, <1>1, <1>4, <1>5 DEF ReadType, Windows, Inv, WindowInv
<1>7. l \in LocType
  <2>1. loc[t] \in LocType
    BY <1>0 DEF ProcType
  <2>2. fb \in 0 .. MaxFileBufs /\ lo + n \in 0 .. MaxBlock + 1 /\ lo \in 0 .. MaxBlock + 1 /\ s \in SUBSET Blocks
    BY <1>1, <1>2, Consts DEF FileBufs
  <2> HIDE DEF s
  <2> QED BY <2>1, <2>2 DEF LocType
<1>8. ProcType' /\ Moves(t, "prefetch", l)
  BY <1>0, <1>5, <1>7, ProcMove DEF Labels, Moves, Goto
<1>9. ReadType'
  BY <1>0, <1>1, <1>5, <1>6 DEF ReadType, mapVars, FileBufs, Windows
<1>10. CallType'
  BY <1>0, <1>5, RWCacheAssumption DEF CallType, WriteType
<1>11. WriteType'
  BY <1>0, <1>5, TypeFrame
<1> QED BY <1>1, <1>2, <1>5, <1>6, <1>8, <1>9, <1>10, <1>11 DEF TypeOK

-----------------------------------------------------------------------------
(* The read locks *)

LEMMA CountAdd ==
    ASSUME NEW S \in SUBSET Threads, NEW l \in Nat, Counts(l, S), NEW t, t \notin S
    PROVE  l + 1 \in Nat /\ Counts(l + 1, S \cup {t})
<1>1. IsFiniteSet(S)
  BY Consts, FS_Subset
<1>2. Cardinality(S \cup {t}) = Cardinality(S) + 1
  BY <1>1, FS_AddElement
<1> QED BY <1>2 DEF Counts, WriteLock

LEMMA CountRemove ==
    ASSUME NEW S \in SUBSET Threads, NEW l \in Nat \cup {WriteLock}, Counts(l, S), NEW t \in S
    PROVE  l \in Nat /\ l > 0 /\ l - 1 \in Nat /\ Counts(l - 1, S \ {t})
<1>1. IsFiniteSet(S)
  BY Consts, FS_Subset
<1>2. Cardinality(S \ {t}) = Cardinality(S) - 1 /\ Cardinality(S) \in Nat /\ Cardinality(S) # 0
  BY <1>1, FS_RemoveElement, FS_CardinalityType, FS_EmptySet
<1> QED BY <1>2 DEF Counts, WriteLock

LEMMA CountFree ==
    ASSUME NEW S \in SUBSET Threads, Counts(Free, S)
    PROVE  S = {}
<1>1. IsFiniteSet(S)
  BY Consts, FS_Subset
<1> QED BY <1>1, FS_EmptySet DEF Counts, Free, WriteLock

\* A reader finds its locks.
LEMMA ReadersHold ==
    ASSUME Inv, NEW t \in Threads
    PROVE  /\ pc[t] = "rpc" => LockMap[RKey(t)] \in Nat /\ LockMap[RKey(t)] > 0
           /\ pc[t] \in Locking /\ loc[t].wfb => wlock[loc[t].cur] \in Nat /\ wlock[loc[t].cur] > 0
<1>0. TypeOK /\ ReadType /\ WriteType /\ CallInv /\ ReaderInv
  BY DEF Inv, TypeOK
<1>1. ASSUME pc[t] = "rpc" PROVE LockMap[RKey(t)] \in Nat /\ LockMap[RKey(t)] > 0
  <2> DEFINE k == RKey(t)
  <2>1. k \in Keys
    BY <1>0, <1>1, AtBlock DEF Reading
  <2>2. t \in Readers(k) /\ Readers(k) \subseteq Threads
    BY <1>1 DEF Readers
  <2>3. Counts(LockMap[k], Readers(k)) /\ LockMap[k] \in Nat \cup {WriteLock}
    BY <1>0, <2>1 DEF ReaderInv, ReadType
  <2> QED BY <2>2, <2>3, CountRemove
<1>2. ASSUME pc[t] \in Locking, loc[t].wfb
      PROVE  wlock[loc[t].cur] \in Nat /\ wlock[loc[t].cur] > 0
  <2> DEFINE x == loc[t].cur
  <2>1. x \in Blocks
    BY <1>0, <1>2, AtBlock DEF Reading, Locking
  <2>2. t \in WReaders(x) /\ WReaders(x) \subseteq Threads
    BY <1>2 DEF WReaders
  <2>3. Counts(wlock[x], WReaders(x)) /\ wlock[x] \in Nat \cup {WriteLock}
    BY <1>0, <2>1 DEF ReaderInv, WriteType
  <2> QED BY <2>2, <2>3, CountRemove
<1> QED BY <1>1, <1>2

-----------------------------------------------------------------------------
(* Types of the steps of a Read *)

LEMMA TypeReadStep ==
    ASSUME Inv, NEW t \in Threads, ReadStep(t)
    PROVE  TypeOK'
<1>0. t \in Procs /\ TypeOK /\ ReadType /\ WriteType /\ CallType /\ ProcType /\ CallInv
  BY Consts DEF Inv, TypeOK
<1>a. loc[t] \in LocType
  BY <1>0 DEF ProcType
<1>1. CASE PrefetchLock(t)
  <2> DEFINE x == First(loc[t].todo)
  <2>1. x \in Blocks /\ [loc[t] EXCEPT !.todo = @ \ {x}] \in LocType
    BY <1>0, <1>a, <1>1, FirstFacts, LocFacts, LocSet DEF PrefetchLock
  <2>2. ProcType'
    BY <1>0, <1>1, <2>1, ProcMove, ProcSet DEF PrefetchLock, Labels
  <2>3. ReadType'
    BY <1>0, <1>1 DEF PrefetchLock, ReadType, mapVars
  <2> QED BY <1>0, <1>1, <2>2, <2>3, TypeFrame DEF TypeOK, PrefetchLock
<1>2. CASE PrefetchSend(t)
  <2> DEFINE x == First(loc[t].todo)
  <2>1. x \in Blocks /\ [loc[t] EXCEPT !.todo = @ \ {x}] \in LocType
    BY <1>0, <1>a, <1>2, FirstFacts, LocFacts, LocSet DEF PrefetchSend, CallInv, CallOK
  <2>2. ProcType'
    BY <1>0, <1>2, <2>1, ProcMove DEF PrefetchSend, Labels
  <2>3. ReadType'
    BY <1>0, <1>2, <2>1 DEF PrefetchSend, ReadType, mapVars
  <2> QED BY <1>0, <1>2, <2>2, <2>3, TypeFrame DEF TypeOK, PrefetchSend
<1>3. CASE ReadLookup(t)
  <2>1. [loc[t] EXCEPT !.wfb = wCache] \in LocType
    BY <1>0, <1>a, LocSet DEF WriteType
  <2>2. ProcType'
    BY <1>0, <1>3, <2>1, ProcMove DEF ReadLookup, Labels
  <2> QED BY <1>0, <1>3, <2>2, TypeFrame DEF TypeOK, ReadLookup
<1>4. CASE ReadLockW(t)
  <2>1. ProcType'
    BY <1>0, <1>4, ProcMove DEF ReadLockW, Labels
  <2>2. WriteType'
    <3>1. loc[t].cur \in Blocks
      BY <1>0, <1>4, AtBlock DEF ReadLockW, Reading
    <3>2. loc[t].wfb => wlock[loc[t].cur] \in Nat
      BY <1>0, <1>4, <3>1 DEF ReadLockW, RLockFree, WriteType
    <3> QED BY <1>0, <1>4, <3>1, <3>2 DEF ReadLockW, WriteType, dataVars, RLockFree
  <2> QED BY <1>0, <1>4, <2>1, <2>2, TypeFrame DEF TypeOK, ReadLockW
<1>5. CASE ReadOp(t)
  <2>0. RKey(t) \in Keys
    BY <1>0, <1>5, AtBlock DEF ReadOp, Reading
  <2>1. ProcType'
    <3>1. CASE BufferMap[RKey(t)] = None
      BY <1>0, <1>5, <3>1, ProcMove DEF ReadOp, Labels
    <3>2. CASE BufferMap[RKey(t)] # None
      <4>1. [loc[t] EXCEPT !.val = BufferMap[RKey(t)]] \in LocType
        BY <1>0, <1>a, <2>0, <3>2, LocSet DEF ReadType
      <4> QED BY <1>0, <1>5, <3>2, <4>1, ProcMove DEF ReadOp, Labels
    <3> QED BY <3>1, <3>2
  <2>2. ReadType'
    BY <1>0, <1>5, <2>0 DEF ReadOp, ReadType, mapVars, RLockFree
  <2> QED BY <1>0, <1>5, <2>1, <2>2, TypeFrame DEF TypeOK, ReadOp
<1>b. ASSUME pc[t] = "rpc", RUnLockRead(t), UNCHANGED <<Cache, made, mapVars, pw, chPrefetch>>
      PROVE  ReadType'
  <2>1. RKey(t) \in Keys /\ LockMap[RKey(t)] \in Nat /\ LockMap[RKey(t)] > 0
    BY <1>0, <1>b, AtBlock, ReadersHold DEF Reading
  <2> QED BY <1>0, <1>b, <2>1 DEF RUnLockRead, ReadType, mapVars
<1>c. ASSUME pc[t] \in Locking, RUnLockWrite(t), UNCHANGED <<wCache, dataVars>>
      PROVE  WriteType'
  <2>1. loc[t].wfb => loc[t].cur \in Blocks /\ wlock[loc[t].cur] \in Nat /\ wlock[loc[t].cur] > 0
    BY <1>0, <1>c, AtBlock, ReadersHold DEF Reading, Locking
  <2> QED BY <1>0, <1>c, <2>1 DEF RUnLockWrite, WriteType, dataVars
<1>d. ASSUME Return(t), UNCHANGED calls
      PROVE  ProcType' /\ CallType'
  <2>1. ProcType'
    BY <1>0, <1>a, <1>d, ProcMove, LocSet DEF Return, Labels
  <2>2. CallType'
    BY <1>0, <1>d DEF Return, CallType, Zero, calls
  <2> QED BY <2>1, <2>2
<1>6. CASE DirectRead(t)
  <2>1. [loc[t] EXCEPT !.val = disk[loc[t].cur]] \in LocType
    BY <1>0, <1>a, <1>6, LocSet, AtBlock DEF WriteType, DirectRead, Reading
  <2>2. ProcType'
    BY <1>0, <1>6, <2>1, ProcMove DEF DirectRead, Labels
  <2> QED BY <1>0, <1>b, <1>6, <2>2, TypeFrame DEF TypeOK, DirectRead
<1>7. CASE DirectReadFail(t)
  BY <1>0, <1>b, <1>c, <1>d, <1>7 DEF TypeOK, DirectReadFail, Locking
<1>8. CASE ReadMerge(t)
  <2>1. WriteType' /\ ReadType'
    BY <1>0, <1>c, <1>8, TypeFrame DEF ReadMerge, Locking
  <2>2. CASE loc[t].cur + 1 < loc[t].hi
    <3> DEFINE l == [loc[t] EXCEPT !.cur = loc[t].cur + 1]
    <3>1. loc[t].cur + 1 \in 0 .. MaxBlock + 1
      BY <1>0, <2>2, LocFacts, Consts
    <3>2. l \in LocType
      BY <1>a, <3>1, LocSet
    <3>3. [l EXCEPT !.val = 0] \in LocType
      <4> HIDE DEF l
      <4> QED BY <3>2, LocSet
    <3>4. loc' = [loc EXCEPT ![t] = [l EXCEPT !.val = 0]]
      BY <1>8, <2>2 DEF ReadMerge
    <3> HIDE DEF l
    <3>5. ProcType'
      BY <1>0, <1>8, <2>2, <3>3, <3>4, ProcMove DEF ReadMerge, Labels
    <3> QED BY <1>0, <1>8, <2>1, <2>2, <3>5, TypeFrame DEF TypeOK, ReadMerge
  <2>3. CASE ~(loc[t].cur + 1 < loc[t].hi)
    BY <1>0, <1>d, <1>8, <2>1, <2>3 DEF TypeOK, ReadMerge
  <2> QED BY <2>2, <2>3
<1> QED BY <1>1, <1>2, <1>3, <1>4, <1>5, <1>6, <1>7, <1>8 DEF ReadStep

-----------------------------------------------------------------------------
(* Types of the steps of a Write and of the goroutines *)

\* WriteFailed changes one block of each.
LEMMA FailedFacts ==
    ASSUME WriteType, NEW x \in Blocks, WriteFailed(x)
    PROVE  /\ wbuf' \in [Blocks -> Nat] /\ disk' \in [Blocks -> Nat] /\ latest' \in [Blocks -> Nat]
           /\ \A y \in Blocks \ {x} : wbuf'[y] = wbuf[y] /\ disk'[y] = disk[y] /\ latest'[y] = latest[y]
           /\ \/ /\ wbuf[x] # 0 /\ wbuf'[x] = wbuf[x] /\ disk'[x] \in {disk[x], wbuf[x]}
                 /\ latest'[x] = latest[x]
              \/ /\ wbuf'[x] = 0 /\ disk'[x] \in {Newest(x), ver + 1} /\ latest'[x] = latest[x]
              \/ /\ wbuf[x] = 0 /\ wbuf'[x] = ver + 1 /\ disk'[x] \in {disk[x], ver + 1}
                 /\ latest'[x] = ver + 1
<1>0. ver + 1 \in Nat
  BY DEF WriteType
<1>1. CASE wbuf[x] # 0 /\ disk' \in {disk, Flushed(x)} /\ UNCHANGED <<wbuf, latest>>
  BY <1>1 DEF WriteType, Flushed, Set
<1>2. CASE disk' \in {Flushed(x), Set(disk, x, ver + 1)} /\ wbuf' = Set(wbuf, x, 0) /\ UNCHANGED latest
  BY <1>0, <1>2 DEF WriteType, Flushed, Set, Newest
<1>3. CASE /\ wbuf[x] = 0 /\ disk' \in {disk, Set(disk, x, ver + 1)}
           /\ wbuf' = Set(wbuf, x, ver + 1) /\ Accept(x)
  BY <1>0, <1>3 DEF WriteType, Set, Accept
<1> QED BY <1>1, <1>2, <1>3 DEF WriteFailed

\* The step of a Write at block x, by what it makes of the block.
WriteAt(x) ==
    /\ wbuf' \in [Blocks -> Nat] /\ disk' \in [Blocks -> Nat] /\ latest' \in [Blocks -> Nat]
    /\ \A y \in Blocks \ {x} :
          /\ wbuf'[y] = wbuf[y] /\ disk'[y] = disk[y] /\ latest'[y] = latest[y] /\ wlock'[y] = wlock[y]
    /\ wlock' \in [Blocks -> Nat \cup {WriteLock}] /\ wlock[x] = Free
    /\ wlock'[x] # wlock[x] => wlock'[x] = WriteLock /\ wbuf'[x] # 0
    /\ ver' = ver + 1 /\ UNCHANGED <<wCache, ended>>
    /\ \/ /\ wbuf[x] # 0 /\ wbuf'[x] = wbuf[x] /\ disk'[x] \in {disk[x], wbuf[x]}
          /\ latest'[x] = latest[x]
       \/ wbuf'[x] = 0 /\ disk'[x] \in {Newest(x), ver + 1} /\ latest'[x] = latest[x]
       \/ wbuf'[x] = ver + 1 /\ disk'[x] \in {disk[x], Newest(x), ver + 1} /\ latest'[x] = ver + 1
       \/ wbuf'[x] = 0 /\ disk'[x] = ver + 1 /\ latest'[x] = ver + 1

\* Where the thread goes: on to its next block or to Clean.
WriteGoes(t) ==
    \E c \in {"write", "clookup"}, n \in Blocks :
        /\ Moves(t, c, [loc[t] EXCEPT !.cur = n])
        /\ loc[t].lo <= n /\ n < loc[t].hi
        /\ c = "clookup" => n = loc[t].lo

WriteOne(t) == WriteBuffered(t) \/ WriteThrough(t) \/ WriteQueued(t) \/ WriteFail(t)

LEMMA WriteOneFacts ==
    ASSUME Inv, NEW t \in Threads, WriteOne(t)
    PROVE  /\ pc[t] = "write" /\ loc[t].cur \in Blocks /\ WriteAt(loc[t].cur) /\ WriteGoes(t)
           /\ UNCHANGED <<rVars, calls, snap>>
<1> DEFINE x == loc[t].cur
<1>0. t \in Procs /\ TypeOK /\ WriteType /\ ProcType /\ CallInv /\ ver + 1 \in Nat /\ ver + 1 # 0
  BY Consts DEF Inv, TypeOK, WriteType
<1>1. pc[t] = "write" /\ wlock[x] = Free /\ ver' = ver + 1
  BY DEF WriteOne, WriteBuffered, WriteThrough, WriteQueued, WriteFail, AtWrite, LockFree
<1>2. x \in Blocks /\ loc[t].lo <= x /\ x < loc[t].hi /\ loc[t].lo \in Blocks /\ loc[t].hi \in Nat
  BY <1>0, <1>1, AtBlock, LocFacts DEF Changing, LocType
<1>a. x \in Nat /\ loc[t].lo \in Nat /\ loc[t].hi <= MaxBlock + 1
  BY <1>0, <1>2, Consts, LocFacts
<1>3. WriteAt(x) /\ UNCHANGED <<rVars, calls, snap>>
  <2>1. CASE WriteBuffered(t)
    BY <1>0, <1>1, <1>2, <2>1 DEF WriteBuffered, Accept, Set, Flushed, WriteAt, WriteType, Newest
  <2>2. CASE WriteThrough(t)
    BY <1>0, <1>1, <1>2, <2>2 DEF WriteThrough, Accept, Set, WriteAt, WriteType
  <2>3. CASE WriteQueued(t)
    BY <1>0, <1>1, <1>2, <2>3 DEF WriteQueued, Accept, Set, WriteAt, WriteType
  <2>4. CASE WriteFail(t)
    <3>1. WriteFailed(x) /\ UNCHANGED <<rVars, wCache, wlock, ended, calls, snap>>
      BY <2>4 DEF WriteFail
    <3> QED BY <1>0, <1>1, <1>2, <3>1, FailedFacts DEF WriteAt, WriteType
  <2> QED BY <2>1, <2>2, <2>3, <2>4 DEF WriteOne
<1>4. WriteGoes(t)
  <2>1. CASE NextBlock(t, "write", "clookup")
    <3>1. CASE x + 1 < loc[t].hi
      <4>1. x + 1 \in Blocks /\ loc[t].lo <= x + 1
        BY <1>2, <1>a, <3>1, Consts DEF Blocks
      <4>2. Moves(t, "write", [loc[t] EXCEPT !.cur = x + 1])
        BY <2>1, <3>1 DEF NextBlock, Goto, Moves
      <4> QED BY <3>1, <4>1, <4>2 DEF WriteGoes
    <3>2. CASE ~(x + 1 < loc[t].hi)
      <4>1. Moves(t, "clookup", [loc[t] EXCEPT !.cur = loc[t].lo])
        BY <2>1, <3>2 DEF NextBlock, Goto, Moves
      <4> QED BY <1>2, <1>a, <4>1 DEF WriteGoes
    <3> QED BY <3>1, <3>2
  <2>2. CASE loc' = [loc EXCEPT ![t].cur = loc[t].lo] /\ Goto(t, "clookup")
    <3>1. Moves(t, "clookup", [loc[t] EXCEPT !.cur = loc[t].lo])
      BY <2>2 DEF Goto, Moves
    <3> QED BY <1>2, <1>a, <3>1 DEF WriteGoes
  <2> QED BY <2>1, <2>2 DEF WriteOne, WriteBuffered, WriteThrough, WriteQueued, WriteFail
<1> QED BY <1>1, <1>2, <1>3, <1>4

LEMMA ReturnType ==
    ASSUME TypeOK, NEW t \in Threads, Return(t), UNCHANGED calls
    PROVE  ProcType' /\ CallType'
<1>0. t \in Procs /\ loc[t] \in LocType
  BY Consts DEF TypeOK, ProcType
<1>1. ProcType'
  BY <1>0, ProcMove, LocSet DEF Return, Labels
<1>2. CallType'
  BY DEF TypeOK, Return, CallType, Zero, calls
<1> QED BY <1>1, <1>2

LEMMA TypeWrite ==
    ASSUME Inv, NEW t \in Threads, NEW lo \in Blocks, NEW n \in 1 .. MaxWriteLen, Write(t, lo, n)
    PROVE  /\ TypeOK' /\ lo < lo + n
           /\ Moves(t, "write", [loc[t] EXCEPT !.lo = lo, !.hi = lo + n, !.cur = lo])
<1> DEFINE l == [loc[t] EXCEPT !.lo = lo, !.hi = lo + n, !.cur = lo]
<1>0. t \in Procs /\ TypeOK /\ ReadType /\ WriteType /\ CallType /\ ProcType
  BY Consts DEF Inv, TypeOK
<1>1. lo \in Nat /\ n \in Nat \ {0} /\ lo + n \in 0 .. MaxBlock + 1 /\ lo \in 0 .. MaxBlock + 1
  BY Consts, RWCacheAssumption DEF Write
<1>2. l \in LocType
  BY <1>0, <1>1 DEF ProcType, LocType
<1>3. ProcType' /\ Moves(t, "write", l)
  BY <1>0, <1>2, ProcMove DEF Write, Labels, Moves, Goto
<1>4. CallType' /\ WriteType'
  BY <1>0, RWCacheAssumption DEF Write, CallType, WriteType, dataVars
<1> QED BY <1>0, <1>1, <1>3, <1>4, TypeFrame DEF TypeOK, Write

LEMMA TypeWriteStep ==
    ASSUME Inv, NEW t \in Threads, WriteStep(t)
    PROVE  TypeOK'
<1>0. t \in Procs /\ TypeOK /\ ReadType /\ WriteType /\ CallType /\ ProcType /\ CallInv /\ BufferInv
  BY Consts DEF Inv, TypeOK
<1>a. loc[t] \in LocType
  BY <1>0 DEF ProcType
<1>b. ASSUME WriteReturn(t), UNCHANGED <<wCache, wlock, wbuf, disk, ver, latest, calls>>
      PROVE  ProcType' /\ CallType' /\ WriteType'
  BY <1>0, <1>b, ReturnType DEF WriteReturn, WriteType
<1>1. CASE WriteOne(t)
  <2>1. PICK c \in {"write", "clookup"}, n \in Blocks : Moves(t, c, [loc[t] EXCEPT !.cur = n])
    BY <1>1, WriteOneFacts DEF WriteGoes
  <2>2. [loc[t] EXCEPT !.cur = n] \in LocType
    BY <1>a, LocSet, Consts DEF Blocks
  <2>3. ProcType'
    BY <1>0, <2>1, <2>2, ProcMove DEF Moves, Goto, Labels
  <2>4. WriteType'
    BY <1>0, <1>1, WriteOneFacts DEF WriteAt, WriteType
  <2> QED BY <1>0, <1>1, <2>3, <2>4, WriteOneFacts, TypeFrame DEF TypeOK
<1>2. CASE CleanLookup(t)
  <2>1. CASE Cache = 0
    BY <1>0, <1>b, <1>2, <2>1, TypeFrame DEF TypeOK, CleanLookup
  <2>2. CASE Cache # 0
    <3>1. [loc[t] EXCEPT !.fb = Cache] \in LocType
      BY <1>0, <1>a, LocSet DEF ReadType
    <3>2. ProcType'
      BY <1>0, <1>2, <2>2, <3>1, ProcMove DEF CleanLookup, Labels
    <3> QED BY <1>0, <1>2, <2>2, <3>2, TypeFrame DEF TypeOK, CleanLookup, wVars, dataVars
  <2> QED BY <2>1, <2>2
<1>3. CASE Clean(t)
  <2>1. RKey(t) \in Keys
    BY <1>0, <1>3, AtBlock DEF Clean, Changing
  <2>2. ReadType'
    BY <1>0, <1>3, <2>1, ReleaseType DEF Clean
  <2>3. CASE loc[t].cur + 1 < loc[t].hi
    <3>1. loc[t].cur + 1 \in 0 .. MaxBlock + 1
      BY <1>0, <2>3, LocFacts, Consts
    <3>2. [loc[t] EXCEPT !.cur = @ + 1] \in LocType
      BY <1>a, <3>1, LocSet
    <3>3. ProcType'
      BY <1>0, <1>3, <2>3, <3>2, ProcSet DEF Clean
    <3> QED BY <1>0, <1>3, <2>2, <2>3, <3>3, TypeFrame DEF TypeOK, Clean, wVars, dataVars
  <2>4. CASE ~(loc[t].cur + 1 < loc[t].hi)
    BY <1>0, <1>b, <1>3, <2>2, <2>4 DEF TypeOK, Clean
  <2> QED BY <2>3, <2>4
<1> QED BY <1>1, <1>2, <1>3 DEF WriteStep, WriteOne

\* A prefetcher at work has the block of a queued op.
LEMMA PrefetcherFacts ==
    ASSUME Inv, NEW p \in Prefetchers, pc[p] \in {"fetch", "attach"}
    PROVE  /\ p \in Procs /\ loc[p].cur \in Blocks /\ loc[p].fb = Cache /\ RKey(p) \in Keys
           /\ Cache # 0 /\ LockMap[RKey(p)] = WriteLock /\ BufferMap[RKey(p)] = None
           /\ Holds(p, loc[p].cur)
<1>0. p \in Procs /\ TypeOK /\ ReadType /\ ProcType /\ OwnerInv
  BY Consts DEF Inv, TypeOK
<1>1. Holds(p, loc[p].cur) /\ loc[p].cur \in 0 .. MaxBlock + 1
  BY <1>0 DEF Holds, ProcType, LocType
<1>2. loc[p].cur \in Blocks /\ loc[p].fb = Cache /\ Held(loc[p].cur)
  BY <1>0, <1>1 DEF OwnerInv
<1> QED BY <1>0, <1>1, <1>2 DEF Held, RKey, Keys, FileBufs, ReadType

LEMMA TypePrefetch ==
    ASSUME Inv, NEW p \in Prefetchers, PrefetchStep(p)
    PROVE  TypeOK'
<1>0. p \in Procs /\ TypeOK /\ ReadType /\ WriteType /\ CallType /\ ProcType
  BY Consts DEF Inv, TypeOK
<1>a. loc[p] \in LocType
  BY <1>0 DEF ProcType
<1>1. CASE PrefetchTake(p)
  <2>1. PICK x \in chPrefetch : /\ chPrefetch' = chPrefetch \ {x}
                                /\ loc' = [loc EXCEPT ![p] = [loc[p] EXCEPT !.fb = Cache, !.cur = x]]
    BY <1>1 DEF PrefetchTake
  <2>2. [loc[p] EXCEPT !.fb = Cache, !.cur = x] \in LocType
    <3>1. Cache \in 0 .. MaxFileBufs /\ x \in 0 .. MaxBlock + 1
      BY <1>0, Consts DEF ReadType, Blocks
    <3> QED BY <1>a, <3>1 DEF LocType
  <2>3. ProcType'
    BY <1>0, <1>1, <2>1, <2>2, ProcMove DEF PrefetchTake, Labels
  <2>4. ReadType'
    BY <1>0, <1>1, <2>1 DEF ReadType, PrefetchTake, mapVars
  <2> QED BY <1>0, <1>1, <2>3, <2>4, TypeFrame DEF TypeOK, PrefetchTake
<1>2. CASE PrefetchFetch(p)
  <2>1. [loc[p] EXCEPT !.val = disk[loc[p].cur], !.seen = latest[loc[p].cur]] \in LocType
    <3>1. disk[loc[p].cur] \in Nat /\ latest[loc[p].cur] \in Nat
      BY <1>0, <1>2, PrefetcherFacts DEF PrefetchFetch, WriteType
    <3> QED BY <1>a, <3>1 DEF LocType
  <2>2. ProcType'
    BY <1>0, <1>2, <2>1, ProcMove DEF PrefetchFetch, Labels
  <2> QED BY <1>0, <1>2, <2>2, TypeFrame DEF TypeOK, PrefetchFetch
<1>b. ASSUME PrefetchUnLock(p) PROVE ProcType'
  BY <1>0, <1>a, <1>b, ProcMove, LocSet DEF PrefetchUnLock, Labels
<1>3. CASE PrefetchNothing(p)
  <2>1. ReadType'
    BY <1>0, <1>3 DEF PrefetchNothing, PrefetchUnLock, ReadType, mapVars, Free
  <2> QED BY <1>0, <1>b, <1>3, <2>1, TypeFrame DEF TypeOK, PrefetchNothing
<1>4. CASE PrefetchAttach(p)
  <2>0. RKey(p) \in Keys /\ loc[p].val \in Nat /\ loc[p].seen \in Nat
    BY <1>0, <1>4, PrefetcherFacts, LocFacts DEF PrefetchAttach
  <2>1. LockMap' \in [Keys -> Nat \cup {WriteLock}] /\ UNCHANGED <<Cache, made, pw, chPrefetch>>
    BY <1>0, <1>4 DEF PrefetchAttach, PrefetchUnLock, ReadType, Free
  <2>2. ReadType'
    <3>1. CASE free = 0
      BY <1>0, <1>4, <2>1, <3>1 DEF PrefetchAttach, ReadType, mapVars
    <3>2. CASE free # 0
      <4>1. /\ free' = free - 1 /\ LruList' = LruList \cup {RKey(p)}
            /\ BufferMap' = [BufferMap EXCEPT ![RKey(p)] = loc[p].val]
            /\ seen' = [seen EXCEPT ![RKey(p)] = loc[p].seen]
        BY <1>4, <3>2 DEF PrefetchAttach, TakeBuffer
      <4>2. free' \in 0 .. BufferMax /\ LruList' \subseteq Keys
        BY <1>0, <2>0, <3>2, <4>1, Consts DEF ReadType
      <4>3. BufferMap' \in [Keys -> Nat \cup {None}] /\ seen' \in [Keys -> Nat]
        BY <1>0, <2>0, <4>1 DEF ReadType
      <4> QED BY <1>0, <2>1, <4>2, <4>3 DEF ReadType
    <3> QED BY <3>1, <3>2
  <2> QED BY <1>0, <1>b, <1>4, <2>2, TypeFrame DEF TypeOK, PrefetchAttach
<1> QED BY <1>1, <1>2, <1>3, <1>4 DEF PrefetchStep

\* CheckExpire has a block, and a FileBuffer to release it from.
LEMMA ExpirerFacts ==
    ASSUME Inv, NEW e \in Expirers
    PROVE  /\ pc[e] = "elookup" => loc[e].cur \in Blocks
           /\ pc[e] = "erelease" => loc[e].cur \in Blocks /\ RKey(e) \in Keys
  BY Consts, LocFacts DEF Inv, BufferInv, RKey, Keys

LEMMA TypeExpire ==
    ASSUME Inv, NEW e \in Expirers, ExpireStep(e)
    PROVE  TypeOK'
<1>0. e \in Procs /\ TypeOK /\ ReadType /\ WriteType /\ CallType /\ ProcType /\ BufferInv
  BY Consts DEF Inv, TypeOK
<1>a. loc[e] \in LocType
  BY <1>0 DEF ProcType
<1>1. CASE LruExpire(e)
  <2>1. PICK k \in LruList : LruList' = LruList \ {k} /\ loc' = [loc EXCEPT ![e] = [loc[e] EXCEPT !.cur = k[2]]]
    BY <1>1 DEF LruExpire
  <2>2. [loc[e] EXCEPT !.cur = k[2]] \in LocType
    BY <1>0, <1>a, LocSet, Consts DEF ReadType, Keys, Blocks
  <2>3. ProcType'
    BY <1>0, <1>1, <2>1, <2>2, ProcMove DEF LruExpire, Labels
  <2>4. ReadType'
    BY <1>0, <1>1, <2>1 DEF ReadType, LruExpire
  <2> QED BY <1>0, <1>1, <2>3, <2>4, TypeFrame DEF TypeOK, LruExpire
<1>2. CASE ExpireLookup(e)
  <2>1. NoLoc \in LocType /\ [loc[e] EXCEPT !.fb = Cache] \in LocType
    BY <1>0, <1>a, LocSet DEF ReadType
  <2>2. ProcType'
    <3>1. CASE Cache = 0
      BY <1>0, <1>2, <2>1, <3>1, ProcMove DEF ExpireLookup, Labels
    <3>2. CASE Cache # 0
      BY <1>0, <1>2, <2>1, <3>2, ProcMove DEF ExpireLookup, Labels
    <3> QED BY <3>1, <3>2
  <2> QED BY <1>0, <1>2, <2>2, TypeFrame DEF TypeOK, ExpireLookup
<1>3. CASE ExpireRelease(e)
  <2>1. ProcType'
    BY <1>0, <1>a, <1>3, ProcMove, LocSet DEF ExpireRelease, Labels
  <2>2. ReadType'
    BY <1>0, <1>3, ExpirerFacts, ReleaseType DEF ExpireRelease
  <2> QED BY <1>0, <1>3, <2>1, <2>2, TypeFrame DEF TypeOK, ExpireRelease
<1> QED BY <1>1, <1>2, <1>3 DEF ExpireStep

\* The goroutines of the write cache write out the buffer of a block.
LEMMA FlushFacts ==
    ASSUME Inv, NEW x \in Blocks, FlushBuffer(x) \/ SyncWrite(x)
    PROVE  /\ TypeOK' /\ UNCHANGED <<rVars, wCache, ver, latest, ended, pc, loc, calls, snap>>
           /\ wlock[x] \in {Free, WriteLock} /\ wlock'[x] = Free /\ wbuf[x] # 0
           /\ \A y \in Blocks \ {x} : wlock'[y] = wlock[y] /\ wbuf'[y] = wbuf[y] /\ disk'[y] = disk[y]
           /\ \/ disk'[x] = wbuf[x] /\ wbuf'[x] \in {wbuf[x], 0}
              \/ disk'[x] = disk[x] /\ wbuf'[x] = wbuf[x]
<1>0. TypeOK /\ ReadType /\ WriteType /\ CallType /\ ProcType
  BY DEF Inv, TypeOK
<1>1. CASE FlushBuffer(x)
  <2>1. WriteType' /\ UNCHANGED <<rVars, wCache, ver, latest, ended, pc, loc, calls, snap>>
    BY <1>0, <1>1 DEF FlushBuffer, WriteType, Set
  <2> QED BY <1>0, <1>1, <2>1, TypeFrame DEF TypeOK, FlushBuffer, WriteType, Set, LockFree
<1>2. CASE SyncWrite(x)
  <2>1. WriteType' /\ UNCHANGED <<rVars, wCache, ver, latest, ended, pc, loc, calls, snap>>
    BY <1>0, <1>2 DEF SyncWrite, WriteType, Set, Free
  <2>2. wbuf[x] # 0
    BY <1>2 DEF SyncWrite, Inv, DataInv, DataOK
  <2> QED BY <1>0, <1>2, <2>1, <2>2, TypeFrame DEF TypeOK, SyncWrite, WriteType, Set
<1> QED BY <1>1, <1>2

LEMMA TypeInit == Init => TypeOK
<1> SUFFICES ASSUME Init PROVE TypeOK
  OBVIOUS
<1>1. NoLoc \in LocType
  BY Consts DEF LocType, NoLoc, Blocks
<1>2. ProcType
  BY <1>1 DEF Init, ProcType, Labels
<1>3. ReadType
  BY RWCacheAssumption DEF Init, ReadType, Free
<1>4. Zero \in [Blocks -> Nat]
  BY DEF Zero
<1>5. WriteType
  BY <1>4 DEF Init, WriteType, Free
<1>6. CallType
  BY <1>4, RWCacheAssumption DEF Init, CallType
<1> QED BY <1>2, <1>3, <1>5, <1>6 DEF TypeOK

LEMMA TypeNext == Inv /\ [Next]_vars => TypeOK'
<1> SUFFICES ASSUME Inv, [Next]_vars PROVE TypeOK'
  OBVIOUS
<1>1. CASE UNCHANGED vars
  BY <1>1, TypeFrame DEF Inv, TypeOK, vars
<1>2. CASE Next
  BY <1>2, TypeClose, ReadFacts, TypeReadStep, TypeWrite, TypeWriteStep, TypePrefetch, TypeExpire,
     FlushFacts DEF Next
<1> QED BY <1>1, <1>2

-----------------------------------------------------------------------------
(* Who moves *)

ThreadStep(t) ==
    \/ Open(t) \/ Close(t) \/ CloseLast(t)
    \/ \E lo \in Blocks, n \in 1 .. MaxReadLen : Read(t, lo, n)
    \/ \E lo \in Blocks, n \in 1 .. MaxWriteLen : Write(t, lo, n)
    \/ ReadStep(t) \/ WriteStep(t) \/ CloseStep(t)

Alone(p) == \A q \in Procs \ {p} : pc'[q] = pc[q] /\ loc'[q] = loc[q]

LEMMA ThreadAlone ==
    ASSUME Inv, NEW t \in Threads, ThreadStep(t)
    PROVE  Alone(t)
<1>0. pc \in [Procs -> Labels] /\ loc \in [Procs -> LocType] /\ t \in Procs
  BY Consts DEF Inv, TypeOK, ProcType
<1> HIDE DEF LocType, Labels
<1>1. CASE Open(t) \/ Close(t) \/ CloseLast(t)
  BY <1>0, <1>1 DEF Open, Close, CloseLast, Goto, Alone
<1>2. CASE \E lo \in Blocks, n \in 1 .. MaxReadLen : Read(t, lo, n)
  BY <1>0, <1>2 DEF Read, Goto, Alone
<1>3. CASE \E lo \in Blocks, n \in 1 .. MaxWriteLen : Write(t, lo, n)
  BY <1>0, <1>3 DEF Write, Goto, Alone
<1>4. CASE ReadStep(t)
  BY <1>0, <1>4 DEF ReadStep, PrefetchLock, PrefetchSend, ReadLookup, ReadLockW, ReadOp, DirectRead,
     DirectReadFail, ReadMerge, Return, Goto, Alone
<1>5. CASE WriteOne(t)
  BY <1>0, <1>5, WriteOneFacts DEF WriteGoes, Moves, Alone
<1>6. CASE CleanLookup(t) \/ Clean(t)
  BY <1>0, <1>6 DEF CleanLookup, Clean, WriteReturn, Return, Goto, Alone
<1>7. CASE CloseStep(t)
  BY <1>0, <1>7 DEF CloseStep, CloseFile, Wait, Release, DetachFileBuffer, WCacheClosed,
     WCacheCloseFailed, Goto, Alone
<1> QED BY <1>1, <1>2, <1>3, <1>4, <1>5, <1>6, <1>7 DEF ThreadStep, WriteStep, WriteOne

LEMMA GoroutineAlone ==
    ASSUME Inv
    PROVE  /\ \A p \in Prefetchers : PrefetchStep(p) => Alone(p) /\ UNCHANGED <<Cache, wVars, calls, snap>>
           /\ \A e \in Expirers : ExpireStep(e) =>
                 Alone(e) /\ UNCHANGED <<Cache, LockMap, chPrefetch, wVars, calls, snap>>
<1>0. pc \in [Procs -> Labels] /\ loc \in [Procs -> LocType]
  BY DEF Inv, TypeOK, ProcType
<1> HIDE DEF LocType, Labels
<1>1. ASSUME NEW p \in Prefetchers, PrefetchStep(p)
      PROVE  Alone(p) /\ UNCHANGED <<Cache, wVars, calls, snap>>
  BY <1>0, <1>1, Consts DEF PrefetchStep, PrefetchTake, PrefetchFetch, PrefetchNothing, PrefetchAttach,
     PrefetchUnLock, Goto, Alone, rVars
<1>2. ASSUME NEW e \in Expirers, ExpireStep(e)
      PROVE  Alone(e) /\ UNCHANGED <<Cache, LockMap, chPrefetch, wVars, calls, snap>>
  BY <1>0, <1>2, Consts DEF ExpireStep, LruExpire, ExpireLookup, ExpireRelease, Goto, Alone, rVars
<1> QED BY <1>1, <1>2

\* While the last Close runs, no other thread moves.
LEMMA CloserAlone ==
    ASSUME Inv, NEW t \in Threads, ThreadStep(t), NEW u \in Threads \ {t}
    PROVE  pc[u] \notin Closing
<1> SUFFICES ASSUME pc[u] \in Closing PROVE FALSE
  OBVIOUS
<1>1. pc[t] = "closed"
  BY DEF Inv, CloseInv
<1>2. Open(t)
  BY <1>1 DEF ThreadStep, Close, CloseLast, Read, Write, ReadStep, PrefetchLock, PrefetchSend, ReadLookup,
     ReadLockW, ReadOp, DirectRead, DirectReadFail, ReadMerge, WriteStep, WriteBuffered, WriteThrough,
     WriteQueued, WriteFail, AtWrite, CleanLookup, Clean, CloseStep, CloseFile, Wait, Release,
     DetachFileBuffer, WCacheClosed, WCacheCloseFailed
<1> QED BY <1>2 DEF Open, LastCloseRuns, Closing

-----------------------------------------------------------------------------
(* Calls *)

LEMMA CallOther ==
    ASSUME Inv, NEW u \in Threads, pc'[u] = pc[u], loc'[u] = loc[u],
           Cache' = Cache \/ Cache = 0 \/ pc[u] = "closed"
    PROVE  CallOK(u)'
  BY DEF Inv, CallInv, CallOK, Reading, Changing

LEMMA CallThread ==
    ASSUME Inv, NEW t \in Threads, ThreadStep(t)
    PROVE  CallInv'
<1>0. t \in Procs /\ TypeOK /\ CallOK(t) /\ pc \in [Procs -> Labels] /\ loc \in [Procs -> LocType]
  BY Consts DEF Inv, CallInv, TypeOK, ProcType
<1>a. loc[t] \in LocType /\ loc[t].lo \in Nat /\ loc[t].hi \in Nat /\ loc[t].cur \in Nat
  BY <1>0, LocFacts
<1>1. Cache' = Cache \/ Cache = 0 \/ DetachFileBuffer(t)
  BY DEF ThreadStep, Open, Close, CloseLast, Read, GetFileBuffer, Write, ReadStep, PrefetchLock,
     PrefetchSend, ReadLookup, ReadLockW, ReadOp, DirectRead, DirectReadFail, ReadMerge, WriteStep,
     WriteBuffered, WriteThrough, WriteQueued, WriteFail, CleanLookup, Clean, CloseStep, CloseFile, Wait,
     Release, WCacheClosed, WCacheCloseFailed, rVars
<1>2. ASSUME NEW u \in Threads \ {t} PROVE CallOK(u)'
  <2>1. pc'[u] = pc[u] /\ loc'[u] = loc[u]
    BY ThreadAlone, Consts DEF Alone
  <2>2. DetachFileBuffer(t) => pc[u] = "closed"
    BY DEF DetachFileBuffer, Inv, CloseInv, Closing
  <2> QED BY <1>1, <2>1, <2>2, CallOther
<1>3. CallOK(t)'
  <2>1. CASE Open(t) \/ Close(t) \/ CloseLast(t) \/ CloseStep(t)
    <3>1. CASE Open(t) \/ Close(t) \/ CloseLast(t)
      BY <1>0, <1>a, <3>1 DEF Open, Close, CloseLast, rVars, Goto, CallOK, Reading, Changing, LocType
    <3>2. CASE CloseFile(t) \/ DetachFileBuffer(t) \/ WCacheClosed(t) \/ WCacheCloseFailed(t)
      BY <1>0, <3>2 DEF CloseFile, DetachFileBuffer, WCacheClosed, WCacheCloseFailed, Goto, CallOK, Reading,
         Changing
    <3>3. CASE Wait(t) \/ Release(t)
      BY <1>0, <1>a, <3>3 DEF Wait, Release, rVars, Goto, CallOK, Reading, Changing, LocType
    <3> QED BY <2>1, <3>1, <3>2, <3>3 DEF CloseStep
  <2>2. ASSUME NEW lo \in Blocks, NEW n \in 1 .. MaxReadLen, Read(t, lo, n) PROVE CallOK(t)'
    <3>1. PICK s \in SUBSET Blocks : 
             Moves(t, "prefetch", [loc[t] EXCEPT !.lo = lo, !.hi = lo + n, !.cur = lo, !.fb = Cache', !.todo = s])
      BY <2>2, ReadFacts
    <3>2. pc'[t] = "prefetch" /\ loc'[t].lo = lo /\ loc'[t].hi = lo + n /\ loc'[t].cur = lo /\ loc'[t].fb = Cache'
      BY <1>0, <1>a, <3>1 DEF Moves, LocType
    <3>3. lo < lo + n /\ lo \in Nat /\ Cache' # 0
      <4>1. lo < lo + n /\ Cache' \in FileBufs
        BY <2>2, ReadFacts
      <4> QED BY <4>1, Consts DEF FileBufs
    <3> QED BY <3>2, <3>3 DEF CallOK, Reading, Changing
  <2>3. ASSUME NEW lo \in Blocks, NEW n \in 1 .. MaxWriteLen, Write(t, lo, n) PROVE CallOK(t)'
    <3>1. pc'[t] = "write" /\ loc'[t].lo = lo /\ loc'[t].hi = lo + n /\ loc'[t].cur = lo /\ lo < lo + n /\ lo \in Nat
      <4>1. lo < lo + n /\ Moves(t, "write", [loc[t] EXCEPT !.lo = lo, !.hi = lo + n, !.cur = lo])
        BY <2>3, TypeWrite
      <4> QED BY <1>0, <1>a, <4>1, Consts DEF Moves, LocType
    <3> QED BY <3>1 DEF CallOK, Reading, Changing
  <2>4. CASE PrefetchLock(t) \/ PrefetchSend(t) \/ ReadLookup(t) \/ ReadLockW(t) \/ ReadOp(t) \/ DirectRead(t)
    <3>1. CASE PrefetchLock(t) \/ PrefetchSend(t)
      BY <1>0, <1>a, <3>1 DEF PrefetchLock, PrefetchSend, Goto, CallOK, Reading, Changing, LocType
    <3>2. CASE ReadLookup(t) \/ ReadLockW(t)
      BY <1>0, <1>a, <3>2 DEF ReadLookup, ReadLockW, rVars, Goto, CallOK, Reading, Changing, LocType
    <3>3. CASE ReadOp(t) \/ DirectRead(t)
      BY <1>0, <1>a, <3>3 DEF ReadOp, DirectRead, Goto, CallOK, Reading, Changing, LocType
    <3> QED BY <2>4, <3>1, <3>2, <3>3
  <2>5. CASE DirectReadFail(t)
    BY <1>0, <2>5 DEF DirectReadFail, Return, Goto, CallOK, Reading, Changing
  <2>6. CASE ReadMerge(t)
    <3>1. CASE loc[t].cur + 1 < loc[t].hi
      <4>1. /\ pc'[t] = "rlockw" /\ loc'[t].cur = loc[t].cur + 1 /\ loc'[t].lo = loc[t].lo
            /\ loc'[t].hi = loc[t].hi /\ loc'[t].fb = loc[t].fb /\ Cache' = Cache
        <5>1. /\ loc' = [loc EXCEPT ![t] = [loc[t] EXCEPT !.cur = loc[t].cur + 1, !.val = 0]]
              /\ Goto(t, "rlockw") /\ UNCHANGED rVars
          BY <2>6, <3>1 DEF ReadMerge
        <5>2. Cache' = Cache
          BY <5>1 DEF rVars
        <5> QED BY <1>0, <1>a, <5>1, <5>2 DEF Goto, LocType
      <4> QED BY <1>0, <1>a, <2>6, <3>1, <4>1 DEF CallOK, Reading, Changing, ReadMerge
    <3>2. CASE ~(loc[t].cur + 1 < loc[t].hi)
      BY <1>0, <2>6, <3>2 DEF ReadMerge, Return, Goto, CallOK, Reading, Changing
    <3> QED BY <3>1, <3>2
  <2>7. CASE WriteOne(t)
    <3>1. PICK c \in {"write", "clookup"}, n \in Blocks : 
              /\ Moves(t, c, [loc[t] EXCEPT !.cur = n]) /\ loc[t].lo <= n /\ n < loc[t].hi
              /\ c = "clookup" => n = loc[t].lo
      BY <2>7, WriteOneFacts DEF WriteGoes
    <3>2. pc'[t] = c /\ loc'[t].cur = n /\ loc'[t].lo = loc[t].lo /\ loc'[t].hi = loc[t].hi
      BY <1>0, <1>a, <3>1 DEF Moves, LocType
    <3> QED BY <3>1, <3>2 DEF CallOK, Reading, Changing
  <2>8. CASE CleanLookup(t)
    BY <1>0, <1>a, <2>8 DEF CleanLookup, WriteReturn, Return, rVars, Goto, CallOK, Reading, Changing, LocType
  <2>9. CASE Clean(t)
    BY <1>0, <1>a, <2>9 DEF Clean, WriteReturn, Return, rVars, Goto, CallOK, Reading, Changing, LocType
  <2> QED BY <2>1, <2>2, <2>3, <2>4, <2>5, <2>6, <2>7, <2>8, <2>9 DEF ThreadStep, ReadStep, WriteStep, WriteOne
<1> QED BY <1>2, <1>3 DEF CallInv

LEMMA CallGoroutine ==
    ASSUME Inv, \/ \E p \in Prefetchers : PrefetchStep(p)
                \/ \E e \in Expirers : ExpireStep(e)
                \/ \E x \in Blocks : FlushBuffer(x) \/ SyncWrite(x)
    PROVE  CallInv' /\ \A u \in Threads : pc'[u] = pc[u] /\ loc'[u] = loc[u]
<1>1. Cache' = Cache /\ \A u \in Threads : pc'[u] = pc[u] /\ loc'[u] = loc[u]
  <2>1. ASSUME NEW p \in Prefetchers, PrefetchStep(p)
        PROVE  Cache' = Cache /\ \A u \in Threads : pc'[u] = pc[u] /\ loc'[u] = loc[u]
    BY <2>1, GoroutineAlone, Consts DEF Alone
  <2>2. ASSUME NEW e \in Expirers, ExpireStep(e)
        PROVE  Cache' = Cache /\ \A u \in Threads : pc'[u] = pc[u] /\ loc'[u] = loc[u]
    BY <2>2, GoroutineAlone, Consts DEF Alone
  <2>3. ASSUME NEW x \in Blocks, FlushBuffer(x) \/ SyncWrite(x)
        PROVE  Cache' = Cache /\ \A u \in Threads : pc'[u] = pc[u] /\ loc'[u] = loc[u]
    BY <2>3, FlushFacts DEF rVars
  <2> QED BY <2>1, <2>2, <2>3
<1> QED BY <1>1, CallOther DEF CallInv

\* The steps of a thread that leave the read cache's blocks alone.
Quiet(t) ==
    \/ Open(t) \/ Close(t) \/ CloseLast(t) \/ CloseFile(t) \/ Wait(t) \/ WCacheClosed(t) \/ WCacheCloseFailed(t)
    \/ \E lo \in Blocks, n \in 1 .. MaxWriteLen : Write(t, lo, n)
    \/ PrefetchSend(t) \/ ReadLookup(t) \/ ReadLockW(t) \/ ReadMerge(t)
    \/ WriteOne(t) \/ CleanLookup(t)

LEMMA QuietFacts ==
    ASSUME Inv, NEW t \in Threads, Quiet(t)
    PROVE  UNCHANGED <<Cache, mapVars, LockMap>>
<1>1. CASE WriteOne(t)
  BY <1>1, WriteOneFacts DEF rVars
<1>2. CASE PrefetchSend(t)
  BY <1>2 DEF PrefetchSend
<1>3. CASE ~WriteOne(t) /\ ~PrefetchSend(t)
  BY <1>3 DEF Quiet, Open, Close, CloseLast, CloseFile, Wait, WCacheClosed, WCacheCloseFailed, Write,
     ReadLookup, ReadLockW, ReadMerge, CleanLookup, rVars
<1> QED BY <1>1, <1>2, <1>3

\* Every step of a thread is one of them, or changes one block or the FileBuffer.
LEMMA ThreadSteps ==
    ASSUME NEW t \in Threads, ThreadStep(t)
    PROVE  \/ Quiet(t)
           \/ PrefetchLock(t) \/ ReadOp(t) \/ DirectRead(t) \/ DirectReadFail(t)
           \/ Clean(t) \/ Release(t) \/ DetachFileBuffer(t)
           \/ \E lo \in Blocks, n \in 1 .. MaxReadLen : Read(t, lo, n)
  BY DEF ThreadStep, ReadStep, WriteStep, CloseStep, Quiet, WriteOne

-----------------------------------------------------------------------------
(* The last Close *)

LEMMA ClosingSteps ==
    ASSUME Inv, NEW t \in Threads, ThreadStep(t), pc'[t] \in Closing
    PROVE  CloseLast(t) \/ Wait(t) \/ Release(t) \/ DetachFileBuffer(t)
<1>0. t \in Procs /\ pc \in [Procs -> Labels] /\ loc \in [Procs -> LocType]
  BY Consts DEF Inv, TypeOK, ProcType
<1> HIDE DEF LocType, Labels
<1>1. ASSUME Quiet(t), ~CloseLast(t), ~Wait(t) PROVE FALSE
  <2>1. CASE WriteOne(t)
    BY <1>0, <2>1, WriteOneFacts DEF WriteGoes, Moves, Closing
  <2>2. CASE ~WriteOne(t)
    BY <1>0, <1>1, <2>2 DEF Quiet, Open, Close, CloseFile, WCacheClosed, WCacheCloseFailed, Write, PrefetchSend,
       ReadLookup, ReadLockW, ReadMerge, CleanLookup, WriteReturn, Return, Goto, Closing
  <2> QED BY <2>1, <2>2
<1>2. ASSUME PrefetchLock(t) \/ ReadOp(t) \/ DirectRead(t) \/ DirectReadFail(t) \/ Clean(t)
      PROVE  FALSE
  BY <1>0, <1>2 DEF PrefetchLock, ReadOp, DirectRead, DirectReadFail, Clean, WriteReturn, Return, Goto, Closing
<1>3. ASSUME NEW lo \in Blocks, NEW n \in 1 .. MaxReadLen, Read(t, lo, n) PROVE FALSE
  BY <1>0, <1>3 DEF Read, Goto, Closing
<1> QED BY <1>1, <1>2, <1>3, ThreadSteps

LEMMA CloseThread ==
    ASSUME Inv, NEW t \in Threads, ThreadStep(t)
    PROVE  CloseInv'
<1>0. t \in Procs /\ TypeOK /\ ReadType /\ CallInv /\ CloseInv /\ BufferInv
  BY Consts DEF Inv, TypeOK
<1>a. pc \in [Procs -> Labels] /\ loc[t] \in LocType /\ loc \in [Procs -> LocType]
  BY <1>0 DEF TypeOK, ProcType
<1>1. ASSUME NEW u \in Threads \ {t} PROVE pc'[u] = pc[u] /\ pc'[u] \notin Closing
  BY CloserAlone, ThreadAlone, Consts DEF Alone
<1>2. ASSUME pc'[t] \in Closing
      PROVE  /\ \A u \in Threads \ {t} : pc'[u] = "closed"
             /\ pc'[t] = "release" => \A x \in Blocks :
                  /\ LockMap'[<<Cache', x>>] = Free
                  /\ BufferMap'[<<Cache', x>>] # None => x \in loc'[t].todo
  <2>1. CASE CloseLast(t)
    BY <1>1, <1>a, <1>0, <2>1 DEF CloseLast, IsLastRefer, Goto
  <2>2. CASE Wait(t)
    <3>1. pc[t] \in Closing /\ loc[t].fb = Cache
      BY <1>0, <2>2 DEF Wait, Closing, CallInv, CallOK
    <3>2. /\ \A x \in Blocks : LockMap[<<Cache, x>>] = Free
          /\ loc' = [loc EXCEPT ![t].todo = {x \in Blocks : BufferMap[<<Cache, x>>] # None}]
          /\ UNCHANGED <<Cache, BufferMap, LockMap>>
      BY <2>2, <3>1 DEF Wait, WaitOver, rVars, mapVars
    <3>3. loc'[t].todo = {x \in Blocks : BufferMap[<<Cache, x>>] # None}
      BY <1>0, <1>a, <3>2 DEF LocType
    <3> QED BY <1>0, <1>1, <3>1, <3>2, <3>3 DEF CloseInv
  <2>3. CASE Release(t)
    <3>1. pc[t] \in Closing /\ pc[t] = "release" /\ loc[t].fb = Cache /\ Cache # 0
      BY <1>0, <2>3 DEF Release, Closing, CallInv, CallOK
    <3>2. PICK x \in loc[t].todo : /\ ReleaseBuffer(<<Cache, x>>)
                                   /\ loc' = [loc EXCEPT ![t].todo = @ \ {x}]
      BY <2>3, <3>1 DEF Release
    <3>3. x \in Blocks /\ <<Cache, x>> \in Keys /\ loc'[t].todo = loc[t].todo \ {x}
      BY <1>0, <1>a, <3>1, <3>2, LocFacts DEF LocType, Keys
    <3>4. UNCHANGED <<Cache, LockMap>> /\ BufferMap'[<<Cache, x>>] = None
      BY <1>0, <2>3, <3>2, <3>3, ReleaseFacts DEF Release
    <3>5. ASSUME NEW y \in Blocks \ {x} PROVE BufferMap'[<<Cache, y>>] = BufferMap[<<Cache, y>>]
      <4>1. <<Cache, y>> \in Keys \ {<<Cache, x>>}
        BY <3>3 DEF Keys
      <4> QED BY <1>0, <3>2, <3>3, <4>1, ReleaseFacts
    <3>6. \A y \in Blocks : LockMap[<<Cache, y>>] = Free /\ (BufferMap[<<Cache, y>>] # None => y \in loc[t].todo)
      BY <1>0, <3>1 DEF CloseInv
    <3>7. \A u \in Threads \ {t} : pc[u] = "closed"
      BY <1>0, <3>1 DEF CloseInv
    <3> QED BY <1>1, <3>3, <3>4, <3>5, <3>6, <3>7
  <2>4. CASE DetachFileBuffer(t)
    BY <1>0, <1>1, <1>a, <2>4 DEF DetachFileBuffer, CloseInv, Goto, Closing
  <2> QED BY <1>2, <2>1, <2>2, <2>3, <2>4, ClosingSteps
<1> QED BY <1>1, <1>2 DEF CloseInv, Closing

LEMMA CloseGoroutine ==
    ASSUME Inv
    PROVE  /\ \A p \in Prefetchers : PrefetchStep(p) => CloseInv'
           /\ \A e \in Expirers : ExpireStep(e) => CloseInv'
           /\ \A x \in Blocks : FlushBuffer(x) \/ SyncWrite(x) => CloseInv'
<1>0. TypeOK /\ ReadType /\ CloseInv /\ BufferInv /\ OwnerInv
  BY DEF Inv, TypeOK
<1>a. ASSUME \A u \in Threads : pc'[u] = pc[u] /\ loc'[u] = loc[u], UNCHANGED <<Cache, LockMap>>,
             \A k \in Keys : BufferMap'[k] # None => BufferMap[k] # None
      PROVE  CloseInv'
  <2>1. ASSUME NEW u \in Threads, pc[u] = "release", NEW x \in Blocks PROVE <<Cache, x>> \in Keys
    BY <1>0, <2>1 DEF Inv, CallInv, CallOK, ReadType, Keys, FileBufs
  <2> QED BY <1>0, <1>a, <2>1 DEF CloseInv
<1>1. ASSUME NEW p \in Prefetchers, PrefetchStep(p) PROVE CloseInv'
  <2>1. \A u \in Threads : pc'[u] = pc[u] /\ loc'[u] = loc[u]
    BY <1>1, CallGoroutine
  <2>2. CASE pc[p] \in {"fetch", "attach"}
    <3>1. Cache # 0 /\ loc[p].cur \in Blocks /\ LockMap[<<Cache, loc[p].cur>>] = WriteLock
      BY <2>2, PrefetcherFacts DEF RKey
    <3>2. \A u \in Threads : pc[u] # "release"
      BY <1>0, <3>1 DEF CloseInv, Free, WriteLock
    <3> QED BY <1>0, <2>1, <3>2 DEF CloseInv
  <2>3. CASE pc[p] \notin {"fetch", "attach"}
    <3>1. UNCHANGED <<Cache, LockMap, BufferMap>>
      BY <1>1, <2>3 DEF PrefetchStep, PrefetchTake, PrefetchFetch, PrefetchNothing, PrefetchAttach, mapVars
    <3> QED BY <1>a, <2>1, <3>1
  <2> QED BY <2>2, <2>3
<1>2. ASSUME NEW e \in Expirers, ExpireStep(e) PROVE CloseInv'
  <2>1. (\A u \in Threads : pc'[u] = pc[u] /\ loc'[u] = loc[u]) /\ UNCHANGED <<Cache, LockMap>>
    BY <1>2, CallGoroutine, GoroutineAlone
  <2>2. ASSUME NEW k \in Keys, BufferMap'[k] # None PROVE BufferMap[k] # None
    <3>1. CASE ExpireRelease(e)
      BY <1>0, <2>2, <3>1, ExpirerFacts, ReleaseFacts DEF ExpireRelease
    <3>2. CASE ~ExpireRelease(e)
      BY <1>2, <2>2, <3>2 DEF ExpireStep, LruExpire, ExpireLookup, rVars, mapVars
    <3> QED BY <3>1, <3>2
  <2> QED BY <1>a, <2>1, <2>2
<1>3. ASSUME NEW x \in Blocks, FlushBuffer(x) \/ SyncWrite(x) PROVE CloseInv'
  BY <1>a, <1>3, FlushFacts DEF rVars, mapVars
<1> QED BY <1>1, <1>2, <1>3

-----------------------------------------------------------------------------
(* FileBuffers that are gone *)

\* A step that changes the lock or the buffer of block k only.
OnlyAt(k) ==
    /\ Cache' = Cache
    /\ \A j \in Keys \ {k} : BufferMap'[j] = BufferMap[j] /\ LockMap'[j] = LockMap[j]

LEMMA FileAt ==
    ASSUME Inv, NEW k \in Keys, k[1] = Cache, OnlyAt(k)
    PROVE  FileInv'
  BY DEF Inv, FileInv, OnlyAt

\* The steps of a thread at a block of the read cache that is not locked for a
\* prefetch.
BlockStep(t) == PrefetchLock(t) \/ ReadOp(t) \/ DirectRead(t) \/ DirectReadFail(t) \/ Clean(t) \/ Release(t)

LEMMA BlockSteps ==
    ASSUME Inv, NEW t \in Threads, BlockStep(t)
    PROVE  \E k \in Keys : k[1] = Cache /\ LockMap[k] # WriteLock /\ OnlyAt(k)
<1>0. t \in Procs /\ TypeOK /\ ReadType /\ CallInv /\ BufferInv
  BY Consts DEF Inv, TypeOK
<1>1. CASE PrefetchLock(t)
  <2> DEFINE k == <<loc[t].fb, First(loc[t].todo)>>
  <2>1. k \in Keys /\ k[1] = Cache
    BY <1>0, <1>1, FirstFacts, LocFacts DEF PrefetchLock, CallInv, CallOK, Reading, Keys
  <2>2. LockMap[k] # WriteLock /\ OnlyAt(k)
    BY <1>0, <1>1 DEF PrefetchLock, OnlyAt, mapVars, LockFree, Free, WriteLock, ReadType
  <2> QED BY <2>1, <2>2
<1>2. CASE ReadOp(t) \/ DirectRead(t) \/ DirectReadFail(t)
  <2> DEFINE k == RKey(t)
  <2>1. k \in Keys /\ k[1] = Cache
    BY <1>0, <1>2, AtBlock DEF ReadOp, DirectRead, DirectReadFail, Reading, RKey
  <2>2. pc[t] = "rpc" => LockMap[k] # WriteLock
    BY ReadersHold DEF WriteLock
  <2>3. LockMap[k] # WriteLock /\ OnlyAt(k)
    BY <1>0, <1>2, <2>2 DEF ReadOp, DirectRead, DirectReadFail, RUnLockRead, OnlyAt, mapVars, RLockFree, ReadType
  <2> QED BY <2>1, <2>3
<1>3. CASE Clean(t)
  <2>1. RKey(t) \in Keys /\ RKey(t)[1] = Cache
    BY <1>0, <1>3, AtBlock DEF Clean, Changing, RKey
  <2>2. LockMap[RKey(t)] # WriteLock /\ OnlyAt(RKey(t))
    BY <1>0, <1>3, <2>1, ReleaseFacts DEF Clean, OnlyAt, Free, WriteLock
  <2> QED BY <2>1, <2>2
<1>4. CASE Release(t)
  <2>1. PICK x \in loc[t].todo : ReleaseBuffer(<<loc[t].fb, x>>)
    BY <1>4 DEF Release
  <2> DEFINE k == <<loc[t].fb, x>>
  <2>2. k \in Keys /\ k[1] = Cache
    BY <1>0, <1>4, LocFacts DEF Release, CallInv, CallOK, Keys
  <2>3. LockMap[k] # WriteLock /\ OnlyAt(k)
    BY <1>0, <1>4, <2>1, <2>2, ReleaseFacts DEF Release, OnlyAt, Free, WriteLock
  <2> QED BY <2>2, <2>3
<1> QED BY <1>1, <1>2, <1>3, <1>4 DEF BlockStep

\* When the FileBuffer of the file goes, nothing of it is locked or attached.
LEMMA DetachFacts ==
    ASSUME Inv, NEW t \in Threads, DetachFileBuffer(t)
    PROVE  /\ \A k \in Keys : LockMap[k] = Free /\ BufferMap[k] = None
           /\ Cache' = 0 /\ UNCHANGED <<mapVars, LockMap, chPrefetch>>
<1>1. ASSUME NEW k \in Keys PROVE LockMap[k] = Free /\ BufferMap[k] = None
  <2>1. CASE k[1] = Cache
    <3>1. k = <<Cache, k[2]>> /\ k[2] \in Blocks
      BY <2>1 DEF Keys
    <3> QED BY <3>1 DEF DetachFileBuffer, Inv, CloseInv
  <2> QED BY <2>1 DEF Inv, FileInv
<1> QED BY <1>1 DEF DetachFileBuffer

LEMMA FileThread ==
    ASSUME Inv, NEW t \in Threads, ThreadStep(t)
    PROVE  FileInv'
<1>0. FileInv
  BY DEF Inv
<1>1. CASE Quiet(t)
  BY <1>0, <1>1, QuietFacts DEF FileInv, mapVars
<1>2. CASE BlockStep(t)
  BY <1>2, BlockSteps, FileAt
<1>3. CASE DetachFileBuffer(t)
  BY <1>3, DetachFacts DEF FileInv, mapVars
<1>4. ASSUME NEW lo \in Blocks, NEW n \in 1 .. MaxReadLen, Read(t, lo, n) PROVE FileInv'
  <2>1. Cache # 0 => Cache' = Cache
    BY <1>4, ReadFacts
  <2>2. UNCHANGED <<BufferMap, LockMap>>
    BY <1>4 DEF Read, mapVars
  <2>3. \A k \in Keys : k[1] # 0
    BY DEF Keys, FileBufs
  <2> QED BY <1>0, <2>1, <2>2, <2>3 DEF FileInv
<1> QED BY <1>1, <1>2, <1>3, <1>4, ThreadSteps DEF BlockStep

\* The steps of the goroutines at a block.
LEMMA UnLockFacts ==
    ASSUME Inv, NEW p \in Prefetchers, PrefetchNothing(p) \/ PrefetchAttach(p)
    PROVE  /\ RKey(p) \in Keys /\ RKey(p)[1] = Cache /\ OnlyAt(RKey(p)) /\ LockMap'[RKey(p)] = Free
           /\ chPrefetch' = chPrefetch /\ pc'[p] = "idle"
<1>0. ReadType /\ ProcType /\ p \in Procs
  BY Consts DEF Inv, TypeOK
<1>1. RKey(p) \in Keys /\ RKey(p)[1] = Cache
  BY PrefetcherFacts DEF PrefetchNothing, PrefetchAttach, RKey
<1>2. /\ Cache' = Cache /\ chPrefetch' = chPrefetch /\ LockMap' = [LockMap EXCEPT ![RKey(p)] = Free]
      /\ pc' = [pc EXCEPT ![p] = "idle"]
      /\ BufferMap' = BufferMap \/ BufferMap' = [BufferMap EXCEPT ![RKey(p)] = loc[p].val]
  BY DEF PrefetchNothing, PrefetchAttach, PrefetchUnLock, TakeBuffer, mapVars, Goto
<1> QED BY <1>0, <1>1, <1>2 DEF OnlyAt, ReadType, ProcType

LEMMA FileGoroutine ==
    ASSUME Inv
    PROVE  /\ \A p \in Prefetchers : PrefetchStep(p) => FileInv'
           /\ \A e \in Expirers : ExpireStep(e) => FileInv'
           /\ \A x \in Blocks : FlushBuffer(x) \/ SyncWrite(x) => FileInv'
<1>0. TypeOK /\ FileInv /\ BufferInv
  BY DEF Inv
<1>1. ASSUME NEW p \in Prefetchers, PrefetchStep(p) PROVE FileInv'
  <2>1. CASE PrefetchTake(p) \/ PrefetchFetch(p)
    BY <1>0, <2>1 DEF PrefetchTake, PrefetchFetch, FileInv, rVars, mapVars
  <2> QED BY <1>1, <2>1, UnLockFacts, FileAt DEF PrefetchStep
<1>2. ASSUME NEW e \in Expirers, ExpireStep(e) PROVE FileInv'
  <2>1. CASE ExpireRelease(e)
    <3>1. RKey(e) \in Keys /\ ReleaseBuffer(RKey(e)) /\ UNCHANGED <<Cache, LockMap>>
      BY <2>1, ExpirerFacts DEF ExpireRelease
    <3> QED BY <1>0, <3>1, ReleaseFacts DEF FileInv
  <2>2. CASE LruExpire(e) \/ ExpireLookup(e)
    BY <1>0, <2>2 DEF LruExpire, ExpireLookup, FileInv, rVars, mapVars
  <2> QED BY <1>2, <2>1, <2>2 DEF ExpireStep
<1>3. ASSUME NEW x \in Blocks, FlushBuffer(x) \/ SyncWrite(x) PROVE FileInv'
  BY <1>0, <1>3, FlushFacts DEF FileInv, rVars, mapVars
<1> QED BY <1>1, <1>2, <1>3

-----------------------------------------------------------------------------
(* The blocks locked for a prefetch *)

\* Who holds a block held it before, and what was locked stays so.
LEMMA OwnerKeep ==
    ASSUME Inv, chPrefetch' = chPrefetch,
           \A p \in Procs, x \in 0 .. MaxBlock + 1 : Holds(p, x)' => Holds(p, x) /\ loc'[p].fb = loc[p].fb,
           \A x \in Blocks : Held(x) => Held(x)' /\ Cache' = Cache
    PROVE  OwnerInv'
<1>0. OwnerInv /\ chPrefetch \subseteq Blocks
  BY DEF Inv, TypeOK, ReadType
<1>1. ASSUME NEW x \in chPrefetch' PROVE Held(x)'
  BY <1>0 DEF OwnerInv
<1>2. ASSUME NEW p \in Procs, NEW x \in 0 .. MaxBlock + 1, Holds(p, x)'
      PROVE  /\ x \in Blocks /\ loc'[p].fb = Cache' /\ Held(x)' /\ x \notin chPrefetch'
             /\ \A q \in Procs : Holds(q, x)' => q = p
  BY <1>0, <1>2 DEF OwnerInv
<1> HIDE DEF Held, Holds
<1> QED BY <1>1, <1>2 DEF OwnerInv

LEMMA HeldAt ==
    ASSUME Inv, NEW k \in Keys, LockMap[k] # WriteLock, OnlyAt(k), NEW x \in Blocks, Held(x)
    PROVE  Held(x)' /\ Cache' = Cache
<1>1. <<Cache, x>> \in Keys \ {k}
  <2>1. Cache \in FileBufs
    BY DEF Held, FileBufs, Inv, TypeOK, ReadType
  <2>2. <<Cache, x>> # k
    BY DEF Held
  <2> QED BY <2>1, <2>2 DEF Keys
<1> QED BY <1>1 DEF Held, OnlyAt

\* A thread that is not about to send holds nothing new.
LEMMA HoldsThread ==
    ASSUME Inv, NEW t \in Threads, ThreadStep(t), pc'[t] # "psend"
    PROVE  \A p \in Procs, x \in 0 .. MaxBlock + 1 : Holds(p, x)' => Holds(p, x) /\ loc'[p].fb = loc[p].fb
<1> SUFFICES ASSUME NEW p \in Procs, NEW x \in 0 .. MaxBlock + 1, Holds(p, x)'
             PROVE  Holds(p, x) /\ loc'[p].fb = loc[p].fb
  OBVIOUS
<1>1. p # t
  BY Consts DEF Holds
<1>2. pc'[p] = pc[p] /\ loc'[p] = loc[p]
  BY <1>1, ThreadAlone DEF Alone
<1> QED BY <1>2 DEF Holds

LEMMA OwnerThread ==
    ASSUME Inv, NEW t \in Threads, ThreadStep(t)
    PROVE  OwnerInv'
<1>0. t \in Procs /\ TypeOK /\ ReadType /\ ProcType /\ CallInv /\ OwnerInv
  BY Consts DEF Inv, TypeOK
<1>a. pc \in [Procs -> Labels] /\ loc \in [Procs -> LocType] /\ loc[t] \in LocType
  BY <1>0 DEF ProcType
<1>b. pc'[t] = "psend" => PrefetchLock(t)
  <2>1. CASE Quiet(t)
    <3>1. CASE WriteOne(t)
      BY <1>0, <1>a, <3>1, WriteOneFacts DEF WriteGoes, Moves
    <3>2. CASE ~WriteOne(t)
      BY <1>0, <1>a, <2>1, <3>2 DEF Quiet, Open, Close, CloseLast, CloseFile, Wait, WCacheClosed, WCacheCloseFailed,
         Write, PrefetchSend, ReadLookup, ReadLockW, ReadMerge, CleanLookup, WriteReturn, Return, Goto
    <3> QED BY <3>1, <3>2
  <2>2. CASE BlockStep(t) \/ DetachFileBuffer(t)
    BY <1>0, <1>a, <2>2 DEF BlockStep, ReadOp, DirectRead, DirectReadFail, Clean, Release, DetachFileBuffer,
       WriteReturn, Return, Goto
  <2>3. CASE \E lo \in Blocks, n \in 1 .. MaxReadLen : Read(t, lo, n)
    BY <1>0, <1>a, <2>3 DEF Read, Goto
  <2> QED BY <2>1, <2>2, <2>3, ThreadSteps DEF BlockStep
<1>1. CASE Quiet(t) /\ ~PrefetchSend(t)
  <2>1. UNCHANGED <<Cache, BufferMap, LockMap>> /\ ~PrefetchLock(t)
    BY <1>1, QuietFacts DEF mapVars, Quiet, PrefetchLock, Open, Close, CloseLast, CloseFile, Wait, WCacheClosed,
       WCacheCloseFailed, Write, ReadLookup, ReadLockW, ReadMerge, CleanLookup, WriteOne, WriteBuffered,
       WriteThrough, WriteQueued, WriteFail, AtWrite
  <2>2. UNCHANGED chPrefetch
    <3>1. CASE WriteOne(t)
      BY <3>1, WriteOneFacts DEF rVars
    <3>2. CASE ~WriteOne(t)
      BY <1>1, <3>2 DEF Quiet, Open, Close, CloseLast, CloseFile, Wait, WCacheClosed, WCacheCloseFailed, Write,
         ReadLookup, ReadLockW, ReadMerge, CleanLookup, rVars
    <3> QED BY <3>1, <3>2
  <2>3. \A x \in Blocks : Held(x) => Held(x)' /\ Cache' = Cache
    BY <2>1 DEF Held
  <2> QED BY <1>b, <2>1, <2>2, <2>3, HoldsThread, OwnerKeep
<1>2. CASE PrefetchSend(t)
  <2> DEFINE x0 == First(loc[t].todo)
  <2>1. x0 \in Blocks /\ Holds(t, x0) /\ x0 \in 0 .. MaxBlock + 1
    BY <1>0, <1>2, FirstFacts, LocFacts, Consts DEF PrefetchSend, CallInv, CallOK, Holds, Blocks
  <2>2. /\ chPrefetch' = chPrefetch \cup {x0} /\ UNCHANGED <<Cache, BufferMap, LockMap>> /\ pc'[t] = "prefetch"
    BY <1>0, <1>a, <1>2 DEF PrefetchSend, mapVars, Goto
  <2>3. \A x : Held(x)' <=> Held(x)
    BY <2>2 DEF Held
  <2>4. \A p \in Procs, x \in 0 .. MaxBlock + 1 : Holds(p, x)' => Holds(p, x) /\ loc'[p].fb = loc[p].fb /\ p # t
    BY <2>2, HoldsThread, Consts DEF Holds
  <2>5. ASSUME NEW x \in chPrefetch' PROVE Held(x)'
    BY <1>0, <2>1, <2>2, <2>3 DEF OwnerInv
  <2>6. ASSUME NEW p \in Procs, NEW x \in 0 .. MaxBlock + 1, Holds(p, x)'
        PROVE  /\ x \in Blocks /\ loc'[p].fb = Cache' /\ Held(x)' /\ x \notin chPrefetch'
               /\ \A q \in Procs : Holds(q, x)' => q = p
    <3>1. Holds(p, x) /\ loc'[p].fb = loc[p].fb /\ p # t
      BY <2>4, <2>6
    <3>2. x # x0
      BY <1>0, <2>1, <3>1 DEF OwnerInv
    <3>3. /\ x \in Blocks /\ loc[p].fb = Cache /\ Held(x) /\ x \notin chPrefetch
          /\ \A q \in Procs : Holds(q, x) => q = p
      BY <1>0, <3>1 DEF OwnerInv
    <3> QED BY <2>2, <2>3, <2>4, <3>1, <3>2, <3>3
  <2> HIDE DEF Held, Holds
  <2> QED BY <2>5, <2>6 DEF OwnerInv
<1>3. CASE BlockStep(t) /\ pc'[t] # "psend"
  <2>1. \A x \in Blocks : Held(x) => Held(x)' /\ Cache' = Cache
    BY <1>3, BlockSteps, HeldAt
  <2>2. UNCHANGED chPrefetch
    BY <1>3 DEF BlockStep, PrefetchLock, ReadOp, DirectRead, DirectReadFail, Clean, Release
  <2> QED BY <1>3, <2>1, <2>2, HoldsThread, OwnerKeep
<1>4. CASE PrefetchLock(t) /\ pc'[t] = "psend"
  <2> DEFINE x0 == First(loc[t].todo)
             k == <<loc[t].fb, x0>>
  <2>1. x0 \in Blocks /\ k \in Keys /\ k[1] = Cache /\ Cache # 0
    BY <1>0, <1>4, FirstFacts, LocFacts DEF PrefetchLock, CallInv, CallOK, Reading, Keys
  <2>2. /\ LockMap[k] = Free /\ LockMap' = [LockMap EXCEPT ![k] = WriteLock] /\ BufferMap[k] = None
        /\ UNCHANGED <<Cache, BufferMap, chPrefetch, loc>>
    BY <1>0, <1>a, <1>4 DEF PrefetchLock, mapVars, LockFree, Goto
  <2>3. LockMap[k] # WriteLock /\ OnlyAt(k)
    BY <1>0, <2>2 DEF OnlyAt, ReadType, Free, WriteLock
  <2>4. Held(x0)' /\ ~Held(x0) /\ \A x \in Blocks : Held(x) => Held(x)'
    BY <1>0, <2>1, <2>2, <2>3, HeldAt DEF Held, ReadType, Free, WriteLock
  <2>5. ASSUME NEW p \in Procs, NEW x \in 0 .. MaxBlock + 1, Holds(p, x)', p # t
        PROVE  Holds(p, x) /\ x # x0
    <3>1. Holds(p, x)
      BY <2>5, ThreadAlone DEF Alone, Holds
    <3> QED BY <1>0, <2>4, <3>1 DEF OwnerInv
  <2>6. ASSUME NEW x, Holds(t, x)' PROVE x = x0
    BY <2>2, <2>6, Consts DEF Holds
  <2>7. ASSUME NEW x \in chPrefetch' PROVE Held(x)'
    BY <1>0, <2>2, <2>4 DEF OwnerInv, ReadType
  <2>8. ASSUME NEW p \in Procs, NEW x \in 0 .. MaxBlock + 1, Holds(p, x)'
        PROVE  /\ x \in Blocks /\ loc'[p].fb = Cache' /\ Held(x)' /\ x \notin chPrefetch'
               /\ \A q \in Procs : Holds(q, x)' => q = p
    <3>1. CASE p = t
      <4>1. x = x0 /\ x0 \notin chPrefetch
        BY <1>0, <2>4, <2>6, <2>8, <3>1 DEF OwnerInv
      <4> QED BY <2>1, <2>2, <2>4, <2>5, <3>1, <4>1
    <3>2. CASE p # t
      <4>1. Holds(p, x) /\ x # x0
        BY <2>5, <2>8, <3>2
      <4>2. /\ x \in Blocks /\ loc[p].fb = Cache /\ Held(x) /\ x \notin chPrefetch
            /\ \A q \in Procs : Holds(q, x) => q = p
        BY <1>0, <4>1 DEF OwnerInv
      <4> QED BY <2>2, <2>4, <2>5, <2>6, <4>1, <4>2
    <3> QED BY <3>1, <3>2
  <2> HIDE DEF Held, Holds
  <2> QED BY <2>7, <2>8 DEF OwnerInv
<1>5. CASE DetachFileBuffer(t)
  <2>1. \A x \in Blocks : ~Held(x)
    BY <1>0, <1>5, DetachFacts DEF Held, Keys, FileBufs, ReadType, Free, WriteLock
  <2>2. UNCHANGED chPrefetch /\ pc'[t] # "psend"
    BY <1>0, <1>a, <1>5 DEF DetachFileBuffer, Goto
  <2> QED BY <2>1, <2>2, HoldsThread, OwnerKeep
<1>6. ASSUME NEW lo \in Blocks, NEW n \in 1 .. MaxReadLen, Read(t, lo, n) PROVE OwnerInv'
  <2>1. UNCHANGED <<BufferMap, LockMap, chPrefetch>> /\ pc'[t] # "psend"
    BY <1>0, <1>a, <1>6 DEF Read, mapVars, Goto
  <2>2. Cache # 0 => Cache' = Cache
    BY <1>6, ReadFacts
  <2>3. \A x \in Blocks : Held(x) => Held(x)' /\ Cache' = Cache
    BY <2>1, <2>2 DEF Held
  <2> QED BY <2>1, <2>3, HoldsThread, OwnerKeep
<1> QED BY <1>1, <1>2, <1>3, <1>4, <1>5, <1>6, <1>b, ThreadSteps DEF BlockStep

LEMMA OwnerGoroutine ==
    ASSUME Inv
    PROVE  /\ \A p \in Prefetchers : PrefetchStep(p) => OwnerInv'
           /\ \A e \in Expirers : ExpireStep(e) => OwnerInv'
           /\ \A x \in Blocks : FlushBuffer(x) \/ SyncWrite(x) => OwnerInv'
<1>0. TypeOK /\ ReadType /\ ProcType /\ OwnerInv /\ BufferInv
  BY DEF Inv, TypeOK
<1>a. pc \in [Procs -> Labels] /\ loc \in [Procs -> LocType]
  BY <1>0 DEF ProcType
<1>1. ASSUME NEW p \in Prefetchers, PrefetchTake(p) PROVE OwnerInv'
  <2>1. PICK x0 \in chPrefetch : /\ chPrefetch' = chPrefetch \ {x0}
                                 /\ loc' = [loc EXCEPT ![p] = [loc[p] EXCEPT !.fb = Cache, !.cur = x0]]
    BY <1>1 DEF PrefetchTake
  <2>2. p \in Procs /\ x0 \in Blocks /\ loc[p] \in LocType
    BY <1>0, <1>a, Consts DEF ReadType
  <2>3. /\ pc[p] = "idle" /\ pc'[p] = "fetch" /\ UNCHANGED <<Cache, BufferMap, LockMap>>
        /\ loc'[p].fb = Cache /\ loc'[p].cur = x0
    BY <1>a, <1>1, <2>1, <2>2 DEF PrefetchTake, mapVars, Goto, LocType
  <2>4. \A x : Held(x)' <=> Held(x)
    BY <2>3 DEF Held
  <2>5. ASSUME NEW q \in Procs, NEW x \in 0 .. MaxBlock + 1, Holds(q, x)', q # p
        PROVE  Holds(q, x) /\ loc'[q].fb = loc[q].fb /\ x # x0
    <3>1. pc'[q] = pc[q] /\ loc'[q] = loc[q]
      BY <1>1, <2>5, GoroutineAlone DEF Alone, PrefetchStep
    <3>2. Holds(q, x)
      BY <2>5, <3>1 DEF Holds
    <3> QED BY <1>0, <3>1, <3>2 DEF OwnerInv
  <2>6. ASSUME NEW x, Holds(p, x)' PROVE x = x0
    BY <2>3, <2>6, Consts DEF Holds
  <2>7. ASSUME NEW x \in chPrefetch' PROVE Held(x)'
    BY <1>0, <2>1, <2>4 DEF OwnerInv
  <2>8. ASSUME NEW q \in Procs, NEW x \in 0 .. MaxBlock + 1, Holds(q, x)'
        PROVE  /\ x \in Blocks /\ loc'[q].fb = Cache' /\ Held(x)' /\ x \notin chPrefetch'
               /\ \A r \in Procs : Holds(r, x)' => r = q
    <3>1. CASE q = p
      <4>1. x = x0
        BY <2>6, <2>8, <3>1
      <4>2. Held(x0)
        BY <1>0 DEF OwnerInv
      <4> QED BY <2>1, <2>2, <2>3, <2>4, <2>5, <2>8, <3>1, <4>1, <4>2
    <3>2. CASE q # p
      <4>1. Holds(q, x) /\ loc'[q].fb = loc[q].fb /\ x # x0
        BY <2>5, <2>8, <3>2
      <4>2. /\ x \in Blocks /\ loc[q].fb = Cache /\ Held(x) /\ x \notin chPrefetch
            /\ \A r \in Procs : Holds(r, x) => r = q
        BY <1>0, <4>1 DEF OwnerInv
      <4> QED BY <2>1, <2>3, <2>4, <2>5, <2>6, <2>8, <4>1, <4>2
    <3> QED BY <3>1, <3>2
  <2> HIDE DEF Held, Holds
  <2> QED BY <2>7, <2>8 DEF OwnerInv
<1>2. ASSUME NEW p \in Prefetchers, PrefetchFetch(p) PROVE OwnerInv'
  <2>1. /\ pc[p] = "fetch" /\ UNCHANGED <<Cache, BufferMap, LockMap, chPrefetch>>
        /\ loc'[p].cur = loc[p].cur /\ loc'[p].fb = loc[p].fb
    BY <1>a, <1>2, Consts DEF PrefetchFetch, rVars, mapVars, LocType
  <2>2. ASSUME NEW q \in Procs, NEW x \in 0 .. MaxBlock + 1, Holds(q, x)'
        PROVE  Holds(q, x) /\ loc'[q].fb = loc[q].fb
    <3>1. CASE q = p
      BY <2>1, <2>2, <3>1, Consts DEF Holds
    <3>2. CASE q # p
      BY <1>2, <2>2, <3>2, GoroutineAlone DEF Alone, PrefetchStep, Holds
    <3> QED BY <3>1, <3>2
  <2>3. \A x \in Blocks : Held(x) => Held(x)' /\ Cache' = Cache
    BY <2>1 DEF Held
  <2> QED BY <2>1, <2>2, <2>3, OwnerKeep
<1>3. ASSUME NEW p \in Prefetchers, PrefetchNothing(p) \/ PrefetchAttach(p) PROVE OwnerInv'
  <2> DEFINE x0 == loc[p].cur
  <2>1. /\ p \in Procs /\ x0 \in Blocks /\ Holds(p, x0) /\ RKey(p) = <<Cache, x0>> /\ x0 \in 0 .. MaxBlock + 1
    BY <1>3, PrefetcherFacts, Consts DEF PrefetchNothing, PrefetchAttach, RKey, Blocks
  <2>2. OnlyAt(<<Cache, x0>>) /\ UNCHANGED <<Cache, chPrefetch>> /\ pc'[p] = "idle"
    BY <1>3, <2>1, UnLockFacts DEF OnlyAt
  <2>3. ASSUME NEW x \in Blocks, x # x0, Held(x) PROVE Held(x)'
    <3>1. <<Cache, x>> \in Keys \ {<<Cache, x0>>}
      BY <1>0, <2>3 DEF Held, Keys, FileBufs, ReadType
    <3> QED BY <2>2, <2>3, <3>1 DEF Held, OnlyAt
  <2>4. ASSUME NEW q \in Procs, NEW x \in 0 .. MaxBlock + 1, Holds(q, x)'
        PROVE  Holds(q, x) /\ loc'[q].fb = loc[q].fb /\ x # x0
    <3>1. q # p
      BY <2>2, <2>4, Consts DEF Holds
    <3>2. Holds(q, x) /\ loc'[q].fb = loc[q].fb
      BY <1>3, <2>4, <3>1, GoroutineAlone DEF Alone, PrefetchStep, Holds
    <3> QED BY <1>0, <2>1, <3>1, <3>2 DEF OwnerInv
  <2>5. ASSUME NEW x \in chPrefetch' PROVE Held(x)'
    BY <1>0, <2>1, <2>2, <2>3 DEF OwnerInv, ReadType
  <2>6. ASSUME NEW q \in Procs, NEW x \in 0 .. MaxBlock + 1, Holds(q, x)'
        PROVE  /\ x \in Blocks /\ loc'[q].fb = Cache' /\ Held(x)' /\ x \notin chPrefetch'
               /\ \A r \in Procs : Holds(r, x)' => r = q
    BY <1>0, <2>2, <2>3, <2>4, <2>6 DEF OwnerInv
  <2> HIDE DEF Held, Holds
  <2> QED BY <2>5, <2>6 DEF OwnerInv
<1>4. ASSUME NEW e \in Expirers, ExpireStep(e) PROVE OwnerInv'
  <2>1. UNCHANGED <<Cache, LockMap, chPrefetch>> /\ Alone(e)
    BY <1>4, GoroutineAlone
  <2>2. ASSUME NEW q \in Procs, NEW x \in 0 .. MaxBlock + 1, Holds(q, x)'
        PROVE  Holds(q, x) /\ loc'[q].fb = loc[q].fb
    BY <2>1, <2>2, Consts DEF Alone, Holds
  <2>3. ASSUME NEW x \in Blocks, Held(x) PROVE Held(x)' /\ Cache' = Cache
    <3>1. CASE ExpireRelease(e)
      <4>1. RKey(e) \in Keys /\ ReleaseBuffer(RKey(e))
        BY <3>1, ExpirerFacts DEF ExpireRelease
      <4>2. LockMap[RKey(e)] # WriteLock /\ OnlyAt(RKey(e))
        BY <1>0, <2>1, <4>1, ReleaseFacts DEF OnlyAt, Free, WriteLock
      <4> QED BY <2>3, <4>1, <4>2, HeldAt
    <3>2. CASE LruExpire(e) \/ ExpireLookup(e)
      BY <2>1, <2>3, <3>2 DEF LruExpire, ExpireLookup, Held, rVars, mapVars
    <3> QED BY <1>4, <3>1, <3>2 DEF ExpireStep
  <2> QED BY <2>1, <2>2, <2>3, OwnerKeep
<1>5. ASSUME NEW y \in Blocks, FlushBuffer(y) \/ SyncWrite(y) PROVE OwnerInv'
  <2>1. UNCHANGED <<Cache, BufferMap, LockMap, chPrefetch, pc, loc>>
    BY <1>5, FlushFacts DEF rVars, mapVars
  <2> QED BY <2>1, OwnerKeep DEF Holds, Held
<1> QED BY <1>1, <1>2, <1>3, <1>4, <1>5 DEF PrefetchStep

-----------------------------------------------------------------------------
(* The locks count their readers *)

LEMMA ReaderKeep ==
    ASSUME Inv, UNCHANGED <<LockMap, wlock>>,
           \A k \in Keys : Readers(k)' = Readers(k),
           \A x \in Blocks : WReaders(x)' = WReaders(x)
    PROVE  ReaderInv'
  BY DEF Inv, ReaderInv

\* A lock that goes up or down by one with its set of readers.
LEMMA RCount ==
    ASSUME Inv, NEW t \in Threads, NEW k0 \in Keys,
           \A k \in Keys \ {k0} : LockMap'[k] = LockMap[k] /\ Readers(k)' = Readers(k),
           \/ /\ LockMap[k0] # WriteLock /\ LockMap'[k0] = LockMap[k0] + 1
              /\ t \notin Readers(k0) /\ Readers(k0)' = Readers(k0) \cup {t}
           \/ /\ LockMap'[k0] = LockMap[k0] - 1
              /\ t \in Readers(k0) /\ Readers(k0)' = Readers(k0) \ {t}
    PROVE  \A k \in Keys : Counts(LockMap'[k], Readers(k)')
<1>0. \A k \in Keys : Counts(LockMap[k], Readers(k)) /\ Readers(k) \subseteq Threads
                      /\ LockMap[k] \in Nat \cup {WriteLock}
  BY DEF Inv, ReaderInv, Readers, TypeOK, ReadType
<1>1. CASE /\ LockMap[k0] # WriteLock /\ LockMap'[k0] = LockMap[k0] + 1
           /\ t \notin Readers(k0) /\ Readers(k0)' = Readers(k0) \cup {t}
  <2>1. LockMap[k0] \in Nat
    BY <1>0, <1>1
  <2>2. Counts(LockMap[k0] + 1, Readers(k0) \cup {t})
    BY <1>0, <1>1, <2>1, CountAdd
  <2> QED BY <1>0, <1>1, <2>2
<1>2. CASE /\ LockMap'[k0] = LockMap[k0] - 1
           /\ t \in Readers(k0) /\ Readers(k0)' = Readers(k0) \ {t}
  <2>1. Counts(LockMap[k0] - 1, Readers(k0) \ {t})
    BY <1>0, <1>2, CountRemove
  <2> QED BY <1>0, <1>2, <2>1
<1> QED BY <1>1, <1>2

LEMMA WCount ==
    ASSUME Inv, NEW t \in Threads, NEW x0 \in Blocks,
           \A x \in Blocks \ {x0} : wlock'[x] = wlock[x] /\ WReaders(x)' = WReaders(x),
           \/ /\ wlock[x0] # WriteLock /\ wlock'[x0] = wlock[x0] + 1
              /\ t \notin WReaders(x0) /\ WReaders(x0)' = WReaders(x0) \cup {t}
           \/ /\ wlock'[x0] = wlock[x0] - 1
              /\ t \in WReaders(x0) /\ WReaders(x0)' = WReaders(x0) \ {t}
    PROVE  \A x \in Blocks : Counts(wlock'[x], WReaders(x)')
<1>0. \A x \in Blocks : Counts(wlock[x], WReaders(x)) /\ WReaders(x) \subseteq Threads
                        /\ wlock[x] \in Nat \cup {WriteLock}
  BY DEF Inv, ReaderInv, WReaders, TypeOK, WriteType
<1>1. CASE /\ wlock[x0] # WriteLock /\ wlock'[x0] = wlock[x0] + 1
           /\ t \notin WReaders(x0) /\ WReaders(x0)' = WReaders(x0) \cup {t}
  <2>1. wlock[x0] \in Nat
    BY <1>0, <1>1
  <2>2. Counts(wlock[x0] + 1, WReaders(x0) \cup {t})
    BY <1>0, <1>1, <2>1, CountAdd
  <2> QED BY <1>0, <1>1, <2>2
<1>2. CASE /\ wlock'[x0] = wlock[x0] - 1
           /\ t \in WReaders(x0) /\ WReaders(x0)' = WReaders(x0) \ {t}
  <2>1. Counts(wlock[x0] - 1, WReaders(x0) \ {t})
    BY <1>0, <1>2, CountRemove
  <2> QED BY <1>0, <1>2, <2>1
<1> QED BY <1>1, <1>2

\* Only the thread that moves comes and goes.
LEMMA ReadersOthers ==
    ASSUME NEW t \in Threads, Alone(t)
    PROVE  /\ \A k : Readers(k)' \ {t} = Readers(k) \ {t}
           /\ \A x : WReaders(x)' \ {t} = WReaders(x) \ {t}
<1>1. \A u \in Threads \ {t} : pc'[u] = pc[u] /\ loc'[u] = loc[u]
  BY Consts DEF Alone
<1> QED BY <1>1 DEF Readers, WReaders, RKey

LEMMA RQuiet ==
    ASSUME Inv, NEW t \in Threads, Alone(t), pc[t] # "rpc", pc'[t] # "rpc"
    PROVE  \A k \in Keys : Readers(k)' = Readers(k)
<1>1. \A k : t \notin Readers(k) /\ t \notin Readers(k)'
  BY DEF Readers
<1> QED BY <1>1, ReadersOthers

LEMMA RThread ==
    ASSUME Inv, NEW t \in Threads, ThreadStep(t)
    PROVE  \A k \in Keys : Counts(LockMap'[k], Readers(k)')
<1>0. t \in Procs /\ TypeOK /\ ReadType /\ CallInv /\ Alone(t) /\ \A k \in Keys : Counts(LockMap[k], Readers(k))
  BY Consts, ThreadAlone DEF Inv, TypeOK, ReaderInv
<1>a. pc \in [Procs -> Labels] /\ loc \in [Procs -> LocType] /\ loc[t] \in LocType
  BY <1>0 DEF TypeOK, ProcType
<1> HIDE DEF LocType, Labels
<1>1. CASE Quiet(t)
  <2>1. pc[t] # "rpc" /\ pc'[t] # "rpc"
    <3>1. CASE WriteOne(t)
      BY <1>0, <1>a, <3>1, WriteOneFacts DEF WriteGoes, Moves
    <3>2. CASE ~WriteOne(t)
      BY <1>0, <1>1, <1>a, <3>2 DEF Quiet, Open, Close, CloseLast, CloseFile, Wait, WCacheClosed, WCacheCloseFailed,
         Write, PrefetchSend, ReadLookup, ReadLockW, ReadMerge, CleanLookup, WriteReturn, Return, Goto
    <3> QED BY <3>1, <3>2
  <2> QED BY <1>0, <1>1, <2>1, QuietFacts, RQuiet
<1>2. CASE Clean(t) \/ Release(t) \/ DetachFileBuffer(t)
  <2>1. pc[t] # "rpc" /\ pc'[t] # "rpc" /\ LockMap' = LockMap
    BY <1>0, <1>a, <1>2 DEF Clean, Release, DetachFileBuffer, WriteReturn, Return, Goto
  <2> QED BY <1>0, <2>1, RQuiet
<1>3. CASE \E lo \in Blocks, n \in 1 .. MaxReadLen : Read(t, lo, n)
  <2>1. pc[t] # "rpc" /\ pc'[t] # "rpc" /\ LockMap' = LockMap
    BY <1>0, <1>a, <1>3 DEF Read, Goto
  <2> QED BY <1>0, <2>1, RQuiet
<1>4. CASE PrefetchLock(t)
  <2> DEFINE k0 == <<loc[t].fb, First(loc[t].todo)>>
  <2>1. pc[t] # "rpc" /\ pc'[t] # "rpc" /\ LockMap[k0] = Free
    BY <1>0, <1>a, <1>4 DEF PrefetchLock, LockFree, Goto
  <2>2. LockMap' = LockMap \/ LockMap' = [LockMap EXCEPT ![k0] = WriteLock]
    BY <1>4 DEF PrefetchLock
  <2>3. \A k \in Keys : Readers(k)' = Readers(k)
    BY <1>0, <2>1, RQuiet
  <2>4. k0 \in Keys => Readers(k0) = {}
    BY <1>0, <2>1, CountFree DEF Readers
  <2> QED BY <1>0, <2>2, <2>3, <2>4 DEF ReadType, Counts
<1>5. CASE ReadOp(t)
  <2>0. RKey(t) \in Keys /\ LockMap[RKey(t)] # WriteLock
    BY <1>0, <1>5, AtBlock DEF ReadOp, Reading, RLockFree
  <2>1. CASE BufferMap[RKey(t)] # None
    <3>1. pc[t] # "rpc" /\ pc'[t] # "rpc" /\ LockMap' = LockMap
      BY <1>0, <1>a, <1>5, <2>1 DEF ReadOp, Goto
    <3> QED BY <1>0, <3>1, RQuiet
  <2>2. CASE BufferMap[RKey(t)] = None
    <3>1. pc[t] # "rpc" /\ pc'[t] = "rpc" /\ loc' = loc /\ LockMap' = [LockMap EXCEPT ![RKey(t)] = @ + 1]
      BY <1>0, <1>a, <1>5, <2>2 DEF ReadOp, Goto
    <3>2. \A k : t \notin Readers(k) /\ (t \in Readers(k)' <=> k = RKey(t))
      BY <3>1 DEF Readers, RKey
    <3>3. \A k \in Keys : Readers(k)' = IF k = RKey(t) THEN Readers(k) \cup {t} ELSE Readers(k)
      BY <1>0, <3>2, ReadersOthers
    <3>4. \A k \in Keys \ {RKey(t)} : LockMap'[k] = LockMap[k]
      BY <1>0, <3>1 DEF ReadType
    <3>5. LockMap'[RKey(t)] = LockMap[RKey(t)] + 1
      BY <1>0, <2>0, <3>1 DEF ReadType
    <3> QED BY <2>0, <3>2, <3>3, <3>4, <3>5, RCount
  <2> QED BY <2>1, <2>2
<1>6. CASE DirectRead(t) \/ DirectReadFail(t)
  <2>0. RKey(t) \in Keys
    BY <1>0, <1>6, AtBlock DEF DirectRead, DirectReadFail, Reading
  <2>1. pc[t] = "rpc" /\ pc'[t] # "rpc" /\ LockMap' = [LockMap EXCEPT ![RKey(t)] = @ - 1]
    BY <1>0, <1>a, <1>6 DEF DirectRead, DirectReadFail, RUnLockRead, Return, Goto
  <2>2. \A k : t \notin Readers(k)' /\ (t \in Readers(k) <=> k = RKey(t))
    BY <2>1 DEF Readers
  <2>3. \A k \in Keys : Readers(k)' = IF k = RKey(t) THEN Readers(k) \ {t} ELSE Readers(k)
    BY <1>0, <2>2, ReadersOthers
  <2>4. \A k \in Keys \ {RKey(t)} : LockMap'[k] = LockMap[k]
    BY <1>0, <2>1 DEF ReadType
  <2>5. LockMap'[RKey(t)] = LockMap[RKey(t)] - 1
    BY <1>0, <2>0, <2>1 DEF ReadType
  <2> QED BY <2>0, <2>2, <2>3, <2>4, <2>5, RCount
<1> QED BY <1>1, <1>2, <1>3, <1>4, <1>5, <1>6, ThreadSteps

LEMMA WQuiet ==
    ASSUME Inv, NEW t \in Threads, Alone(t), pc[t] \notin Locking, pc'[t] \notin Locking
    PROVE  \A x \in Blocks : WReaders(x)' = WReaders(x)
<1>1. \A x : t \notin WReaders(x) /\ t \notin WReaders(x)'
  BY DEF WReaders
<1> QED BY <1>1, ReadersOthers

LEMMA WLeaves ==
    ASSUME Inv, NEW t \in Threads, Alone(t), pc[t] \in Locking, pc'[t] \notin Locking, RUnLockWrite(t)
    PROVE  \A x \in Blocks : Counts(wlock'[x], WReaders(x)')
<1>0. /\ loc[t].cur \in Blocks /\ wlock \in [Blocks -> Nat \cup {WriteLock}]
      /\ \A x \in Blocks : Counts(wlock[x], WReaders(x))
  BY AtBlock DEF Inv, ReaderInv, TypeOK, WriteType, Locking, Reading
<1>1. CASE loc[t].wfb
  <2>1. \A x : t \notin WReaders(x)' /\ (t \in WReaders(x) <=> x = loc[t].cur)
    BY <1>1 DEF WReaders
  <2>2. \A x \in Blocks : WReaders(x)' = IF x = loc[t].cur THEN WReaders(x) \ {t} ELSE WReaders(x)
    BY <2>1, ReadersOthers
  <2>3. wlock' = [wlock EXCEPT ![loc[t].cur] = @ - 1]
    BY <1>1 DEF RUnLockWrite
  <2>4. \A x \in Blocks \ {loc[t].cur} : wlock'[x] = wlock[x]
    BY <1>0, <2>3
  <2>5. wlock'[loc[t].cur] = wlock[loc[t].cur] - 1
    BY <1>0, <2>3
  <2> QED BY <1>0, <2>1, <2>2, <2>4, <2>5, WCount
<1>2. CASE ~loc[t].wfb
  <2>1. \A x : t \notin WReaders(x)' /\ t \notin WReaders(x)
    BY <1>2 DEF WReaders
  <2>2. \A x \in Blocks : WReaders(x)' = WReaders(x)
    BY <2>1, ReadersOthers
  <2> QED BY <1>0, <1>2, <2>2 DEF RUnLockWrite
<1> QED BY <1>1, <1>2

LEMMA WThread ==
    ASSUME Inv, NEW t \in Threads, ThreadStep(t)
    PROVE  \A x \in Blocks : Counts(wlock'[x], WReaders(x)')
<1>0. /\ t \in Procs /\ TypeOK /\ WriteType /\ CallInv /\ Alone(t)
      /\ \A x \in Blocks : Counts(wlock[x], WReaders(x))
  BY Consts, ThreadAlone DEF Inv, TypeOK, ReaderInv
<1>a. pc \in [Procs -> Labels] /\ loc \in [Procs -> LocType] /\ loc[t] \in LocType
  BY <1>0 DEF TypeOK, ProcType
<1> HIDE DEF Labels
<1>1. CASE ReadLockW(t)
  <2>0. loc[t].cur \in Blocks
    BY <1>0, <1>1, AtBlock DEF ReadLockW, Reading
  <2>1. pc[t] = "rlockw" /\ pc'[t] = "rlockr" /\ loc' = loc
    BY <1>0, <1>a, <1>1 DEF ReadLockW, Goto
  <2>2. CASE loc[t].wfb
    <3>1. \A x : t \notin WReaders(x) /\ (t \in WReaders(x)' <=> x = loc[t].cur)
      BY <2>1, <2>2 DEF WReaders, Locking
    <3>2. \A x \in Blocks : WReaders(x)' = IF x = loc[t].cur THEN WReaders(x) \cup {t} ELSE WReaders(x)
      BY <1>0, <3>1, ReadersOthers
    <3>3. wlock' = [wlock EXCEPT ![loc[t].cur] = @ + 1] /\ wlock[loc[t].cur] # WriteLock
      BY <1>1, <2>2 DEF ReadLockW, RLockFree
    <3>4. \A x \in Blocks \ {loc[t].cur} : wlock'[x] = wlock[x]
      BY <1>0, <3>3 DEF WriteType
    <3>5. wlock'[loc[t].cur] = wlock[loc[t].cur] + 1
      BY <1>0, <2>0, <3>3 DEF WriteType
    <3> QED BY <2>0, <3>1, <3>2, <3>3, <3>4, <3>5, WCount
  <2>3. CASE ~loc[t].wfb
    <3>1. \A x : t \notin WReaders(x) /\ t \notin WReaders(x)'
      BY <2>1, <2>3 DEF WReaders
    <3>2. wlock' = wlock
      BY <1>1, <2>3 DEF ReadLockW
    <3> QED BY <1>0, <3>1, <3>2, ReadersOthers
  <2> QED BY <2>2, <2>3
<1>2. CASE ReadOp(t) \/ DirectRead(t)
  <2>1. pc[t] \in Locking /\ pc'[t] \in Locking
    BY <1>0, <1>a, <1>2 DEF ReadOp, DirectRead, Goto, Locking
  <2>2. loc'[t].cur = loc[t].cur /\ loc'[t].wfb = loc[t].wfb
    BY <1>0, <1>a, <1>2 DEF ReadOp, DirectRead, LocType
  <2>3. \A x : t \in WReaders(x)' <=> t \in WReaders(x)
    BY <2>1, <2>2 DEF WReaders
  <2>4. \A x \in Blocks : WReaders(x)' = WReaders(x)
    BY <1>0, <2>3, ReadersOthers
  <2>5. wlock' = wlock
    BY <1>2 DEF ReadOp, DirectRead, wVars
  <2> QED BY <1>0, <2>4, <2>5
<1>3. CASE DirectReadFail(t) \/ ReadMerge(t)
  <2>1. pc[t] \in Locking /\ pc'[t] \notin Locking /\ RUnLockWrite(t)
    BY <1>0, <1>a, <1>3 DEF DirectReadFail, ReadMerge, Return, Goto, Locking
  <2> QED BY <1>0, <2>1, WLeaves
<1>4. CASE WriteOne(t)
  <2>1. pc[t] \notin Locking /\ pc'[t] \notin Locking
    BY <1>0, <1>a, <1>4, WriteOneFacts DEF WriteGoes, Moves, Locking
  <2>2. \A x \in Blocks : WReaders(x)' = WReaders(x)
    BY <1>0, <2>1, WQuiet
  <2>3. loc[t].cur \in Blocks /\ wlock[loc[t].cur] = Free /\ wlock'[loc[t].cur] \in {Free, WriteLock}
        /\ \A y \in Blocks \ {loc[t].cur} : wlock'[y] = wlock[y]
    BY <1>4, WriteOneFacts DEF WriteAt
  <2>4. WReaders(loc[t].cur) = {}
    BY <1>0, <2>3, CountFree DEF WReaders
  <2> QED BY <1>0, <2>2, <2>3, <2>4 DEF Counts
<1>b. ASSUME pc[t] \notin Locking, pc'[t] \notin Locking, wlock' = wlock
      PROVE  \A x \in Blocks : Counts(wlock'[x], WReaders(x)')
  BY <1>0, <1>b, WQuiet
<1>5. CASE Open(t) \/ Close(t) \/ CloseLast(t) \/ CloseStep(t)
  BY <1>0, <1>a, <1>b, <1>5 DEF Open, Close, CloseLast, CloseStep, CloseFile, Wait, Release, DetachFileBuffer,
     WCacheClosed, WCacheCloseFailed, Goto, Locking, wVars
<1>6. CASE \/ \E lo \in Blocks, n \in 1 .. MaxReadLen : Read(t, lo, n)
           \/ \E lo \in Blocks, n \in 1 .. MaxWriteLen : Write(t, lo, n)
  BY <1>0, <1>a, <1>b, <1>6 DEF Read, Write, Goto, Locking, wVars
<1>7. CASE PrefetchLock(t) \/ PrefetchSend(t) \/ ReadLookup(t) \/ CleanLookup(t) \/ Clean(t)
  BY <1>0, <1>a, <1>b, <1>7 DEF PrefetchLock, PrefetchSend, ReadLookup, CleanLookup, Clean, WriteReturn, Return,
     Goto, Locking, wVars
<1> QED BY <1>1, <1>2, <1>3, <1>4, <1>5, <1>6, <1>7 DEF ThreadStep, ReadStep, WriteStep, WriteOne

LEMMA ReaderGoroutine ==
    ASSUME Inv
    PROVE  /\ \A p \in Prefetchers : PrefetchStep(p) => ReaderInv'
           /\ \A e \in Expirers : ExpireStep(e) => ReaderInv'
           /\ \A x \in Blocks : FlushBuffer(x) \/ SyncWrite(x) => ReaderInv'
<1>0. ReadType /\ WriteType /\ ReaderInv
  BY DEF Inv, TypeOK
<1>a. ASSUME \A u \in Threads : pc'[u] = pc[u] /\ loc'[u] = loc[u]
      PROVE  (\A k : Readers(k)' = Readers(k)) /\ (\A x : WReaders(x)' = WReaders(x))
  BY <1>a DEF Readers, WReaders, RKey
<1>b. Counts(WriteLock, {}) /\ Counts(Free, {})
  BY FS_EmptySet DEF Counts, Free, WriteLock
<1>1. ASSUME NEW p \in Prefetchers, PrefetchStep(p) PROVE ReaderInv'
  <2>1. \A u \in Threads : pc'[u] = pc[u] /\ loc'[u] = loc[u]
    BY <1>1, CallGoroutine
  <2>2. wlock' = wlock
    BY <1>1, GoroutineAlone DEF wVars
  <2>3. CASE PrefetchTake(p) \/ PrefetchFetch(p)
    <3>1. LockMap' = LockMap
      BY <2>3 DEF PrefetchTake, PrefetchFetch, rVars
    <3> QED BY <1>a, <2>1, <2>2, <3>1, ReaderKeep
  <2>4. CASE PrefetchNothing(p) \/ PrefetchAttach(p)
    <3>1. LockMap[RKey(p)] = WriteLock /\ RKey(p) \in Keys
      BY <2>4, PrefetcherFacts DEF PrefetchNothing, PrefetchAttach
    <3>2. LockMap'[RKey(p)] = Free /\ \A k \in Keys \ {RKey(p)} : LockMap'[k] = LockMap[k]
      BY <2>4, UnLockFacts DEF OnlyAt
    <3>3. Readers(RKey(p)) = {}
      BY <1>0, <3>1 DEF ReaderInv, Counts
    <3>4. \A k \in Keys : Counts(LockMap'[k], Readers(k)')
      <4>1. \A k \in Keys : Counts(LockMap[k], Readers(k)) /\ Readers(k)' = Readers(k)
        BY <1>0, <1>a, <2>1 DEF ReaderInv
      <4> QED BY <1>b, <3>1, <3>2, <3>3, <4>1
    <3>5. \A x \in Blocks : Counts(wlock'[x], WReaders(x)')
      BY <1>0, <1>a, <2>1, <2>2 DEF ReaderInv
    <3> QED BY <3>4, <3>5 DEF ReaderInv
  <2> QED BY <1>1, <2>3, <2>4 DEF PrefetchStep
<1>2. ASSUME NEW e \in Expirers, ExpireStep(e) PROVE ReaderInv'
  <2>1. UNCHANGED <<LockMap, wlock>>
    BY <1>2, GoroutineAlone DEF wVars
  <2>2. \A u \in Threads : pc'[u] = pc[u] /\ loc'[u] = loc[u]
    BY <1>2, CallGoroutine
  <2> QED BY <1>a, <2>1, <2>2, ReaderKeep
<1>3. ASSUME NEW x \in Blocks, FlushBuffer(x) \/ SyncWrite(x) PROVE ReaderInv'
  <2>1. /\ LockMap' = LockMap /\ \A u \in Threads : pc'[u] = pc[u] /\ loc'[u] = loc[u]
        /\ wlock[x] \in {Free, WriteLock} /\ wlock'[x] = Free
        /\ \A y \in Blocks \ {x} : wlock'[y] = wlock[y]
    BY <1>3, FlushFacts DEF rVars
  <2>2. WReaders(x) = {}
    <3>1. Counts(wlock[x], WReaders(x)) /\ WReaders(x) \in SUBSET Threads
      BY <1>0 DEF ReaderInv, WReaders
    <3>2. CASE wlock[x] = Free
      BY <3>1, <3>2, CountFree
    <3>3. CASE wlock[x] = WriteLock
      BY <3>1, <3>3 DEF Counts
    <3> QED BY <2>1, <3>2, <3>3
  <2>3. \A y \in Blocks : Counts(wlock[y], WReaders(y)) /\ WReaders(y)' = WReaders(y)
    BY <1>0, <1>a, <2>1 DEF ReaderInv
  <2>4. \A y \in Blocks : Counts(wlock'[y], WReaders(y)')
    BY <1>b, <2>1, <2>2, <2>3
  <2> QED BY <1>0, <1>a, <2>1, <2>4 DEF ReaderInv
<1> QED BY <1>1, <1>2, <1>3

-----------------------------------------------------------------------------
(* The buffers of the read cache *)

\* What CheckExpire knows of the block it took.
ExpirerOK ==
    \A e \in Expirers :
        /\ pc[e] \in {"elookup", "erelease"} => loc[e].cur \in Blocks
        /\ pc[e] = "erelease" => loc[e].fb # 0

\* A step that leaves the buffers and CheckExpire alone, and one that releases a
\* buffer.
SameExpirers == \A e \in Expirers : pc'[e] = pc[e] /\ loc'[e] = loc[e]

LEMMA BufferKeep ==
    ASSUME Inv, UNCHANGED mapVars, SameExpirers
    PROVE  BufferInv'
<1>1. \A e \in Expirers, k \in Keys : Expiring(e, k)' <=> Expiring(e, k)
  BY DEF SameExpirers, Expiring
<1>2. UNCHANGED <<BufferMap, free, LruList, Attached>>
  BY DEF mapVars, Attached
<1>3. BufferInv /\ \A k \in Attached : k \in Keys
  BY DEF Inv, Attached
<1> HIDE DEF Expiring
<1> QED BY <1>1, <1>2, <1>3 DEF BufferInv, SameExpirers

LEMMA BufferRelease ==
    ASSUME Inv, NEW k \in Keys, ReleaseBuffer(k), ExpirerOK',
           \A j \in Keys \ {k}, e \in Expirers : Expiring(e, j) => Expiring(e, j)'
    PROVE  BufferInv'
<1>0. TypeOK /\ BufferInv /\ \A j \in Attached : j \in Keys
  BY DEF Inv, Attached
<1>1. /\ Attached' = Attached \ {k} /\ LruList' = LruList \ {k}
      /\ free' + Cardinality(Attached') = BufferMax
  BY <1>0, ReleaseFacts
<1>2. ASSUME NEW j \in Attached' PROVE j \in LruList' \/ \E e \in Expirers : Expiring(e, j)'
  <2>1. j \in Attached /\ j \in Keys \ {k}
    BY <1>0, <1>1
  <2>2. j \in LruList \/ \E e \in Expirers : Expiring(e, j)
    BY <1>0, <2>1 DEF BufferInv
  <2> HIDE DEF Expiring
  <2> QED BY <1>1, <2>1, <2>2
<1>3. LruList' \subseteq Attached'
  BY <1>0, <1>1 DEF BufferInv
<1> HIDE DEF Expiring, Attached
<1> QED BY <1>1, <1>2, <1>3 DEF BufferInv, ExpirerOK

LEMMA BufferThread ==
    ASSUME Inv, NEW t \in Threads, ThreadStep(t)
    PROVE  BufferInv'
<1>0. TypeOK /\ CallInv /\ BufferInv
  BY DEF Inv
<1>1. SameExpirers
  BY ThreadAlone, Consts DEF Alone, SameExpirers
<1>2. ExpirerOK' /\ \A j \in Keys, e \in Expirers : Expiring(e, j) => Expiring(e, j)'
  BY <1>0, <1>1 DEF SameExpirers, ExpirerOK, BufferInv, Expiring
<1>3. CASE Clean(t)
  <2>1. RKey(t) \in Keys /\ ReleaseBuffer(RKey(t))
    BY <1>0, <1>3, AtBlock DEF Clean, Changing
  <2> QED BY <1>2, <2>1, BufferRelease
<1>4. CASE Release(t)
  <2>1. PICK x \in loc[t].todo : ReleaseBuffer(<<loc[t].fb, x>>)
    BY <1>4 DEF Release
  <2>2. <<loc[t].fb, x>> \in Keys
    BY <1>0, <1>4, LocFacts, Consts DEF Release, CallInv, CallOK, Keys
  <2> QED BY <1>2, <2>1, <2>2, BufferRelease
<1>5. CASE Quiet(t)
  BY <1>1, <1>5, QuietFacts, BufferKeep
<1>6. CASE \/ PrefetchLock(t) \/ ReadOp(t) \/ DirectRead(t) \/ DirectReadFail(t) \/ DetachFileBuffer(t)
           \/ \E lo \in Blocks, n \in 1 .. MaxReadLen : Read(t, lo, n)
  <2>1. UNCHANGED mapVars
    BY <1>6 DEF PrefetchLock, ReadOp, DirectRead, DirectReadFail, DetachFileBuffer, Read
  <2> QED BY <1>1, <2>1, BufferKeep
<1> QED BY <1>3, <1>4, <1>5, <1>6, ThreadSteps

\* What PrefetchAttach does when it finds a free buffer.
LEMMA AttachFacts ==
    ASSUME Inv, NEW p \in Prefetchers, PrefetchAttach(p), free # 0
    PROVE  /\ RKey(p) \in Keys /\ RKey(p) \notin Attached /\ Attached' = Attached \cup {RKey(p)}
           /\ free' = free - 1 /\ LruList' = LruList \cup {RKey(p)}
           /\ seen'[RKey(p)] = loc[p].seen /\ \A k \in Keys \ {RKey(p)} : seen'[k] = seen[k]
<1>0. ReadType /\ TypeOK /\ p \in Procs
  BY Consts DEF Inv, TypeOK
<1>1. RKey(p) \in Keys /\ BufferMap[RKey(p)] = None /\ loc[p].val \in Nat
  BY <1>0, PrefetcherFacts, LocFacts DEF PrefetchAttach
<1>2. /\ free' = free - 1 /\ LruList' = LruList \cup {RKey(p)}
      /\ BufferMap' = [BufferMap EXCEPT ![RKey(p)] = loc[p].val]
      /\ seen' = [seen EXCEPT ![RKey(p)] = loc[p].seen]
  BY DEF PrefetchAttach, TakeBuffer
<1>3. RKey(p) \notin Attached /\ Attached' = Attached \cup {RKey(p)}
  BY <1>0, <1>1, <1>2 DEF Attached, ReadType, None
<1> QED BY <1>0, <1>1, <1>2, <1>3 DEF ReadType

LEMMA BufferGoroutine ==
    ASSUME Inv
    PROVE  /\ \A p \in Prefetchers : PrefetchStep(p) => BufferInv'
           /\ \A e \in Expirers : ExpireStep(e) => BufferInv'
           /\ \A x \in Blocks : FlushBuffer(x) \/ SyncWrite(x) => BufferInv'
<1>0. TypeOK /\ ReadType /\ ProcType /\ BufferInv /\ \A k \in Attached : k \in Keys /\ k[1] = Cache
  BY DEF Inv, TypeOK, Attached, FileInv
<1>a. pc \in [Procs -> Labels] /\ loc \in [Procs -> LocType]
  BY <1>0 DEF ProcType
<1>1. ASSUME NEW p \in Prefetchers, PrefetchStep(p) PROVE BufferInv'
  <2>1. SameExpirers
    BY <1>1, GoroutineAlone, Consts DEF Alone, SameExpirers
  <2>2. CASE UNCHANGED mapVars
    BY <2>1, <2>2, BufferKeep
  <2>3. CASE PrefetchAttach(p) /\ free # 0
    <3> DEFINE k == RKey(p)
    <3>1. /\ k \in Keys /\ k \notin Attached /\ Attached' = Attached \cup {k}
          /\ free' = free - 1 /\ LruList' = LruList \cup {k}
      BY <2>3, AttachFacts
    <3>2. IsFiniteSet(Attached) /\ Cardinality(Attached) \in Nat
      BY Consts, FS_Subset, FS_CardinalityType DEF Attached
    <3>3. Cardinality(Attached') = Cardinality(Attached) + 1
      BY <3>1, <3>2, FS_AddElement
    <3>4. free' + Cardinality(Attached') = BufferMax
      BY <1>0, <3>1, <3>2, <3>3, Consts DEF BufferInv, ReadType
    <3>5. \A e \in Expirers, j \in Keys : Expiring(e, j) => Expiring(e, j)'
      BY <2>1 DEF SameExpirers, Expiring
    <3> HIDE DEF k, Attached, Expiring
    <3>6. \A j \in Attached' : j \in LruList' \/ \E e \in Expirers : Expiring(e, j)'
      BY <1>0, <3>1, <3>5 DEF BufferInv
    <3>7. LruList' \subseteq Attached'
      BY <1>0, <3>1 DEF BufferInv
    <3> QED BY <1>0, <2>1, <3>4, <3>6, <3>7 DEF BufferInv, SameExpirers
  <2>4. UNCHANGED mapVars \/ (PrefetchAttach(p) /\ free # 0)
    BY <1>1 DEF PrefetchStep, PrefetchTake, PrefetchFetch, PrefetchNothing, PrefetchAttach, rVars
  <2> QED BY <2>2, <2>3, <2>4
<1>2. ASSUME NEW e \in Expirers, LruExpire(e) PROVE BufferInv'
  <2>1. PICK k \in LruList : LruList' = LruList \ {k} /\ loc' = [loc EXCEPT ![e].cur = k[2]]
    BY <1>2 DEF LruExpire
  <2>2. k \in Keys /\ k[2] \in Blocks /\ e \in Procs
    BY <1>0, Consts DEF ReadType, Keys
  <2>3. /\ pc[e] = "idle" /\ pc'[e] = "elookup" /\ loc'[e].cur = k[2]
        /\ UNCHANGED <<BufferMap, free>> /\ Attached' = Attached
    BY <1>2, <1>a, <2>1, <2>2 DEF LruExpire, Goto, LocType, Attached
  <2>4. \A f \in Expirers \ {e} : pc'[f] = pc[f] /\ loc'[f] = loc[f]
    BY <1>2, GoroutineAlone, Consts DEF Alone, ExpireStep
  <2>5. Expiring(e, k)' /\ \A f \in Expirers, j \in Keys : Expiring(f, j) => Expiring(f, j)'
    BY <2>3, <2>4 DEF Expiring
  <2>6. ExpirerOK'
    BY <1>0, <2>2, <2>3, <2>4 DEF ExpirerOK, BufferInv
  <2>7. \A j \in Attached' : j \in LruList' \/ \E f \in Expirers : Expiring(f, j)'
    <3> HIDE DEF Expiring, Attached
    <3> QED BY <1>0, <2>1, <2>3, <2>5 DEF BufferInv
  <2> QED BY <1>0, <2>1, <2>3, <2>6, <2>7 DEF BufferInv, ExpirerOK
<1>3. ASSUME NEW e \in Expirers, ExpireLookup(e) PROVE BufferInv'
  <2>1. /\ pc[e] = "elookup" /\ UNCHANGED <<BufferMap, free, LruList>> /\ Attached' = Attached
    BY <1>3 DEF ExpireLookup, rVars, mapVars, Attached
  <2>2. \A f \in Expirers \ {e} : pc'[f] = pc[f] /\ loc'[f] = loc[f]
    BY <1>3, GoroutineAlone, Consts DEF Alone, ExpireStep
  <2>3. /\ Cache = 0 => pc'[e] = "idle"
        /\ Cache # 0 => pc'[e] = "erelease" /\ loc'[e].fb = Cache /\ loc'[e].cur = loc[e].cur
    BY <1>3, <1>a, Consts DEF ExpireLookup, Goto, LocType
  <2>4. ExpirerOK'
    BY <1>0, <2>1, <2>2, <2>3 DEF ExpirerOK, BufferInv
  <2>5. ASSUME NEW j \in Attached, NEW f \in Expirers, Expiring(f, j) PROVE Expiring(f, j)'
    <3>1. j[1] = Cache /\ Cache # 0
      BY <1>0 DEF Keys, FileBufs
    <3> QED BY <2>1, <2>2, <2>3, <2>5, <3>1 DEF Expiring
  <2>6. \A j \in Attached' : j \in LruList' \/ \E f \in Expirers : Expiring(f, j)'
    <3> HIDE DEF Expiring, Attached
    <3> QED BY <1>0, <2>1, <2>5 DEF BufferInv
  <2> QED BY <1>0, <2>1, <2>4, <2>6 DEF BufferInv, ExpirerOK
<1>4. ASSUME NEW e \in Expirers, ExpireRelease(e) PROVE BufferInv'
  <2>1. RKey(e) \in Keys /\ ReleaseBuffer(RKey(e)) /\ pc[e] = "erelease" /\ pc'[e] = "idle"
    BY <1>4, <1>a, ExpirerFacts, Consts DEF ExpireRelease, Goto
  <2>2. \A f \in Expirers \ {e} : pc'[f] = pc[f] /\ loc'[f] = loc[f]
    BY <1>4, GoroutineAlone, Consts DEF Alone, ExpireStep
  <2>3. ExpirerOK'
    BY <1>0, <2>1, <2>2 DEF ExpirerOK, BufferInv
  <2>4. ASSUME NEW j \in Keys \ {RKey(e)}, NEW f \in Expirers, Expiring(f, j) PROVE Expiring(f, j)'
    <3>1. f # e
      BY <2>1, <2>4 DEF Expiring, RKey, Keys
    <3> QED BY <2>2, <2>4, <3>1 DEF Expiring
  <2> QED BY <2>1, <2>3, <2>4, BufferRelease
<1>5. ASSUME NEW x \in Blocks, FlushBuffer(x) \/ SyncWrite(x) PROVE BufferInv'
  BY <1>5, FlushFacts, BufferKeep DEF rVars, SameExpirers
<1> QED BY <1>1, <1>2, <1>3, <1>4, <1>5 DEF ExpireStep

-----------------------------------------------------------------------------
(* Clean after a Write *)

\* Nobody who will clean a block gives up, and nothing new comes.
LEMMA CleanKeep ==
    ASSUME Inv,
           \A u \in Threads, x \in Blocks : WillClean(u, x) => WillClean(u, x)',
           \A x \in Blocks : latest'[x] = latest[x] \/ \E u \in Threads : WillClean(u, x)',
           \A k \in Attached' : k \in Attached /\ seen'[k] = seen[k],
           \A p \in Prefetchers : pc'[p] = "attach" => pc[p] = "attach" /\ loc'[p] = loc[p]
    PROVE  CleanInv'
<1>0. CleanInv /\ \A k \in Attached : k[2] \in Blocks
  BY DEF Inv, Attached, Keys
<1> HIDE DEF WillClean, Attached
<1>1. ASSUME NEW x \in Blocks, NEW n, UpToDate(x, n) PROVE n = latest'[x] \/ \E u \in Threads : WillClean(u, x)'
  BY <1>1 DEF UpToDate
<1>2. ASSUME NEW k \in Attached' PROVE seen'[k] = latest'[k[2]] \/ \E u \in Threads : WillClean(u, k[2])'
  BY <1>0, <1>1 DEF CleanInv
<1>3. ASSUME NEW p \in Prefetchers, pc'[p] = "attach"
      PROVE  loc'[p].seen = latest'[loc'[p].cur] \/ \E u \in Threads : WillClean(u, loc[p].cur)'
  <2>1. pc[p] = "attach" /\ loc'[p] = loc[p]
    BY <1>3
  <2>2. loc[p].cur \in Blocks
    BY <2>1, PrefetcherFacts
  <2> QED BY <1>0, <1>1, <2>1, <2>2 DEF CleanInv
<1>4. \A k \in Attached' : UpToDate(k[2], seen[k])'
  BY <1>2 DEF UpToDate
<1>5. \A p \in Prefetchers : pc'[p] = "attach" => UpToDate(loc[p].cur, loc[p].seen)'
  BY <1>3 DEF UpToDate
<1> QED BY <1>4, <1>5 DEF CleanInv

LEMMA CleanThread ==
    ASSUME Inv, NEW t \in Threads, ThreadStep(t)
    PROVE  CleanInv'
<1>0. t \in Procs /\ TypeOK /\ ReadType /\ CallInv /\ BufferInv /\ \A k \in Attached : k \in Keys /\ k[1] = Cache
  BY Consts DEF Inv, TypeOK, Attached, FileInv
<1>a. pc \in [Procs -> Labels] /\ loc \in [Procs -> LocType] /\ loc[t] \in LocType
  BY <1>0 DEF TypeOK, ProcType
<1>b. loc[t].lo \in Nat /\ loc[t].hi \in Nat /\ loc[t].cur \in Nat
  BY <1>0, LocFacts
<1>c. ASSUME NEW u \in Threads \ {t}, NEW x \in Blocks, WillClean(u, x) PROVE WillClean(u, x)'
  BY <1>c, ThreadAlone, Consts DEF Alone, WillClean
<1>d. \A p \in Prefetchers : pc'[p] = "attach" => pc[p] = "attach" /\ loc'[p] = loc[p]
  BY ThreadAlone, Consts DEF Alone
<1>1. CASE WriteOne(t)
  <2>1. PICK c \in {"write", "clookup"}, n \in Blocks : Moves(t, c, [loc[t] EXCEPT !.cur = n])
    BY <1>1, WriteOneFacts DEF WriteGoes
  <2>2. pc[t] = "write" /\ pc'[t] = c /\ loc'[t].lo = loc[t].lo /\ loc'[t].hi = loc[t].hi
    BY <1>0, <1>1, <1>a, <2>1, WriteOneFacts DEF Moves, LocType
  <2>3. \A x \in Blocks : WillClean(t, x) => WillClean(t, x)'
    BY <2>2 DEF WillClean
  <2>a. PICK x0 \in Blocks : x0 = loc[t].cur
    BY <1>0, <2>2, AtBlock DEF Changing
  <2>4. WillClean(t, x0)'
    BY <1>0, <1>b, <2>2, <2>a, AtBlock DEF WillClean, Changing
  <2>5. \A x \in Blocks \ {x0} : latest'[x] = latest[x]
    BY <1>1, <2>a, WriteOneFacts DEF WriteAt
  <2>6. UNCHANGED mapVars
    BY <1>1, WriteOneFacts DEF rVars
  <2>7. \A k \in Attached' : k \in Attached /\ seen'[k] = seen[k]
    BY <2>6 DEF mapVars, Attached
  <2> HIDE DEF WillClean, Attached
  <2> QED BY <1>c, <1>d, <2>3, <2>4, <2>5, <2>7, CleanKeep
<1>2. CASE CleanLookup(t) /\ Cache = 0
  <2>1. Attached' = Attached
    BY <1>2 DEF CleanLookup, rVars, mapVars, Attached
  <2>2. Attached = {}
    BY <1>0, <1>2 DEF Keys, FileBufs
  <2>3. \A p \in Prefetchers : pc[p] # "attach"
    BY <1>2, PrefetcherFacts
  <2> HIDE DEF Attached
  <2> QED BY <1>d, <2>1, <2>2, <2>3 DEF CleanInv
<1>3. CASE CleanLookup(t) /\ Cache # 0
  <2>1. /\ pc[t] = "clookup" /\ pc'[t] = "clean" /\ loc'[t].cur = loc[t].cur /\ loc'[t].hi = loc[t].hi
        /\ UNCHANGED <<mapVars, latest>>
    BY <1>0, <1>3, <1>a DEF CleanLookup, rVars, Goto, LocType
  <2>2. loc[t].cur = loc[t].lo
    BY <1>0, <2>1 DEF CallInv, CallOK
  <2>3. \A x \in Blocks : WillClean(t, x) => WillClean(t, x)'
    BY <2>1, <2>2 DEF WillClean
  <2>4. \A k \in Attached' : k \in Attached /\ seen'[k] = seen[k]
    BY <2>1 DEF mapVars, Attached
  <2> HIDE DEF WillClean, Attached
  <2> QED BY <1>c, <1>d, <2>1, <2>3, <2>4, CleanKeep
<1>4. CASE Clean(t)
  <2> DEFINE x0 == loc[t].cur
  <2>1. RKey(t) \in Keys /\ RKey(t) = <<Cache, x0>> /\ x0 \in Blocks /\ x0 < loc[t].hi
    BY <1>0, <1>4, AtBlock DEF Clean, Changing, RKey
  <2>2. ReleaseBuffer(RKey(t)) /\ latest' = latest /\ pc[t] = "clean"
    BY <1>4 DEF Clean
  <2>3. /\ LockMap[RKey(t)] = Free /\ Attached' = Attached \ {RKey(t)}
        /\ \A k \in Keys \ {RKey(t)} : seen'[k] = seen[k]
    BY <1>0, <2>1, <2>2, ReleaseFacts
  <2>4. ASSUME NEW x \in Blocks, x # x0, WillClean(t, x) PROVE WillClean(t, x)'
    <3>1. x \in Nat /\ x \in x0 + 1 .. loc[t].hi - 1
      BY <1>b, <2>2, <2>4, Consts DEF WillClean
    <3>2. x0 + 1 < loc[t].hi
      BY <1>b, <3>1
    <3>3. pc'[t] = "clean" /\ loc'[t].cur = x0 + 1 /\ loc'[t].hi = loc[t].hi
      BY <1>0, <1>4, <1>a, <2>2, <3>2 DEF Clean, LocType
    <3> QED BY <3>1, <3>3 DEF WillClean
  <2>5. ASSUME NEW k \in Attached' PROVE k \in Attached /\ seen'[k] = seen[k] /\ k[2] # x0 /\ k[2] \in Blocks
    <3>1. k \in Attached /\ k \in Keys /\ k[1] = Cache /\ k # RKey(t)
      BY <1>0, <2>3
    <3> QED BY <2>1, <2>3, <3>1 DEF Keys
  <2>6. ASSUME NEW p \in Prefetchers, pc'[p] = "attach"
        PROVE  pc[p] = "attach" /\ loc'[p] = loc[p] /\ loc[p].cur \in Blocks /\ loc[p].cur # x0
    <3>1. pc[p] = "attach" /\ loc'[p] = loc[p]
      BY <1>d, <2>6
    <3>2. loc[p].cur \in Blocks /\ LockMap[<<Cache, loc[p].cur>>] = WriteLock
      BY <3>1, PrefetcherFacts DEF RKey
    <3> QED BY <2>1, <2>3, <3>1, <3>2 DEF Free, WriteLock
  <2>7. ASSUME NEW x \in Blocks, x # x0, NEW n, UpToDate(x, n)
        PROVE  n = latest'[x] \/ \E u \in Threads : WillClean(u, x)'
    <3> HIDE DEF WillClean
    <3> QED BY <1>c, <2>2, <2>4, <2>7 DEF UpToDate
  <2>8. CleanInv
    BY DEF Inv
  <2> HIDE DEF WillClean, Attached
  <2>9. ASSUME NEW k \in Attached' PROVE UpToDate(k[2], seen[k])'
    <3>1. UpToDate(k[2], seen[k]) /\ seen'[k] = seen[k] /\ k[2] # x0 /\ k[2] \in Blocks
      BY <2>5, <2>8 DEF CleanInv
    <3>2. seen'[k] = latest'[k[2]] \/ \E u \in Threads : WillClean(u, k[2])'
      BY <2>7, <3>1
    <3> QED BY <3>2 DEF UpToDate
  <2>10. ASSUME NEW p \in Prefetchers, pc'[p] = "attach" PROVE UpToDate(loc[p].cur, loc[p].seen)'
    <3>1. UpToDate(loc[p].cur, loc[p].seen) /\ loc'[p] = loc[p] /\ loc[p].cur # x0 /\ loc[p].cur \in Blocks
      BY <2>6, <2>8, <2>10 DEF CleanInv
    <3>2. loc[p].seen = latest'[loc[p].cur] \/ \E u \in Threads : WillClean(u, loc[p].cur)'
      BY <2>7, <3>1
    <3> QED BY <3>1, <3>2 DEF UpToDate
  <2> QED BY <2>9, <2>10 DEF CleanInv
<1>e. ASSUME pc[t] \notin Changing, latest' = latest, \A k \in Attached' : k \in Attached /\ seen'[k] = seen[k]
      PROVE  CleanInv'
  <2>1. \A x \in Blocks : ~WillClean(t, x)
    BY <1>e DEF WillClean, Changing
  <2> HIDE DEF WillClean, Attached
  <2> QED BY <1>c, <1>d, <1>e, <2>1, CleanKeep
<1>5. CASE Release(t)
  <2>1. PICK x \in loc[t].todo : ReleaseBuffer(<<loc[t].fb, x>>)
    BY <1>5 DEF Release
  <2>2. <<loc[t].fb, x>> \in Keys
    BY <1>0, <1>5, LocFacts DEF Release, CallInv, CallOK, Keys
  <2>3. \A k \in Attached' : k \in Attached /\ seen'[k] = seen[k]
    BY <1>0, <2>1, <2>2, ReleaseFacts
  <2>4. pc[t] \notin Changing /\ latest' = latest
    BY <1>5 DEF Release, Changing, wVars, dataVars
  <2> QED BY <1>e, <2>3, <2>4
<1>6. CASE UNCHANGED mapVars /\ pc[t] \notin Changing /\ latest' = latest
  BY <1>e, <1>6 DEF mapVars, Attached
<1>7. \/ WriteOne(t) \/ CleanLookup(t) \/ Clean(t) \/ Release(t)
      \/ (UNCHANGED mapVars /\ pc[t] \notin Changing /\ latest' = latest)
  BY DEF ThreadStep, Open, Close, CloseLast, Read, Write, ReadStep, PrefetchLock, PrefetchSend, ReadLookup,
     ReadLockW, ReadOp, DirectRead, DirectReadFail, ReadMerge, WriteStep, WriteOne, CloseStep, CloseFile,
     Wait, DetachFileBuffer, WCacheClosed, WCacheCloseFailed, rVars, wVars, dataVars, Changing
<1> QED BY <1>1, <1>2, <1>3, <1>4, <1>5, <1>6, <1>7

LEMMA CleanGoroutine ==
    ASSUME Inv
    PROVE  /\ \A p \in Prefetchers : PrefetchStep(p) => CleanInv'
           /\ \A e \in Expirers : ExpireStep(e) => CleanInv'
           /\ \A x \in Blocks : FlushBuffer(x) \/ SyncWrite(x) => CleanInv'
<1>0. TypeOK /\ ReadType /\ ProcType /\ BufferInv /\ CleanInv
  BY DEF Inv, TypeOK
<1>a. pc \in [Procs -> Labels] /\ loc \in [Procs -> LocType]
  BY <1>0 DEF ProcType
<1>b. ASSUME \A u \in Threads : pc'[u] = pc[u] /\ loc'[u] = loc[u]
      PROVE  \A u \in Threads : \A x : WillClean(u, x)' <=> WillClean(u, x)
  BY <1>b DEF WillClean
<1>1. ASSUME NEW p \in Prefetchers, PrefetchStep(p) PROVE CleanInv'
  <2>0. p \in Procs /\ loc[p] \in LocType
    BY <1>a, Consts
  <2>1. \A u \in Threads : \A x : WillClean(u, x)' <=> WillClean(u, x)
    BY <1>1, <1>b, CallGoroutine
  <2>2. latest' = latest /\ \A q \in Prefetchers \ {p} : pc'[q] = pc[q] /\ loc'[q] = loc[q]
    BY <1>1, GoroutineAlone, Consts DEF Alone, wVars, dataVars
  <2>3. \A x, n : UpToDate(x, n)' <=> UpToDate(x, n)
    <3> HIDE DEF WillClean
    <3> QED BY <2>1, <2>2 DEF UpToDate
  <2>4. CASE PrefetchFetch(p)
    <3>1. pc'[p] = "attach" /\ loc'[p].seen = latest[loc[p].cur] /\ loc'[p].cur = loc[p].cur /\ UNCHANGED mapVars
      BY <1>a, <2>0, <2>4 DEF PrefetchFetch, Goto, LocType, rVars
    <3>2. UpToDate(loc'[p].cur, loc'[p].seen)
      BY <3>1 DEF UpToDate
    <3>3. Attached' = Attached /\ seen' = seen
      BY <3>1 DEF mapVars, Attached
    <3> HIDE DEF UpToDate, Attached
    <3>4. \A k \in Attached' : UpToDate(k[2], seen'[k])
      BY <1>0, <3>3 DEF CleanInv
    <3>5. \A q \in Prefetchers : pc'[q] = "attach" => UpToDate(loc'[q].cur, loc'[q].seen)
      BY <1>0, <2>2, <3>2 DEF CleanInv
    <3> QED BY <2>3, <3>4, <3>5 DEF CleanInv
  <2>5. CASE PrefetchAttach(p) /\ free # 0
    <3>1. /\ RKey(p) \in Keys /\ Attached' = Attached \cup {RKey(p)} /\ seen'[RKey(p)] = loc[p].seen
          /\ RKey(p) \notin Attached /\ \A k \in Keys \ {RKey(p)} : seen'[k] = seen[k]
      BY <2>5, AttachFacts
    <3>2. pc[p] = "attach" /\ pc'[p] = "idle" /\ RKey(p)[2] = loc[p].cur
      BY <2>5, UnLockFacts DEF PrefetchAttach, RKey
    <3>3. \A k \in Attached : k \in Keys
      BY DEF Attached
    <3> HIDE DEF UpToDate, Attached
    <3>4. \A k \in Attached' : UpToDate(k[2], seen'[k])
      BY <1>0, <3>1, <3>2, <3>3 DEF CleanInv
    <3>5. \A q \in Prefetchers : pc'[q] = "attach" => UpToDate(loc'[q].cur, loc'[q].seen)
      BY <1>0, <2>2, <3>2 DEF CleanInv
    <3> QED BY <2>3, <3>4, <3>5 DEF CleanInv
  <2>6. CASE PrefetchTake(p) \/ PrefetchNothing(p) \/ (PrefetchAttach(p) /\ free = 0)
    <3>1. UNCHANGED mapVars /\ pc'[p] # "attach"
      BY <1>a, <2>0, <2>6 DEF PrefetchTake, PrefetchNothing, PrefetchAttach, PrefetchUnLock, Goto
    <3>2. Attached' = Attached /\ seen' = seen
      BY <3>1 DEF mapVars, Attached
    <3> HIDE DEF UpToDate, Attached
    <3> QED BY <1>0, <2>2, <2>3, <3>1, <3>2 DEF CleanInv
  <2> QED BY <1>1, <2>4, <2>5, <2>6 DEF PrefetchStep
<1>2. ASSUME NEW e \in Expirers, ExpireStep(e) PROVE CleanInv'
  <2>1. \A u \in Threads : \A x : WillClean(u, x)' <=> WillClean(u, x)
    BY <1>2, <1>b, CallGoroutine
  <2>2. latest' = latest /\ \A q \in Prefetchers : pc'[q] = pc[q] /\ loc'[q] = loc[q]
    BY <1>2, GoroutineAlone, Consts DEF Alone, wVars, dataVars
  <2>3. \A k \in Attached' : k \in Attached /\ seen'[k] = seen[k]
    <3>1. CASE ExpireRelease(e)
      BY <1>0, <3>1, ExpirerFacts, ReleaseFacts DEF ExpireRelease, Attached
    <3>2. CASE LruExpire(e) \/ ExpireLookup(e)
      BY <3>2 DEF LruExpire, ExpireLookup, rVars, mapVars, Attached
    <3> QED BY <1>2, <3>1, <3>2 DEF ExpireStep
  <2> HIDE DEF WillClean, Attached
  <2> QED BY <2>1, <2>2, <2>3, CleanKeep
<1>3. ASSUME NEW x \in Blocks, FlushBuffer(x) \/ SyncWrite(x) PROVE CleanInv'
  <2>1. UNCHANGED <<mapVars, latest, pc, loc>>
    BY <1>3, FlushFacts DEF rVars
  <2>2. \A u \in Threads : \A y : WillClean(u, y)' <=> WillClean(u, y)
    BY <1>b, <2>1
  <2>3. \A k \in Attached' : k \in Attached /\ seen'[k] = seen[k]
    BY <2>1 DEF mapVars, Attached
  <2> HIDE DEF WillClean, Attached
  <2> QED BY <2>1, <2>2, <2>3, CleanKeep
<1> QED BY <1>1, <1>2, <1>3

-----------------------------------------------------------------------------
(* What a Read returns *)

\* The server and the finished writes only get newer, and a buffer changes only
\* without readers.
Advances ==
    \A x \in Blocks :
        /\ disk[x] <= disk'[x] /\ ended[x] <= ended'[x]
        /\ wbuf'[x] # wbuf[x] => wlock[x] \in {Free, WriteLock}

LEMMA DataFacts ==
    ASSUME Inv, NEW x \in Blocks
    PROVE  /\ disk[x] \in Nat /\ wbuf[x] \in Nat /\ latest[x] \in Nat /\ ended[x] \in Nat /\ ver \in Nat
           /\ wlock[x] \in Nat \cup {WriteLock} /\ Newest(x) \in Nat /\ DataOK(x)
           /\ \A t \in Threads : snap[t][x] \in Nat
  BY DEF Inv, TypeOK, WriteType, CallType, Newest, DataInv

LEMMA DataSame ==
    ASSUME Inv, UNCHANGED <<wbuf, disk, ver, latest>>,
           \A x \in Blocks : /\ ended'[x] \in {ended[x], latest[x]}
                             /\ wlock'[x] = WriteLock => wlock[x] = WriteLock
                             /\ ~wCache' => wbuf[x] = 0
    PROVE  (\A x \in Blocks : DataOK(x)') /\ Advances
<1> SUFFICES ASSUME NEW x \in Blocks PROVE DataOK(x)' /\ disk[x] <= disk'[x] /\ ended[x] <= ended'[x]
  BY DEF Advances
<1>1. Newest(x)' = Newest(x)
  BY DEF Newest
<1> QED BY <1>1, DataFacts DEF DataOK

LEMMA DataWrite ==
    ASSUME Inv, NEW t \in Threads, WriteOne(t)
    PROVE  (\A x \in Blocks : DataOK(x)') /\ Advances
<1>0. loc[t].cur \in Blocks /\ WriteAt(loc[t].cur) /\ wCache /\ UNCHANGED <<wCache, ended>> /\ ver' = ver + 1
  BY WriteOneFacts DEF WriteAt, Inv, DataInv, ReadOK
<1> SUFFICES ASSUME NEW x \in Blocks
             PROVE  /\ DataOK(x)' /\ disk[x] <= disk'[x] /\ ended[x] <= ended'[x]
                    /\ wbuf'[x] # wbuf[x] => wlock[x] \in {Free, WriteLock}
  BY DEF Advances
<1>1. CASE x # loc[t].cur
  <2>1. /\ wbuf'[x] = wbuf[x] /\ disk'[x] = disk[x] /\ latest'[x] = latest[x] /\ wlock'[x] = wlock[x]
        /\ ended'[x] = ended[x]
    BY <1>0, <1>1 DEF WriteAt
  <2>2. Newest(x)' = Newest(x)
    BY <2>1 DEF Newest
  <2> QED BY <1>0, <2>1, <2>2, DataFacts DEF DataOK
<1>2. CASE x = loc[t].cur
  <2>1. /\ wlock[x] = Free /\ ended'[x] = ended[x] /\ (wlock'[x] # wlock[x] => wbuf'[x] # 0)
        /\ wbuf'[x] \in Nat /\ disk'[x] \in Nat /\ latest'[x] \in Nat
    BY <1>0, <1>2 DEF WriteAt
  <2>2. \/ /\ wbuf[x] # 0 /\ wbuf'[x] = wbuf[x] /\ disk'[x] \in {disk[x], wbuf[x]}
           /\ latest'[x] = latest[x]
        \/ wbuf'[x] = 0 /\ disk'[x] \in {Newest(x), ver + 1} /\ latest'[x] = latest[x]
        \/ wbuf'[x] = ver + 1 /\ disk'[x] \in {disk[x], Newest(x), ver + 1} /\ latest'[x] = ver + 1
        \/ wbuf'[x] = 0 /\ disk'[x] = ver + 1 /\ latest'[x] = ver + 1
    BY <1>0, <1>2 DEF WriteAt
  <2>3. Newest(x)' = IF wbuf'[x] # 0 THEN wbuf'[x] ELSE disk'[x]
    BY DEF Newest
  <2>4. Newest(x) = IF wbuf[x] # 0 THEN wbuf[x] ELSE disk[x]
    BY DEF Newest
  <2>5. /\ disk[x] \in Nat /\ wbuf[x] \in Nat /\ latest[x] \in Nat /\ ended[x] \in Nat /\ ver \in Nat
        /\ disk[x] <= Newest(x) /\ Newest(x) <= ver /\ latest[x] <= Newest(x) /\ ended[x] <= latest[x]
    BY DataFacts DEF DataOK
  <2>6. /\ disk'[x] <= Newest(x)' /\ Newest(x)' <= ver + 1 /\ latest'[x] <= Newest(x)' /\ ended[x] <= latest'[x]
        /\ disk[x] <= disk'[x]
    BY <2>1, <2>2, <2>3, <2>4, <2>5
  <2>7. wlock'[x] = WriteLock => wbuf'[x] # 0
    BY <2>1 DEF Free, WriteLock
  <2> QED BY <1>0, <2>1, <2>5, <2>6, <2>7 DEF DataOK
<1> QED BY <1>1, <1>2

LEMMA DataFlush ==
    ASSUME Inv, NEW y \in Blocks, FlushBuffer(y) \/ SyncWrite(y)
    PROVE  (\A x \in Blocks : DataOK(x)') /\ Advances
<1>0. UNCHANGED <<wCache, ver, latest, ended>>
  BY FlushFacts
<1> SUFFICES ASSUME NEW x \in Blocks
             PROVE  /\ DataOK(x)' /\ disk[x] <= disk'[x] /\ ended[x] <= ended'[x]
                    /\ wbuf'[x] # wbuf[x] => wlock[x] \in {Free, WriteLock}
  BY DEF Advances
<1>1. CASE x # y
  <2>1. wbuf'[x] = wbuf[x] /\ disk'[x] = disk[x] /\ wlock'[x] = wlock[x]
    BY <1>1, FlushFacts
  <2>2. Newest(x)' = Newest(x)
    BY <2>1 DEF Newest
  <2> QED BY <1>0, <2>1, <2>2, DataFacts DEF DataOK
<1>2. CASE x = y
  <2>1. /\ wlock[x] \in {Free, WriteLock} /\ wlock'[x] = Free /\ wbuf[x] # 0
        /\ \/ disk'[x] = wbuf[x] /\ wbuf'[x] \in {wbuf[x], 0}
           \/ disk'[x] = disk[x] /\ wbuf'[x] = wbuf[x]
    BY <1>2, FlushFacts
  <2>2. Newest(x)' = Newest(x) /\ Newest(x) = wbuf[x]
    BY <2>1 DEF Newest
  <2>3. disk[x] <= disk'[x] /\ disk'[x] <= Newest(x)
    BY <2>1, <2>2, DataFacts DEF DataOK
  <2> QED BY <1>0, <2>1, <2>2, <2>3, DataFacts DEF DataOK, Free, WriteLock
<1> QED BY <1>1, <1>2

\* What a thread that does not move knows stays true: the block it merges is
\* locked.
LEMMA ReadKeep ==
    ASSUME Inv, Advances, NEW u \in Threads, pc'[u] = pc[u], loc'[u] = loc[u], snap'[u] = snap[u],
           pc[u] = "write" => wCache',
           \A x \in Blocks : disk'[x] \in Nat /\ ended'[x] \in Nat
    PROVE  ReadOK(u)'
<1>0. ReadOK(u) /\ TypeOK /\ CallInv
  BY DEF Inv, DataInv
<1>1. \A x \in Blocks : snap[u][x] \in Nat /\ disk[x] \in Nat /\ ended[x] \in Nat
  BY DataFacts
<1>2. ASSUME pc[u] = "rmerge" PROVE Fresh(u)'
  <2>1. loc[u].cur \in Blocks
    BY <1>0, <1>2, AtBlock DEF Reading
  <2>2. loc[u].wfb => wbuf'[loc[u].cur] = wbuf[loc[u].cur]
    BY <1>2, <2>1, ReadersHold DEF Locking, Advances, Free, WriteLock
  <2>3. MergeOp(u)' = MergeOp(u)
    BY <2>2 DEF MergeOp
  <2> QED BY <1>0, <1>2, <2>3 DEF ReadOK, Fresh
<1>3. ASSUME NEW x \in Blocks PROVE snap'[u][x] <= ended'[x]
  BY <1>0, <1>1 DEF ReadOK, Advances
<1>4. ASSUME pc[u] \in {"rlockw"} \cup Locking, ~loc[u].wfb, NEW x \in Blocks PROVE snap'[u][x] <= disk'[x]
  BY <1>0, <1>1, <1>4 DEF ReadOK, Advances
<1> QED BY <1>0, <1>2, <1>3, <1>4 DEF ReadOK

LEMMA DataThread ==
    ASSUME Inv, NEW t \in Threads, ThreadStep(t)
    PROVE  (\A x \in Blocks : DataOK(x)') /\ Advances
<1>0. TypeOK /\ CallInv /\ WriteType
  BY DEF Inv, TypeOK
<1>1. CASE WriteOne(t)
  BY <1>1, DataWrite
<1>a. \A x \in Blocks : ~wCache => wbuf[x] = 0
  BY DataFacts DEF DataOK
<1>2. CASE UNCHANGED wVars
  BY <1>a, <1>2, DataSame DEF wVars, dataVars
<1>3. CASE CleanLookup(t) \/ Clean(t)
  <2>1. UNCHANGED <<wCache, wlock, wbuf, disk, ver, latest>>
    BY <1>3 DEF CleanLookup, Clean
  <2>2. \A x \in Blocks : ended'[x] \in {ended[x], latest[x]}
    BY <1>0, <1>3 DEF CleanLookup, Clean, WriteReturn, WriteType
  <2> QED BY <1>a, <2>1, <2>2, DataSame
<1>4. CASE ReadLockW(t)
  <2>1. UNCHANGED <<wCache, wbuf, disk, ver, latest, ended>>
    BY <1>4 DEF ReadLockW, dataVars
  <2>2. \A x \in Blocks : wlock'[x] = WriteLock => wlock[x] = WriteLock
    BY <1>0, <1>4 DEF ReadLockW, RLockFree, WriteType, WriteLock
  <2> QED BY <1>a, <2>1, <2>2, DataSame
<1>5. CASE DirectReadFail(t) \/ ReadMerge(t)
  <2>1. UNCHANGED <<wCache, wbuf, disk, ver, latest, ended>> /\ RUnLockWrite(t) /\ pc[t] \in Locking
    BY <1>5 DEF DirectReadFail, ReadMerge, dataVars, Locking
  <2>2. loc[t].wfb => wlock[loc[t].cur] \in Nat /\ wlock[loc[t].cur] > 0
    BY <2>1, ReadersHold
  <2>3. \A x \in Blocks : wlock'[x] = WriteLock => wlock[x] = WriteLock
    BY <1>0, <2>1, <2>2 DEF RUnLockWrite, WriteType, WriteLock
  <2> QED BY <1>a, <2>1, <2>3, DataSame
<1>6. CASE WCacheClosed(t)
  BY <1>6, DataSame DEF WCacheClosed, dataVars
<1>7. CASE \E lo \in Blocks, n \in 1 .. MaxWriteLen : Write(t, lo, n)
  BY <1>7, DataSame DEF Write, dataVars
<1> QED BY <1>1, <1>2, <1>3, <1>4, <1>5, <1>6, <1>7 DEF ThreadStep, Open, Close, CloseLast, Read, ReadStep, PrefetchLock,
  PrefetchSend, ReadLookup, ReadOp, DirectRead, WriteStep, WriteOne, CloseStep, CloseFile, Wait, Release,
  DetachFileBuffer, WCacheCloseFailed

\* Of the threads that do not move.
LEMMA ReadOthers ==
    ASSUME Inv, NEW t \in Threads, ThreadStep(t), NEW u \in Threads \ {t}
    PROVE  ReadOK(u)'
<1>0. TypeOK /\ CallType /\ ReadOK(u) /\ TypeOK'
  BY TypeNext DEF Inv, DataInv, TypeOK, Next, ThreadStep
<1>1. pc'[u] = pc[u] /\ loc'[u] = loc[u]
  BY ThreadAlone, Consts DEF Alone
<1>2. snap'[u] = snap[u]
  <2>1. snap' = snap \/ \E v : snap' = [snap EXCEPT ![t] = v]
    <3>1. CASE WriteOne(t)
      BY <3>1, WriteOneFacts
    <3>2. CASE ~WriteOne(t)
      BY <3>2 DEF ThreadStep, Open, Close, CloseLast, Read, Write, ReadStep, PrefetchLock, PrefetchSend, ReadLookup,
         ReadLockW, ReadOp, DirectRead, DirectReadFail, ReadMerge, WriteStep, WriteOne, CleanLookup, Clean,
         WriteReturn, Return, CloseStep, CloseFile, Wait, Release, DetachFileBuffer, WCacheClosed, WCacheCloseFailed
    <3> QED BY <3>1, <3>2
  <2> QED BY <1>0, <2>1 DEF CallType
<1>3. pc[u] = "write" => wCache'
  <2>1. CASE WCacheClosed(t)
    BY <2>1 DEF WCacheClosed, Inv, CloseInv, Closing
  <2>2. CASE wCache' = wCache \/ wCache' = TRUE
    BY <1>0, <2>2 DEF ReadOK
  <2>3. CASE WriteOne(t)
    BY <1>0, <2>3, WriteOneFacts DEF WriteAt, ReadOK
  <2> QED BY <2>1, <2>2, <2>3 DEF ThreadStep, Open, Close, CloseLast, Read, Write, ReadStep, PrefetchLock, PrefetchSend,
    ReadLookup, ReadLockW, ReadOp, DirectRead, DirectReadFail, ReadMerge, WriteStep, WriteOne, CleanLookup, Clean,
    CloseStep, CloseFile, Wait, Release, DetachFileBuffer, WCacheCloseFailed, wVars
<1>4. \A x \in Blocks : disk'[x] \in Nat /\ ended'[x] \in Nat
  BY <1>0 DEF TypeOK, WriteType
<1> QED BY <1>1, <1>2, <1>3, <1>4, ReadKeep, DataThread

\* Of the thread that moves.
LEMMA ReadSelf ==
    ASSUME Inv, NEW t \in Threads, ThreadStep(t)
    PROVE  ReadOK(t)'
<1>0. t \in Procs /\ TypeOK /\ ReadType /\ WriteType /\ CallType /\ CallInv /\ ReadOK(t)
  BY Consts DEF Inv, TypeOK, DataInv
<1>a. pc \in [Procs -> Labels] /\ loc \in [Procs -> LocType] /\ loc[t] \in LocType
  BY <1>0 DEF TypeOK, ProcType
<1>b. /\ \A x \in Blocks : snap[t][x] \in Nat /\ ended[x] \in Nat /\ disk[x] \in Nat
      /\ \A x \in Blocks : snap[t][x] <= ended[x]
  BY <1>0, DataFacts DEF ReadOK
<1>c. ASSUME snap'[t] = snap[t] PROVE \A x \in Blocks : snap'[t][x] <= ended'[x]
  <2>1. \A x \in Blocks : ended[x] <= ended'[x] /\ ended'[x] \in Nat
    BY DataThread, TypeNext DEF Advances, Next, ThreadStep, TypeOK, WriteType
  <2> QED BY <1>b, <1>c, <2>1
<1> DEFINE Plain == Labels \ ({"write", "rlockw"} \cup Locking)
<1>d. ASSUME snap'[t] = snap[t], pc'[t] \in Plain PROVE ReadOK(t)'
  BY <1>c, <1>d DEF ReadOK, Locking
<1>e. ASSUME Return(t) PROVE ReadOK(t)'
  <2>1. pc'[t] = "idle" /\ snap'[t] = Zero
    BY <1>0, <1>a, <1>e DEF Return, Goto, CallType
  <2>2. \A x \in Blocks : Zero[x] = 0 /\ ended'[x] \in Nat
    BY TypeNext DEF Zero, Next, ThreadStep, TypeOK, WriteType
  <2> QED BY <2>1, <2>2 DEF ReadOK, Locking
<1> HIDE DEF Plain
<1>1. CASE Open(t) \/ Close(t) \/ CloseLast(t) \/ CloseStep(t) \/ PrefetchLock(t) \/ PrefetchSend(t)
  <2>1. snap' = snap
    BY <1>1 DEF Open, Close, CloseLast, CloseStep, CloseFile, Wait, Release, DetachFileBuffer, WCacheClosed,
       WCacheCloseFailed, PrefetchLock, PrefetchSend
  <2>2. pc'[t] \in Plain
    BY <1>0, <1>a, <1>1 DEF Open, Close, CloseLast, CloseStep, CloseFile, Wait, Release, DetachFileBuffer, WCacheClosed,
       WCacheCloseFailed, PrefetchLock, PrefetchSend, Goto, Plain, Labels, Locking
  <2> QED BY <1>d, <2>1, <2>2
<1>2. ASSUME NEW lo \in Blocks, NEW n \in 1 .. MaxReadLen, Read(t, lo, n) PROVE ReadOK(t)'
  <2>1. pc'[t] = "prefetch" /\ snap'[t] = ended /\ ended' = ended
    BY <1>0, <1>a, <1>2 DEF Read, Goto, CallType, wVars, dataVars
  <2> QED BY <1>b, <2>1 DEF ReadOK, Locking
<1>3. ASSUME NEW lo \in Blocks, NEW n \in 1 .. MaxWriteLen, Write(t, lo, n) PROVE ReadOK(t)'
  <2>1. pc'[t] = "write" /\ snap' = snap /\ wCache'
    BY <1>0, <1>a, <1>3 DEF Write, Goto
  <2> QED BY <1>c, <2>1 DEF ReadOK, Locking
<1>4. CASE ReadLookup(t)
  <2>1. pc'[t] = "rlockw" /\ loc'[t].wfb = wCache /\ UNCHANGED <<snap, wCache, disk>>
    BY <1>0, <1>a, <1>4 DEF ReadLookup, Goto, wVars, dataVars, LocType
  <2>2. ASSUME ~wCache, NEW x \in Blocks PROVE snap[t][x] <= disk[x]
    <3>1. Newest(x) = disk[x]
      BY <2>2, DataFacts DEF DataOK, Newest
    <3> QED BY <1>b, <3>1, DataFacts DEF DataOK
  <2> QED BY <1>c, <2>1, <2>2 DEF ReadOK
<1>5. CASE ReadLockW(t) \/ ReadOp(t)
  <2>1. /\ pc[t] \in {"rlockw"} \cup Locking /\ pc'[t] \in {"rlockr", "rpc", "rhit"}
        /\ loc'[t].wfb = loc[t].wfb /\ UNCHANGED <<snap, disk>>
    BY <1>0, <1>a, <1>5 DEF ReadLockW, ReadOp, Goto, wVars, dataVars, LocType, Locking
  <2> QED BY <1>0, <1>c, <2>1 DEF ReadOK, Locking
<1>6. CASE DirectRead(t)
  <2>0. loc[t].cur \in Blocks
    BY <1>0, <1>6, AtBlock DEF DirectRead, Reading
  <2>1. /\ pc[t] = "rpc" /\ pc'[t] = "rmerge" /\ loc'[t].wfb = loc[t].wfb /\ loc'[t].cur = loc[t].cur
        /\ loc'[t].val = disk[loc[t].cur] /\ UNCHANGED <<snap, disk, wbuf, wCache>>
    BY <1>0, <1>a, <1>6 DEF DirectRead, Goto, wVars, dataVars, LocType
  <2>2. MergeOp(t)' = IF loc[t].wfb THEN Newest(loc[t].cur) ELSE disk[loc[t].cur]
    BY <2>1 DEF MergeOp, Newest
  <2>3. loc[t].wfb => snap[t][loc[t].cur] <= Newest(loc[t].cur)
    BY <1>b, <2>0, DataFacts DEF DataOK
  <2>4. ~loc[t].wfb => \A x \in Blocks : snap[t][x] <= disk[x]
    BY <1>0, <2>1 DEF ReadOK, Locking
  <2>5. Fresh(t)'
    <3>1. Newest(loc[t].cur) \in Nat /\ disk[loc[t].cur] \in Nat /\ snap[t][loc[t].cur] \in Nat
      BY <1>b, <2>0, DataFacts
    <3>2. MergeOp(t)' >= snap[t][loc[t].cur]
      BY <2>0, <2>2, <2>3, <2>4, <3>1
    <3> QED BY <2>1, <3>2 DEF Fresh
  <2> QED BY <1>c, <2>1, <2>4, <2>5 DEF ReadOK
<1>7. CASE ReadMerge(t)
  <2>1. CASE loc[t].cur + 1 < loc[t].hi
    <3>1. /\ pc[t] \in Locking /\ pc'[t] = "rlockw" /\ UNCHANGED <<snap, disk>>
          /\ loc' = [loc EXCEPT ![t] = [loc[t] EXCEPT !.cur = loc[t].cur + 1, !.val = 0]]
      BY <1>0, <1>a, <1>7, <2>1 DEF ReadMerge, Goto, dataVars, Locking
    <3>2. loc'[t].wfb = loc[t].wfb
      BY <1>0, <1>a, <3>1 DEF LocType
    <3> QED BY <1>0, <1>c, <3>1, <3>2 DEF ReadOK
  <2>2. CASE ~(loc[t].cur + 1 < loc[t].hi)
    BY <1>7, <1>e, <2>2 DEF ReadMerge
  <2> QED BY <2>1, <2>2
<1>8. CASE DirectReadFail(t)
  BY <1>8, <1>e DEF DirectReadFail
<1>9. CASE WriteOne(t)
  <2>1. /\ pc[t] = "write" /\ pc'[t] \in {"write", "clookup"} /\ snap' = snap /\ wCache' = wCache
    BY <1>0, <1>a, <1>9, WriteOneFacts DEF WriteGoes, Moves, WriteAt
  <2> QED BY <1>0, <1>c, <2>1 DEF ReadOK, Locking
<1>10. CASE CleanLookup(t) \/ Clean(t)
  <2>1. CASE Return(t)
    BY <1>e, <2>1
  <2>2. CASE snap' = snap /\ pc'[t] = "clean"
    <3>1. pc'[t] \in Plain
      BY <2>2 DEF Plain, Labels, Locking
    <3> QED BY <1>d, <2>2, <3>1
  <2> QED BY <1>0, <1>a, <1>10, <2>1, <2>2 DEF CleanLookup, Clean, WriteReturn, Goto
<1> QED BY <1>1, <1>2, <1>3, <1>4, <1>5, <1>6, <1>7, <1>8, <1>9, <1>10 DEF ThreadStep, ReadStep, WriteStep, WriteOne

LEMMA DataGoroutine ==
    ASSUME Inv
    PROVE  /\ \A p \in Prefetchers : PrefetchStep(p) => DataInv'
           /\ \A e \in Expirers : ExpireStep(e) => DataInv'
           /\ \A x \in Blocks : FlushBuffer(x) \/ SyncWrite(x) => DataInv'
<1>0. \A u \in Threads : ReadOK(u)
  BY DEF Inv, DataInv
<1>a. ASSUME \A u \in Threads : pc'[u] = pc[u] /\ loc'[u] = loc[u], UNCHANGED <<snap, wCache>>, TypeOK',
             \A x \in Blocks : DataOK(x)', Advances
      PROVE  DataInv'
  <2>1. \A x \in Blocks : disk'[x] \in Nat /\ ended'[x] \in Nat
    BY <1>a DEF TypeOK, WriteType
  <2>2. ASSUME NEW u \in Threads PROVE ReadOK(u)'
    <3>1. pc[u] = "write" => wCache'
      BY <1>0, <1>a DEF ReadOK
    <3> QED BY <1>a, <2>1, <3>1, ReadKeep
  <2> QED BY <1>a, <2>2 DEF DataInv
<1>b. ASSUME UNCHANGED wVars PROVE (\A x \in Blocks : DataOK(x)') /\ Advances
  <2>1. \A x \in Blocks : ~wCache => wbuf[x] = 0
    BY DataFacts DEF DataOK
  <2> QED BY <1>b, <2>1, DataSame DEF wVars, dataVars
<1>1. ASSUME NEW p \in Prefetchers, PrefetchStep(p) PROVE DataInv'
  <2>1. UNCHANGED <<wVars, snap>> /\ TypeOK'
    BY <1>1, GoroutineAlone, TypePrefetch
  <2>2. wCache' = wCache
    BY <2>1 DEF wVars
  <2> QED BY <1>1, <1>a, <1>b, <2>1, <2>2, CallGoroutine
<1>2. ASSUME NEW e \in Expirers, ExpireStep(e) PROVE DataInv'
  <2>1. UNCHANGED <<wVars, snap>> /\ TypeOK'
    BY <1>2, GoroutineAlone, TypeExpire
  <2>2. wCache' = wCache
    BY <2>1 DEF wVars
  <2> QED BY <1>2, <1>a, <1>b, <2>1, <2>2, CallGoroutine
<1>3. ASSUME NEW x \in Blocks, FlushBuffer(x) \/ SyncWrite(x) PROVE DataInv'
  BY <1>3, <1>a, FlushFacts, DataFlush, CallGoroutine
<1> QED BY <1>1, <1>2, <1>3

-----------------------------------------------------------------------------
(* The theorems *)

LEMMA InvThread ==
    ASSUME Inv, NEW t \in Threads, ThreadStep(t)
    PROVE  Inv'
<1>1. TypeOK'
  BY TypeNext DEF Next, ThreadStep
<1>2. WindowInv'
  <2>1. CASE \E lo \in Blocks, n \in 1 .. MaxReadLen : Read(t, lo, n)
    BY <2>1, ReadFacts
  <2>2. CASE WriteOne(t)
    BY <2>2, WriteOneFacts DEF Inv, WindowInv, WindowOK, rVars
  <2>3. CASE pw' = pw
    BY <2>3 DEF Inv, WindowInv, WindowOK
  <2> QED BY <2>1, <2>2, <2>3 DEF ThreadStep, Open, Close, CloseLast, Write, ReadStep, PrefetchLock,
    PrefetchSend, ReadLookup, ReadLockW, ReadOp, DirectRead, DirectReadFail, ReadMerge, WriteStep, WriteOne,
    CleanLookup, Clean, CloseStep, CloseFile, Wait, Release, DetachFileBuffer, WCacheClosed, WCacheCloseFailed, rVars
<1>3. ReaderInv'
  BY RThread, WThread DEF ReaderInv
<1>4. DataInv'
  BY DataThread, ReadOthers, ReadSelf DEF DataInv
<1> QED BY <1>1, <1>2, <1>3, <1>4, CallThread, CloseThread, FileThread, OwnerThread, BufferThread,
  CleanThread DEF Inv

LEMMA InvGoroutine ==
    ASSUME Inv, \/ \E p \in Prefetchers : PrefetchStep(p)
                \/ \E e \in Expirers : ExpireStep(e)
                \/ \E x \in Blocks : FlushBuffer(x) \/ SyncWrite(x)
    PROVE  Inv'
<1>1. TypeOK'
  BY TypeNext DEF Next
<1>2. WindowInv'
  <2>1. pw' = pw
    BY FlushFacts DEF PrefetchStep, PrefetchTake, PrefetchFetch, PrefetchNothing, PrefetchAttach, ExpireStep,
       LruExpire, ExpireLookup, ExpireRelease, rVars
  <2> QED BY <2>1 DEF Inv, WindowInv, WindowOK
<1> QED BY <1>1, <1>2, CallGoroutine, CloseGoroutine, FileGoroutine, OwnerGoroutine, ReaderGoroutine,
  BufferGoroutine, CleanGoroutine, DataGoroutine DEF Inv

LEMMA InvInit == Init => Inv
<1> SUFFICES ASSUME Init PROVE Inv
  OBVIOUS
<1>0. /\ \A t \in Threads : pc[t] = "closed" /\ loc[t] = NoLoc
      /\ \A p \in Prefetchers \cup Expirers : pc[p] = "idle" /\ loc[p] = NoLoc
  BY Consts DEF Init, Procs
<1>1. TypeOK
  BY TypeInit
<1>2. CallInv /\ CloseInv
  BY <1>0 DEF CallInv, CallOK, CloseInv, Reading, Changing, Closing
<1>3. WindowInv
  BY DEF Init, WindowInv, WindowOK, Size
<1>4. FileInv
  BY DEF Init, FileInv
<1>5. OwnerInv
  <2>1. chPrefetch = {}
    BY DEF Init
  <2>2. ASSUME NEW p \in Procs, NEW x PROVE ~Holds(p, x)
    BY <1>0 DEF Holds
  <2> QED BY <2>1, <2>2 DEF OwnerInv
<1>6. ReaderInv
  <2>1. (\A k \in Keys : LockMap[k] = 0) /\ \A x \in Blocks : wlock[x] = 0
    BY DEF Init, Free
  <2>2. (\A k \in Keys : Readers(k) = {}) /\ \A x \in Blocks : WReaders(x) = {}
    BY <1>0 DEF Readers, WReaders, Locking
  <2> QED BY <2>1, <2>2, FS_EmptySet DEF ReaderInv, Counts, WriteLock
<1>7. Attached = {}
  BY DEF Init, Attached
<1>8. BufferInv
  <2>1. free = BufferMax /\ LruList = {} /\ Cardinality(Attached) = 0
    BY <1>7, FS_EmptySet DEF Init
  <2> QED BY <1>0, <1>7, <2>1, Consts DEF BufferInv
<1>9. CleanInv
  BY <1>0, <1>7 DEF CleanInv
<1>10. DataInv
  <2>1. ASSUME NEW x \in Blocks PROVE DataOK(x)
    BY DEF Init, Zero, DataOK, Newest, Free, WriteLock
  <2>2. ASSUME NEW t \in Threads PROVE ReadOK(t)
    BY <1>0 DEF ReadOK, Init, Zero, Locking
  <2> QED BY <2>1, <2>2 DEF DataInv
<1> QED BY <1>1, <1>2, <1>3, <1>4, <1>5, <1>6, <1>8, <1>9, <1>10 DEF Inv

LEMMA InvStutter == Inv /\ UNCHANGED vars => Inv'
<1> SUFFICES ASSUME Inv, UNCHANGED vars PROVE Inv'
  OBVIOUS
<1>0. /\ UNCHANGED <<Cache, made, BufferMap, free, LruList, seen, LockMap, pw, chPrefetch>>
      /\ UNCHANGED <<wCache, wlock, wbuf, disk, ver, latest, ended, pc, loc, snap>>
  BY DEF vars, rVars, mapVars, wVars, dataVars
<1>1. TypeOK'
  BY TypeNext
<1>2. CallInv' /\ WindowInv' /\ CloseInv' /\ FileInv'
  BY <1>0 DEF Inv, CallInv, CallOK, WindowInv, WindowOK, CloseInv, FileInv
<1>3. OwnerInv'
  BY <1>0 DEF Inv, OwnerInv, Holds, Held
<1>4. ReaderInv' /\ BufferInv'
  BY <1>0 DEF Inv, ReaderInv, Readers, WReaders, RKey, BufferInv, Attached, Expiring
<1>5. CleanInv'
  BY <1>0 DEF Inv, CleanInv, Attached, UpToDate, WillClean
<1>6. DataInv'
  BY <1>0 DEF Inv, DataInv, DataOK, Newest, ReadOK, Fresh, MergeOp
<1> QED BY <1>1, <1>2, <1>3, <1>4, <1>5, <1>6 DEF Inv

LEMMA InvNext == Inv /\ [Next]_vars => Inv'
<1> SUFFICES ASSUME Inv, [Next]_vars PROVE Inv'
  OBVIOUS
<1>1. CASE UNCHANGED vars
  BY <1>1, InvStutter
<1>2. ASSUME NEW t \in Threads, ThreadStep(t) PROVE Inv'
  BY <1>2, InvThread
<1>3. CASE \/ \E p \in Prefetchers : PrefetchStep(p)
           \/ \E e \in Expirers : ExpireStep(e)
           \/ \E x \in Blocks : FlushBuffer(x) \/ SyncWrite(x)
  BY <1>3, InvGoroutine
<1> QED BY <1>1, <1>2, <1>3 DEF Next, ThreadStep

\* The inductive invariant of the read path.
THEOREM Invariance == Spec => []Inv
  BY InvInit, InvNext, PTL DEF Spec

\* Every variable keeps its type: in particular no lock count and no count of free
\* buffers goes below zero (rcache.go, cache.go).
THEOREM TypeCorrect == Spec => []TypeOK
<1>1. Inv => TypeOK
  BY DEF Inv
<1> QED BY <1>1, Invariance, PTL

\* Unless the prefetch window is configured with length 0 (mount.go:137), no Assert of
\* the read path fails, whatever threads, prefetchers and CheckExpire do in between:
\* ops in chPrefetch and at work own their block, readers their locks, and a read
\* crosses no empty window.
THEOREM ReadNeverPanics == PrefetchTimes # 0 => (Spec => []ReadNoPanic)
<1> SUFFICES ASSUME PrefetchTimes # 0 PROVE Spec => []ReadNoPanic
  OBVIOUS
<1>1. ASSUME Inv PROVE ReadNoPanic
  <2>0. OwnerInv /\ WindowInv
    BY <1>1 DEF Inv
  <2>1. /\ chPrefetch # {} => Cache # 0
        /\ \A x \in chPrefetch : LockMap[<<Cache, x>>] = WriteLock /\ BufferMap[<<Cache, x>>] = None
    BY <2>0 DEF OwnerInv, Held
  <2>2. \A p \in Prefetchers : pc[p] \in {"fetch", "attach"} =>
           LockMap[RKey(p)] = WriteLock /\ BufferMap[RKey(p)] = None
    BY <1>1, PrefetcherFacts
  <2>3. \A t \in Threads :
           /\ pc[t] = "rpc" => LockMap[RKey(t)] > 0
           /\ pc[t] \in {"rlockr", "rpc", "rhit", "rmerge"} /\ loc[t].wfb => wlock[loc[t].cur] > 0
    BY <1>1, ReadersHold DEF Locking
  <2>4. ASSUME NEW b \in FileBufs, NEW lo \in Blocks, NEW n \in 1 .. MaxReadLen
        PROVE  WindowAssert(GetReadWindow(lo, n), pw[b])
    <3>1. pw[b] \in Windows /\ lo \in Nat /\ n \in Nat
      BY <1>1, Consts, RWCacheAssumption DEF Inv, TypeOK, ReadType, Windows
    <3>2. Size(pw[b]) = 0 => pw[b].BlkStart = 0
      BY <2>0 DEF WindowInv, WindowOK
    <3> QED BY <2>0, <3>1, <3>2 DEF WindowAssert, GetReadWindow, Cross, Size, Windows, WindowInv, WindowOK
  <2> QED BY <2>1, <2>2, <2>3, <2>4 DEF ReadNoPanic
<1> QED BY <1>1, Invariance, PTL

\* No buffer of the read cache is lost or given back twice, and CheckExpire, Clean
\* or the last Close finds every one that is attached (rcache.go, cache.go).
THEOREM BuffersConserved == Spec => []ReadBufferConservation
<1>1. ASSUME Inv PROVE ReadBufferConservation
  <2>0. BufferInv /\ FileInv
    BY <1>1 DEF Inv
  <2>1. ASSUME NEW k \in Attached
        PROVE  /\ k[1] = Cache
               /\ k \in LruList \/ \E e \in Expirers : pc[e] \in {"elookup", "erelease"} /\ loc[e].cur = k[2]
    BY <2>0 DEF BufferInv, FileInv, Attached, Expiring
  <2> QED BY <2>0, <2>1 DEF ReadBufferConservation, BufferInv
<1> QED BY <1>1, Invariance, PTL

\* Clean after a Write catches every prefetch that the Write overtook: one that
\* asked the server before still has its block locked, or has attached a buffer
\* that Clean has yet to come to (rwcache.go, Write).
THEOREM CleanCatchesPrefetch == Spec => []CleanedAfterWrite
<1>1. ASSUME Inv PROVE CleanedAfterWrite
  <2>1. ASSUME NEW t \in Threads, NEW x \in Blocks, WillClean(t, x) PROVE Writing(t, x)
    <3>1. CASE pc[t] \in {"write", "clookup"}
      BY <2>1, <3>1 DEF WillClean, Writing
    <3>2. CASE pc[t] = "clean"
      <4>1. x \in loc[t].cur .. loc[t].hi - 1
        BY <2>1, <3>2 DEF WillClean
      <4>2. loc[t].lo \in Nat /\ loc[t].hi \in Nat /\ loc[t].cur \in Nat /\ loc[t].lo <= loc[t].cur
        BY <1>1, <3>2, AtBlock, LocFacts, Consts DEF Inv, Changing
      <4> QED BY <3>2, <4>1, <4>2 DEF Writing
    <3> QED BY <2>1, <3>1, <3>2 DEF WillClean
  <2>2. ASSUME NEW k \in Attached PROVE k[2] \in Blocks /\ UpToDate(k[2], seen[k])
    BY <1>1 DEF Inv, CleanInv, Attached, Keys
  <2> QED BY <2>1, <2>2 DEF CleanedAfterWrite, UpToDate
<1> QED BY <1>1, Invariance, PTL

\* A block that a Read asks the server for is returned with every write that
\* returned before the Read began: the lock of the write cache, taken before the
\* request and held until the merge, keeps the buffer there (rwcache.go:53-72).
THEOREM DirectReadsFresh == Spec => []DirectReadFresh
<1>1. Inv => DirectReadFresh
  BY DEF Inv, DataInv, ReadOK, DirectReadFresh
<1> QED BY <1>1, Invariance, PTL
=============================================================================
