-------------------------- MODULE WCacheDataProofs --------------------------
(***************************************************************************)
(* The data of the write-back cache, for any number of files, blocks,      *)
(* cells, handles, goroutines and buffers: what a read sees, what is on    *)
(* the server, what was accepted and what a Flush has to store.  The       *)
(* properties of WCache follow, and that WCache implements WriteBack.      *)
(*                                                                         *)
(* A step changes the data of one block at most, whose lock its process    *)
(* holds or finds free, in one of three ways (Change).  The locks and the  *)
(* places of the buffers are those of WCacheProofs.  The last sections are *)
(* about the length of a read and about the mount around the cache.        *)
(***************************************************************************)
EXTENDS WCacheProofs, Mount, ReadSize, WellFoundedInduction

-----------------------------------------------------------------------------
(* The inductive invariant *)

\* The buffer of a block of a file.
BufAt(f, x) == IF Cache[f] = 0 THEN NoBuf ELSE BufferMap[<<Cache[f], x>>]

\* Readers see the newest data: the server is behind them, and so is what was
\* accepted.
BlockInv ==
    \A f \in Files, x \in Blocks : ~gone[f] => \A i \in Cells :
        /\ disk[f][x][i] <= View(f, x)[i]
        /\ latest[f][x][i] <= View(f, x)[i]
        /\ View(f, x)[i] <= ver

\* Labels with the version of the op drawn and its data not yet written.
Drawn == {"wflush", "wflushR", "wdirect"}

\* The cells of an op.
OpCells(o) == {i \in Cells : o.RwOffset <= i /\ i < o.RwOffset + o.RwSize}

\* The op of a Write under the lock is newer than its block until it is written.
OpOK(c) ==
    ~gone[loc[c].fe] =>
        /\ pc[c] \in Drawn =>
              op[c].ver <= ver /\ \A i \in Cells : View(loc[c].fe, loc[c].blk)[i] < op[c].ver
        /\ pc[c] = "wdirectR" /\ loc[c].res = "ok" =>
              \A i \in OpCells(op[c]) : View(loc[c].fe, loc[c].blk)[i] = op[c].ver

\* Labels with the lock of a block and without a buffer: a direct write, and
\* SyncWrite before it unlocks.
Bare == {"wdirect", "wdirectR", "syncU"}

\* There is no buffer beside a direct write, and none after SyncWrite freed its own.
DirectOK(p) == pc[p] \in Bare => BufferMap[Key(p)] = NoBuf

\* Labels with the answer to the write of a buffer.
Answered == {"wfullR", "wflushR", "fflushR", "syncR"}

\* After the answer the server has what the buffer has.
AnswerOK(p) ==
    pc[p] \in Answered /\ ~gone[buf[loc[p].cur].fe] =>
        /\ loc[p].res # "enoent"
        /\ loc[p].res = "ok" =>
              \A i \in Cells : disk[buf[loc[p].cur].fe][loc[p].blk][i]
                               = View(buf[loc[p].cur].fe, loc[p].blk)[i]

\* What a process knows of the data of the block it has locked.
HoldOK(p) == (p \in Clients => OpOK(p)) /\ DirectOK(p) /\ AnswerOK(p)
HoldInv   == \A p \in Procs : HoldOK(p)

\* What a Flush still has to store is in the blocks whose result is missing.
FlushOK(c) ==
    /\ fl[c].kind = "none" => \A x \in Blocks, i \in Cells : snap[c][x][i] = 0
    /\ fl[c].kind # "none" =>
          /\ fl[c].pend # {} => loc[c].fb = Cache[loc[c].fe]
          /\ ~gone[loc[c].fe] => \A x \in Blocks, i \in Cells :
                /\ snap[c][x][i] <= latest[loc[c].fe][x][i]
                /\ ~fl[c].failed /\ x \notin fl[c].pend => snap[c][x][i] <= disk[loc[c].fe][x][i]
FlushData == \A c \in Clients : FlushOK(c)

DataInv == BlockInv /\ HoldInv /\ FlushData

\* What is known of the locks and buffers of a state.
PlaceInv == TypeInv /\ SafeInv /\ UnlockInv

-----------------------------------------------------------------------------
(* What a read sees *)

\* A read sees the buffer where it has data, and the server elsewhere.
LEMMA ViewCells ==
    ASSUME TypeOK, NEW f \in Files, NEW x \in Blocks
    PROVE  /\ View(f, x) \in Content /\ disk[f][x] \in Content /\ latest[f][x] \in Content
           /\ BufAt(f, x) \in Buffers \cup {NoBuf}
           /\ \A i \in Cells : View(f, x)[i] =
                 IF BufAt(f, x) # NoBuf /\ InRange(buf[BufAt(f, x)], i)
                 THEN buf[BufAt(f, x)].data[i] ELSE disk[f][x][i]
<1> DEFINE b == BufAt(f, x)
<1>1. View(f, x) = IF b = NoBuf THEN disk[f][x] ELSE Overlay(disk[f][x], buf[b])
  BY DEF View, BufAt
<1>2. b \in Buffers \cup {NoBuf}
  BY DEF BufAt, TypeOK, Keys, FileBufs
<1>3. disk[f][x] \in Content /\ latest[f][x] \in Content
  BY DEF TypeOK, FileContent
<1> HIDE DEF b
<1>4. CASE b = NoBuf
  BY <1>1, <1>3, <1>4 DEF b
<1>5. CASE b # NoBuf
  <2>1. buf[b] \in BufferType
    BY <1>2, <1>5 DEF TypeOK
  <2>2. View(f, x) = Overlay(disk[f][x], buf[b])
    BY <1>1, <1>5
  <2> QED BY <1>2, <1>3, <1>5, <2>1, <2>2, OverlayType DEF Overlay, b
<1> QED BY <1>4, <1>5

\* The same after a step.
LEMMA ViewCellsNext ==
    ASSUME TypeOK', NEW f \in Files, NEW x \in Blocks
    PROVE  /\ View(f, x)' \in Content /\ disk'[f][x] \in Content /\ latest'[f][x] \in Content
           /\ BufAt(f, x)' \in Buffers \cup {NoBuf}
           /\ \A i \in Cells : View(f, x)'[i] =
                 IF BufAt(f, x)' # NoBuf /\ InRange(buf'[BufAt(f, x)'], i)
                 THEN buf'[BufAt(f, x)'].data[i] ELSE disk'[f][x][i]
<1> DEFINE b == BufAt(f, x)'
<1>1. View(f, x)' = IF b = NoBuf THEN disk'[f][x] ELSE Overlay(disk'[f][x], buf'[b])
  BY DEF View, BufAt
<1>2. b \in Buffers \cup {NoBuf}
  BY DEF BufAt, TypeOK, Keys, FileBufs
<1>3. disk'[f][x] \in Content /\ latest'[f][x] \in Content
  BY DEF TypeOK, FileContent
<1> HIDE DEF b
<1>4. CASE b = NoBuf
  BY <1>1, <1>3, <1>4 DEF b
<1>5. CASE b # NoBuf
  <2>1. buf'[b] \in BufferType
    BY <1>2, <1>5 DEF TypeOK
  <2>2. View(f, x)' = Overlay(disk'[f][x], buf'[b])
    BY <1>1, <1>5
  <2> QED BY <1>2, <1>3, <1>5, <2>1, <2>2, OverlayType DEF Overlay, b
<1> QED BY <1>4, <1>5

\* The buffer of a block is the one that carries its name.
LEMMA BufAtHome ==
    ASSUME TypeInv, SafeInv, NEW f \in Files, NEW x \in Blocks, BufAt(f, x) # NoBuf
    PROVE  LET b == BufAt(f, x)
           IN  /\ b \in Buffers \ FreeList /\ Home(b) = <<Cache[f], x>>
               /\ Cache[f] # 0 /\ buf[b].fe = f /\ buf[b].BlkIdx = x
<1> DEFINE b == BufAt(f, x)
           k == <<Cache[f], x>>
<1>1. Cache[f] # 0 /\ k \in Keys /\ b = BufferMap[k] /\ b \in Buffers
  BY DEF BufAt, TypeInv, TypeOK, Keys, FileBufs
<1>2. b \notin FreeList /\ Home(b) = k /\ buf[b].fe \in Files
  BY <1>1, WCacheAssumption DEF SafeInv, AttachInv, TypeInv, BufferInv, Named
<1>3. Cache[buf[b].fe] = Cache[f] /\ buf[b].BlkIdx = x
  BY <1>2 DEF Home
<1> QED BY <1>1, <1>2, <1>3 DEF SafeInv, TableInv

\* A step that touches the block under key k only leaves the others alone.
LEMMA OtherBlocks ==
    ASSUME TypeInv, SafeInv, NEW k \in Keys, Cache' = Cache,
           \A j \in Keys \ {k} : BufferMap'[j] = BufferMap[j],
           \A b \in Buffers \ FreeList : Home(b) # k => buf'[b] = buf[b],
           NEW g \in Files, NEW y \in Blocks, <<Cache[g], y>> # k, disk'[g][y] = disk[g][y]
    PROVE  View(g, y)' = View(g, y) /\ BufAt(g, y)' = BufAt(g, y)
<1> DEFINE j == <<Cache[g], y>>
<1>1. CASE Cache[g] = 0
  BY <1>1 DEF View, BufAt
<1>2. CASE Cache[g] # 0
  <2>1. j \in Keys \ {k}
    BY <1>2 DEF TypeInv, TypeOK, Keys, FileBufs
  <2>2. BufAt(g, y) = BufferMap[j] /\ BufAt(g, y)' = BufferMap[j]
    BY <1>2, <2>1 DEF BufAt
  <2>3. CASE BufferMap[j] = NoBuf
    BY <1>2, <2>1, <2>2, <2>3 DEF View
  <2>4. CASE BufferMap[j] # NoBuf
    <3>1. buf'[BufferMap[j]] = buf[BufferMap[j]]
      BY <2>1, <2>2, <2>4, BufAtHome
    <3> QED BY <1>2, <2>1, <2>2, <2>4, <3>1 DEF View
  <2> QED BY <2>3, <2>4
<1> QED BY <1>1, <1>2

\* The cells of a buffer made from an op.
LEMMA OpBufferCells ==
    ASSUME NEW f \in Files \cup {NoFile}, NEW x \in Blocks, NEW o \in OpType, NEW i \in Cells
    PROVE  /\ InRange(OpBuffer(f, x, o), i) <=> i \in OpCells(o)
           /\ i \in OpCells(o) => OpBuffer(f, x, o).data[i] = o.ver
<1> DEFINE s == Skip(ReSet(f, x), o.RwOffset)
           m == MergeData(s, o.RwSize, o.ver)
<1>1. s.Offset = o.RwOffset /\ s.Len = 0 /\ o.RwOffset \in Nat /\ o.RwSize \in Nat
  BY BufferAssumption DEF Skip, ReSet, OpType, Cells
<1>2. s.data = Blank /\ DOMAIN s = {"fe", "BlkIdx", "Offset", "Len", "data"}
  BY DEF Skip, ReSet
<1>3. OpBuffer(f, x, o) = m
  BY DEF OpBuffer
<1> HIDE DEF s
<1>4. /\ m.Offset = o.RwOffset /\ m.Len = o.RwSize
      /\ m.data = [j \in Cells |-> IF o.RwOffset <= j /\ j < o.RwOffset + o.RwSize
                                   THEN o.ver ELSE s.data[j]]
  BY <1>1, <1>2 DEF MergeData
<1> HIDE DEF m
<1> QED BY <1>3, <1>4 DEF InRange, OpCells

\* The cells of a buffer after a merge.
LEMMA MergeCells ==
    ASSUME NEW b \in BufferType, NEW size \in Nat, NEW v \in Nat, NEW i \in Cells
    PROVE  LET m    == MergeData(b, size, v)
               tail == b.Offset + b.Len
           IN  /\ InRange(m, i) <=> InRange(b, i) \/ (tail <= i /\ i < tail + size)
               /\ m.data[i] = IF tail <= i /\ i < tail + size THEN v ELSE b.data[i]
<1> DEFINE m == MergeData(b, size, v)
           tail == b.Offset + b.Len
           d == [j \in Cells |-> IF tail <= j /\ j < tail + size THEN v ELSE b.data[j]]
<1>1. m = [b EXCEPT !.Len = @ + size, !.data = d]
  BY DEF MergeData
<1> HIDE DEF m, d
<1>2. m.Offset = b.Offset /\ m.Len = b.Len + size /\ m.data = d
  BY <1>1 DEF BufferType
<1>3. d[i] = IF tail <= i /\ i < tail + size THEN v ELSE b.data[i]
  BY DEF d
<1>4. b.Offset \in Nat /\ b.Len \in Nat /\ i \in Nat
  BY BufferAssumption DEF BufferType, Cells
<1>5. InRange(m, i) <=> InRange(b, i) \/ (tail <= i /\ i < tail + size)
  BY <1>2, <1>4 DEF InRange
<1> QED BY <1>2, <1>3, <1>5 DEF m

\* What Accept does to the content that was accepted.
LEMMA AcceptCells ==
    ASSUME TypeOK, NEW c \in Clients, loc[c].fe \in Files, NEW o \in OpType, Accept(c, o)
    PROVE  /\ \A g \in Files, y \in Blocks : g # loc[c].fe \/ y # loc[c].blk
                  => latest'[g][y] = latest[g][y]
           /\ \A i \in Cells : latest'[loc[c].fe][loc[c].blk][i] =
                  IF i \in OpCells(o) THEN o.ver ELSE latest[loc[c].fe][loc[c].blk][i]
<1> DEFINE f == loc[c].fe
           x == loc[c].blk
           n == Overlay(latest[f][x], OpBuffer(f, x, o))
<1>1. x \in Blocks /\ latest[f] \in [Blocks -> Content]
  BY DEF TypeOK, LocType, Procs, FileContent
<1>2. latest' = [latest EXCEPT ![f] = [latest[f] EXCEPT ![x] = n]]
  BY DEF Accept
<1>3. \A i \in Cells : n[i] = IF i \in OpCells(o) THEN o.ver ELSE latest[f][x][i]
  <2> SUFFICES ASSUME NEW i \in Cells
               PROVE  n[i] = IF i \in OpCells(o) THEN o.ver ELSE latest[f][x][i]
    OBVIOUS
  <2>1. n[i] = IF InRange(OpBuffer(f, x, o), i) THEN OpBuffer(f, x, o).data[i] ELSE latest[f][x][i]
    BY DEF Overlay
  <2> QED BY <1>1, <2>1, OpBufferCells
<1> HIDE DEF n, f, x
<1>4. latest'[f][x] = n /\ \A g \in Files, y \in Blocks : g # f \/ y # x => latest'[g][y] = latest[g][y]
  BY <1>1, <1>2 DEF TypeOK, f, FileContent
<1> QED BY <1>3, <1>4 DEF f, x

-----------------------------------------------------------------------------
(* Kinds of steps *)

\* Nothing that concerns the data of a block changes.
Same(g, y) == /\ disk'[g][y] = disk[g][y] /\ latest'[g][y] = latest[g][y]
              /\ View(g, y)' = View(g, y)

Elsewhere(f, x) ==
    \A g \in Files, y \in Blocks : ~gone[g] /\ (g # f \/ y # x) => Same(g, y)

\* Content new is content old with version v in the cells S.
Updated(new, old, S, v) == \A i \in Cells : new[i] = IF i \in S THEN v ELSE old[i]

\* A write of the cells S takes effect, on the server or in a buffer.
Takes(f, x, S, v) ==
    /\ v <= ver' /\ \A i \in Cells : View(f, x)[i] < v
    /\ Updated(View(f, x)', View(f, x), S, v)
    /\ disk'[f][x] = disk[f][x] \/ Updated(disk'[f][x], disk[f][x], S, v)
    /\ latest'[f][x] = latest[f][x] \/ Updated(latest'[f][x], latest[f][x], S, v)

\* A write that took effect on the server is accepted.
Acks(f, x, S) ==
    /\ View(f, x)' = View(f, x) /\ disk'[f][x] = disk[f][x]
    /\ \A i \in Cells : latest'[f][x][i] = IF i \in S THEN View(f, x)[i] ELSE latest[f][x][i]

\* The server gets what the readers see.
Stores(f, x) ==
    /\ View(f, x)' = View(f, x) /\ latest'[f][x] = latest[f][x]
    /\ \A i \in Cells : disk'[f][x][i] = View(f, x)[i]

Change(f, x) ==
    \/ Stores(f, x)
    \/ \E S \in SUBSET Cells : Acks(f, x, S) \/ \E v \in Nat : Takes(f, x, S, v)

Still == \A g \in Files, y \in Blocks : ~gone[g] => Same(g, y)

\* The files that are gone are left alone, and one block of the others changes.
Forward == gone' = gone /\ ver <= ver' /\ \A g \in Files : gone[g] => disk'[g] = disk[g]

DataStep ==
    /\ Forward
    /\ Still \/ \E f \in Files, x \in Blocks : ~gone[f] /\ Elsewhere(f, x) /\ Change(f, x)

\* The server and what was accepted only move on.
Grows ==
    \A f \in Files, x \in Blocks, i \in Cells : ~gone[f] =>
        disk[f][x][i] <= disk'[f][x][i] /\ latest[f][x][i] <= latest'[f][x][i]

LEMMA DataStepGrows ==
    ASSUME TypeOK, TypeOK', BlockInv, DataStep
    PROVE  BlockInv' /\ Grows
<1> DEFINE OK(f, x) ==
        \A i \in Cells : /\ disk[f][x][i] <= disk'[f][x][i]
                         /\ latest[f][x][i] <= latest'[f][x][i]
                         /\ disk'[f][x][i] <= View(f, x)'[i]
                         /\ latest'[f][x][i] <= View(f, x)'[i]
                         /\ View(f, x)'[i] <= ver'
<1>1. gone' = gone /\ ver <= ver' /\ ver \in Nat /\ ver' \in Nat
  BY DEF DataStep, Forward, TypeOK
<1>2. ASSUME NEW f \in Files, NEW x \in Blocks
      PROVE  \A i \in Cells : /\ disk[f][x][i] \in Nat /\ disk'[f][x][i] \in Nat
                              /\ latest[f][x][i] \in Nat /\ latest'[f][x][i] \in Nat
                              /\ View(f, x)[i] \in Nat /\ View(f, x)'[i] \in Nat
  BY ViewCells, ViewCellsNext DEF Content
<1>3. ASSUME NEW f \in Files, NEW x \in Blocks, ~gone[f]
      PROVE  \A i \in Cells : /\ disk[f][x][i] <= View(f, x)[i]
                              /\ latest[f][x][i] <= View(f, x)[i]
                              /\ View(f, x)[i] <= ver
  BY <1>3 DEF BlockInv
<1>4. ASSUME NEW f \in Files, NEW x \in Blocks, ~gone[f], Same(f, x) PROVE OK(f, x)
  BY <1>1, <1>2, <1>3, <1>4 DEF Same
<1>5. ASSUME NEW f \in Files, NEW x \in Blocks, ~gone[f], Change(f, x) PROVE OK(f, x)
  <2>1. CASE Stores(f, x)
    BY <1>1, <1>2, <1>3, <1>5, <2>1 DEF Stores
  <2>2. ASSUME NEW S \in SUBSET Cells, Acks(f, x, S) PROVE OK(f, x)
    BY <1>1, <1>2, <1>3, <1>5, <2>2 DEF Acks
  <2>3. ASSUME NEW S \in SUBSET Cells, NEW v \in Nat, Takes(f, x, S, v) PROVE OK(f, x)
    BY <1>1, <1>2, <1>3, <1>5, <2>3 DEF Takes, Updated
  <2> QED BY <1>5, <2>1, <2>2, <2>3 DEF Change
<1>6. ASSUME NEW f \in Files, NEW x \in Blocks, ~gone[f] PROVE OK(f, x)
  BY <1>4, <1>5, <1>6 DEF DataStep, Still, Elsewhere
<1> HIDE DEF OK
<1>7. BlockInv'
  BY <1>1, <1>6 DEF BlockInv, OK
<1> QED BY <1>6, <1>7 DEF Grows, OK

\* A step that touches the block under key k only.
Touches(k) ==
    /\ Cache' = Cache
    /\ \A j \in Keys \ {k} : BufferMap'[j] = BufferMap[j]
    /\ \A b \in Buffers \ FreeList : Home(b) # k => buf'[b] = buf[b]
    /\ \A g \in Files, y \in Blocks : <<Cache[g], y>> # k =>
          disk'[g][y] = disk[g][y] /\ latest'[g][y] = latest[g][y]

\* The key has no second owner than process p.
Owns(p, k) == LockMap[k] = Free \/ (pc[p] \in Holding /\ Key(p) = k)

LEMMA TouchesSame ==
    ASSUME PlaceInv, NEW k \in Keys, Touches(k), NEW g \in Files, NEW y \in Blocks,
           <<Cache[g], y>> # k
    PROVE  Same(g, y)
BY OtherBlocks DEF PlaceInv, Touches, Same

\* The block under a key.
LEMMA TouchesBlock ==
    ASSUME PlaceInv, NEW f \in Files, NEW x \in Blocks, Cache[f] # 0, Touches(<<Cache[f], x>>)
    PROVE  /\ \A g \in Files, y \in Blocks : (g # f \/ y # x) => Same(g, y)
           /\ Elsewhere(f, x)
<1>1. <<Cache[f], x>> \in Keys
  BY DEF PlaceInv, TypeInv, TypeOK, Keys, FileBufs
<1>2. \A g \in Files, y \in Blocks : (g # f \/ y # x) => <<Cache[g], y>> # <<Cache[f], x>>
  BY DEF PlaceInv, SafeInv, TableInv
<1> QED BY <1>1, <1>2, TouchesSame DEF Elsewhere

\* What a holder of a lock relies on stays.
Untouched(q) ==
    /\ BufferMap'[Key(q)] = BufferMap[Key(q)]
    /\ pc[q] \in Working => buf'[loc[q].cur] = buf[loc[q].cur]
    /\ \A g \in Files, y \in Blocks :
          ~gone[g] /\ Cache[g] = loc[q].fb /\ y = loc[q].blk => Same(g, y)

\* Labels that say something about the data.
LEMMA DataLabels ==
    /\ Drawn \subseteq Writes /\ Drawn \subseteq Holding /\ "wdirectR" \in Writes
    /\ Answered \subseteq Working /\ Working \subseteq Holding
    /\ Bare \subseteq Holding /\ Holding \subseteq Located
    /\ {"idle", "closed", "wlock", "flock", "elookup", "flushing", "fsync", "synced", "wfull",
        "wsend", "fflush", "sync"}
         \cap (Drawn \cup Answered \cup Bare) = {}
BY DEF Drawn, Writes, Answered, Bare, Working, Holding, Located

\* Nothing is asked of a process at the other labels.
LEMMA HoldNothing ==
    ASSUME NEW p \in Procs, pc[p] \notin Drawn \cup Answered \cup Bare
    PROVE  HoldOK(p)
BY DEF HoldOK, OpOK, DirectOK, Bare, AnswerOK

LEMMA HoldNothingNext ==
    ASSUME NEW p \in Procs, pc'[p] \notin Drawn \cup Answered \cup Bare
    PROVE  HoldOK(p)'
BY DEF HoldOK, OpOK, DirectOK, Bare, AnswerOK

\* The other holders keep what they know.
LEMMA HoldersKept ==
    ASSUME PlaceInv, HoldInv, NEW p \in Procs, Alone(p), Forward, ver \in Nat, ver' \in Nat,
           \A c \in Clients \ {p} : op'[c] = op[c],
           \A q \in Procs \ {p} : pc[q] \in Holding => Untouched(q),
           HoldOK(p)'
    PROVE  HoldInv'
<1> SUFFICES ASSUME NEW q \in Procs \ {p} PROVE HoldOK(q)'
  BY DEF HoldInv
<1>1. pc'[q] = pc[q] /\ loc'[q] = loc[q] /\ HoldOK(q) /\ Key(q)' = Key(q)
  BY DEF Alone, HoldInv, Key
<1>2. CASE pc[q] \notin Holding
  BY <1>1, <1>2, HoldNothingNext, DataLabels
<1>3. CASE pc[q] \in Holding
  <2>1. Untouched(q) /\ loc[q].blk \in Blocks /\ gone' = gone /\ ver <= ver'
    BY <1>3 DEF PlaceInv, TypeInv, TypeOK, LocType, Forward
  <2>2. DirectOK(q)'
    BY <1>1, <2>1 DEF HoldOK, DirectOK, Untouched
  <2>3. ASSUME q \in Clients PROVE OpOK(q)'
    <3> SUFFICES ASSUME ~gone[loc[q].fe], pc[q] \in Drawn \cup {"wdirectR"} PROVE OpOK(q)'
      BY <1>1, <2>1 DEF OpOK
    <3>1. loc[q].fe \in Files /\ Cache[loc[q].fe] = loc[q].fb /\ op'[q] = op[q] /\ op[q].ver \in Nat
      BY <1>3, <2>3, DataLabels
      DEF PlaceInv, TypeInv, TypeOK, BufferInv, LocalOK, SafeInv, ClientInv, Holding, OpType
    <3>2. PICK g \in Files, y \in Blocks : g = loc[q].fe /\ y = loc[q].blk
      BY <2>1, <3>1
    <3>3. View(g, y)' = View(g, y)
      BY <2>1, <3>1, <3>2 DEF Untouched, Same
    <3>4. View(loc[q].fe, loc[q].blk) = View(g, y) /\ View(loc[q].fe, loc[q].blk)' = View(g, y)'
      BY <1>1, <3>2
    <3> QED BY <1>1, <2>1, <2>3, <3>1, <3>3, <3>4 DEF HoldOK, OpOK
  <2>4. AnswerOK(q)'
    <3> SUFFICES ASSUME pc[q] \in Answered PROVE AnswerOK(q)'
      BY <1>1 DEF AnswerOK
    <3>1. Home(loc[q].cur) = Key(q) /\ loc[q].cur \in Named
      BY HolderFacts, DataLabels DEF PlaceInv, SafeInv, CoreInv, TypeInv, BufferInv, LocalOK
    <3>2. PICK g \in Files, y \in Blocks : g = buf[loc[q].cur].fe /\ y = loc[q].blk
      BY <2>1, <3>1 DEF Named
    <3>3. buf'[loc'[q].cur].fe = g /\ loc'[q].blk = y
      BY <1>1, <2>1, <3>2, DataLabels DEF Untouched
    <3>4. ~gone[g] => Same(g, y)
      BY <2>1, <3>1, <3>2 DEF Untouched, Home, Key
    <3>5. ~gone[g] => View(g, y)' = View(g, y) /\ disk'[g][y] = disk[g][y]
      BY <3>4 DEF Same
    <3>6. View(buf[loc[q].cur].fe, loc[q].blk) = View(g, y)
          /\ View(buf[loc[q].cur].fe, loc[q].blk)' = View(g, y)'
      BY <3>2, <3>3
    <3> QED BY <1>1, <2>1, <3>2, <3>3, <3>5, <3>6 DEF HoldOK, AnswerOK
  <2> QED BY <2>2, <2>3, <2>4 DEF HoldOK
<1> QED BY <1>2, <1>3

\* A step that touches one block leaves the other holders alone.
LEMMA OthersUntouched ==
    ASSUME PlaceInv, NEW p \in Procs, NEW k \in Keys, Owns(p, k), Touches(k),
           NEW q \in Procs \ {p}, pc[q] \in Holding
    PROVE  Untouched(q)
<1>1. Key(q) \in Keys /\ Key(q) # k
  <2>1. Key(q) \in Keys /\ LockMap[Key(q)] = WriteLock
    BY HolderFacts, DataLabels DEF PlaceInv, SafeInv, CoreInv
  <2>2. Free # WriteLock
    BY DEF Free, WriteLock
  <2> QED BY <2>1, <2>2 DEF Owns, PlaceInv, SafeInv, LockInv
<1>2. pc[q] \in Working => buf'[loc[q].cur] = buf[loc[q].cur]
  BY <1>1, HolderFacts DEF PlaceInv, SafeInv, CoreInv, Touches
<1>4. ASSUME NEW g \in Files, NEW y \in Blocks, Cache[g] = loc[q].fb, y = loc[q].blk
      PROVE  Same(g, y)
  <2>1. <<Cache[g], y>> # k
    BY <1>1, <1>4 DEF Key
  <2> QED BY <2>1, TouchesSame
<1> QED BY <1>1, <1>2, <1>4 DEF Untouched, Touches

\* A step that leaves all blocks as they are.
Idle == UNCHANGED <<Cache, BufferMap, buf, disk, gone, latest>> /\ ver <= ver'

LEMMA IdleStill ==
    ASSUME PlaceInv, Idle
    PROVE  Still /\ Forward /\ \A q \in Procs : Untouched(q)
<1>1. \A g \in Files, y \in Blocks : Same(g, y)
  BY DEF Idle, Same, View
<1> QED BY <1>1 DEF Idle, Still, Forward, Untouched

\* A process that knows nothing of the data afterwards and leaves it as it is.
LEMMA IdleStep ==
    ASSUME PlaceInv, PlaceInv', HoldInv, NEW p \in Procs, Alone(p), Idle,
           \A c \in Clients \ {p} : op'[c] = op[c],
           \/ HoldOK(p)'
           \/ pc'[p] \notin Drawn \cup Answered \cup Bare
    PROVE  DataStep /\ Still /\ HoldInv'
<1>1. HoldOK(p)'
  BY HoldNothingNext
<1>2. Still /\ Forward /\ \A q \in Procs : Untouched(q)
  BY IdleStill
<1>3. ver \in Nat /\ ver' \in Nat
  BY DEF PlaceInv, TypeInv, TypeOK
<1>4. HoldInv'
  BY <1>1, <1>2, <1>3, HoldersKept
<1> QED BY <1>2, <1>4 DEF DataStep

\* A step that touches the block its process has to itself.
LEMMA TouchStep ==
    ASSUME PlaceInv, PlaceInv', HoldInv, NEW p \in Procs, Alone(p), Forward,
           NEW k \in Keys, Owns(p, k), Touches(k),
           \A c \in Clients \ {p} : op'[c] = op[c],
           \/ HoldOK(p)'
           \/ pc'[p] \notin Drawn \cup Answered \cup Bare
    PROVE  HoldInv'
<1>1. HoldOK(p)'
  BY HoldNothingNext
<1>2. \A q \in Procs \ {p} : pc[q] \in Holding => Untouched(q)
  BY OthersUntouched
<1>3. ver \in Nat /\ ver' \in Nat
  BY DEF PlaceInv, TypeInv, TypeOK
<1> QED BY <1>1, <1>2, <1>3, HoldersKept

\* A buffer whose data is on the server, or whose file is gone, may be dropped.
LEMMA DetachStill ==
    ASSUME PlaceInv, HoldInv, NEW p \in Procs, pc[p] \in Answered,
           loc[p].res \in {"ok", "enoent"},
           BufferMap' = [BufferMap EXCEPT ![Key(p)] = NoBuf],
           UNCHANGED <<Cache, buf, disk, gone, latest, ver>>
    PROVE  Key(p) \in Keys /\ Owns(p, Key(p)) /\ Touches(Key(p)) /\ Still /\ Forward
<1>1. /\ Key(p) \in Keys /\ BufferMap[Key(p)] = loc[p].cur /\ loc[p].cur \in Named
      /\ Home(loc[p].cur) = Key(p) /\ pc[p] \in Holding
  BY HolderFacts, DataLabels DEF PlaceInv, SafeInv, CoreInv, TypeInv, BufferInv, LocalOK
<1>2. Owns(p, Key(p)) /\ Touches(Key(p))
  BY <1>1 DEF Owns, Touches, PlaceInv, TypeInv, TypeOK
<1>3. ver \in Nat
  BY DEF PlaceInv, TypeInv, TypeOK
<1>4. Forward
  BY <1>3 DEF Forward
<1>5. PICK f \in Files, x \in Blocks : f = buf[loc[p].cur].fe /\ x = loc[p].blk
  BY <1>1 DEF Named, PlaceInv, TypeInv, TypeOK, LocType
<1>6. Key(p) = <<Cache[f], x>> /\ Cache[f] # 0
  BY <1>1, <1>5 DEF Home, Key, Keys, FileBufs
<1>7. Elsewhere(f, x)
  BY <1>2, <1>6, TouchesBlock
<1>8. ASSUME ~gone[f] PROVE Same(f, x)
  <2>1. \A i \in Cells : disk[f][x][i] = View(f, x)[i]
    BY <1>5, <1>8 DEF HoldInv, HoldOK, AnswerOK
  <2>2. View(f, x) \in Content /\ disk[f][x] \in Content
    BY ViewCells DEF PlaceInv, TypeInv
  <2>3. View(f, x)' = disk[f][x]
    BY <1>1, <1>6 DEF View, PlaceInv, TypeInv, TypeOK
  <2>4. View(f, x) = disk[f][x]
    BY <2>1, <2>2 DEF Content
  <2> QED BY <2>3, <2>4 DEF Same
<1> QED BY <1>1, <1>2, <1>4, <1>7, <1>8 DEF Still, Elsewhere

-----------------------------------------------------------------------------
(* The steps of a Write *)

\* What a client at the lock, or with the lock, is about.
LEMMA WriterFacts ==
    ASSUME PlaceInv, NEW c \in Clients, pc[c] \in Writes
    PROVE  /\ c \in Procs /\ loc[c].fe \in Files /\ loc[c].blk \in Blocks
           /\ Key(c) \in Keys /\ Key(c) = <<Cache[loc[c].fe], loc[c].blk>> /\ Cache[loc[c].fe] # 0
           /\ op[c] \in OpType /\ ver \in Nat
<1>1. c \in Procs /\ pc[c] \in Located /\ pc[c] # "closed"
  BY DEF Procs, Writes, Located, Holding
<1> QED BY <1>1 DEF PlaceInv, TypeInv, TypeOK, BufferInv, LocalOK, SafeInv, ClientInv, Key, Keys, FileBufs,
   LocType

\* The version is drawn, and the data waits for the buffer or for the request.
LEMMA WriteLockData ==
    ASSUME PlaceInv, PlaceInv', DataInv, NEW c \in Clients, WriteDirect(c) \/ WriteNoMerge(c)
    PROVE  DataStep /\ HoldInv'
<1>1. pc[c] = "wlock" /\ pc[c] \in Writes
  BY DEF WriteDirect, WriteNoMerge, AtWriteLock, Writes
<1>2. /\ c \in Procs /\ loc[c].fe \in Files /\ loc[c].blk \in Blocks /\ Key(c) \in Keys
      /\ op[c] \in OpType /\ ver \in Nat
  BY <1>1, WriterFacts
<1>3. /\ ver' = ver + 1 /\ op' = [op EXCEPT ![c] = Versioned(c)]
      /\ UNCHANGED <<Cache, BufferMap, buf, disk, gone, latest>>
      /\ \/ loc' = loc /\ pc' = [pc EXCEPT ![c] = "wdirect"] /\ BufferMap[Key(c)] = NoBuf
         \/ /\ loc' = [loc EXCEPT ![c].cur = BufferMap[Key(c)]]
            /\ pc' = [pc EXCEPT ![c] = "wflush"]
  BY DEF WriteDirect, WriteNoMerge, AtWriteLock, Goto, poolVars, diskVars
<1>4. /\ Alone(c) /\ Idle /\ \A d \in Clients \ {c} : op'[d] = op[d]
      /\ loc'[c].fe = loc[c].fe /\ loc'[c].blk = loc[c].blk /\ loc'[c].fb = loc[c].fb
      /\ op'[c].ver = ver + 1
      /\ (pc'[c] = "wdirect" /\ BufferMap'[Key(c)] = NoBuf) \/ pc'[c] = "wflush"
  BY <1>2, <1>3 DEF Alone, Idle, PlaceInv, TypeInv, TypeOK, LocType, Versioned, OpType
<1>5. OpOK(c)'
  <2> SUFFICES ASSUME ~gone[loc[c].fe], NEW i \in Cells
               PROVE  View(loc[c].fe, loc[c].blk)'[i] < ver + 1
    BY <1>2, <1>3, <1>4 DEF OpOK
  <2>1. PICK f \in Files, x \in Blocks : f = loc[c].fe /\ x = loc[c].blk
    BY <1>2
  <2>2. View(f, x)' = View(f, x)
    BY <1>3 DEF View
  <2>3. View(f, x)[i] <= ver /\ View(f, x)[i] \in Nat
    BY <2>1, ViewCells DEF DataInv, BlockInv, Content, PlaceInv, TypeInv
  <2>4. View(loc[c].fe, loc[c].blk)' = View(f, x)'
    BY <1>4, <2>1
  <2> QED BY <1>2, <2>2, <2>3, <2>4
<1>6. HoldOK(c)'
  <2>1. Key(c)' = Key(c)
    BY <1>4 DEF Key
  <2> QED BY <1>4, <1>5, <2>1 DEF HoldOK, DirectOK, Bare, AnswerOK, Answered
<1> QED BY <1>2, <1>4, <1>6, IdleStep DEF DataInv

\* A buffer takes the op of a client: what the three steps that do have in common.
LEMMA AcceptStep ==
    ASSUME PlaceInv, PlaceInv', HoldInv, NEW c \in Clients, pc[c] \in Writes, Alone(c),
           NEW f \in Files, NEW x \in Blocks, f = loc[c].fe, x = loc[c].blk,
           NEW o \in OpType, Accept(c, o), o.ver <= ver', ver <= ver',
           UNCHANGED <<Cache, disk, gone>>, Owns(c, Key(c)),
           \A j \in Keys \ {Key(c)} : BufferMap'[j] = BufferMap[j],
           \A b \in Buffers \ FreeList : Home(b) # Key(c) => buf'[b] = buf[b],
           \A d \in Clients \ {c} : op'[d] = op[d],
           pc'[c] \notin Drawn \cup Answered \cup Bare,
           ~gone[f] => /\ \A i \in Cells : View(f, x)[i] < o.ver
                       /\ Updated(View(f, x)', View(f, x), OpCells(o), o.ver)
    PROVE  DataStep /\ HoldInv'
<1> DEFINE k == Key(c)
<1>1. c \in Procs /\ k \in Keys /\ k = <<Cache[f], x>> /\ Cache[f] # 0 /\ o.ver \in Nat
  BY WriterFacts DEF OpType
<1>2. /\ \A g \in Files, y \in Blocks : g # f \/ y # x => latest'[g][y] = latest[g][y]
      /\ Updated(latest'[f][x], latest[f][x], OpCells(o), o.ver)
  BY AcceptCells DEF PlaceInv, TypeInv, Updated
<1>3. Touches(k) /\ Forward
  BY <1>1, <1>2 DEF Touches, Forward
<1>4. HoldInv'
  BY <1>1, <1>3, TouchStep
<1>5. Elsewhere(f, x)
  BY <1>1, <1>3, TouchesBlock
<1>6. ASSUME ~gone[f] PROVE Change(f, x)
  <2>1. Takes(f, x, OpCells(o), o.ver)
    BY <1>2, <1>6 DEF Takes
  <2>2. OpCells(o) \in SUBSET Cells
    BY DEF OpCells
  <2> QED BY <1>1, <2>1, <2>2 DEF Change
<1>7. gone[f] => Still
  BY <1>5 DEF Still, Elsewhere
<1> QED BY <1>3, <1>4, <1>5, <1>6, <1>7 DEF DataStep

\* A fresh buffer takes the op.
LEMMA WriteAllocData ==
    ASSUME PlaceInv, PlaceInv', DataInv, NEW c \in Clients, NEW b \in Buffers, WriteAlloc(c, b)
    PROVE  DataStep /\ HoldInv'
<1> DEFINE k == Key(c)
           o == Versioned(c)
<1>1. /\ pc[c] = "wlock" /\ pc[c] \in Writes /\ LockMap[k] = Free /\ ver' = ver + 1
      /\ BufferMap[k] = NoBuf /\ BufferMap' = [BufferMap EXCEPT ![k] = b] /\ b \in FreeList
      /\ buf' = [buf EXCEPT ![b] = OpBuffer(loc[c].fe, loc[c].blk, o)]
      /\ Accept(c, o) /\ UNCHANGED <<Cache, disk, gone>>
  BY DEF WriteAlloc, AtWriteLock, AllocBuffer, AttachBuffer, Writes, diskVars
<1>2. /\ c \in Procs /\ loc[c].fe \in Files /\ loc[c].blk \in Blocks /\ ver \in Nat
      /\ k \in Keys /\ k = <<Cache[loc[c].fe], loc[c].blk>> /\ Cache[loc[c].fe] # 0
  BY <1>1, WriterFacts
<1>3. PICK f \in Files, x \in Blocks : f = loc[c].fe /\ x = loc[c].blk
  BY <1>2
<1>4. o \in OpType /\ o.ver = ver + 1
  BY VersionedType DEF PlaceInv, TypeInv, TypeOK, Versioned, OpType
<1>5. /\ Alone(c) /\ pc'[c] \in {"idle", "wsend"} /\ \A d \in Clients \ {c} : op'[d] = op[d]
  <2>1. CASE Return(c)
    BY <2>1, ReturnFacts DEF Return, PlaceInv, TypeInv, TypeOK
  <2>2. CASE loc' = [loc EXCEPT ![c].cur = b] /\ Goto(c, "wsend") /\ op' = op
    BY <1>2, <2>2 DEF Goto, Alone, PlaceInv, TypeInv, TypeOK
  <2> QED BY <2>1, <2>2 DEF WriteAlloc
<1> HIDE DEF k, o
<1>6. /\ Owns(c, k) /\ BufferMap'[k] = b /\ buf'[b] = OpBuffer(f, x, o)
      /\ \A j \in Keys \ {k} : BufferMap'[j] = BufferMap[j]
      /\ \A d \in Buffers \ FreeList : buf'[d] = buf[d]
  BY <1>1, <1>2, <1>3 DEF Owns, PlaceInv, TypeInv, TypeOK
<1>7. BufAt(f, x) = NoBuf /\ BufAt(f, x)' = b /\ b # NoBuf
  BY <1>1, <1>2, <1>3, <1>6, WCacheAssumption DEF BufAt
<1>8. ASSUME ~gone[f], NEW i \in Cells
      PROVE  /\ View(f, x)[i] < o.ver
             /\ View(f, x)'[i] = IF i \in OpCells(o) THEN o.ver ELSE View(f, x)[i]
  <2>1. View(f, x)[i] <= ver /\ View(f, x)[i] \in Nat
    BY <1>8, ViewCells DEF DataInv, BlockInv, Content, PlaceInv, TypeInv
  <2>2. View(f, x)[i] = disk[f][x][i]
    BY <1>7, ViewCells DEF PlaceInv, TypeInv
  <2>3. View(f, x)'[i] = IF InRange(OpBuffer(f, x, o), i) THEN OpBuffer(f, x, o).data[i]
                                                          ELSE disk[f][x][i]
    BY <1>1, <1>6, <1>7, ViewCellsNext DEF PlaceInv, TypeInv
  <2>4. View(f, x)'[i] = IF i \in OpCells(o) THEN o.ver ELSE disk[f][x][i]
    BY <1>4, <2>3, OpBufferCells
  <2> QED BY <1>2, <1>4, <2>1, <2>2, <2>4
<1>9. pc'[c] \notin Drawn \cup Answered \cup Bare
  BY <1>5, DataLabels
<1>10. ~gone[f] => /\ \A i \in Cells : View(f, x)[i] < o.ver
                   /\ Updated(View(f, x)', View(f, x), OpCells(o), o.ver)
  BY <1>8 DEF Updated
<1>11. o.ver <= ver' /\ ver <= ver'
  BY <1>1, <1>2, <1>4
<1> QED BY <1>1, <1>3, <1>4, <1>5, <1>6, <1>9, <1>10, <1>11, AcceptStep DEF DataInv, k

\* The buffer of the block takes the op behind its data.
LEMMA WriteMergeData ==
    ASSUME PlaceInv, PlaceInv', DataInv, NEW c \in Clients, WriteMerge(c)
    PROVE  DataStep /\ HoldInv'
<1> DEFINE k == Key(c)
           o == Versioned(c)
           b == BufferMap[k]
           m == MergeData(buf[b], op[c].RwSize, ver + 1)
<1>1. /\ pc[c] = "wlock" /\ pc[c] \in Writes /\ LockMap[k] = Free /\ ver' = ver + 1
      /\ b # NoBuf /\ BufferMap' = BufferMap /\ buf' = [buf EXCEPT ![b] = m]
      /\ buf[b].Offset + buf[b].Len = op[c].RwOffset
      /\ Accept(c, o) /\ UNCHANGED <<Cache, disk, gone>>
  BY DEF WriteMerge, AtWriteLock, CanMerge, Writes, diskVars
<1>2. /\ c \in Procs /\ loc[c].fe \in Files /\ loc[c].blk \in Blocks /\ ver \in Nat
      /\ k \in Keys /\ k = <<Cache[loc[c].fe], loc[c].blk>> /\ Cache[loc[c].fe] # 0
      /\ op[c] \in OpType
  BY <1>1, WriterFacts
<1>3. PICK f \in Files, x \in Blocks : f = loc[c].fe /\ x = loc[c].blk
  BY <1>2
<1>4. o \in OpType /\ o.ver = ver + 1 /\ o.RwOffset = op[c].RwOffset /\ o.RwSize = op[c].RwSize
  BY VersionedType DEF PlaceInv, TypeInv, TypeOK, Versioned, OpType
<1>5. /\ Alone(c) /\ pc'[c] \in {"idle", "wsend", "wfull"} /\ \A d \in Clients \ {c} : op'[d] = op[d]
  <2>1. CASE Return(c)
    BY <2>1, ReturnFacts DEF Return, PlaceInv, TypeInv, TypeOK
  <2>2. CASE /\ loc' = [loc EXCEPT ![c].cur = b] /\ op' = op
             /\ Goto(c, IF SyncIo THEN "wfull" ELSE "wsend")
    BY <1>2, <2>2 DEF Goto, Alone, PlaceInv, TypeInv, TypeOK
  <2> QED BY <2>1, <2>2 DEF WriteMerge
<1>6. b \in Buffers /\ Home(b) = k /\ buf[b] \in BufferType /\ op[c].RwSize \in Nat
  BY <1>1, <1>2 DEF PlaceInv, TypeInv, TypeOK, SafeInv, AttachInv, OpType
<1>b. b = BufferMap[k]
  OBVIOUS
<1>m. ASSUME NEW i \in Cells
      PROVE  /\ InRange(m, i) <=> InRange(buf[b], i) \/ i \in OpCells(o)
             /\ m.data[i] = IF i \in OpCells(o) THEN o.ver ELSE buf[b].data[i]
  <2> HIDE DEF b, o
  <2>1. i \in OpCells(o) <=> buf[b].Offset + buf[b].Len <= i
                             /\ i < buf[b].Offset + buf[b].Len + op[c].RwSize
    BY <1>1, <1>4 DEF OpCells
  <2>2. ver + 1 \in Nat
    BY <1>2
  <2> QED BY <1>4, <1>6, <2>1, <2>2, MergeCells
<1> HIDE DEF k, o, b, m
<1>7. /\ Owns(c, k) /\ BufferMap'[k] = b /\ buf'[b] = m
      /\ \A j \in Keys \ {k} : BufferMap'[j] = BufferMap[j]
      /\ \A d \in Buffers \ FreeList : Home(d) # k => buf'[d] = buf[d]
  BY <1>1, <1>6, <1>b DEF Owns, PlaceInv, TypeInv, TypeOK
<1>8. BufAt(f, x) = b /\ BufAt(f, x)' = b /\ b # NoBuf
  BY <1>1, <1>2, <1>3, <1>b DEF BufAt
<1>9. ASSUME ~gone[f], NEW i \in Cells
      PROVE  /\ View(f, x)[i] < o.ver
             /\ View(f, x)'[i] = IF i \in OpCells(o) THEN o.ver ELSE View(f, x)[i]
  <2>1. View(f, x)[i] <= ver /\ View(f, x)[i] \in Nat
    BY <1>9, ViewCells DEF DataInv, BlockInv, Content, PlaceInv, TypeInv
  <2>2. View(f, x)[i] = IF InRange(buf[b], i) THEN buf[b].data[i] ELSE disk[f][x][i]
    BY <1>8, ViewCells DEF PlaceInv, TypeInv
  <2>3. View(f, x)'[i] = IF InRange(m, i) THEN m.data[i] ELSE disk[f][x][i]
    BY <1>1, <1>7, <1>8, ViewCellsNext DEF PlaceInv, TypeInv
  <2> QED BY <1>2, <1>4, <1>m, <2>1, <2>2, <2>3
<1>10. pc'[c] \notin Drawn \cup Answered \cup Bare
  BY <1>5, DataLabels
<1>11. ~gone[f] => /\ \A i \in Cells : View(f, x)[i] < o.ver
                   /\ Updated(View(f, x)', View(f, x), OpCells(o), o.ver)
  BY <1>9 DEF Updated
<1>12. o.ver <= ver' /\ ver <= ver'
  BY <1>1, <1>2, <1>4
<1> QED BY <1>1, <1>3, <1>4, <1>5, <1>7, <1>10, <1>11, <1>12, AcceptStep DEF DataInv, k

\* The buffer that went out takes the op instead.
LEMMA WriteFlushReuseData ==
    ASSUME PlaceInv, PlaceInv', DataInv, NEW c \in Clients, WriteFlushReuse(c)
    PROVE  DataStep /\ HoldInv'
<1> DEFINE k == Key(c)
           b == loc[c].cur
<1>1. /\ pc[c] = "wflushR" /\ pc[c] \in Writes /\ pc[c] \in Answered /\ pc[c] \in Drawn
      /\ loc[c].res = "ok" /\ BufferMap' = BufferMap /\ ver' = ver
      /\ buf' = [buf EXCEPT ![b] = OpBuffer(loc[c].fe, loc[c].blk, op[c])]
      /\ Accept(c, op[c]) /\ UNCHANGED <<Cache, disk, gone>> /\ Return(c)
  BY DEF WriteFlushReuse, Writes, Answered, Drawn, diskVars
<1>2. /\ c \in Procs /\ loc[c].fe \in Files /\ loc[c].blk \in Blocks /\ ver \in Nat
      /\ k \in Keys /\ k = <<Cache[loc[c].fe], loc[c].blk>> /\ Cache[loc[c].fe] # 0
      /\ op[c] \in OpType
  BY <1>1, WriterFacts
<1>3. PICK f \in Files, x \in Blocks : f = loc[c].fe /\ x = loc[c].blk
  BY <1>2
<1>4. BufferMap[k] = b /\ b \in Buffers /\ Home(b) = k /\ pc[c] \in Holding /\ b # NoBuf
  BY <1>1, <1>2, HolderFacts, DataLabels, WCacheAssumption DEF PlaceInv, SafeInv, CoreInv
<1>5. buf[b].fe = f
  <2>1. Cache[buf[b].fe] = Cache[f] /\ buf[b].fe \in Files
    BY <1>1, <1>2, <1>3, <1>4, DataLabels
    DEF Home, Key, PlaceInv, TypeInv, BufferInv, LocalOK, Named
  <2> QED BY <1>2, <1>3, <2>1 DEF PlaceInv, SafeInv, TableInv
<1>6. /\ Alone(c) /\ pc'[c] = "idle" /\ \A d \in Clients \ {c} : op'[d] = op[d]
  BY <1>1, ReturnFacts DEF Return, PlaceInv, TypeInv, TypeOK
<1> HIDE DEF k, b
<1>7. /\ Owns(c, k) /\ buf'[b] = OpBuffer(f, x, op[c])
      /\ \A d \in Buffers \ FreeList : Home(d) # k => buf'[d] = buf[d]
  BY <1>1, <1>3, <1>4 DEF Owns, PlaceInv, TypeInv, TypeOK, k
<1>8. BufAt(f, x)' = b
  BY <1>1, <1>2, <1>3, <1>4 DEF BufAt
<1>9. ASSUME ~gone[f], NEW i \in Cells
      PROVE  /\ View(f, x)[i] < op[c].ver /\ op[c].ver <= ver
             /\ View(f, x)'[i] = IF i \in OpCells(op[c]) THEN op[c].ver ELSE View(f, x)[i]
  <2>1. View(f, x)[i] < op[c].ver /\ op[c].ver <= ver
    BY <1>1, <1>2, <1>3, <1>9 DEF DataInv, HoldInv, HoldOK, OpOK
  <2>2. View(f, x)[i] = disk[f][x][i]
    BY <1>1, <1>2, <1>3, <1>5, <1>9 DEF DataInv, HoldInv, HoldOK, AnswerOK, b
  <2>3. View(f, x)'[i] = IF InRange(OpBuffer(f, x, op[c]), i) THEN OpBuffer(f, x, op[c]).data[i]
                                                              ELSE disk[f][x][i]
    BY <1>1, <1>4, <1>7, <1>8, ViewCellsNext DEF PlaceInv, TypeInv
  <2>4. View(f, x)'[i] = IF i \in OpCells(op[c]) THEN op[c].ver ELSE disk[f][x][i]
    BY <1>2, <2>3, OpBufferCells
  <2> QED BY <2>1, <2>2, <2>4
<1>10. pc'[c] \notin Drawn \cup Answered \cup Bare
  BY <1>6, DataLabels
<1>11. ~gone[f] => /\ \A i \in Cells : View(f, x)[i] < op[c].ver
                   /\ Updated(View(f, x)', View(f, x), OpCells(op[c]), op[c].ver)
  BY <1>9 DEF Updated
<1>12. ver <= ver' /\ (~gone[f] => op[c].ver <= ver')
  <2>1. 0 \in Cells
    BY BufferAssumption DEF Cells
  <2> QED BY <1>1, <1>2, <1>9, <2>1
<1>13. CASE ~gone[f]
  BY <1>1, <1>2, <1>3, <1>6, <1>7, <1>10, <1>11, <1>12, <1>13, AcceptStep DEF DataInv, k
<1>14. CASE gone[f]
  <2>1. \A g \in Files, y \in Blocks : g # f \/ y # x => latest'[g][y] = latest[g][y]
    BY <1>1, <1>2, <1>3, AcceptCells DEF PlaceInv, TypeInv
  <2>2. Touches(k) /\ Forward
    BY <1>1, <1>2, <1>3, <1>7, <1>12, <2>1 DEF Touches, Forward
  <2>3. HoldInv'
    BY <1>2, <1>6, <1>7, <1>10, <2>2, TouchStep DEF DataInv
  <2>4. Elsewhere(f, x)
    BY <1>2, <1>3, <2>2, TouchesBlock
  <2> QED BY <1>14, <2>2, <2>3, <2>4 DEF DataStep, Still, Elsewhere
<1> QED BY <1>13, <1>14

\* A direct write that the server confirmed counts as accepted.
LEMMA WriteDirectDoneData ==
    ASSUME PlaceInv, PlaceInv', DataInv, NEW c \in Clients, WriteDirectDone(c)
    PROVE  DataStep /\ HoldInv'
<1> DEFINE k == Key(c)
<1>1. /\ pc[c] = "wdirectR" /\ pc[c] \in Writes /\ pc[c] \in Holding
      /\ UNCHANGED <<Cache, BufferMap, buf, disk, gone, ver>> /\ Return(c)
      /\ IF loc[c].res = "ok" THEN Accept(c, op[c]) ELSE latest' = latest
  BY DEF WriteDirectDone, Writes, Holding, diskVars, poolVars
<1>2. /\ c \in Procs /\ loc[c].fe \in Files /\ loc[c].blk \in Blocks /\ ver \in Nat
      /\ k \in Keys /\ k = <<Cache[loc[c].fe], loc[c].blk>> /\ Cache[loc[c].fe] # 0
      /\ op[c] \in OpType
  BY <1>1, WriterFacts
<1>3. /\ Alone(c) /\ pc'[c] = "idle" /\ \A d \in Clients \ {c} : op'[d] = op[d]
      /\ pc'[c] \notin Drawn \cup Answered \cup Bare
  BY <1>1, ReturnFacts, DataLabels DEF Return, PlaceInv, TypeInv, TypeOK
<1>4. CASE loc[c].res # "ok"
  <2>1. Idle
    BY <1>1, <1>2, <1>4 DEF Idle
  <2> QED BY <1>2, <1>3, <2>1, IdleStep DEF DataInv
<1>5. CASE loc[c].res = "ok"
  <2>1. PICK f \in Files, x \in Blocks : f = loc[c].fe /\ x = loc[c].blk
    BY <1>2
  <2>2. /\ \A g \in Files, y \in Blocks : g # f \/ y # x => latest'[g][y] = latest[g][y]
        /\ \A i \in Cells : latest'[f][x][i] =
               IF i \in OpCells(op[c]) THEN op[c].ver ELSE latest[f][x][i]
    BY <1>1, <1>2, <1>5, <2>1, AcceptCells DEF PlaceInv, TypeInv
  <2>3. Owns(c, k) /\ Touches(k) /\ Forward
    BY <1>1, <1>2, <2>1, <2>2 DEF Owns, Touches, Forward
  <2> HIDE DEF k
  <2>4. HoldInv'
    BY <1>2, <1>3, <2>3, TouchStep DEF DataInv
  <2>5. Elsewhere(f, x)
    BY <1>2, <2>1, <2>3, TouchesBlock
  <2>6. ASSUME ~gone[f] PROVE Change(f, x)
    <3>1. \A i \in OpCells(op[c]) : View(f, x)[i] = op[c].ver
      BY <1>1, <1>2, <1>5, <2>1, <2>6 DEF DataInv, HoldInv, HoldOK, OpOK
    <3>2. View(f, x)' = View(f, x)
      BY <1>1 DEF View
    <3>3. Acks(f, x, OpCells(op[c])) /\ OpCells(op[c]) \in SUBSET Cells
      BY <1>1, <2>2, <3>1, <3>2 DEF Acks, OpCells
    <3> QED BY <3>3 DEF Change
  <2>7. gone[f] => Still
    BY <2>5 DEF Still, Elsewhere
  <2> QED BY <2>3, <2>4, <2>5, <2>6, <2>7 DEF DataStep
<1> QED BY <1>4, <1>5

\* The other ends of a Write.
LEMMA WriteEndData ==
    ASSUME PlaceInv, PlaceInv', DataInv, NEW c \in Clients,
           Send(c) \/ WriteFullDone(c) \/ WriteFlushFail(c) \/ WriteFlushDirect(c)
    PROVE  DataStep /\ HoldInv'
<1>0. c \in Procs /\ ver \in Nat
  BY DEF Procs, PlaceInv, TypeInv, TypeOK
<1>1. ASSUME Return(c)
      PROVE  /\ Alone(c) /\ \A d \in Clients \ {c} : op'[d] = op[d]
             /\ pc'[c] \notin Drawn \cup Answered \cup Bare
  BY <1>1, ReturnFacts, DataLabels DEF Return, PlaceInv, TypeInv, TypeOK
<1>2. ASSUME Idle, Return(c) PROVE DataStep /\ HoldInv'
  BY <1>0, <1>1, <1>2, IdleStep DEF DataInv
<1>3. ASSUME Send(c) \/ WriteFlushFail(c) PROVE DataStep /\ HoldInv'
  <2>1. Idle /\ Return(c)
    BY <1>0, <1>3 DEF Send, WriteFlushFail, Idle, tableVars, diskVars, ghostVars
  <2> QED BY <1>2, <2>1
<1>4. ASSUME WriteFullDone(c), loc[c].res # "ok" PROVE DataStep /\ HoldInv'
  <2>1. Idle /\ Return(c)
    BY <1>0, <1>4 DEF WriteFullDone, Idle, diskVars, ghostVars
  <2> QED BY <1>2, <2>1
<1>5. ASSUME WriteFullDone(c), loc[c].res = "ok" PROVE DataStep /\ HoldInv'
  <2>1. /\ pc[c] \in Answered /\ Return(c) /\ BufferMap' = [BufferMap EXCEPT ![Key(c)] = NoBuf]
        /\ UNCHANGED <<Cache, buf, disk, gone, latest, ver>>
    BY <1>5 DEF WriteFullDone, DetachBuffer, Answered, diskVars, ghostVars
  <2>2. Key(c) \in Keys /\ Owns(c, Key(c)) /\ Touches(Key(c)) /\ Still /\ Forward
    BY <1>0, <1>5, <2>1, DetachStill DEF DataInv
  <2> QED BY <1>0, <1>1, <2>1, <2>2, TouchStep DEF DataInv, DataStep
<1>6. ASSUME WriteFlushDirect(c) PROVE DataStep /\ HoldInv'
  <2>1. /\ pc[c] = "wflushR" /\ pc[c] \in Answered /\ pc[c] \in Writes /\ pc[c] \in Drawn
        /\ loc[c].res = "ok" /\ BufferMap' = [BufferMap EXCEPT ![Key(c)] = NoBuf]
        /\ UNCHANGED <<Cache, buf, disk, gone, latest, ver, op>>
        /\ loc' = [loc EXCEPT ![c] = [loc[c] EXCEPT !.cur = NoBuf, !.res = "none"]]
        /\ pc' = [pc EXCEPT ![c] = "wdirect"]
    BY <1>6
    DEF WriteFlushDirect, DetachBuffer, Answered, Writes, Drawn, Goto, diskVars, ghostVars
  <2>2. Key(c) \in Keys /\ Owns(c, Key(c)) /\ Touches(Key(c)) /\ Still /\ Forward
    BY <1>0, <2>1, DetachStill DEF DataInv
  <2>3. /\ Alone(c) /\ pc'[c] = "wdirect" /\ loc'[c].fe = loc[c].fe /\ loc'[c].blk = loc[c].blk
        /\ loc'[c].fb = loc[c].fb /\ Key(c)' = Key(c)
    BY <1>0, <2>1 DEF Alone, Key, PlaceInv, TypeInv, TypeOK, LocType
  <2>4. BufferMap'[Key(c)] = NoBuf
    BY <2>1, <2>2 DEF PlaceInv, TypeInv, TypeOK
  <2>5. OpOK(c)'
    <3> SUFFICES ASSUME ~gone[loc[c].fe] PROVE OpOK(c)'
      BY <2>1, <2>3 DEF OpOK
    <3>1. PICK f \in Files, x \in Blocks : f = loc[c].fe /\ x = loc[c].blk
      BY <2>1, WriterFacts
    <3>2. View(f, x)' = View(f, x)
      BY <2>2, <3>1 DEF Still, Same
    <3>3. View(loc[c].fe, loc[c].blk)' = View(f, x)'
      BY <2>3, <3>1
    <3>4. op[c].ver <= ver /\ \A i \in Cells : View(f, x)[i] < op[c].ver
      BY <1>0, <2>1, <3>1 DEF DataInv, HoldInv, HoldOK, OpOK
    <3> QED BY <2>1, <2>3, <3>2, <3>3, <3>4 DEF OpOK
  <2>6. HoldOK(c)'
    BY <2>3, <2>4, <2>5 DEF HoldOK, DirectOK, AnswerOK, Answered
  <2> QED BY <1>0, <2>1, <2>2, <2>3, <2>6, TouchStep DEF DataInv, DataStep
<1> QED BY <1>3, <1>4, <1>5, <1>6

-----------------------------------------------------------------------------
(* The server and the goroutines *)

\* The answer to a request: which block it is about, and what it may do to it.
LEMMA RpcFacts ==
    ASSUME PlaceInv, NEW p \in Procs, Rpc(p)
    PROVE  \E f \in Files, x \in Blocks, r \in {"ok", "eio", "enoent"} :
              /\ x = loc[p].blk /\ Key(p) = <<Cache[f], x>> /\ Cache[f] # 0 /\ Key(p) \in Keys
              /\ Request(p) \in BufferType /\ f = Request(p).fe
              /\ IF pc[p] = "wdirect"
                 THEN p \in Clients /\ f = loc[p].fe
                 ELSE f = buf[loc[p].cur].fe /\ BufferMap[Key(p)] = loc[p].cur
                      /\ loc[p].cur \in Buffers
              /\ gone[f] <=> r = "enoent"
              /\ \A g \in Files, y \in Blocks : g # f \/ y # x => disk'[g][y] = disk[g][y]
              /\ \/ disk' = disk /\ r # "ok"
                 \/ /\ ~gone[f] /\ \A g \in Files : g # f => disk'[g] = disk[g]
                    /\ disk'[f][x] = Overlay(disk[f][x], Request(p))
              /\ pc[p] \in {"wdirect", "wfull", "wflush", "fflush", "sync"}
              /\ pc'[p] = Replied[pc[p]] /\ loc'[p] = [loc[p] EXCEPT !.res = r]
              /\ Alone(p) /\ pc[p] \in Holding
              /\ UNCHANGED <<Cache, BufferMap, buf, gone, latest, ver, op>>
<1>1. PICK r \in {"ok", "eio", "enoent"} :
         /\ Reply(p, r)
         /\ gone[Request(p).fe] <=> r = "enoent"
         /\ \/ disk' = disk /\ r # "ok"
            \/ ~gone[Request(p).fe] /\ Apply(p)
  <2>1. CASE RpcOk(p)
    BY <2>1 DEF RpcOk
  <2>2. CASE RpcEio(p)
    BY <2>2 DEF RpcEio
  <2>3. CASE RpcGone(p)
    BY <2>3 DEF RpcGone
  <2> QED BY <2>1, <2>2, <2>3 DEF Rpc
<1>2. /\ pc[p] \in {"wdirect", "wfull", "wflush", "fflush", "sync"}
      /\ pc' = [pc EXCEPT ![p] = Replied[pc[p]]] /\ loc' = [loc EXCEPT ![p].res = r]
      /\ UNCHANGED <<Cache, BufferMap, buf, gone, latest, ver, op>>
  BY <1>1 DEF Reply, Replied, Goto, poolVars, tableVars, ghostVars
<1>3. /\ pc'[p] = Replied[pc[p]] /\ loc'[p] = [loc[p] EXCEPT !.res = r] /\ Alone(p)
      /\ pc[p] \in Holding /\ (pc[p] # "wdirect" => pc[p] \in Working)
      /\ loc[p].blk \in Blocks
  BY <1>2 DEF Alone, PlaceInv, TypeInv, TypeOK, Holding, Working, LocType
<1>4. ASSUME pc[p] = "wdirect"
      PROVE  /\ p \in Clients /\ Request(p) \in BufferType /\ Request(p).fe = loc[p].fe
             /\ Request(p).BlkIdx = loc[p].blk /\ loc[p].fe \in Files
             /\ Key(p) = <<Cache[loc[p].fe], loc[p].blk>> /\ Cache[loc[p].fe] # 0 /\ Key(p) \in Keys
  <2>1. p \in Clients /\ pc[p] \in Writes
    BY <1>4 DEF PlaceInv, TypeInv, BufferInv, LocalOK, Writes
  <2>2. /\ loc[p].fe \in Files /\ loc[p].blk \in Blocks /\ op[p] \in OpType
        /\ Key(p) \in Keys /\ Key(p) = <<Cache[loc[p].fe], loc[p].blk>> /\ Cache[loc[p].fe] # 0
    BY <2>1, WriterFacts
  <2>3. Request(p) = OpBuffer(loc[p].fe, loc[p].blk, op[p])
    BY <1>4 DEF Request
  <2> QED BY <2>1, <2>2, <2>3, OpBufferType
<1>5. ASSUME pc[p] # "wdirect"
      PROVE  /\ Request(p) = buf[loc[p].cur] /\ buf[loc[p].cur] \in BufferType
             /\ buf[loc[p].cur].fe \in Files /\ Request(p).BlkIdx = loc[p].blk
             /\ BufferMap[Key(p)] = loc[p].cur /\ loc[p].cur \in Buffers
             /\ Key(p) = <<Cache[buf[loc[p].cur].fe], loc[p].blk>>
             /\ Cache[buf[loc[p].cur].fe] # 0 /\ Key(p) \in Keys
  <2>1. /\ loc[p].cur \in Buffers /\ Home(loc[p].cur) = Key(p) /\ Key(p) \in Keys
        /\ BufferMap[Key(p)] = loc[p].cur /\ loc[p].cur \in Named
    BY <1>3, <1>5, HolderFacts, DataLabels
    DEF PlaceInv, SafeInv, CoreInv, TypeInv, BufferInv, LocalOK
  <2>2. /\ Cache[buf[loc[p].cur].fe] = loc[p].fb /\ buf[loc[p].cur].BlkIdx = loc[p].blk
        /\ loc[p].fb # 0
    BY <2>1 DEF Home, Key, Keys, FileBufs
  <2> QED BY <1>5, <2>1, <2>2 DEF Request, Named, Key, PlaceInv, TypeInv, TypeOK
<1>6. PICK f \in Files, x \in Blocks :
         /\ f = Request(p).fe /\ x = loc[p].blk /\ x = Request(p).BlkIdx
         /\ Request(p) \in BufferType /\ Key(p) = <<Cache[f], x>> /\ Cache[f] # 0 /\ Key(p) \in Keys
  BY <1>3, <1>4, <1>5
<1>7. IF pc[p] = "wdirect"
      THEN p \in Clients /\ f = loc[p].fe
      ELSE f = buf[loc[p].cur].fe /\ BufferMap[Key(p)] = loc[p].cur /\ loc[p].cur \in Buffers
  BY <1>4, <1>5, <1>6
<1>8. ASSUME Apply(p)
      PROVE  /\ disk'[f][x] = Overlay(disk[f][x], Request(p))
             /\ \A g \in Files : g # f => disk'[g] = disk[g]
             /\ \A g \in Files, y \in Blocks : g # f \/ y # x => disk'[g][y] = disk[g][y]
  <2> DEFINE n == Overlay(disk[f][x], Request(p))
  <2>1. disk' = [disk EXCEPT ![f] = [disk[f] EXCEPT ![x] = n]]
    BY <1>6, <1>8 DEF Apply
  <2> HIDE DEF n
  <2> QED BY <2>1 DEF PlaceInv, TypeInv, TypeOK, FileContent, n
<1>9. /\ \A g \in Files, y \in Blocks : g # f \/ y # x => disk'[g][y] = disk[g][y]
      /\ \/ disk' = disk /\ r # "ok"
         \/ /\ ~gone[f] /\ \A g \in Files : g # f => disk'[g] = disk[g]
            /\ disk'[f][x] = Overlay(disk[f][x], Request(p))
  BY <1>1, <1>6, <1>8
<1>10. gone[f] <=> r = "enoent"
  BY <1>1, <1>6
<1> QED BY <1>2, <1>3, <1>6, <1>7, <1>9, <1>10

\* A request changes the block of its process and nothing else.
LEMMA RpcData ==
    ASSUME PlaceInv, PlaceInv', DataInv, NEW p \in Procs, Rpc(p)
    PROVE  DataStep /\ HoldInv'
<1>1. PICK f \in Files, x \in Blocks, r \in {"ok", "eio", "enoent"} :
              /\ x = loc[p].blk /\ Key(p) = <<Cache[f], x>> /\ Cache[f] # 0 /\ Key(p) \in Keys
              /\ Request(p) \in BufferType /\ f = Request(p).fe
              /\ IF pc[p] = "wdirect"
                 THEN p \in Clients /\ f = loc[p].fe
                 ELSE f = buf[loc[p].cur].fe /\ BufferMap[Key(p)] = loc[p].cur
                      /\ loc[p].cur \in Buffers
              /\ gone[f] <=> r = "enoent"
              /\ \A g \in Files, y \in Blocks : g # f \/ y # x => disk'[g][y] = disk[g][y]
              /\ \/ disk' = disk /\ r # "ok"
                 \/ /\ ~gone[f] /\ \A g \in Files : g # f => disk'[g] = disk[g]
                    /\ disk'[f][x] = Overlay(disk[f][x], Request(p))
              /\ pc[p] \in {"wdirect", "wfull", "wflush", "fflush", "sync"}
              /\ pc'[p] = Replied[pc[p]] /\ loc'[p] = [loc[p] EXCEPT !.res = r]
              /\ Alone(p) /\ pc[p] \in Holding
              /\ UNCHANGED <<Cache, BufferMap, buf, gone, latest, ver, op>>
  BY RpcFacts
<1> DEFINE k == Key(p)
<1>2. ver \in Nat /\ loc[p] \in LocType /\ pc[p] # "closed"
  BY <1>1 DEF PlaceInv, TypeInv, TypeOK
<1>3. /\ loc'[p].fe = loc[p].fe /\ loc'[p].fb = loc[p].fb /\ loc'[p].blk = loc[p].blk
      /\ loc'[p].cur = loc[p].cur /\ loc'[p].res = r /\ Key(p)' = Key(p)
  BY <1>1, <1>2 DEF LocType, Key
<1>4. Touches(k) /\ Forward /\ Owns(p, k)
  BY <1>1, <1>2 DEF Touches, Forward, Owns
<1>5. Elsewhere(f, x)
  BY <1>1, <1>4, TouchesBlock
<1>6. ASSUME HoldOK(p)' PROVE HoldInv'
  BY <1>1, <1>4, <1>6, TouchStep DEF DataInv
<1>7. ASSUME ~gone[f] => Same(f, x) \/ Change(f, x) PROVE DataStep
  BY <1>4, <1>5, <1>7 DEF DataStep, Still, Elsewhere
<1>8. View(f, x) \in Content /\ View(f, x)' \in Content
  BY ViewCells, ViewCellsNext DEF PlaceInv, TypeInv, Content
<1>9. CASE pc[p] = "wdirect"
  <2>1. p \in Clients /\ f = loc[p].fe /\ pc'[p] = "wdirectR" /\ op[p] \in OpType
        /\ Request(p) = OpBuffer(f, x, op[p])
    BY <1>1, <1>9 DEF Replied, Request, PlaceInv, TypeInv, TypeOK
  <2>2. BufferMap[k] = NoBuf
    BY <1>9 DEF DataInv, HoldInv, HoldOK, DirectOK, Bare
  <2>3. View(f, x) = disk[f][x] /\ View(f, x)' = disk'[f][x]
    BY <1>1, <2>2 DEF View
  <2>4. ASSUME disk'[f][x] = Overlay(disk[f][x], Request(p))
        PROVE  Updated(disk'[f][x], disk[f][x], OpCells(op[p]), op[p].ver)
    <3> SUFFICES ASSUME NEW i \in Cells
                 PROVE  disk'[f][x][i] = IF i \in OpCells(op[p]) THEN op[p].ver ELSE disk[f][x][i]
      BY DEF Updated
    <3>1. disk'[f][x][i] = IF InRange(OpBuffer(f, x, op[p]), i)
                           THEN OpBuffer(f, x, op[p]).data[i] ELSE disk[f][x][i]
      BY <2>1, <2>4 DEF Overlay
    <3> QED BY <2>1, <3>1, OpBufferCells
  <2>5. ASSUME ~gone[f] PROVE Same(f, x) \/ Change(f, x)
    <3>1. CASE disk' = disk
      BY <1>1, <2>3, <3>1 DEF Same
    <3>2. CASE disk'[f][x] = Overlay(disk[f][x], Request(p))
      <4>1. op[p].ver <= ver /\ \A i \in Cells : View(f, x)[i] < op[p].ver
        BY <1>1, <1>9, <2>1, <2>5 DEF DataInv, HoldInv, HoldOK, OpOK, Drawn
      <4>2. Takes(f, x, OpCells(op[p]), op[p].ver)
        BY <1>1, <2>3, <2>4, <3>2, <4>1 DEF Takes
      <4>3. op[p].ver \in Nat /\ OpCells(op[p]) \in SUBSET Cells
        BY <2>1 DEF OpType, OpCells
      <4> QED BY <4>2, <4>3 DEF Change
    <3> QED BY <1>1, <3>1, <3>2
  <2>6. OpOK(p)'
    <3> SUFFICES ASSUME ~gone[f], r = "ok", NEW i \in OpCells(op[p])
                 PROVE  View(loc[p].fe, loc[p].blk)'[i] = op[p].ver
      BY <1>1, <1>3, <2>1 DEF OpOK, Drawn
    <3>1. View(f, x)'[i] = op[p].ver
      BY <1>1, <2>3, <2>4 DEF Updated, OpCells
    <3>2. View(loc[p].fe, loc[p].blk)' = View(f, x)'
      BY <1>1, <1>3, <2>1
    <3> QED BY <3>1, <3>2
  <2>7. HoldOK(p)'
    BY <1>1, <1>3, <2>1, <2>2, <2>6 DEF HoldOK, DirectOK, AnswerOK, Answered
  <2> QED BY <1>6, <1>7, <2>5, <2>7
<1>10. CASE pc[p] # "wdirect"
  <2> DEFINE b == loc[p].cur
  <2>1. /\ f = buf[b].fe /\ BufferMap[k] = b /\ b \in Buffers /\ Request(p) = buf[b]
        /\ pc'[p] \in Answered /\ (pc'[p] = "wflushR" => pc[p] = "wflush")
    BY <1>1, <1>10 DEF Request, Replied, Answered
  <2>2. b # NoBuf /\ BufAt(f, x) = b /\ BufAt(f, x)' = b
    BY <1>1, <2>1, WCacheAssumption DEF BufAt
  <2>3. \A i \in Cells : View(f, x)[i] = IF InRange(buf[b], i) THEN buf[b].data[i] ELSE disk[f][x][i]
    BY <2>2, ViewCells DEF PlaceInv, TypeInv
  <2>4. \A i \in Cells : View(f, x)'[i] = IF InRange(buf[b], i) THEN buf[b].data[i] ELSE disk'[f][x][i]
    BY <1>1, <2>2, ViewCellsNext DEF PlaceInv, TypeInv
  <2>5. ASSUME disk'[f][x] = Overlay(disk[f][x], Request(p))
        PROVE  Stores(f, x) /\ \A i \in Cells : disk'[f][x][i] = View(f, x)'[i]
    <3>1. \A i \in Cells : disk'[f][x][i] = IF InRange(buf[b], i) THEN buf[b].data[i] ELSE disk[f][x][i]
      BY <2>1, <2>5 DEF Overlay
    <3>2. \A i \in Cells : View(f, x)'[i] = View(f, x)[i]
      BY <2>3, <2>4, <3>1
    <3>3. View(f, x)' = View(f, x)
      BY <1>8, <3>2 DEF Content
    <3> QED BY <1>1, <2>3, <3>1, <3>3 DEF Stores
  <2>6. disk' = disk => Same(f, x)
    BY <1>1 DEF Same, View
  <2>7. View(f, x)' = View(f, x)
    BY <1>1, <2>5, <2>6 DEF Stores, Same
  <2>8. AnswerOK(p)'
    <3>1. r = "ok" => \A i \in Cells : disk'[f][x][i] = View(f, x)'[i]
      BY <1>1, <2>5
    <3>2. buf'[loc'[p].cur].fe = f /\ loc'[p].blk = x /\ gone'[f] = gone[f]
      BY <1>1, <1>3, <2>1
    <3>3. View(buf[loc[p].cur].fe, loc[p].blk)' = View(f, x)'
      BY <3>2
    <3> QED BY <1>1, <1>3, <3>1, <3>2, <3>3 DEF AnswerOK
  <2>9. ASSUME p \in Clients, pc'[p] = "wflushR", ~gone[loc[p].fe] PROVE OpOK(p)'
    <3>1. pc[p] \in Writes /\ pc[p] \in Drawn
      BY <2>1, <2>9 DEF Writes, Drawn
    <3>2. loc[p].fe \in Files /\ Cache[loc[p].fe] = Cache[f]
      BY <1>1, <2>9, <3>1, WriterFacts
    <3>3. f = loc[p].fe
      BY <1>1, <3>2 DEF PlaceInv, SafeInv, TableInv
    <3>4. op[p].ver <= ver /\ \A i \in Cells : View(f, x)[i] < op[p].ver
      BY <1>1, <2>9, <3>1, <3>3 DEF DataInv, HoldInv, HoldOK, OpOK
    <3>5. View(loc[p].fe, loc[p].blk)' = View(f, x)'
      BY <1>1, <1>3, <3>3
    <3> QED BY <1>1, <2>7, <2>9, <3>4, <3>5 DEF OpOK
  <2>10. HoldOK(p)'
    <3>1. p \in Clients => OpOK(p)'
      BY <1>1, <1>3, <2>1, <2>9 DEF OpOK, Drawn, Answered
    <3>2. DirectOK(p)'
      BY <2>1 DEF DirectOK, Bare, Answered
    <3> QED BY <2>8, <3>1, <3>2 DEF HoldOK
  <2> QED BY <1>1, <1>6, <1>7, <2>5, <2>6, <2>10 DEF Change
<1> QED BY <1>9, <1>10

\* The goroutines move buffers about and drop those whose data is stored.
LEMMA GoroutineData ==
    ASSUME PlaceInv, PlaceInv', DataInv, NEW p \in Procs, p \notin Clients,
           \/ p \in Workers /\ TakeIndex(p)
           \/ p \in Workers \cup Expirers /\ FlushStep(p)
           \/ ExpireStep(p) \/ SyncStep(p)
    PROVE  DataStep /\ Still /\ HoldInv'
<1>0. ver \in Nat
  BY DEF PlaceInv, TypeInv, TypeOK
<1> DEFINE Quiet(l) == l \notin Drawn \cup Answered \cup Bare
<1>1. Quiet("idle") /\ Quiet("flock") /\ Quiet("fflush") /\ Quiet("elookup") /\ Quiet("sync")
  BY DataLabels
<1>2. ASSUME Idle, op' = op, Alone(p), Quiet(pc'[p]) PROVE DataStep /\ Still /\ HoldInv'
  BY <1>2, IdleStep DEF DataInv
<1>3. ASSUME pc[p] \in Answered, loc[p].res \in {"ok", "enoent"}, Alone(p),
             Quiet(pc'[p]) \/ HoldOK(p)',
             BufferMap' = [BufferMap EXCEPT ![Key(p)] = NoBuf],
             UNCHANGED <<Cache, buf, disk, gone, latest, ver, op>>
      PROVE  DataStep /\ Still /\ HoldInv'
  <2>1. Key(p) \in Keys /\ Owns(p, Key(p)) /\ Touches(Key(p)) /\ Still /\ Forward
    BY <1>3, DetachStill DEF DataInv
  <2> QED BY <1>3, <2>1, TouchStep DEF DataInv, DataStep
<1> HIDE DEF Quiet
<1>4. ASSUME p \in Workers, TakeIndex(p) PROVE DataStep /\ Still /\ HoldInv'
  <2>1. PICK x \in fl[p[1]].mq : loc' = [loc EXCEPT ![p] = [@ EXCEPT !.fb = loc[p[1]].fb, !.blk = x]]
    BY <1>4 DEF TakeIndex
  <2>2. Goto(p, "flock") /\ UNCHANGED <<poolVars, tableVars, op, diskVars, ghostVars>>
    BY <1>4 DEF TakeIndex
  <2>3. Idle /\ op' = op
    BY <1>0, <2>2 DEF Idle, poolVars, tableVars, diskVars, ghostVars
  <2>4. Alone(p) /\ pc'[p] = "flock"
    BY <2>1, <2>2 DEF Goto, Alone, PlaceInv, TypeInv, TypeOK
  <2> QED BY <1>1, <1>2, <2>3, <2>4
<1>5. ASSUME p \in Workers \cup Expirers, FlushLock(p) PROVE DataStep /\ Still /\ HoldInv'
  <2>1. Idle /\ op' = op /\ pc' = [pc EXCEPT ![p] = "fflush"]
        /\ loc' = [loc EXCEPT ![p].cur = BufferMap[Key(p)]]
    BY <1>0, <1>5 DEF FlushLock, Goto, Idle, diskVars, ghostVars
  <2>2. Alone(p) /\ pc'[p] = "fflush"
    BY <2>1 DEF Alone, PlaceInv, TypeInv, TypeOK
  <2> QED BY <1>1, <1>2, <2>1, <2>2
<1>6. ASSUME p \in Workers \cup Expirers, FlushNothing(p) PROVE DataStep /\ Still /\ HoldInv'
  <2>1. Report(p, FALSE) /\ UNCHANGED <<poolVars, tableVars, op, diskVars, ghostVars>>
    BY <1>6 DEF FlushNothing
  <2>2. Idle /\ op' = op
    BY <1>0, <2>1 DEF Idle, poolVars, tableVars, diskVars, ghostVars
  <2>3. Alone(p) /\ pc'[p] = "idle"
    BY <1>6, <2>1, ReportFacts DEF PlaceInv
  <2> QED BY <1>1, <1>2, <2>2, <2>3
<1>7. ASSUME p \in Workers \cup Expirers, FlushDone(p) PROVE DataStep /\ Still /\ HoldInv'
  <2>1. /\ pc[p] = "fflushR" /\ pc[p] \in Answered /\ Report(p, loc[p].res # "ok")
        /\ UNCHANGED <<Cache, buf, disk, gone, latest, ver, op>>
        /\ IF loc[p].res \in {"ok", "enoent"}
           THEN BufferMap' = [BufferMap EXCEPT ![Key(p)] = NoBuf] ELSE BufferMap' = BufferMap
    BY <1>7 DEF FlushDone, Releases, DetachBuffer, Answered, diskVars, ghostVars
  <2>2. (loc[p].res # "ok") \in BOOLEAN
    OBVIOUS
  <2>3. Alone(p) /\ pc'[p] = "idle"
    BY <1>7, <2>1, <2>2, ReportFacts DEF PlaceInv
  <2>4. CASE loc[p].res \in {"ok", "enoent"}
    BY <1>1, <1>3, <2>1, <2>3, <2>4
  <2>5. CASE loc[p].res \notin {"ok", "enoent"}
    <3>1. Idle
      BY <1>0, <2>1, <2>5 DEF Idle
    <3> QED BY <1>1, <1>2, <2>1, <2>3, <3>1
  <2> QED BY <2>4, <2>5
<1>8. ASSUME LruExpire(p) PROVE DataStep /\ Still /\ HoldInv'
  <2>1. PICK b \in LruList :
           loc' = [loc EXCEPT ![p] = [@ EXCEPT !.fe = buf[b].fe, !.blk = buf[b].BlkIdx]]
    BY <1>8 DEF LruExpire
  <2>2. Idle /\ op' = op /\ pc' = [pc EXCEPT ![p] = "elookup"]
    BY <1>0, <1>8 DEF LruExpire, Goto, Idle, tableVars, diskVars, ghostVars
  <2>3. Alone(p) /\ pc'[p] = "elookup"
    BY <2>1, <2>2 DEF Alone, PlaceInv, TypeInv, TypeOK
  <2> QED BY <1>1, <1>2, <2>2, <2>3
<1>9. ASSUME ExpireLookup(p) PROVE DataStep /\ Still /\ HoldInv'
  <2>1. Idle /\ op' = op
    BY <1>0, <1>9 DEF ExpireLookup, Idle, poolVars, tableVars, diskVars, ghostVars
  <2>2. Alone(p) /\ pc'[p] \in {"idle", "flock"}
    BY <1>9 DEF ExpireLookup, Goto, Alone, PlaceInv, TypeInv, TypeOK
  <2> QED BY <1>1, <1>2, <2>1, <2>2
<1>10. ASSUME SyncTake(p) PROVE DataStep /\ Still /\ HoldInv'
  <2>1. PICK b \in chSync :
           loc' = [loc EXCEPT ![p] = [@ EXCEPT !.fb = Cache[buf[b].fe],
                                                !.blk = buf[b].BlkIdx, !.cur = b]]
    BY <1>10 DEF SyncTake
  <2>2. Idle /\ op' = op /\ pc' = [pc EXCEPT ![p] = "sync"]
    BY <1>0, <1>10 DEF SyncTake, Goto, Idle, tableVars, diskVars, ghostVars
  <2>3. Alone(p) /\ pc'[p] = "sync"
    BY <2>1, <2>2 DEF Alone, PlaceInv, TypeInv, TypeOK
  <2> QED BY <1>1, <1>2, <2>2, <2>3
<1>11. ASSUME SyncDone(p) PROVE DataStep /\ Still /\ HoldInv'
  <2>1. /\ pc[p] = "syncR" /\ pc[p] \in Answered
        /\ UNCHANGED <<Cache, buf, disk, gone, latest, ver, op>>
        /\ \/ /\ loc[p].res = "ok" /\ BufferMap' = [BufferMap EXCEPT ![Key(p)] = NoBuf]
              /\ pc' = [pc EXCEPT ![p] = "syncU"] /\ loc' = loc
           \/ /\ BufferMap' = BufferMap
              /\ pc' = [pc EXCEPT ![p] = "idle"] /\ loc' = [loc EXCEPT ![p] = NoLoc]
    BY <1>11 DEF SyncDone, DetachBuffer, Answered, Goto, diskVars, ghostVars
  <2>2. Alone(p)
    BY <2>1 DEF Alone, PlaceInv, TypeInv, TypeOK
  <2>3. CASE /\ loc[p].res = "ok" /\ BufferMap' = [BufferMap EXCEPT ![Key(p)] = NoBuf]
             /\ pc' = [pc EXCEPT ![p] = "syncU"] /\ loc' = loc
    <3>1. Key(p) \in Keys
      BY <2>1, HolderFacts, DataLabels DEF PlaceInv, SafeInv, CoreInv
    <3>2. pc'[p] = "syncU" /\ Key(p)' = Key(p) /\ BufferMap'[Key(p)] = NoBuf
      BY <2>3, <3>1 DEF Key, PlaceInv, TypeInv, TypeOK
    <3>3. HoldOK(p)'
      BY <3>2 DEF HoldOK, DirectOK, AnswerOK, Answered
    <3> QED BY <1>3, <2>1, <2>2, <2>3, <3>3
  <2>4. CASE BufferMap' = BufferMap /\ pc' = [pc EXCEPT ![p] = "idle"]
    <3>1. Idle /\ pc'[p] = "idle"
      BY <1>0, <2>1, <2>4 DEF Idle, PlaceInv, TypeInv, TypeOK
    <3> QED BY <1>1, <1>2, <2>1, <2>2, <3>1
  <2> QED BY <2>1, <2>3, <2>4
<1>12. ASSUME SyncUnlock(p) PROVE DataStep /\ Still /\ HoldInv'
  <2>1. Idle /\ op' = op
    BY <1>0, <1>12 DEF SyncUnlock, Idle, poolVars, diskVars, ghostVars
  <2>2. Alone(p) /\ pc'[p] = "idle"
    BY <1>12 DEF SyncUnlock, Goto, Alone, PlaceInv, TypeInv, TypeOK
  <2> QED BY <1>1, <1>2, <2>1, <2>2
<1> QED BY <1>4, <1>5, <1>6, <1>7, <1>8, <1>9, <1>10, <1>11, <1>12 DEF FlushStep, ExpireStep, SyncStep

-----------------------------------------------------------------------------
(* Open, the beginning of a Write, Flush and Close *)

\* A FileBuffer that nobody has used, or that was emptied, holds no data.
LEMMA TableStill ==
    ASSUME PlaceInv, NEW f \in Files, NEW n \in 0 .. MaxFileBufs,
           Cache' = [Cache EXCEPT ![f] = n],
           UNCHANGED <<BufferMap, buf, disk, gone, latest, ver>>,
           \A y \in Blocks : Cache[f] # 0 => BufferMap[<<Cache[f], y>>] = NoBuf,
           \A y \in Blocks : n # 0 => BufferMap[<<n, y>>] = NoBuf
    PROVE  Still /\ Forward /\ \A q \in Procs : Untouched(q)
<1>1. \A g \in Files, y \in Blocks : Same(g, y)
  <2> SUFFICES ASSUME NEW g \in Files, NEW y \in Blocks PROVE View(g, y)' = View(g, y)
    BY DEF Same
  <2>1. CASE g = f
    BY <2>1 DEF View, PlaceInv, TypeInv, TypeOK
  <2>2. CASE g # f
    BY <2>2 DEF View, PlaceInv, TypeInv, TypeOK
  <2> QED BY <2>1, <2>2
<1>2. ver \in Nat
  BY DEF PlaceInv, TypeInv, TypeOK
<1> QED BY <1>1, <1>2 DEF Still, Forward, Untouched

\* Write looks up or makes the FileBuffer.
LEMMA WriteData ==
    ASSUME PlaceInv, PlaceInv', DataInv, NEW c \in Clients, NEW x \in Blocks, NEW off \in Cells,
           NEW size \in 1 .. BlockSize, Write(c, x, off, size)
    PROVE  DataStep /\ HoldInv'
<1> DEFINE new == IF Cache[loc[c].fe] = 0 THEN made + 1 ELSE Cache[loc[c].fe]
<1>1. /\ c \in Procs /\ loc[c].fe \in Files /\ new <= MaxFileBufs
      /\ Cache' = [Cache EXCEPT ![loc[c].fe] = new]
      /\ loc' = [loc EXCEPT ![c] = [loc[c] EXCEPT !.fb = new, !.blk = x]]
      /\ pc' = [pc EXCEPT ![c] = "wlock"]
      /\ \A d \in Clients \ {c} : op'[d] = op[d]
      /\ UNCHANGED <<BufferMap, buf, disk, gone, latest, ver>>
  BY DEF Write, Goto, Procs, PlaceInv, TypeInv, TypeOK, BufferInv, LocalOK, poolVars, diskVars, ghostVars
<1>2. PICK f \in Files : f = loc[c].fe
  BY <1>1
<1>3. PICK n \in 0 .. MaxFileBufs : n = new
  BY <1>1, <1>2 DEF PlaceInv, TypeInv, TypeOK
<1>4. n = IF Cache[f] = 0 THEN made + 1 ELSE Cache[f]
  BY <1>2, <1>3
<1> HIDE DEF new
<1>5. Alone(c) /\ pc'[c] \notin Drawn \cup Answered \cup Bare
  BY <1>1, DataLabels DEF Alone, PlaceInv, TypeInv, TypeOK
<1>6. Still /\ Forward /\ \A q \in Procs : Untouched(q)
  <2>1. CASE Cache[f] = 0
    <3>1. ASSUME NEW y \in Blocks, BufferMap[<<n, y>>] # NoBuf PROVE FALSE
      <4>1. n = made + 1 /\ made \in Nat /\ <<n, y>> \in Keys
        BY <1>4, <2>1 DEF Keys, FileBufs, PlaceInv, TypeInv, TypeOK
      <4>2. BufferMap[<<n, y>>] \in Named /\ Home(BufferMap[<<n, y>>]) = <<n, y>>
        BY <3>1, <4>1 DEF PlaceInv, TypeInv, BufferInv, SafeInv, AttachInv
      <4>3. PICK g \in Files : Cache[g] = n
        BY <4>2 DEF Home, Named
      <4> QED BY <4>1, <4>3 DEF PlaceInv, SafeInv, TableInv, TypeInv, TypeOK
    <3> QED BY <1>1, <1>2, <1>3, <2>1, <3>1, TableStill
  <2>2. CASE Cache[f] # 0
    <3>1. Cache' = Cache
      BY <1>1, <1>2, <1>3, <1>4, <2>2 DEF PlaceInv, TypeInv, TypeOK
    <3>2. Idle
      BY <1>1, <3>1 DEF Idle, PlaceInv, TypeInv, TypeOK
    <3> QED BY <3>2, IdleStill
  <2> QED BY <2>1, <2>2
<1>7. HoldOK(c)' /\ ver \in Nat /\ ver' \in Nat
  BY <1>1, <1>5, HoldNothingNext DEF PlaceInv, TypeInv, TypeOK
<1> QED BY <1>1, <1>5, <1>6, <1>7, HoldersKept DEF DataStep, DataInv

\* WCache.Flush begins: no data moves.
LEMMA StartHolds ==
    ASSUME PlaceInv, PlaceInv', DataInv, NEW c \in Clients, NEW f \in Files, NEW kind,
           Starts(c, f, kind)
    PROVE  DataStep /\ Still /\ HoldInv'
<1>1. TypeOK /\ c \in Procs /\ ver \in Nat
  BY DEF Procs, PlaceInv, TypeInv, TypeOK
<1>2. Alone(c) /\ pc'[c] = "flushing" /\ op' = op
  BY <1>1, StartFacts DEF Alone
<1>3. Idle
  BY <1>1, StartFacts DEF Idle
<1> QED BY <1>1, <1>2, <1>3, IdleStep, DataLabels DEF DataInv

\* Opening, flushing and closing a handle.
LEMMA HandleData ==
    ASSUME PlaceInv, PlaceInv', DataInv, NEW c \in Clients,
           \/ \E f \in Files : Open(c, f)
           \/ Flush(c) \/ Close(c)
           \/ FlushToFsync(c) \/ FsyncReply(c) \/ FsyncReturn(c) \/ CloseFail(c) \/ CloseDone(c)
    PROVE  DataStep /\ Still /\ HoldInv'
<1>0. c \in Procs /\ ver \in Nat
  BY DEF Procs, PlaceInv, TypeInv, TypeOK
<1> DEFINE Quiet(l) == l \notin Drawn \cup Answered \cup Bare
<1>1. Quiet("idle") /\ Quiet("closed") /\ Quiet("flushing") /\ Quiet("fsync") /\ Quiet("synced")
  BY DataLabels
<1>2. ASSUME Idle, \A d \in Clients \ {c} : op'[d] = op[d], Alone(c), Quiet(pc'[c])
      PROVE  DataStep /\ Still /\ HoldInv'
  BY <1>0, <1>2, IdleStep DEF DataInv
<1> HIDE DEF Quiet
<1>r. ASSUME Return(c)
      PROVE  (\A d \in Clients \ {c} : op'[d] = op[d]) /\ Alone(c) /\ pc'[c] = "idle"
  BY <1>r, ReturnFacts DEF Return, PlaceInv, TypeInv, TypeOK
<1>3. ASSUME NEW f \in Files, Open(c, f) PROVE DataStep /\ Still /\ HoldInv'
  <2>1. Idle /\ op' = op /\ pc' = [pc EXCEPT ![c] = "idle"] /\ loc' = [loc EXCEPT ![c].fe = f]
    BY <1>0, <1>3 DEF Open, Goto, Idle, poolVars, tableVars, diskVars, ghostVars
  <2>2. Alone(c) /\ pc'[c] = "idle"
    BY <1>0, <2>1 DEF Alone, PlaceInv, TypeInv, TypeOK
  <2> QED BY <1>1, <1>2, <2>1, <2>2
<1>4. ASSUME NEW kind, StartFlush(c, kind) PROVE DataStep /\ Still /\ HoldInv'
  BY <1>4, FlushStarts, StartHolds DEF PlaceInv
<1>5. ASSUME FlushToFsync(c) PROVE DataStep /\ Still /\ HoldInv'
  <2>1. Idle /\ op' = op /\ pc' = [pc EXCEPT ![c] = "fsync"] /\ loc' = loc
    BY <1>0, <1>5 DEF FlushToFsync, Goto, Idle, poolVars, tableVars, diskVars, ghostVars
  <2>2. Alone(c) /\ pc'[c] = "fsync"
    BY <1>0, <2>1 DEF Alone, PlaceInv, TypeInv, TypeOK
  <2> QED BY <1>1, <1>2, <2>1, <2>2
<1>6. ASSUME FsyncReply(c) PROVE DataStep /\ Still /\ HoldInv'
  <2>1. Idle
    BY <1>0, <1>6 DEF FsyncReply, Idle, poolVars, tableVars, diskVars
  <2>2. CASE Return(c)
    BY <1>1, <1>2, <1>r, <2>1, <2>2
  <2>3. CASE Goto(c, "synced") /\ loc' = loc /\ op' = op
    <3>1. Alone(c) /\ pc'[c] = "synced"
      BY <1>0, <2>3 DEF Goto, Alone, PlaceInv, TypeInv, TypeOK
    <3> QED BY <1>1, <1>2, <2>1, <2>3, <3>1
  <2> QED BY <1>6, <2>2, <2>3 DEF FsyncReply
<1>7. ASSUME FsyncReturn(c) \/ CloseFail(c) PROVE DataStep /\ Still /\ HoldInv'
  <2>1. Idle /\ Return(c)
    BY <1>0, <1>7 DEF FsyncReturn, CloseFail, Idle, poolVars, tableVars, diskVars
  <2> QED BY <1>1, <1>2, <1>r, <2>1
<1>8. ASSUME CloseDone(c) PROVE DataStep /\ Still /\ HoldInv'
  <2>1. /\ pc' = [pc EXCEPT ![c] = "closed"] /\ loc' = [loc EXCEPT ![c] = NoLoc] /\ op' = op
        /\ UNCHANGED <<BufferMap, buf, disk, gone, latest, ver>>
        /\ Cache' = Cache \/ (fl[c].kind = "closelast" /\ Cache' = [Cache EXCEPT ![loc[c].fe] = 0])
        /\ pc[c] = "flushing" /\ fl[c].pend = {} /\ ~fl[c].failed
    BY <1>8 DEF CloseDone, FlushReturned, Goto, poolVars, diskVars
  <2>2. Alone(c) /\ pc'[c] = "closed"
    BY <1>0, <2>1 DEF Alone, PlaceInv, TypeInv, TypeOK
  <2>3. CASE Cache' = Cache
    <3>1. Idle
      BY <1>0, <2>1, <2>3 DEF Idle
    <3> QED BY <1>1, <1>2, <2>1, <2>2, <3>1
  <2>4. CASE fl[c].kind = "closelast" /\ Cache' = [Cache EXCEPT ![loc[c].fe] = 0]
    <3>1. PICK f \in Files : f = loc[c].fe
      BY <1>0, <2>1 DEF PlaceInv, TypeInv, BufferInv, LocalOK
    <3>2. ASSUME NEW y \in Blocks, Cache[f] # 0 PROVE BufferMap[<<Cache[f], y>>] = NoBuf
      <4>1. <<Cache[f], y>> \in Keys
        BY <3>2 DEF Keys, FileBufs, PlaceInv, TypeInv, TypeOK
      <4> QED BY <2>1, <2>4, <3>1, <4>1 DEF PlaceInv, SafeInv, ClientInv
    <3>3. 0 \in 0 .. MaxFileBufs
      BY WCacheAssumption
    <3>4. Still /\ Forward /\ \A q \in Procs : Untouched(q)
      BY <2>1, <2>4, <3>1, <3>2, <3>3, TableStill
    <3>5. HoldOK(c)'
      BY <1>0, <1>1, <2>2, HoldNothingNext DEF Quiet
    <3> QED BY <1>0, <2>1, <2>2, <3>4, <3>5, HoldersKept DEF DataStep, DataInv
  <2> QED BY <2>1, <2>3, <2>4
<1> QED BY <1>3, <1>4, <1>5, <1>6, <1>7, <1>8 DEF Flush, Close

-----------------------------------------------------------------------------
(* What a Flush has to store *)

\* The Flush of a client goes on as it was.
Kept(c) ==
    /\ fl'[c].kind = fl[c].kind /\ fl'[c].pend = fl[c].pend
    /\ fl'[c].failed = fl[c].failed /\ snap'[c] = snap[c]
    /\ fl[c].kind # "none" =>
          /\ loc'[c].fe = loc[c].fe /\ loc'[c].fb = loc[c].fb
          /\ fl[c].pend # {} => Cache'[loc[c].fe] = Cache[loc[c].fe]

\* A client with a Flush has a file.
LEMMA FlusherFacts ==
    ASSUME PlaceInv, NEW c \in Clients, fl[c].kind # "none"
    PROVE  /\ pc[c] \in {"flushing", "fsync", "synced"} /\ loc[c].fe \in Files
           /\ \A x \in Blocks, i \in Cells : snap[c][x][i] \in Nat
<1>1. pc[c] \in {"flushing", "fsync", "synced"} /\ c \in Procs
  BY DEF PlaceInv, SafeInv, ClientInv, Procs
<1>2. loc[c].fe \in Files
  BY <1>1 DEF PlaceInv, TypeInv, BufferInv, LocalOK
<1>3. snap[c] \in [Blocks -> [Cells -> Nat]]
  BY DEF PlaceInv, TypeInv, TypeOK, FileContent, Content
<1> QED BY <1>1, <1>2, <1>3

LEMMA ContentCells ==
    ASSUME TypeOK, NEW f \in Files, NEW x \in Blocks, NEW i \in Cells
    PROVE  disk[f][x][i] \in Nat /\ latest[f][x][i] \in Nat
BY DEF TypeOK, FileContent, Content

LEMMA ContentCellsNext ==
    ASSUME TypeOK', NEW f \in Files, NEW x \in Blocks, NEW i \in Cells
    PROVE  disk'[f][x][i] \in Nat /\ latest'[f][x][i] \in Nat
BY DEF TypeOK, FileContent, Content

\* The content only moves on under it.
LEMMA KeptFlush ==
    ASSUME PlaceInv, PlaceInv', Grows, gone' = gone, NEW c \in Clients, FlushOK(c), Kept(c)
    PROVE  FlushOK(c)'
<1> SUFFICES ASSUME fl[c].kind # "none" PROVE FlushOK(c)'
  BY DEF FlushOK, Kept
<1>1. /\ loc[c].fe \in Files /\ loc'[c].fe = loc[c].fe /\ loc'[c].fb = loc[c].fb
      /\ fl'[c].pend = fl[c].pend /\ fl'[c].failed = fl[c].failed /\ snap'[c] = snap[c]
      /\ fl'[c].kind # "none"
  BY FlusherFacts DEF Kept
<1>2. fl[c].pend # {} => loc'[c].fb = Cache'[loc'[c].fe]
  BY <1>1 DEF FlushOK, Kept
<1>3. ASSUME ~gone[loc[c].fe], NEW x \in Blocks, NEW i \in Cells
      PROVE  /\ snap[c][x][i] <= latest'[loc[c].fe][x][i]
             /\ ~fl[c].failed /\ x \notin fl[c].pend => snap[c][x][i] <= disk'[loc[c].fe][x][i]
  <2>1. PICK f \in Files : f = loc[c].fe
    BY <1>1
  <2>2. disk[f][x][i] <= disk'[f][x][i] /\ latest[f][x][i] <= latest'[f][x][i]
    BY <1>3, <2>1 DEF Grows
  <2>3. /\ disk[f][x][i] \in Nat /\ disk'[f][x][i] \in Nat /\ latest[f][x][i] \in Nat
        /\ latest'[f][x][i] \in Nat /\ snap[c][x][i] \in Nat
    BY ContentCells, ContentCellsNext, FlusherFacts DEF PlaceInv, TypeInv
  <2>4. /\ snap[c][x][i] <= latest[f][x][i]
        /\ ~fl[c].failed /\ x \notin fl[c].pend => snap[c][x][i] <= disk[f][x][i]
    BY <1>3, <2>1 DEF FlushOK
  <2> QED BY <2>1, <2>2, <2>3, <2>4
<1> QED BY <1>1, <1>2, <1>3 DEF FlushOK

\* A step of another process, or outside a Flush.
LEMMA KeptFrame ==
    ASSUME NEW p \in Procs, Alone(p), UNCHANGED <<fl, snap, Cache>>,
           p \in Clients => fl[p].kind = "none" \/ loc'[p] = loc[p]
    PROVE  \A c \in Clients : Kept(c)
<1> SUFFICES ASSUME NEW c \in Clients PROVE Kept(c)
  OBVIOUS
<1>1. fl[c].kind = "none" \/ loc'[c] = loc[c]
  BY DEF Alone, Procs
<1> QED BY <1>1 DEF Kept

\* The steps of a Write are not part of a Flush.
LEMMA WriteKept ==
    ASSUME PlaceInv, DataInv, NEW c \in Clients,
           \/ \E x \in Blocks, off \in Cells, size \in 1 .. BlockSize : Write(c, x, off, size)
           \/ \E b \in Buffers : WriteAlloc(c, b)
           \/ WriteDirect(c) \/ WriteMerge(c) \/ WriteNoMerge(c)
           \/ Send(c) \/ WriteDirectDone(c) \/ WriteFullDone(c)
           \/ WriteFlushFail(c) \/ WriteFlushDirect(c) \/ WriteFlushReuse(c)
    PROVE  \A d \in Clients : Kept(d)
<1>0. c \in Procs
  BY DEF Procs
<1>1. fl[c].kind = "none"
  <2>1. pc[c] \in Writes \cup {"idle"}
    BY DEF Write, WriteAlloc, WriteDirect, WriteMerge, WriteNoMerge, AtWriteLock, Send, WriteDirectDone,
       WriteFullDone, WriteFlushFail, WriteFlushDirect, WriteFlushReuse, Writes
  <2> QED BY <2>1 DEF PlaceInv, SafeInv, ClientInv, Writes
<1>2. ASSUME NEW x \in Blocks, NEW off \in Cells, NEW size \in 1 .. BlockSize, Write(c, x, off, size)
      PROVE  \A d \in Clients : Kept(d)
  <2> DEFINE new == IF Cache[loc[c].fe] = 0 THEN made + 1 ELSE Cache[loc[c].fe]
  <2>1. /\ Cache' = [Cache EXCEPT ![loc[c].fe] = new]
        /\ loc' = [loc EXCEPT ![c] = [loc[c] EXCEPT !.fb = new, !.blk = x]]
        /\ UNCHANGED <<fl, snap>>
    BY <1>2 DEF Write, ghostVars
  <2>2. new = Cache[loc[c].fe] \/ Cache[loc[c].fe] = 0
    OBVIOUS
  <2> HIDE DEF new
  <2> SUFFICES ASSUME NEW d \in Clients, fl[d].kind # "none" PROVE Kept(d)
    BY <2>1 DEF Kept
  <2>3. d # c /\ loc'[d] = loc[d] /\ loc[d].fe \in Files
    BY <1>0, <1>1, <2>1, FlusherFacts DEF PlaceInv, TypeInv, TypeOK, Procs
  <2>4. fl[d].pend # {} => Cache[loc[d].fe] # 0
    BY DEF DataInv, FlushData, FlushOK, PlaceInv, TypeInv, FlushInv
  <2>5. fl[d].pend # {} => Cache'[loc[d].fe] = Cache[loc[d].fe]
    BY <2>1, <2>2, <2>3, <2>4 DEF PlaceInv, TypeInv, TypeOK
  <2> QED BY <2>1, <2>3, <2>5 DEF Kept
<1>3. ASSUME UNCHANGED <<fl, snap, Cache>>, Alone(c) PROVE \A d \in Clients : Kept(d)
  BY <1>0, <1>1, <1>3, KeptFrame
<1>r. ASSUME Return(c) PROVE Alone(c)
  BY <1>r, ReturnFacts DEF PlaceInv
<1>4. ASSUME NEW b \in Buffers, WriteAlloc(c, b) PROVE \A d \in Clients : Kept(d)
  <2>1. UNCHANGED <<fl, snap, Cache>>
    BY <1>4 DEF WriteAlloc
  <2>2. Return(c) \/ (loc' = [loc EXCEPT ![c].cur = b] /\ Goto(c, "wsend"))
    BY <1>4 DEF WriteAlloc
  <2>3. Alone(c)
    BY <1>0, <1>r, <2>2 DEF Goto, Alone, PlaceInv, TypeInv, TypeOK
  <2> QED BY <1>3, <2>1, <2>3
<1>5. ASSUME WriteMerge(c) PROVE \A d \in Clients : Kept(d)
  <2>1. UNCHANGED <<fl, snap, Cache>>
    BY <1>5 DEF WriteMerge
  <2>2. \/ Return(c)
        \/ /\ loc' = [loc EXCEPT ![c].cur = BufferMap[Key(c)]]
           /\ Goto(c, IF SyncIo THEN "wfull" ELSE "wsend")
    BY <1>5 DEF WriteMerge
  <2>3. Alone(c)
    BY <1>0, <1>r, <2>2 DEF Goto, Alone, PlaceInv, TypeInv, TypeOK
  <2> QED BY <1>3, <2>1, <2>3
<1>6. ASSUME WriteDirect(c) \/ WriteNoMerge(c) PROVE \A d \in Clients : Kept(d)
  <2>1. UNCHANGED <<fl, snap, Cache>>
    BY <1>6 DEF WriteDirect, WriteNoMerge
  <2>2. \/ loc' = loc /\ Goto(c, "wdirect")
        \/ loc' = [loc EXCEPT ![c].cur = BufferMap[Key(c)]] /\ Goto(c, "wflush")
    BY <1>6 DEF WriteDirect, WriteNoMerge
  <2>3. Alone(c)
    BY <1>0, <2>2 DEF Goto, Alone, PlaceInv, TypeInv, TypeOK
  <2> QED BY <1>3, <2>1, <2>3
<1>7. ASSUME \/ Send(c) \/ WriteDirectDone(c) \/ WriteFullDone(c)
             \/ WriteFlushFail(c) \/ WriteFlushReuse(c)
      PROVE  \A d \in Clients : Kept(d)
  <2>1. UNCHANGED <<fl, snap, Cache>> /\ Return(c)
    BY <1>7
    DEF Send, WriteDirectDone, WriteFullDone, WriteFlushFail, WriteFlushReuse, tableVars, ghostVars
  <2> QED BY <1>3, <1>r, <2>1
<1>8. ASSUME WriteFlushDirect(c) PROVE \A d \in Clients : Kept(d)
  <2>1. /\ UNCHANGED <<fl, snap, Cache>> /\ Goto(c, "wdirect")
        /\ loc' = [loc EXCEPT ![c] = [loc[c] EXCEPT !.cur = NoBuf, !.res = "none"]]
    BY <1>8 DEF WriteFlushDirect, ghostVars
  <2>2. Alone(c)
    BY <1>0, <2>1 DEF Goto, Alone, PlaceInv, TypeInv, TypeOK
  <2> QED BY <1>3, <2>1, <2>2
<1> QED BY <1>2, <1>4, <1>5, <1>6, <1>7, <1>8

\* Nor are requests, the goroutines that share it out, or CheckExpire and SyncWrite.
LEMMA GoroutineKept ==
    ASSUME PlaceInv, NEW p \in Procs,
           \/ p \in Workers /\ TakeIndex(p)
           \/ p \in Workers \cup Expirers /\ FlushLock(p)
           \/ p \in Expirers /\ ExpireStep(p)
           \/ p \in Syncers /\ SyncStep(p)
           \/ Rpc(p)
    PROVE  \A c \in Clients : Kept(c)
<1>1. ASSUME p \in Workers, TakeIndex(p) PROVE \A c \in Clients : Kept(c)
  <2>1. PICK x \in fl[p[1]].mq :
           /\ fl' = [fl EXCEPT ![p[1]].mq = @ \ {x}]
           /\ loc' = [loc EXCEPT ![p] = [@ EXCEPT !.fb = loc[p[1]].fb, !.blk = x]]
    BY <1>1 DEF TakeIndex
  <2>2. UNCHANGED <<snap, Cache>>
    BY <1>1 DEF TakeIndex, tableVars, ghostVars
  <2>3. \A c \in Clients : loc'[c] = loc[c]
    BY <1>1, <2>1, WCacheAssumption DEF PlaceInv, TypeInv, TypeOK, Procs
  <2>4. \A c \in Clients : /\ fl'[c].kind = fl[c].kind /\ fl'[c].pend = fl[c].pend
                           /\ fl'[c].failed = fl[c].failed
    BY <2>1 DEF PlaceInv, TypeInv, TypeOK, FlType
  <2> QED BY <2>2, <2>3, <2>4 DEF Kept
<1>2. ASSUME p \notin Clients, UNCHANGED <<fl, snap, Cache>>, Alone(p)
      PROVE  \A c \in Clients : Kept(c)
  BY <1>2, KeptFrame
<1>3. ASSUME p \in Workers \cup Expirers, FlushLock(p) PROVE \A c \in Clients : Kept(c)
  <2>1. UNCHANGED <<fl, snap, Cache>> /\ loc' = [loc EXCEPT ![p].cur = BufferMap[Key(p)]]
        /\ Goto(p, "fflush")
    BY <1>3 DEF FlushLock, ghostVars
  <2>2. Alone(p) /\ p \notin Clients
    BY <1>3, <2>1, WCacheAssumption DEF Goto, Alone, PlaceInv, TypeInv, TypeOK
  <2> QED BY <1>2, <2>1, <2>2
<1>4. ASSUME p \in Expirers, ExpireStep(p) PROVE \A c \in Clients : Kept(c)
  <2>0. p \notin Clients
    BY <1>4, WCacheAssumption
  <2>1. CASE LruExpire(p)
    <3>1. PICK b \in LruList :
             loc' = [loc EXCEPT ![p] = [@ EXCEPT !.fe = buf[b].fe, !.blk = buf[b].BlkIdx]]
      BY <2>1 DEF LruExpire
    <3>2. UNCHANGED <<fl, snap, Cache>> /\ Goto(p, "elookup")
      BY <2>1 DEF LruExpire, tableVars, ghostVars
    <3>3. Alone(p)
      BY <3>1, <3>2 DEF Goto, Alone, PlaceInv, TypeInv, TypeOK
    <3> QED BY <1>2, <2>0, <3>2, <3>3
  <2>2. CASE ExpireLookup(p)
    <3>1. UNCHANGED <<fl, snap, Cache>>
      BY <2>2 DEF ExpireLookup, tableVars, ghostVars
    <3>2. Alone(p)
      BY <2>2 DEF ExpireLookup, Goto, Alone, PlaceInv, TypeInv, TypeOK
    <3> QED BY <1>2, <2>0, <3>1, <3>2
  <2> QED BY <1>4, <2>1, <2>2 DEF ExpireStep
<1>5. ASSUME p \in Syncers, SyncStep(p) PROVE \A c \in Clients : Kept(c)
  <2>0. p \notin Clients
    BY <1>5, WCacheAssumption
  <2>1. CASE SyncTake(p)
    <3>1. PICK b \in chSync :
             loc' = [loc EXCEPT ![p] = [@ EXCEPT !.fb = Cache[buf[b].fe],
                                                  !.blk = buf[b].BlkIdx, !.cur = b]]
      BY <2>1 DEF SyncTake
    <3>2. UNCHANGED <<fl, snap, Cache>> /\ Goto(p, "sync")
      BY <2>1 DEF SyncTake, tableVars, ghostVars
    <3>3. Alone(p)
      BY <3>1, <3>2 DEF Goto, Alone, PlaceInv, TypeInv, TypeOK
    <3> QED BY <1>2, <2>0, <3>2, <3>3
  <2>2. CASE SyncDone(p)
    <3>1. /\ UNCHANGED <<fl, snap, Cache>>
          /\ \/ Goto(p, "idle") /\ loc' = [loc EXCEPT ![p] = NoLoc]
             \/ Goto(p, "syncU") /\ loc' = loc
      BY <2>2 DEF SyncDone, ghostVars
    <3>2. Alone(p)
      BY <3>1 DEF Goto, Alone, PlaceInv, TypeInv, TypeOK
    <3> QED BY <1>2, <2>0, <3>1, <3>2
  <2>3. CASE SyncUnlock(p)
    <3>1. UNCHANGED <<fl, snap, Cache>> /\ Goto(p, "idle") /\ loc' = [loc EXCEPT ![p] = NoLoc]
      BY <2>3 DEF SyncUnlock, ghostVars
    <3>2. Alone(p)
      BY <3>1 DEF Goto, Alone, PlaceInv, TypeInv, TypeOK
    <3> QED BY <1>2, <2>0, <3>1, <3>2
  <2> QED BY <1>5, <2>1, <2>2, <2>3 DEF SyncStep
<1>6. ASSUME Rpc(p) PROVE \A c \in Clients : Kept(c)
  <2>1. PICK r \in {"ok", "eio", "enoent"} : Reply(p, r)
    BY <1>6 DEF Rpc, RpcOk, RpcEio, RpcGone
  <2>2. /\ pc[p] \in {"wdirect", "wfull", "wflush", "fflush", "sync"}
        /\ UNCHANGED <<fl, snap, Cache>> /\ loc' = [loc EXCEPT ![p].res = r]
        /\ Goto(p, Replied[pc[p]])
    BY <2>1 DEF Reply, Replied, tableVars, ghostVars
  <2>3. Alone(p)
    BY <2>2 DEF Goto, Alone, PlaceInv, TypeInv, TypeOK
  <2>4. p \in Clients => fl[p].kind = "none"
    BY <2>2 DEF PlaceInv, SafeInv, ClientInv
  <2> QED BY <2>2, <2>3, <2>4, KeptFrame
<1> QED BY <1>1, <1>3, <1>4, <1>5, <1>6

\* What happens to the Flush of a client: it begins, a result comes in, it ends.
Begins(c) ==
    /\ fl[c].kind = "none" /\ fl'[c].kind # "none" /\ ~fl'[c].failed
    /\ loc'[c].fe \in Files /\ snap'[c] = latest[loc'[c].fe]
Reported(c) ==
    /\ fl[c].pend # {} /\ fl'[c].kind = fl[c].kind
    /\ snap'[c] = snap[c] /\ loc'[c] = loc[c]
Ends(c) == fl[c].pend = {} /\ fl'[c].kind = "none"

FlushMove ==
    \E c \in Clients : /\ \A d \in Clients \ {c} : Kept(d)
                       /\ Begins(c) \/ Reported(c) \/ Ends(c)

\* What was accepted for a block without a buffer is on the server.
LEMMA NoBufferStored ==
    ASSUME PlaceInv, BlockInv, NEW f \in Files, NEW x \in Blocks, ~gone[f], BufAt(f, x) = NoBuf,
           NEW i \in Cells
    PROVE  latest[f][x][i] <= disk[f][x][i]
<1>1. View(f, x)[i] = disk[f][x][i]
  BY ViewCells DEF PlaceInv, TypeInv
<1> QED BY <1>1 DEF BlockInv

\* A Flush begins: what it finds no buffer for is stored.
LEMMA BeginFlush ==
    ASSUME PlaceInv, PlaceInv', DataInv, NEW c \in Clients, NEW f \in Files,
           NEW kind, kind # "none", Starts(c, f, kind)
    PROVE  FlushMove /\ FlushData'
<1> DEFINE idx == {x \in Blocks : Cache[f] # 0 /\ BufferMap[<<Cache[f], x>>] # NoBuf}
<1>1. TypeOK
  BY DEF PlaceInv, TypeInv
<1>2. /\ UNCHANGED <<Cache, BufferMap, buf, disk, gone, latest>> /\ pc[c] \in Resting
      /\ loc'[c].fe = f /\ loc'[c].fb = Cache[f] /\ snap'[c] = latest[f]
      /\ \A d \in Clients \ {c} : snap'[d] = snap[d] /\ loc'[d] = loc[d]
  BY <1>1, StartFacts DEF Procs
<1>3. /\ fl'[c].kind = kind /\ fl'[c].pend = idx /\ ~fl'[c].failed
      /\ \A d \in Clients \ {c} : fl'[d] = fl[d]
  BY <1>1, StartFinds
<1> HIDE DEF idx
<1>4. fl[c].kind = "none"
  BY <1>2 DEF PlaceInv, SafeInv, ClientInv, Resting
<1>5. \A d \in Clients \ {c} : Kept(d)
  BY <1>2, <1>3 DEF Kept
<1>6. Begins(c)
  BY <1>2, <1>3, <1>4 DEF Begins
<1>7. FlushOK(c)'
  <2>1. ASSUME ~gone[f], NEW x \in Blocks, NEW i \in Cells
        PROVE  /\ latest[f][x][i] <= latest[f][x][i]
               /\ x \notin idx => latest[f][x][i] <= disk[f][x][i]
    <3>1. latest[f][x][i] \in Nat
      BY ContentCells DEF PlaceInv, TypeInv
    <3>2. x \notin idx => BufAt(f, x) = NoBuf
      BY DEF idx, BufAt
    <3> QED BY <2>1, <3>1, <3>2, NoBufferStored DEF DataInv
  <2> QED BY <1>2, <1>3, <2>1 DEF FlushOK
<1>8. ASSUME NEW d \in Clients \ {c} PROVE FlushOK(d)'
  <2>1. Kept(d) /\ FlushOK(d)
    BY <1>5 DEF DataInv, FlushData
  <2>2. Grows
    BY <1>2, ContentCells DEF Grows, PlaceInv, TypeInv
  <2> QED BY <1>2, <2>1, <2>2, KeptFlush
<1> QED BY <1>5, <1>6, <1>7, <1>8 DEF FlushMove, FlushData

\* A result comes in: a block without failure is stored, whatever it was that
\* made its buffer go.
LEMMA ReportData ==
    ASSUME PlaceInv, PlaceInv', DataInv, NEW p \in Workers \cup Expirers,
           FlushNothing(p) \/ FlushDone(p)
    PROVE  ((\A c \in Clients : Kept(c)) \/ FlushMove) /\ FlushData'
<1>1. PICK failed \in BOOLEAN :
         /\ Report(p, failed) /\ pc[p] \in Flushers
         /\ \/ BufferMap[Key(p)] = NoBuf
            \/ pc[p] = "fflushR" /\ (~failed => loc[p].res = "ok")
  <2>1. CASE FlushNothing(p)
    BY <2>1 DEF FlushNothing, Flushers
  <2>2. CASE FlushDone(p)
    BY <2>2 DEF FlushDone, Flushers
  <2> QED BY <2>1, <2>2
<1>2. /\ snap' = snap /\ UNCHANGED <<Cache, disk, gone, latest, buf>>
  BY DEF FlushNothing, FlushDone, poolVars, tableVars, diskVars, ghostVars
<1>3. p \in Procs /\ p \notin Clients /\ Alone(p) /\ \A c \in Clients : loc'[c] = loc[c]
  <2>1. p \in Procs /\ p \notin Clients /\ Alone(p)
    BY <1>1, ReportFacts DEF PlaceInv
  <2> QED BY <2>1 DEF Alone, Procs
<1>4. Grows
  BY <1>2, ContentCells DEF Grows, PlaceInv, TypeInv
<1>5. ASSUME NEW c \in Clients, Kept(c) PROVE FlushOK(c)'
  BY <1>2, <1>4, <1>5, KeptFlush DEF DataInv, FlushData
<1>6. CASE p \notin Workers
  <2>1. fl' = fl
    BY <1>1, <1>6 DEF Report
  <2>2. \A c \in Clients : Kept(c)
    BY <1>2, <1>3, <2>1 DEF Kept
  <2> QED BY <1>5, <2>2 DEF FlushData
<1>7. CASE p \in Workers
  <2>1. PICK c \in Clients : c = p[1]
    BY <1>7 DEF Workers
  <2>2. PICK x \in Blocks : x = loc[p].blk
    BY <1>3 DEF PlaceInv, TypeInv, TypeOK, LocType
  <2>3. fl' = [fl EXCEPT ![c] = Result(fl[c], x, failed)]
    BY <1>1, <1>7, <2>1, <2>2 DEF Report
  <2>4. /\ fl'[c].kind = fl[c].kind /\ fl'[c].pend = fl[c].pend \ {x}
        /\ (fl'[c].failed <=> fl[c].failed \/ failed)
        /\ \A d \in Clients \ {c} : fl'[d] = fl[d]
    BY <2>3, ResultType DEF PlaceInv, TypeInv, TypeOK
  <2>5. x \in fl[c].pend /\ loc[p].fb = loc[c].fb /\ loc[c].fb # 0
    BY <1>1, <1>7, <2>1, <2>2 DEF PlaceInv, TypeInv, FlushInv
  <2>6. \A d \in Clients \ {c} : Kept(d)
    BY <1>2, <1>3, <2>4 DEF Kept
  <2>7. Reported(c)
    BY <1>2, <1>3, <2>4, <2>5 DEF Reported
  <2>8. ASSUME fl[c].kind # "none" PROVE FlushOK(c)'
    <3>1. PICK f \in Files : f = loc[c].fe
      BY <2>8, FlusherFacts
    <3>2. FlushOK(c) /\ loc[c].fb = Cache[f] /\ Key(p) = <<Cache[f], x>> /\ Cache[f] # 0
      BY <2>2, <2>5, <2>8, <3>1 DEF DataInv, FlushData, FlushOK, Key
    <3>3. ASSUME ~gone[f], ~failed, NEW i \in Cells PROVE snap[c][x][i] <= disk[f][x][i]
      <4>1. snap[c][x][i] <= latest[f][x][i]
        BY <2>8, <3>1, <3>2, <3>3 DEF FlushOK
      <4>2. latest[f][x][i] <= disk[f][x][i]
        <5>1. CASE BufferMap[Key(p)] = NoBuf
          <6>1. BufAt(f, x) = NoBuf
            BY <3>2, <5>1 DEF BufAt
          <6> QED BY <3>3, <6>1, NoBufferStored DEF DataInv
        <5>2. CASE pc[p] = "fflushR" /\ loc[p].res = "ok"
          <6>1. pc[p] \in Answered /\ Home(loc[p].cur) = Key(p) /\ loc[p].cur \in Named
            BY <1>3, <5>2, HolderFacts, DataLabels
            DEF Answered, PlaceInv, SafeInv, CoreInv, TypeInv, BufferInv, LocalOK
          <6>2. buf[loc[p].cur].fe = f
            BY <3>2, <6>1 DEF Home, Named, PlaceInv, SafeInv, TableInv
          <6>3. disk[f][x][i] = View(f, x)[i]
            BY <1>3, <2>2, <3>3, <5>2, <6>1, <6>2 DEF DataInv, HoldInv, HoldOK, AnswerOK
          <6>4. latest[f][x][i] <= View(f, x)[i]
            BY <3>3 DEF DataInv, BlockInv
          <6> QED BY <6>3, <6>4
        <5> QED BY <1>1, <3>3, <5>1, <5>2
      <4>3. snap[c][x][i] \in Nat /\ latest[f][x][i] \in Nat /\ disk[f][x][i] \in Nat
        BY <2>8, FlusherFacts, ContentCells DEF PlaceInv, TypeInv
      <4> QED BY <4>1, <4>2, <4>3
    <3>4. ASSUME ~gone[f], ~fl[c].failed, ~failed, NEW y \in Blocks, y \notin fl[c].pend \ {x},
                 NEW i \in Cells
          PROVE  snap[c][y][i] <= disk[f][y][i]
      <4>1. CASE y = x
        BY <3>3, <3>4, <4>1
      <4>2. CASE y # x
        BY <2>8, <3>1, <3>2, <3>4, <4>2 DEF FlushOK
      <4> QED BY <4>1, <4>2
    <3>5. loc'[c].fe = f /\ loc'[c].fb = Cache'[f] /\ snap'[c] = snap[c]
      BY <1>2, <1>3, <3>1, <3>2
    <3>6. ~gone[f] => \A y \in Blocks, i \in Cells : snap[c][y][i] <= latest[f][y][i]
      BY <2>8, <3>1, <3>2 DEF FlushOK
    <3> QED BY <1>2, <2>4, <2>8, <3>4, <3>5, <3>6 DEF FlushOK
  <2>9. fl[c].kind = "none" => FlushOK(c)'
    BY <1>2, <2>4 DEF DataInv, FlushData, FlushOK
  <2> QED BY <1>5, <2>6, <2>7, <2>8, <2>9 DEF FlushMove, FlushData
<1> QED BY <1>6, <1>7

\* A Flush goes on to the Fsync request, or returns to its caller.
LEMMA EndFlushData ==
    ASSUME PlaceInv, PlaceInv', DataInv, NEW c \in Clients,
           FlushToFsync(c) \/ FsyncReply(c) \/ FsyncReturn(c) \/ CloseFail(c) \/ CloseDone(c)
    PROVE  ((\A d \in Clients : Kept(d)) \/ FlushMove) /\ FlushData'
<1>0. c \in Procs /\ pc[c] \in {"flushing", "fsync", "synced"} /\ fl[c].pend = {}
  BY DEF FlushToFsync, FsyncReply, FsyncReturn, CloseFail, CloseDone, FlushReturned, Procs,
     PlaceInv, TypeInv, FlushInv
<1>1. UNCHANGED <<disk, gone, latest>>
  BY DEF FlushToFsync, FsyncReply, FsyncReturn, CloseFail, CloseDone, diskVars, ghostVars
<1>2. Grows
  BY <1>1, ContentCells DEF Grows, PlaceInv, TypeInv
<1>3. ASSUME NEW d \in Clients, Kept(d) PROVE FlushOK(d)'
  BY <1>1, <1>2, <1>3, KeptFlush DEF DataInv, FlushData
<1>4. CASE UNCHANGED <<fl, snap, loc, Cache>>
  <2>1. \A d \in Clients : Kept(d)
    BY <1>4 DEF Kept
  <2> QED BY <1>3, <2>1 DEF FlushData
<1>5. CASE /\ EndFlush(c) /\ \A d \in Clients \ {c} : loc'[d] = loc[d]
           /\ Cache' = Cache \/ (fl[c].kind = "closelast" /\ Cache' = [Cache EXCEPT ![loc[c].fe] = 0])
  <2>1. /\ fl'[c].kind = "none" /\ \A d \in Clients \ {c} : fl'[d] = fl[d] /\ snap'[d] = snap[d]
    BY <1>5 DEF EndFlush, NoFl, PlaceInv, TypeInv, TypeOK
  <2>2. ASSUME NEW d \in Clients \ {c}, fl[d].kind # "none" PROVE Cache'[loc[d].fe] = Cache[loc[d].fe]
    <3>1. loc[d].fe \in Files /\ pc[d] \notin Resting
      BY <2>2, FlusherFacts DEF Resting
    <3>2. fl[c].kind = "closelast" => loc[d].fe # loc[c].fe
      BY <3>1 DEF PlaceInv, SafeInv, ClientInv
    <3> QED BY <1>5, <3>1, <3>2 DEF PlaceInv, TypeInv, TypeOK
  <2>3. \A d \in Clients \ {c} : Kept(d)
    BY <1>5, <2>1, <2>2 DEF Kept
  <2>4. Ends(c) /\ FlushOK(c)'
    <3>1. snap'[c] = [x \in Blocks |-> Blank]
      BY <1>5 DEF EndFlush, PlaceInv, TypeInv, TypeOK
    <3> QED BY <1>0, <2>1, <3>1 DEF Ends, FlushOK, Blank
  <2> QED BY <1>3, <2>3, <2>4 DEF FlushMove, FlushData
<1>r. ASSUME Return(c) PROVE \A d \in Clients \ {c} : loc'[d] = loc[d]
  BY <1>r DEF Return, PlaceInv, TypeInv, TypeOK, Procs
<1>6. CASE FlushToFsync(c)
  BY <1>4, <1>6 DEF FlushToFsync, tableVars, ghostVars
<1>7. CASE FsyncReply(c) \/ FsyncReturn(c) \/ CloseFail(c)
  BY <1>4, <1>5, <1>7, <1>r DEF FsyncReply, FsyncReturn, CloseFail, tableVars
<1>8. CASE CloseDone(c)
  <2>1. EndFlush(c) /\ loc' = [loc EXCEPT ![c] = NoLoc]
        /\ (Cache' = Cache \/ (fl[c].kind = "closelast" /\ Cache' = [Cache EXCEPT ![loc[c].fe] = 0]))
    BY <1>8 DEF CloseDone
  <2>2. \A d \in Clients \ {c} : loc'[d] = loc[d]
    BY <2>1 DEF PlaceInv, TypeInv, TypeOK, Procs
  <2> QED BY <1>5, <2>1, <2>2
<1> QED BY <1>6, <1>7, <1>8

-----------------------------------------------------------------------------
(* Every step *)

\* A file that is removed leaves the data of the others alone.
LEMMA UnlinkData ==
    ASSUME PlaceInv, DataInv, NEW f \in Unlinks, Unlink(f)
    PROVE  DataInv'
<1>1. /\ gone' = [gone EXCEPT ![f] = TRUE] /\ f \in Files
      /\ UNCHANGED <<Cache, BufferMap, buf, pc, loc, op, fl, disk, ver, latest, snap>>
  BY WCacheAssumption DEF Unlink, poolVars, tableVars, localVars, ghostVars
<1>2. \A g \in Files : ~gone'[g] => ~gone[g]
  BY <1>1 DEF PlaceInv, TypeInv, TypeOK
<1>3. \A g \in Files, y \in Blocks : View(g, y)' = View(g, y)
  BY <1>1 DEF View
<1>4. BlockInv'
  BY <1>1, <1>2, <1>3 DEF DataInv, BlockInv
<1>5. ASSUME NEW p \in Procs PROVE HoldOK(p)'
  <2>1. HoldOK(p) /\ loc'[p] = loc[p] /\ pc'[p] = pc[p] /\ loc[p].blk \in Blocks
    BY <1>1 DEF DataInv, HoldInv, PlaceInv, TypeInv, TypeOK, LocType
  <2>2. ASSUME p \in Clients PROVE OpOK(p)'
    <3> SUFFICES ASSUME pc[p] \in Drawn \cup {"wdirectR"} PROVE OpOK(p)'
      BY <2>1 DEF OpOK
    <3>1. PICK g \in Files, y \in Blocks : g = loc[p].fe /\ y = loc[p].blk
      BY <2>2, WriterFacts, DataLabels
    <3>2. View(loc[p].fe, loc[p].blk) = View(g, y) /\ View(loc[p].fe, loc[p].blk)' = View(g, y)'
      BY <2>1, <3>1
    <3> QED BY <1>1, <1>2, <1>3, <2>1, <2>2, <3>1, <3>2 DEF HoldOK, OpOK
  <2>3. DirectOK(p)'
    BY <1>1, <2>1 DEF HoldOK, DirectOK, Key
  <2>4. AnswerOK(p)'
    <3> SUFFICES ASSUME pc[p] \in Answered PROVE AnswerOK(p)'
      BY <2>1 DEF AnswerOK
    <3>1. loc[p].cur \in Named
      BY DataLabels DEF PlaceInv, TypeInv, BufferInv, LocalOK
    <3>2. PICK g \in Files, y \in Blocks : g = buf[loc[p].cur].fe /\ y = loc[p].blk
      BY <2>1, <3>1 DEF Named
    <3>3. View(buf[loc[p].cur].fe, loc[p].blk) = View(g, y)
          /\ View(buf[loc[p].cur].fe, loc[p].blk)' = View(g, y)'
      BY <1>1, <2>1, <3>2
    <3> QED BY <1>1, <1>2, <1>3, <2>1, <3>2, <3>3 DEF HoldOK, AnswerOK
  <2> QED BY <2>2, <2>3, <2>4 DEF HoldOK
<1>6. ASSUME NEW c \in Clients PROVE FlushOK(c)'
  BY <1>1, <1>2, FlusherFacts DEF DataInv, FlushData, FlushOK
<1> QED BY <1>4, <1>5, <1>6 DEF DataInv, HoldInv, FlushData

\* A step moves the data of one block, or a Flush, or removes a file.
LEMMA NextData ==
    ASSUME PlaceInv, PlaceInv', DataInv, Next
    PROVE  /\ DataInv'
           /\ \/ DataStep /\ \A c \in Clients : Kept(c)
              \/ DataStep /\ Still /\ FlushMove
              \/ \E f \in Unlinks : Unlink(f)
<1> DEFINE Goal == /\ DataInv'
                   /\ \/ DataStep /\ \A c \in Clients : Kept(c)
                      \/ DataStep /\ Still /\ FlushMove
                      \/ \E f \in Unlinks : Unlink(f)
<1>0. /\ Clients \subseteq Procs /\ Workers \subseteq Procs /\ Expirers \subseteq Procs
      /\ Syncers \subseteq Procs
  BY DEF Procs
<1>1. ASSUME DataStep, HoldInv', \A c \in Clients : Kept(c) PROVE Goal
  <2>1. BlockInv' /\ Grows /\ gone' = gone
    BY <1>1, DataStepGrows DEF PlaceInv, TypeInv, DataInv, DataStep, Forward
  <2>2. FlushData'
    BY <1>1, <2>1, KeptFlush DEF DataInv, FlushData
  <2> QED BY <1>1, <2>1, <2>2 DEF DataInv
<1>2. ASSUME DataStep, Still, HoldInv', (\A c \in Clients : Kept(c)) \/ FlushMove, FlushData'
      PROVE  Goal
  <2>1. BlockInv'
    BY <1>2, DataStepGrows DEF PlaceInv, TypeInv, DataInv
  <2> QED BY <1>2, <2>1 DEF DataInv
<1>3. ASSUME NEW f \in Unlinks, Unlink(f) PROVE Goal
  BY <1>3, UnlinkData
<1> HIDE DEF Goal
<1>4. ASSUME NEW c \in Clients,
             \/ \E x \in Blocks, off \in Cells, size \in 1 .. BlockSize : Write(c, x, off, size)
             \/ \E b \in Buffers : WriteAlloc(c, b)
             \/ WriteDirect(c) \/ WriteMerge(c) \/ WriteNoMerge(c)
             \/ Send(c) \/ WriteDirectDone(c) \/ WriteFullDone(c)
             \/ WriteFlushFail(c) \/ WriteFlushDirect(c) \/ WriteFlushReuse(c)
      PROVE  Goal
  <2>1. \A d \in Clients : Kept(d)
    BY <1>4, WriteKept
  <2>2. DataStep /\ HoldInv'
    <3>1. CASE \E x \in Blocks, off \in Cells, size \in 1 .. BlockSize : Write(c, x, off, size)
      BY <3>1, WriteData
    <3>2. CASE \E b \in Buffers : WriteAlloc(c, b)
      BY <3>2, WriteAllocData
    <3>3. CASE WriteDirect(c) \/ WriteNoMerge(c)
      BY <3>3, WriteLockData
    <3>4. CASE WriteMerge(c)
      BY <3>4, WriteMergeData
    <3>5. CASE WriteDirectDone(c)
      BY <3>5, WriteDirectDoneData
    <3>6. CASE WriteFlushReuse(c)
      BY <3>6, WriteFlushReuseData
    <3>7. CASE Send(c) \/ WriteFullDone(c) \/ WriteFlushFail(c) \/ WriteFlushDirect(c)
      BY <3>7, WriteEndData
    <3> QED BY <1>4, <3>1, <3>2, <3>3, <3>4, <3>5, <3>6, <3>7
  <2> QED BY <1>1, <2>1, <2>2
<1>5. ASSUME NEW c \in Clients, NEW f \in Files, Open(c, f) PROVE Goal
  <2>1. DataStep /\ HoldInv'
    BY <1>5, HandleData
  <2>2. c \in Procs /\ UNCHANGED <<fl, snap, Cache>> /\ fl[c].kind = "none" /\ Alone(c)
    BY <1>0, <1>5 DEF Open, Goto, Alone, tableVars, ghostVars, PlaceInv, TypeInv, TypeOK, SafeInv, ClientInv
  <2> QED BY <1>1, <2>1, <2>2, KeptFrame
<1>6. ASSUME NEW c \in Clients, Flush(c) \/ Close(c) PROVE Goal
  <2>1. DataStep /\ Still /\ HoldInv'
    BY <1>6, HandleData
  <2>2. PICK kind \in {"fsync", "close", "closelast"} : StartFlush(c, kind)
    BY <1>6 DEF Flush, Close
  <2>3. FlushMove /\ FlushData'
    BY <2>2, FlushStarts, BeginFlush DEF PlaceInv
  <2> QED BY <1>2, <2>1, <2>3
<1>7. ASSUME NEW c \in Clients,
             FlushToFsync(c) \/ FsyncReply(c) \/ FsyncReturn(c) \/ CloseFail(c) \/ CloseDone(c)
      PROVE  Goal
  BY <1>2, <1>7, HandleData, EndFlushData
<1>8. ASSUME NEW p \in Workers \cup Expirers, FlushNothing(p) \/ FlushDone(p) PROVE Goal
  <2>1. p \in Procs /\ p \notin Clients
    BY <1>0, WCacheAssumption
  <2>2. DataStep /\ Still /\ HoldInv'
    BY <1>8, <2>1, GoroutineData DEF FlushStep
  <2> QED BY <1>2, <1>8, <2>2, ReportData
<1>9. ASSUME NEW p \in Procs, p \notin Clients,
             \/ p \in Workers /\ TakeIndex(p)
             \/ p \in Workers \cup Expirers /\ FlushLock(p)
             \/ p \in Expirers /\ ExpireStep(p)
             \/ p \in Syncers /\ SyncStep(p)
      PROVE  Goal
  BY <1>1, <1>9, GoroutineData, GoroutineKept DEF FlushStep
<1>10. ASSUME NEW p \in Procs, Rpc(p) PROVE Goal
  BY <1>1, <1>10, RpcData, GoroutineKept
<1>11. \A p \in Workers \cup Expirers \cup Syncers : p \in Procs /\ p \notin Clients
  BY <1>0, WCacheAssumption
<1>12. ASSUME NEW c \in Clients,
              \/ \E f \in Files : Open(c, f)
              \/ \E x \in Blocks, off \in Cells, size \in 1 .. BlockSize : Write(c, x, off, size)
              \/ Flush(c) \/ Close(c) \/ ClientStep(c)
       PROVE  Goal
  BY <1>4, <1>5, <1>6, <1>7, <1>12, Zenon DEF ClientStep
<1>13. ASSUME NEW p \in Workers \cup Expirers, FlushStep(p) PROVE Goal
  BY <1>8, <1>9, <1>11, <1>13 DEF FlushStep
<1> QED
  <2>1. Goal
    BY <1>3, <1>9, <1>10, <1>11, <1>12, <1>13 DEF Next
  <2> QED BY <2>1 DEF Goal

\* The initial state.
LEMMA InitData == Init => DataInv
<1> SUFFICES ASSUME Init PROVE DataInv
  OBVIOUS
<1>1. \A p \in Procs : pc[p] \in {"closed", "idle"}
  BY DEF Init
<1>2. ASSUME NEW p \in Procs PROVE HoldOK(p)
  BY <1>1, HoldNothing, DataLabels
<1>3. BlockInv
  BY DEF Init, BlockInv, View, Blank
<1>4. FlushData
  BY DEF Init, FlushData, FlushOK, NoFl, Blank
<1> QED BY <1>2, <1>3, <1>4 DEF DataInv, HoldInv

\* A step that changes nothing.
LEMMA StutterData ==
    ASSUME PlaceInv, DataInv, UNCHANGED vars
    PROVE  DataInv'
<1>1. /\ UNCHANGED <<Cache, BufferMap, buf, pc, loc, op, fl, disk, gone, ver, latest, snap>>
  BY DEF vars, poolVars, tableVars, localVars, diskVars, ghostVars
<1>2. BlockInv'
  BY <1>1 DEF DataInv, BlockInv, View
<1>3. HoldInv'
  BY <1>1 DEF DataInv, HoldInv, HoldOK, OpOK, DirectOK, AnswerOK, Key, View
<1>4. FlushData'
  BY <1>1 DEF DataInv, FlushData, FlushOK
<1> QED BY <1>2, <1>3, <1>4 DEF DataInv

\* The invariant of the data holds in every reachable state.
LEMMA DataInvHolds ==
    ASSUME ~OpenDuringLastClose, OwnUnlock
    PROVE  Spec => [](PlaceInv /\ DataInv)
<1>1. Init => PlaceInv /\ DataInv /\ LastInv
  BY InitTypeInv, InitSafeInv, InitData DEF PlaceInv
<1>2. PlaceInv /\ DataInv /\ LastInv /\ [Next]_vars => (PlaceInv /\ DataInv /\ LastInv)'
  <2> SUFFICES ASSUME PlaceInv, DataInv, LastInv, [Next]_vars PROVE PlaceInv' /\ DataInv' /\ LastInv'
    OBVIOUS
  <2>1. PlaceInv'
    BY NextTypeInv, NextSafeInv, NextUnlockInv DEF PlaceInv
  <2>2. LastInv'
    BY NextLastInv DEF PlaceInv
  <2> QED BY <2>1, <2>2, NextData, StutterData
<1> QED BY <1>1, <1>2, PTL DEF Spec

\* A read never sees less than every write the cache has accepted (Coherent),
\* for any number of handles, goroutines, buffers and failing requests, unless
\* a file is opened again while its last handle is being closed, or SyncWrite
\* unlocks another block than its own (OwnUnlock).
THEOREM ReadsCoherent ==
    ASSUME ~OpenDuringLastClose, OwnUnlock
    PROVE  Spec => []Coherent
<1>1. PlaceInv /\ DataInv => Coherent
  <2> SUFFICES ASSUME PlaceInv, DataInv, NEW f \in Files, NEW x \in Blocks, NEW i \in Cells, ~gone[f]
               PROVE  View(f, x)[i] >= latest[f][x][i]
    BY DEF Coherent
  <2>1. latest[f][x][i] <= View(f, x)[i]
    BY DEF DataInv, BlockInv
  <2>2. latest[f][x][i] \in Nat /\ View(f, x)[i] \in Nat
    BY ViewCells DEF PlaceInv, TypeInv, Content
  <2> QED BY <2>1, <2>2
<1> QED BY <1>1, DataInvHolds, PTL

\* When WCache.Flush returns nil the server has everything that was accepted
\* before it began (FlushDurable), whichever goroutine wrote each buffer, under
\* the same provisos.
THEOREM FlushIsDurable ==
    ASSUME ~OpenDuringLastClose, OwnUnlock
    PROVE  Spec => []FlushDurable
<1>1. PlaceInv /\ DataInv => FlushDurable
  <2> SUFFICES ASSUME PlaceInv, DataInv, NEW c \in Clients, FlushReturned(c), ~fl[c].failed,
                      ~gone[loc[c].fe], NEW x \in Blocks, NEW i \in Cells
               PROVE  disk[loc[c].fe][x][i] >= snap[c][x][i]
    BY DEF FlushDurable
  <2>1. CASE fl[c].kind # "none"
    <3>1. snap[c][x][i] <= disk[loc[c].fe][x][i]
      BY <2>1 DEF FlushReturned, DataInv, FlushData, FlushOK
    <3>2. snap[c][x][i] \in Nat /\ disk[loc[c].fe][x][i] \in Nat
      BY <2>1, FlusherFacts, ContentCells DEF PlaceInv, TypeInv
    <3> QED BY <3>1, <3>2
  <2>2. CASE fl[c].kind = "none"
    <3>1. snap[c][x][i] = 0
      BY <2>2 DEF DataInv, FlushData, FlushOK
    <3>2. loc[c].fe \in Files
      BY DEF FlushReturned, PlaceInv, TypeInv, BufferInv, LocalOK, Procs
    <3> QED BY <3>1, <3>2, ContentCells DEF PlaceInv, TypeInv
  <2> QED BY <2>1, <2>2
<1> QED BY <1>1, DataInvHolds, PTL


\* No request takes a cell of a file on the server back to an older version
\* (DiskMonotonic), whichever goroutine sends it and however late it arrives, as
\* long as the block locks exclude (OwnUnlock).
THEOREM DiskMovesOn ==
    ASSUME ~OpenDuringLastClose, OwnUnlock
    PROVE  Spec => DiskMonotonic
<1> DEFINE A == \A f \in Files, x \in Blocks, i \in Cells : disk'[f][x][i] >= disk[f][x][i]
<1>1. ASSUME PlaceInv, PlaceInv', DataInv, Next PROVE A
  <2> SUFFICES ASSUME NEW f \in Files, NEW x \in Blocks, NEW i \in Cells
               PROVE  disk'[f][x][i] >= disk[f][x][i]
    OBVIOUS
  <2>1. disk[f][x][i] \in Nat /\ disk'[f][x][i] \in Nat
    BY <1>1, ContentCells, ContentCellsNext DEF PlaceInv, TypeInv
  <2>2. CASE DataStep
    <3>1. gone[f] => disk'[f] = disk[f]
      BY <2>2 DEF DataStep, Forward
    <3>2. ~gone[f] => disk[f][x][i] <= disk'[f][x][i]
      BY <1>1, <2>2, DataStepGrows DEF PlaceInv, TypeInv, DataInv, Grows
    <3> QED BY <2>1, <3>1, <3>2
  <2>3. CASE \E g \in Unlinks : Unlink(g)
    <3>1. disk' = disk
      BY <2>3 DEF Unlink
    <3> QED BY <2>1, <3>1
  <2> QED BY <1>1, <2>2, <2>3, NextData
<1> HIDE DEF A
<1>2. PlaceInv /\ DataInv /\ PlaceInv' /\ [Next]_vars => [A]_vars
  BY <1>1
<1>3. Spec => [][A]_vars
  BY <1>2, DataInvHolds, PTL DEF Spec
<1> QED BY <1>3 DEF DiskMonotonic, A


-----------------------------------------------------------------------------
(* Nobody forgets a buffer *)

\* A CheckExpire goroutine is on its way to the block under key k.
Coming(e, k) ==
    /\ pc[e] \in {"elookup", "flock"} /\ loc[e].blk = k[2]
    /\ IF pc[e] = "elookup" THEN Cache[loc[e].fe] = k[1] ELSE loc[e].fb = k[1]

Watched(k) == \/ BufferMap[k] \in LruList \/ LockMap[k] = WriteLock
              \/ \E e \in Expirers : Coming(e, k)

LEMMA WatchedAll == NoForgottenBuffer <=> \A k \in Keys : BufferMap[k] # NoBuf => Watched(k)
BY DEF NoForgottenBuffer, Watched, Coming

LEMMA WatchedAllNext ==
    NoForgottenBuffer' <=> \A k \in Keys : BufferMap'[k] # NoBuf => Watched(k)'
BY DEF NoForgottenBuffer, Watched, Coming

\* A step of process p that leaves the block under key j alone.
LEMMA WatchOther ==
    ASSUME NoForgottenBuffer, NEW p \in Procs, Alone(p), Cache' = Cache,
           NEW j \in Keys, BufferMap[j] # NoBuf,
           BufferMap'[j] = BufferMap[j], LockMap'[j] = LockMap[j],
           BufferMap[j] \in LruList => BufferMap[j] \in LruList',
           p \in Expirers => ~Coming(p, j)
    PROVE  Watched(j)'
<1>1. Watched(j)
  BY WatchedAll
<1>2. ASSUME NEW e \in Expirers, Coming(e, j) PROVE Coming(e, j)'
  <2>1. pc'[e] = pc[e] /\ loc'[e] = loc[e]
    BY <1>2 DEF Alone, Procs
  <2> QED BY <1>2, <2>1 DEF Coming
<1> QED BY <1>1, <1>2 DEF Watched

\* Two blocks have no buffer in common.
LEMMA NotShared ==
    ASSUME PlaceInv, NEW j \in Keys, NEW k \in Keys, j # k, BufferMap[j] # NoBuf
    PROVE  BufferMap[j] # BufferMap[k]
BY DEF PlaceInv, SafeInv, AttachInv

\* A process that leaves locks, blocks and the list alone, and was not coming.
LEMMA WatchIdle ==
    ASSUME NoForgottenBuffer, NEW p \in Procs, Alone(p),
           UNCHANGED <<Cache, BufferMap, LockMap, LruList>>,
           p \notin Expirers \/ pc[p] \notin {"elookup", "flock"}
    PROVE  NoForgottenBuffer'
<1> SUFFICES ASSUME NEW j \in Keys, BufferMap'[j] # NoBuf PROVE Watched(j)'
  BY WatchedAllNext
<1>1. p \in Expirers => ~Coming(p, j)
  BY DEF Coming
<1> QED BY <1>1, WatchOther

\* A process locks the block under key k, or is done with it: the buffer there
\* is gone, or listed, or the block is locked.
LEMMA WatchBlock ==
    ASSUME PlaceInv, NoForgottenBuffer, NEW p \in Procs, Alone(p), Cache' = Cache, NEW k \in Keys,
           p \in Expirers /\ pc[p] \in {"elookup", "flock"} => pc[p] = "flock" /\ Key(p) = k,
           \A j \in Keys \ {k} : BufferMap'[j] = BufferMap[j] /\ LockMap'[j] = LockMap[j],
           LruList \ {BufferMap[k]} \subseteq LruList',
           BufferMap'[k] = NoBuf \/ BufferMap'[k] \in LruList' \/ LockMap'[k] = WriteLock
    PROVE  NoForgottenBuffer'
<1> SUFFICES ASSUME NEW j \in Keys, BufferMap'[j] # NoBuf PROVE Watched(j)'
  BY WatchedAllNext
<1>1. CASE j = k
  BY <1>1 DEF Watched
<1>2. CASE j # k
  <2>1. p \in Expirers => ~Coming(p, j)
    BY <1>2 DEF Coming, Key, Keys
  <2>2. BufferMap[j] # NoBuf /\ BufferMap[j] # BufferMap[k]
    BY <1>2, NotShared
  <2> QED BY <1>2, <2>1, <2>2, WatchOther
<1> QED BY <1>1, <1>2

\* A goroutine, or the last step of a Write, is done with its block: the buffer
\* was detached or goes back to the list.
LEMMA WatchRelease ==
    ASSUME PlaceInv, NoForgottenBuffer, NEW p \in Procs, Alone(p), pc[p] \in Working, Cache' = Cache,
           LockMap' = [LockMap EXCEPT ![Key(p)] = Free],
           \/ BufferMap' = [BufferMap EXCEPT ![Key(p)] = NoBuf] /\ LruList' = LruList
           \/ BufferMap' = BufferMap /\ LruList' = LruList \cup {loc[p].cur}
    PROVE  NoForgottenBuffer'
<1>1. Key(p) \in Keys /\ BufferMap[Key(p)] = loc[p].cur /\ pc[p] \notin {"elookup", "flock"}
  BY HolderFacts, DataLabels DEF PlaceInv, SafeInv, CoreInv, Working, Holding
<1>2. PICK k \in Keys : k = Key(p)
  BY <1>1
<1>3. /\ \A j \in Keys \ {k} : BufferMap'[j] = BufferMap[j] /\ LockMap'[j] = LockMap[j]
      /\ LruList \ {BufferMap[k]} \subseteq LruList'
      /\ BufferMap'[k] = NoBuf \/ BufferMap'[k] \in LruList'
  BY <1>1, <1>2 DEF PlaceInv, TypeInv, TypeOK
<1> QED BY <1>1, <1>2, <1>3, WatchBlock


\* The steps of a Write.
LEMMA WriteWatched ==
    ASSUME PlaceInv, HoldInv, NoForgottenBuffer, NEW c \in Clients,
           \/ \E b \in Buffers : WriteAlloc(c, b)
           \/ WriteDirect(c) \/ WriteMerge(c) \/ WriteNoMerge(c)
           \/ Send(c) \/ WriteDirectDone(c) \/ WriteFullDone(c)
           \/ WriteFlushFail(c) \/ WriteFlushDirect(c) \/ WriteFlushReuse(c)
    PROVE  NoForgottenBuffer'
<1>0. c \in Procs /\ c \notin Expirers
  BY WCacheAssumption DEF Procs
<1>1. pc[c] \in Writes
  BY DEF WriteAlloc, WriteDirect, WriteMerge, WriteNoMerge, AtWriteLock, Send, WriteDirectDone,
     WriteFullDone, WriteFlushFail, WriteFlushDirect, WriteFlushReuse, Writes
<1>2. PICK k \in Keys : k = Key(c)
  BY <1>1, WriterFacts
<1>r. ASSUME Return(c) PROVE Alone(c)
  BY <1>r, ReturnFacts DEF PlaceInv
<1>a. ASSUME NEW l, Goto(c, l), \A q \in Procs \ {c} : loc'[q] = loc[q] PROVE Alone(c)
  BY <1>0, <1>a DEF Goto, Alone, PlaceInv, TypeInv, TypeOK
<1>b. LockMap' = [LockMap EXCEPT ![k] = WriteLock] =>
         LockMap'[k] = WriteLock /\ \A j \in Keys \ {k} : LockMap'[j] = LockMap[j]
  BY DEF PlaceInv, TypeInv, TypeOK
<1>3. ASSUME NEW b \in Buffers, WriteAlloc(c, b) PROVE NoForgottenBuffer'
  <2>1. /\ Cache' = Cache /\ BufferMap' = [BufferMap EXCEPT ![k] = b]
        /\ \/ LockMap' = [LockMap EXCEPT ![k] = WriteLock] /\ LruList' = LruList
           \/ LockMap' = LockMap /\ LruList' = LruList \cup {b}
    BY <1>2, <1>3 DEF WriteAlloc, AttachBuffer, LockBuffer, DoLru
  <2>2. Alone(c)
    <3>1. Return(c) \/ (loc' = [loc EXCEPT ![c].cur = b] /\ Goto(c, "wsend"))
      BY <1>3 DEF WriteAlloc
    <3> QED BY <1>a, <1>r, <3>1 DEF PlaceInv, TypeInv, TypeOK
  <2>3. BufferMap'[k] = b /\ \A j \in Keys \ {k} : BufferMap'[j] = BufferMap[j]
    BY <2>1 DEF PlaceInv, TypeInv, TypeOK
  <2> QED BY <1>0, <1>b, <2>1, <2>2, <2>3, WatchBlock
<1>4. ASSUME WriteMerge(c) PROVE NoForgottenBuffer'
  <2>1. /\ Cache' = Cache /\ BufferMap' = BufferMap
        /\ \/ LockMap' = [LockMap EXCEPT ![k] = WriteLock] /\ LruList' = LruList \ {BufferMap[k]}
           \/ LockMap' = LockMap /\ LruList' = LruList \cup {BufferMap[k]}
    BY <1>2, <1>4 DEF WriteMerge, LockBuffer, DoLru, RemoveLru
  <2>2. Alone(c)
    <3>1. \/ Return(c)
          \/ /\ loc' = [loc EXCEPT ![c].cur = BufferMap[Key(c)]]
             /\ Goto(c, IF SyncIo THEN "wfull" ELSE "wsend")
      BY <1>4 DEF WriteMerge
    <3> QED BY <1>a, <1>r, <3>1 DEF PlaceInv, TypeInv, TypeOK
  <2> QED BY <1>0, <1>b, <2>1, <2>2, WatchBlock
<1>5. ASSUME WriteDirect(c) \/ WriteNoMerge(c) PROVE NoForgottenBuffer'
  <2>1. /\ Cache' = Cache /\ BufferMap' = BufferMap
        /\ LockMap' = [LockMap EXCEPT ![k] = WriteLock]
        /\ LruList' = LruList \/ LruList' = LruList \ {BufferMap[k]}
    BY <1>2, <1>5 DEF WriteDirect, WriteNoMerge, LockBuffer, RemoveLru, poolVars
  <2>2. Alone(c)
    <3>1. \/ loc' = loc /\ Goto(c, "wdirect")
          \/ loc' = [loc EXCEPT ![c].cur = BufferMap[Key(c)]] /\ Goto(c, "wflush")
      BY <1>5 DEF WriteDirect, WriteNoMerge
    <3> QED BY <1>a, <3>1 DEF PlaceInv, TypeInv, TypeOK
  <2> QED BY <1>0, <1>b, <2>1, <2>2, WatchBlock
<1>6. ASSUME Send(c) PROVE NoForgottenBuffer'
  BY <1>0, <1>6, <1>r, WatchIdle DEF Send, tableVars
<1>7. ASSUME WriteDirectDone(c) PROVE NoForgottenBuffer'
  <2>1. /\ pc[c] = "wdirectR" /\ Return(c) /\ UNCHANGED <<Cache, BufferMap, LruList>>
        /\ LockMap' = [LockMap EXCEPT ![k] = Free]
    BY <1>2, <1>7 DEF WriteDirectDone, UnLockBuffer, poolVars
  <2>2. BufferMap[k] = NoBuf
    BY <1>0, <1>2, <2>1 DEF HoldInv, HoldOK, DirectOK, Bare
  <2>3. \A j \in Keys \ {k} : LockMap'[j] = LockMap[j]
    BY <2>1 DEF PlaceInv, TypeInv, TypeOK
  <2> QED BY <1>0, <1>r, <2>1, <2>2, <2>3, WatchBlock
<1>8. ASSUME WriteFullDone(c) \/ WriteFlushFail(c) \/ WriteFlushReuse(c) PROVE NoForgottenBuffer'
  <2>1. /\ Return(c) /\ Cache' = Cache /\ pc[c] \in {"wfullR", "wflushR"}
        /\ LockMap' = [LockMap EXCEPT ![Key(c)] = Free]
        /\ \/ BufferMap' = [BufferMap EXCEPT ![Key(c)] = NoBuf] /\ LruList' = LruList
           \/ BufferMap' = BufferMap /\ LruList' = LruList \cup {loc[c].cur}
    BY <1>8 DEF WriteFullDone, WriteFlushFail, WriteFlushReuse, UnLockBuffer, DetachBuffer, DoLru
  <2>2. pc[c] \in Working
    BY <2>1 DEF Working, Holding
  <2> QED BY <1>0, <1>r, <2>1, <2>2, WatchRelease
<1>9. ASSUME WriteFlushDirect(c) PROVE NoForgottenBuffer'
  <2>1. /\ UNCHANGED <<Cache, LockMap, LruList>> /\ BufferMap' = [BufferMap EXCEPT ![k] = NoBuf]
        /\ Goto(c, "wdirect")
        /\ loc' = [loc EXCEPT ![c] = [loc[c] EXCEPT !.cur = NoBuf, !.res = "none"]]
    BY <1>2, <1>9 DEF WriteFlushDirect, DetachBuffer
  <2>2. Alone(c)
    BY <1>a, <2>1 DEF PlaceInv, TypeInv, TypeOK
  <2>3. BufferMap'[k] = NoBuf /\ \A j \in Keys \ {k} : BufferMap'[j] = BufferMap[j]
    BY <2>1 DEF PlaceInv, TypeInv, TypeOK
  <2> QED BY <1>0, <2>1, <2>2, <2>3, WatchBlock
<1> QED BY <1>3, <1>4, <1>5, <1>6, <1>7, <1>8, <1>9


\* The goroutines of Flush, CheckExpire and SyncWrite, and the requests.
LEMMA GoroutineWatched ==
    ASSUME PlaceInv, HoldInv, NoForgottenBuffer, NEW p \in Procs,
           \/ p \in Workers /\ TakeIndex(p)
           \/ p \in Workers \cup Expirers /\ FlushStep(p)
           \/ p \in Expirers /\ ExpireStep(p)
           \/ p \in Syncers /\ SyncStep(p)
           \/ Rpc(p)
    PROVE  NoForgottenBuffer'
<1>a. ASSUME NEW l, Goto(p, l), \A q \in Procs \ {p} : loc'[q] = loc[q] PROVE Alone(p)
  BY <1>a DEF Goto, Alone, PlaceInv, TypeInv, TypeOK
<1>b. ASSUME NEW v, loc' = [loc EXCEPT ![p] = v] PROVE \A q \in Procs \ {p} : loc'[q] = loc[q]
  BY <1>b DEF PlaceInv, TypeInv, TypeOK
<1>1. ASSUME p \in Workers, TakeIndex(p) PROVE NoForgottenBuffer'
  <2>1. PICK x \in fl[p[1]].mq :
           loc' = [loc EXCEPT ![p] = [@ EXCEPT !.fb = loc[p[1]].fb, !.blk = x]]
    BY <1>1 DEF TakeIndex
  <2>2. UNCHANGED <<Cache, BufferMap, LockMap, LruList>> /\ Goto(p, "flock") /\ p \notin Expirers
    BY <1>1, WCacheAssumption DEF TakeIndex, poolVars, tableVars
  <2>3. Alone(p)
    BY <1>a, <1>b, <2>1, <2>2
  <2> QED BY <2>2, <2>3, WatchIdle
<1>2. ASSUME FlushLock(p) \/ FlushNothing(p) PROVE NoForgottenBuffer'
  <2>1. /\ pc[p] = "flock" /\ Cache' = Cache /\ BufferMap' = BufferMap
        /\ \/ /\ LockMap' = [LockMap EXCEPT ![Key(p)] = WriteLock]
              /\ LruList' = LruList \ {BufferMap[Key(p)]}
           \/ UNCHANGED <<LockMap, LruList>> /\ BufferMap[Key(p)] = NoBuf
    BY <1>2 DEF FlushLock, FlushNothing, LockBuffer, RemoveLru, poolVars, tableVars
  <2>2. PICK k \in Keys : k = Key(p)
    BY <2>1, HolderFacts DEF PlaceInv, SafeInv, CoreInv, Located
  <2>3. /\ \A j \in Keys \ {k} : LockMap'[j] = LockMap[j]
        /\ BufferMap'[k] = NoBuf \/ LockMap'[k] = WriteLock
    BY <2>1, <2>2 DEF PlaceInv, TypeInv, TypeOK
  <2>4. Alone(p)
    <3>1. \/ loc' = [loc EXCEPT ![p].cur = BufferMap[Key(p)]] /\ Goto(p, "fflush")
          \/ loc' = [loc EXCEPT ![p] = NoLoc] /\ Goto(p, "idle")
      BY <1>2 DEF FlushLock, FlushNothing, Report
    <3> QED BY <1>a, <1>b, <3>1
  <2> QED BY <2>1, <2>2, <2>3, <2>4, WatchBlock
<1>3. ASSUME FlushDone(p) \/ (SyncDone(p) /\ pc'[p] # "syncU") PROVE NoForgottenBuffer'
  <2>1. /\ pc[p] \in {"fflushR", "syncR"} /\ Cache' = Cache
        /\ LockMap' = [LockMap EXCEPT ![Key(p)] = Free]
        /\ \/ BufferMap' = [BufferMap EXCEPT ![Key(p)] = NoBuf] /\ LruList' = LruList
           \/ BufferMap' = BufferMap /\ LruList' = LruList \cup {loc[p].cur}
        /\ loc' = [loc EXCEPT ![p] = NoLoc] /\ Goto(p, "idle")
    <3>1. CASE FlushDone(p)
      BY <3>1 DEF FlushDone, Report, UnLockBuffer, DetachBuffer, DoLru
    <3>2. CASE SyncDone(p) /\ pc'[p] # "syncU"
      <4>1. ~Goto(p, "syncU")
        BY <3>2 DEF Goto, PlaceInv, TypeInv, TypeOK
      <4> QED BY <3>2, <4>1 DEF SyncDone, UnLockBuffer, DoLru
    <3> QED BY <1>3, <3>1, <3>2
  <2>2. pc[p] \in Working /\ Alone(p)
    BY <1>a, <1>b, <2>1 DEF Working, Holding
  <2> QED BY <2>1, <2>2, WatchRelease
<1>8. ASSUME SyncDone(p), pc'[p] = "syncU" PROVE NoForgottenBuffer'
  <2>1. /\ pc[p] = "syncR" /\ pc[p] \in Working
        /\ UNCHANGED <<Cache, LockMap, LruList, loc>>
        /\ BufferMap' = [BufferMap EXCEPT ![Key(p)] = NoBuf] /\ Goto(p, "syncU")
    <3>1. ~Goto(p, "idle")
      BY <1>8 DEF Goto, PlaceInv, TypeInv, TypeOK
    <3> QED BY <1>8, <3>1 DEF SyncDone, DetachBuffer, Working, Holding
  <2>2. PICK k \in Keys : k = Key(p)
    BY <2>1, HolderFacts, DataLabels DEF PlaceInv, SafeInv, CoreInv
  <2>3. BufferMap'[k] = NoBuf /\ \A j \in Keys \ {k} : BufferMap'[j] = BufferMap[j]
    BY <2>1, <2>2 DEF PlaceInv, TypeInv, TypeOK
  <2>4. Alone(p)
    BY <1>a, <2>1
  <2> QED BY <2>1, <2>3, <2>4, WatchBlock
<1>9. ASSUME SyncUnlock(p) PROVE NoForgottenBuffer'
  <2>1. /\ pc[p] = "syncU" /\ pc[p] \in Bare /\ UNCHANGED <<Cache, BufferMap, LruList>>
        /\ LockMap' = [LockMap EXCEPT ![SyncKey(p)] = Free]
        /\ loc' = [loc EXCEPT ![p] = NoLoc] /\ Goto(p, "idle")
    BY <1>9 DEF SyncUnlock, UnLockBuffer, Bare, poolVars
  <2>2. PICK k \in Keys : k = Key(p)
    BY <2>1, HolderFacts, DataLabels DEF PlaceInv, SafeInv, CoreInv
  <2>3. SyncKey(p) = k /\ BufferMap[k] = NoBuf
    BY <2>1, <2>2 DEF SyncKey, Key, PlaceInv, UnlockInv, HoldInv, HoldOK, DirectOK
  <2>4. \A j \in Keys \ {k} : LockMap'[j] = LockMap[j]
    BY <2>1, <2>3 DEF PlaceInv, TypeInv, TypeOK
  <2>5. Alone(p)
    BY <1>a, <1>b, <2>1
  <2> QED BY <2>1, <2>3, <2>4, <2>5, WatchBlock
<1>4. ASSUME p \in Expirers, LruExpire(p) PROVE NoForgottenBuffer'
  <2>1. PICK b \in LruList :
           /\ LruList' = LruList \ {b}
           /\ loc' = [loc EXCEPT ![p] = [@ EXCEPT !.fe = buf[b].fe, !.blk = buf[b].BlkIdx]]
    BY <1>4 DEF LruExpire, RemoveLru
  <2>2. pc[p] = "idle" /\ UNCHANGED <<Cache, BufferMap, LockMap, buf>> /\ Goto(p, "elookup")
    BY <1>4 DEF LruExpire, tableVars
  <2>3. PICK k \in Keys : k = Home(b) /\ BufferMap[k] = b
    BY DEF PlaceInv, SafeInv, AttachInv, TypeInv, TypeOK
  <2>4. Alone(p)
    BY <1>a, <1>b, <2>1, <2>2
  <2>5. Coming(p, k)'
    BY <2>1, <2>2, <2>3 DEF Goto, Coming, Home, PlaceInv, TypeInv, TypeOK, LocType
  <2> SUFFICES ASSUME NEW j \in Keys, BufferMap'[j] # NoBuf PROVE Watched(j)'
    BY WatchedAllNext
  <2>6. CASE j = k
    BY <1>4, <2>5, <2>6 DEF Watched
  <2>7. CASE j # k
    <3>1. BufferMap[j] # b /\ ~Coming(p, j) /\ BufferMap[j] # NoBuf
      BY <2>2, <2>3, <2>7, NotShared DEF Coming
    <3> QED BY <2>1, <2>2, <2>4, <3>1, WatchOther
  <2> QED BY <2>6, <2>7
<1>5. ASSUME p \in Expirers, ExpireLookup(p) PROVE NoForgottenBuffer'
  <2>1. /\ pc[p] = "elookup" /\ UNCHANGED <<Cache, BufferMap, LockMap, LruList>>
        /\ \/ Cache[loc[p].fe] = 0 /\ Goto(p, "idle") /\ loc' = [loc EXCEPT ![p] = NoLoc]
           \/ /\ Cache[loc[p].fe] # 0 /\ Goto(p, "flock")
              /\ loc' = [loc EXCEPT ![p].fb = Cache[loc[p].fe]]
    BY <1>5 DEF ExpireLookup, poolVars, tableVars
  <2>2. Alone(p)
    BY <1>a, <1>b, <2>1
  <2> SUFFICES ASSUME NEW j \in Keys, BufferMap'[j] # NoBuf PROVE Watched(j)'
    BY WatchedAllNext
  <2>3. CASE Coming(p, j)
    <3>1. j[1] = Cache[loc[p].fe] /\ j[2] = loc[p].blk /\ j[1] # 0
      BY <2>1, <2>3 DEF Coming, Keys, FileBufs
    <3>2. Coming(p, j)'
      BY <2>1, <3>1 DEF Goto, Coming, PlaceInv, TypeInv, TypeOK, LocType
    <3> QED BY <1>5, <3>2 DEF Watched
  <2>4. CASE ~Coming(p, j)
    BY <2>1, <2>2, <2>4, WatchOther
  <2> QED BY <2>3, <2>4
<1>6. ASSUME p \in Syncers, SyncTake(p) PROVE NoForgottenBuffer'
  <2>1. PICK b \in chSync :
           loc' = [loc EXCEPT ![p] = [@ EXCEPT !.fb = Cache[buf[b].fe],
                                                !.blk = buf[b].BlkIdx, !.cur = b]]
    BY <1>6 DEF SyncTake
  <2>2. UNCHANGED <<Cache, BufferMap, LockMap, LruList>> /\ Goto(p, "sync") /\ p \notin Expirers
    BY <1>6, WCacheAssumption DEF SyncTake, tableVars
  <2>3. Alone(p)
    BY <1>a, <1>b, <2>1, <2>2
  <2> QED BY <2>2, <2>3, WatchIdle
<1>7. ASSUME Rpc(p) PROVE NoForgottenBuffer'
  <2>1. PICK r \in {"ok", "eio", "enoent"} : Reply(p, r)
    BY <1>7 DEF Rpc, RpcOk, RpcEio, RpcGone
  <2>2. /\ pc[p] \notin {"elookup", "flock"} /\ UNCHANGED <<Cache, BufferMap, LockMap, LruList>>
        /\ loc' = [loc EXCEPT ![p].res = r] /\ Goto(p, Replied[pc[p]])
    BY <2>1 DEF Reply, Replied, poolVars, tableVars
  <2>3. Alone(p)
    BY <1>a, <1>b, <2>2
  <2> QED BY <2>2, <2>3, WatchIdle
<1> QED BY <1>1, <1>2, <1>3, <1>4, <1>5, <1>6, <1>7, <1>8, <1>9 DEF FlushStep, ExpireStep, SyncStep


\* The calls on a handle; the FileBuffer a Close drops has no buffer left.
LEMMA HandleWatched ==
    ASSUME PlaceInv, NoForgottenBuffer, NEW c \in Clients,
           \/ \E f \in Files : Open(c, f)
           \/ \E x \in Blocks, off \in Cells, size \in 1 .. BlockSize : Write(c, x, off, size)
           \/ Flush(c) \/ Close(c)
           \/ FlushToFsync(c) \/ FsyncReply(c) \/ FsyncReturn(c) \/ CloseFail(c) \/ CloseDone(c)
    PROVE  NoForgottenBuffer'
<1>0. c \in Procs /\ c \notin Expirers
  BY WCacheAssumption DEF Procs
<1>a. ASSUME NEW l, Goto(c, l), \A q \in Procs \ {c} : loc'[q] = loc[q] PROVE Alone(c)
  BY <1>0, <1>a DEF Goto, Alone, PlaceInv, TypeInv, TypeOK
<1>b. ASSUME NEW v, loc' = [loc EXCEPT ![c] = v] PROVE \A q \in Procs \ {c} : loc'[q] = loc[q]
  BY <1>0, <1>b DEF PlaceInv, TypeInv, TypeOK
<1>r. ASSUME Return(c) PROVE Alone(c)
  BY <1>r, ReturnFacts DEF PlaceInv
<1>1. ASSUME UNCHANGED <<Cache, BufferMap, LockMap, LruList>>, Alone(c) PROVE NoForgottenBuffer'
  BY <1>0, <1>1, WatchIdle
<1>2. ASSUME UNCHANGED <<BufferMap, LockMap, LruList>>, Alone(c),
             \A f \in Files : Cache'[f] = Cache[f] \/ Cache[f] = 0
                              \/ \A x \in Blocks : BufferMap[<<Cache[f], x>>] = NoBuf
      PROVE  NoForgottenBuffer'
  <2> SUFFICES ASSUME NEW j \in Keys, BufferMap'[j] # NoBuf PROVE Watched(j)'
    BY WatchedAllNext
  <2>1. Watched(j)
    BY <1>2, WatchedAll
  <2>2. ASSUME NEW e \in Expirers, Coming(e, j) PROVE Coming(e, j)'
    <3>1. e \in Procs /\ pc'[e] = pc[e] /\ loc'[e] = loc[e]
      BY <1>0, <1>2 DEF Alone, Procs
    <3>2. CASE pc[e] = "elookup"
      <4>1. PICK f \in Files : f = loc[e].fe
        BY <3>1, <3>2 DEF PlaceInv, TypeInv, BufferInv, LocalOK
      <4>2. Cache[f] = j[1] /\ j[1] # 0 /\ j[2] \in Blocks /\ j = <<j[1], j[2]>>
        BY <2>2, <3>2, <4>1 DEF Coming, Keys, FileBufs
      <4>3. Cache'[f] = Cache[f]
        BY <1>2, <4>2
      <4> QED BY <2>2, <3>1, <3>2, <4>1, <4>3 DEF Coming
    <3>3. CASE pc[e] # "elookup"
      BY <2>2, <3>1, <3>3 DEF Coming
    <3> QED BY <3>2, <3>3
  <2> QED BY <1>2, <2>1, <2>2 DEF Watched
<1>3. ASSUME NEW f \in Files, Open(c, f) PROVE NoForgottenBuffer'
  BY <1>1, <1>3, <1>a, <1>b DEF Open, poolVars, tableVars
<1>4. ASSUME NEW x \in Blocks, NEW off \in Cells, NEW size \in 1 .. BlockSize, Write(c, x, off, size)
      PROVE  NoForgottenBuffer'
  <2> DEFINE new == IF Cache[loc[c].fe] = 0 THEN made + 1 ELSE Cache[loc[c].fe]
  <2>1. /\ Cache' = [Cache EXCEPT ![loc[c].fe] = new] /\ UNCHANGED <<BufferMap, LockMap, LruList>>
        /\ loc' = [loc EXCEPT ![c] = [loc[c] EXCEPT !.fb = new, !.blk = x]] /\ Goto(c, "wlock")
    BY <1>4 DEF Write, poolVars
  <2>2. new = Cache[loc[c].fe] \/ Cache[loc[c].fe] = 0
    OBVIOUS
  <2> HIDE DEF new
  <2>3. \A f \in Files : Cache'[f] = Cache[f] \/ Cache[f] = 0
    BY <2>1, <2>2 DEF PlaceInv, TypeInv, TypeOK
  <2>4. Alone(c)
    BY <1>a, <1>b, <2>1
  <2> QED BY <1>2, <2>1, <2>3, <2>4
<1>5. ASSUME NEW kind, StartFlush(c, kind) PROVE NoForgottenBuffer'
  <2>1. /\ UNCHANGED <<Cache, BufferMap, LockMap, LruList>> /\ Goto(c, "flushing")
        /\ loc' = [loc EXCEPT ![c].fb = Cache[loc[c].fe]]
    BY <1>5 DEF StartFlush, poolVars, tableVars
  <2> QED BY <1>1, <1>a, <1>b, <2>1
<1>6. ASSUME FlushToFsync(c) \/ FsyncReply(c) \/ FsyncReturn(c) \/ CloseFail(c)
      PROVE  NoForgottenBuffer'
  <2>1. /\ UNCHANGED <<Cache, BufferMap, LockMap, LruList>>
        /\ Return(c) \/ (loc' = loc /\ (Goto(c, "fsync") \/ Goto(c, "synced")))
    BY <1>6 DEF FlushToFsync, FsyncReply, FsyncReturn, CloseFail, poolVars, tableVars
  <2> QED BY <1>1, <1>a, <1>r, <2>1
<1>7. ASSUME CloseDone(c) PROVE NoForgottenBuffer'
  <2>1. /\ UNCHANGED <<BufferMap, LockMap, LruList>> /\ Goto(c, "closed")
        /\ loc' = [loc EXCEPT ![c] = NoLoc] /\ fl[c].pend = {} /\ ~fl[c].failed
        /\ \/ Cache' = Cache
           \/ fl[c].kind = "closelast" /\ Cache' = [Cache EXCEPT ![loc[c].fe] = 0]
    BY <1>7 DEF CloseDone, FlushReturned, poolVars
  <2>2. Alone(c)
    BY <1>a, <1>b, <2>1
  <2>3. CASE Cache' = Cache
    BY <1>1, <2>1, <2>2, <2>3
  <2>4. CASE fl[c].kind = "closelast" /\ Cache' = [Cache EXCEPT ![loc[c].fe] = 0]
    <3>1. ASSUME NEW f \in Files, f = loc[c].fe, Cache[f] # 0, NEW x \in Blocks
          PROVE  BufferMap[<<Cache[f], x>>] = NoBuf
      <4>1. <<Cache[f], x>> \in Keys
        BY <3>1 DEF Keys, FileBufs, PlaceInv, TypeInv, TypeOK
      <4> QED BY <2>1, <2>4, <3>1, <4>1 DEF PlaceInv, SafeInv, ClientInv
    <3>2. \A f \in Files : f # loc[c].fe => Cache'[f] = Cache[f]
      BY <2>4 DEF PlaceInv, TypeInv, TypeOK
    <3> QED BY <1>2, <2>1, <2>2, <3>1, <3>2
  <2> QED BY <2>1, <2>3, <2>4
<1> QED BY <1>3, <1>4, <1>5, <1>6, <1>7 DEF Flush, Close

\* No attached buffer is ever left without somebody to write it out
\* (NoForgottenBuffer): the LRU list, the holder of its block lock or the queue
\* has it, or CheckExpire is coming for it.  OwnUnlock: the lock in question is
\* not given away by SyncWrite.
THEOREM NoBufferForgotten ==
    ASSUME ~OpenDuringLastClose, OwnUnlock
    PROVE  Spec => []NoForgottenBuffer
<1>1. Init => NoForgottenBuffer
  BY DEF Init, NoForgottenBuffer
<1>2. PlaceInv /\ DataInv /\ NoForgottenBuffer /\ [Next]_vars => NoForgottenBuffer'
  <2> SUFFICES ASSUME PlaceInv, DataInv, NoForgottenBuffer, [Next]_vars PROVE NoForgottenBuffer'
    OBVIOUS
  <2>1. ASSUME NEW c \in Clients,
               \/ \E f \in Files : Open(c, f)
               \/ \E x \in Blocks, off \in Cells, size \in 1 .. BlockSize : Write(c, x, off, size)
               \/ Flush(c) \/ Close(c)
               \/ FlushToFsync(c) \/ FsyncReply(c) \/ FsyncReturn(c) \/ CloseFail(c) \/ CloseDone(c)
        PROVE  NoForgottenBuffer'
    BY <2>1, HandleWatched
  <2>2. ASSUME NEW c \in Clients,
               \/ \E b \in Buffers : WriteAlloc(c, b)
               \/ WriteDirect(c) \/ WriteMerge(c) \/ WriteNoMerge(c)
               \/ Send(c) \/ WriteDirectDone(c) \/ WriteFullDone(c)
               \/ WriteFlushFail(c) \/ WriteFlushDirect(c) \/ WriteFlushReuse(c)
        PROVE  NoForgottenBuffer'
    BY <2>2, WriteWatched DEF DataInv
  <2>3. ASSUME NEW c \in Clients,
               \/ \E f \in Files : Open(c, f)
               \/ \E x \in Blocks, off \in Cells, size \in 1 .. BlockSize : Write(c, x, off, size)
               \/ Flush(c) \/ Close(c) \/ ClientStep(c)
        PROVE  NoForgottenBuffer'
    BY <2>1, <2>2, <2>3, Zenon DEF ClientStep
  <2>4. ASSUME NEW p \in Procs,
               \/ p \in Workers /\ TakeIndex(p)
               \/ p \in Workers \cup Expirers /\ FlushStep(p)
               \/ p \in Expirers /\ ExpireStep(p)
               \/ p \in Syncers /\ SyncStep(p)
               \/ Rpc(p)
        PROVE  NoForgottenBuffer'
    BY <2>4, GoroutineWatched DEF DataInv
  <2>5. ASSUME NEW f \in Unlinks, Unlink(f) PROVE NoForgottenBuffer'
    BY <2>5 DEF Unlink, NoForgottenBuffer, poolVars, tableVars, localVars
  <2>6. CASE UNCHANGED vars
    BY <2>6 DEF vars, NoForgottenBuffer, poolVars, tableVars, localVars
  <2>7. \A p \in Workers \cup Expirers \cup Syncers : p \in Procs
    BY DEF Procs
  <2> QED BY <2>3, <2>4, <2>5, <2>6, <2>7 DEF Next
<1> QED BY <1>1, <1>2, DataInvHolds, PTL DEF Spec


-----------------------------------------------------------------------------
(* WCache implements WriteBack.  A step of WriteBack writes a version of   *)
(* its constant Versions, so the versions have to be bounded first: a      *)
(* Write begins before MaxVer is reached, and draws its version later.     *)

AtLock   == {c \in Clients : pc[c] = "wlock"}
BoundInv == ver + Cardinality(AtLock) <= MaxVer + Cardinality(Clients)

LEMMA AtLockSize ==
    /\ IsFiniteSet(AtLock) /\ Cardinality(AtLock) \in Nat /\ Cardinality(Clients) \in Nat
    /\ IsFiniteSet(AtLock') /\ Cardinality(AtLock') \in Nat
    /\ Cardinality(AtLock') <= Cardinality(Clients)
<1>1. AtLock \in SUBSET Clients /\ AtLock' \in SUBSET Clients
  BY DEF AtLock
<1> QED BY <1>1, WCacheAssumption, FS_Subset, FS_CardinalityType

\* A step that brings nobody to the lock and draws no version.
LEMMA BoundKept ==
    ASSUME TypeOK, BoundInv, ver' = ver, \A c \in Clients : pc'[c] = "wlock" => pc[c] = "wlock"
    PROVE  BoundInv'
<1>1. AtLock' \in SUBSET AtLock
  BY DEF AtLock
<1>2. Cardinality(AtLock') <= Cardinality(AtLock)
  BY <1>1, AtLockSize, FS_Subset
<1> QED BY <1>2, AtLockSize, WCacheAssumption DEF BoundInv, TypeOK

\* The op of a Write draws its version.
LEMMA BoundDrawn ==
    ASSUME TypeOK, BoundInv, NEW c \in Clients, pc[c] = "wlock", ver' = ver + 1,
           \A d \in Clients \ {c} : pc'[d] = pc[d], pc'[c] # "wlock"
    PROVE  BoundInv'
<1>1. AtLock' = AtLock \ {c} /\ c \in AtLock
  BY DEF AtLock
<1>2. Cardinality(AtLock') = Cardinality(AtLock) - 1
  BY <1>1, AtLockSize, FS_RemoveElement
<1> QED BY <1>2, AtLockSize, WCacheAssumption DEF BoundInv, TypeOK

LEMMA InitBound == Init => BoundInv
<1> SUFFICES ASSUME Init PROVE BoundInv
  OBVIOUS
<1>1. AtLock = {}
  BY DEF Init, AtLock, Procs
<1>2. Cardinality(AtLock) = 0
  BY <1>1, FS_EmptySet
<1> QED BY <1>2, AtLockSize, WCacheAssumption DEF Init, BoundInv

LEMMA NextBound ==
    ASSUME PlaceInv, BoundInv, [Next]_vars
    PROVE  BoundInv'
<1>0. TypeOK /\ Clients \subseteq Procs
  BY DEF PlaceInv, TypeInv, Procs
<1>1. ASSUME NEW p \in Procs, NEW l, Goto(p, l), l # "wlock", ver' = ver PROVE BoundInv'
  <2>1. \A c \in Clients : pc'[c] = "wlock" => pc[c] = "wlock"
    BY <1>0, <1>1 DEF Goto, TypeOK
  <2> QED BY <1>0, <1>1, <2>1, BoundKept
<1>2. ASSUME NEW c \in Clients, NEW x \in Blocks, NEW off \in Cells, NEW size \in 1 .. BlockSize,
             Write(c, x, off, size)
      PROVE  BoundInv'
  BY <1>0, <1>2, AtLockSize, WCacheAssumption DEF Write, BoundInv, TypeOK, ghostVars
<1>3. ASSUME NEW c \in Clients, AtWriteLock(c), NEW l, Goto(c, l), l # "wlock" PROVE BoundInv'
  BY <1>0, <1>3, BoundDrawn DEF AtWriteLock, Goto, TypeOK
<1>4. ASSUME NEW c \in Clients,
             \/ \E b \in Buffers : WriteAlloc(c, b)
             \/ WriteDirect(c) \/ WriteMerge(c) \/ WriteNoMerge(c)
      PROVE  BoundInv'
  <2>1. AtWriteLock(c) /\ \E l \in {"wdirect", "wsend", "idle", "wfull", "wflush"} : Goto(c, l)
    BY <1>4 DEF WriteAlloc, WriteDirect, WriteMerge, WriteNoMerge, Return
  <2> QED BY <1>3, <2>1
<1>5. ASSUME NEW c \in Clients,
             \/ Send(c) \/ WriteDirectDone(c) \/ WriteFullDone(c)
             \/ WriteFlushFail(c) \/ WriteFlushDirect(c) \/ WriteFlushReuse(c)
             \/ \E f \in Files : Open(c, f)
             \/ Flush(c) \/ Close(c)
             \/ FlushToFsync(c) \/ FsyncReply(c) \/ FsyncReturn(c) \/ CloseFail(c) \/ CloseDone(c)
      PROVE  BoundInv'
  <2>1. ver' = ver
    BY <1>5
    DEF Send, WriteDirectDone, WriteFullDone, WriteFlushFail, WriteFlushDirect, WriteFlushReuse, Open,
       Flush, Close, StartFlush, FlushToFsync, FsyncReply, FsyncReturn, CloseFail, CloseDone, ghostVars
  <2>2. \E l \in {"idle", "wdirect", "flushing", "fsync", "synced", "closed"} : Goto(c, l)
    BY <1>5
    DEF Send, WriteDirectDone, WriteFullDone, WriteFlushFail, WriteFlushDirect, WriteFlushReuse, Open,
       Flush, Close, StartFlush, FlushToFsync, FsyncReply, FsyncReturn, CloseFail, CloseDone, Return
  <2> QED BY <1>0, <1>1, <2>1, <2>2
<1>6. ASSUME NEW p \in Procs,
             TakeIndex(p) \/ FlushStep(p) \/ ExpireStep(p) \/ SyncStep(p) \/ Rpc(p)
      PROVE  BoundInv'
  <2>1. ver' = ver
    BY <1>6
    DEF TakeIndex, FlushStep, FlushLock, FlushNothing, FlushDone, ExpireStep, LruExpire, ExpireLookup,
       SyncStep, SyncTake, SyncDone, SyncUnlock, Rpc, RpcOk, RpcEio, RpcGone, Reply, ghostVars
  <2>2. \E l \in {"idle", "flock", "fflush", "elookup", "sync", "wdirectR", "wfullR", "wflushR",
                  "fflushR", "syncR", "syncU"} : Goto(p, l)
    <3>1. CASE Rpc(p)
      <4>1. pc[p] \in {"wdirect", "wfull", "wflush", "fflush", "sync"} /\ Goto(p, Replied[pc[p]])
        BY <3>1 DEF Rpc, RpcOk, RpcEio, RpcGone, Reply, Replied
      <4>2. Replied[pc[p]] \in {"wdirectR", "wfullR", "wflushR", "fflushR", "syncR"}
        BY <4>1 DEF Replied
      <4> QED BY <4>1, <4>2
    <3>2. CASE TakeIndex(p) \/ FlushStep(p) \/ ExpireStep(p) \/ SyncStep(p)
      BY <3>2
      DEF TakeIndex, FlushStep, FlushLock, FlushNothing, FlushDone, ExpireStep, LruExpire, ExpireLookup,
         SyncStep, SyncTake, SyncDone, SyncUnlock, Report
    <3> QED BY <1>6, <3>1, <3>2
  <2> QED BY <1>1, <2>1, <2>2
<1>7. ASSUME UNCHANGED vars \/ \E f \in Unlinks : Unlink(f) PROVE BoundInv'
  <2>1. ver' = ver /\ pc' = pc
    BY <1>7 DEF vars, Unlink, localVars, ghostVars
  <2> QED BY <1>0, <2>1, BoundKept
<1>8. ASSUME NEW c \in Clients, ClientStep(c) PROVE BoundInv'
  BY <1>4, <1>5, <1>8, Zenon DEF ClientStep
<1>9. Workers \cup Expirers \cup Syncers \subseteq Procs
  BY DEF Procs
<1> QED BY <1>2, <1>5, <1>6, <1>7, <1>8, <1>9 DEF Next


\* The state of WriteBack that a state of WCache shows.
AView   == [f \in Files |-> Unless(gone[f], [x \in Blocks |-> View(f, x)])]
AStored == [f \in Files |-> Unless(gone[f], disk[f])]
AAcked  == [f \in Files |-> Unless(gone[f], latest[f])]
AFl(c)  == IF fl[c].kind = "none"
           THEN [state |-> "none", file |-> NoFile, need |-> [x \in Blocks |-> Blank]]
           ELSE [state |-> IF fl[c].pend # {} THEN "running"
                           ELSE IF fl[c].failed THEN "failed" ELSE "ok",
                 file |-> loc[c].fe, need |-> Unless(gone[loc[c].fe], snap[c])]
AFlush  == [c \in Clients |-> AFl(c)]

LEMMA ShownSame ==
    ASSUME AView' = AView, AStored' = AStored, AAcked' = AAcked, gone' = gone, AFlush' = AFlush
    PROVE  UNCHANGED Promise!abstractVars
BY DEF AView, AStored, AAcked, AFlush, AFl, Promise!abstractVars

\* Contents that differ in one block of one file.
LEMMA OneBlock ==
    ASSUME NEW U \in [Files -> FileContent], NEW W \in [Files -> FileContent],
           NEW f \in Files, NEW x \in Blocks,
           \A g \in Files, y \in Blocks : g # f \/ y # x => W[g][y] = U[g][y]
    PROVE  /\ W = [U EXCEPT ![f][x] = W[f][x]]
           /\ W[f][x] = U[f][x] => W = U
<1>1. \A g \in Files : U[g] \in [Blocks -> Content] /\ W[g] \in [Blocks -> Content]
  BY DEF FileContent
<1>2. \A g \in Files : g # f => W[g] = U[g]
  BY <1>1
<1>3. W[f] = [U[f] EXCEPT ![x] = W[f][x]]
  BY <1>1
<1>4. W = [U EXCEPT ![f] = W[f]]
  BY <1>2
<1>5. W[f][x] = U[f][x] => W[f] = U[f]
  BY <1>1
<1> QED BY <1>2, <1>3, <1>4, <1>5

\* What is shown are contents.
LEMMA ShownType ==
    ASSUME TypeOK
    PROVE  /\ AView \in [Files -> FileContent] /\ AStored \in [Files -> FileContent]
           /\ AAcked \in [Files -> FileContent]
           /\ \A g \in Files, y \in Blocks :
                 /\ AView[g][y] = IF gone[g] THEN Blank ELSE View(g, y)
                 /\ AStored[g][y] = IF gone[g] THEN Blank ELSE disk[g][y]
                 /\ AAcked[g][y] = IF gone[g] THEN Blank ELSE latest[g][y]
<1>1. Blank \in Content /\ \A g \in Files : disk[g] \in FileContent /\ latest[g] \in FileContent
  BY DEF Blank, Content, TypeOK
<1>2. \A g \in Files, y \in Blocks : View(g, y) \in Content
  BY ViewCells
<1> QED BY <1>1, <1>2 DEF AView, AStored, AAcked, Unless, FileContent

LEMMA ShownTypeNext ==
    ASSUME TypeOK'
    PROVE  /\ AView' \in [Files -> FileContent] /\ AStored' \in [Files -> FileContent]
           /\ AAcked' \in [Files -> FileContent]
           /\ \A g \in Files, y \in Blocks :
                 /\ AView'[g][y] = IF gone'[g] THEN Blank ELSE View(g, y)'
                 /\ AStored'[g][y] = IF gone'[g] THEN Blank ELSE disk'[g][y]
                 /\ AAcked'[g][y] = IF gone'[g] THEN Blank ELSE latest'[g][y]
<1>1. Blank \in Content /\ \A g \in Files : disk'[g] \in FileContent /\ latest'[g] \in FileContent
  BY DEF Blank, Content, TypeOK
<1>2. \A g \in Files, y \in Blocks : View(g, y)' \in Content
  BY ViewCellsNext
<1> QED BY <1>1, <1>2 DEF AView, AStored, AAcked, Unless, FileContent

\* One block of a file that is there may show a change.
LEMMA ShownBlock ==
    ASSUME TypeOK, TypeOK', gone' = gone, NEW f \in Files, NEW x \in Blocks, ~gone[f], Elsewhere(f, x)
    PROVE  /\ AView' = [AView EXCEPT ![f][x] = View(f, x)'] /\ AView[f][x] = View(f, x)
           /\ AStored' = [AStored EXCEPT ![f][x] = disk'[f][x]] /\ AStored[f][x] = disk[f][x]
           /\ AAcked' = [AAcked EXCEPT ![f][x] = latest'[f][x]] /\ AAcked[f][x] = latest[f][x]
           /\ View(f, x)' = View(f, x) => AView' = AView
           /\ disk'[f][x] = disk[f][x] => AStored' = AStored
           /\ latest'[f][x] = latest[f][x] => AAcked' = AAcked
<1>1. \A g \in Files, y \in Blocks : ~gone[g] /\ (g # f \/ y # x) =>
         View(g, y)' = View(g, y) /\ disk'[g][y] = disk[g][y] /\ latest'[g][y] = latest[g][y]
  BY DEF Elsewhere, Same
<1>2. /\ AView[f][x] = View(f, x) /\ AView'[f][x] = View(f, x)'
      /\ AStored[f][x] = disk[f][x] /\ AStored'[f][x] = disk'[f][x]
      /\ AAcked[f][x] = latest[f][x] /\ AAcked'[f][x] = latest'[f][x]
  BY ShownType, ShownTypeNext
<1>3. \A g \in Files, y \in Blocks : g # f \/ y # x =>
         AView'[g][y] = AView[g][y] /\ AStored'[g][y] = AStored[g][y] /\ AAcked'[g][y] = AAcked[g][y]
  BY <1>1, ShownType, ShownTypeNext
<1>4. AView' = [AView EXCEPT ![f][x] = AView'[f][x]] /\ (AView'[f][x] = AView[f][x] => AView' = AView)
  <2>1. AView \in [Files -> FileContent] /\ AView' \in [Files -> FileContent]
    BY ShownType, ShownTypeNext
  <2>2. \A g \in Files, y \in Blocks : g # f \/ y # x => AView'[g][y] = AView[g][y]
    BY <1>3
  <2> QED BY <2>1, <2>2, OneBlock
<1>5. /\ AStored' = [AStored EXCEPT ![f][x] = AStored'[f][x]]
      /\ AStored'[f][x] = AStored[f][x] => AStored' = AStored
  <2>1. AStored \in [Files -> FileContent] /\ AStored' \in [Files -> FileContent]
    BY ShownType, ShownTypeNext
  <2>2. \A g \in Files, y \in Blocks : g # f \/ y # x => AStored'[g][y] = AStored[g][y]
    BY <1>3
  <2> QED BY <2>1, <2>2, OneBlock
<1>6. /\ AAcked' = [AAcked EXCEPT ![f][x] = AAcked'[f][x]]
      /\ AAcked'[f][x] = AAcked[f][x] => AAcked' = AAcked
  <2>1. AAcked \in [Files -> FileContent] /\ AAcked' \in [Files -> FileContent]
    BY ShownType, ShownTypeNext
  <2>2. \A g \in Files, y \in Blocks : g # f \/ y # x => AAcked'[g][y] = AAcked[g][y]
    BY <1>3
  <2> QED BY <2>1, <2>2, OneBlock
<1> QED BY <1>2, <1>4, <1>5, <1>6

LEMMA ShownStill ==
    ASSUME TypeOK, TypeOK', gone' = gone, Still
    PROVE  AView' = AView /\ AStored' = AStored /\ AAcked' = AAcked
<1>1. \A g \in Files, y \in Blocks : ~gone[g] =>
         View(g, y)' = View(g, y) /\ disk'[g][y] = disk[g][y] /\ latest'[g][y] = latest[g][y]
  BY DEF Still, Same
<1>2. \A g \in Files : /\ disk[g] \in [Blocks -> Content] /\ disk'[g] \in [Blocks -> Content]
                       /\ latest[g] \in [Blocks -> Content] /\ latest'[g] \in [Blocks -> Content]
  BY DEF TypeOK, FileContent
<1>3. AView' = AView
  BY <1>1 DEF AView, Unless
<1>4. \A g \in Files : ~gone[g] => disk'[g] = disk[g] /\ latest'[g] = latest[g]
  BY <1>1, <1>2
<1> QED BY <1>3, <1>4 DEF AStored, AAcked, Unless

\* A Flush that goes on shows no change.
LEMMA ShownKept ==
    ASSUME gone' = gone, NEW c \in Clients, Kept(c)
    PROVE  AFl(c)' = AFl(c)
BY DEF AFl, Kept

\* A change of one block is a step of WriteBack.
LEMMA BlockRefines ==
    ASSUME TypeOK, TypeOK', gone' = gone, ver' <= MaxVer + Cardinality(Clients), AFlush' = AFlush,
           NEW f \in Files, NEW x \in Blocks, ~gone[f], Elsewhere(f, x), Change(f, x)
    PROVE  Promise!AbstractNext
<1>1. /\ View(f, x) \in [Cells -> Nat] /\ disk[f][x] \in [Cells -> Nat]
      /\ latest[f][x] \in [Cells -> Nat]
  BY ViewCells DEF Content
<1>2. /\ View(f, x)' \in [Cells -> Nat] /\ disk'[f][x] \in [Cells -> Nat]
      /\ latest'[f][x] \in [Cells -> Nat]
  BY ViewCellsNext DEF Content
<1>3. ASSUME Stores(f, x) PROVE Promise!Store(f, x, Cells)
  <2>1. disk'[f][x] = Promise!Taken(disk[f][x], View(f, x), Cells)
    BY <1>1, <1>2, <1>3 DEF Stores, Promise!Taken
  <2>2. AStored' = [AStored EXCEPT ![f][x] = Promise!Taken(@, AView[f][x], Cells)]
    BY <2>1, ShownBlock
  <2>3. AView' = AView /\ AAcked' = AAcked
    BY <1>3, ShownBlock DEF Stores
  <2> QED BY <2>2, <2>3 DEF Promise!Store, AView, AStored, AAcked, AFlush, AFl
<1>4. ASSUME NEW S \in SUBSET Cells, Acks(f, x, S) PROVE Promise!Acknowledge(f, x, S)
  <2>1. latest'[f][x] = Promise!Taken(latest[f][x], View(f, x), S)
    BY <1>1, <1>2, <1>4 DEF Acks, Promise!Taken
  <2>2. AAcked' = [AAcked EXCEPT ![f][x] = Promise!Taken(@, AView[f][x], S)]
    BY <2>1, ShownBlock
  <2>3. AView' = AView /\ AStored' = AStored
    BY <1>4, ShownBlock DEF Acks
  <2> QED BY <2>2, <2>3 DEF Promise!Acknowledge, AView, AStored, AAcked, AFlush, AFl
<1>5. ASSUME NEW S \in SUBSET Cells, NEW v \in Nat, Takes(f, x, S, v)
      PROVE  v \in 1 .. MaxVer + Cardinality(Clients) /\ Promise!Write(f, x, S, v)
  <2> DEFINE new == [i \in Cells |-> IF i \in S THEN v ELSE AView[f][x][i]]
  <2>1. v \in 1 .. MaxVer + Cardinality(Clients)
    <3>1. 0 \in Cells
      BY BufferAssumption DEF Cells
    <3>2. View(f, x)[0] < v /\ v <= ver' /\ View(f, x)[0] \in Nat /\ ver' \in Nat
      BY <1>1, <1>5, <3>1 DEF Takes, TypeOK
    <3> QED BY <3>2, AtLockSize, WCacheAssumption
  <2>2. AView' = [AView EXCEPT ![f][x] = new]
    <3>1. View(f, x)' = new
      BY <1>1, <1>2, <1>5, ShownBlock DEF Takes, Updated
    <3> QED BY <3>1, ShownBlock
  <2>3. ASSUME NEW u \in [Cells -> Nat], NEW w \in [Cells -> Nat], Updated(w, u, S, v)
        PROVE  w = Promise!Taken(u, new, S)
    BY <2>3 DEF Updated, Promise!Taken
  <2> HIDE DEF new
  <2>4. AStored' \in {AStored, [AStored EXCEPT ![f][x] = Promise!Taken(@, new, S)]}
    <3>1. CASE disk'[f][x] = disk[f][x]
      BY <3>1, ShownBlock
    <3>2. CASE Updated(disk'[f][x], disk[f][x], S, v)
      BY <1>1, <1>2, <2>3, <3>2, ShownBlock
    <3> QED BY <1>5, <3>1, <3>2 DEF Takes
  <2>5. AAcked' \in {AAcked, [AAcked EXCEPT ![f][x] = Promise!Taken(@, new, S)]}
    <3>1. CASE latest'[f][x] = latest[f][x]
      BY <3>1, ShownBlock
    <3>2. CASE Updated(latest'[f][x], latest[f][x], S, v)
      BY <1>1, <1>2, <2>3, <3>2, ShownBlock
    <3> QED BY <1>5, <3>1, <3>2 DEF Takes
  <2>6. \A i \in Cells : AView[f][x][i] < v
    BY <1>5, ShownBlock DEF Takes
  <2>7. Promise!Write(f, x, S, v)
    BY <2>2, <2>4, <2>5, <2>6 DEF Promise!Write, AView, AStored, AAcked, AFlush, AFl, new
  <2> QED BY <2>1, <2>7
<1> QED BY <1>3, <1>4, <1>5 DEF Change, Promise!AbstractNext, Promise!BlockStep


\* The same after a step.
LEMMA FlusherFactsNext ==
    ASSUME PlaceInv', NEW c \in Clients, fl'[c].kind # "none"
    PROVE  loc'[c].fe \in Files /\ snap'[c] \in [Blocks -> [Cells -> Nat]]
<1>1. pc'[c] \in {"flushing", "fsync", "synced"} /\ c \in Procs
  BY DEF PlaceInv, SafeInv, ClientInv, Procs
<1>2. loc'[c].fe \in Files
  BY <1>1 DEF PlaceInv, TypeInv, BufferInv, LocalOK
<1>3. snap'[c] \in [Blocks -> [Cells -> Nat]]
  BY DEF PlaceInv, TypeInv, TypeOK, FileContent, Content
<1> QED BY <1>1, <1>2, <1>3


\* The content a Flush is measured by.
LEMMA ShownAchieved ==
    ASSUME TypeOK', NEW f \in Files, ~gone'[f], NEW u \in [Blocks -> [Cells -> Nat]],
           \A x \in Blocks, i \in Cells : u[x][i] <= disk'[f][x][i]
    PROVE  Promise!AtLeast(AStored'[f], u)
<1> SUFFICES ASSUME NEW x \in Blocks, NEW i \in Cells PROVE AStored'[f][x][i] >= u[x][i]
  BY DEF Promise!AtLeast
<1>1. AStored'[f][x][i] = disk'[f][x][i] /\ disk'[f][x][i] \in Nat /\ u[x][i] \in Nat
  BY ShownTypeNext, ContentCellsNext
<1> QED BY <1>1

\* What a Flush that returned nil shows.
LEMMA FlushAchieved ==
    ASSUME PlaceInv', FlushData', AStored' = AStored, gone' = gone, NEW c \in Clients,
           fl'[c].kind # "none", AFl(c)'.state = "ok"
    PROVE  LET q == AFl(c)' IN gone[q.file] \/ Promise!AtLeast(AStored[q.file], q.need)
<1>1. /\ fl'[c].pend = {} /\ ~fl'[c].failed
      /\ AFl(c)'.file = loc'[c].fe /\ AFl(c)'.need = Unless(gone'[loc'[c].fe], snap'[c])
  BY DEF AFl
<1>2. loc'[c].fe \in Files /\ snap'[c] \in [Blocks -> [Cells -> Nat]]
  BY FlusherFactsNext
<1>3. CASE gone[loc'[c].fe]
  BY <1>1, <1>3
<1>4. CASE ~gone[loc'[c].fe]
  <2>1. PICK f \in Files : f = loc'[c].fe
    BY <1>2
  <2>2. \A x \in Blocks, i \in Cells : snap'[c][x][i] <= disk'[f][x][i]
    BY <1>1, <1>4, <2>1 DEF FlushData, FlushOK
  <2>3. Promise!AtLeast(AStored'[f], snap'[c])
    BY <1>2, <1>4, <2>1, <2>2, ShownAchieved DEF PlaceInv, TypeInv
  <2>4. AFl(c)'.need = snap'[c]
    BY <1>1, <1>4 DEF Unless
  <2> QED BY <1>1, <2>1, <2>3, <2>4
<1> QED BY <1>3, <1>4

\* A Flush that begins, gets its last result or returns is a step of WriteBack.
LEMMA FlushRefines ==
    ASSUME PlaceInv, PlaceInv', FlushData', AView' = AView, AStored' = AStored, AAcked' = AAcked,
           gone' = gone, FlushMove
    PROVE  Promise!AbstractNext \/ UNCHANGED Promise!abstractVars
<1>1. PICK c \in Clients : /\ \A d \in Clients \ {c} : Kept(d)
                           /\ Begins(c) \/ Reported(c) \/ Ends(c)
  BY DEF FlushMove
<1> DEFINE q == AFl(c)'
<1>2. AFlush[c] = AFl(c) /\ AFlush' = [AFlush EXCEPT ![c] = q]
  <2>1. \A d \in Clients \ {c} : AFl(d)' = AFl(d)
    BY <1>1, ShownKept
  <2> QED BY <2>1 DEF AFlush
<1>3. ASSUME q = AFl(c) PROVE UNCHANGED Promise!abstractVars
  <2>1. AFlush' = AFlush
    BY <1>2, <1>3 DEF AFlush
  <2> QED BY <2>1, ShownSame
<1>4. ASSUME fl'[c].kind # "none", q.state = "ok"
      PROVE  gone[q.file] \/ Promise!AtLeast(AStored[q.file], q.need)
  BY <1>4, FlushAchieved
<1> HIDE DEF q
<1>5. ASSUME Begins(c) PROVE Promise!AbstractNext
  <2>1. PICK f \in Files : f = loc'[c].fe
    BY <1>5 DEF Begins
  <2>2. PICK s \in {"running", "ok"} : q = [state |-> s, file |-> f, need |-> AAcked[f]]
    BY <1>5, <2>1 DEF Begins, q, AFl, AAcked
  <2>3. AFlush[c].state = "none"
    BY <1>2, <1>5 DEF Begins, AFl
  <2>4. s = "ok" => gone[f] \/ Promise!AtLeast(AStored[f], AAcked[f])
    BY <1>4, <1>5, <2>2 DEF Begins
  <2>5. Promise!FlushBegin(c, f)
    BY <1>2, <2>2, <2>3, <2>4
    DEF Promise!FlushBegin, Promise!Achieved, AView, AStored, AAcked, AFlush, AFl
  <2> QED BY <2>5 DEF Promise!AbstractNext, Promise!FlushStep
<1>6. ASSUME Reported(c) PROVE Promise!AbstractNext \/ UNCHANGED Promise!abstractVars
  <2>1. CASE fl[c].kind = "none"
    BY <1>3, <1>6, <2>1 DEF Reported, q, AFl
  <2>2. CASE fl[c].kind # "none" /\ fl'[c].pend # {}
    BY <1>3, <1>6, <2>2 DEF Reported, q, AFl
  <2>3. CASE fl[c].kind # "none" /\ fl'[c].pend = {}
    <3>1. AFl(c) = [state |-> "running", file |-> loc[c].fe, need |-> Unless(gone[loc[c].fe], snap[c])]
      BY <1>6, <2>3 DEF Reported, AFl
    <3>2. PICK s \in {"ok", "failed"} :
             q = [state |-> s, file |-> loc[c].fe, need |-> Unless(gone[loc[c].fe], snap[c])]
      BY <1>6, <2>3 DEF Reported, q, AFl
    <3>3. q = [AFlush[c] EXCEPT !.state = s] /\ AFlush[c].state = "running"
      BY <1>2, <3>1, <3>2
    <3>4. q.state = "ok" => gone[q.file] \/ Promise!AtLeast(AStored[q.file], q.need)
      BY <1>4, <1>6, <2>3 DEF Reported
    <3>5. Promise!FlushEnd(c)
      BY <1>2, <3>3, <3>4
      DEF Promise!FlushEnd, Promise!Achieved, AView, AStored, AAcked, AFlush, AFl
    <3> QED BY <3>5 DEF Promise!AbstractNext, Promise!FlushStep
  <2> QED BY <2>1, <2>2, <2>3
<1>7. ASSUME Ends(c) PROVE Promise!AbstractNext \/ UNCHANGED Promise!abstractVars
  <2>1. CASE fl[c].kind = "none"
    BY <1>3, <1>7, <2>1 DEF Ends, q, AFl
  <2>2. CASE fl[c].kind # "none"
    <3>1. AFlush[c].state \in {"ok", "failed"}
      BY <1>2, <1>7, <2>2 DEF Ends, AFl
    <3>2. q = Promise!NoFlush
      BY <1>7 DEF Ends, q, AFl, Promise!NoFlush, Promise!Empty, Blank
    <3>3. Promise!FlushReturn(c)
      BY <1>2, <3>1, <3>2 DEF Promise!FlushReturn, AView, AStored, AAcked, AFlush, AFl
    <3> QED BY <3>3 DEF Promise!AbstractNext, Promise!FlushStep
  <2> QED BY <2>1, <2>2
<1> QED BY <1>1, <1>5, <1>6, <1>7

\* A file that is removed.
LEMMA RemoveRefines ==
    ASSUME PlaceInv, NEW f \in Unlinks, Unlink(f)
    PROVE  Promise!AbstractNext
<1>1. /\ f \in Files /\ ~gone[f] /\ gone' = [gone EXCEPT ![f] = TRUE]
      /\ UNCHANGED <<Cache, BufferMap, buf, loc, fl, disk, latest, snap>>
  BY WCacheAssumption DEF Unlink, poolVars, tableVars, localVars, ghostVars
<1>2. gone'[f] /\ \A g \in Files : g # f => gone'[g] = gone[g]
  BY <1>1 DEF PlaceInv, TypeInv, TypeOK
<1>3. \A g \in Files, y \in Blocks : View(g, y)' = View(g, y)
  BY <1>1 DEF View
<1>4. Promise!Empty = [x \in Blocks |-> Blank]
  BY DEF Promise!Empty, Blank
<1>5. AView' = [AView EXCEPT ![f] = Promise!Empty]
  BY <1>1, <1>2, <1>3, <1>4 DEF AView, Unless
<1>6. AStored' = [AStored EXCEPT ![f] = Promise!Empty] /\ AAcked' = [AAcked EXCEPT ![f] = Promise!Empty]
  BY <1>1, <1>2, <1>4 DEF AStored, AAcked, Unless
<1>7. ASSUME NEW c \in Clients
      PROVE  AFl(c)' = IF AFl(c).file = f THEN [AFl(c) EXCEPT !.need = Promise!Empty] ELSE AFl(c)
  <2>1. CASE fl[c].kind = "none"
    BY <1>1, <2>1, BufferAssumption DEF AFl
  <2>2. CASE fl[c].kind # "none"
    <3>1. loc[c].fe \in Files
      BY <2>2, FlusherFacts
    <3> QED BY <1>1, <1>2, <1>4, <2>2, <3>1 DEF AFl, Unless
  <2> QED BY <2>1, <2>2
<1>8. AFlush' = [c \in Clients |-> IF AFlush[c].file = f THEN [AFlush[c] EXCEPT !.need = Promise!Empty]
                                                       ELSE AFlush[c]]
  BY <1>7 DEF AFlush
<1>9. Promise!Remove(f)
  BY <1>1, <1>5, <1>6, <1>8 DEF Promise!Remove, AView, AStored, AAcked, AFlush, AFl
<1> QED BY <1>1, <1>9 DEF Promise!AbstractNext

LEMMA InitRefines == Init => Promise!AbstractInit
<1> SUFFICES ASSUME Init PROVE Promise!AbstractInit
  OBVIOUS
<1>1. \A f \in Files, x \in Blocks : View(f, x) = Blank /\ disk[f] = [y \in Blocks |-> Blank]
  BY DEF Init, View
<1>2. Promise!Empty = [x \in Blocks |-> Blank]
  BY DEF Promise!Empty, Blank
<1>3. AView = [f \in Files |-> Promise!Empty]
  BY <1>1, <1>2 DEF AView, Unless, Init
<1>4. AStored = [f \in Files |-> Promise!Empty] /\ AAcked = [f \in Files |-> Promise!Empty]
  BY <1>1, <1>2 DEF AStored, AAcked, Unless, Init
<1>5. AFlush = [c \in Clients |-> Promise!NoFlush]
  BY <1>2 DEF AFlush, AFl, Promise!NoFlush, Init, NoFl
<1> QED BY <1>3, <1>4, <1>5 DEF Promise!AbstractInit, AView, AStored, AAcked, AFlush, AFl, Init

LEMMA StutterRefines == UNCHANGED vars => UNCHANGED Promise!abstractVars
<1> SUFFICES ASSUME UNCHANGED vars PROVE UNCHANGED Promise!abstractVars
  OBVIOUS
<1>1. UNCHANGED <<Cache, BufferMap, buf, loc, fl, disk, gone, latest, snap>>
  BY DEF vars, poolVars, tableVars, localVars, diskVars, ghostVars
<1>2. AView' = AView /\ AStored' = AStored /\ AAcked' = AAcked /\ AFlush' = AFlush
  BY <1>1 DEF AView, View, AStored, AAcked, AFlush, AFl
<1> QED BY <1>1, <1>2, ShownSame

\* A step that moves the data of one block, or a Flush, or removes a file.
LEMMA MoveRefines ==
    ASSUME PlaceInv, PlaceInv', DataInv, DataInv', BoundInv',
           \/ DataStep /\ \A c \in Clients : Kept(c)
           \/ DataStep /\ Still /\ FlushMove
           \/ \E f \in Unlinks : Unlink(f)
    PROVE  Promise!AbstractNext \/ UNCHANGED Promise!abstractVars
<1>0. TypeOK /\ TypeOK' /\ ver' <= MaxVer + Cardinality(Clients)
  BY AtLockSize, WCacheAssumption DEF PlaceInv, TypeInv, TypeOK, BoundInv
<1>1. CASE DataStep /\ \A c \in Clients : Kept(c)
  <2>1. gone' = gone
    BY <1>1 DEF DataStep, Forward
  <2>2. AFlush' = AFlush
    <3>1. \A c \in Clients : AFl(c)' = AFl(c)
      BY <1>1, <2>1, ShownKept
    <3> QED BY <3>1 DEF AFlush
  <2>3. CASE Still
    BY <1>0, <2>1, <2>2, <2>3, ShownStill, ShownSame
  <2>4. ASSUME NEW f \in Files, NEW x \in Blocks, ~gone[f], Elsewhere(f, x), Change(f, x)
        PROVE  Promise!AbstractNext
    BY <1>0, <2>1, <2>2, <2>4, BlockRefines
  <2> QED BY <1>1, <2>3, <2>4 DEF DataStep
<1>2. CASE DataStep /\ Still /\ FlushMove
  <2>1. gone' = gone
    BY <1>2 DEF DataStep, Forward
  <2>2. AView' = AView /\ AStored' = AStored /\ AAcked' = AAcked
    BY <1>0, <1>2, <2>1, ShownStill
  <2> QED BY <1>2, <2>1, <2>2, FlushRefines DEF DataInv
<1>3. CASE \E f \in Unlinks : Unlink(f)
  BY <1>3, RemoveRefines
<1> QED BY <1>1, <1>2, <1>3

\* The write-back cache implements WriteBack (KeepsPromise): whatever buffers,
\* goroutines and failing requests do, a write takes effect for readers at one
\* moment, the server only catches up with them, and WCache.Flush succeeds only
\* when it has, under the provisos of ReadsCoherent.
THEOREM CacheImplementsWriteBack ==
    ASSUME ~OpenDuringLastClose, OwnUnlock
    PROVE  Spec => KeepsPromise
<1> DEFINE I == PlaceInv /\ DataInv
<1>1. ASSUME I, I', BoundInv', Next
      PROVE  Promise!AbstractNext \/ UNCHANGED Promise!abstractVars
  BY <1>1, NextData, MoveRefines
<1>2. Spec => []BoundInv
  <2>1. PlaceInv /\ BoundInv /\ [Next]_vars => BoundInv'
    BY NextBound
  <2> QED BY <2>1, InitBound, DataInvHolds, PTL DEF Spec
<1>3. I /\ I' /\ BoundInv' /\ [Next]_vars => [Promise!AbstractNext]_(Promise!abstractVars)
  BY <1>1, StutterRefines
<1>4. Spec => []I
  BY DataInvHolds
<1> HIDE DEF I
<1> QED BY <1>2, <1>3, <1>4, InitRefines, PTL DEF Spec, KeepsPromise, Promise!AbstractSpec

-----------------------------------------------------------------------------
(* How much a read returns.  The inductive invariant is FilledInv: without   *)
(* it an empty buffer, or one with a cell nobody wrote, would lengthen a    *)
(* read.  The first lemmas are about positions, sizes and the ops of Slice. *)

\* A non-empty set of numbers up to a bound has its Max.
LEMMA MaxOfBounded ==
    ASSUME NEW n \in Nat, NEW S, S \subseteq 0 .. n, S # {}
    PROVE  Max(S) \in S /\ \A y \in S : y <= Max(S)
<1> DEFINE T == {n - y : y \in S}
           R == OpToRel(<, Nat)
<1>1. T \subseteq Nat /\ T # {}
  <2>1. \A y \in S : n - y \in Nat
    OBVIOUS
  <2> QED BY <2>1
<1>2. IsWellFoundedOn(R, Nat)
  BY NatLessThanWellFounded
<1>3. \A x, y \in Nat : y < x => <<y, x>> \in R
  BY DEF OpToRel
<1> HIDE DEF R
<1>4. PICK m \in T : \A y \in T : ~ (<<y, m>> \in R)
  <2> HIDE DEF T
  <2> QED BY <1>1, <1>2, WFMin
<1>5. \A y \in T : ~ (y < m)
  <2> HIDE DEF T
  <2> QED BY <1>1, <1>3, <1>4
<1>6. PICK z \in S : m = n - z
  BY <1>4
<1>7. \A y \in S : z >= y
  <2> SUFFICES ASSUME NEW y \in S PROVE z >= y
    OBVIOUS
  <2>1. n - y \in T /\ ~ (n - y < n - z)
    BY <1>5, <1>6
  <2>2. y \in Int /\ z \in Int
    OBVIOUS
  <2> QED BY <2>1, <2>2
<1>8. \E x \in S : \A y \in S : x >= y
  BY <1>7
<1>9. Max(S) \in S /\ \A y \in S : Max(S) >= y
  BY <1>8 DEF Max
<1> QED BY <1>9

\* The larger of two numbers.
LEMMA MaxOfTwo ==
    ASSUME NEW a \in Int, NEW b \in Int
    PROVE  Max({a, b}) = IF a < b THEN b ELSE a
<1> DEFINE S == {a, b}
<1>1. \E x \in S : \A y \in S : x >= y
  OBVIOUS
<1>2. Max(S) \in S /\ \A y \in S : Max(S) >= y
  BY <1>1 DEF Max
<1> QED BY <1>2

\* The smaller of two numbers.
LEMMA MinOfTwo ==
    ASSUME NEW a \in Int, NEW b \in Int
    PROVE  Min({a, b}) = IF a < b THEN a ELSE b
<1> DEFINE S == {a, b}
<1>1. \E x \in S : \A y \in S : x <= y
  OBVIOUS
<1>2. Min(S) \in S /\ \A y \in S : Min(S) <= y
  BY <1>1 DEF Min
<1> QED BY <1>2

\* A position and its block and cell determine each other.
LEMMA PositionParts ==
    ASSUME NEW x \in Nat, NEW i \in Cells
    PROVE  /\ (x * BlockSize + i) \div BlockSize = x
           /\ (x * BlockSize + i) % BlockSize = i
           /\ x * BlockSize + i \in Nat
<1> DEFINE B == BlockSize
<1>1. B \in Nat /\ B > 0
  BY BufferAssumption
<1>2. x * B \in Nat
  BY <1>1
<1> QED BY <1>1, <1>2, SMTT(30) DEF Cells

\* The blocks of a file lie one behind the other.
LEMMA BlockOrder ==
    ASSUME NEW x \in Nat
    PROVE  /\ BlockSize \in Nat /\ BlockSize > 0
           /\ x * BlockSize \in Nat /\ (x + 1) * BlockSize = x * BlockSize + BlockSize
           /\ \A y \in Nat : x < y => x * BlockSize + BlockSize <= y * BlockSize
<1>1. BlockSize \in Nat /\ BlockSize > 0
  BY BufferAssumption
<1>2. x * BlockSize \in Nat /\ (x + 1) * BlockSize = x * BlockSize + BlockSize
  BY <1>1
<1>3. ASSUME NEW y \in Nat, x < y PROVE x * BlockSize + BlockSize <= y * BlockSize
  <2>1. PICK d \in Nat : y = x + 1 + d
    <3>1. y - x - 1 \in Nat /\ y = x + 1 + (y - x - 1)
      BY <1>3
    <3> QED BY <3>1
  <2>2. y * BlockSize = x * BlockSize + BlockSize + d * BlockSize
    BY <2>1, <1>1
  <2>3. d * BlockSize \in Nat
    BY <1>1
  <2> QED BY <1>1, <1>2, <2>2, <2>3
<1> QED BY <1>1, <1>2, <1>3

\* Every position lies in a block.
LEMMA PositionSplit ==
    ASSUME NEW p \in Nat
    PROVE  \E x \in Nat, i \in Cells : p = x * BlockSize + i
<1> DEFINE T == {r \in Nat : \E x \in Nat : p = x * BlockSize + r}
           R == OpToRel(<, Nat)
<1>1. BlockSize \in Nat /\ BlockSize > 0
  BY BufferAssumption
<1>2. p \in T
  <2>1. p = 0 * BlockSize + p
    BY <1>1
  <2> QED BY <2>1
<1>3. IsWellFoundedOn(R, Nat) /\ \A x, y \in Nat : y < x => <<y, x>> \in R
  BY NatLessThanWellFounded DEF OpToRel
<1> HIDE DEF R
<1>4. PICK m \in T : \A y \in T : ~ (<<y, m>> \in R)
  <2>1. T \subseteq Nat /\ T # {}
    BY <1>2
  <2> HIDE DEF T
  <2> QED BY <1>3, <2>1, WFMin
<1>5. PICK x \in Nat : p = x * BlockSize + m
  BY <1>4
<1>6. m < BlockSize
  <2> SUFFICES ASSUME m >= BlockSize PROVE FALSE
    BY <1>1, <1>4
  <2>1. m - BlockSize \in Nat /\ m - BlockSize < m
    BY <1>1, <1>4
  <2>2. p = (x + 1) * BlockSize + (m - BlockSize)
    <3>1. (x + 1) * BlockSize = x * BlockSize + BlockSize /\ x * BlockSize \in Nat
      BY BlockOrder
    <3> QED BY <1>1, <1>4, <1>5, <3>1
  <2>3. m - BlockSize \in T
    <3>1. x + 1 \in Nat
      OBVIOUS
    <3> QED BY <2>1, <2>2, <3>1
  <2>4. <<m - BlockSize, m>> \in R
    BY <1>3, <1>4, <2>1
  <2> QED BY <1>4, <2>3, <2>4
<1>7. m \in Cells
  BY <1>1, <1>4, <1>6 DEF Cells
<1> QED BY <1>5, <1>7

\* The positions of a file are those below its largest possible size.
LEMMA PositionRange ==
    /\ Cardinality(Blocks) * BlockSize \in Nat
    /\ Positions = 0 .. Cardinality(Blocks) * BlockSize - 1
    /\ \A p \in Positions : p \div BlockSize \in Blocks /\ p % BlockSize \in Cells /\ p \in Nat
<1> DEFINE n == Cardinality(Blocks)
           N == n * BlockSize
<1>1. n \in Nat /\ n > 0 /\ Blocks = 0 .. n - 1
  BY ReadSizeAssumption, BufferAssumption, FS_CardinalityType
<1>2. N \in Nat
  BY <1>1, BlockOrder
<1> HIDE DEF n
<1>3. ASSUME NEW p \in Positions
      PROVE  p \in 0 .. N - 1 /\ p \div BlockSize \in Blocks /\ p % BlockSize \in Cells /\ p \in Nat
  <2>1. PICK x \in Blocks, i \in Cells : p = x * BlockSize + i
    BY <1>3 DEF Positions
  <2>2. x \in Nat /\ x < n
    BY <1>1
  <2>3. p \div BlockSize = x /\ p % BlockSize = i /\ p \in Nat
    BY <2>1, <2>2, PositionParts
  <2>4. x * BlockSize + BlockSize <= N /\ x * BlockSize \in Nat /\ BlockSize \in Nat
    BY <2>2, <1>1, BlockOrder
  <2>5. p < N
    BY <2>1, <2>4, <1>2 DEF Cells
  <2> QED BY <2>1, <2>3, <2>5, <1>2
<1>4. ASSUME NEW p \in 0 .. N - 1 PROVE p \in Positions
  <2>1. p \in Nat /\ p < N
    BY <1>2
  <2>2. PICK x \in Nat, i \in Cells : p = x * BlockSize + i
    BY <2>1, PositionSplit
  <2>3. x < n
    <3> SUFFICES ASSUME ~(x < n) PROVE FALSE
      OBVIOUS
    <3>1. n < x \/ n = x
      BY <1>1
    <3>2. x * BlockSize \in Nat /\ BlockSize \in Nat
      BY BlockOrder
    <3>3. N <= x * BlockSize
      <4>1. CASE n = x
        BY <4>1, <3>2
      <4>2. CASE n < x
        <5>1. N + BlockSize <= x * BlockSize
          BY <4>2, <1>1, BlockOrder
        <5> QED BY <5>1, <3>2, <1>2
      <4> QED BY <3>1, <4>1, <4>2
    <3> QED BY <2>1, <2>2, <3>2, <3>3, <1>2 DEF Cells
  <2>4. x \in Blocks
    BY <2>3, <1>1
  <2> QED BY <2>2, <2>4 DEF Positions
<1> QED BY <1>2, <1>3, <1>4 DEF n

\* The size of a file is one more than its last written position.
LEMMA SizeOfContent ==
    ASSUME NEW content
    PROVE  /\ SizeOf(content) \in Nat
           /\ \A p \in Positions : At(content, p) # 0 => p < SizeOf(content)
           /\ SizeOf(content) > 0 => /\ SizeOf(content) - 1 \in Positions
                                     /\ At(content, SizeOf(content) - 1) # 0
<1> DEFINE W == {p \in Positions : At(content, p) # 0}
           n == Cardinality(Blocks) * BlockSize
<1>1. n \in Nat /\ W \subseteq 0 .. n
  BY PositionRange
<1>2. SizeOf(content) = IF W = {} THEN 0 ELSE Max(W) + 1
  BY DEF SizeOf
<1> HIDE DEF n
<1>3. CASE W = {}
  BY <1>2, <1>3
<1>4. CASE W # {}
  <2>1. Max(W) \in W /\ \A y \in W : y <= Max(W)
    <3> HIDE DEF W
    <3> QED BY <1>1, <1>4, MaxOfBounded
  <2>2. SizeOf(content) = Max(W) + 1 /\ Max(W) \in Nat
    BY <1>1, <1>2, <1>4, <2>1
  <2>3. SizeOf(content) \in Nat /\ SizeOf(content) - 1 = Max(W)
    BY <2>2
  <2>4. \A p \in W : p \in Nat
    BY <1>1
  <2>5. \A p \in W : p < SizeOf(content)
    <3> HIDE DEF W
    <3> QED BY <2>1, <2>2, <2>4
  <2> QED BY <2>1, <2>3, <2>5
<1> QED BY <1>3, <1>4

\* What an op of a read asks for: cells of its block, within the read.
OpFits(o, offset, size) ==
    /\ o.Index \in Blocks /\ o.RwOffset \in Cells /\ o.RwSize \in Nat /\ o.RwSize > 0
    /\ o.RwOffset + o.RwSize <= BlockSize
    /\ offset <= GetFileOffset(o) /\ GetFileOffset(o) + o.RwSize <= offset + size

\* An op of a read covers what the read asks of its block.
LEMMA SliceOpFacts ==
    ASSUME NEW offset \in Nat, NEW size \in Nat, size > 0, NEW x \in Blocks,
           offset < x * BlockSize + BlockSize, x * BlockSize < offset + size
    PROVE  LET o == SliceOp(offset, size, x)
           IN  /\ o.Index = x /\ OpFits(o, offset, size)
               /\ \A i \in Cells : offset <= x * BlockSize + i /\ x * BlockSize + i < offset + size
                                   => o.RwOffset <= i /\ i < o.RwOffset + o.RwSize
<1> DEFINE X     == x * BlockSize
           start == IF offset < X THEN X ELSE offset
           end   == IF X + BlockSize < offset + size THEN X + BlockSize ELSE offset + size
           o     == SliceOp(offset, size, x)
<1>1. x \in Nat /\ BlockSize \in Nat /\ BlockSize > 0 /\ X \in Nat /\ (x + 1) * BlockSize = X + BlockSize
  BY BufferAssumption, BlockOrder
<1>2. Max({offset, X}) = start
  BY <1>1, MaxOfTwo
<1>3. Min({(x + 1) * BlockSize, offset + size}) = end
  BY <1>1, MinOfTwo
<1>4. start - X \in Cells /\ start = X + (start - X)
  BY <1>1 DEF Cells
<1>5. start % BlockSize = start - X
  <2>1. PICK i \in Cells : i = start - X /\ start = x * BlockSize + i
    BY <1>4
  <2>2. (x * BlockSize + i) % BlockSize = i
    BY <1>1, PositionParts
  <2> QED BY <2>1, <2>2
<1>6. o = [Index |-> x, RwOffset |-> start - X, RwSize |-> end - start]
  BY <1>2, <1>3, <1>5 DEF SliceOp
<1>7. GetFileOffset(o) = start
  BY <1>1, <1>4, <1>6 DEF GetFileOffset
<1>8. o.Index = x /\ o.RwOffset = start - X /\ o.RwSize = end - start
  BY <1>6
<1> HIDE DEF o, X
<1>9. start \in Nat /\ end \in Nat /\ end - start > 0 /\ end <= X + BlockSize
      /\ end <= offset + size /\ offset <= start
  BY <1>1 DEF X
<1>10. OpFits(o, offset, size)
  BY <1>1, <1>4, <1>7, <1>8, <1>9 DEF OpFits
<1>11. \A i \in Cells : offset <= X + i /\ X + i < offset + size
                        => o.RwOffset <= i /\ i < o.RwOffset + o.RwSize
  BY <1>1, <1>8 DEF Cells
<1> QED BY <1>8, <1>10, <1>11 DEF o, X

\* The ops of a read lie within it, and every cell of the read is in one.
LEMMA SliceFacts ==
    ASSUME NEW offset \in Nat, NEW size \in Nat, size > 0
    PROVE  /\ \A o \in Slice(offset, size) : OpFits(o, offset, size)
           /\ \A x \in Blocks, i \in Cells :
                 offset <= x * BlockSize + i /\ x * BlockSize + i < offset + size =>
                     \E o \in Slice(offset, size) :
                         o.Index = x /\ o.RwOffset <= i /\ i < o.RwOffset + o.RwSize
<1>0. PICK y \in Nat, j \in Cells : offset = y * BlockSize + j
  BY PositionSplit
<1>1. offset \div BlockSize = y /\ y * BlockSize \in Nat /\ BlockSize \in Nat /\ BlockSize > 0
  BY <1>0, PositionParts, BlockOrder
<1>2. ASSUME NEW x \in Blocks
      PROVE  /\ x \in Nat /\ x * BlockSize \in Nat
             /\ offset < x * BlockSize + BlockSize <=> offset \div BlockSize <= x
  <2>1. x \in Nat /\ x * BlockSize \in Nat
    BY BufferAssumption, BlockOrder
  <2>2. CASE y < x
    <3>1. y * BlockSize + BlockSize <= x * BlockSize
      BY <2>1, <2>2, BlockOrder
    <3> QED BY <1>0, <1>1, <2>1, <2>2, <3>1 DEF Cells
  <2>3. CASE y = x
    BY <1>0, <1>1, <2>1, <2>3 DEF Cells
  <2>4. CASE x < y
    <3>1. x * BlockSize + BlockSize <= y * BlockSize
      BY <2>1, <2>4, BlockOrder
    <3> QED BY <1>0, <1>1, <2>1, <2>4, <3>1 DEF Cells
  <2> QED BY <2>1, <2>2, <2>3, <2>4
<1>3. ASSUME NEW o \in Slice(offset, size) PROVE OpFits(o, offset, size)
  <2>1. PICK x \in Blocks : /\ o = SliceOp(offset, size, x) /\ offset \div BlockSize <= x
                            /\ x * BlockSize < offset + size
    BY <1>3 DEF Slice
  <2> QED BY <1>2, <2>1, SliceOpFacts
<1>4. ASSUME NEW x \in Blocks, NEW i \in Cells,
             offset <= x * BlockSize + i, x * BlockSize + i < offset + size
      PROVE  \E o \in Slice(offset, size) :
                 o.Index = x /\ o.RwOffset <= i /\ i < o.RwOffset + o.RwSize
  <2>1. offset < x * BlockSize + BlockSize /\ x * BlockSize < offset + size
    BY <1>1, <1>2, <1>4 DEF Cells
  <2>2. SliceOp(offset, size, x) \in Slice(offset, size)
    BY <1>2, <2>1 DEF Slice
  <2>3. LET o == SliceOp(offset, size, x)
        IN  o.Index = x /\ o.RwOffset <= i /\ i < o.RwOffset + o.RwSize
    BY <1>4, <2>1, SliceOpFacts
  <2> QED BY <2>2, <2>3
<1> QED BY <1>3, <1>4

-----------------------------------------------------------------------------
(* Buffers in use hold data *)

\* Data of at least one cell, all of it written.
Filled(r) == r.Len > 0 /\ \A i \in Cells : InRange(r, i) => r.data[i] > 0

\* A Write under way writes something, with a version once it is drawn.
OpFilled(c) == /\ pc[c] \in Writes => op[c].RwSize > 0
               /\ pc[c] \in {"wflush", "wflushR"} => op[c].ver > 0

\* Every buffer in use holds data of writes, and so will those an op goes into.
FilledInv == (\A b \in Buffers \ FreeList : Filled(buf[b])) /\ \A c \in Clients : OpFilled(c)

\* A read sees something wherever a buffer has data or the server has.
LEMMA ViewFilled ==
    ASSUME PlaceInv, FilledInv, NEW f \in Files, NEW x \in Blocks
    PROVE  LET b == GetBuffer(f, x)
           IN  /\ b \in Buffers \cup {NoBuf}
               /\ b # NoBuf => /\ buf[b] \in BufferType /\ buf[b].Len > 0
                               /\ \A i \in Cells : InRange(buf[b], i) => View(f, x)[i] # 0
               /\ \A i \in Cells : disk[f][x][i] # 0 => View(f, x)[i] # 0
               /\ \A i \in Cells : View(f, x)[i] # 0 =>
                     disk[f][x][i] # 0 \/ (b # NoBuf /\ InRange(buf[b], i))
<1> DEFINE b == BufAt(f, x)
<1>0. GetBuffer(f, x) = b
  BY DEF GetBuffer, BufAt
<1>1. /\ b \in Buffers \cup {NoBuf}
      /\ \A i \in Cells : View(f, x)[i] =
            IF b # NoBuf /\ InRange(buf[b], i) THEN buf[b].data[i] ELSE disk[f][x][i]
  BY ViewCells DEF PlaceInv, TypeInv
<1>2. b # NoBuf => b \in Buffers \ FreeList
  BY BufAtHome DEF PlaceInv
<1>3. b # NoBuf => buf[b] \in BufferType /\ buf[b].Len > 0
                   /\ \A i \in Cells : InRange(buf[b], i) => buf[b].data[i] > 0
  BY <1>2 DEF FilledInv, Filled, PlaceInv, TypeInv, TypeOK
<1> HIDE DEF b
<1>4. \A i \in Cells : b # NoBuf /\ InRange(buf[b], i) => View(f, x)[i] # 0
  BY <1>1, <1>3
<1>5. \A i \in Cells : disk[f][x][i] # 0 => View(f, x)[i] # 0
  BY <1>1, <1>3
<1>6. \A i \in Cells : View(f, x)[i] # 0 => disk[f][x][i] # 0 \/ (b # NoBuf /\ InRange(buf[b], i))
  BY <1>1
<1> QED BY <1>0, <1>1, <1>3, <1>4, <1>5, <1>6

\* The cells of a file by block and cell.
LEMMA AtCell ==
    ASSUME NEW x \in Blocks, NEW i \in Cells, NEW content
    PROVE  x * BlockSize + i \in Positions /\ At(content, x * BlockSize + i) = content[x][i]
<1>1. x \in Nat
  BY BufferAssumption
<1> QED BY <1>1, PositionParts DEF At, Positions

\* A read is at least as long as the server's answer and reaches every buffer.
LEMMA ViewSize ==
    ASSUME PlaceInv, FilledInv, NEW f \in Files
    PROVE  /\ SizeOf(disk[f]) <= SizeOf(ViewOf(f))
           /\ SizeOf(disk[f]) \in Nat /\ SizeOf(ViewOf(f)) \in Nat
           /\ \A x \in Blocks, i \in Cells : View(f, x)[i] # 0 => x * BlockSize + i < SizeOf(ViewOf(f))
           /\ \A x \in Blocks, i \in Cells : disk[f][x][i] # 0 => x * BlockSize + i < SizeOf(disk[f])
<1>1. SizeOf(disk[f]) \in Nat /\ SizeOf(ViewOf(f)) \in Nat
  BY SizeOfContent
<1>2. ASSUME NEW x \in Blocks, NEW i \in Cells, View(f, x)[i] # 0
      PROVE  x * BlockSize + i < SizeOf(ViewOf(f))
  <2>1. ViewOf(f)[x] = View(f, x)
    BY DEF ViewOf
  <2>2. At(ViewOf(f), x * BlockSize + i) # 0 /\ x * BlockSize + i \in Positions
    BY <1>2, <2>1, AtCell
  <2> QED BY <2>2, SizeOfContent
<1>3. ASSUME NEW x \in Blocks, NEW i \in Cells, disk[f][x][i] # 0
      PROVE  x * BlockSize + i < SizeOf(disk[f])
  <2>1. At(disk[f], x * BlockSize + i) # 0 /\ x * BlockSize + i \in Positions
    BY <1>3, AtCell
  <2> QED BY <2>1, SizeOfContent
<1>4. SizeOf(disk[f]) <= SizeOf(ViewOf(f))
  <2> SUFFICES ASSUME SizeOf(disk[f]) > 0 PROVE SizeOf(disk[f]) <= SizeOf(ViewOf(f))
    BY <1>1
  <2>1. PICK p \in Positions : p = SizeOf(disk[f]) - 1 /\ At(disk[f], p) # 0
    BY SizeOfContent
  <2>2. PICK x \in Blocks, i \in Cells : p = x * BlockSize + i
    BY DEF Positions
  <2>3. disk[f][x][i] # 0
    BY <2>1, <2>2, AtCell
  <2>4. View(f, x)[i] # 0
    BY <2>3, ViewFilled
  <2>5. p < SizeOf(ViewOf(f)) /\ p \in Nat
    BY <1>2, <2>2, <2>4, PositionRange
  <2> QED BY <1>1, <2>1, <2>5
<1> QED BY <1>1, <1>2, <1>3, <1>4

\* What the server returns of an op: its part of the file on the server.
LEMMA DirectReadFacts ==
    ASSUME PlaceInv, NEW f \in Files, NEW o, NEW offset \in Nat, NEW size \in Nat,
           OpFits(o, offset, size)
    PROVE  LET n == DirectRead(f, o)
           IN  /\ n \in Nat /\ n <= o.RwSize
               /\ n > 0 => GetFileOffset(o) + n <= SizeOf(disk[f])
               /\ \A i \in Cells :
                     o.RwOffset <= i /\ i < o.RwOffset + o.RwSize
                     /\ o.Index * BlockSize + i < SizeOf(disk[f]) => i < o.RwOffset + n
<1> DEFINE D == SizeOf(disk[f])
           g == GetFileOffset(o)
           X == o.Index * BlockSize
<1>1. D \in Nat
  BY SizeOfContent
<1>2. o.Index \in Nat /\ X \in Nat /\ BlockSize \in Nat
  BY BlockOrder, BufferAssumption DEF OpFits
<1>3. g = X + o.RwOffset /\ g \in Nat /\ o.RwSize \in Nat /\ o.RwSize > 0 /\ o.RwOffset \in Nat
  BY <1>2 DEF OpFits, GetFileOffset, Cells
<1> HIDE DEF D, X, g
<1>4. Min({o.RwSize, D - g}) = IF o.RwSize < D - g THEN o.RwSize ELSE D - g
  BY <1>1, <1>3, MinOfTwo
<1>5. PICK m \in Int : m = Min({o.RwSize, D - g})
  BY <1>1, <1>3, <1>4
<1>6. DirectRead(f, o) = IF 0 < m THEN m ELSE 0
  BY <1>5, MaxOfTwo DEF DirectRead, D, g
<1> QED
  <2>1. /\ DirectRead(f, o) \in Nat /\ DirectRead(f, o) <= o.RwSize
        /\ DirectRead(f, o) > 0 => g + DirectRead(f, o) <= D
    BY <1>1, <1>3, <1>4, <1>5, <1>6
  <2>2. ASSUME NEW i \in Cells, o.RwOffset <= i, i < o.RwOffset + o.RwSize, X + i < D
        PROVE  i < o.RwOffset + DirectRead(f, o)
    <3>1. i \in Nat
      BY <1>2 DEF Cells
    <3> QED BY <1>1, <1>2, <1>3, <1>4, <1>5, <1>6, <2>2, <3>1
  <2> QED BY <2>1, <2>2 DEF D, g, X

\* The last block with a buffer.
LEMMA UpperIdxFacts ==
    ASSUME NEW f \in Files
    PROVE  /\ UpperIdx(f) \in Blocks
           /\ UpperIdx(f) > 0 => GetBuffer(f, UpperIdx(f)) # NoBuf
<1> DEFINE S == {0} \cup {x \in Blocks : GetBuffer(f, x) # NoBuf}
           n == Cardinality(Blocks)
<1>1. n \in Nat /\ S \subseteq 0 .. n /\ S # {} /\ S \subseteq Blocks
  BY ReadSizeAssumption, BufferAssumption, FS_CardinalityType
<1>2. Max(S) \in S
  <2> HIDE DEF S, n
  <2> QED BY <1>1, MaxOfBounded
<1>3. UpperIdx(f) = Max(S)
  BY DEF UpperIdx
<1>4. UpperIdx(f) \in S
  BY <1>2, <1>3
<1>5. UpperIdx(f) \in Blocks
  BY <1>1, <1>4
<1>6. UpperIdx(f) > 0 => UpperIdx(f) # 0
  BY <1>5, BufferAssumption
<1> QED BY <1>4, <1>5, <1>6

\* The answer of an op after the merge: what it covers and what it does not.
LEMMA MergeOpFacts ==
    ASSUME PlaceInv, FilledInv, NEW f \in Files, NEW o, NEW offset \in Nat, NEW size \in Nat,
           OpFits(o, offset, size)
    PROVE  LET n == MergeOp(f, o, DirectRead(f, o))
           IN  /\ n \in Nat /\ n <= o.RwSize
               /\ n > 0 => GetFileOffset(o) + n <= SizeOf(ViewOf(f))
               /\ \A i \in Cells :
                     o.RwOffset <= i /\ i < o.RwOffset + o.RwSize /\ View(f, o.Index)[i] # 0
                     => i < o.RwOffset + n
<1> DEFINE x == o.Index
           X == x * BlockSize
           V == SizeOf(ViewOf(f))
           D == SizeOf(disk[f])
           d == DirectRead(f, o)
           b == GetBuffer(f, x)
           n == MergeOp(f, o, d)
           a == o.RwOffset
           e == o.RwSize
           u == buf[b].Offset
           t == buf[b].Offset + buf[b].Len
<1>1. x \in Blocks /\ x \in Nat /\ X \in Nat /\ BlockSize \in Nat /\ BlockSize > 0
  BY BlockOrder, BufferAssumption DEF OpFits
<1>2. GetFileOffset(o) = X + a /\ a \in Nat /\ e \in Nat /\ e > 0 /\ a + e <= BlockSize
  BY <1>1 DEF OpFits, GetFileOffset, Cells
<1>3. /\ D <= V /\ D \in Nat /\ V \in Nat
      /\ \A y \in Blocks, i \in Cells : View(f, y)[i] # 0 => y * BlockSize + i < V
      /\ \A y \in Blocks, i \in Cells : disk[f][y][i] # 0 => y * BlockSize + i < D
  BY ViewSize
<1>4. /\ d \in Nat /\ d <= e /\ (d > 0 => GetFileOffset(o) + d <= D)
      /\ \A i \in Cells : a <= i /\ i < a + e /\ X + i < D => i < a + d
  BY DirectReadFacts
<1>5. /\ b \in Buffers \cup {NoBuf}
      /\ b # NoBuf => /\ buf[b] \in BufferType /\ buf[b].Len > 0
                      /\ \A i \in Cells : InRange(buf[b], i) => View(f, x)[i] # 0
      /\ \A i \in Cells : View(f, x)[i] # 0 =>
            disk[f][x][i] # 0 \/ (b # NoBuf /\ InRange(buf[b], i))
  BY <1>1, ViewFilled
<1>6. n = IF b = NoBuf THEN IF x < UpperIdx(f) THEN e ELSE d
          ELSE IF t <= a \/ a + e <= u THEN IF a < u THEN e ELSE d
          ELSE Max({d, Min({t, a + e}) - a})
  BY DEF MergeOp
<1>7. \A i \in Cells : i \in Nat /\ i < BlockSize
  BY <1>1 DEF Cells
<1> HIDE DEF x, X, V, D, d, b, n, a, e
<1>8. ASSUME NEW i \in Cells, a <= i, i < a + e, disk[f][x][i] # 0 PROVE i < a + d
  BY <1>1, <1>3, <1>4, <1>8 DEF X
<1>9. CASE n = d /\ (b # NoBuf => t <= a \/ a + e <= u)
  <2>1. d > 0 => GetFileOffset(o) + d <= V
    BY <1>1, <1>2, <1>3, <1>4
  <2>2. ASSUME NEW i \in Cells, a <= i, i < a + e, View(f, x)[i] # 0 PROVE i < a + d
    <3>1. ~(b # NoBuf /\ InRange(buf[b], i))
      <4> SUFFICES ASSUME b # NoBuf, InRange(buf[b], i) PROVE FALSE
        OBVIOUS
      <4>1. u \in Nat /\ t \in Nat /\ u <= i /\ i < t
        BY <1>5 DEF InRange, BufferType
      <4> QED BY <1>2, <1>7, <1>9, <2>2, <4>1
    <3> QED BY <1>5, <1>8, <2>2, <3>1
  <2> QED BY <1>4, <1>9, <2>1, <2>2 DEF n, d, a, e, x, V
<1>10. CASE n = e /\ X + a + e <= V
  BY <1>2, <1>10, <1>7 DEF n, d, a, e, x, V
<1>11. CASE b = NoBuf
  <2>1. CASE x < UpperIdx(f)
    <3>1. PICK y \in Blocks : y = UpperIdx(f) /\ y \in Nat /\ x < y
      BY <2>1, UpperIdxFacts, BufferAssumption
    <3>2. GetBuffer(f, y) # NoBuf
      BY <1>1, <3>1, UpperIdxFacts
    <3>3. PICK i \in Cells : View(f, y)[i] # 0
      <4>1. /\ GetBuffer(f, y) \in Buffers /\ buf[GetBuffer(f, y)] \in BufferType
            /\ buf[GetBuffer(f, y)].Len > 0
            /\ \A j \in Cells : InRange(buf[GetBuffer(f, y)], j) => View(f, y)[j] # 0
        BY <3>2, ViewFilled
      <4>2. PICK r \in BufferType : r = buf[GetBuffer(f, y)]
        BY <4>1
      <4>3. r.Offset \in Cells /\ InRange(r, r.Offset)
        BY <1>1, <4>1, <4>2 DEF BufferType, InRange, Cells
      <4> QED BY <4>1, <4>2, <4>3
    <3>4. y * BlockSize + i < V
      BY <1>3, <3>3
    <3>5. X + BlockSize <= y * BlockSize /\ y * BlockSize \in Nat
      BY <1>1, <3>1, BlockOrder DEF X
    <3>6. X + a + e <= V
      BY <1>1, <1>2, <1>3, <1>7, <3>4, <3>5
    <3> QED BY <1>6, <1>10, <1>11, <2>1, <3>6
  <2>2. CASE ~(x < UpperIdx(f))
    BY <1>6, <1>9, <1>11, <2>2
  <2> QED BY <2>1, <2>2
<1>12. CASE b # NoBuf
  <2>1. PICK r \in BufferType : r = buf[b]
    BY <1>5, <1>12
  <2>2. u \in Nat /\ t \in Nat /\ u < t /\ t <= BlockSize
    BY <1>1, <1>5, <1>12, <2>1 DEF BufferType
  <2>3. \A i \in Cells : u <= i /\ i < t => View(f, x)[i] # 0
    BY <1>5, <1>12 DEF InRange
  <2>3a. \A i \in Cells : InRange(buf[b], i) <=> u <= i /\ i < t
    BY DEF InRange
  <2> HIDE DEF u, t
  <2>4. CASE t <= a \/ a + e <= u
    <3>1. CASE a < u
      <4>1. u \in Cells /\ a + e <= u
        BY <1>1, <1>2, <2>2, <2>4, <3>1 DEF Cells
      <4>2. X + u < V
        BY <1>1, <1>3, <2>2, <2>3, <4>1 DEF X
      <4>3. X + a + e <= V
        BY <1>1, <1>2, <1>3, <2>2, <4>1, <4>2
      <4> QED BY <1>6, <1>10, <1>12, <2>4, <3>1, <4>3
    <3>2. CASE ~(a < u)
      BY <1>6, <1>9, <1>12, <2>4, <3>2 DEF u, t
    <3> QED BY <3>1, <3>2
  <2>5. CASE ~(t <= a \/ a + e <= u)
    <3> DEFINE w == IF t < a + e THEN t ELSE a + e
    <3>1. Min({t, a + e}) = w /\ w \in Nat /\ a < w /\ w <= a + e /\ w <= t /\ u < w
      BY <1>2, <2>2, <2>5, MinOfTwo
    <3>2. n = Max({d, w - a})
      BY <1>6, <1>12, <2>5, <3>1
    <3>3. n = IF d < w - a THEN w - a ELSE d
      BY <1>2, <1>4, <3>1, <3>2, MaxOfTwo
    <3>4. X + w <= V
      <4>1. w - 1 \in Cells /\ u <= w - 1 /\ w - 1 < t
        BY <1>1, <1>2, <2>2, <3>1 DEF Cells
      <4>2. X + (w - 1) < V
        BY <1>1, <1>3, <2>3, <4>1 DEF X
      <4> QED BY <1>1, <1>3, <3>1, <4>2
    <3>5. \A i \in Cells : i < a + e /\ i < t => i < w
      OBVIOUS
    <3> HIDE DEF w
    <3>6. n \in Nat /\ n <= e
      BY <1>2, <1>4, <3>1, <3>3
    <3>7. GetFileOffset(o) + n <= V
      BY <1>1, <1>2, <1>3, <1>4, <3>1, <3>3, <3>4
    <3>8. ASSUME NEW i \in Cells, a <= i, i < a + e, View(f, x)[i] # 0 PROVE i < a + n
      <4>1. CASE disk[f][x][i] # 0
        <5>1. i < a + d /\ d <= n
          BY <1>2, <1>4, <1>8, <3>1, <3>3, <3>8, <4>1
        <5> QED BY <1>2, <1>4, <1>7, <3>6, <5>1
      <4>2. CASE InRange(buf[b], i)
        <5>1. i < w /\ w - a <= n
          BY <1>2, <1>4, <2>3a, <3>1, <3>3, <3>5, <3>8, <4>2
        <5> QED BY <1>2, <1>7, <3>1, <3>6, <5>1
      <4> QED BY <1>5, <3>8, <4>1, <4>2
    <3> QED BY <3>6, <3>7, <3>8 DEF n, d, a, e, x, V
  <2> QED BY <2>4, <2>5
<1> QED BY <1>11, <1>12

\* A read returns what the merges of its ops found.
LEMMA FilledReads ==
    ASSUME PlaceInv, FilledInv
    PROVE  ReadComplete
<1> SUFFICES ASSUME NEW f \in Files, NEW offset \in Positions, NEW size \in 1 .. Cardinality(Positions),
                    offset + size - 1 \in Positions
             PROVE  LET n == DoRead(f, offset, size)
                    IN  /\ n <= size
                        /\ n > 0 => offset + n <= SizeOf(ViewOf(f))
                        /\ \A p \in offset .. offset + size - 1 :
                              At(ViewOf(f), p) # 0 => p < offset + n
  BY DEF ReadComplete
<1> DEFINE opSize(o) == MergeOp(f, o, DirectRead(f, o))
           found     == {o \in Slice(offset, size) : opSize(o) # 0}
           ends      == {GetFileOffset(o) - offset + opSize(o) : o \in found}
           S         == {0} \cup ends
           n         == DoRead(f, offset, size)
           V         == SizeOf(ViewOf(f))
<1>0. offset \in Nat /\ size \in Nat /\ size > 0
  BY PositionRange
<1>1. \A o \in Slice(offset, size) : OpFits(o, offset, size)
  BY <1>0, SliceFacts
<1>2. ASSUME NEW o \in Slice(offset, size)
      PROVE  /\ GetFileOffset(o) \in Nat /\ o.RwSize \in Nat /\ o.RwOffset \in Nat
             /\ offset <= GetFileOffset(o) /\ GetFileOffset(o) + o.RwSize <= offset + size
             /\ opSize(o) \in Nat /\ opSize(o) <= o.RwSize
             /\ opSize(o) > 0 => GetFileOffset(o) + opSize(o) <= V
             /\ \A i \in Cells :
                   o.RwOffset <= i /\ i < o.RwOffset + o.RwSize /\ View(f, o.Index)[i] # 0
                   => i < o.RwOffset + opSize(o)
  <2>1. OpFits(o, offset, size)
    BY <1>1
  <2>2. o.Index \in Nat /\ o.Index * BlockSize \in Nat /\ BlockSize \in Nat
    BY <2>1, BlockOrder, BufferAssumption DEF OpFits
  <2>3. GetFileOffset(o) \in Nat /\ o.RwSize \in Nat /\ o.RwOffset \in Nat
    BY <2>1, <2>2 DEF OpFits, GetFileOffset, Cells
  <2>4. offset <= GetFileOffset(o) /\ GetFileOffset(o) + o.RwSize <= offset + size
    BY <2>1 DEF OpFits
  <2> QED BY <1>0, <2>1, <2>3, <2>4, MergeOpFacts
<1>3. V \in Nat
  BY SizeOfContent
<1> HIDE DEF opSize, V
<1>4. \A m \in ends : m \in 0 .. size /\ offset + m <= V
  <2> SUFFICES ASSUME NEW o \in found
               PROVE  LET m == GetFileOffset(o) - offset + opSize(o)
                      IN  m \in 0 .. size /\ offset + m <= V
    OBVIOUS
  <2>1. o \in Slice(offset, size) /\ opSize(o) # 0
    OBVIOUS
  <2>2. /\ GetFileOffset(o) \in Nat /\ o.RwSize \in Nat
        /\ offset <= GetFileOffset(o) /\ GetFileOffset(o) + o.RwSize <= offset + size
        /\ opSize(o) \in Nat /\ opSize(o) <= o.RwSize
        /\ opSize(o) > 0 => GetFileOffset(o) + opSize(o) <= V
    BY <1>2, <2>1
  <2> QED BY <1>0, <1>3, <2>1, <2>2
<1>5. n = Max(S)
  BY DEF DoRead, opSize
<1>6. \A o \in found : GetFileOffset(o) - offset + opSize(o) \in S
  OBVIOUS
<1>7. S \subseteq 0 .. size /\ S # {} /\ \A m \in S : m = 0 \/ m \in ends
  BY <1>0, <1>4
<1>8. n \in S /\ \A m \in S : m <= n
  <2> HIDE DEF S
  <2> QED BY <1>0, <1>5, <1>7, MaxOfBounded
<1> HIDE DEF n, S, ends
<1>9. n \in Nat /\ n <= size
  BY <1>0, <1>7, <1>8
<1>10. n > 0 => offset + n <= V
  BY <1>4, <1>7, <1>8, <1>9
<1>11. ASSUME NEW p \in offset .. offset + size - 1, At(ViewOf(f), p) # 0
       PROVE  p < offset + n
  <2>1. p \in Positions /\ p \in Nat
    BY <1>0, PositionRange
  <2>2. PICK x \in Blocks, i \in Cells : p = x * BlockSize + i
    BY <2>1 DEF Positions
  <2>3. View(f, x)[i] # 0
    BY <1>11, <2>2, AtCell DEF ViewOf
  <2>4. offset <= x * BlockSize + i /\ x * BlockSize + i < offset + size
    BY <1>0, <2>1, <2>2
  <2>5. PICK o \in Slice(offset, size) : o.Index = x /\ o.RwOffset <= i /\ i < o.RwOffset + o.RwSize
    BY <1>0, <2>4, SliceFacts
  <2>6. /\ GetFileOffset(o) \in Nat /\ o.RwOffset \in Nat /\ offset <= GetFileOffset(o)
        /\ opSize(o) \in Nat /\ i < o.RwOffset + opSize(o)
    BY <1>2, <2>3, <2>5
  <2>7. i \in Nat /\ x * BlockSize \in Nat /\ x \in Nat
    BY BufferAssumption, BlockOrder DEF Cells
  <2>8. GetFileOffset(o) = x * BlockSize + o.RwOffset
    BY <2>5 DEF GetFileOffset
  <2>9. opSize(o) # 0
    BY <2>5, <2>6, <2>7
  <2>10. GetFileOffset(o) - offset + opSize(o) <= n
    BY <1>6, <1>8, <2>9
  <2> QED BY <1>0, <1>9, <2>2, <2>6, <2>7, <2>8, <2>10
<1> QED BY <1>9, <1>10, <1>11 DEF n, V

\* The buffer of an op with a version, and what a merge makes of a buffer.
LEMMA FilledBuffers ==
    /\ \A f \in Files \cup {NoFile}, x \in Blocks, o \in OpType :
          o.RwSize > 0 /\ o.ver > 0 => Filled(OpBuffer(f, x, o))
    /\ \A b \in BufferType, size \in Nat, v \in Nat :
          Filled(b) /\ v > 0 => Filled(MergeData(b, size, v))
<1>1. ASSUME NEW f \in Files \cup {NoFile}, NEW x \in Blocks, NEW o \in OpType, o.RwSize > 0, o.ver > 0
      PROVE  Filled(OpBuffer(f, x, o))
  <2>1. OpBuffer(f, x, o).Len = o.RwSize
    <3>1. o.RwSize \in Nat
      BY BufferAssumption DEF OpType
    <3> QED BY <3>1 DEF OpBuffer, MergeData, Skip, ReSet
  <2>2. \A i \in Cells : InRange(OpBuffer(f, x, o), i) => OpBuffer(f, x, o).data[i] = o.ver
    BY OpBufferCells
  <2> QED BY <1>1, <2>1, <2>2 DEF Filled
<1>2. ASSUME NEW b \in BufferType, NEW size \in Nat, NEW v \in Nat, Filled(b), v > 0
      PROVE  Filled(MergeData(b, size, v))
  <2>1. MergeData(b, size, v).Len = b.Len + size /\ b.Len \in Nat
    BY BufferAssumption DEF MergeData, BufferType
  <2>2. \A i \in Cells : InRange(MergeData(b, size, v), i) => MergeData(b, size, v).data[i] > 0
    <3> SUFFICES ASSUME NEW i \in Cells, InRange(MergeData(b, size, v), i)
                 PROVE  MergeData(b, size, v).data[i] > 0
      OBVIOUS
    <3>1. InRange(b, i) \/ (b.Offset + b.Len <= i /\ i < b.Offset + b.Len + size)
      BY MergeCells
    <3>2. MergeData(b, size, v).data[i]
          = IF b.Offset + b.Len <= i /\ i < b.Offset + b.Len + size THEN v ELSE b.data[i]
      BY DEF MergeData, BufferType
    <3> QED BY <1>2, <3>1, <3>2 DEF Filled
  <2> QED BY <1>2, <2>1, <2>2 DEF Filled
<1> QED BY <1>1, <1>2

\* A step of one process that leaves the buffers alone.
LEMMA FilledQuiet ==
    ASSUME FilledInv, NEW p \in Procs, TypeOK, NEW l, Goto(p, l), buf' = buf, FreeList \subseteq FreeList',
           \A c \in Clients \ {p} : op'[c] = op[c], p \in Clients => OpFilled(p)'
    PROVE  FilledInv'
<1>1. \A c \in Clients \ {p} : pc'[c] = pc[c]
  BY DEF Goto, TypeOK, Procs
<1>2. \A c \in Clients : OpFilled(c)'
  BY <1>1 DEF FilledInv, OpFilled
<1> QED BY <1>2 DEF FilledInv, Filled, InRange

\* A step that puts data into one buffer.
LEMMA FilledOne ==
    ASSUME FilledInv, NEW c \in Clients, TypeOK, NEW l, Goto(c, l), NEW b \in Buffers, NEW r,
           buf' = [buf EXCEPT ![b] = r], b \in Buffers \ FreeList' => Filled(r),
           FreeList \subseteq FreeList' \cup {b},
           \A d \in Clients \ {c} : op'[d] = op[d], OpFilled(c)'
    PROVE  FilledInv'
<1>0. c \in Procs
  BY DEF Procs
<1>1. \A d \in Clients \ {c} : pc'[d] = pc[d]
  BY DEF Goto, TypeOK, Procs
<1>2. \A d \in Clients : OpFilled(d)'
  BY <1>1 DEF FilledInv, OpFilled
<1>3. ASSUME NEW d \in Buffers \ FreeList' PROVE Filled(buf'[d])
  <2>1. CASE d = b
    BY <2>1, <1>3 DEF TypeOK
  <2>2. CASE d # b
    <3>1. buf'[d] = buf[d] /\ d \in Buffers \ FreeList
      BY <2>2, <1>3 DEF TypeOK
    <3> QED BY <3>1 DEF FilledInv
  <2> QED BY <2>1, <2>2
<1> QED BY <1>2, <1>3 DEF FilledInv, Filled, InRange

\* No buffer is in use and no Write has begun.
LEMMA InitFilled == Init => FilledInv
<1> SUFFICES ASSUME Init PROVE FilledInv
  OBVIOUS
<1>1. \A c \in Clients : pc[c] = "closed"
  BY DEF Init, Procs
<1> QED BY <1>1 DEF Init, FilledInv, OpFilled, Writes

\* Every step: the ones that put data into a buffer are those of Write.
LEMMA NextFilled ==
    ASSUME PlaceInv, FilledInv, [Next]_vars
    PROVE  FilledInv'
<1>0. TypeOK /\ Clients \subseteq Procs /\ ver \in Nat
  BY DEF PlaceInv, TypeInv, Procs, TypeOK
<1>1. ASSUME NEW c \in Clients, NEW x \in Blocks, NEW off \in Cells, NEW size \in 1 .. BlockSize,
             Write(c, x, off, size)
      PROVE  FilledInv'
  <2>1. /\ Goto(c, "wlock") /\ buf' = buf /\ FreeList' = FreeList
        /\ op' = [op EXCEPT ![c] = [RwOffset |-> off, RwSize |-> size, ver |-> 0]]
    BY <1>1 DEF Write, poolVars
  <2>2. op'[c].RwSize = size /\ size > 0 /\ pc'[c] = "wlock" /\ \A d \in Clients \ {c} : op'[d] = op[d]
    BY <1>0, <2>1 DEF TypeOK, Goto
  <2>3. OpFilled(c)'
    BY <2>2 DEF OpFilled
  <2> QED BY <1>0, <2>1, <2>2, <2>3, FilledQuiet
<1>2. ASSUME NEW c \in Clients, AtWriteLock(c)
      PROVE  /\ op[c] \in OpType /\ op[c].RwSize > 0 /\ op[c].RwSize \in Nat
             /\ loc[c].fe \in Files /\ loc[c].blk \in Blocks
             /\ Versioned(c) \in OpType /\ Versioned(c).RwSize = op[c].RwSize /\ Versioned(c).ver = ver + 1
  <2>1. pc[c] = "wlock" /\ pc[c] \in Writes
    BY <1>2 DEF AtWriteLock, Writes
  <2>2. op[c] \in OpType /\ loc[c].fe \in Files /\ loc[c].blk \in Blocks
    BY <2>1, WriterFacts
  <2>3. op[c].RwSize > 0
    BY <2>1 DEF FilledInv, OpFilled
  <2>4. op[c].RwSize \in Nat
    BY <2>2, BufferAssumption DEF OpType
  <2>5. Versioned(c) \in OpType /\ Versioned(c).RwSize = op[c].RwSize /\ Versioned(c).ver = ver + 1
    BY <1>0, <2>2 DEF Versioned, OpType
  <2> QED BY <2>2, <2>3, <2>4, <2>5
<1>3. ASSUME NEW c \in Clients, WriteDirect(c) \/ WriteNoMerge(c) PROVE FilledInv'
  <2>1. AtWriteLock(c) /\ buf' = buf /\ FreeList' = FreeList /\ op' = [op EXCEPT ![c] = Versioned(c)]
    BY <1>3 DEF WriteDirect, WriteNoMerge, poolVars
  <2>2. PICK l \in {"wdirect", "wflush"} : Goto(c, l)
    BY <1>3 DEF WriteDirect, WriteNoMerge
  <2>3. op'[c] = Versioned(c) /\ \A d \in Clients \ {c} : op'[d] = op[d]
    BY <1>0, <2>1 DEF TypeOK
  <2>4. op'[c].RwSize > 0 /\ op'[c].ver > 0
    BY <1>0, <1>2, <2>1, <2>3
  <2>5. OpFilled(c)'
    BY <2>4 DEF OpFilled
  <2> QED BY <1>0, <2>1, <2>2, <2>3, <2>5, FilledQuiet
<1>4. ASSUME NEW c \in Clients, NEW b \in Buffers, WriteAlloc(c, b) PROVE FilledInv'
  <2>1. /\ AtWriteLock(c) /\ FreeList' = FreeList \ {b}
        /\ buf' = [buf EXCEPT ![b] = OpBuffer(loc[c].fe, loc[c].blk, Versioned(c))]
    BY <1>4 DEF WriteAlloc, AllocBuffer
  <2>2. Filled(OpBuffer(loc[c].fe, loc[c].blk, Versioned(c)))
    BY <1>0, <1>2, <2>1, FilledBuffers
  <2>3. \/ Goto(c, "wsend") /\ op' = op
        \/ Goto(c, "idle") /\ op' = [op EXCEPT ![c] = NoOp]
    BY <1>4 DEF WriteAlloc, Return
  <2>4. OpFilled(c)' /\ \A d \in Clients \ {c} : op'[d] = op[d]
    BY <1>0, <1>2, <2>1, <2>3 DEF OpFilled, TypeOK, Goto, Writes
  <2> QED BY <1>0, <2>1, <2>2, <2>3, <2>4, FilledOne
<1>5. ASSUME NEW c \in Clients, WriteMerge(c) PROVE FilledInv'
  <2> DEFINE b == BufferMap[Key(c)]
             m == MergeData(buf[b], op[c].RwSize, ver + 1)
  <2>1. /\ AtWriteLock(c) /\ FreeList' = FreeList /\ b # NoBuf /\ buf' = [buf EXCEPT ![b] = m]
    BY <1>5 DEF WriteMerge
  <2>2. b \in Buffers /\ buf[b] \in BufferType
    <3>1. pc[c] \in Writes
      BY <2>1 DEF AtWriteLock, Writes
    <3>2. Key(c) \in Keys
      BY <3>1, WriterFacts
    <3> QED BY <1>0, <2>1, <3>2 DEF TypeOK
  <2>3. b \in Buffers \ FreeList' => Filled(m)
    <3> SUFFICES ASSUME b \in Buffers \ FreeList PROVE Filled(m)
      BY <2>1
    <3>1. Filled(buf[b])
      BY DEF FilledInv
    <3> QED BY <1>0, <1>2, <2>1, <2>2, <3>1, FilledBuffers
  <2>4. \/ \E l \in {"wfull", "wsend"} : Goto(c, l) /\ op' = op
        \/ Goto(c, "idle") /\ op' = [op EXCEPT ![c] = NoOp]
    BY <1>5 DEF WriteMerge, Return
  <2>5. OpFilled(c)' /\ \A d \in Clients \ {c} : op'[d] = op[d]
    BY <1>0, <1>2, <2>1, <2>4 DEF OpFilled, TypeOK, Goto, Writes
  <2> HIDE DEF b, m
  <2> QED BY <1>0, <2>1, <2>2, <2>3, <2>4, <2>5, FilledOne
<1>6. ASSUME NEW c \in Clients, WriteFlushReuse(c) PROVE FilledInv'
  <2> DEFINE b == loc[c].cur
             r == OpBuffer(loc[c].fe, loc[c].blk, op[c])
  <2>1. /\ pc[c] = "wflushR" /\ FreeList' = FreeList /\ buf' = [buf EXCEPT ![b] = r]
        /\ Goto(c, "idle") /\ op' = [op EXCEPT ![c] = NoOp]
    BY <1>6 DEF WriteFlushReuse, Return
  <2>2. pc[c] \in Writes /\ pc[c] \in Working
    BY <2>1 DEF Writes, Working, Holding
  <2>3. op[c] \in OpType /\ loc[c].fe \in Files /\ loc[c].blk \in Blocks
    BY <2>2, WriterFacts
  <2>4. b \in Buffers
    BY <1>0, <2>2 DEF PlaceInv, TypeInv, BufferInv, LocalOK, Named
  <2>5. op[c].RwSize > 0 /\ op[c].ver > 0
    BY <2>1, <2>2 DEF FilledInv, OpFilled
  <2>6. Filled(r)
    BY <2>3, <2>5, FilledBuffers
  <2>7. OpFilled(c)' /\ \A d \in Clients \ {c} : op'[d] = op[d]
    BY <1>0, <2>1 DEF OpFilled, TypeOK, Goto, Writes
  <2> HIDE DEF b, r
  <2> QED BY <1>0, <2>1, <2>4, <2>6, <2>7, FilledOne
<1>7. ASSUME NEW c \in Clients,
             \/ Send(c) \/ WriteDirectDone(c) \/ WriteFullDone(c)
             \/ WriteFlushFail(c) \/ WriteFlushDirect(c)
             \/ \E f \in Files : Open(c, f)
             \/ Flush(c) \/ Close(c)
             \/ FlushToFsync(c) \/ FsyncReply(c) \/ FsyncReturn(c) \/ CloseFail(c) \/ CloseDone(c)
      PROVE  FilledInv'
  <2>1. buf' = buf /\ FreeList \subseteq FreeList'
    BY <1>7
    DEF Send, WriteDirectDone, WriteFullDone, WriteFlushFail, WriteFlushDirect, Open, FreeBuffer,
       Flush, Close, StartFlush, FlushToFsync, FsyncReply, FsyncReturn, CloseFail, CloseDone, poolVars
  <2>2. \/ pc[c] = "wflushR" /\ Goto(c, "wdirect") /\ op' = op
        \/ \E l \in {"idle", "flushing", "fsync", "synced", "closed"} : Goto(c, l)
    BY <1>7
    DEF Send, WriteDirectDone, WriteFullDone, WriteFlushFail, WriteFlushDirect, Open,
       Flush, Close, StartFlush, FlushToFsync, FsyncReply, FsyncReturn, CloseFail, CloseDone, Return
  <2>3. op' = op \/ op' = [op EXCEPT ![c] = NoOp]
    BY <1>7
    DEF Send, WriteDirectDone, WriteFullDone, WriteFlushFail, WriteFlushDirect, Open,
       Flush, Close, StartFlush, FlushToFsync, FsyncReply, FsyncReturn, CloseFail, CloseDone, Return
  <2>4. \A d \in Clients \ {c} : op'[d] = op[d]
    BY <1>0, <2>3 DEF TypeOK
  <2>5. OpFilled(c)'
    <3>1. CASE pc[c] = "wflushR" /\ Goto(c, "wdirect") /\ op' = op
      BY <1>0, <3>1 DEF FilledInv, OpFilled, Writes, Goto, TypeOK
    <3>2. CASE \E l \in {"idle", "flushing", "fsync", "synced", "closed"} : Goto(c, l)
      BY <1>0, <3>2 DEF OpFilled, Writes, Goto, TypeOK
    <3> QED BY <2>2, <3>1, <3>2
  <2> QED BY <1>0, <2>1, <2>2, <2>4, <2>5, FilledQuiet
<1>8. ASSUME NEW p \in Procs, p \notin Clients,
             TakeIndex(p) \/ FlushStep(p) \/ ExpireStep(p) \/ SyncStep(p)
      PROVE  FilledInv'
  <2>1. buf' = buf /\ FreeList \subseteq FreeList' /\ op' = op
    BY <1>8
    DEF TakeIndex, FlushStep, FlushLock, FlushNothing, FlushDone, ExpireStep, LruExpire, ExpireLookup,
       SyncStep, SyncTake, SyncDone, SyncUnlock, poolVars, FreeBuffer
  <2>2. \E l \in {"idle", "flock", "fflush", "elookup", "sync", "syncU"} : Goto(p, l)
    BY <1>8
    DEF TakeIndex, FlushStep, FlushLock, FlushNothing, FlushDone, ExpireStep, LruExpire, ExpireLookup,
       SyncStep, SyncTake, SyncDone, SyncUnlock, Report
  <2> QED BY <1>0, <1>8, <2>1, <2>2, FilledQuiet
<1>9. ASSUME NEW p \in Procs, Rpc(p) PROVE FilledInv'
  <2>1. /\ buf' = buf /\ FreeList' = FreeList /\ op' = op
        /\ pc[p] \in {"wdirect", "wfull", "wflush", "fflush", "sync"} /\ Goto(p, Replied[pc[p]])
    BY <1>9 DEF Rpc, RpcOk, RpcEio, RpcGone, Reply, Replied, poolVars
  <2>2. OpFilled(p)' \/ p \notin Clients
    <3> SUFFICES ASSUME p \in Clients PROVE OpFilled(p)'
      OBVIOUS
    <3>1. pc'[p] = Replied[pc[p]]
      BY <1>0, <2>1 DEF Goto, TypeOK
    <3>2. pc'[p] \in Writes => pc[p] \in Writes
      BY <2>1, <3>1 DEF Replied, Writes
    <3>3. pc'[p] \in {"wflush", "wflushR"} => pc[p] \in {"wflush", "wflushR"}
      BY <2>1, <3>1 DEF Replied
    <3> QED BY <2>1, <3>2, <3>3 DEF FilledInv, OpFilled
  <2> QED BY <1>0, <2>1, <2>2, FilledQuiet
<1>10. ASSUME UNCHANGED vars \/ \E f \in Unlinks : Unlink(f) PROVE FilledInv'
  <2>1. UNCHANGED <<buf, FreeList, pc, op>>
    BY <1>10 DEF vars, Unlink, localVars, poolVars
  <2> QED BY <2>1 DEF FilledInv, OpFilled, Filled, InRange
<1>11. ASSUME NEW c \in Clients, ClientStep(c) PROVE FilledInv'
  BY <1>3, <1>4, <1>5, <1>6, <1>7, <1>11, Zenon DEF ClientStep
<1>12. \A p \in Workers \cup Expirers \cup Syncers : p \in Procs /\ p \notin Clients
  BY WCacheAssumption DEF Procs
<1> QED BY <1>1, <1>7, <1>8, <1>9, <1>10, <1>11, <1>12 DEF Next

\* A Read returns every written cell it asks for, whether the server or a
\* buffer has it and whatever holes are in between, and nothing beyond the end
\* of the file (ReadComplete): Slice, ReadOp, MergeOp and doRead, under the
\* provisos of ReadsCoherent.
THEOREM ReadsAreComplete ==
    ASSUME ~OpenDuringLastClose, OwnUnlock
    PROVE  Spec => []ReadComplete
<1>1. Init => FilledInv
  BY InitFilled
<1>2. PlaceInv /\ FilledInv /\ [Next]_vars => FilledInv'
  BY NextFilled
<1>3. PlaceInv /\ FilledInv => ReadComplete
  BY FilledReads
<1> QED BY <1>1, <1>2, <1>3, DataInvHolds, PTL DEF Spec

-----------------------------------------------------------------------------
(* The mount around the cache.  After a successful Unmount no request runs,  *)
(* and DelMount closes the cache under its goroutines.  The invariant of the *)
(* exit is about where the processes stand; the one of the data is that of   *)
(* the cache, with the handles that DelMount does not close (LastInv) left   *)
(* out once nobody uses them any more.                                       *)

\* After a successful Unmount no request is running, and chSync is closed after it.
UnmountInv ==
    /\ pc \in [Procs -> Labels]
    /\ chClosed => exit # "none"
    /\ exit # "none" => NoRequest

\* The thread of DelMount flushes files between CloseAll and the wait for the
\* goroutines, and does nothing else to the cache.
CloserInv ==
    /\ pc[Closer] \in {"closed", "flushing"}
    /\ pc[Closer] = "flushing" => exit = "closing"
    /\ exit \in {"closed", "done"} => stopped = Goroutines

\* Where the goroutines stand: a stopped one has nothing to do, and SyncWrite
\* leaves no buffer on the closed channel.
Flushing == Flushers \cup {"idle"}
ShutInv ==
    /\ stopped \subseteq Goroutines
    /\ \A w \in Workers : pc[w] \in Flushing
    /\ \A g \in stopped : pc[g] = "idle"
    /\ stopped \cap Syncers # {} => chClosed /\ chSync = {}
    /\ Syncers = {} => chSync = {}

ExitInv == UnmountInv /\ CloserInv /\ ShutInv

\* One process moves: a user between two calls only while requests are served,
\* DelMount to begin and to end a flush, and no stopped goroutine.
Moves(p, l) ==
    /\ Goto(p, l)
    /\ p \in Users /\ pc[p] \in Resting => exit = "none"
    /\ p = Closer => \/ pc[p] = "closed" /\ l = "flushing" /\ exit = "closing"
                     \/ pc[p] = "flushing" /\ l = "closed"
    /\ p \in Workers => l \in Flushing
    /\ p \notin stopped
OneMoves == UNCHANGED pc \/ \E p \in Procs, l \in Labels : Moves(p, l)

\* Who is who.
LEMMA Actors ==
    /\ Clients \subseteq Procs /\ Workers \subseteq Procs /\ Goroutines \subseteq Procs
    /\ Closer \in Clients /\ Closer \notin Users /\ Clients = Users \cup {Closer}
    /\ Clients \cap Workers = {} /\ Clients \cap Goroutines = {} /\ Workers \cap Goroutines = {}
BY WCacheAssumption, MountAssumption DEF Procs, Users, Goroutines

\* A request is answered.
LEMMA RpcMoves ==
    ASSUME ExitInv, NEW p \in Procs, Rpc(p)
    PROVE  OneMoves
<1>1. pc[p] \in {"wdirect", "wfull", "wflush", "fflush", "sync"} /\ Goto(p, Replied[pc[p]])
  BY DEF Rpc, RpcOk, RpcEio, RpcGone, Reply, Replied
<1>2. Replied[pc[p]] \in Labels /\ (pc[p] = "fflush" => Replied[pc[p]] = "fflushR")
  BY <1>1 DEF Replied, Labels
<1>3. p # Closer /\ p \notin stopped /\ (p \in Workers => pc[p] = "fflush")
  BY <1>1 DEF ExitInv, CloserInv, ShutInv, Flushing, Flushers
<1>4. Moves(p, Replied[pc[p]])
  BY <1>1, <1>2, <1>3 DEF Moves, Resting, Flushing, Flushers
<1> QED BY <1>2, <1>4 DEF OneMoves

\* The steps of a call that has begun.
LEMMA ClientMoves ==
    ASSUME NEW c \in Clients, ClientStep(c)
    PROVE  pc[c] \notin Resting /\ \E l \in Labels : Goto(c, l)
<1>1. CASE WriteDirect(c) \/ WriteMerge(c) \/ WriteNoMerge(c) \/ \E b \in Buffers : WriteAlloc(c, b)
  BY <1>1 DEF WriteDirect, WriteMerge, WriteNoMerge, WriteAlloc, AtWriteLock, Return, Labels, Resting
<1>2. CASE ~(WriteDirect(c) \/ WriteMerge(c) \/ WriteNoMerge(c) \/ \E b \in Buffers : WriteAlloc(c, b))
  BY <1>2 DEF ClientStep, Send, WriteDirectDone, WriteFullDone, WriteFlushFail, WriteFlushDirect,
     WriteFlushReuse, FlushToFsync, FsyncReply, FsyncReturn, CloseFail, CloseDone, FlushReturned, Return,
     Labels, Resting
<1> QED BY <1>1, <1>2

\* Every step of the mount moves one process at most.
LEMMA MountMoves ==
    ASSUME ~UnmountFails, ExitInv, MountNext
    PROVE  OneMoves
<1>0. stopped \subseteq Goroutines
  BY DEF ExitInv, ShutInv
<1>1. CASE MountCall \/ Unmount \/ StatToEnds \/ CloseAll \/ CloseAllWait \/ DelMountReturn
  BY <1>1 DEF MountCall, Unmount, StatToEnds, CloseAll, CloseAllWait, DelMountReturn, vars, localVars, OneMoves
<1>2. CASE (\E f \in Files : CloseAllFile(f)) \/ CloseAllError \/ CloseAllClosed
  <2>1. \/ exit = "closing" /\ pc[Closer] = "closed" /\ Goto(Closer, "flushing")
        \/ pc[Closer] = "flushing" /\ Goto(Closer, "closed")
    BY <1>2 DEF CloseAllFile, CloseAllError, CloseAllClosed, CloseDone, FlushReturned
  <2>2. "flushing" \in Labels /\ "closed" \in Labels
    BY DEF Labels
  <2>3. Moves(Closer, "flushing") \/ Moves(Closer, "closed")
    BY <1>0, <2>1, Actors DEF Moves
  <2> QED BY <2>2, <2>3, Actors DEF OneMoves
<1>3. ASSUME NEW c \in Users, NEW l \in Labels, Goto(c, l), exit = "none" \/ pc[c] \notin Resting
      PROVE  OneMoves
  <2>1. Moves(c, l)
    BY <1>0, <1>3, Actors DEF Moves
  <2> QED BY <2>1, Actors DEF OneMoves
<1>4. ASSUME NEW c \in Users, (\E f \in Files : UserOpen(c, f)) \/ UserWrite(c) \/ UserFlush(c) \/ UserClose(c)
      PROVE  OneMoves
  <2>1. exit = "none" /\ \E l \in {"idle", "wlock", "flushing"} : Goto(c, l)
    BY <1>4 DEF UserOpen, UserWrite, UserFlush, UserClose, Serves, Open, Write, Flush, Close, StartFlush
  <2> QED BY <1>3, <2>1 DEF Labels
<1>5. ASSUME NEW c \in Users, UserStep(c) PROVE OneMoves
  BY <1>3, <1>5, ClientMoves, Actors DEF UserStep
<1>6. ASSUME NEW p \in Workers \cup Goroutines, NEW l \in Labels, Goto(p, l), p \notin stopped,
             p \in Workers => l \in Flushing
      PROVE  OneMoves
  <2>1. Moves(p, l)
    BY <1>6, Actors DEF Moves
  <2> QED BY <2>1, Actors DEF OneMoves
<1>7. ASSUME NEW p, FlushStep(p) PROVE \E l \in Flushing : l \in Labels /\ Goto(p, l)
  BY <1>7 DEF FlushStep, FlushLock, FlushNothing, FlushDone, Report, Flushing, Flushers, Labels
<1>8. ASSUME NEW w \in Workers, FlusherStep(w) PROVE OneMoves
  <2>1. w \notin stopped
    BY <1>0, Actors
  <2>2. CASE TakeIndex(w)
    BY <1>6, <2>1, <2>2 DEF TakeIndex, Flushing, Flushers, Labels
  <2> QED BY <1>6, <1>7, <1>8, <2>1, <2>2 DEF FlusherStep
<1>9. ASSUME NEW e \in Expirers, CheckExpire(e) PROVE OneMoves
  <2>1. CASE ExpireRound(e) \/ ExpireRoundEnds(e) \/ ExpireStop(e)
    BY <2>1 DEF ExpireRound, ExpireRoundEnds, ExpireStop, vars, localVars, OneMoves
  <2>2. CASE ExpirerStep(e)
    <3>1. e \notin stopped /\ \E l \in Labels : Goto(e, l)
      BY <1>7, <2>2 DEF ExpirerStep, ExpireStep, LruExpire, ExpireLookup, Labels
    <3>2. e \in Goroutines /\ e \notin Workers
      BY Actors DEF Goroutines
    <3> QED BY <1>6, <3>1, <3>2
  <2> QED BY <1>9, <2>1, <2>2 DEF CheckExpire
<1>10. ASSUME NEW s \in Syncers, SyncerStep(s) \/ SyncStop(s) PROVE OneMoves
  <2>1. CASE SyncStop(s)
    BY <2>1 DEF SyncStop, vars, localVars, OneMoves
  <2>2. CASE SyncerStep(s)
    <3>1. s \notin stopped /\ \E l \in Labels : Goto(s, l)
      BY <2>2 DEF SyncerStep, SyncStep, SyncTake, SyncDone, SyncUnlock, Labels
    <3>2. s \in Goroutines /\ s \notin Workers
      BY Actors DEF Goroutines
    <3> QED BY <1>6, <3>1, <3>2
  <2> QED BY <1>10, <2>1, <2>2
<1>11. ASSUME NEW p \in Procs, RpcStep(p) PROVE OneMoves
  BY <1>11, RpcMoves DEF RpcStep
<1> QED BY <1>1, <1>2, <1>4, <1>5, <1>8, <1>9, <1>10, <1>11 DEF MountNext, DelMountStep


\* What the mount itself changes.
LEMMA MountChanges ==
    ASSUME MountNext
    PROVE  \/ UNCHANGED <<exit, chClosed, stopped>>
           \/ Unmount \/ CloseAll \/ CloseAllWait \/ DelMountReturn
           \/ \E e \in Expirers : ExpireStop(e)
           \/ \E s \in Syncers : SyncStop(s)
BY DEF MountNext, MountCall, DelMountStep, CloseAllFile, CloseAllError, CloseAllClosed,
   StatToEnds, UserOpen, UserWrite, UserFlush, UserClose, UserStep,
   FlusherStep, CheckExpire, ExpireRound, ExpireRoundEnds, ExpirerStep, SyncerStep, RpcStep, mountVars

\* Only a writer puts a buffer on chSync, while the channel is open and somebody
\* reads it.
LEMMA ChannelStays ==
    ASSUME ExitInv, MountNext, chClosed \/ Syncers = {}
    PROVE  chSync' \subseteq chSync
<1>1. CASE MountCall \/ Unmount \/ DelMountStep \/ StatToEnds
  BY <1>1 DEF MountCall, Unmount, StatToEnds, DelMountStep, CloseAll, CloseAllFile, CloseAllError,
     CloseAllClosed, CloseDone, CloseAllWait, DelMountReturn, vars, poolVars
<1>2. ASSUME NEW c \in Users, (\E f \in Files : UserOpen(c, f)) \/ UserWrite(c) \/ UserFlush(c) \/ UserClose(c)
      PROVE  chSync' = chSync
  BY <1>2 DEF UserOpen, UserWrite, UserFlush, UserClose, Open, Write, Flush, Close, StartFlush, poolVars
<1>3. ASSUME NEW c \in Users, UserStep(c) PROVE chSync' = chSync
  <2>1. ~Send(c)
    <3> SUFFICES ASSUME Send(c) PROVE FALSE
      OBVIOUS
    <3>1. pc[c] = "wsend" /\ Cardinality(chSync) < Cardinality(Syncers) /\ ~chClosed
      BY <1>3 DEF Send, UserStep
    <3>2. Syncers = {} /\ chSync = {}
      BY <3>1 DEF ExitInv, ShutInv
    <3> QED BY <3>1, <3>2, FS_EmptySet
  <2>2. CASE WriteDirect(c) \/ WriteMerge(c) \/ WriteNoMerge(c) \/ \E b \in Buffers : WriteAlloc(c, b)
    BY <2>2 DEF WriteDirect, WriteMerge, WriteNoMerge, WriteAlloc, poolVars
  <2>3. CASE ~(WriteDirect(c) \/ WriteMerge(c) \/ WriteNoMerge(c) \/ \E b \in Buffers : WriteAlloc(c, b))
    BY <1>3, <2>1, <2>3 DEF UserStep, ClientStep, WriteDirectDone, WriteFullDone, WriteFlushFail,
       WriteFlushDirect, WriteFlushReuse, FlushToFsync, FsyncReply, FsyncReturn, CloseFail, CloseDone, poolVars
  <2> QED BY <2>2, <2>3
<1>4. ASSUME NEW p, FlushStep(p) PROVE chSync' = chSync
  BY <1>4 DEF FlushStep, FlushLock, FlushNothing, FlushDone, poolVars
<1>5. ASSUME NEW w \in Workers, FlusherStep(w) PROVE chSync' = chSync
  BY <1>4, <1>5 DEF FlusherStep, TakeIndex, poolVars
<1>6. ASSUME NEW e \in Expirers, CheckExpire(e) PROVE chSync' = chSync
  BY <1>4, <1>6 DEF CheckExpire, ExpireRound, ExpirerStep, ExpireRoundEnds, ExpireStop,
     ExpireStep, LruExpire, ExpireLookup, vars, poolVars
<1>7. ASSUME NEW s \in Syncers, SyncerStep(s) \/ SyncStop(s) PROVE chSync' \subseteq chSync
  BY <1>7 DEF SyncerStep, SyncStop, SyncStep, SyncTake, SyncDone, SyncUnlock, vars, poolVars
<1>8. ASSUME NEW p \in Procs, RpcStep(p) PROVE chSync' = chSync
  BY <1>8 DEF RpcStep, Rpc, RpcOk, RpcEio, RpcGone, Reply, poolVars
<1> QED BY <1>1, <1>2, <1>3, <1>5, <1>6, <1>7, <1>8 DEF MountNext

\* Every step of the mount keeps the invariant of the exit.
LEMMA NextExitInv ==
    ASSUME ~UnmountFails, ExitInv, [MountNext]_allVars
    PROVE  ExitInv'
<1> USE DEF ExitInv
<1>1. CASE UNCHANGED allVars
  BY <1>1 DEF allVars, vars, localVars, poolVars, mountVars, UnmountInv, NoRequest, CloserInv, ShutInv
<1>2. CASE MountNext
  <2>0. OneMoves
    BY <1>2, MountMoves
  <2>1. pc' \in [Procs -> Labels]
    <3> HIDE DEF Labels
    <3> QED BY <2>0 DEF UnmountInv, OneMoves, Moves, Goto
  <2>2. ASSUME NEW q \in Procs, q \in stopped PROVE pc'[q] = pc[q]
    BY <2>0, <2>2 DEF UnmountInv, OneMoves, Moves, Goto
  <2>3. ASSUME NEW w \in Workers PROVE pc'[w] \in Flushing
    BY <2>0, Actors DEF UnmountInv, ShutInv, OneMoves, Moves, Goto
  <2>4. \/ pc'[Closer] = pc[Closer]
        \/ pc'[Closer] = "flushing" /\ exit = "closing" /\ ~UNCHANGED pc
        \/ pc'[Closer] = "closed"
    BY <2>0, Actors DEF UnmountInv, OneMoves, Moves, Goto
  <2>5. exit # "none" => NoRequest'
    <3> SUFFICES ASSUME exit # "none", NEW c \in Users PROVE pc'[c] \in Resting
      BY DEF NoRequest, Resting
    <3>1. pc[c] \in Resting /\ c \in Procs
      BY Actors DEF UnmountInv, NoRequest, Resting
    <3> QED BY <2>0, <3>1 DEF UnmountInv, OneMoves, Moves, Goto
  <2>6. chClosed \/ Syncers = {} => chSync' \subseteq chSync
    BY <1>2, ChannelStays
  <2>7. CASE UNCHANGED <<exit, chClosed, stopped>>
    <3>1. UnmountInv'
      BY <2>1, <2>5, <2>7 DEF UnmountInv
    <3>2. CloserInv'
      BY <2>4, <2>7 DEF CloserInv
    <3>3. ShutInv'
      BY <2>2, <2>3, <2>6, <2>7, Actors DEF ShutInv
    <3> QED BY <3>1, <3>2, <3>3
  <2>8. CASE Unmount \/ CloseAll \/ CloseAllWait \/ DelMountReturn
    <3>1. UNCHANGED <<pc, chSync, stopped>> /\ exit' # "none" /\ (chClosed => chClosed')
      BY <2>8 DEF Unmount, CloseAll, CloseAllWait, DelMountReturn, vars, localVars, poolVars
    <3>2. NoRequest'
      BY <2>5, <2>8, <3>1 DEF Unmount, CloseAll, CloseAllWait, DelMountReturn, NoRequest
    <3>3. CloserInv'
      BY <2>8, <3>1 DEF Unmount, CloseAll, CloseAllWait, DelMountReturn, CloserInv
    <3> QED BY <3>1, <3>2, <3>3 DEF UnmountInv, ShutInv
  <2>9. CASE (\E e \in Expirers : ExpireStop(e)) \/ (\E s \in Syncers : SyncStop(s))
    <3>1. UNCHANGED <<pc, chSync, exit, chClosed>>
      BY <2>9 DEF ExpireStop, SyncStop, vars, localVars, poolVars
    <3>2. PICK g \in Goroutines : /\ stopped' = stopped \cup {g} /\ pc[g] = "idle"
                                  /\ g \in Syncers => chClosed /\ chSync = {}
      BY <2>9, WCacheAssumption DEF ExpireStop, SyncStop, Goroutines
    <3>3. UnmountInv'
      BY <3>1 DEF UnmountInv, NoRequest
    <3>4. CloserInv'
      BY <3>1, <3>2 DEF CloserInv
    <3>5. ShutInv'
      BY <3>1, <3>2 DEF ShutInv
    <3> QED BY <3>3, <3>4, <3>5
  <2> QED BY <1>2, <2>7, <2>8, <2>9, MountChanges
<1> QED BY <1>1, <1>2

LEMMA InitExit == NewMount => ExitInv
BY Actors DEF NewMount, Init, ExitInv, UnmountInv, CloserInv, ShutInv, Labels, Flushing, Flushers

LEMMA ExitInvHolds == ASSUME ~UnmountFails PROVE MountSpec => []ExitInv
BY InitExit, NextExitInv, PTL DEF MountSpec

\* If the unmount succeeds, no writer sends or waits to send on the channel that
\* CloseAll closed (mount.go, DelMount after client/main.go, exitSign).
THEOREM NobodySendsOnClosed == ASSUME ~UnmountFails PROVE MountSpec => []NoSendOnClosed
<1>1. ExitInv => NoSendOnClosed
  BY DEF ExitInv, UnmountInv, NoRequest, NoSendOnClosed
<1> QED BY <1>1, ExitInvHolds, PTL


-----------------------------------------------------------------------------
(* DelMount closes the files *)

\* WCache.Close of a file: a last Close begins while nobody uses a handle.
LEMMA CloseAllFileStep ==
    ASSUME PlaceInv, DataInv, ExitInv, NEW f \in Files, CloseAllFile(f)
    PROVE  PlaceInv' /\ DataInv' /\ DataStep /\ Still /\ FlushMove
<1>0. Closer \in Clients /\ TypeOK
  BY Actors DEF PlaceInv, TypeInv
<1>1. Starts(Closer, f, "closelast") /\ exit = "closing" /\ pc[Closer] = "closed"
  BY DEF CloseAllFile, Starts, Resting
<1>2. \A d \in Clients : pc[d] \in Resting
  BY <1>1, Actors DEF ExitInv, UnmountInv, NoRequest, Resting
<1>3. \A d \in Clients : fl[d].kind # "closelast"
  BY <1>2 DEF PlaceInv, SafeInv, ClientInv, Resting
<1>4. TypeInv'
  BY <1>0, <1>1, StartType, StartBuffer DEF PlaceInv, TypeInv
<1>5. PlaceInv'
  <2>1. buf' = buf /\ Goto(Closer, "flushing") /\ \E r : loc' = [loc EXCEPT ![Closer] = r]
    BY <1>1 DEF Starts, StartFlush, poolVars
  <2>2. Alone(Closer) /\ pc'[Closer] # "syncU" /\ Closer \in Procs
    BY <1>0, <2>1, Actors DEF Goto, Alone, TypeOK
  <2>3. UnlockInv'
    BY <2>1, <2>2, UnlockKept DEF PlaceInv
  <2> QED BY <1>0, <1>1, <1>2, <1>3, <1>4, <2>3, StartSafe DEF PlaceInv
<1>6. DataStep /\ Still /\ HoldInv'
  BY <1>0, <1>1, <1>5, StartHolds
<1>7. FlushMove /\ FlushData'
  BY <1>0, <1>1, <1>5, BeginFlush
<1>8. BlockInv'
  BY <1>5, <1>6, DataStepGrows DEF PlaceInv, TypeInv, DataInv
<1> QED BY <1>5, <1>6, <1>7, <1>8 DEF DataInv

\* A Close that failed: the FileBuffer stays.
LEMMA CloseAllErrorStep ==
    ASSUME PlaceInv, DataInv, CloseAllError
    PROVE  PlaceInv' /\ DataInv' /\ DataStep /\ Still /\ FlushMove
<1> DEFINE c == Closer
<1>0. c \in Clients /\ c \in Procs /\ c \notin Workers /\ NoLoc \in LocType /\ NoFl \in FlType
      /\ [x \in Blocks |-> Blank] \in FileContent
  BY Actors, BufferAssumption, WCacheAssumption
  DEF NoFl, FlType, FileContent, Content, Blank, NoLoc, LocType
<1>1. /\ pc[c] = "flushing" /\ fl[c].pend = {} /\ pc' = [pc EXCEPT ![c] = "closed"]
      /\ loc' = [loc EXCEPT ![c] = NoLoc] /\ fl' = [fl EXCEPT ![c] = NoFl]
      /\ snap' = [snap EXCEPT ![c] = [x \in Blocks |-> Blank]] /\ op' = op
      /\ UNCHANGED <<BufferMap, LockMap, FreeList, LruList, chSync, buf, Cache, made>>
      /\ UNCHANGED <<disk, gone, ver, latest>>
  BY DEF CloseAllError, FlushReturned, Goto, EndFlush, poolVars, tableVars, diskVars
<1> HIDE DEF c
<1>2. /\ Alone(c) /\ pc'[c] = "closed" /\ fl'[c].kind = "none"
      /\ \A d \in Clients \ {c} : fl'[d] = fl[d] /\ snap'[d] = snap[d] /\ loc'[d] = loc[d]
  BY <1>0, <1>1 DEF Alone, PlaceInv, TypeInv, TypeOK, NoFl, Procs
<1>3. TypeOK'
  <2>1. pc' \in [Procs -> Labels]
    BY <1>0, <1>1 DEF PlaceInv, TypeInv, TypeOK, Labels
  <2>2. loc' \in [Procs -> LocType] /\ fl' \in [Clients -> FlType] /\ snap' \in [Clients -> FileContent]
    BY <1>0, <1>1 DEF PlaceInv, TypeInv, TypeOK
  <2> QED BY <1>1, <2>1, <2>2 DEF PlaceInv, TypeInv, TypeOK
<1>4. TypeInv'
  <2>1. LocalOK(c)' /\ Named' = Named
    BY <1>1, <1>2 DEF LocalOK, Located, Working, Holding, Named
  <2>2. BufferInv'
    BY <1>0, <1>1, <1>2, <2>1, LocalFrame DEF PlaceInv, TypeInv, BufferInv
  <2>3. FlushInv'
    BY <1>0, <1>1, <1>2, FlushFrame DEF PlaceInv, FlushReturned
  <2> QED BY <1>3, <2>2, <2>3 DEF TypeInv
<1>5. PlaceInv'
  <2>1. HomesStay
    BY <1>1, HomesKept
  <2>2. TableInv' /\ CoreInv'
    BY <1>0, <1>1, <1>2, <1>4, <2>1, HandleCore DEF PlaceInv, SafeInv, TableInv, Holding
  <2>3. ClientInv'
    BY <1>0, <1>1, <1>2, HandleClient DEF PlaceInv, SafeInv, Writes, Resting
  <2>4. UnlockInv'
    BY <1>0, <1>1, <1>2, UnlockKept DEF PlaceInv
  <2> QED BY <1>4, <2>2, <2>3, <2>4 DEF PlaceInv, SafeInv, CoreInv
<1>6. DataStep /\ Still /\ HoldInv'
  <2>1. Idle
    BY <1>1 DEF Idle, PlaceInv, TypeInv, TypeOK
  <2> QED BY <1>0, <1>1, <1>2, <1>5, <2>1, IdleStep, DataLabels DEF DataInv
<1>7. BlockInv' /\ Grows
  BY <1>5, <1>6, DataStepGrows DEF PlaceInv, TypeInv, DataInv
<1>8. \A d \in Clients \ {c} : Kept(d)
  BY <1>1, <1>2 DEF Kept
<1>9. Ends(c) /\ FlushOK(c)'
  <2>1. snap'[c] = [x \in Blocks |-> Blank]
    BY <1>0, <1>1 DEF PlaceInv, TypeInv, TypeOK
  <2> QED BY <1>1, <1>2, <2>1 DEF Ends, FlushOK, Blank
<1>10. FlushData'
  BY <1>1, <1>5, <1>7, <1>8, <1>9, KeptFlush DEF DataInv, FlushData
<1> QED BY <1>0, <1>5, <1>6, <1>7, <1>8, <1>9, <1>10 DEF DataInv, FlushMove

\* What a step of the mount is to the cache.
LEMMA MountSteps ==
    ASSUME MountNext
    PROVE  [Next]_vars \/ (\E f \in Files : CloseAllFile(f)) \/ CloseAllError
<1>1. CASE MountCall \/ Unmount \/ StatToEnds \/ CloseAll \/ CloseAllWait \/ DelMountReturn
  BY <1>1 DEF MountCall, Unmount, StatToEnds, CloseAll, CloseAllWait, DelMountReturn
<1>2. CASE CloseAllClosed
  <2>1. ClientStep(Closer)
    BY <1>2 DEF CloseAllClosed, ClientStep
  <2> QED BY <2>1, Actors DEF Next
<1>3. ASSUME NEW c \in Users, \/ \E f \in Files : UserOpen(c, f)
                             \/ UserWrite(c) \/ UserFlush(c) \/ UserClose(c) \/ UserStep(c)
      PROVE  Next
  <2>1. /\ c \in Clients
        /\ \/ \E f \in Files : Open(c, f)
           \/ \E x \in Blocks, off \in Cells, size \in 1 .. BlockSize : Write(c, x, off, size)
           \/ Flush(c) \/ Close(c) \/ ClientStep(c)
    BY <1>3 DEF Users, UserOpen, UserWrite, UserFlush, UserClose, UserStep
  <2> QED BY <2>1 DEF Next
<1>4. ASSUME NEW w \in Workers, FlusherStep(w) PROVE Next
  BY <1>4 DEF FlusherStep, Next
<1>5. ASSUME NEW e \in Expirers, CheckExpire(e) PROVE [Next]_vars
  BY <1>5 DEF CheckExpire, ExpireRound, ExpirerStep, ExpireRoundEnds, ExpireStop, Next
<1>6. ASSUME NEW s \in Syncers, SyncerStep(s) \/ SyncStop(s) PROVE [Next]_vars
  BY <1>6 DEF SyncerStep, SyncStop, Next
<1>7. ASSUME NEW p \in Procs, RpcStep(p) PROVE Next
  BY <1>7 DEF RpcStep, Next
<1> QED BY <1>1, <1>2, <1>3, <1>4, <1>5, <1>6, <1>7 DEF MountNext, DelMountStep

\* After the unmount no call on a handle begins.
LEMMA MountQuiet ==
    ASSUME ~UnmountFails, ExitInv, MountNext, exit # "none"
    PROVE  NobodyBegins
<1> SUFFICES ASSUME NEW c \in Clients, pc[c] = "idle" PROVE pc'[c] = "idle"
  BY DEF NobodyBegins
<1>1. OneMoves
  BY MountMoves
<1>2. c \in Users
  BY Actors DEF ExitInv, CloserInv
<1> QED BY <1>1, <1>2, Actors DEF ExitInv, UnmountInv, OneMoves, Moves, Goto, Resting

-----------------------------------------------------------------------------
(* The cache under the mount *)

\* The invariant of the cache holds until the end; the handles that are open when
\* the mount exits are never closed.
MountInv == PlaceInv /\ DataInv /\ BoundInv /\ (exit = "none" => LastInv) /\ ExitInv

\* A step of the mount moves the data of one block, or a Flush, or nothing.
LEMMA MountData ==
    ASSUME ~OpenDuringLastClose, OwnUnlock, ~UnmountFails, MountInv, MountNext
    PROVE  /\ PlaceInv' /\ DataInv'
           /\ [Next]_vars \/ (DataStep /\ Still /\ FlushMove)
<1> USE DEF MountInv
<1>1. CASE [Next]_vars
  <2>1. LastInv \/ NobodyBegins
    BY MountQuiet
  <2>2. PlaceInv'
    BY <1>1, <2>1, NextTypeInv, NextSafeInv, NextUnlockInv DEF PlaceInv
  <2> QED BY <1>1, <2>2, NextData, StutterData
<1>2. CASE \E f \in Files : CloseAllFile(f)
  BY <1>2, CloseAllFileStep
<1>3. CASE CloseAllError
  BY <1>3, CloseAllErrorStep
<1> QED BY <1>1, <1>2, <1>3, MountSteps

LEMMA MountBound ==
    ASSUME MountInv, MountNext
    PROVE  BoundInv'
<1>1. CASE [Next]_vars
  BY <1>1, NextBound DEF MountInv
<1>2. CASE (\E f \in Files : CloseAllFile(f)) \/ CloseAllError
  <2>1. ver' = ver /\ \E l \in {"closed", "flushing"} : Goto(Closer, l)
    BY <1>2 DEF CloseAllFile, CloseAllError
  <2>2. TypeOK /\ Closer \in Procs /\ Clients \subseteq Procs
    BY Actors DEF MountInv, PlaceInv, TypeInv
  <2>3. \A c \in Clients : pc'[c] = "wlock" => pc[c] = "wlock"
    BY <2>1, <2>2 DEF Goto, TypeOK
  <2> QED BY <2>1, <2>2, <2>3, BoundKept DEF MountInv
<1> QED BY <1>1, <1>2, MountSteps

LEMMA MountLast ==
    ASSUME ~OpenDuringLastClose, OwnUnlock, ~UnmountFails, MountInv, MountNext, exit' = "none"
    PROVE  LastInv'
<1>1. exit = "none"
  BY MountChanges DEF Unmount, CloseAll, CloseAllWait, DelMountReturn, ExpireStop, SyncStop
<1>2. ~(\E f \in Files : CloseAllFile(f)) /\ ~CloseAllError
  BY <1>1 DEF CloseAllFile, CloseAllError, FlushReturned, MountInv, ExitInv, CloserInv
<1> QED BY <1>1, <1>2, MountSteps, NextLastInv DEF MountInv, PlaceInv

LEMMA MountInvHolds ==
    ASSUME ~OpenDuringLastClose, OwnUnlock, ~UnmountFails
    PROVE  MountSpec => []MountInv
<1>1. NewMount => MountInv
  BY InitTypeInv, InitSafeInv, InitData, InitBound, InitExit DEF NewMount, MountInv, PlaceInv
<1>2. MountInv /\ [MountNext]_allVars => MountInv'
  <2> SUFFICES ASSUME MountInv, [MountNext]_allVars PROVE MountInv'
    OBVIOUS
  <2>1. ExitInv'
    BY NextExitInv DEF MountInv
  <2>2. CASE MountNext
    BY <2>1, <2>2, MountData, MountBound, MountLast DEF MountInv
  <2>3. CASE UNCHANGED allVars
    <3>1. UNCHANGED vars /\ exit' = exit /\ NobodyBegins
      BY <2>3 DEF allVars, mountVars, NobodyBegins, vars, localVars
    <3>2. PlaceInv'
      BY <3>1, NextTypeInv, NextSafeInv, NextUnlockInv DEF MountInv, PlaceInv
    <3>3. DataInv' /\ BoundInv'
      BY <3>1, StutterData, NextBound DEF MountInv
    <3>4. exit' = "none" => LastInv'
      BY <3>1, NextLastInv DEF MountInv, PlaceInv
    <3> QED BY <2>1, <3>2, <3>3, <3>4 DEF MountInv
  <2> QED BY <2>2, <2>3
<1> QED BY <1>1, <1>2, PTL DEF MountSpec

\* When CloseAll has returned the cache is at rest, and accepted data is missing on
\* the server only for files that still have their FileBuffer (wcache.go, CloseAll),
\* if SyncWrite unlocks its own block (OwnUnlock).
THEOREM ShutdownIsClean ==
    ASSUME ~OpenDuringLastClose, OwnUnlock, ~UnmountFails
    PROVE  MountSpec => []CleanShutdown
<1>1. MountInv => CleanShutdown
  <2> SUFFICES ASSUME MountInv, exit \in {"closed", "done"}
               PROVE  /\ chSync = {} /\ \A p \in Procs \ Users : pc[p] \in {"idle", "closed"}
                      /\ \A f \in Files : Dirty(f) => gone[f] \/ Cache[f] # 0
    BY DEF CleanShutdown
  <2>1. stopped = Goroutines /\ pc[Closer] = "closed" /\ NoRequest
    BY DEF MountInv, ExitInv, CloserInv, UnmountInv
  <2>2. chSync = {}
    <3>1. CASE Syncers = {}
      BY <3>1 DEF MountInv, ExitInv, ShutInv
    <3>2. CASE Syncers # {}
      BY <2>1, <3>2 DEF MountInv, ExitInv, ShutInv, Goroutines
    <3> QED BY <3>1, <3>2
  <2>3. \A c \in Clients : fl[c].pend = {}
    <3>1. \A c \in Clients : pc[c] # "flushing"
      BY <2>1, Actors DEF NoRequest
    <3> QED BY <3>1 DEF MountInv, PlaceInv, TypeInv, FlushInv
  <2>4. ASSUME NEW p \in Procs \ Users PROVE pc[p] \in {"idle", "closed"}
    <3>1. CASE p \in Clients
      BY <2>1, <3>1, Actors
    <3>2. CASE p \in Goroutines
      BY <2>1, <3>2 DEF MountInv, ExitInv, ShutInv
    <3>3. CASE p \in Workers
      <4>1. p[1] \in Clients
        BY <3>3 DEF Workers
      <4>2. pc[p] \notin Flushers
        BY <2>3, <3>3, <4>1 DEF MountInv, PlaceInv, TypeInv, FlushInv
      <4> QED BY <3>3, <4>2 DEF MountInv, ExitInv, ShutInv, Flushing
    <3> QED BY <3>1, <3>2, <3>3 DEF Procs, Goroutines
  <2>5. ASSUME NEW f \in Files, Dirty(f), ~gone[f], Cache[f] = 0 PROVE FALSE
    <3>1. PICK x \in Blocks, i \in Cells : disk[f][x][i] < latest[f][x][i]
      BY <2>5 DEF Dirty
    <3>2. latest[f][x][i] <= disk[f][x][i]
      BY <2>5, NoBufferStored DEF MountInv, DataInv, BufAt
    <3>3. disk[f][x][i] \in Nat /\ latest[f][x][i] \in Nat
      BY ContentCells DEF MountInv, PlaceInv, TypeInv
    <3> QED BY <3>1, <3>2, <3>3
  <2> QED BY <2>2, <2>4, <2>5
<1> QED BY <1>1, MountInvHolds, PTL

\* No Assert of the write path fails while DelMount closes files whose handles are
\* still open, if SyncWrite unlocks its own block (OwnUnlock).
THEOREM NoAssertFailsAtExit ==
    ASSUME ~OpenDuringLastClose, OwnUnlock, ~UnmountFails
    PROVE  MountSpec => []NoPanic
<1>1. MountInv => NoPanic
  BY SafeNoPanic DEF MountInv, PlaceInv
<1> QED BY <1>1, MountInvHolds, PTL

\* The cache keeps the promise of WriteBack until the mount is gone: a Close of
\* CloseAll succeeds only when the server has everything that was accepted, if
\* SyncWrite unlocks its own block (OwnUnlock).
THEOREM MountImplementsWriteBack ==
    ASSUME ~OpenDuringLastClose, OwnUnlock, ~UnmountFails
    PROVE  MountSpec => KeepsPromise
<1>1. ASSUME MountInv, MountInv', MountNext
      PROVE  Promise!AbstractNext \/ UNCHANGED Promise!abstractVars
  <2>1. CASE Next
    BY <1>1, <2>1, NextData, MoveRefines DEF MountInv
  <2>2. CASE UNCHANGED vars
    BY <2>2, StutterRefines
  <2>3. CASE DataStep /\ Still /\ FlushMove
    BY <1>1, <2>3, MoveRefines DEF MountInv
  <2> QED BY <1>1, <2>1, <2>2, <2>3, MountData
<1>2. MountInv /\ MountInv' /\ [MountNext]_allVars => [Promise!AbstractNext]_(Promise!abstractVars)
  BY <1>1, StutterRefines DEF allVars
<1>3. NewMount => Promise!AbstractInit
  BY InitRefines DEF NewMount
<1> QED BY <1>2, <1>3, MountInvHolds, PTL DEF MountSpec, KeepsPromise, Promise!AbstractSpec
=============================================================================
