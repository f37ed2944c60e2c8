------------------------------ MODULE ReadSize ------------------------------
(***************************************************************************)
(* How much a Read returns (doRead of lib/libfs/rwcache.go, Slice and      *)
(* ReadOp of rcache.go, MergeOp of wcache.go): the read is cut into one op *)
(* per block, each op asks the server, which knows the written part of the *)
(* file only, and MergeOp extends the answer by what the write cache has,  *)
(* through the holes between the two.                                      *)
(*                                                                         *)
(* The operators are functions of a state of WCache.  doRead holds the     *)
(* block lock of an op from the request to the merge, so that nothing but  *)
(* UpperIdx can change under it.  Blocks found in the read cache are left  *)
(* to RWCache.                                                             *)
(***************************************************************************)
EXTENDS WCache, FiniteSetsExt

\* The blocks of a file follow each other from block 0 on, without gaps.
ASSUME ReadSizeAssumption == IsFiniteSet(Blocks) /\ Blocks = 0 .. Cardinality(Blocks) - 1

\* Positions of a file, block after block.
Positions == {x * BlockSize + i : x \in Blocks, i \in Cells}

At(content, p) == content[p \div BlockSize][p % BlockSize]

\* The size of a file with that content: files grow by writes only.
SizeOf(content) == LET written == {p \in Positions : At(content, p) # 0}
                   IN  IF written = {} THEN 0 ELSE Max(written) + 1

\* The op of a block, for a read of size cells from offset on.
SliceOp(offset, size, x) ==
    LET start == Max({offset, x * BlockSize})
    IN  [Index |-> x, RwOffset |-> start % BlockSize,
         RwSize |-> Min({(x + 1) * BlockSize, offset + size}) - start]

\* One op for each block the read touches.
Slice(offset, size) ==
    {SliceOp(offset, size, x) : x \in {y \in Blocks : /\ offset \div BlockSize <= y
                                                      /\ y * BlockSize < offset + size}}

GetFileOffset(o) == o.Index * BlockSize + o.RwOffset

\* ReadOp without a buffer in the read cache: what the server returns of the op.
DirectRead(f, o) == Max({0, Min({o.RwSize, SizeOf(disk[f]) - GetFileOffset(o)})})

GetBuffer(f, x) == IF Cache[f] = 0 THEN NoBuf ELSE BufferMap[<<Cache[f], x>>]

UpperIdx(f) == Max({0} \cup {x \in Blocks : GetBuffer(f, x) # NoBuf})

\* Mutant of MergeOp: the answer is not extended by the buffer.
MergeOpKeepsSize(f, o, dataSize) ==
    IF GetBuffer(f, o.Index) = NoBuf /\ o.Index < UpperIdx(f) THEN o.RwSize ELSE dataSize

\* The size of an op after the merge with the write cache.
MergeOp(f, o, dataSize) ==
    LET b    == GetBuffer(f, o.Index)
        tail == buf[b].Offset + buf[b].Len
        end  == o.RwOffset + o.RwSize
    IN  IF b = NoBuf THEN IF o.Index < UpperIdx(f) THEN o.RwSize ELSE dataSize
        ELSE IF tail <= o.RwOffset \/ end <= buf[b].Offset
        THEN IF o.RwOffset < buf[b].Offset THEN o.RwSize ELSE dataSize
        ELSE Max({dataSize, Min({tail, end}) - o.RwOffset})

\* doRead: up to the end of the last op that found something.
DoRead(f, offset, size) ==
    LET opSize(o) == MergeOp(f, o, DirectRead(f, o))
        found     == {o \in Slice(offset, size) : opSize(o) # 0}
    IN  Max({0} \cup {GetFileOffset(o) - offset + opSize(o) : o \in found})

-----------------------------------------------------------------------------
ViewOf(f) == [x \in Blocks |-> View(f, x)]

\* RLockBuffer gets every block of the read.
Readable(f, offset, size) ==
    \A o \in Slice(offset, size) : Cache[f] # 0 => LockMap[<<Cache[f], o.Index>>] # WriteLock

\* A Read returns every written cell it asks for, wherever the server and the
\* buffers have it and whatever holes are between them, and nothing beyond the
\* end of the file; doRead's Assert (rwcache.go:83) holds.
ReadComplete ==
    \A f \in Files, offset \in Positions, size \in 1 .. Cardinality(Positions) :
        ~gone[f] /\ offset + size - 1 \in Positions /\ Readable(f, offset, size) =>
            LET n == DoRead(f, offset, size)
            IN  /\ n <= size
                /\ n > 0 => offset + n <= SizeOf(ViewOf(f))
                /\ \A p \in offset .. offset + size - 1 : At(ViewOf(f), p) # 0 => p < offset + n
=============================================================================
