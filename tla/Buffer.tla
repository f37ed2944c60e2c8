------------------------------- MODULE Buffer -------------------------------
(***************************************************************************)
(* The block buffers of the read and the write cache (lib/libfs/cache.go)  *)
(* as pure operators on records, and the content of one block on the       *)
(* server.                                                                 *)
(*                                                                         *)
(* Bytes are abstracted to versions: the content of a block is the version *)
(* of the write each of its cells was last written by, 0 for a cell never  *)
(* written.  The bytes of dataBuf outside Offset .. Offset+Len-1 are never *)
(* read (GetData and GetRangeData cut them off), so they are kept at 0.    *)
(* The element pointer elm and LastUpdateTime belong to the LRU list and   *)
(* are modelled where the list is.                                         *)
(***************************************************************************)
EXTENDS Integers

CONSTANTS
    Files,      \* file ids (FileEntry.Id)
    NoFile,     \* the nil *FileEntry
    Blocks,     \* block indexes of a file
    BlockSize   \* FileEntry.BlockSize, in cells

ASSUME BufferAssumption ==
    /\ BlockSize \in Nat \ {0}
    /\ 0 \in Blocks /\ Blocks \subseteq Nat
    /\ NoFile \notin Files

Cells   == 0 .. BlockSize - 1
Content == [Cells -> Nat]
Blank   == [i \in Cells |-> 0]

\* Offset + Len never passes the end of the block: the Assert of IsFull.
BufferType ==
    {b \in [fe : Files \cup {NoFile}, BlkIdx : Blocks,
            Offset : 0 .. BlockSize, Len : 0 .. BlockSize, data : Content] :
        b.Offset + b.Len <= BlockSize}

-----------------------------------------------------------------------------
(* type Buffer *)

NewBuffer == [fe |-> NoFile, BlkIdx |-> 0, Offset |-> 0, Len |-> 0, data |-> Blank]

ReSet(fe, BlkIdx) ==
    [fe |-> fe, BlkIdx |-> BlkIdx, Offset |-> 0, Len |-> 0, data |-> Blank]

\* Mutant of CanMerge: any op on the block is taken for a continuation.
CanMergeAlways(b, Offset) == TRUE
CanMerge(b, Offset) == b.Offset + b.Len = Offset

MergeData(b, size, v) ==
    LET tail == b.Offset + b.Len
    IN  [b EXCEPT !.Len  = @ + size,
                  !.data = [i \in Cells |-> IF tail <= i /\ i < tail + size
                                            THEN v ELSE b.data[i]]]

IsFull(b) == b.Offset + b.Len = BlockSize

Skip(b, Offset) == [b EXCEPT !.Offset = @ + Offset]

\* The cells GetData and GetRangeData expose.
InRange(b, i) == b.Offset <= i /\ i < b.Offset + b.Len

-----------------------------------------------------------------------------
(* type RWBlockOp: the part of a Write call that falls into one block.     *)

OpType == {o \in [RwOffset : Cells, RwSize : 0 .. BlockSize, ver : Nat] :
              o.RwOffset + o.RwSize <= BlockSize}

OpIsFull(o) == o.RwOffset + o.RwSize = BlockSize

\* A fresh buffer that holds exactly the data of an op: what AllocBuffer,
\* Skip and MergeData make of it, and what a direct write of it sends.
OpBuffer(fe, BlkIdx, o) == MergeData(Skip(ReSet(fe, BlkIdx), o.RwOffset), o.RwSize, o.ver)

\* The content of the block after the data of b has been written over it, on
\* the server by a write request or in memory by MergeOp's copy.
Overlay(content, b) == [i \in Cells |-> IF InRange(b, i) THEN b.data[i] ELSE content[i]]
=============================================================================
