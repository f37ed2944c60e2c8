------------------------------ MODULE WriteBack ------------------------------
(***************************************************************************)
(* What the write-back cache of a mount promises to the handles above it   *)
(* and to the server below it, without buffers, locks or goroutines.       *)
(* WCache is shown to implement it.                                        *)
(*                                                                         *)
(* A file is a function from blocks to cells, a cell the version of the    *)
(* last write to it.  The cache may write a block back at any time and in  *)
(* any portion, it may fail to, and a write that is reported as failed may *)
(* have happened; but the server only ever catches up with what readers    *)
(* see, and a Flush succeeds only when it has.                             *)
(***************************************************************************)
EXTENDS Naturals

CONSTANTS
    Files, NoFile, Blocks, Cells, Clients,
    Versions    \* the versions writes may have

VARIABLES
    view,    \* what a read of the file returns
    stored,  \* what the server has
    acked,   \* the writes reported as successful
    gone,    \* files removed on the server; nothing is promised for them
    flush    \* the Flush call of each client: state, file, what it has to store

abstractVars == <<view, stored, acked, gone, flush>>

BlockContent == [Cells -> Nat]
FileContent  == [Blocks -> BlockContent]
Empty        == [x \in Blocks |-> [i \in Cells |-> 0]]

NoFlush   == [state |-> "none", file |-> NoFile, need |-> Empty]
FlushType == [state : {"none", "running", "ok", "failed"}, file : Files \cup {NoFile},
              need : FileContent]

AbstractTypeOK ==
    /\ view \in [Files -> FileContent]
    /\ stored \in [Files -> FileContent]
    /\ acked \in [Files -> FileContent]
    /\ gone \in [Files -> BOOLEAN]
    /\ flush \in [Clients -> FlushType]

AbstractInit ==
    /\ view = [f \in Files |-> Empty]
    /\ stored = [f \in Files |-> Empty]
    /\ acked = [f \in Files |-> Empty]
    /\ gone = [f \in Files |-> FALSE]
    /\ flush = [c \in Clients |-> NoFlush]

\* Every cell of content u is at least as new as in content w.
AtLeast(u, w) == \A x \in Blocks, i \in Cells : u[x][i] >= w[x][i]

\* Block u with the cells S taken from block w.
Taken(u, w, S) == [i \in Cells |-> IF i \in S THEN w[i] ELSE u[i]]

\* A write takes effect: the cells S of a block get a version newer than all
\* that readers see of the block.  It may be on the server at once, and it may
\* be acknowledged at once, later or never.
Write(f, x, S, v) ==
    LET new == [i \in Cells |-> IF i \in S THEN v ELSE view[f][x][i]]
    IN  /\ ~gone[f]
        /\ \A i \in Cells : view[f][x][i] < v
        /\ view' = [view EXCEPT ![f][x] = new]
        /\ stored' \in {stored, [stored EXCEPT ![f][x] = Taken(@, new, S)]}
        /\ acked' \in {acked, [acked EXCEPT ![f][x] = Taken(@, new, S)]}
        /\ UNCHANGED <<gone, flush>>

\* A write that took effect is acknowledged: its call returns success.
Acknowledge(f, x, S) ==
    /\ ~gone[f]
    /\ acked' = [acked EXCEPT ![f][x] = Taken(@, view[f][x], S)]
    /\ UNCHANGED <<view, stored, gone, flush>>

\* The server catches up with the readers in some cells of a block.
Store(f, x, S) ==
    /\ ~gone[f]
    /\ stored' = [stored EXCEPT ![f][x] = Taken(@, view[f][x], S)]
    /\ UNCHANGED <<view, acked, gone, flush>>

\* Flush succeeds only when the server has what was acknowledged before it.
Achieved(q) == q.state = "ok" => gone[q.file] \/ AtLeast(stored[q.file], q.need)

FlushBegin(c, f) ==
    /\ flush[c].state = "none"
    /\ \E s \in {"running", "ok"} :
          LET q == [state |-> s, file |-> f, need |-> acked[f]]
          IN  Achieved(q) /\ flush' = [flush EXCEPT ![c] = q]
    /\ UNCHANGED <<view, stored, acked, gone>>

FlushEnd(c) ==
    /\ flush[c].state = "running"
    /\ \E s \in {"ok", "failed"} :
          LET q == [flush[c] EXCEPT !.state = s]
          IN  Achieved(q) /\ flush' = [flush EXCEPT ![c] = q]
    /\ UNCHANGED <<view, stored, acked, gone>>

FlushReturn(c) ==
    /\ flush[c].state \in {"ok", "failed"}
    /\ flush' = [flush EXCEPT ![c] = NoFlush]
    /\ UNCHANGED <<view, stored, acked, gone>>

\* The file is removed on the server: nothing is owed for it any more.
Remove(f) ==
    /\ gone' = [gone EXCEPT ![f] = TRUE]
    /\ view' = [view EXCEPT ![f] = Empty]
    /\ stored' = [stored EXCEPT ![f] = Empty]
    /\ acked' = [acked EXCEPT ![f] = Empty]
    /\ flush' = [c \in Clients |-> IF flush[c].file = f THEN [flush[c] EXCEPT !.need = Empty]
                                                     ELSE flush[c]]

BlockStep(f, x, S) ==
    Acknowledge(f, x, S) \/ Store(f, x, S) \/ \E v \in Versions : Write(f, x, S, v)

FlushStep(c) == FlushEnd(c) \/ FlushReturn(c) \/ \E f \in Files : FlushBegin(c, f)

AbstractNext ==
    \/ \E f \in Files, x \in Blocks, S \in SUBSET Cells : BlockStep(f, x, S)
    \/ \E c \in Clients : FlushStep(c)
    \/ \E f \in Files : Remove(f)

AbstractSpec == AbstractInit /\ [][AbstractNext]_abstractVars

-----------------------------------------------------------------------------
(* What follows from the promise *)

\* A read never misses a write that was reported as successful.
ReadsSeeAcked == \A f \in Files : AtLeast(view[f], acked[f])

\* The server is never ahead of the readers.
ServerBehind == \A f \in Files : AtLeast(view[f], stored[f])

\* A Flush that succeeded left everything acknowledged before it on the server.
FlushedIsStored == \A c \in Clients : Achieved(flush[c])
=============================================================================
