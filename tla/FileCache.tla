------------------------------ MODULE FileCache ------------------------------
(***************************************************************************)
(* The handle table of a mount (lib/libfs/filecache.go) and the calls that *)
(* work on it, mount.Open and mount.Close (lib/libfs/file.go).             *)
(*                                                                         *)
(* Each method of FileCache is one critical section of its RWMutex and one *)
(* action; Open and Close are several of them, so the steps of different   *)
(* threads interleave in between.  A handle belongs to the application     *)
(* from the return of Open until it is passed to Close, once: FUSE sends   *)
(* one Release per handle.                                                 *)
(***************************************************************************)
EXTENDS Integers, FiniteSets

CONSTANTS
    Threads,          \* threads that call Open and Close
    Ids,              \* file ids
    NoEntry,          \* the nil *FileEntry
    fileEntryVecSize  \* openFileMax

ASSUME FileCacheAssumption ==
    /\ fileEntryVecSize \in Nat
    /\ NoEntry \notin [Id : Ids, DirectIO : BOOLEAN]

VARIABLES
    fileEntryIndex,   \* where the next NewFile goes
    fileEntryVec,     \* the open files by handle
    fileRefer,        \* cached (not DirectIO) handles of each id, 0 when absent
    pc,               \* where each thread stands
    fd,               \* its local handle
    entry,            \* its local *FileEntry (the fileEntry of Open, fdEntry of Close)
    live              \* the application's handles and what it opened them as

vars == <<fileEntryIndex, fileEntryVec, fileRefer, pc, fd, entry, live>>

Handles == 0 .. fileEntryVecSize - 1
Entries == [Id : Ids, DirectIO : BOOLEAN]

TypeOK ==
    /\ fileEntryIndex \in 0 .. fileEntryVecSize
    /\ fileEntryVec \in [Handles -> Entries \cup {NoEntry}]
    /\ fileRefer \in [Ids -> Nat]
    /\ pc \in [Threads -> {"idle", "opened", "lastref", "rwclose", "rwflush", "closefile"}]
    /\ fd \in [Threads -> Handles \cup {-1}]
    /\ entry \in [Threads -> Entries \cup {NoEntry}]
    /\ live \in [Handles -> Entries \cup {NoEntry}]

Init ==
    /\ fileEntryIndex = 0
    /\ fileEntryVec = [h \in Handles |-> NoEntry]
    /\ fileRefer = [i \in Ids |-> 0]
    /\ pc = [t \in Threads |-> "idle"]
    /\ fd = [t \in Threads |-> -1]
    /\ entry = [t \in Threads |-> NoEntry]
    /\ live = [h \in Handles |-> NoEntry]

-----------------------------------------------------------------------------
(* fileRefer: an id is in the map exactly when its count is not 0. *)

\* Mutant of AddRef: the second reference is not counted.
AddRefOnce(Id) == fileRefer' = [fileRefer EXCEPT ![Id] = 1]
AddRef(Id) == fileRefer' = [fileRefer EXCEPT ![Id] = @ + 1]

DelRef(Id) ==
    /\ fileRefer[Id] >= 1
    /\ fileRefer' = [fileRefer EXCEPT ![Id] = @ - 1]

\* Mutant of LastRef: a count that is not yet 0 passes for the last.
LastRefAny(Id) == fileRefer[Id] >= 1
LastRef(Id) == fileRefer[Id] = 1

\* The scan for the first free slot at or after a slot.
IsScanStop(vec, from, i) ==
    /\ i \in from .. fileEntryVecSize
    /\ i = fileEntryVecSize \/ vec[i] = NoEntry
    /\ \A j \in from .. i - 1 : vec[j] # NoEntry

GetMinEntryIndex(vec, from) ==
    CHOOSE i \in 0 .. fileEntryVecSize : IsScanStop(vec, from, i)

\* Mutant of IndexAfterClose: the freed handle is always the next one.
IndexIsFreed(handle) == handle
\* The index after CloseFile(handle).
IndexAfterClose(handle) == IF handle < fileEntryIndex THEN handle ELSE fileEntryIndex

-----------------------------------------------------------------------------
(* mount.Open *)

\* NewFile with the table full: Open fails with EBADF.
NewFileFull(t) ==
    /\ pc[t] = "idle"
    /\ fileEntryIndex >= fileEntryVecSize
    /\ UNCHANGED vars

\* Mutant of NewFile: the scan for the next slot is left out.
NewFileNoScan(t, e) ==
    /\ pc[t] = "idle"
    /\ fileEntryIndex < fileEntryVecSize
    /\ fileEntryVec' = [fileEntryVec EXCEPT ![fileEntryIndex] = e]
    /\ IF e.DirectIO THEN UNCHANGED fileRefer ELSE AddRef(e.Id)
    /\ fd' = [fd EXCEPT ![t] = fileEntryIndex]
    /\ entry' = [entry EXCEPT ![t] = e]
    /\ pc' = [pc EXCEPT ![t] = "opened"]
    /\ UNCHANGED <<fileEntryIndex, live>>

\* Otherwise.  A slot that is not nil at fileEntryIndex is a panic.
NewFile(t, e) ==
    LET h   == fileEntryIndex
        vec == [fileEntryVec EXCEPT ![h] = e]
    IN  /\ pc[t] = "idle"
        /\ h < fileEntryVecSize
        /\ fileEntryVec[h] = NoEntry
        /\ fileEntryVec' = vec
        /\ IF e.DirectIO THEN UNCHANGED fileRefer ELSE AddRef(e.Id)
        /\ fileEntryIndex' = GetMinEntryIndex(vec, h)
        /\ fd' = [fd EXCEPT ![t] = h]
        /\ entry' = [entry EXCEPT ![t] = e]
        /\ pc' = [pc EXCEPT ![t] = "opened"]
        /\ UNCHANGED live

\* A call returns: its locals are gone.
Return(t) ==
    /\ pc' = [pc EXCEPT ![t] = "idle"]
    /\ fd' = [fd EXCEPT ![t] = -1]
    /\ entry' = [entry EXCEPT ![t] = NoEntry]

\* GetFileEntry of the new handle (an error is log.Panic), and Open returns it.
OpenReturn(t) ==
    /\ pc[t] = "opened"
    /\ fileEntryVec[fd[t]] # NoEntry
    /\ live' = [live EXCEPT ![fd[t]] = entry[t]]
    /\ Return(t)
    /\ UNCHANGED <<fileEntryIndex, fileEntryVec, fileRefer>>

-----------------------------------------------------------------------------
(* mount.Close *)

\* GetFileEntry, and UseRWCache decides whether the cache is involved.
Close(t, h) ==
    /\ pc[t] = "idle"
    /\ live[h] # NoEntry
    /\ live' = [live EXCEPT ![h] = NoEntry]
    /\ fileEntryVec[h] # NoEntry
    /\ fd' = [fd EXCEPT ![t] = h]
    /\ entry' = [entry EXCEPT ![t] = fileEntryVec[h]]
    /\ pc' = [pc EXCEPT ![t] = IF fileEntryVec[h].DirectIO THEN "closefile" ELSE "lastref"]
    /\ UNCHANGED <<fileEntryIndex, fileEntryVec, fileRefer>>

\* IsLastRefer (LastRef asserts a count of at least 1) chooses between
\* rwCache.Close and rwCache.Flush; what they do is module WCache's.
IsLastRefer(t) ==
    /\ pc[t] = "lastref"
    /\ fileRefer[entry[t].Id] >= 1
    /\ pc' = [pc EXCEPT ![t] = IF LastRef(entry[t].Id) THEN "rwclose" ELSE "rwflush"]
    /\ UNCHANGED <<fileEntryIndex, fileEntryVec, fileRefer, fd, entry, live>>

RWCacheOk(t) ==
    /\ pc[t] \in {"rwclose", "rwflush"}
    /\ pc' = [pc EXCEPT ![t] = "closefile"]
    /\ UNCHANGED <<fileEntryIndex, fileEntryVec, fileRefer, fd, entry, live>>

\* An error of rwCache.Close or rwCache.Flush ends Close: the handle stays in
\* the table, and the application may use it again or forget it.
RWCacheFail(t) ==
    /\ pc[t] \in {"rwclose", "rwflush"}
    /\ live' = [live EXCEPT ![fd[t]] = entry[t]]
    /\ Return(t)
    /\ UNCHANGED <<fileEntryIndex, fileEntryVec, fileRefer>>

\* Mutant of Unrefer: the reference of a DirectIO handle is given back too.
UnreferAlways(e) == fileRefer' = [fileRefer EXCEPT ![e.Id] = @ - 1]
Unrefer(e) == IF e.DirectIO THEN UNCHANGED fileRefer ELSE DelRef(e.Id)

CloseFile(t) ==
    LET h == fd[t]
    IN  /\ pc[t] = "closefile"
        /\ fileEntryVec[h] # NoEntry
        /\ Unrefer(fileEntryVec[h])
        /\ fileEntryVec' = [fileEntryVec EXCEPT ![h] = NoEntry]
        /\ fileEntryIndex' = IndexAfterClose(h)
        /\ Return(t)
        /\ UNCHANGED live

Next ==
    \E t \in Threads :
        \/ NewFileFull(t)
        \/ \E e \in Entries : NewFile(t, e)
        \/ OpenReturn(t)
        \/ \E h \in Handles : Close(t, h)
        \/ IsLastRefer(t) \/ RWCacheOk(t) \/ RWCacheFail(t) \/ CloseFile(t)

Spec == Init /\ [][Next]_vars

-----------------------------------------------------------------------------
(* Properties *)

\* NewFile always takes the lowest free handle, as open(2) promises, and never
\* finds it occupied (the panic of filecache.go:101): no order of opens and
\* closes makes the cached index skip a free slot.
IndexIsLeastFree == IsScanStop(fileEntryVec, 0, fileEntryIndex)

CachedHandles(i) == {h \in Handles : /\ fileEntryVec[h] # NoEntry
                                     /\ ~fileEntryVec[h].DirectIO
                                     /\ fileEntryVec[h].Id = i}

\* The count LastRef and DelRef rely on is the number of handles that use the
\* cache for the file.
ReferCountsHandles == \A i \in Ids : fileRefer[i] = Cardinality(CachedHandles(i))

\* The asserts of LastRef and DelRef and the checks for an invalid handle cannot
\* fail while other threads open and close files: whoever is inside Open or
\* Close still finds its own entry behind its handle.
OwnEntryInTable ==
    \A t \in Threads : pc[t] # "idle" => /\ fd[t] \in Handles
                                         /\ fileEntryVec[fd[t]] = entry[t]

\* A handle the application holds names the file it was opened for until it is
\* closed: it is never handed out twice, and nobody else's Close frees it.
HandleNamesItsFile ==
    \A h \in Handles : live[h] # NoEntry =>
        /\ fileEntryVec[h] = live[h]
        /\ \A t \in Threads : pc[t] # "idle" => fd[t] # h

\* Both: a handle belongs to one thread inside Open or Close or to one open file
\* of the application, from NewFile to CloseFile.
HandlesOwned == OwnEntryInTable /\ HandleNamesItsFile

\* Two threads never close the cache of one file at the same time, although
\* the count is read in one critical section and lowered in a later one: the
\* handle of the one still counts when the other looks.
SingleCacheCloser ==
    \A t, u \in Threads :
        t # u /\ pc[t] = "rwclose" /\ pc[u] = "rwclose" => entry[t].Id # entry[u].Id
=============================================================================
