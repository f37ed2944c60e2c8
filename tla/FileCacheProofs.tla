--------------------------- MODULE FileCacheProofs ---------------------------
(***************************************************************************)
(* Proofs about the handle table for every table size, every number of     *)
(* threads and every set of file ids.                                      *)
(***************************************************************************)
EXTENDS FileCache, FiniteSetTheorems, WellFoundedInduction, TLAPS

\* The scan of GetMinEntryIndex always stops, and at the first free slot.
LEMMA ScanStops ==
    ASSUME NEW vec, NEW from \in 0 .. fileEntryVecSize
    PROVE  IsScanStop(vec, from, GetMinEntryIndex(vec, from))
<1> DEFINE T == {i \in from .. fileEntryVecSize : i = fileEntryVecSize \/ vec[i] = NoEntry}
           R == OpToRel(<, Nat)
<1>1. T \subseteq Nat /\ T # {}
  <2>1. fileEntryVecSize \in T
    BY FileCacheAssumption
  <2>2. T \subseteq Nat
    BY FileCacheAssumption
  <2> QED BY <2>1, <2>2
<1>2. IsWellFoundedOn(R, Nat)
  BY NatLessThanWellFounded
<1>3. \A x, y \in Nat : y < x => <<y, x>> \in R
  BY DEF OpToRel
<1> HIDE DEF R
<1>4. PICK m \in T : \A y \in T : ~ (<<y, m>> \in R)
  <2> HIDE DEF T
  <2> QED BY <1>1, <1>2, WFMin
<1>5. m \in Nat /\ \A y \in T : ~ (y < m)
  <2> HIDE DEF T
  <2> QED BY <1>1, <1>3, <1>4
<1>6. IsScanStop(vec, from, m)
  <2>1. \A j \in from .. m - 1 : vec[j] # NoEntry
    BY <1>4, <1>5, FileCacheAssumption
  <2> QED BY <1>4, <2>1 DEF IsScanStop
<1>7. m \in 0 .. fileEntryVecSize
  BY <1>4, FileCacheAssumption
<1> QED BY <1>6, <1>7 DEF GetMinEntryIndex

\* Where all slots below are taken, a scan may as well have started at slot 0.
LEMMA ScanExtends ==
    ASSUME NEW vec, NEW from \in 0 .. fileEntryVecSize, NEW i,
           \A j \in 0 .. from - 1 : vec[j] # NoEntry, IsScanStop(vec, from, i)
    PROVE  IsScanStop(vec, 0, i)
  BY FileCacheAssumption DEF IsScanStop

-----------------------------------------------------------------------------
(* The inductive invariant. *)

\* What a thread inside a call knows about its handle and its entry.
BusyInv ==
    \A t \in Threads : pc[t] # "idle" =>
        /\ entry[t] \in Entries
        /\ pc[t] \in {"lastref", "rwclose", "rwflush"} => ~entry[t].DirectIO
        /\ \A u \in Threads : u # t /\ pc[u] # "idle" => fd[u] # fd[t]

Inv == /\ TypeOK
       /\ IndexIsLeastFree
       /\ ReferCountsHandles
       /\ OwnEntryInTable
       /\ HandleNamesItsFile
       /\ BusyInv
       /\ SingleCacheCloser

\* The handles of a file are finitely many, so counting them makes sense.
LEMMA CachedHandlesFinite ==
    \A i \in Ids : IsFiniteSet(CachedHandles(i)) /\ Cardinality(CachedHandles(i)) \in Nat
<1> SUFFICES ASSUME NEW i \in Ids
             PROVE  IsFiniteSet(CachedHandles(i)) /\ Cardinality(CachedHandles(i)) \in Nat
  OBVIOUS
<1>1. IsFiniteSet(Handles)
  BY FS_Interval, FileCacheAssumption DEF Handles
<1>2. CachedHandles(i) \in SUBSET Handles
  BY DEF CachedHandles
<1> QED BY <1>1, <1>2, FS_Subset, FS_CardinalityType

\* The empty table satisfies the invariant.
LEMMA InitInv == Init => Inv
<1> SUFFICES ASSUME Init PROVE Inv
  OBVIOUS
<1>1. TypeOK
  BY FileCacheAssumption DEF Init, TypeOK, Handles
<1>2. IndexIsLeastFree
  BY FileCacheAssumption DEF Init, IndexIsLeastFree, IsScanStop, Handles
<1>3. ReferCountsHandles
  <2>1. \A i \in Ids : CachedHandles(i) = {}
    BY DEF Init, CachedHandles
  <2> QED BY <2>1, FS_EmptySet DEF Init, ReferCountsHandles
<1>4. OwnEntryInTable /\ HandleNamesItsFile /\ BusyInv /\ SingleCacheCloser
  BY DEF Init, OwnEntryInTable, HandleNamesItsFile, BusyInv, SingleCacheCloser
<1> QED BY <1>1, <1>2, <1>3, <1>4 DEF Inv

\* NewFile takes the lowest free slot and moves on to the next one.
LEMMA NewFileInv ==
    ASSUME Inv, NEW t \in Threads, NEW e \in Entries, NewFile(t, e)
    PROVE  Inv'
<1> DEFINE h == fileEntryIndex
<1>1. h \in Handles /\ fileEntryVec[h] = NoEntry /\ pc[t] = "idle"
  BY FileCacheAssumption DEF Inv, TypeOK, NewFile, Handles
<1>2. fileEntryVec' = [fileEntryVec EXCEPT ![h] = e] /\ e # NoEntry
  BY FileCacheAssumption DEF NewFile, Entries
<1>3. IsScanStop(fileEntryVec', h, fileEntryIndex')
  BY <1>1, ScanStops DEF NewFile, Inv, TypeOK
<1>4. TypeOK'
  <2>1. fileRefer' \in [Ids -> Nat]
    BY DEF Inv, TypeOK, NewFile, AddRef, Entries
  <2>2. fileEntryIndex' \in 0 .. fileEntryVecSize
    BY <1>1, <1>3, FileCacheAssumption DEF IsScanStop, Handles
  <2> QED BY <1>1, <1>2, <2>1, <2>2 DEF Inv, TypeOK, NewFile
<1>5. IndexIsLeastFree'
  <2>1. \A j \in 0 .. h - 1 : fileEntryVec'[j] # NoEntry
    BY <1>1, <1>2, FileCacheAssumption DEF Inv, TypeOK, IndexIsLeastFree, IsScanStop, Handles
  <2> QED BY <1>3, <2>1, ScanExtends DEF IndexIsLeastFree, Inv, TypeOK
<1>6. ReferCountsHandles'
  <2> SUFFICES ASSUME NEW i \in Ids
               PROVE  fileRefer'[i] = Cardinality(CachedHandles(i)')
    BY DEF ReferCountsHandles
  <2>1. fileRefer[i] = Cardinality(CachedHandles(i)) /\ IsFiniteSet(CachedHandles(i))
    BY CachedHandlesFinite DEF Inv, ReferCountsHandles
  <2>2. CASE ~e.DirectIO /\ e.Id = i
    <3>1. CachedHandles(i)' = CachedHandles(i) \cup {h} /\ h \notin CachedHandles(i)
      BY <1>1, <1>2, <2>2 DEF CachedHandles, Inv, TypeOK
    <3>2. fileRefer'[i] = fileRefer[i] + 1
      BY <2>2 DEF NewFile, AddRef, Inv, TypeOK
    <3> QED BY <2>1, <3>1, <3>2, FS_AddElement
  <2>3. CASE e.DirectIO \/ e.Id # i
    <3>1. CachedHandles(i)' = CachedHandles(i)
      BY <1>1, <1>2, <2>3 DEF CachedHandles, Inv, TypeOK
    <3>2. fileRefer'[i] = fileRefer[i]
      BY <2>3 DEF NewFile, AddRef, Inv, TypeOK
    <3> QED BY <2>1, <3>1, <3>2
  <2> QED BY <2>2, <2>3
<1>a. \A u \in Threads : pc[u] # "idle" => fd[u] # h /\ u # t
  <2> SUFFICES ASSUME NEW u \in Threads, pc[u] # "idle" PROVE fd[u] # h
    BY <1>1
  <2>1. fileEntryVec[fd[u]] = entry[u] /\ entry[u] \in Entries
    BY DEF Inv, OwnEntryInTable, BusyInv
  <2> QED BY <1>1, <2>1, FileCacheAssumption DEF Entries
<1>b. /\ fd' = [fd EXCEPT ![t] = h] /\ entry' = [entry EXCEPT ![t] = e]
      /\ pc' = [pc EXCEPT ![t] = "opened"]
  BY DEF NewFile
<1>7. OwnEntryInTable' /\ BusyInv'
  <2>1. OwnEntryInTable'
    BY <1>1, <1>2, <1>a, <1>b DEF Inv, TypeOK, OwnEntryInTable
  <2>2. BusyInv'
    BY <1>1, <1>a, <1>b DEF Inv, TypeOK, BusyInv
  <2> QED BY <2>1, <2>2
<1>8. HandleNamesItsFile'
  BY <1>1, <1>2 DEF Inv, TypeOK, NewFile, HandleNamesItsFile
<1>9. SingleCacheCloser'
  BY <1>1 DEF Inv, TypeOK, NewFile, SingleCacheCloser
<1> QED BY <1>4, <1>5, <1>6, <1>7, <1>8, <1>9 DEF Inv

\* The remaining steps of Open and Close leave the table alone; a thread touches
\* only its own handle.
LEMMA OpenReturnInv ==
    ASSUME Inv, NEW t \in Threads, OpenReturn(t)
    PROVE  Inv'
<1>1. TypeOK' /\ fd[t] \in Handles /\ entry[t] \in Entries
  BY DEF Inv, TypeOK, OpenReturn, Return, OwnEntryInTable, BusyInv
<1>2. IndexIsLeastFree'
  BY DEF Inv, OpenReturn, IndexIsLeastFree, IsScanStop
<1>3. ReferCountsHandles'
  BY DEF Inv, OpenReturn, ReferCountsHandles, CachedHandles
<1>4. OwnEntryInTable'
  BY DEF Inv, TypeOK, OpenReturn, Return, OwnEntryInTable
<1>5. BusyInv'
  BY DEF Inv, TypeOK, OpenReturn, Return, BusyInv
<1>6. HandleNamesItsFile'
  BY DEF Inv, TypeOK, OpenReturn, Return, HandleNamesItsFile, OwnEntryInTable, BusyInv
<1>7. SingleCacheCloser'
  BY DEF Inv, TypeOK, OpenReturn, Return, SingleCacheCloser
<1> QED BY <1>1, <1>2, <1>3, <1>4, <1>5, <1>6, <1>7 DEF Inv

\* A failed rwCache.Close or rwCache.Flush gives the handle back as it was.
LEMMA RWCacheFailInv ==
    ASSUME Inv, NEW t \in Threads, RWCacheFail(t)
    PROVE  Inv'
<1>0. pc[t] # "idle"
  BY DEF RWCacheFail
<1>1. TypeOK' /\ fd[t] \in Handles /\ entry[t] \in Entries
  BY <1>0 DEF Inv, TypeOK, RWCacheFail, Return, OwnEntryInTable, BusyInv
<1>2. IndexIsLeastFree'
  BY DEF Inv, RWCacheFail, IndexIsLeastFree, IsScanStop
<1>3. ReferCountsHandles'
  BY DEF Inv, RWCacheFail, ReferCountsHandles, CachedHandles
<1>4. OwnEntryInTable'
  BY DEF Inv, TypeOK, RWCacheFail, Return, OwnEntryInTable
<1>5. BusyInv'
  BY DEF Inv, TypeOK, RWCacheFail, Return, BusyInv
<1>6. HandleNamesItsFile'
  BY <1>0 DEF Inv, TypeOK, RWCacheFail, Return, HandleNamesItsFile, OwnEntryInTable, BusyInv
<1>7. SingleCacheCloser'
  BY DEF Inv, TypeOK, RWCacheFail, Return, SingleCacheCloser
<1> QED BY <1>1, <1>2, <1>3, <1>4, <1>5, <1>6, <1>7 DEF Inv

\* A successful one only moves the thread on to CloseFile.
LEMMA RWCacheOkInv ==
    ASSUME Inv, NEW t \in Threads, RWCacheOk(t)
    PROVE  Inv'
<1>1. TypeOK'
  BY DEF Inv, TypeOK, RWCacheOk
<1>2. IndexIsLeastFree' /\ ReferCountsHandles'
  BY DEF Inv, RWCacheOk, IndexIsLeastFree, IsScanStop, ReferCountsHandles, CachedHandles
<1>3. OwnEntryInTable' /\ HandleNamesItsFile'
  BY DEF Inv, TypeOK, RWCacheOk, OwnEntryInTable, HandleNamesItsFile
<1>4. BusyInv' /\ SingleCacheCloser'
  BY DEF Inv, TypeOK, RWCacheOk, BusyInv, SingleCacheCloser
<1> QED BY <1>1, <1>2, <1>3, <1>4 DEF Inv

\* Close takes the handle from the application and reads its entry.
LEMMA CloseInv ==
    ASSUME Inv, NEW t \in Threads, NEW h \in Handles, Close(t, h)
    PROVE  Inv'
<1>1. TypeOK' /\ fileEntryVec[h] \in Entries /\ fileEntryVec[h] = live[h]
  BY DEF Inv, TypeOK, Close, HandleNamesItsFile
<1>2. IndexIsLeastFree' /\ ReferCountsHandles'
  BY DEF Inv, Close, IndexIsLeastFree, IsScanStop, ReferCountsHandles, CachedHandles
<1>3. OwnEntryInTable'
  BY DEF Inv, TypeOK, Close, OwnEntryInTable
<1>4. HandleNamesItsFile'
  BY <1>1 DEF Inv, TypeOK, Close, HandleNamesItsFile
<1>5. BusyInv'
  BY <1>1 DEF Inv, TypeOK, Close, BusyInv, HandleNamesItsFile
<1>6. SingleCacheCloser'
  BY DEF Inv, TypeOK, Close, SingleCacheCloser
<1> QED BY <1>1, <1>2, <1>3, <1>4, <1>5, <1>6 DEF Inv

\* The count is 1, so no other handle of the file uses the cache: nobody else
\* can be between its own IsLastRefer and its CloseFile.
LEMMA IsLastReferInv ==
    ASSUME Inv, NEW t \in Threads, IsLastRefer(t)
    PROVE  Inv'
<1>1. TypeOK'
  BY DEF Inv, TypeOK, IsLastRefer
<1>2. IndexIsLeastFree' /\ ReferCountsHandles'
  BY DEF Inv, IsLastRefer, IndexIsLeastFree, IsScanStop, ReferCountsHandles, CachedHandles
<1>3. OwnEntryInTable' /\ HandleNamesItsFile' /\ BusyInv'
  BY DEF Inv, TypeOK, IsLastRefer, OwnEntryInTable, HandleNamesItsFile, BusyInv
<1>4. SingleCacheCloser'
  <2>1. \A u \in Threads : u # t /\ pc[u] = "rwclose" /\ entry[u].Id = entry[t].Id
                           => ~LastRef(entry[t].Id)
    <3> SUFFICES ASSUME NEW u \in Threads, u # t, pc[u] = "rwclose",
                        entry[u].Id = entry[t].Id, LastRef(entry[t].Id)
                 PROVE  FALSE
      OBVIOUS
    <3> DEFINE S == CachedHandles(entry[t].Id)
    <3>1. entry[t].Id \in Ids /\ fd[t] # fd[u] /\ fd[t] \in S /\ fd[u] \in S
      BY FileCacheAssumption
      DEF Inv, IsLastRefer, OwnEntryInTable, BusyInv, CachedHandles, Entries
    <3>2. IsFiniteSet(S) /\ Cardinality(S) = 1
      BY <3>1, CachedHandlesFinite DEF Inv, ReferCountsHandles, LastRef
    <3> HIDE DEF S
    <3>3. {fd[t]} \in SUBSET S
      BY <3>1
    <3>4. Cardinality({fd[t]}) = 1
      BY FS_Singleton
    <3>5. S = {fd[t]}
      BY <3>2, <3>3, <3>4, FS_Subset
    <3> QED BY <3>1, <3>5
  <2> QED BY <2>1 DEF Inv, TypeOK, IsLastRefer, SingleCacheCloser
<1> QED BY <1>1, <1>2, <1>3, <1>4 DEF Inv

\* CloseFile frees the slot, and lowers the index when the slot is below it.
LEMMA CloseFileInv ==
    ASSUME Inv, NEW t \in Threads, CloseFile(t)
    PROVE  Inv'
<1> DEFINE h == fd[t]
           e == entry[t]
<1>1. h \in Handles /\ e \in Entries /\ fileEntryVec[h] = e /\ pc[t] = "closefile"
  BY DEF Inv, CloseFile, OwnEntryInTable, BusyInv
<1>2. /\ fileEntryVec' = [fileEntryVec EXCEPT ![h] = NoEntry]
      /\ fileEntryIndex' = IndexAfterClose(h)
      /\ pc' = [pc EXCEPT ![t] = "idle"] /\ live' = live
      /\ fd' = [fd EXCEPT ![t] = -1] /\ entry' = [entry EXCEPT ![t] = NoEntry]
  BY DEF CloseFile, Return
<1>3. TypeOK'
  <2>1. fileRefer' \in [Ids -> Nat]
    BY <1>1 DEF Inv, TypeOK, CloseFile, Unrefer, DelRef, Entries
  <2>2. fileEntryIndex' \in 0 .. fileEntryVecSize
    BY <1>1, <1>2, FileCacheAssumption DEF Inv, TypeOK, IndexAfterClose, Handles
  <2> QED BY <1>1, <1>2, <2>1, <2>2 DEF Inv, TypeOK
<1>4. IndexIsLeastFree'
  BY <1>1, <1>2, FileCacheAssumption
  DEF Inv, TypeOK, IndexIsLeastFree, IsScanStop, IndexAfterClose, Handles
<1>5. ReferCountsHandles'
  <2> SUFFICES ASSUME NEW i \in Ids
               PROVE  fileRefer'[i] = Cardinality(CachedHandles(i)')
    BY DEF ReferCountsHandles
  <2>1. fileRefer[i] = Cardinality(CachedHandles(i)) /\ IsFiniteSet(CachedHandles(i))
    BY CachedHandlesFinite DEF Inv, ReferCountsHandles
  <2>2. CASE ~e.DirectIO /\ e.Id = i
    <3>1. CachedHandles(i)' = CachedHandles(i) \ {h} /\ h \in CachedHandles(i)
      BY <1>1, <1>2, <2>2, FileCacheAssumption DEF CachedHandles, Inv, TypeOK, Entries
    <3>2. fileRefer'[i] = fileRefer[i] - 1
      BY <1>1, <2>2 DEF CloseFile, Unrefer, DelRef, Inv, TypeOK
    <3> QED BY <2>1, <3>1, <3>2, FS_RemoveElement
  <2>3. CASE e.DirectIO \/ e.Id # i
    <3>1. CachedHandles(i)' = CachedHandles(i)
      BY <1>1, <1>2, <2>3, FileCacheAssumption DEF CachedHandles, Inv, TypeOK, Entries
    <3>2. fileRefer'[i] = fileRefer[i]
      BY <1>1, <2>3 DEF CloseFile, Unrefer, DelRef, Inv, TypeOK
    <3> QED BY <2>1, <3>1, <3>2
  <2> QED BY <2>2, <2>3
<1>6. OwnEntryInTable'
  BY <1>1, <1>2 DEF Inv, TypeOK, OwnEntryInTable, BusyInv
<1>7. BusyInv'
  BY <1>1, <1>2 DEF Inv, TypeOK, BusyInv
<1>8. HandleNamesItsFile'
  BY <1>1, <1>2 DEF Inv, TypeOK, HandleNamesItsFile
<1>9. SingleCacheCloser'
  BY <1>1, <1>2 DEF Inv, TypeOK, SingleCacheCloser
<1> QED BY <1>3, <1>4, <1>5, <1>6, <1>7, <1>8, <1>9 DEF Inv

\* Every step of every thread preserves the invariant.
LEMMA NextInv == Inv /\ [Next]_vars => Inv'
<1> SUFFICES ASSUME Inv, [Next]_vars PROVE Inv'
  OBVIOUS
<1>1. CASE UNCHANGED vars
  BY <1>1 DEF Inv, vars, TypeOK, IndexIsLeastFree, IsScanStop, ReferCountsHandles,
       CachedHandles, OwnEntryInTable, HandleNamesItsFile, BusyInv, SingleCacheCloser
<1>2. CASE Next
  <2> PICK t \in Threads :
          \/ NewFileFull(t)
          \/ \E e \in Entries : NewFile(t, e)
          \/ OpenReturn(t)
          \/ \E h \in Handles : Close(t, h)
          \/ IsLastRefer(t) \/ RWCacheOk(t) \/ RWCacheFail(t) \/ CloseFile(t)
    BY <1>2 DEF Next
  <2>1. CASE NewFileFull(t)
    BY <2>1, <1>1 DEF NewFileFull
  <2>2. CASE \E e \in Entries : NewFile(t, e)
    BY <2>2, NewFileInv
  <2>3. CASE \E h \in Handles : Close(t, h)
    BY <2>3, CloseInv
  <2>4. CASE OpenReturn(t) \/ IsLastRefer(t) \/ RWCacheOk(t) \/ RWCacheFail(t) \/ CloseFile(t)
    BY <2>4, OpenReturnInv, IsLastReferInv, RWCacheOkInv, RWCacheFailInv, CloseFileInv
  <2> QED BY <2>1, <2>2, <2>3, <2>4
<1> QED BY <1>1, <1>2

-----------------------------------------------------------------------------
\* The invariant holds in every reachable state.
LEMMA InvHolds == Spec => []Inv
  BY InitInv, NextInv, PTL DEF Spec

\* The table, the counts and the locals of every thread keep their types.
THEOREM TypeCorrect == Spec => []TypeOK
<1>1. Inv => TypeOK
  BY DEF Inv
<1> QED BY <1>1, InvHolds, PTL

\* NewFile takes the lowest free handle and its panic (filecache.go:101) cannot
\* happen, whatever the size of the table and the order of opens and closes.
THEOREM LeastFreeHandle == Spec => []IndexIsLeastFree
<1>1. Inv => IndexIsLeastFree
  BY DEF Inv
<1> QED BY <1>1, InvHolds, PTL

\* fileRefer counts the handles that use the cache.
THEOREM ReferCount == Spec => []ReferCountsHandles
<1>1. Inv => ReferCountsHandles
  BY DEF Inv
<1> QED BY <1>1, InvHolds, PTL

\* A thread inside Open or Close finds its entry, and an application's handle
\* keeps naming the file it was opened for.
THEOREM HandlesStable == Spec => []HandlesOwned
<1>1. Inv => HandlesOwned
  BY DEF Inv, HandlesOwned
<1> QED BY <1>1, InvHolds, PTL

\* Two threads never run rwCache.Close for one file at the same time.
THEOREM OneCacheCloser == Spec => []SingleCacheCloser
<1>1. Inv => SingleCacheCloser
  BY DEF Inv
<1> QED BY <1>1, InvHolds, PTL
=============================================================================
