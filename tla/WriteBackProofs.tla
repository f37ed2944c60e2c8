--------------------------- MODULE WriteBackProofs ---------------------------
(***************************************************************************)
(* What the promise of the write cache is worth: in every behaviour that   *)
(* WriteBack allows, and so in every behaviour of a cache that keeps the   *)
(* promise, for any files, blocks, clients and versions.                   *)
(***************************************************************************)
EXTENDS WriteBack, TLAPS

Assumption == Versions \subseteq Nat /\ NoFile \notin Files

\* A Flush that runs or has ended is one of a file.
FlushHasFile == \A c \in Clients : flush[c].state # "none" => flush[c].file \in Files

IInv == AbstractTypeOK /\ ReadsSeeAcked /\ ServerBehind /\ FlushHasFile /\ FlushedIsStored

-----------------------------------------------------------------------------
(* Contents *)

\* Cells taken from a content give a content.
LEMMA TakenType ==
    ASSUME NEW u \in BlockContent, NEW w \in BlockContent, NEW S
    PROVE  Taken(u, w, S) \in BlockContent
BY DEF Taken, BlockContent

\* A block with cells taken from a block that is at least as new.
LEMMA TakenNewer ==
    ASSUME NEW u \in BlockContent, NEW w \in BlockContent, NEW S,
           \A i \in Cells : w[i] >= u[i]
    PROVE  \A i \in Cells : w[i] >= Taken(u, w, S)[i] /\ Taken(u, w, S)[i] >= u[i]
BY DEF Taken, BlockContent

\* AtLeast is transitive.
LEMMA AtLeastTransitive ==
    ASSUME NEW u \in FileContent, NEW v \in FileContent, NEW w \in FileContent,
           AtLeast(u, v), AtLeast(v, w)
    PROVE  AtLeast(u, w)
BY DEF AtLeast, FileContent, BlockContent

\* AtLeast is reflexive.
LEMMA AtLeastReflexive == ASSUME NEW u \in FileContent PROVE AtLeast(u, u)
BY DEF AtLeast, FileContent, BlockContent

LEMMA EmptyType == Empty \in FileContent
BY DEF Empty, FileContent, BlockContent

-----------------------------------------------------------------------------
(* Initial states *)

LEMMA InitIInv == ASSUME AbstractInit PROVE IInv
<1>1. AbstractTypeOK
  BY EmptyType DEF AbstractInit, AbstractTypeOK, NoFlush, FlushType
<1>2. ReadsSeeAcked /\ ServerBehind
  BY EmptyType, AtLeastReflexive DEF AbstractInit, ReadsSeeAcked, ServerBehind
<1>3. FlushHasFile /\ FlushedIsStored
  BY DEF AbstractInit, FlushHasFile, FlushedIsStored, Achieved, NoFlush
<1>4. QED
  BY <1>1, <1>2, <1>3 DEF IInv

-----------------------------------------------------------------------------
(* Flush calls while the server catches up *)

\* If the server only gets newer and nothing comes back, no Flush that has
\* succeeded becomes false.
LEMMA FlushStays ==
    ASSUME IInv, UNCHANGED <<gone, flush>>, stored' \in [Files -> FileContent],
           \A f \in Files : AtLeast(stored'[f], stored[f])
    PROVE  FlushHasFile' /\ FlushedIsStored'
<1>1. FlushHasFile'
  BY DEF IInv, FlushHasFile
<1>2. ASSUME NEW c \in Clients, flush[c].state = "ok", ~gone[flush[c].file]
      PROVE  AtLeast(stored'[flush[c].file], flush[c].need)
  <2>1. flush[c].file \in Files /\ flush[c].need \in FileContent
    BY <1>2 DEF IInv, FlushHasFile, AbstractTypeOK, FlushType
  <2>2. AtLeast(stored[flush[c].file], flush[c].need)
    BY <1>2 DEF IInv, FlushedIsStored, Achieved
  <2>3. QED
    BY <2>1, <2>2, AtLeastTransitive DEF IInv, AbstractTypeOK
<1>3. QED
  BY <1>1, <1>2 DEF FlushedIsStored, Achieved

\* One block of a content that a step replaces.
LEMMA BlockType ==
    ASSUME NEW h \in [Files -> FileContent], NEW f \in Files, NEW x \in Blocks,
           NEW u \in BlockContent
    PROVE  [h EXCEPT ![f][x] = u] \in [Files -> FileContent]
BY DEF FileContent

LEMMA BlockAtLeast ==
    ASSUME NEW g \in [Files -> FileContent], NEW h \in [Files -> FileContent],
           NEW f \in Files, NEW x \in Blocks, NEW u \in BlockContent, NEW w \in BlockContent,
           \A e \in Files : AtLeast(g[e], h[e]), \A i \in Cells : u[i] >= w[i]
    PROVE  \A e \in Files : AtLeast([g EXCEPT ![f][x] = u][e], [h EXCEPT ![f][x] = w][e])
BY DEF FileContent, BlockContent, AtLeast

\* Replacing a block by what is already there changes nothing.
LEMMA BlockSame ==
    ASSUME NEW h \in [Files -> FileContent], NEW f \in Files, NEW x \in Blocks
    PROVE  [h EXCEPT ![f][x] = h[f][x]] = h
BY DEF FileContent

-----------------------------------------------------------------------------
(* Steps *)

LEMMA WriteKeeps ==
    ASSUME Assumption, IInv, NEW f \in Files, NEW x \in Blocks, NEW S \in SUBSET Cells,
           NEW v \in Versions, Write(f, x, S, v)
    PROVE  IInv'
<1> DEFINE new == [i \in Cells |-> IF i \in S THEN v ELSE view[f][x][i]]
<1>1. /\ view \in [Files -> FileContent] /\ stored \in [Files -> FileContent]
      /\ acked \in [Files -> FileContent] /\ v \in Nat
  BY DEF IInv, AbstractTypeOK, Assumption
<1>2. /\ view[f][x] \in BlockContent /\ stored[f][x] \in BlockContent
      /\ acked[f][x] \in BlockContent
  BY <1>1 DEF FileContent
<1>3. \A i \in Cells : view[f][x][i] < v
  BY DEF Write
<1>4. new \in BlockContent
  BY <1>1, <1>2 DEF BlockContent
<1>5. \A i \in Cells : /\ new[i] >= view[f][x][i]
                       /\ view[f][x][i] >= stored[f][x][i] /\ view[f][x][i] >= acked[f][x][i]
  BY <1>1, <1>2, <1>3 DEF BlockContent, IInv, ReadsSeeAcked, ServerBehind, AtLeast
<1>6. \A i \in Cells : new[i] >= stored[f][x][i] /\ new[i] >= acked[f][x][i]
  BY <1>2, <1>4, <1>5 DEF BlockContent
<1> HIDE DEF new
<1>7. PICK s \in {stored[f][x], Taken(stored[f][x], new, S)} : stored' = [stored EXCEPT ![f][x] = s]
  BY <1>1, BlockSame DEF Write, new
<1>8. PICK a \in {acked[f][x], Taken(acked[f][x], new, S)} : acked' = [acked EXCEPT ![f][x] = a]
  BY <1>1, BlockSame DEF Write, new
<1>9. view' = [view EXCEPT ![f][x] = new] /\ UNCHANGED <<gone, flush>>
  BY DEF Write, new
<1>10. s \in BlockContent /\ a \in BlockContent
  BY <1>2, <1>4, <1>7, <1>8, TakenType
<1>11. \A i \in Cells : new[i] >= s[i] /\ s[i] >= stored[f][x][i]
  <2>1. CASE s = stored[f][x]
    BY <2>1, <1>2, <1>6 DEF BlockContent
  <2>2. CASE s = Taken(stored[f][x], new, S)
    BY <2>2, <1>2, <1>4, <1>6, TakenNewer
  <2>3. QED
    BY <2>1, <2>2, <1>7
<1>12. \A i \in Cells : new[i] >= a[i]
  <2>1. CASE a = acked[f][x]
    BY <2>1, <1>2, <1>6 DEF BlockContent
  <2>2. CASE a = Taken(acked[f][x], new, S)
    BY <2>2, <1>2, <1>4, <1>6, TakenNewer
  <2>3. QED
    BY <2>1, <2>2, <1>8
<1>13. AbstractTypeOK'
  BY <1>1, <1>4, <1>7, <1>8, <1>9, <1>10, BlockType DEF IInv, AbstractTypeOK
<1>14. ServerBehind'
  BY <1>1, <1>4, <1>7, <1>9, <1>10, <1>11, BlockAtLeast DEF IInv, ServerBehind
<1>15. ReadsSeeAcked'
  BY <1>1, <1>4, <1>8, <1>9, <1>10, <1>12, BlockAtLeast DEF IInv, ReadsSeeAcked
<1>16. \A e \in Files : AtLeast(stored'[e], stored[e])
  <2>1. \A e \in Files : AtLeast(stored[e], stored[e])
    BY <1>1, AtLeastReflexive
  <2>2. \A e \in Files : AtLeast([stored EXCEPT ![f][x] = s][e],
                                 [stored EXCEPT ![f][x] = stored[f][x]][e])
    BY <2>1, <1>1, <1>2, <1>10, <1>11, BlockAtLeast
  <2>3. QED
    BY <2>2, <1>1, <1>7, BlockSame
<1>17. stored' \in [Files -> FileContent]
  BY <1>13 DEF AbstractTypeOK
<1>18. FlushHasFile' /\ FlushedIsStored'
  BY <1>9, <1>16, <1>17, FlushStays
<1>19. QED
  BY <1>13, <1>14, <1>15, <1>18 DEF IInv

LEMMA AcknowledgeKeeps ==
    ASSUME IInv, NEW f \in Files, NEW x \in Blocks, NEW S \in SUBSET Cells,
           Acknowledge(f, x, S)
    PROVE  IInv'
<1> DEFINE a == Taken(acked[f][x], view[f][x], S)
<1>1. view \in [Files -> FileContent] /\ acked \in [Files -> FileContent]
  BY DEF IInv, AbstractTypeOK
<1>2. view[f][x] \in BlockContent /\ acked[f][x] \in BlockContent
  BY <1>1 DEF FileContent
<1>3. \A i \in Cells : view[f][x][i] >= acked[f][x][i]
  BY DEF IInv, ReadsSeeAcked, AtLeast
<1>4. a \in BlockContent /\ \A i \in Cells : view[f][x][i] >= a[i]
  BY <1>2, <1>3, TakenType, TakenNewer
<1>5. acked' = [acked EXCEPT ![f][x] = a] /\ UNCHANGED <<view, stored, gone, flush>>
  BY DEF Acknowledge
<1> HIDE DEF a
<1>6. AbstractTypeOK'
  BY <1>1, <1>4, <1>5, BlockType DEF IInv, AbstractTypeOK
<1>7. \A e \in Files : AtLeast([view EXCEPT ![f][x] = view[f][x]][e], [acked EXCEPT ![f][x] = a][e])
  BY <1>1, <1>2, <1>4, BlockAtLeast DEF IInv, ReadsSeeAcked
<1>8. ReadsSeeAcked'
  BY <1>1, <1>5, <1>7, BlockSame DEF ReadsSeeAcked
<1>9. ServerBehind' /\ FlushHasFile' /\ FlushedIsStored'
  BY <1>5 DEF IInv, ServerBehind, FlushHasFile, FlushedIsStored, Achieved
<1>10. QED
  BY <1>6, <1>8, <1>9 DEF IInv

LEMMA StoreKeeps ==
    ASSUME IInv, NEW f \in Files, NEW x \in Blocks, NEW S \in SUBSET Cells, Store(f, x, S)
    PROVE  IInv'
<1> DEFINE s == Taken(stored[f][x], view[f][x], S)
<1>1. view \in [Files -> FileContent] /\ stored \in [Files -> FileContent]
  BY DEF IInv, AbstractTypeOK
<1>2. view[f][x] \in BlockContent /\ stored[f][x] \in BlockContent
  BY <1>1 DEF FileContent
<1>3. \A i \in Cells : view[f][x][i] >= stored[f][x][i]
  BY DEF IInv, ServerBehind, AtLeast
<1>4. s \in BlockContent /\ \A i \in Cells : view[f][x][i] >= s[i] /\ s[i] >= stored[f][x][i]
  BY <1>2, <1>3, TakenType, TakenNewer
<1>5. stored' = [stored EXCEPT ![f][x] = s] /\ UNCHANGED <<view, acked, gone, flush>>
  BY DEF Store
<1> HIDE DEF s
<1>6. AbstractTypeOK'
  BY <1>1, <1>4, <1>5, BlockType DEF IInv, AbstractTypeOK
<1>7. ServerBehind'
  <2>1. \A e \in Files : AtLeast([view EXCEPT ![f][x] = view[f][x]][e], [stored EXCEPT ![f][x] = s][e])
    BY <1>1, <1>2, <1>4, BlockAtLeast DEF IInv, ServerBehind
  <2>2. QED
    BY <2>1, <1>1, <1>5, BlockSame DEF ServerBehind
<1>8. \A e \in Files : AtLeast(stored'[e], stored[e])
  <2>1. \A e \in Files : AtLeast(stored[e], stored[e])
    BY <1>1, AtLeastReflexive
  <2>2. \A e \in Files : AtLeast([stored EXCEPT ![f][x] = s][e],
                                 [stored EXCEPT ![f][x] = stored[f][x]][e])
    BY <2>1, <1>1, <1>2, <1>4, BlockAtLeast
  <2>3. QED
    BY <2>2, <1>1, <1>5, BlockSame
<1>9. stored' \in [Files -> FileContent]
  BY <1>6 DEF AbstractTypeOK
<1>10. FlushHasFile' /\ FlushedIsStored'
  BY <1>5, <1>8, <1>9, FlushStays
<1>11. ReadsSeeAcked'
  BY <1>5 DEF IInv, ReadsSeeAcked
<1>12. QED
  BY <1>6, <1>7, <1>10, <1>11 DEF IInv

LEMMA FlushStepKeeps ==
    ASSUME IInv, NEW c \in Clients, FlushStep(c)
    PROVE  IInv'
<1>1. UNCHANGED <<view, stored, acked, gone>>
  BY DEF FlushStep, FlushBegin, FlushEnd, FlushReturn
<1>2. ReadsSeeAcked' /\ ServerBehind'
  BY <1>1 DEF IInv, ReadsSeeAcked, ServerBehind
<1>3. PICK q \in FlushType :
         /\ flush' = [flush EXCEPT ![c] = q]
         /\ Achieved(q)
         /\ q.state # "none" => q.file \in Files
  <2>1. CASE \E f \in Files : FlushBegin(c, f)
    <3>1. PICK f \in Files : FlushBegin(c, f)
      BY <2>1
    <3>2. PICK s \in {"running", "ok"} :
             LET q == [state |-> s, file |-> f, need |-> acked[f]]
             IN  Achieved(q) /\ flush' = [flush EXCEPT ![c] = q]
      BY <3>1 DEF FlushBegin
    <3>3. acked[f] \in FileContent
      BY DEF IInv, AbstractTypeOK
    <3>4. [state |-> s, file |-> f, need |-> acked[f]] \in FlushType
      BY <3>3 DEF FlushType
    <3>5. QED
      BY <3>2, <3>4
  <2>2. CASE FlushEnd(c)
    <3>1. flush[c] \in FlushType /\ flush[c].file \in Files
      BY <2>2 DEF IInv, AbstractTypeOK, FlushHasFile, FlushEnd
    <3>2. PICK s \in {"ok", "failed"} :
             LET q == [flush[c] EXCEPT !.state = s]
             IN  Achieved(q) /\ flush' = [flush EXCEPT ![c] = q]
      BY <2>2 DEF FlushEnd
    <3>3. /\ [flush[c] EXCEPT !.state = s] \in FlushType
          /\ [flush[c] EXCEPT !.state = s].file \in Files
      BY <3>1 DEF FlushType
    <3>4. QED
      BY <3>2, <3>3
  <2>3. CASE FlushReturn(c)
    <3>1. NoFlush \in FlushType /\ NoFlush.state = "none"
      BY EmptyType DEF NoFlush, FlushType
    <3>2. QED
      BY <2>3, <3>1 DEF FlushReturn, Achieved
  <2>4. QED
    BY <2>1, <2>2, <2>3 DEF FlushStep
<1>4. AbstractTypeOK'
  BY <1>1, <1>3 DEF IInv, AbstractTypeOK
<1>5. FlushHasFile' /\ FlushedIsStored'
  BY <1>1, <1>3 DEF IInv, FlushHasFile, FlushedIsStored, Achieved, AbstractTypeOK
<1>6. QED
  BY <1>2, <1>4, <1>5 DEF IInv

LEMMA RemoveKeeps ==
    ASSUME IInv, NEW f \in Files, Remove(f)
    PROVE  IInv'
<1>1. AbstractTypeOK'
  BY EmptyType DEF IInv, AbstractTypeOK, FlushType, Remove
<1>2. ReadsSeeAcked' /\ ServerBehind'
  BY EmptyType, AtLeastReflexive DEF IInv, AbstractTypeOK, ReadsSeeAcked, ServerBehind, Remove
<1>3. ASSUME NEW c \in Clients
      PROVE  /\ flush'[c].state = flush[c].state /\ flush'[c].file = flush[c].file
             /\ flush[c].file # f => flush'[c] = flush[c]
  BY DEF IInv, AbstractTypeOK, FlushType, Remove
<1>4. FlushHasFile'
  BY <1>3 DEF IInv, FlushHasFile
<1>5. ASSUME NEW c \in Clients, flush'[c].state = "ok" 
      PROVE  gone'[flush'[c].file] \/ AtLeast(stored'[flush'[c].file], flush'[c].need)
  <2>1. flush[c].state = "ok" /\ flush[c].file \in Files
    BY <1>3, <1>5 DEF IInv, FlushHasFile
  <2>2. CASE flush[c].file = f
    BY <2>2, <1>3 DEF IInv, AbstractTypeOK, Remove
  <2>3. CASE flush[c].file # f
    <3>1. flush'[c] = flush[c]
      BY <2>3, <1>3
    <3>2. gone'[flush[c].file] = gone[flush[c].file] /\ stored'[flush[c].file] = stored[flush[c].file]
      BY <2>1, <2>3 DEF IInv, AbstractTypeOK, Remove
    <3>3. gone[flush[c].file] \/ AtLeast(stored[flush[c].file], flush[c].need)
      BY <2>1 DEF IInv, FlushedIsStored, Achieved
    <3>4. QED
      BY <3>1, <3>2, <3>3
  <2>4. QED
    BY <2>2, <2>3
<1>6. FlushedIsStored'
  BY <1>5 DEF FlushedIsStored, Achieved
<1>7. QED
  BY <1>1, <1>2, <1>4, <1>6 DEF IInv

LEMMA NextKeeps == ASSUME Assumption, IInv, [AbstractNext]_abstractVars PROVE IInv'
<1>1. CASE \E f \in Files, x \in Blocks, S \in SUBSET Cells : BlockStep(f, x, S)
  BY <1>1, WriteKeeps, AcknowledgeKeeps, StoreKeeps DEF BlockStep
<1>2. CASE \E c \in Clients : FlushStep(c)
  BY <1>2, FlushStepKeeps
<1>3. CASE \E f \in Files : Remove(f)
  BY <1>3, RemoveKeeps
<1>4. CASE UNCHANGED abstractVars
  BY <1>4 DEF abstractVars, IInv, AbstractTypeOK, ReadsSeeAcked, ServerBehind, FlushHasFile,
     FlushedIsStored, Achieved
<1>5. QED
  BY <1>1, <1>2, <1>3, <1>4 DEF AbstractNext

\* In every behaviour of the abstract cache the strengthened invariant holds.
THEOREM PromiseInvariant == ASSUME Assumption PROVE AbstractSpec => []IInv
BY InitIInv, NextKeeps, PTL DEF AbstractSpec

\* A cache that keeps the promise never lets a read miss a Write that was reported
\* as successful (RWCache.Read over WCache.Write).
THEOREM ReadYourWrites == ASSUME Assumption PROVE AbstractSpec => []ReadsSeeAcked
<1>1. IInv => ReadsSeeAcked
  BY DEF IInv
<1>2. QED
  BY <1>1, PromiseInvariant, PTL

\* It never has newer data on the server than its readers see.
THEOREM ServerNeverAhead == ASSUME Assumption PROVE AbstractSpec => []ServerBehind
<1>1. IInv => ServerBehind
  BY DEF IInv
<1>2. QED
  BY <1>1, PromiseInvariant, PTL

\* And a Flush that it reported as successful left everything acknowledged before
\* it on the server, for as long as the file is there.
THEOREM FlushIsDurable == ASSUME Assumption PROVE AbstractSpec => []FlushedIsStored
<1>1. IInv => FlushedIsStored
  BY DEF IInv
<1>2. QED
  BY <1>1, PromiseInvariant, PTL
=============================================================================
