----------------------------- MODULE StatProofs -----------------------------
(***************************************************************************)
(* Proofs about the dentry cache and about what Stat and Fstat report, for *)
(* any tree of paths, any cache size and any number of callers, listings,  *)
(* changes and Writes.                                                     *)
(***************************************************************************)
EXTENDS Stat, WellFoundedInduction, TLAPS

-----------------------------------------------------------------------------
(* The inductive invariant *)

\* The locals l of goroutine t at position c.
LocOK(t, c, l) ==
    /\ c = "idle" \/ t \in Listers => l = NoLoc
    /\ t \in Listers => c \in {"idle", "set"}
    /\ t \in Threads /\ c \in {"stat", "size", "lock", "again", "set"} =>
          l.call \in {"stat", "fstat"} /\ l.p \in Paths
    /\ c \in {"size", "lock", "wclean"} \/ l.call = "fstat" => l.p \in Files
    /\ c \in {"wclean", "clean", "clean2"} =>
          l.d = NoDentry /\ l.p \in Paths /\ l.call \notin {"none", "stat", "fstat"}
    /\ l.call \in {"link", "rename"} => l.q \in Paths
    /\ c = "clean2" => l.call = "rename"

\* How far the versions and the blocks have come.
CountOK(c, l) ==
    /\ c = "wclean" => l.v <= tail[l.p]
    /\ c \in {"clean", "clean2"} =>
          /\ l.v \in 1 .. ver /\ \A p \in Named(l) : l.v <= attr[p].ver
          /\ l.call = "create" => \A p \in Entered(l) : l.v <= attr[p].ent
CountInv ==
    /\ \A f \in Files : tail[f] < ver /\ written[f] <= tail[f]
    /\ \A p \in Paths : attr[p].ver \in 1 .. ver /\ done[p] <= attr[p].ver
    /\ \A p \in Paths : attr[p].ent \in 1 .. ver /\ made[p] <= attr[p].ent

\* A block that was written is on the server or in the write cache.
BlockInv == \A f \in Files : \A n \in 1 .. tail[f] : n <= size[f] \/ n \in wbuf[f]

\* What Fstat knows of the size it has to report.
FstatOK(c, l) ==
    l.call = "fstat" =>
        /\ c # "again" /\ l.snap <= written[l.p]
        /\ c = "lock" => /\ l.idx <= size[l.p] \/ l.idx \in wbuf[l.p]
                         /\ l.snap <= size[l.p] \/ l.snap <= l.idx
        /\ c = "stat" => l.snap <= size[l.p] \/ l.snap <= l.cs
        /\ c = "set"  => l.snap <= l.d.size

\* Call t has changed p since version n, and will clean it.
Pending(t, p, n) ==
    /\ n < loc[t].v
    /\ \/ pc[t] = "clean" /\ p \in Named(loc[t]) /\ (p \in Cleaned(loc[t]) \/ loc[t].call = "rename")
       \/ pc[t] = "clean2" /\ p = loc[t].q

\* The answer d for p is up to date, or a call that will clean it is under way, or
\* it was overtaken; and it knows of what the calls that returned have made in p.
Current(d, p) ==
    /\ d.ver <= attr[p].ver
    /\ \/ d.over \/ d.ver = 0
       \/ d.ver = attr[p].ver /\ attr[p].there
       \/ \E t \in Threads : Pending(t, p, d.ver)
    /\ d.over \/ d.ver = 0 \/ made[p] <= d.ent

\* Every answer in the cache or on its way to it.
AnswerOK(c, l) ==
    /\ l.p \in Paths => Current(l.d, l.p)
    /\ c = "set" \/ (c \in {"size", "lock"} /\ l.call = "stat") => l.d.ver > 0
EntryOK(n) == n.Value.ver > 0 /\ Current(n.Value, n.Key)
CacheInv == \A i \in DOMAIN dlist : EntryOK(dlist[i])
PageInv  == \A l \in Listers, p \in Paths : Current(page[l][p], p)

ProcInv ==
    /\ \A t \in Procs : LocOK(t, pc[t], loc[t]) /\ CountOK(pc[t], loc[t])
    /\ \A t \in Threads : FstatOK(pc[t], loc[t]) /\ AnswerOK(pc[t], loc[t])

Inv == TypeOK /\ LRUConsistent /\ CountInv /\ BlockInv /\ ProcInv /\ CacheInv /\ PageInv

-----------------------------------------------------------------------------
(* The list and the map *)

Nodes  == [Key : Paths, Value : Dentry, expired : BOOLEAN]
LRUInv == dlist \in Seq(Nodes) /\ cacheMap \subseteq Paths /\ LRUConsistent

\* Every element of the new list is an old one or n.
Comes(n) == \A j \in DOMAIN dlist' : dlist'[j] = n \/ \E i \in DOMAIN dlist : dlist'[j] = dlist[i]

\* The list as a function, and the map as the set of its keys.
LEMMA ListFacts ==
    ASSUME LRUInv
    PROVE  /\ Len(dlist) \in Nat /\ DOMAIN dlist = 1 .. Len(dlist) /\ Len(dlist) <= Capacity
           /\ \A i \in DOMAIN dlist : dlist[i] \in Nodes /\ dlist[i].Key \in cacheMap
           /\ \A k \in cacheMap : \E i \in DOMAIN dlist : dlist[i].Key = k
           /\ \A i, j \in DOMAIN dlist : dlist[i].Key = dlist[j].Key => i = j
  BY DEF LRUInv, LRUConsistent

\* The element of a key of the map.
LEMMA ElemFacts ==
    ASSUME LRUInv, NEW k \in cacheMap
    PROVE  Elem(k) \in DOMAIN dlist /\ dlist[Elem(k)].Key = k /\ Node(k) \in Nodes
<1>1. \E i \in DOMAIN dlist : dlist[i].Key = k
  BY ListFacts
<1>2. Elem(k) \in DOMAIN dlist /\ dlist[Elem(k)].Key = k
  BY <1>1 DEF Elem
<1> QED BY <1>2, ListFacts DEF Node

\* An element that moves to the front, perhaps with a new value, keeps its key.
LEMMA MoveKeeps ==
    ASSUME LRUInv, NEW i \in DOMAIN dlist, NEW n \in Nodes, n.Key = dlist[i].Key,
           dlist' = MoveToFront(i, n), cacheMap' = cacheMap
    PROVE  LRUInv' /\ Comes(n)
<1> DEFINE L == Len(dlist)
<1>0. L \in Nat /\ DOMAIN dlist = 1 .. L /\ i \in 1 .. L /\ L <= Capacity
  BY ListFacts
<1>1. /\ DOMAIN dlist' = 1 .. L
      /\ \A j \in 1 .. L : dlist'[j] = IF j = 1 THEN n ELSE IF j <= i THEN dlist[j - 1] ELSE dlist[j]
  BY <1>0 DEF MoveToFront
<1>2. \A j \in 1 .. L : dlist'[j] \in Nodes
  <2> TAKE j \in 1 .. L
  <2>1. j = 1 \/ j - 1 \in 1 .. L
    BY <1>0
  <2>2. dlist'[j] \in {n, dlist[j]} \/ (j # 1 /\ dlist'[j] = dlist[j - 1])
    BY <1>1
  <2> QED BY <1>0, <2>1, <2>2, ListFacts
<1>3. dlist' \in Seq(Nodes) /\ Len(dlist') = L
  <2>1. dlist' = [j \in 1 .. L |-> dlist'[j]]
    BY <1>0 DEF MoveToFront
  <2>2. dlist' \in [1 .. L -> Nodes]
    BY <1>2, <2>1
  <2> QED BY <1>0, <2>2
<1>4. Comes(n)
  BY <1>0, <1>1 DEF Comes
<1> DEFINE src(j) == IF j = 1 THEN i ELSE IF j <= i THEN j - 1 ELSE j
<1>5. \A j \in 1 .. L : src(j) \in 1 .. L /\ dlist'[j].Key = dlist[src(j)].Key
  BY <1>0, <1>1
<1>6. \A j, h \in 1 .. L : src(j) = src(h) => j = h
  BY <1>0
<1>7. \A j \in 1 .. L : \E h \in 1 .. L : src(h) = j
  <2> TAKE j \in 1 .. L
  <2>1. CASE j = i
    BY <1>0, <2>1
  <2>2. CASE j < i
    <3>1. j + 1 \in 1 .. L /\ src(j + 1) = j
      BY <1>0, <2>2
    <3> QED BY <3>1
  <2>3. CASE j > i
    BY <1>0, <2>3
  <2> QED BY <1>0, <2>1, <2>2, <2>3
<1> HIDE DEF src
<1>8. \A j, h \in 1 .. L : dlist'[j].Key = dlist'[h].Key => j = h
  BY <1>0, <1>5, <1>6, ListFacts
<1>9. cacheMap = {dlist'[j].Key : j \in DOMAIN dlist'}
  <2>1. ASSUME NEW j \in 1 .. L PROVE dlist'[j].Key \in cacheMap
    BY <1>0, <1>5, ListFacts
  <2>2. ASSUME NEW x \in cacheMap PROVE \E j \in 1 .. L : dlist'[j].Key = x
    <3>1. PICK i0 \in 1 .. L : dlist[i0].Key = x
      BY <1>0, ListFacts
    <3>2. PICK h \in 1 .. L : src(h) = i0
      BY <1>7
    <3> QED BY <1>5, <3>1, <3>2
  <2> QED BY <1>1, <2>1, <2>2
<1> QED BY <1>0, <1>1, <1>3, <1>4, <1>8, <1>9 DEF LRUInv, LRUConsistent

\* A new key, and the last element that goes for it.
LEMMA InsertKeeps ==
    ASSUME LRUInv, NEW k \in Paths, NEW v \in Dentry, k \notin cacheMap, Capacity # 0, Insert(k, v)
    PROVE  LRUInv' /\ Comes(NewNode(k, v))
<1> DEFINE L == Len(dlist)
           n == NewNode(k, v)
           l == <<n>> \o dlist
<1>0. L \in Nat /\ DOMAIN dlist = 1 .. L /\ L <= Capacity /\ Capacity \in Nat /\ dlist \in Seq(Nodes)
  BY ListFacts, LRUCacheAssumption DEF LRUInv
<1>1. n \in Nodes /\ n.Key = k
  BY DEF NewNode, Nodes
<1>2. /\ l \in Seq(Nodes) /\ Len(l) = L + 1 /\ DOMAIN l = 1 .. L + 1 /\ l[1] = n
      /\ \A j \in 2 .. L + 1 : l[j] = dlist[j - 1]
  <2> HIDE DEF n
  <2> QED BY <1>0, <1>1
<1>3. \A j, h \in 1 .. L + 1 : l[j].Key = l[h].Key => j = h
  <2> SUFFICES ASSUME NEW j \in 1 .. L + 1, NEW h \in 1 .. L + 1, l[j].Key = l[h].Key
               PROVE  j = h
    OBVIOUS
  <2>1. \A m \in 2 .. L + 1 : m - 1 \in DOMAIN dlist /\ l[m] = dlist[m - 1] /\ l[m].Key # k
    BY <1>0, <1>2, ListFacts
  <2>2. CASE j = 1 \/ h = 1
    BY <1>0, <1>1, <1>2, <2>1, <2>2
  <2>3. CASE j # 1 /\ h # 1
    <3>1. j \in 2 .. L + 1 /\ h \in 2 .. L + 1
      BY <1>0, <2>3
    <3>2. dlist[j - 1].Key = dlist[h - 1].Key /\ j - 1 \in DOMAIN dlist /\ h - 1 \in DOMAIN dlist
      BY <2>1, <3>1
    <3>3. j - 1 = h - 1
      BY <3>2, ListFacts
    <3> QED BY <3>1, <3>3
  <2> QED BY <2>2, <2>3
<1>4. cacheMap \cup {k} = {l[j].Key : j \in 1 .. L + 1}
  <2>1. ASSUME NEW j \in 1 .. L + 1 PROVE l[j].Key \in cacheMap \cup {k}
    BY <1>0, <1>1, <1>2, ListFacts
  <2>2. ASSUME NEW x \in cacheMap PROVE \E j \in 1 .. L + 1 : l[j].Key = x
    <3>1. PICK i \in DOMAIN dlist : dlist[i].Key = x
      BY ListFacts
    <3>2. i + 1 \in 2 .. L + 1 /\ l[i + 1] = dlist[i]
      BY <1>0, <1>2
    <3> QED BY <3>1, <3>2
  <2>3. \E j \in 1 .. L + 1 : l[j].Key = k
    BY <1>0, <1>1, <1>2
  <2> HIDE DEF l
  <2> QED BY <2>1, <2>2, <2>3
<1>5. Insert(k, v) <=> IF Len(l) > Capacity
                       THEN dlist' = SubSeq(l, 1, Len(l) - 1) /\ cacheMap' = (cacheMap \cup {k}) \ {l[Len(l)].Key}
                       ELSE dlist' = l /\ cacheMap' = cacheMap \cup {k}
  BY DEF Insert
<1>6. \A j \in 1 .. L + 1 : l[j] = n \/ \E i \in DOMAIN dlist : l[j] = dlist[i]
  BY <1>0, <1>2
<1> HIDE DEF l, n
<1>7. CASE Len(l) > Capacity
  <2>1. dlist' = SubSeq(l, 1, L) /\ cacheMap' = (cacheMap \cup {k}) \ {l[L + 1].Key}
    BY <1>0, <1>2, <1>5, <1>7
  <2>2. dlist' \in Seq(Nodes) /\ Len(dlist') = L /\ DOMAIN dlist' = 1 .. L /\ \A j \in 1 .. L : dlist'[j] = l[j]
    BY <1>0, <1>2, <2>1
  <2>3. cacheMap' = {dlist'[j].Key : j \in DOMAIN dlist'}
    <3>1. \A j \in 1 .. L : j \in 1 .. L + 1 /\ j # L + 1 /\ L + 1 \in 1 .. L + 1
      BY <1>0
    <3>2. \A j \in 1 .. L + 1 : j \in 1 .. L \/ j = L + 1
      BY <1>0
    <3>3. ASSUME NEW j \in 1 .. L PROVE dlist'[j].Key \in cacheMap'
      BY <1>3, <1>4, <2>1, <2>2, <3>1
    <3>4. ASSUME NEW x \in cacheMap' PROVE \E j \in 1 .. L : dlist'[j].Key = x
      BY <1>4, <2>1, <2>2, <3>2
    <3> QED BY <2>2, <3>3, <3>4
  <2>4. cacheMap' \subseteq Paths
    BY <2>1 DEF LRUInv
  <2>5. \A j, h \in DOMAIN dlist' : dlist'[j].Key = dlist'[h].Key => j = h
    BY <1>0, <1>3, <2>2
  <2>6. Comes(n)
    BY <1>0, <1>6, <2>2 DEF Comes
  <2> QED BY <1>0, <2>2, <2>3, <2>4, <2>5, <2>6 DEF LRUInv, LRUConsistent, n
<1>8. CASE ~(Len(l) > Capacity)
  <2>1. dlist' = l /\ cacheMap' = cacheMap \cup {k} /\ L + 1 <= Capacity
    BY <1>0, <1>2, <1>5, <1>8
  <2>2. Comes(n)
    BY <1>0, <1>2, <1>6, <2>1 DEF Comes
  <2>3. cacheMap' = {dlist'[j].Key : j \in DOMAIN dlist'}
    BY <1>2, <1>4, <2>1
  <2>4. cacheMap' \subseteq Paths
    BY <2>1 DEF LRUInv
  <2>5. \A j, h \in DOMAIN dlist' : dlist'[j].Key = dlist'[h].Key => j = h
    BY <1>2, <1>3, <2>1
  <2> QED BY <1>0, <1>2, <2>1, <2>2, <2>3, <2>4, <2>5 DEF LRUInv, LRUConsistent, n
<1> QED BY <1>7, <1>8

\* The methods of the cache.
LEMMA SetKeeps ==
    ASSUME LRUInv, NEW k \in Paths, NEW v \in Dentry, Set(k, v)
    PROVE  LRUInv' /\ Comes(NewNode(k, v))
<1>0. NewNode(k, v) \in Nodes /\ NewNode(k, v).Key = k
  BY DEF NewNode, Nodes
<1>1. CASE Capacity = 0
  <2>1. dlist' = dlist /\ cacheMap' = cacheMap
    BY <1>1 DEF Set, lruVars
  <2> QED BY <2>1 DEF LRUInv, LRUConsistent, Comes
<1>2. CASE Capacity # 0 /\ k \in cacheMap
  BY <1>0, <1>2, ElemFacts, MoveKeeps DEF Set
<1>3. CASE Capacity # 0 /\ k \notin cacheMap
  BY <1>3, InsertKeeps DEF Set
<1> QED BY <1>1, <1>2, <1>3

LEMMA GetKeeps ==
    ASSUME LRUInv, NEW k \in Paths, Get(k)
    PROVE  LRUInv' /\ \A j \in DOMAIN dlist' : \E i \in DOMAIN dlist : dlist'[j] = dlist[i]
<1>1. CASE Hit(k)
  <2>1. k \in cacheMap /\ dlist' = MoveToFront(Elem(k), Node(k)) /\ cacheMap' = cacheMap
    BY <1>1 DEF Get, Hit
  <2>2. LRUInv' /\ Comes(Node(k))
    BY <2>1, ElemFacts, MoveKeeps DEF Node
  <2> QED BY <2>1, <2>2, ElemFacts DEF Comes, Node
<1>2. CASE ~Hit(k)
  BY <1>2 DEF Get, LRUInv, LRUConsistent
<1> QED BY <1>1, <1>2

LEMMA RemoveKeeps ==
    ASSUME LRUInv, NEW S, RemoveAll(S)
    PROVE  LRUInv' /\ \A j \in DOMAIN dlist' : dlist'[j].Key \notin S /\ \E i \in DOMAIN dlist : dlist'[j] = dlist[i]
<1> DEFINE L == Len(dlist)
<1>0. L \in Nat /\ DOMAIN dlist = 1 .. L /\ L <= Capacity
  BY ListFacts
<1>1. PICK g \in Left(S) : dlist' = [i \in DOMAIN g |-> dlist[g[i]]]
  BY DEF RemoveAll
<1>2. PICK n \in 0 .. L : g \in [1 .. n -> 1 .. L]
  BY <1>0, <1>1 DEF Left
<1>3. /\ \A i, j \in 1 .. n : i < j => g[i] < g[j]
      /\ {g[i] : i \in 1 .. n} = {i \in 1 .. L : dlist[i].Key \notin S}
  BY <1>0, <1>1, <1>2 DEF Left
<1>4. DOMAIN dlist' = 1 .. n /\ \A j \in 1 .. n : dlist'[j] = dlist[g[j]] /\ g[j] \in 1 .. L
  BY <1>1, <1>2
<1>5. dlist' \in Seq(Nodes) /\ Len(dlist') = n
  <2>1. \A j \in 1 .. n : dlist[g[j]] \in Nodes
    BY <1>0, <1>4, ListFacts
  <2>2. dlist' \in [1 .. n -> Nodes]
    BY <1>1, <1>2, <2>1
  <2> QED BY <1>0, <1>2, <2>2
<1>6. \A j \in 1 .. n : dlist'[j].Key \notin S /\ \E i \in DOMAIN dlist : dlist'[j] = dlist[i]
  BY <1>0, <1>3, <1>4
<1>7. \A i, j \in 1 .. n : dlist'[i].Key = dlist'[j].Key => i = j
  <2> SUFFICES ASSUME NEW i \in 1 .. n, NEW j \in 1 .. n, dlist'[i].Key = dlist'[j].Key
               PROVE  i = j
    OBVIOUS
  <2>1. g[i] = g[j]
    BY <1>0, <1>4, ListFacts
  <2>2. ~(i < j) /\ ~(j < i)
    BY <1>0, <1>3, <1>4, <2>1
  <2> QED BY <1>2, <2>2
<1>8. cacheMap' = {dlist'[j].Key : j \in DOMAIN dlist'}
  <2>1. cacheMap' = cacheMap \ S
    BY DEF RemoveAll
  <2>2. ASSUME NEW j \in 1 .. n PROVE dlist'[j].Key \in cacheMap \ S
    BY <1>0, <1>4, <1>6, ListFacts
  <2>3. ASSUME NEW x \in cacheMap \ S PROVE \E j \in 1 .. n : dlist'[j].Key = x
    <3>1. PICK i \in 1 .. L : dlist[i].Key = x
      BY <1>0, ListFacts
    <3>2. \E j \in 1 .. n : g[j] = i
      BY <1>3, <3>1
    <3> QED BY <1>4, <3>1, <3>2
  <2> QED BY <1>4, <2>1, <2>2, <2>3
<1>9. cacheMap' \subseteq Paths
  BY DEF RemoveAll, LRUInv
<1>10. LRUConsistent'
  <2>1. Len(dlist') <= Capacity
    BY <1>0, <1>2, <1>5, LRUCacheAssumption
  <2> QED BY <1>4, <1>7, <1>8, <2>1 DEF LRUConsistent
<1> QED BY <1>4, <1>5, <1>6, <1>9, <1>10 DEF LRUInv

LEMMA ExpireKeeps ==
    ASSUME LRUInv, NEW i \in 1 .. Len(dlist), Expire(i)
    PROVE  /\ LRUInv' /\ DOMAIN dlist' = DOMAIN dlist
           /\ \A j \in DOMAIN dlist : dlist'[j].Key = dlist[j].Key /\ dlist'[j].Value = dlist[j].Value
<1>0. Len(dlist) \in Nat /\ DOMAIN dlist = 1 .. Len(dlist) /\ dlist \in Seq(Nodes)
  BY ListFacts DEF LRUInv
<1>1. dlist' = [dlist EXCEPT ![i].expired = TRUE] /\ cacheMap' = cacheMap
  BY DEF Expire
<1>2. \A j \in DOMAIN dlist : dlist[j] \in Nodes
  BY ListFacts
<1>3. /\ DOMAIN dlist' = DOMAIN dlist
      /\ \A j \in DOMAIN dlist : dlist'[j] = IF j = i THEN [dlist[j] EXCEPT !.expired = TRUE] ELSE dlist[j]
  BY <1>1
<1>4. \A j \in DOMAIN dlist : dlist'[j] \in Nodes /\ dlist'[j].Key = dlist[j].Key /\ dlist'[j].Value = dlist[j].Value
  BY <1>2, <1>3 DEF Nodes
<1>5. dlist' \in Seq(Nodes) /\ Len(dlist') = Len(dlist)
  <2>1. dlist' = [j \in 1 .. Len(dlist) |-> dlist'[j]]
    BY <1>0, <1>1
  <2>2. dlist' \in [1 .. Len(dlist) -> Nodes]
    BY <1>0, <1>4, <2>1
  <2> QED BY <1>0, <2>2
<1> QED BY <1>0, <1>1, <1>3, <1>4, <1>5 DEF LRUInv, LRUConsistent

-----------------------------------------------------------------------------
(* Steps of one goroutine that change no attribute *)

LEMMA LRUFromInv == Inv => LRUInv
  BY DEF Inv, TypeOK, LRUInv, Nodes

LEMMA NoLocType == NoLoc \in LocType /\ NoDentry \in Dentry /\ NoLoc.d = NoDentry /\ NoLoc.call = "none" /\ NoLoc.p = NoPath
  BY DEF NoLoc, LocType, NoDentry, Dentry, Calls

\* What a call changes and cleans does not depend on the answer it holds.
LEMMA SameCall ==
    ASSUME NEW l, NEW m, l.call = m.call, l.p = m.p, l.q = m.q
    PROVE  Named(l) = Named(m) /\ Entered(l) = Entered(m) /\ Cleaned(l) = Cleaned(m)
  BY DEF Named, Entered, Cleaned

\* An answer stays current while no attribute and no call that changes one moves.
LEMMA CurrentKept ==
    ASSUME NEW d, NEW p, Current(d, p), attr' = attr, made' = made,
           \A u \in Threads : Pending(u, p, d.ver) => Pending(u, p, d.ver)'
    PROVE  Current(d, p)'
  BY DEF Current

\* Every entry of the cache is an old one, or one that is current.
CacheStep ==
    \A j \in DOMAIN dlist' :
        \/ \E i \in DOMAIN dlist : dlist'[j].Key = dlist[i].Key /\ dlist'[j].Value = dlist[i].Value
        \/ EntryOK(dlist'[j])

LEMMA CacheInvKept ==
    ASSUME Inv, CacheStep, attr' = attr, made' = made,
           \A u \in Threads : \A p, n : Pending(u, p, n) => Pending(u, p, n)'
    PROVE  CacheInv'
<1> SUFFICES ASSUME NEW j \in DOMAIN dlist'
             PROVE  EntryOK(dlist[j])'
  BY DEF CacheInv
<1>1. EntryOK(dlist'[j])
  <2>1. CASE \E i \in DOMAIN dlist : dlist'[j].Key = dlist[i].Key /\ dlist'[j].Value = dlist[i].Value
    BY <2>1 DEF Inv, CacheInv, EntryOK
  <2> QED BY <2>1 DEF CacheStep
<1>2. PICK d, k : d = dlist'[j].Value /\ k = dlist'[j].Key
  OBVIOUS
<1>3. d.ver > 0 /\ Current(d, k)'
  BY <1>1, <1>2, CurrentKept DEF EntryOK
<1> QED BY <1>2, <1>3 DEF EntryOK, Current, Pending

LEMMA QuietStep ==
    ASSUME Inv, NEW t \in Threads, NEW c \in Labels, NEW l \in LocType,
           pc[t] \notin {"clean", "clean2"}, c \notin {"wclean", "clean", "clean2"},
           pc' = [pc EXCEPT ![t] = c], loc' = [loc EXCEPT ![t] = l],
           attr' = attr, size' = size, wbuf' = wbuf, page' = page, ver' = ver, tail' = tail, done' = done, made' = made,
           written' \in [Files -> 0 .. MaxVer - 1],
           \A f \in Files : written[f] <= written'[f] /\ written'[f] <= tail[f],
           LocOK(t, c, l), FstatOK(c, l), AnswerOK(c, l), LRUInv', CacheStep
    PROVE  Inv'
<1>0. TypeOK /\ CountInv /\ BlockInv /\ ProcInv /\ PageInv
  BY DEF Inv
<1>1. t \in Procs
  BY DEF Procs
<1>2. /\ \A u \in Procs : u # t => pc'[u] = pc[u] /\ loc'[u] = loc[u]
      /\ pc'[t] = c /\ loc'[t] = l
  BY <1>0, <1>1 DEF TypeOK
<1>3. TypeOK'
  <2>1. pc' \in [Procs -> Labels] /\ loc' \in [Procs -> LocType]
    BY <1>0 DEF TypeOK
  <2> QED BY <1>0, <2>1 DEF TypeOK, LRUInv, Nodes
<1>4. \A u \in Threads : \A p, n : Pending(u, p, n) => Pending(u, p, n)'
  BY <1>2 DEF Pending, Procs
<1>5. CacheInv'
  BY <1>4, CacheInvKept
<1>6. PageInv'
  BY <1>0, <1>4, CurrentKept DEF PageInv
<1>7. CountInv' /\ BlockInv'
  BY <1>0 DEF CountInv, BlockInv, TypeOK
<1>8. ProcInv'
  <2>1. ASSUME NEW u \in Procs PROVE LocOK(u, pc'[u], loc'[u])
    BY <1>0, <1>2 DEF ProcInv
  <2>2. ASSUME NEW u \in Procs PROVE CountOK(pc[u], loc[u])' 
    BY <1>0, <1>2 DEF ProcInv, CountOK
  <2>3. ASSUME NEW u \in Threads PROVE FstatOK(pc[u], loc[u])'
    <3>1. u \in Procs
      BY DEF Procs
    <3>2. FstatOK(pc'[u], loc'[u])
      BY <1>0, <1>2, <3>1 DEF ProcInv
    <3>3. loc'[u] \in LocType /\ (loc'[u].call = "fstat" => loc'[u].p \in Files)
      BY <1>3, <2>1, <3>1 DEF TypeOK, LocOK
    <3>4. loc'[u].snap \in Nat
      BY <3>3 DEF LocType
    <3>5. \A f \in Files : written[f] \in Nat /\ written'[f] \in Nat
      BY <1>0, <1>3 DEF TypeOK
    <3> QED BY <3>2, <3>3, <3>4, <3>5 DEF FstatOK
  <2>4. ASSUME NEW u \in Threads PROVE AnswerOK(pc[u], loc[u])'
    <3>1. AnswerOK(pc'[u], loc'[u])
      BY <1>0, <1>2 DEF ProcInv, Procs
    <3>2. PICK d, k : d = loc'[u].d /\ k = loc'[u].p
      OBVIOUS
    <3>3. k \in Paths => Current(d, k)'
      BY <1>4, <3>1, <3>2, CurrentKept DEF AnswerOK
    <3> QED BY <3>1, <3>2, <3>3 DEF AnswerOK, Current, Pending
  <2> QED BY <2>1, <2>2, <2>3, <2>4 DEF ProcInv, LocOK
<1> QED BY <1>3, <1>5, <1>6, <1>7, <1>8 DEF Inv, LRUInv

\* The invariant of one thread.
LEMMA ThreadFacts ==
    ASSUME Inv, NEW t \in Threads
    PROVE  /\ t \in Procs /\ pc[t] \in Labels /\ loc[t] \in LocType
           /\ LocOK(t, pc[t], loc[t]) /\ CountOK(pc[t], loc[t])
           /\ FstatOK(pc[t], loc[t]) /\ AnswerOK(pc[t], loc[t])
           /\ t \notin Listers /\ pc = [pc EXCEPT ![t] = pc[t]] /\ loc = [loc EXCEPT ![t] = loc[t]]
           /\ written \in [Files -> 0 .. MaxVer - 1]
           /\ \A f \in Files : written[f] \in Nat /\ written[f] <= written[f] /\ written[f] <= tail[f]
  BY StatAssumption DEF Inv, ProcInv, TypeOK, Procs, CountInv

\* The cache is left alone, or only loses or moves entries.
LEMMA SameCache ==
    ASSUME Inv, lruVars' = lruVars
    PROVE  LRUInv' /\ CacheStep
<1>1. dlist' = dlist /\ cacheMap' = cacheMap
  BY DEF lruVars
<1> QED BY <1>1, LRUFromInv DEF LRUInv, LRUConsistent, CacheStep

LEMMA FewerEntries ==
    ASSUME \A j \in DOMAIN dlist' : \E i \in DOMAIN dlist : dlist'[j] = dlist[i]
    PROVE  CacheStep
  BY DEF CacheStep

LEMMA LookupStep ==
    ASSUME Inv, NEW t \in Threads, NEW p \in Paths, NEW label \in {"size", "stat"},
           NEW call \in {"stat", "fstat"}, call = "fstat" => p \in Files /\ label = "size",
           call = "stat" => label = "stat", Lookup(t, call, p, label)
    PROVE  Inv'
<1>0. /\ pc[t] = "idle" /\ Get(p) /\ attr' = attr /\ size' = size /\ wbuf' = wbuf /\ page' = page
      /\ ver' = ver /\ tail' = tail /\ done' = done /\ made' = made /\ written' = written
  BY DEF Lookup, serverVars, ghostVars
<1>1. LRUInv' /\ CacheStep
  BY <1>0, LRUFromInv, GetKeeps, FewerEntries
<1>2. CASE Hit(p)
  <2>1. pc' = pc /\ loc' = loc
    BY <1>2 DEF Lookup
  <2>2. pc[t] \notin {"wclean", "clean", "clean2"}
    BY <1>0
  <2> QED BY <1>0, <1>1, <2>1, <2>2, ThreadFacts, QuietStep
<1>3. CASE ~Hit(p)
  <2> DEFINE l == [loc[t] EXCEPT !.call = call, !.p = p, !.snap = IF p \in Files THEN written[p] ELSE 0]
  <2>1. loc' = [loc EXCEPT ![t] = l] /\ pc' = [pc EXCEPT ![t] = label]
    BY <1>3 DEF Lookup, Goto
  <2>2. loc[t] = NoLoc
    BY <1>0, ThreadFacts DEF LocOK
  <2>3. /\ l.call = call /\ l.p = p /\ l.d = NoDentry /\ l.q = NoPath
        /\ l.snap = (IF p \in Files THEN written[p] ELSE 0) /\ l.snap \in Nat
    BY <2>2, ThreadFacts DEF NoLoc
  <2>4. l \in LocType
    BY <2>2, <2>3, ThreadFacts, NoLocType DEF LocType, Calls
  <2>5. LocOK(t, label, l)
    BY <2>3, ThreadFacts DEF LocOK
  <2>6. FstatOK(label, l)
    BY <2>3, ThreadFacts DEF FstatOK
  <2>7. AnswerOK(label, l)
    <3>1. attr[p].ver \in Nat
      BY DEF Inv, TypeOK
    <3> QED BY <2>3, <3>1 DEF AnswerOK, NoDentry, Current
  <2>8. label \in Labels /\ label \notin {"wclean", "clean", "clean2"}
    BY DEF Labels
  <2> HIDE DEF l
  <2> QED BY <1>0, <1>1, <2>1, <2>4, <2>5, <2>6, <2>7, <2>8, ThreadFacts, QuietStep
<1> QED BY <1>2, <1>3

LEMMA LargerFacts ==
    ASSUME NEW m \in Nat, NEW n \in Nat
    PROVE  Larger(m, n) \in {m, n} /\ Larger(m, n) \in Nat /\ m <= Larger(m, n) /\ n <= Larger(m, n)
  BY DEF Larger

\* The answer of the server for a path that is there.
LEMMA AnswerFacts ==
    ASSUME Inv, NEW p \in Paths, attr[p].there
    PROVE  /\ Answer(p) \in Dentry /\ Answer(p).ver > 0 /\ Answer(p).ver = attr[p].ver
           /\ Current(Answer(p), p) /\ (p \in Files => Answer(p).size = size[p])
<1>1. attr[p].ver \in Nat /\ attr[p].ver > 0 /\ (p \in Files => size[p] \in Nat)
  BY StatAssumption DEF Inv, TypeOK, CountInv
<1>2. attr[p].ent \in Nat /\ made[p] <= attr[p].ent
  BY DEF Inv, TypeOK, CountInv
<1> QED BY <1>1, <1>2 DEF Answer, Current, Dentry

LEMMA DoStatStep ==
    ASSUME Inv, NEW t \in Threads, DoStat(t)
    PROVE  Inv'
<1> DEFINE p == loc[t].p
           a == Answer(p)
           d == [a EXCEPT !.size = Larger(a.size, loc[t].cs)]
           l == [loc[t] EXCEPT !.d = d]
           c == IF pc[t] = "stat" /\ loc[t].call = "stat" /\ p \in Files THEN "size" ELSE "set"
<1>0. /\ pc[t] \in {"stat", "again"} /\ attr[p].there /\ lruVars' = lruVars
      /\ attr' = attr /\ size' = size /\ wbuf' = wbuf /\ page' = page
      /\ ver' = ver /\ tail' = tail /\ done' = done /\ made' = made /\ written' = written
  BY DEF DoStat, serverVars, ghostVars
<1>1. loc' = [loc EXCEPT ![t] = l] /\ pc' = [pc EXCEPT ![t] = c]
  BY DEF DoStat, Goto
<1>2. p \in Paths /\ loc[t].call \in {"stat", "fstat"} /\ (loc[t].call = "fstat" => p \in Files)
  BY <1>0, ThreadFacts DEF LocOK
<1>3. a \in Dentry /\ a.ver > 0 /\ Current(a, p) /\ a.size \in Nat /\ (p \in Files => a.size = size[p])
  BY <1>0, <1>2, AnswerFacts DEF Dentry
<1>4. loc[t].cs \in Nat /\ loc[t].snap \in Nat
  BY ThreadFacts DEF LocType
<1>5. d \in Dentry /\ d.ver = a.ver /\ d.ent = a.ent /\ d.over = a.over /\ d.size = Larger(a.size, loc[t].cs)
  <2> HIDE DEF a
  <2> QED BY <1>3, <1>4, LargerFacts DEF Dentry
<1> HIDE DEF d
<1>6. /\ l \in LocType /\ l.d = d /\ l.call = loc[t].call /\ l.p = p /\ l.q = loc[t].q
      /\ l.snap = loc[t].snap
  BY <1>5, ThreadFacts DEF LocType
<1>7. c \in Labels /\ c \in {"size", "set"} /\ (c = "size" => p \in Files /\ l.call = "stat")
  BY <1>6 DEF Labels
<1>8. LocOK(t, c, l)
  BY <1>0, <1>2, <1>6, <1>7, ThreadFacts DEF LocOK
<1>9. FstatOK(c, l)
  <2> SUFFICES ASSUME l.call = "fstat" PROVE l.snap <= written[l.p] /\ c = "set" /\ l.snap <= l.d.size
    BY <1>7 DEF FstatOK
  <2>1. pc[t] = "stat" /\ l.snap <= written[l.p] /\ (l.snap <= size[p] \/ l.snap <= loc[t].cs)
    BY <1>0, <1>6, ThreadFacts DEF FstatOK
  <2>2. size[p] <= d.size /\ loc[t].cs <= d.size /\ size[p] \in Nat /\ d.size \in Nat
    BY <1>2, <1>3, <1>4, <1>5, <1>6, LargerFacts
  <2> QED BY <1>4, <1>6, <1>7, <2>1, <2>2
<1>10. AnswerOK(c, l)
  BY <1>3, <1>5, <1>6 DEF AnswerOK, Current
<1> HIDE DEF l, c
<1> QED BY <1>0, <1>1, <1>6, <1>7, <1>8, <1>9, <1>10, SameCache, ThreadFacts, QuietStep

\* A call that returns leaves nothing behind.
LEMMA IdleOK ==
    ASSUME NEW t \in Threads
    PROVE  LocOK(t, "idle", NoLoc) /\ FstatOK("idle", NoLoc) /\ AnswerOK("idle", NoLoc) /\ "idle" \in Labels
<1>1. NoLoc.call = "none" /\ NoLoc.p = NoPath /\ NoPath \notin Paths
  BY NoLocType, StatAssumption
<1> QED BY <1>1 DEF LocOK, FstatOK, AnswerOK, Labels

LEMMA DoStatFailStep ==
    ASSUME Inv, NEW t \in Threads, DoStatFail(t)
    PROVE  Inv'
<1>0. /\ pc[t] \in {"stat", "again"} /\ lruVars' = lruVars
      /\ attr' = attr /\ size' = size /\ wbuf' = wbuf /\ page' = page
      /\ ver' = ver /\ tail' = tail /\ done' = done /\ made' = made /\ written' = written
      /\ pc' = [pc EXCEPT ![t] = "idle"] /\ loc' = [loc EXCEPT ![t] = NoLoc]
  BY DEF DoStatFail, serverVars, ghostVars, Return, Goto
<1> QED BY <1>0, IdleOK, NoLocType, SameCache, ThreadFacts, QuietStep

LEMMA StatSetStep ==
    ASSUME Inv, NEW t \in Threads, StatSet(t)
    PROVE  Inv'
<1>0. /\ pc[t] = "set" /\ Set(loc[t].p, loc[t].d)
      /\ attr' = attr /\ size' = size /\ wbuf' = wbuf /\ page' = page
      /\ ver' = ver /\ tail' = tail /\ done' = done /\ made' = made /\ written' = written
      /\ pc' = [pc EXCEPT ![t] = "idle"] /\ loc' = [loc EXCEPT ![t] = NoLoc]
  BY DEF StatSet, serverVars, ghostVars, Return, Goto
<1>1. loc[t].p \in Paths /\ loc[t].d \in Dentry /\ loc[t].d.ver > 0 /\ Current(loc[t].d, loc[t].p)
  BY <1>0, ThreadFacts DEF LocOK, AnswerOK, LocType
<1>2. LRUInv' /\ Comes(NewNode(loc[t].p, loc[t].d))
  BY <1>0, <1>1, LRUFromInv, SetKeeps
<1>3. CacheStep
  <2>1. EntryOK(NewNode(loc[t].p, loc[t].d))
    BY <1>1 DEF EntryOK, NewNode
  <2> QED BY <1>2, <2>1 DEF CacheStep, Comes
<1> QED BY <1>0, <1>2, <1>3, IdleOK, NoLocType, ThreadFacts, QuietStep

\* The last buffer of a file that has one.
LEMMA UpperIdxFacts ==
    ASSUME Inv, NEW f \in Files, wbuf[f] # {}
    PROVE  UpperIdx(f) \in wbuf[f] /\ UpperIdx(f) \in Nat /\ \A j \in wbuf[f] : j <= UpperIdx(f)
<1> DEFINE T == {MaxVer - i : i \in wbuf[f]}
           R == OpToRel(<, Nat)
<1>0. wbuf[f] \subseteq 1 .. MaxVer - 1 /\ MaxVer \in Nat
  BY StatAssumption DEF Inv, TypeOK, Blocks
<1>1. T \subseteq Nat /\ T # {}
  BY <1>0
<1>2. IsWellFoundedOn(R, Nat)
  BY NatLessThanWellFounded
<1>3. \A x, y \in Nat : y < x => <<y, x>> \in R
  BY DEF OpToRel
<1> HIDE DEF R
<1>4. PICK m \in T : \A y \in T : ~ (<<y, m>> \in R)
  <2> HIDE DEF T
  <2> QED BY <1>1, <1>2, WFMin
<1>5. PICK i \in wbuf[f] : m = MaxVer - i
  BY <1>4
<1>6. ASSUME NEW j \in wbuf[f] PROVE j <= i
  <2>1. MaxVer - j \in T /\ MaxVer - j \in Nat /\ m \in Nat
    BY <1>0, <1>1, <1>4
  <2>2. ~(MaxVer - j < m)
    BY <1>3, <1>4, <2>1
  <2> QED BY <1>0, <1>5, <2>2
<1>7. UpperIdx(f) \in wbuf[f] /\ \A j \in wbuf[f] : j <= UpperIdx(f)
  BY <1>6 DEF UpperIdx
<1> QED BY <1>0, <1>7

\* The write cache has told its size n: a step of StatSize.
LEMMA WithSizeStep ==
    ASSUME Inv, NEW t \in Threads, NEW n \in Nat, pc[t] \in {"size", "lock"}, WithSize(t, n),
           lruVars' = lruVars, attr' = attr, size' = size, wbuf' = wbuf, page' = page,
           ver' = ver, tail' = tail, done' = done, made' = made, written' = written,
           loc[t].call = "fstat" => loc[t].snap <= size[loc[t].p] \/ loc[t].snap <= n
    PROVE  Inv'
<1> DEFINE d == [loc[t].d EXCEPT !.size = Larger(loc[t].d.size, n)]
           l == [loc[t] EXCEPT !.cs = n, !.d.size = Larger(loc[t].d.size, n), !.idx = 0]
           c == IF loc[t].call = "fstat" THEN "stat" ELSE "set"
<1>1. loc' = [loc EXCEPT ![t] = l] /\ pc' = [pc EXCEPT ![t] = c]
  BY DEF WithSize, Goto
<1>2. loc[t].d \in Dentry /\ loc[t].d.size \in Nat /\ loc[t].p \in Files /\ loc[t].p \in Paths
  BY ThreadFacts DEF LocType, Dentry, LocOK
<1>3. d \in Dentry /\ d.ver = loc[t].d.ver /\ d.ent = loc[t].d.ent /\ d.over = loc[t].d.over
  BY <1>2, LargerFacts DEF Dentry
<1>4. /\ l \in LocType /\ l.d = d /\ l.call = loc[t].call /\ l.p = loc[t].p /\ l.q = loc[t].q
      /\ l.snap = loc[t].snap /\ l.cs = n
  BY <1>2, <1>3, ThreadFacts DEF LocType
<1> HIDE DEF d
<1>5. c \in Labels /\ c \in {"stat", "set"} /\ (c = "stat" <=> l.call = "fstat")
  BY <1>4 DEF Labels
<1> HIDE DEF l, c
<1>6. LocOK(t, c, l)
  BY <1>4, <1>5, ThreadFacts DEF LocOK
<1>7. FstatOK(c, l)
  BY <1>4, <1>5, ThreadFacts DEF FstatOK
<1>8. AnswerOK(c, l)
  <2>1. Current(l.d, l.p)
    BY <1>2, <1>3, <1>4, ThreadFacts DEF AnswerOK, Current
  <2>2. c = "set" => l.d.ver > 0
    BY <1>3, <1>4, <1>5, ThreadFacts DEF AnswerOK, LocOK
  <2> QED BY <1>5, <2>1, <2>2 DEF AnswerOK
<1> QED BY <1>1, <1>4, <1>5, <1>6, <1>7, <1>8, SameCache, ThreadFacts, QuietStep

\* A step that moves idx alone.
LEMMA IdxStep ==
    ASSUME Inv, NEW t \in Threads, NEW n \in Nat, NEW c \in {"lock", "stat", "again"},
           pc[t] \in {"size", "lock"}, loc' = [loc EXCEPT ![t].idx = n], pc' = [pc EXCEPT ![t] = c],
           lruVars' = lruVars, attr' = attr, size' = size, wbuf' = wbuf, page' = page,
           ver' = ver, tail' = tail, done' = done, made' = made, written' = written,
           FstatOK(c, [loc[t] EXCEPT !.idx = n])
    PROVE  Inv'
<1> DEFINE l == [loc[t] EXCEPT !.idx = n]
<1>1. loc' = [loc EXCEPT ![t] = l] /\ FstatOK(c, l) /\ c \in Labels
  BY DEF Labels
<1>2. loc[t].p \in Files /\ loc[t].p \in Paths
  BY ThreadFacts DEF LocOK
<1>3. /\ l \in LocType /\ l.d = loc[t].d /\ l.call = loc[t].call /\ l.p = loc[t].p /\ l.q = loc[t].q
  BY ThreadFacts DEF LocType
<1> HIDE DEF l
<1>4. LocOK(t, c, l)
  BY <1>3, ThreadFacts DEF LocOK
<1>5. AnswerOK(c, l)
  BY <1>2, <1>3, ThreadFacts DEF AnswerOK
<1> QED BY <1>1, <1>3, <1>4, <1>5, SameCache, ThreadFacts, QuietStep

LEMMA StatSizeStep ==
    ASSUME Inv, NEW t \in Threads, StatSize(t)
    PROVE  Inv'
<1>0. /\ pc[t] = "size" /\ lruVars' = lruVars /\ attr' = attr /\ size' = size /\ wbuf' = wbuf
      /\ page' = page /\ ver' = ver /\ tail' = tail /\ done' = done /\ made' = made /\ written' = written
  BY DEF StatSize, serverVars, ghostVars
<1> DEFINE f == loc[t].p
<1>1. f \in Files /\ loc[t].snap \in Nat /\ loc[t] \in LocType
  BY <1>0, ThreadFacts DEF LocOK, LocType
<1>2. loc[t].call = "fstat" => loc[t].snap <= size[f] \/ loc[t].snap \in wbuf[f]
  <2> SUFFICES ASSUME loc[t].call = "fstat" PROVE loc[t].snap <= size[f] \/ loc[t].snap \in wbuf[f]
    OBVIOUS
  <2>1. loc[t].snap <= written[f] /\ written[f] <= tail[f] /\ written[f] \in Nat /\ tail[f] \in Nat /\ size[f] \in Nat
    BY <1>1, ThreadFacts, StatAssumption DEF FstatOK, Inv, TypeOK
  <2>2. loc[t].snap = 0 \/ loc[t].snap \in 1 .. tail[f]
    BY <1>1, <2>1
  <2> QED BY <1>1, <2>1, <2>2 DEF Inv, BlockInv
<1>3. CASE wbuf[f] = {}
  BY <1>0, <1>1, <1>2, <1>3, WithSizeStep DEF StatSize
<1>4. CASE wbuf[f] # {}
  <2>1. loc' = [loc EXCEPT ![t].idx = UpperIdx(f)] /\ pc' = [pc EXCEPT ![t] = "lock"]
    BY <1>4 DEF StatSize, Goto
  <2>2. UpperIdx(f) \in wbuf[f] /\ UpperIdx(f) \in Nat /\ \A j \in wbuf[f] : j <= UpperIdx(f)
    BY <1>1, <1>4, UpperIdxFacts
  <2> DEFINE l == [loc[t] EXCEPT !.idx = UpperIdx(f)]
  <2>3. l.call = loc[t].call /\ l.p = f /\ l.snap = loc[t].snap /\ l.idx = UpperIdx(f)
    BY <1>1 DEF LocType
  <2>4. FstatOK("lock", l)
    <3> HIDE DEF l
    <3> QED BY <1>2, <2>2, <2>3, ThreadFacts DEF FstatOK
  <2> QED BY <1>0, <2>1, <2>2, <2>4, IdxStep
<1> QED BY <1>3, <1>4

LEMMA StatSizeLockedStep ==
    ASSUME Inv, NEW t \in Threads, StatSizeLocked(t)
    PROVE  Inv'
<1>0. /\ pc[t] = "lock" /\ lruVars' = lruVars /\ attr' = attr /\ size' = size /\ wbuf' = wbuf
      /\ page' = page /\ ver' = ver /\ tail' = tail /\ done' = done /\ made' = made /\ written' = written
  BY DEF StatSizeLocked, serverVars, ghostVars
<1> DEFINE f == loc[t].p
<1>1. f \in Files /\ loc[t].snap \in Nat /\ loc[t].idx \in Nat /\ loc[t] \in LocType /\ size[f] \in Nat
  <2>1. f \in Files /\ loc[t].snap \in Nat /\ loc[t].idx \in Nat /\ loc[t] \in LocType
    BY <1>0, ThreadFacts DEF LocOK, LocType
  <2> QED BY <2>1, StatAssumption DEF Inv, TypeOK
<1>2. loc[t].call = "fstat" => /\ loc[t].idx <= size[f] \/ loc[t].idx \in wbuf[f]
                               /\ loc[t].snap <= size[f] \/ loc[t].snap <= loc[t].idx
                               /\ loc[t].snap <= written[f]
  BY <1>0, ThreadFacts DEF FstatOK
<1>3. CASE loc[t].idx \in wbuf[f]
  BY <1>0, <1>1, <1>2, <1>3, WithSizeStep DEF StatSizeLocked
<1>4. CASE loc[t].idx \notin wbuf[f]
  <2> DEFINE l == [loc[t] EXCEPT !.idx = 0]
             c == IF loc[t].call = "fstat" THEN "stat" ELSE "again"
  <2>1. loc' = [loc EXCEPT ![t].idx = 0] /\ pc' = [pc EXCEPT ![t] = c]
    BY <1>4 DEF StatSizeLocked, Goto
  <2>2. l.call = loc[t].call /\ l.p = f /\ l.snap = loc[t].snap /\ l.cs = loc[t].cs
    BY <1>1 DEF LocType
  <2>3. FstatOK(c, l)
    <3> HIDE DEF l
    <3> QED BY <1>1, <1>2, <1>4, <2>2 DEF FstatOK
  <2> HIDE DEF c
  <2>4. c \in {"lock", "stat", "again"} /\ 0 \in Nat
    BY DEF c
  <2> QED BY <1>0, <2>1, <2>3, <2>4, IdxStep
<1> QED BY <1>3, <1>4

LEMMA WriteCleanStep ==
    ASSUME Inv, NEW t \in Threads, WriteClean(t)
    PROVE  Inv'
<1> DEFINE f == loc[t].p
<1>0. /\ pc[t] = "wclean" /\ RemoveAll({f})
      /\ attr' = attr /\ size' = size /\ wbuf' = wbuf /\ page' = page
      /\ ver' = ver /\ tail' = tail /\ done' = done /\ made' = made
      /\ written' = [written EXCEPT ![f] = Larger(@, loc[t].v)]
      /\ pc' = [pc EXCEPT ![t] = "idle"] /\ loc' = [loc EXCEPT ![t] = NoLoc]
  BY DEF WriteClean, serverVars, Return, Goto
<1>1. f \in Files /\ loc[t].v \in Nat /\ loc[t].v <= tail[f]
  BY <1>0, ThreadFacts DEF LocOK, CountOK, LocType
<1>2. \A g \in Files : /\ written[g] \in 0 .. MaxVer - 1 /\ written[g] <= tail[g] /\ tail[g] \in 0 .. MaxVer - 1
                       /\ MaxVer \in Nat
  BY StatAssumption DEF Inv, TypeOK, CountInv
<1>3. \A g \in Files : written'[g] = IF g = f THEN Larger(written[g], loc[t].v) ELSE written[g]
  BY <1>0 DEF Inv, TypeOK
<1>4. \A g \in Files : /\ written[g] <= written'[g] /\ written'[g] <= tail[g]
                       /\ written'[g] \in 0 .. MaxVer - 1
  BY <1>1, <1>2, <1>3 DEF Larger
<1>5. written' \in [Files -> 0 .. MaxVer - 1]
  <2>1. written' = [g \in Files |-> written'[g]]
    BY <1>0 DEF Inv, TypeOK
  <2> QED BY <1>4, <2>1
<1>6. LRUInv' /\ CacheStep
  BY <1>0, LRUFromInv, RemoveKeeps, FewerEntries
<1> QED BY <1>0, <1>4, <1>5, <1>6, IdleOK, NoLocType, ThreadFacts, QuietStep

-----------------------------------------------------------------------------
(* Writes, flushes, listings and time *)

\* What Fstat knows stays true while blocks move from the write cache to the server.
LEMMA FstatKept ==
    ASSUME Inv, NEW c, NEW l \in LocType, l.call = "fstat" => l.p \in Files, FstatOK(c, l),
           written' = written, size' \in [Files -> 0 .. MaxVer - 1],
           \A f \in Files : size[f] <= size'[f] /\ \A i \in wbuf[f] : i \in wbuf'[f] \/ i <= size'[f]
    PROVE  FstatOK(c, l)'
<1> SUFFICES ASSUME l.call = "fstat" PROVE FstatOK(c, l)'
  BY DEF FstatOK
<1>1. l.p \in Files /\ size[l.p] \in Nat /\ size'[l.p] \in Nat /\ size[l.p] <= size'[l.p]
  BY StatAssumption DEF Inv, TypeOK
<1>2. l.snap \in Nat /\ l.idx \in Nat
  BY DEF LocType
<1> QED BY <1>1, <1>2 DEF FstatOK

LEMMA FlushBufferStep ==
    ASSUME Inv, NEW f \in Files, NEW i \in Blocks, FlushBuffer(f, i)
    PROVE  Inv'
<1>0. /\ i \in wbuf[f] /\ wbuf' = [wbuf EXCEPT ![f] = @ \ {i}] /\ size' = [size EXCEPT ![f] = Larger(@, i)]
      /\ lruVars' = lruVars /\ attr' = attr /\ pc' = pc /\ loc' = loc /\ page' = page
      /\ ver' = ver /\ tail' = tail /\ done' = done /\ made' = made /\ written' = written
      /\ dlist' = dlist /\ cacheMap' = cacheMap
  BY DEF FlushBuffer, ghostVars, lruVars
<1>1. TypeOK /\ LRUConsistent /\ CountInv /\ BlockInv /\ ProcInv /\ CacheInv /\ PageInv
  BY DEF Inv
<1>2. i \in 1 .. MaxVer - 1 /\ MaxVer \in Nat /\ \A g \in Files : size[g] \in 0 .. MaxVer - 1
  BY <1>1, StatAssumption DEF TypeOK, Blocks
<1>3. \A g \in Files : /\ wbuf'[g] = IF g = f THEN wbuf[g] \ {i} ELSE wbuf[g]
                       /\ size'[g] = IF g = f THEN Larger(size[g], i) ELSE size[g]
  BY <1>0, <1>1 DEF TypeOK
<1>4. \A g \in Files : /\ size'[g] \in 0 .. MaxVer - 1 /\ size[g] <= size'[g]
                       /\ \A h \in wbuf[g] : h \in wbuf'[g] \/ h <= size'[g]
  <2> TAKE g \in Files
  <2>1. CASE g = f
    <3>1. wbuf'[g] = wbuf[g] \ {i} /\ size'[g] = Larger(size[g], i)
      BY <1>3, <2>1
    <3>2. Larger(size[g], i) \in 0 .. MaxVer - 1 /\ size[g] <= Larger(size[g], i) /\ i <= Larger(size[g], i)
      BY <1>2 DEF Larger
    <3> QED BY <3>1, <3>2
  <2>2. CASE g # f
    <3>1. wbuf'[g] = wbuf[g] /\ size'[g] = size[g] /\ size[g] \in 0 .. MaxVer - 1
      BY <1>2, <1>3, <2>2
    <3> QED BY <3>1
  <2> QED BY <2>1, <2>2
<1>5. size' \in [Files -> 0 .. MaxVer - 1]
  <2>1. size' = [g \in Files |-> size'[g]]
    BY <1>0, <1>1 DEF TypeOK
  <2> QED BY <1>4, <2>1
<1>6. wbuf' \in [Files -> SUBSET Blocks]
  BY <1>0, <1>1 DEF TypeOK
<1>7. TypeOK'
  BY <1>0, <1>1, <1>5, <1>6 DEF TypeOK
<1>8. BlockInv'
  <2> SUFFICES ASSUME NEW g \in Files, NEW n \in 1 .. tail[g]
               PROVE  n <= size'[g] \/ n \in wbuf'[g]
    BY <1>0 DEF BlockInv
  <2>1. n <= size[g] \/ n \in wbuf[g]
    BY <1>1 DEF BlockInv
  <2>2. n \in Nat /\ size[g] \in Nat /\ size'[g] \in Nat
    <3>1. tail[g] \in Nat
      BY <1>1, StatAssumption DEF TypeOK
    <3> QED BY <1>2, <1>4, <3>1
  <2> QED BY <1>4, <2>1, <2>2
<1>9. \A u \in Threads : \A p, n : Pending(u, p, n) => Pending(u, p, n)'
  BY <1>0 DEF Pending
<1>10. CacheInv'
  BY <1>0, <1>9, CacheInvKept, SameCache
<1>11. PageInv'
  BY <1>0, <1>1, <1>9, CurrentKept DEF PageInv
<1>12. ProcInv'
  <2>1. ASSUME NEW u \in Threads PROVE FstatOK(pc[u], loc[u])' /\ AnswerOK(pc[u], loc[u])'
    <3>1. PICK c, l : c = pc[u] /\ l = loc[u]
      OBVIOUS
    <3>2. l \in LocType /\ (l.call = "fstat" => l.p \in Files) /\ FstatOK(c, l)
      BY <3>1, ThreadFacts DEF LocOK
    <3>3. FstatOK(c, l)'
      BY <1>0, <1>4, <1>5, <3>2, FstatKept
    <3>4. AnswerOK(pc[u], loc[u])'
      BY <1>0, <1>1 DEF ProcInv, AnswerOK, Current, Pending
    <3> QED BY <1>0, <3>1, <3>3, <3>4 DEF FstatOK
  <2> QED BY <1>0, <1>1, <2>1 DEF ProcInv, CountOK
<1> QED BY <1>0, <1>1, <1>7, <1>8, <1>10, <1>11, <1>12 DEF Inv, CountInv, LRUConsistent

LEMMA EntryExpiresStep ==
    ASSUME Inv, NEW i \in 1 .. Len(dlist), EntryExpires(i)
    PROVE  Inv'
<1>0. /\ Expire(i) /\ attr' = attr /\ size' = size /\ wbuf' = wbuf /\ pc' = pc /\ loc' = loc /\ page' = page
      /\ ver' = ver /\ tail' = tail /\ done' = done /\ made' = made /\ written' = written
  BY DEF EntryExpires, ghostVars, serverVars
<1>1. LRUInv' /\ CacheStep
  BY <1>0, LRUFromInv, ExpireKeeps DEF CacheStep
<1>2. TypeOK /\ CountInv /\ BlockInv /\ ProcInv /\ PageInv
  BY DEF Inv
<1>3. \A u \in Threads : \A p, n : Pending(u, p, n) => Pending(u, p, n)'
  BY <1>0 DEF Pending
<1>4. CacheInv'
  BY <1>0, <1>1, <1>3, CacheInvKept
<1>5. PageInv'
  BY <1>0, <1>2, <1>3, CurrentKept DEF PageInv
<1>6. ProcInv'
  BY <1>0, <1>2 DEF ProcInv, CountOK, FstatOK, AnswerOK, Current, Pending
<1>7. TypeOK'
  BY <1>0, <1>1, <1>2 DEF TypeOK, LRUInv, Nodes
<1> QED BY <1>0, <1>1, <1>2, <1>4, <1>5, <1>6, <1>7 DEF Inv, CountInv, BlockInv, LRUInv

\* Steps of a listing: its position, its page and the cache.
LEMMA ListerStep ==
    ASSUME Inv, NEW m \in Listers, NEW c \in {"idle", "set"}, pc' = [pc EXCEPT ![m] = c],
           attr' = attr, size' = size, wbuf' = wbuf, loc' = loc, ver' = ver, tail' = tail,
           done' = done, made' = made, written' = written, LRUInv', CacheStep,
           NEW s \in [Paths -> Dentry], page' = [page EXCEPT ![m] = s], \A p \in Paths : Current(s[p], p)
    PROVE  Inv'
<1>1. TypeOK /\ CountInv /\ BlockInv /\ ProcInv /\ PageInv
  BY DEF Inv
<1>2. m \in Procs /\ m \notin Threads /\ c \in Labels
  BY StatAssumption DEF Procs, Labels
<1>3. \A u \in Procs : pc'[u] = IF u = m THEN c ELSE pc[u]
  BY <1>1 DEF TypeOK
<1>4. \A u \in Threads : u \in Procs /\ pc'[u] = pc[u]
  BY <1>2, <1>3 DEF Procs
<1>5. \A u \in Threads : \A p, n : Pending(u, p, n) => Pending(u, p, n)'
  BY <1>4 DEF Pending
<1>6. CacheInv'
  BY <1>5, CacheInvKept
<1>7. PageInv'
  <2> SUFFICES ASSUME NEW k \in Listers, NEW p \in Paths PROVE Current(page[k][p], p)'
    BY DEF PageInv
  <2>1. PICK d : d = page'[k][p]
    OBVIOUS
  <2>2. Current(d, p)
    BY <1>1, <2>1 DEF PageInv, TypeOK
  <2>3. Current(d, p)'
    BY <1>5, <2>2, CurrentKept
  <2> QED BY <2>1, <2>3 DEF Current, Pending
<1>8. ProcInv'
  <2>1. ASSUME NEW u \in Procs PROVE (LocOK(u, pc[u], loc[u]) /\ CountOK(pc[u], loc[u]))'
    <3>1. LocOK(u, pc[u], loc[u]) /\ CountOK(pc[u], loc[u])
      BY <1>1 DEF ProcInv
    <3>2. CASE u = m
      <4>1. loc'[u] = NoLoc /\ pc'[u] = c
        BY <1>3, <3>1, <3>2 DEF LocOK
      <4>2. NoLoc.call = "none"
        BY NoLocType
      <4> QED BY <1>2, <3>2, <4>1, <4>2 DEF LocOK, CountOK
    <3>3. CASE u # m
      BY <1>3, <3>1, <3>3 DEF LocOK, CountOK
    <3> QED BY <3>2, <3>3
  <2>2. ASSUME NEW u \in Threads PROVE (FstatOK(pc[u], loc[u]) /\ AnswerOK(pc[u], loc[u]))'
    BY <1>1, <1>4 DEF ProcInv, FstatOK, AnswerOK, Current, Pending
  <2> QED BY <2>1, <2>2 DEF ProcInv
<1>9. TypeOK'
  <2>1. pc' \in [Procs -> Labels] /\ page' \in [Listers -> [Paths -> Dentry]]
    BY <1>1, <1>2 DEF TypeOK
  <2> QED BY <1>1, <2>1 DEF TypeOK, LRUInv, Nodes
<1> QED BY <1>1, <1>6, <1>7, <1>8, <1>9 DEF Inv, CountInv, BlockInv, LRUInv

LEMMA NoDentryCurrent ==
    ASSUME Inv, NEW p \in Paths
    PROVE  Current(NoDentry, p)
<1>1. attr[p].ver \in Nat
  BY DEF Inv, TypeOK
<1> QED BY <1>1 DEF Current, NoDentry

LEMMA ReadDirStep ==
    ASSUME Inv, NEW m \in Listers, NEW p \in Paths, ReadDir(m, p)
    PROVE  Inv'
<1> DEFINE s == [q \in Paths |-> IF q \in Below(p) /\ attr[q].there THEN Answer(q) ELSE NoDentry]
<1>0. /\ page' = [page EXCEPT ![m] = s] /\ pc' = [pc EXCEPT ![m] = "set"] /\ lruVars' = lruVars
      /\ attr' = attr /\ size' = size /\ wbuf' = wbuf /\ loc' = loc
      /\ ver' = ver /\ tail' = tail /\ done' = done /\ made' = made /\ written' = written
  BY DEF ReadDir, Goto, serverVars, ghostVars
<1>1. \A q \in Paths : s[q] \in Dentry /\ Current(s[q], q)
  BY AnswerFacts, NoDentryCurrent, NoLocType
<1>2. s \in [Paths -> Dentry]
  BY <1>1
<1> HIDE DEF s
<1> QED BY <1>0, <1>1, <1>2, SameCache, ListerStep

LEMMA SetEntryStep ==
    ASSUME Inv, NEW m \in Listers, NEW q \in Paths, SetEntry(m, q)
    PROVE  Inv'
<1> DEFINE s == [page[m] EXCEPT ![q] = NoDentry]
           c == IF Fetched(m) = {q} THEN "idle" ELSE "set"
<1>0. /\ q \in Fetched(m) /\ Set(q, page[m][q]) /\ pc' = [pc EXCEPT ![m] = c]
      /\ page' = [page EXCEPT ![m] = s]
      /\ attr' = attr /\ size' = size /\ wbuf' = wbuf /\ loc' = loc
      /\ ver' = ver /\ tail' = tail /\ done' = done /\ made' = made /\ written' = written
  BY DEF SetEntry, Goto, serverVars, ghostVars
<1>1. page[m] \in [Paths -> Dentry] /\ page[m][q].ver > 0 /\ \A p \in Paths : Current(page[m][p], p)
  BY <1>0 DEF Fetched, Inv, TypeOK, PageInv
<1>2. LRUInv' /\ Comes(NewNode(q, page[m][q]))
  BY <1>0, <1>1, LRUFromInv, SetKeeps
<1>3. CacheStep
  <2>1. EntryOK(NewNode(q, page[m][q]))
    BY <1>1 DEF EntryOK, NewNode
  <2> QED BY <1>2, <2>1 DEF CacheStep, Comes
<1>4. s \in [Paths -> Dentry] /\ \A p \in Paths : s[p] = IF p = q THEN NoDentry ELSE page[m][p]
  BY <1>1, NoLocType
<1>5. \A p \in Paths : Current(s[p], p)
  <2> HIDE DEF s
  <2> QED BY <1>1, <1>4, NoDentryCurrent
<1>6. c \in {"idle", "set"}
  OBVIOUS
<1> HIDE DEF s, c
<1> QED BY <1>0, <1>2, <1>3, <1>4, <1>5, <1>6, ListerStep

LEMMA WriteStep ==
    ASSUME Inv, NEW t \in Threads, NEW f \in Files, Write(t, f)
    PROVE  Inv'
<1> DEFINE n == tail[f] + 1
           l == [loc[t] EXCEPT !.call = "write", !.p = f, !.v = n]
<1>0. /\ pc[t] = "idle" /\ ver < MaxVer /\ lruVars' = lruVars /\ attr' = attr /\ page' = page
      /\ done' = done /\ made' = made /\ written' = written /\ ver' = ver + 1 /\ tail' = [tail EXCEPT ![f] = n]
      /\ loc' = [loc EXCEPT ![t] = l] /\ pc' = [pc EXCEPT ![t] = "wclean"]
      /\ dlist' = dlist /\ cacheMap' = cacheMap
  BY DEF Write, Goto, lruVars
<1>1. TypeOK /\ LRUConsistent /\ CountInv /\ BlockInv /\ ProcInv /\ CacheInv /\ PageInv
  BY DEF Inv
<1>2. /\ MaxVer \in Nat /\ ver \in Nat /\ ver \in 0 .. MaxVer /\ f \in Paths
      /\ \A g \in Files : tail[g] \in Nat /\ tail[g] < ver /\ size[g] \in 0 .. MaxVer - 1 /\ size[g] \in Nat
  BY <1>1, StatAssumption DEF TypeOK, CountInv
<1>3. n \in 1 .. MaxVer - 1 /\ n \in Nat /\ n < ver + 1 /\ n <= ver
  BY <1>0, <1>2
<1>4. /\ l \in LocType /\ l.d = NoDentry /\ l.call = "write" /\ l.p = f /\ l.v = n /\ t \in Procs
  <2>1. loc[t] = NoLoc
    BY <1>0, ThreadFacts DEF LocOK
  <2> HIDE DEF n
  <2> QED BY <1>2, <1>3, <2>1, ThreadFacts, NoLocType DEF LocType, Calls, NoLoc
<1>5. \A g \in Files : tail'[g] = IF g = f THEN n ELSE tail[g]
  BY <1>0, <1>1 DEF TypeOK
<1>6. \A u \in Procs : /\ pc'[u] = IF u = t THEN "wclean" ELSE pc[u]
                       /\ loc'[u] = IF u = t THEN l ELSE loc[u]
  BY <1>0, <1>1 DEF TypeOK
<1>7. \/ wbuf' = [wbuf EXCEPT ![f] = @ \cup {n}] /\ size' = size
      \/ size' = [size EXCEPT ![f] = Larger(@, n)] /\ wbuf' = wbuf
  BY DEF Write
<1> HIDE DEF n, l
<1>8. /\ size' \in [Files -> 0 .. MaxVer - 1] /\ wbuf' \in [Files -> SUBSET Blocks]
      /\ \A g \in Files : size[g] <= size'[g] /\ wbuf[g] \subseteq wbuf'[g]
      /\ n <= size'[f] \/ n \in wbuf'[f]
  <2>1. CASE wbuf' = [wbuf EXCEPT ![f] = @ \cup {n}] /\ size' = size
    <3>1. n \in Blocks
      BY <1>3 DEF Blocks
    <3>2. wbuf' \in [Files -> SUBSET Blocks] /\ \A g \in Files : wbuf[g] \subseteq wbuf'[g]
      BY <1>1, <2>1, <3>1 DEF TypeOK
    <3>3. n \in wbuf'[f]
      BY <1>1, <2>1 DEF TypeOK
    <3> QED BY <1>1, <1>2, <2>1, <3>2, <3>3 DEF TypeOK
  <2>2. CASE size' = [size EXCEPT ![f] = Larger(@, n)] /\ wbuf' = wbuf
    <3>1. \A g \in Files : size'[g] = IF g = f THEN Larger(size[g], n) ELSE size[g]
      BY <1>1, <2>2 DEF TypeOK
    <3>2. Larger(size[f], n) \in 0 .. MaxVer - 1 /\ size[f] <= Larger(size[f], n) /\ n <= Larger(size[f], n)
      BY <1>2, <1>3 DEF Larger
    <3>3. size' \in [Files -> 0 .. MaxVer - 1]
      BY <1>1, <2>2, <3>2 DEF TypeOK
    <3> QED BY <1>1, <1>2, <2>2, <3>1, <3>2, <3>3 DEF TypeOK
  <2> QED BY <1>7, <2>1, <2>2
<1>9. TypeOK'
  <2>1. tail' \in [Files -> 0 .. MaxVer - 1]
    BY <1>0, <1>1, <1>3 DEF TypeOK
  <2>2. pc' \in [Procs -> Labels] /\ loc' \in [Procs -> LocType]
    BY <1>0, <1>1, <1>4 DEF TypeOK, Labels
  <2>3. ver' \in 0 .. MaxVer
    BY <1>0, <1>2
  <2> QED BY <1>0, <1>1, <1>8, <2>1, <2>2, <2>3 DEF TypeOK
<1>10. CountInv'
  <2>1. ASSUME NEW g \in Files PROVE tail'[g] < ver' /\ written'[g] <= tail'[g]
    <3>1. written[g] \in Nat /\ written[g] <= tail[g] /\ tail[g] \in Nat /\ tail[g] < ver
      BY <1>1, <1>2, ThreadFacts
    <3>2. CASE g = f
      <4>1. tail'[g] = n /\ n = tail[g] + 1
        BY <1>5, <3>2 DEF n
      <4> QED BY <1>0, <1>2, <3>1, <4>1
    <3>3. CASE g # f
      BY <1>0, <1>2, <1>5, <3>1, <3>3
    <3> QED BY <3>2, <3>3
  <2>2. ASSUME NEW p \in Paths PROVE /\ attr'[p].ver \in 1 .. ver' /\ done'[p] <= attr'[p].ver
                                     /\ attr'[p].ent \in 1 .. ver' /\ made'[p] <= attr'[p].ent
    BY <1>0, <1>1, <1>2 DEF CountInv
  <2> QED BY <2>1, <2>2 DEF CountInv
<1>11. BlockInv'
  <2> SUFFICES ASSUME NEW g \in Files, NEW i \in 1 .. tail'[g]
               PROVE  i <= size'[g] \/ i \in wbuf'[g]
    BY DEF BlockInv
  <2>1. i \in 1 .. tail[g] \/ (g = f /\ i = n)
    BY <1>2, <1>5 DEF n
  <2>2. CASE i \in 1 .. tail[g]
    <3>1. i <= size[g] \/ i \in wbuf[g]
      BY <1>1, <2>2 DEF BlockInv
    <3>2. i \in Nat /\ size[g] \in Nat /\ size'[g] \in Nat
      BY <1>2, <1>8, <2>2
    <3> QED BY <1>8, <3>1, <3>2
  <2> QED BY <1>8, <2>1, <2>2
<1>12. \A u \in Threads : \A p, k : Pending(u, p, k) => Pending(u, p, k)'
  BY <1>0, <1>6 DEF Pending, Procs
<1>13. CacheInv'
  BY <1>0, <1>12, CacheInvKept, SameCache
<1>14. PageInv'
  BY <1>0, <1>1, <1>12, CurrentKept DEF PageInv
<1>15. ProcInv'
  <2>1. ASSUME NEW u \in Procs PROVE (LocOK(u, pc[u], loc[u]) /\ CountOK(pc[u], loc[u]))'
    <3>1. CASE u = t
      <4>1. t \notin Listers
        BY ThreadFacts
      <4>2. tail'[f] = n /\ n <= n
        BY <1>3, <1>5
      <4> QED BY <1>2, <1>4, <1>6, <3>1, <4>1, <4>2 DEF LocOK, CountOK
    <3>2. CASE u # t
      <4>1. LocOK(u, pc[u], loc[u]) /\ CountOK(pc[u], loc[u]) /\ loc[u] \in LocType
        BY <1>1 DEF ProcInv, TypeOK
      <4>2. pc[u] = "wclean" => loc[u].v <= tail'[loc[u].p]
        <5> SUFFICES ASSUME pc[u] = "wclean" PROVE loc[u].v <= tail'[loc[u].p]
          OBVIOUS
        <5>1. loc[u].p \in Files /\ loc[u].v \in Nat /\ loc[u].v <= tail[loc[u].p]
          BY <4>1 DEF LocOK, CountOK, LocType
        <5>2. tail[loc[u].p] <= tail'[loc[u].p] /\ tail'[loc[u].p] \in Nat
          BY <1>2, <1>5, <5>1 DEF n
        <5> QED BY <1>2, <5>1, <5>2
      <4>3. pc[u] \in {"clean", "clean2"} => loc[u].v \in 1 .. ver'
        BY <1>0, <1>2, <4>1 DEF CountOK
      <4> QED BY <1>0, <1>6, <3>2, <4>1, <4>2, <4>3 DEF LocOK, CountOK
    <3> QED BY <3>1, <3>2
  <2>2. ASSUME NEW u \in Threads PROVE (FstatOK(pc[u], loc[u]) /\ AnswerOK(pc[u], loc[u]))'
    <3>0. u \in Procs
      BY DEF Procs
    <3>1. CASE u = t
      <4>1. FstatOK(pc[u], loc[u])'
        BY <1>4, <1>6, <3>0, <3>1 DEF FstatOK
      <4>2. Current(NoDentry, f)
        BY <1>2, NoDentryCurrent
      <4>3. Current(NoDentry, f)'
        BY <1>0, <1>12, <4>2, CurrentKept
      <4> QED BY <1>4, <1>6, <3>0, <3>1, <4>1, <4>3 DEF AnswerOK, Current, Pending
    <3>2. CASE u # t
      <4>1. PICK c, k : c = pc[u] /\ k = loc[u]
        OBVIOUS
      <4>2. k \in LocType /\ (k.call = "fstat" => k.p \in Files) /\ FstatOK(c, k) /\ AnswerOK(c, k)
        BY <4>1, ThreadFacts DEF LocOK
      <4>3. FstatOK(c, k)'
        BY <1>0, <1>8, <4>2, FstatKept
      <4>4. k.p \in Paths => Current(k.d, k.p)'
        BY <1>0, <1>12, <4>2, CurrentKept DEF AnswerOK
      <4>5. pc'[u] = c /\ loc'[u] = k
        BY <1>6, <3>0, <3>2, <4>1
      <4>6. FstatOK(pc[u], loc[u])'
        BY <4>3, <4>5 DEF FstatOK
      <4>7. AnswerOK(pc[u], loc[u])'
        BY <4>2, <4>4, <4>5 DEF AnswerOK, Current, Pending
      <4> QED BY <4>6, <4>7
    <3> QED BY <3>1, <3>2
  <2> QED BY <2>1, <2>2 DEF ProcInv
<1> QED BY <1>0, <1>1, <1>9, <1>10, <1>11, <1>13, <1>14, <1>15 DEF Inv, LRUConsistent

-----------------------------------------------------------------------------
(* The calls that change attributes *)

\* The locals of a goroutine before and after a change overtakes its answer.
SameButOver(a, b) ==
    /\ b.call = a.call /\ b.p = a.p /\ b.q = a.q /\ b.idx = a.idx /\ b.cs = a.cs /\ b.v = a.v
    /\ b.snap = a.snap /\ b.d.ver = a.d.ver /\ b.d.ent = a.d.ent /\ b.d.size = a.d.size
    /\ a.d = NoDentry => b.d = NoDentry
    /\ a = NoLoc => b = NoLoc

LEMMA OvertakenFacts ==
    ASSUME NEW d \in Dentry, NEW p, NEW S, NEW E, NEW v \in Nat
    PROVE  LET e == Overtaken(d, p, S, E, v)
           IN  /\ e \in Dentry /\ e.ver = d.ver /\ e.ent = d.ent /\ e.size = d.size
               /\ e.over <=> d.over \/ (d.ver > 0 /\ ((p \in S /\ d.ver < v) \/ (p \in E /\ d.ent < v)))
               /\ d = NoDentry => e = NoDentry
<1> DEFINE e == Overtaken(d, p, S, E, v)
           o == d.over \/ (d.ver > 0 /\ ((p \in S /\ d.ver < v) \/ (p \in E /\ d.ent < v)))
<1>1. d.ver \in Nat /\ d.ent \in Nat /\ d.size \in Nat /\ d.over \in BOOLEAN
  BY DEF Dentry
<1>2. e = [d EXCEPT !.over = o] /\ o \in BOOLEAN
  BY DEF Overtaken
<1>3. d = NoDentry => o = FALSE
  BY DEF NoDentry
<1>4. (e.over <=> o) /\ e \in Dentry /\ e.ver = d.ver /\ e.ent = d.ent /\ e.size = d.size
  <2> HIDE DEF o, e
  <2> QED BY <1>1, <1>2 DEF Dentry
<1>5. d = NoDentry => e = NoDentry
  <2> SUFFICES ASSUME d = NoDentry PROVE e = NoDentry
    OBVIOUS
  <2>1. e = [NoDentry EXCEPT !.over = FALSE]
    <3> HIDE DEF o, e
    <3> QED BY <1>2, <1>3
  <2> HIDE DEF e
  <2> QED BY <2>1 DEF NoDentry
<1> QED BY <1>4, <1>5

\* What Overtake leaves of the locals and of the pages.
Overtook(S, E, v, t, l) ==
    /\ loc' \in [Procs -> LocType] /\ loc'[t] = l
    /\ \A u \in Procs : u # t => /\ SameButOver(loc[u], loc'[u])
                                 /\ loc'[u].d = Overtaken(loc[u].d, loc[u].p, S, E, v)
    /\ page' \in [Listers -> [Paths -> Dentry]]
    /\ \A m \in Listers, p \in Paths : page'[m][p] = Overtaken(page[m][p], p, S, E, v)

LEMMA OvertakeFacts ==
    ASSUME Inv, NEW S, NEW E, NEW v, v \in Nat, NEW t \in Procs, NEW l \in LocType, Overtake(S, E, v, t, l)
    PROVE  Overtook(S, E, v, t, l)
<1>0. /\ loc \in [Procs -> LocType] /\ page \in [Listers -> [Paths -> Dentry]]
  BY DEF Inv, TypeOK
<1>1. /\ loc' = [u \in Procs |-> IF u = t THEN l ELSE [loc[u] EXCEPT !.d = Overtaken(loc[u].d, loc[u].p, S, E, v)]]
      /\ page' = [m \in Listers |-> [p \in Paths |-> Overtaken(page[m][p], p, S, E, v)]]
  BY DEF Overtake
<1>2. ASSUME NEW u \in Procs, u # t
      PROVE  /\ loc'[u] \in LocType /\ SameButOver(loc[u], loc'[u])
             /\ loc'[u].d = Overtaken(loc[u].d, loc[u].p, S, E, v)
  <2>1. loc[u] \in LocType /\ loc[u].d \in Dentry
    BY <1>0 DEF LocType
  <2> DEFINE e == Overtaken(loc[u].d, loc[u].p, S, E, v)
  <2>2. e \in Dentry /\ e.ver = loc[u].d.ver /\ e.ent = loc[u].d.ent /\ e.size = loc[u].d.size /\ (loc[u].d = NoDentry => e = NoDentry)
    BY <2>1, OvertakenFacts
  <2>3. loc'[u] = [loc[u] EXCEPT !.d = e]
    BY <1>1, <1>2
  <2> HIDE DEF e
  <2>4. /\ loc'[u] \in LocType /\ loc'[u].d = e
        /\ loc'[u].call = loc[u].call /\ loc'[u].p = loc[u].p /\ loc'[u].q = loc[u].q
        /\ loc'[u].idx = loc[u].idx /\ loc'[u].cs = loc[u].cs /\ loc'[u].v = loc[u].v
        /\ loc'[u].snap = loc[u].snap
    BY <2>1, <2>2, <2>3 DEF LocType
  <2>5. loc[u] = NoLoc => loc'[u] = NoLoc
    <3> SUFFICES ASSUME loc[u] = NoLoc PROVE loc'[u] = NoLoc
      OBVIOUS
    <3>1. e = NoDentry
      BY <2>2, NoLocType
    <3> QED BY <2>3, <3>1 DEF NoLoc
  <2> QED BY <2>2, <2>4, <2>5 DEF SameButOver, e
<1>3. loc'[t] = l
  BY <1>1
<1>4. loc' \in [Procs -> LocType]
  <2>1. \A u \in Procs : loc'[u] \in LocType
    BY <1>2, <1>3
  <2>2. loc' = [u \in Procs |-> loc'[u]]
    BY <1>1
  <2> QED BY <2>1, <2>2
<1>5. \A m \in Listers, p \in Paths : /\ page'[m][p] = Overtaken(page[m][p], p, S, E, v)
                                      /\ page'[m][p] \in Dentry
  <2> TAKE m \in Listers, p \in Paths
  <2>1. page[m][p] \in Dentry
    BY <1>0
  <2> QED BY <1>1, <2>1, OvertakenFacts
<1>6. page' \in [Listers -> [Paths -> Dentry]]
  <2>1. page' = [m \in Listers |-> [p \in Paths |-> page'[m][p]]]
    BY <1>1
  <2> QED BY <1>5, <2>1
<1> QED BY <1>2, <1>3, <1>4, <1>5, <1>6 DEF Overtook

\* A call changes paths only.
LEMMA NamedPaths ==
    ASSUME NEW l, l.p \in Paths, l.call \in {"link", "rename"} => l.q \in Paths
    PROVE  Named(l) \subseteq Paths /\ Entered(l) \subseteq Paths
<1>1. \A p \in Paths : ParentOf(p) \subseteq Paths
  BY StatAssumption DEF ParentOf
<1>2. InTree(l.p) \subseteq Paths
  BY DEF InTree, Below
<1> QED BY <1>1, <1>2 DEF Named, Entered

\* A step of call t to its request's answer or back, with what it has to show.
LEMMA CallStep ==
    ASSUME Inv, NEW t \in Threads, NEW c \in {"idle", "clean", "clean2"}, NEW l \in LocType,
           pc' = [pc EXCEPT ![t] = c], loc' \in [Procs -> LocType], loc'[t] = l,
           \A u \in Procs : u # t => SameButOver(loc[u], loc'[u]),
           page' \in [Listers -> [Paths -> Dentry]],
           size' = size, wbuf' = wbuf, tail' = tail, written' = written,
           attr' \in [Paths -> [ver : Nat, ent : Nat, there : BOOLEAN]], ver' \in ver .. MaxVer,
           done' \in [Paths -> 0 .. MaxVer], made' \in [Paths -> 0 .. MaxVer],
           \A p \in Paths : attr[p].ver <= attr'[p].ver /\ attr'[p].ver \in 1 .. ver' /\ done'[p] <= attr'[p].ver,
           \A p \in Paths : attr[p].ent <= attr'[p].ent /\ attr'[p].ent \in 1 .. ver' /\ made'[p] <= attr'[p].ent,
           LocOK(t, c, l), c \in {"clean", "clean2"} =>
                              /\ l.v \in 1 .. ver' /\ \A p \in Named(l) : l.v <= attr'[p].ver
                              /\ l.call = "create" => \A p \in Entered(l) : l.v <= attr'[p].ent,
           l.p \notin Paths \/ l.d = NoDentry,
           LRUInv', \A j \in DOMAIN dlist' : EntryOK(dlist[j])', PageInv',
           \A u \in Threads : u # t /\ loc'[u].p \in Paths => Current(loc[u].d, loc[u].p)'
    PROVE  Inv'
<1>0. TypeOK /\ CountInv /\ BlockInv /\ ProcInv
  BY DEF Inv
<1>1. t \in Procs /\ t \notin Listers /\ c \in Labels /\ ver \in Nat /\ MaxVer \in Nat
  BY <1>0, ThreadFacts, StatAssumption DEF Labels, TypeOK
<1>2. \A u \in Procs : pc'[u] = IF u = t THEN c ELSE pc[u]
  BY <1>0 DEF TypeOK
<1>3. TypeOK'
  <2>1. pc' \in [Procs -> Labels]
    BY <1>0, <1>1 DEF TypeOK
  <2>2. ver' \in 0 .. MaxVer
    BY <1>1
  <2> QED BY <1>0, <2>1, <2>2 DEF TypeOK, LRUInv, Nodes
<1>4. CountInv'
  <2>1. ASSUME NEW f \in Files PROVE tail'[f] < ver' /\ written'[f] <= tail'[f]
    <3>1. tail[f] \in Nat /\ tail[f] < ver /\ written[f] <= tail[f]
      BY <1>0, StatAssumption DEF TypeOK, CountInv
    <3> QED BY <1>1, <3>1
  <2> QED BY <2>1 DEF CountInv
<1>5. BlockInv'
  BY <1>0 DEF BlockInv
<1>6. ASSUME NEW u \in Procs PROVE (LocOK(u, pc[u], loc[u]) /\ CountOK(pc[u], loc[u]))'
  <2>1. CASE u = t
    BY <1>2, <2>1 DEF LocOK, CountOK
  <2>2. CASE u # t
    <3>1. LocOK(u, pc[u], loc[u]) /\ CountOK(pc[u], loc[u]) /\ SameButOver(loc[u], loc'[u]) /\ pc'[u] = pc[u]
      BY <1>0, <1>2, <2>2 DEF ProcInv
    <3>2. LocOK(u, pc'[u], loc'[u])
      BY <3>1 DEF LocOK, SameButOver
    <3>3. /\ Named(loc'[u]) = Named(loc[u]) /\ Entered(loc'[u]) = Entered(loc[u])
          /\ loc'[u].v = loc[u].v /\ loc'[u].p = loc[u].p /\ loc'[u].call = loc[u].call
      BY <3>1, SameCall DEF SameButOver
    <3>4. pc[u] \in {"clean", "clean2"} =>
             /\ loc[u].v \in 1 .. ver' /\ \A p \in Named(loc[u]) : loc[u].v <= attr'[p].ver
             /\ loc[u].call = "create" => \A p \in Entered(loc[u]) : loc[u].v <= attr'[p].ent
      <4> SUFFICES ASSUME pc[u] \in {"clean", "clean2"}
                   PROVE  /\ loc[u].v \in 1 .. ver' /\ \A p \in Named(loc[u]) : loc[u].v <= attr'[p].ver
                          /\ loc[u].call = "create" => \A p \in Entered(loc[u]) : loc[u].v <= attr'[p].ent
        OBVIOUS
      <4>1. /\ loc[u].v \in 1 .. ver /\ \A p \in Named(loc[u]) : loc[u].v <= attr[p].ver
            /\ loc[u].call = "create" => \A p \in Entered(loc[u]) : loc[u].v <= attr[p].ent
        BY <3>1 DEF CountOK
      <4>2. loc[u].p \in Paths /\ (loc[u].call \in {"link", "rename"} => loc[u].q \in Paths)
        BY <3>1 DEF LocOK
      <4>3. \A p \in Paths : /\ attr[p].ver \in Nat /\ attr'[p].ver \in Nat
                             /\ attr[p].ent \in Nat /\ attr'[p].ent \in Nat
        BY <1>0, <1>3 DEF TypeOK
      <4>4. loc[u].v \in Nat /\ loc[u].v \in 1 .. ver'
        BY <1>1, <4>1
      <4>5. ASSUME NEW p \in Named(loc[u]) PROVE loc[u].v <= attr'[p].ver
        <5>1. p \in Paths
          BY <4>2, NamedPaths
        <5>2. loc[u].v <= attr[p].ver /\ attr[p].ver <= attr'[p].ver
          BY <4>1, <5>1
        <5> QED BY <4>3, <4>4, <5>1, <5>2
      <4>6. ASSUME loc[u].call = "create", NEW p \in Entered(loc[u]) PROVE loc[u].v <= attr'[p].ent
        <5>1. p \in Paths
          BY <4>2, NamedPaths
        <5>2. loc[u].v <= attr[p].ent /\ attr[p].ent <= attr'[p].ent
          BY <4>1, <4>6, <5>1
        <5> QED BY <4>3, <4>4, <5>1, <5>2
      <4> QED BY <4>4, <4>5, <4>6
    <3>5. CountOK(pc[u], loc[u])'
      BY <3>1, <3>3, <3>4 DEF CountOK
    <3> QED BY <3>2, <3>5 DEF LocOK
  <2> QED BY <2>1, <2>2
<1>7. ASSUME NEW u \in Threads PROVE (FstatOK(pc[u], loc[u]) /\ AnswerOK(pc[u], loc[u]))'
  <2>0. u \in Procs
    BY DEF Procs
  <2>1. CASE u = t
    <3>1. pc'[u] = c /\ loc'[u] = l
      BY <1>2, <2>0, <2>1
    <3>2. l.call # "fstat"
      <4>1. c = "idle" => l = NoLoc
        BY DEF LocOK
      <4>2. c # "idle" => l.call \notin {"none", "stat", "fstat"}
        BY DEF LocOK
      <4> QED BY <4>1, <4>2, NoLocType
    <3>3. FstatOK(pc[u], loc[u])'
      BY <3>1, <3>2 DEF FstatOK
    <3>4. AnswerOK(pc[u], loc[u])'
      <4>1. l.p \in Paths => attr'[l.p].ver \in Nat
        BY <1>3 DEF TypeOK
      <4> QED BY <3>1, <4>1 DEF AnswerOK, Current, NoDentry
    <3> QED BY <3>3, <3>4
  <2>2. CASE u # t
    <3>1. FstatOK(pc[u], loc[u]) /\ AnswerOK(pc[u], loc[u]) /\ SameButOver(loc[u], loc'[u]) /\ pc'[u] = pc[u]
      BY <1>0, <1>2, <2>0, <2>2 DEF ProcInv
    <3>2. FstatOK(pc[u], loc[u])'
      BY <3>1 DEF FstatOK, SameButOver
    <3>3. AnswerOK(pc[u], loc[u])'
      BY <2>2, <3>1 DEF AnswerOK, SameButOver
    <3> QED BY <3>2, <3>3
  <2> QED BY <2>1, <2>2
<1>8. ProcInv'
  BY <1>6, <1>7 DEF ProcInv
<1>9. CacheInv'
  BY DEF CacheInv
<1> QED BY <1>3, <1>4, <1>5, <1>8, <1>9 DEF Inv, LRUInv

\* A path that was there is cleaned by the call that changes it: the calls that do
\* not clean what they change have made it.
LEMMA CleansWhatWasThere ==
    ASSUME NEW l, NEW p, l.p \in Paths, p \in Named(l), Accepts(l), attr[p].there,
           l.call \in Calls \ {"none", "stat", "fstat", "write"}
    PROVE  p \in Cleaned(l) \/ l.call = "rename"
<1>0. \A q, r \in Paths : Parent[q] = r => <<q, r>> \in HasPrefix
  BY StatAssumption DEF ParentOf
<1>1. CASE l.call = "rmtree"
  <2>1. p \in InTree(l.p)
    BY <1>1 DEF Named
  <2>2. \A q \in Below(l.p) : q \in Paths /\ <<q, l.p>> \in HasPrefix
    BY <1>0 DEF Below
  <2>3. \A q \in Below(l.p) : \A r \in Below(q) : r \in Paths /\ <<r, l.p>> \in HasPrefix
    BY <1>0, <2>2, StatAssumption DEF Below
  <2>4. <<l.p, l.p>> \in HasPrefix
    BY StatAssumption
  <2>5. InTree(l.p) \subseteq Matching(l.p)
    BY <2>2, <2>3, <2>4 DEF InTree, Matching
  <2> QED BY <1>1, <2>1, <2>5 DEF Cleaned
<1>2. CASE l.call = "create"
  BY <1>2 DEF Named, Cleaned, Accepts, CanMake
<1>3. CASE l.call = "symlink"
  BY <1>3 DEF Named, Cleaned, Accepts, CanMake
<1>4. CASE l.call = "link"
  BY <1>4 DEF Named, Cleaned, Accepts, CanMake
<1>5. CASE l.call \in {"attr", "unlink", "open"}
  BY <1>5 DEF Named, Cleaned
<1> QED BY <1>1, <1>2, <1>3, <1>4, <1>5 DEF Calls

\* The pending calls of the other threads stay pending.
LEMMA PendingKept ==
    ASSUME NEW u, NEW p, NEW n, pc'[u] = pc[u], SameButOver(loc[u], loc'[u]), Pending(u, p, n)
    PROVE  Pending(u, p, n)'
<1>1. Named(loc'[u]) = Named(loc[u]) /\ Cleaned(loc'[u]) = Cleaned(loc[u])
  BY SameCall DEF SameButOver
<1> QED BY <1>1 DEF Pending, SameButOver

\* An answer when call t is applied and answered.
LEMMA AppliedCurrent ==
    ASSUME Inv, NEW t \in Threads, NEW l \in LocType, Apply(l), l.v = ver + 1, l.p \in Paths,
           l.call \in Calls \ {"none", "stat", "fstat", "write"},
           pc[t] = "idle", pc'[t] = "clean", loc'[t] = l, made' = made,
           \A u \in Threads : u # t => pc'[u] = pc[u] /\ loc'[u] = loc[u],
           NEW d \in Dentry, NEW p \in Paths, Current(d, p)
    PROVE  Current(d, p)'
<1>1. /\ attr[p].ver \in Nat /\ attr[p].ver <= ver /\ ver \in Nat /\ d.ver \in Nat
      /\ attr'[p].ver = (IF p \in Named(l) THEN l.v ELSE attr[p].ver)
      /\ p \notin Named(l) => attr'[p].there = attr[p].there
      /\ d.ver <= attr[p].ver
  BY DEF Inv, TypeOK, CountInv, Apply, Dentry, Current
<1>2. d.ver <= attr'[p].ver /\ d.ver < l.v
  BY <1>1
<1>3. CASE d.over \/ d.ver = 0
  BY <1>2, <1>3 DEF Current
<1>4. CASE d.ver = attr[p].ver /\ attr[p].there
  <2>1. CASE p \in Named(l)
    <3>1. p \in Cleaned(l) \/ l.call = "rename"
      BY <1>4, <2>1, CleansWhatWasThere DEF Apply
    <3>2. Pending(t, p, d.ver)'
      BY <1>2, <2>1, <3>1 DEF Pending
    <3> QED BY <1>2, <3>2 DEF Current
  <2>2. CASE p \notin Named(l)
    BY <1>1, <1>2, <1>4, <2>2 DEF Current
  <2> QED BY <2>1, <2>2
<1>5. ASSUME NEW u \in Threads, Pending(u, p, d.ver) PROVE Current(d, p)'
  <2>1. u # t
    BY <1>5 DEF Pending
  <2>2. Pending(u, p, d.ver)'
    BY <1>5, <2>1 DEF Pending
  <2> QED BY <1>2, <2>2 DEF Current
<1> QED BY <1>3, <1>4, <1>5 DEF Current

\* An answer when a call is applied and its answer is lost.
LEMMA LostCurrent ==
    ASSUME Inv, NEW t \in Threads, NEW l \in LocType, Apply(l), l.v = ver + 1,
           pc[t] = "idle", pc' = pc, made' = made,
           \A u \in Threads : u # t => SameButOver(loc[u], loc'[u]),
           NEW d \in Dentry, NEW p \in Paths, Current(d, p)
    PROVE  Current(Overtaken(d, p, Named(l), Entered(l), l.v), p)'
<1>1. PICK e : e = Overtaken(d, p, Named(l), Entered(l), l.v)
  OBVIOUS
<1>2. /\ attr[p].ver \in Nat /\ attr[p].ver <= ver /\ ver \in Nat /\ d.ver \in Nat /\ l.v \in Nat
      /\ attr'[p].ver = (IF p \in Named(l) THEN l.v ELSE attr[p].ver)
      /\ p \notin Named(l) => attr'[p].there = attr[p].there
      /\ d.ver <= attr[p].ver
  BY DEF Inv, TypeOK, CountInv, Apply, Dentry, Current
<1>3. e.ver = d.ver /\ e.ent = d.ent /\ (e.over <=> d.over \/ (d.ver > 0 /\ ((p \in Named(l) /\ d.ver < l.v) \/ (p \in Entered(l) /\ d.ent < l.v))))
  BY <1>1, <1>2, OvertakenFacts
<1>4. e.ver <= attr'[p].ver /\ d.ver < l.v
  BY <1>2, <1>3
<1>5. Current(e, p)'
  <2>1. CASE e.over \/ e.ver = 0
    BY <1>4, <2>1 DEF Current
  <2>2. CASE ~e.over /\ e.ver # 0
    <3>1. p \notin Named(l) /\ ~d.over
      BY <1>2, <1>3, <1>4, <2>2
    <3>2. CASE d.ver = attr[p].ver /\ attr[p].there
      BY <1>2, <1>3, <1>4, <3>1, <3>2 DEF Current
    <3>3. ASSUME NEW u \in Threads, Pending(u, p, d.ver) PROVE Current(e, p)'
      <4>1. u # t
        BY <3>3 DEF Pending
      <4>2. Pending(u, p, d.ver)'
        BY <3>3, <4>1, PendingKept
      <4> QED BY <1>3, <1>4, <4>2 DEF Current, Pending
    <3> QED BY <1>3, <2>2, <3>1, <3>2, <3>3 DEF Current
  <2> QED BY <2>1, <2>2
<1> QED BY <1>1, <1>5 DEF Current, Pending, Overtaken

\* An answer when call t cleans the cache: e is the answer as far as it was overtaken.
LEMMA CleanedCurrent ==
    ASSUME Inv, NEW t \in Threads, attr' = attr,
           \A u \in Threads : u # t => pc'[u] = pc[u] /\ SameButOver(loc[u], loc'[u]),
           NEW d, NEW e, NEW p, Current(d, p), e.ver = d.ver, e.ent = d.ent, d.over => e.over,
           e.over \/ made'[p] = made[p] \/ made'[p] <= e.ent,
           Pending(t, p, d.ver) => e.over \/ Pending(t, p, d.ver)'
    PROVE  Current(e, p)'
<1>1. e.ver <= attr'[p].ver /\ (e.over \/ e.ver = 0 \/ made'[p] <= e.ent)
  BY DEF Current
<1>2. CASE d.over \/ d.ver = 0 \/ (d.ver = attr[p].ver /\ attr[p].there)
  BY <1>1, <1>2 DEF Current
<1>3. ASSUME NEW u \in Threads, Pending(u, p, d.ver) PROVE Current(e, p)'
  <2>1. e.over \/ Pending(u, p, d.ver)'
    BY <1>3, PendingKept
  <2> QED BY <1>1, <2>1 DEF Current, Pending
<1> QED BY <1>2, <1>3 DEF Current

\* What the server does with a call that it accepts.
LEMMA ApplyFacts ==
    ASSUME Inv, NEW l \in LocType, Apply(l), l.v = ver + 1, ver < MaxVer
    PROVE  /\ attr' \in [Paths -> [ver : Nat, ent : Nat, there : BOOLEAN]] /\ ver' \in ver .. MaxVer /\ ver' = l.v
           /\ l.v \in 1 .. ver'
           /\ \A p \in Paths : attr[p].ver <= attr'[p].ver /\ attr'[p].ver \in 1 .. ver' /\ done[p] <= attr'[p].ver
           /\ \A p \in Paths : attr[p].ent <= attr'[p].ent /\ attr'[p].ent \in 1 .. ver' /\ made[p] <= attr'[p].ent
           /\ \A p \in Paths : /\ p \in Named(l) => attr'[p].ver = l.v
                               /\ p \in Entered(l) => attr'[p].ent = l.v
<1>0. /\ ver \in Nat /\ MaxVer \in Nat /\ ver' = l.v /\ ver' = ver + 1
      /\ attr' = [p \in Paths |-> [ver   |-> IF p \in Named(l) THEN l.v ELSE attr[p].ver,
                                   ent   |-> IF p \in Entered(l) THEN l.v ELSE attr[p].ent,
                                   there |-> IF p \in Named(l) THEN There(l, p) ELSE attr[p].there]]
  BY StatAssumption DEF Inv, TypeOK, Apply
<1>1. \A p \in Paths : /\ attr[p] \in [ver : Nat, ent : Nat, there : BOOLEAN] /\ attr[p].ver \in 1 .. ver
                       /\ done[p] <= attr[p].ver /\ done[p] \in Nat
                       /\ attr[p].ent \in 1 .. ver /\ made[p] <= attr[p].ent /\ made[p] \in Nat
  <2>1. \A p \in Paths : done[p] \in 0 .. MaxVer /\ made[p] \in 0 .. MaxVer
    BY DEF Inv, TypeOK
  <2>2. \A p \in Paths : attr[p] \in [ver : Nat, ent : Nat, there : BOOLEAN]
    BY DEF Inv, TypeOK
  <2>3. \A p \in Paths : done[p] \in Nat /\ made[p] \in Nat
    BY <1>0, <2>1
  <2> QED BY <2>2, <2>3 DEF Inv, CountInv
<1>2. \A p \in Paths : There(l, p) \in BOOLEAN
  BY DEF There
<1>3. attr' \in [Paths -> [ver : Nat, ent : Nat, there : BOOLEAN]]
  BY <1>0, <1>1, <1>2
<1>4. \A p \in Paths : /\ attr'[p].ver = IF p \in Named(l) THEN l.v ELSE attr[p].ver
                       /\ attr'[p].ent = IF p \in Entered(l) THEN l.v ELSE attr[p].ent
  BY <1>0
<1>5. ASSUME NEW p \in Paths PROVE attr[p].ver <= attr'[p].ver /\ attr'[p].ver \in 1 .. ver' /\ done[p] <= attr'[p].ver
  BY <1>0, <1>1, <1>4
<1>6. ASSUME NEW p \in Paths PROVE attr[p].ent <= attr'[p].ent /\ attr'[p].ent \in 1 .. ver' /\ made[p] <= attr'[p].ent
  BY <1>0, <1>1, <1>4
<1> QED BY <1>0, <1>3, <1>4, <1>5, <1>6

LEMMA CallKeepsInv ==
    ASSUME Inv, NEW t \in Threads, NEW call \in Calls \ {"none", "stat", "fstat", "write"},
           NEW p \in Paths, NEW q \in Paths \cup {NoPath}, call \in {"link", "rename"} => q \in Paths,
           Call(t, call, p, q)
    PROVE  Inv'
<1>l. PICK l : l = [NoLoc EXCEPT !.call = call, !.p = p, !.q = q, !.v = ver + 1]
  OBVIOUS
<1>0. /\ pc[t] = "idle" /\ ver < MaxVer /\ Apply(l) /\ (Answered(t, l) \/ Lost(t, l))
      /\ size' = size /\ wbuf' = wbuf /\ tail' = tail /\ done' = done /\ made' = made /\ written' = written
  BY <1>l DEF Call
<1>1. /\ l.call = call /\ l.p = p /\ l.q = q /\ l.v = ver + 1 /\ l.d = NoDentry /\ ver \in Nat /\ l.v \in Nat
      /\ l \in LocType
  <2>1. ver \in Nat
    BY StatAssumption DEF Inv, TypeOK
  <2>2. l.call = call /\ l.p = p /\ l.q = q /\ l.v = ver + 1 /\ l.d = NoDentry
    BY <1>l DEF NoLoc
  <2>3. NoLoc \in LocType /\ call \in Calls /\ ver + 1 \in Nat
    BY <2>1, NoLocType
  <2>4. l \in LocType
    BY <1>l, <2>3 DEF LocType
  <2> QED BY <2>1, <2>2, <2>3, <2>4
<1>2. /\ TypeOK /\ t \in Procs /\ t \notin Listers /\ Named(l) \subseteq Paths /\ Entered(l) \subseteq Paths
      /\ done' \in [Paths -> 0 .. MaxVer] /\ made' \in [Paths -> 0 .. MaxVer] /\ loc[t] = NoLoc
  <2>1. Named(l) \subseteq Paths /\ Entered(l) \subseteq Paths
    BY <1>1, NamedPaths
  <2> QED BY <1>0, <2>1, ThreadFacts DEF Inv, TypeOK, LocOK
<1>3. /\ attr' \in [Paths -> [ver : Nat, ent : Nat, there : BOOLEAN]] /\ ver' \in ver .. MaxVer /\ l.v \in 1 .. ver'
      /\ \A r \in Paths : attr[r].ver <= attr'[r].ver /\ attr'[r].ver \in 1 .. ver' /\ done'[r] <= attr'[r].ver
      /\ \A r \in Paths : attr[r].ent <= attr'[r].ent /\ attr'[r].ent \in 1 .. ver' /\ made'[r] <= attr'[r].ent
      /\ \A r \in Named(l) : l.v <= attr'[r].ver
      /\ \A r \in Entered(l) : l.v <= attr'[r].ent
  <2>1. /\ attr' \in [Paths -> [ver : Nat, ent : Nat, there : BOOLEAN]] /\ ver' \in ver .. MaxVer /\ l.v \in 1 .. ver'
        /\ \A r \in Paths : attr[r].ver <= attr'[r].ver /\ attr'[r].ver \in 1 .. ver' /\ done[r] <= attr'[r].ver
        /\ \A r \in Paths : attr[r].ent <= attr'[r].ent /\ attr'[r].ent \in 1 .. ver' /\ made[r] <= attr'[r].ent
        /\ \A r \in Paths : (r \in Named(l) => attr'[r].ver = l.v) /\ (r \in Entered(l) => attr'[r].ent = l.v)
    BY <1>0, <1>1, ApplyFacts
  <2>2. l.v <= l.v
    BY <1>1
  <2>3. (\A r \in Named(l) : l.v <= attr'[r].ver) /\ (\A r \in Entered(l) : l.v <= attr'[r].ent)
    BY <1>2, <2>1, <2>2
  <2> QED BY <1>0, <2>1, <2>3
<1>4. CASE Answered(t, l)
  <2>1. /\ loc' = [loc EXCEPT ![t] = l] /\ pc' = [pc EXCEPT ![t] = "clean"] /\ page' = page
        /\ lruVars' = lruVars /\ dlist' = dlist /\ cacheMap' = cacheMap
    BY <1>4 DEF Answered, Goto, lruVars
  <2>2. /\ loc' \in [Procs -> LocType] /\ loc'[t] = l /\ pc'[t] = "clean"
        /\ \A u \in Procs : u # t => loc'[u] = loc[u] /\ pc'[u] = pc[u]
    BY <1>1, <1>2, <2>1 DEF TypeOK
  <2>3. \A u \in Procs : u # t => SameButOver(loc[u], loc'[u])
    BY <2>2 DEF SameButOver
  <2>4. \A u \in Threads : u # t => pc'[u] = pc[u] /\ loc'[u] = loc[u]
    BY <2>2 DEF Procs
  <2>5. ASSUME NEW d \in Dentry, NEW r \in Paths, Current(d, r) PROVE Current(d, r)'
    BY <1>0, <1>1, <2>2, <2>4, <2>5, AppliedCurrent
  <2>6. LRUInv'
    BY <2>1, SameCache
  <2>7. ASSUME NEW j \in DOMAIN dlist' PROVE EntryOK(dlist[j])'
    <3>1. PICK d, r : d = dlist[j].Value /\ r = dlist[j].Key
      OBVIOUS
    <3>2. d \in Dentry /\ r \in Paths /\ d.ver > 0 /\ Current(d, r)
      BY <2>1, <3>1, LRUFromInv, ListFacts DEF Inv, CacheInv, EntryOK, Nodes
    <3>3. Current(d, r)'
      BY <2>5, <3>2
    <3> QED BY <2>1, <3>1, <3>2, <3>3 DEF EntryOK, Current, Pending
  <2>8. PageInv'
    <3> SUFFICES ASSUME NEW m \in Listers, NEW r \in Paths PROVE Current(page[m][r], r)'
      BY DEF PageInv
    <3>1. PICK d : d = page[m][r]
      OBVIOUS
    <3>2. d \in Dentry /\ Current(d, r)
      BY <1>2, <3>1 DEF TypeOK, Inv, PageInv
    <3>3. Current(d, r)'
      BY <2>5, <3>2
    <3> QED BY <2>1, <3>1, <3>3 DEF Current, Pending
  <2>9. ASSUME NEW u \in Threads, u # t, loc'[u].p \in Paths PROVE Current(loc[u].d, loc[u].p)'
    <3>1. PICK d, r : d = loc[u].d /\ r = loc[u].p
      OBVIOUS
    <3>2. d \in Dentry /\ r \in Paths /\ Current(d, r) /\ loc'[u] = loc[u]
      BY <2>4, <2>9, <3>1, ThreadFacts DEF AnswerOK, LocType
    <3>3. Current(d, r)'
      BY <2>5, <3>2
    <3> QED BY <3>1, <3>2, <3>3 DEF Current, Pending
  <2>10. LocOK(t, "clean", l)
    BY <1>1, <1>2 DEF LocOK
  <2>11. page' \in [Listers -> [Paths -> Dentry]] /\ "clean" \in {"idle", "clean", "clean2"}
    BY <1>2, <2>1 DEF TypeOK
  <2> QED BY <1>0, <1>1, <1>2, <1>3, <2>1, <2>2, <2>3, <2>6, <2>7, <2>8, <2>9, <2>10, <2>11, CallStep
<1>5. CASE Lost(t, l)
  <2>1. /\ Overtake(Named(l), Entered(l), l.v, t, NoLoc) /\ cacheMap' = cacheMap /\ pc' = pc
        /\ dlist' = [i \in DOMAIN dlist |->
                        [dlist[i] EXCEPT !.Value = Overtaken(dlist[i].Value, dlist[i].Key, Named(l), Entered(l), l.v)]]
    BY <1>5 DEF Lost
  <2>2. /\ loc' \in [Procs -> LocType] /\ loc'[t] = NoLoc /\ pc' = [pc EXCEPT ![t] = "idle"]
        /\ \A u \in Procs : u # t => /\ SameButOver(loc[u], loc'[u])
                                     /\ loc'[u].d = Overtaken(loc[u].d, loc[u].p, Named(l), Entered(l), l.v)
        /\ page' \in [Listers -> [Paths -> Dentry]]
        /\ \A m \in Listers, r \in Paths : page'[m][r] = Overtaken(page[m][r], r, Named(l), Entered(l), l.v)
    <3>1. pc' = [pc EXCEPT ![t] = "idle"]
      BY <1>0, <2>1, ThreadFacts
    <3>2. Overtook(Named(l), Entered(l), l.v, t, NoLoc)
      BY <1>1, <1>2, <2>1, OvertakeFacts, NoLocType
    <3> QED BY <3>1, <3>2 DEF Overtook
  <2>3. \A u \in Threads : u # t => SameButOver(loc[u], loc'[u])
    BY <2>2 DEF Procs
  <2>4. ASSUME NEW d \in Dentry, NEW r \in Paths, Current(d, r), NEW e, e = Overtaken(d, r, Named(l), Entered(l), l.v)
        PROVE  Current(e, r)'
    <3>1. Current(Overtaken(d, r, Named(l), Entered(l), l.v), r)'
      BY <1>0, <1>1, <2>1, <2>3, <2>4, LostCurrent
    <3> QED BY <2>4, <3>1 DEF Current, Pending, Overtaken
  <2>5. \A i \in DOMAIN dlist :
           /\ dlist[i] \in Nodes /\ dlist[i].Key \in Paths /\ dlist[i].Value \in Dentry
           /\ dlist[i].Value.ver > 0 /\ Current(dlist[i].Value, dlist[i].Key)
    BY LRUFromInv, ListFacts DEF Inv, CacheInv, EntryOK, Nodes
  <2>6. ASSUME NEW i \in DOMAIN dlist
        PROVE  /\ dlist'[i] \in Nodes /\ dlist'[i].Key = dlist[i].Key
               /\ dlist'[i].Value = Overtaken(dlist[i].Value, dlist[i].Key, Named(l), Entered(l), l.v)
               /\ dlist'[i].Value.ver = dlist[i].Value.ver
    <3>1. PICK e : e = Overtaken(dlist[i].Value, dlist[i].Key, Named(l), Entered(l), l.v)
      OBVIOUS
    <3>2. e \in Dentry /\ e.ver = dlist[i].Value.ver
      BY <1>1, <2>5, <3>1, OvertakenFacts
    <3>3. dlist'[i] = [dlist[i] EXCEPT !.Value = e]
      BY <2>1, <3>1
    <3> QED BY <2>5, <3>1, <3>2, <3>3 DEF Nodes
  <2>7. DOMAIN dlist' = DOMAIN dlist /\ Len(dlist) \in Nat /\ DOMAIN dlist = 1 .. Len(dlist)
    BY <2>1, LRUFromInv, ListFacts
  <2>8. LRUInv'
    <3>1. dlist' = [i \in 1 .. Len(dlist) |-> dlist'[i]]
      BY <2>1, <2>7
    <3>2. dlist' \in [1 .. Len(dlist) -> Nodes]
      BY <2>6, <2>7, <3>1
    <3>3. dlist' \in Seq(Nodes) /\ Len(dlist') = Len(dlist)
      BY <2>7, <3>2
    <3>4. cacheMap' = {dlist'[i].Key : i \in DOMAIN dlist'}
      BY <2>1, <2>6, <2>7, LRUFromInv DEF LRUInv, LRUConsistent
    <3>5. \A i, j \in DOMAIN dlist' : dlist'[i].Key = dlist'[j].Key => i = j
      BY <2>6, <2>7, LRUFromInv DEF LRUInv, LRUConsistent
    <3>6. Len(dlist') <= Capacity /\ cacheMap' \subseteq Paths
      BY <2>1, <3>3, LRUFromInv DEF LRUInv, LRUConsistent
    <3> QED BY <3>3, <3>4, <3>5, <3>6 DEF LRUInv, LRUConsistent
  <2>9. ASSUME NEW j \in DOMAIN dlist' PROVE EntryOK(dlist[j])'
    <3>1. PICK d, e, r : d = dlist[j].Value /\ r = dlist[j].Key /\ e = Overtaken(d, r, Named(l), Entered(l), l.v)
      OBVIOUS
    <3>2. Current(e, r)'
      BY <2>4, <2>5, <2>7, <3>1
    <3>3. dlist'[j].Value = e /\ dlist'[j].Key = r /\ e.ver > 0
      BY <2>5, <2>6, <2>7, <3>1
    <3> QED BY <3>2, <3>3 DEF EntryOK, Current, Pending
  <2>10. PageInv'
    <3> SUFFICES ASSUME NEW m \in Listers, NEW r \in Paths PROVE Current(page[m][r], r)'
      BY DEF PageInv
    <3>1. PICK d, e : d = page[m][r] /\ e = Overtaken(d, r, Named(l), Entered(l), l.v)
      OBVIOUS
    <3>2. d \in Dentry /\ Current(d, r) /\ page'[m][r] = e
      BY <1>2, <2>2, <3>1 DEF TypeOK, Inv, PageInv
    <3>3. Current(e, r)'
      BY <2>4, <3>1, <3>2
    <3> QED BY <3>2, <3>3 DEF Current, Pending
  <2>11. ASSUME NEW u \in Threads, u # t, loc'[u].p \in Paths PROVE Current(loc[u].d, loc[u].p)'
    <3>1. PICK d, e, r : d = loc[u].d /\ r = loc[u].p /\ e = Overtaken(d, r, Named(l), Entered(l), l.v)
      OBVIOUS
    <3>2. u \in Procs /\ loc'[u].p = r /\ loc'[u].d = e
      BY <2>2, <2>11, <3>1, ThreadFacts DEF SameButOver
    <3>3. d \in Dentry /\ r \in Paths /\ Current(d, r)
      BY <2>11, <3>1, <3>2, ThreadFacts DEF AnswerOK, LocType
    <3>4. Current(e, r)'
      BY <2>4, <3>1, <3>3
    <3> QED BY <3>2, <3>4 DEF Current, Pending
  <2>12. LocOK(t, "idle", NoLoc) /\ NoLoc \in LocType /\ NoLoc.p \notin Paths /\ "idle" \in {"idle", "clean", "clean2"}
    BY IdleOK, NoLocType, StatAssumption
  <2>13. "idle" \notin {"clean", "clean2"}
    OBVIOUS
  <2> QED BY <1>0, <1>2, <1>3, <2>2, <2>8, <2>9, <2>10, <2>11, <2>12, <2>13, CallStep
<1> QED BY <1>0, <1>4, <1>5

\* What is known of a call that has yet to clean the cache.
LEMMA CleanFacts ==
    ASSUME Inv, NEW t \in Threads, pc[t] \in {"clean", "clean2"}
    PROVE  /\ t \in Procs /\ loc[t] \in LocType /\ loc[t].p \in Paths /\ loc[t].d = NoDentry
           /\ loc[t].v \in Nat /\ loc[t].v \in 1 .. ver /\ \A p \in Named(loc[t]) : loc[t].v <= attr[p].ver
           /\ loc[t].call = "create" => \A p \in Entered(loc[t]) : loc[t].v <= attr[p].ent
           /\ Named(loc[t]) \subseteq Paths
           /\ loc[t].call = "rename" => loc[t].q \in Paths /\ Named(loc[t]) = {loc[t].p, loc[t].q}
           /\ pc[t] = "clean2" => loc[t].call = "rename"
           /\ \A p, n : Pending(t, p, n) => p \in Named(loc[t])
<1>1. /\ t \in Procs /\ loc[t] \in LocType /\ loc[t].p \in Paths /\ loc[t].d = NoDentry /\ loc[t].v \in Nat
      /\ loc[t].v \in 1 .. ver /\ \A p \in Named(loc[t]) : loc[t].v <= attr[p].ver
      /\ loc[t].call = "create" => \A p \in Entered(loc[t]) : loc[t].v <= attr[p].ent
      /\ loc[t].call \in {"link", "rename"} => loc[t].q \in Paths
      /\ pc[t] = "clean2" => loc[t].call = "rename"
  BY ThreadFacts DEF LocOK, CountOK, LocType
<1>2. Named(loc[t]) \subseteq Paths
  BY <1>1, NamedPaths
<1>3. loc[t].call = "rename" => Named(loc[t]) = {loc[t].p, loc[t].q}
  BY DEF Named
<1>4. \A p, n : Pending(t, p, n) => p \in Named(loc[t])
  BY <1>1, <1>3 DEF Pending
<1> QED BY <1>1, <1>2, <1>3, <1>4

\* An answer that the step of call t overtakes, or does not concern.
LEMMA OvertakenCurrent ==
    ASSUME Inv, NEW t \in Threads, pc[t] \in {"clean", "clean2"}, attr' = attr, NEW S, NEW E, NEW v, v = loc[t].v,
           \A u \in Threads : u # t => pc'[u] = pc[u] /\ SameButOver(loc[u], loc'[u]),
           NEW p \in Paths, NEW d \in Dentry, Current(d, p),
           Pending(t, p, d.ver) => p \in S \/ Pending(t, p, d.ver)',
           made'[p] = made[p] \/ (p \in E /\ made'[p] = v),
           NEW e, e = Overtaken(d, p, S, E, v)
    PROVE  Current(e, p)'
<1>1. v \in Nat /\ d.ver \in Nat /\ d.ent \in Nat
  BY CleanFacts DEF Dentry
<1>2. e.ver = d.ver /\ e.ent = d.ent /\ (e.over <=> d.over \/ (d.ver > 0 /\ ((p \in S /\ d.ver < v) \/ (p \in E /\ d.ent < v))))
  BY <1>1, OvertakenFacts
<1>3. CASE d.ver = 0
  BY <1>2, <1>3 DEF Current
<1>4. CASE d.ver # 0
  <2>1. Pending(t, p, d.ver) => e.over \/ Pending(t, p, d.ver)'
    <3> SUFFICES ASSUME Pending(t, p, d.ver), p \in S PROVE e.over
      OBVIOUS
    <3>1. d.ver < v
      BY DEF Pending
    <3> QED BY <1>1, <1>2, <1>4, <3>1
  <2>2. e.over \/ made'[p] = made[p] \/ made'[p] <= e.ent
    BY <1>1, <1>2, <1>4
  <2> QED BY <1>2, <2>1, <2>2, CleanedCurrent
<1> QED BY <1>3, <1>4

\* A step of call t, which made change v, that removes the paths of R from the cache
\* and overtakes the answers for the own attributes of S and the entries of E.
Removal(t, R, S, E, v, c, l) ==
    /\ pc[t] \in {"clean", "clean2"} /\ RemoveAll(R)
    /\ c \in {"idle", "clean2"} /\ l \in LocType /\ pc' = [pc EXCEPT ![t] = c]
    /\ v = loc[t].v /\ Overtake(S, E, v, t, l) /\ LocOK(t, c, l)
    /\ l = NoLoc \/ l = loc[t]
    /\ c = "clean2" => l = loc[t]
    /\ attr' = attr /\ size' = size /\ wbuf' = wbuf /\ ver' = ver /\ tail' = tail /\ written' = written
    /\ done' \in [Paths -> 0 .. MaxVer] /\ made' \in [Paths -> 0 .. MaxVer]
    /\ \A p \in Paths : done'[p] <= attr[p].ver
    /\ \A p \in Paths : made'[p] = made[p] \/ (p \in R /\ p \in E /\ made'[p] = v)
    /\ \A p \in Paths : made'[p] <= attr[p].ent
    /\ \A p, n : Pending(t, p, n) => (p \in R /\ p \in S) \/ Pending(t, p, n)'

LEMMA RemoveStep ==
    ASSUME Inv, NEW t \in Threads, NEW R, NEW S, NEW E, NEW v, NEW c, NEW l, Removal(t, R, S, E, v, c, l)
    PROVE  Inv'
<1>a. /\ pc[t] \in {"clean", "clean2"} /\ RemoveAll(R)
      /\ c \in {"idle", "clean2"} /\ l \in LocType /\ pc' = [pc EXCEPT ![t] = c]
      /\ v = loc[t].v /\ Overtake(S, E, v, t, l) /\ LocOK(t, c, l)
      /\ l = NoLoc \/ l = loc[t]
      /\ c = "clean2" => l = loc[t]
      /\ attr' = attr /\ size' = size /\ wbuf' = wbuf /\ ver' = ver /\ tail' = tail /\ written' = written
      /\ done' \in [Paths -> 0 .. MaxVer] /\ made' \in [Paths -> 0 .. MaxVer]
      /\ \A p \in Paths : done'[p] <= attr[p].ver
      /\ \A p \in Paths : made'[p] = made[p] \/ (p \in R /\ p \in E /\ made'[p] = v)
      /\ \A p \in Paths : made'[p] <= attr[p].ent
      /\ \A p, n : Pending(t, p, n) => (p \in R /\ p \in S) \/ Pending(t, p, n)'
  BY DEF Removal
<1> USE <1>a
<1>0. /\ TypeOK /\ CountInv /\ t \in Procs /\ v \in Nat /\ ver \in Nat /\ MaxVer \in Nat /\ ver \in 0 .. MaxVer
  BY CleanFacts, StatAssumption DEF Inv, TypeOK
<1>1. Overtook(S, E, v, t, l)
  BY <1>0, OvertakeFacts
<1>2. /\ loc' \in [Procs -> LocType] /\ loc'[t] = l
      /\ \A u \in Procs : u # t => /\ SameButOver(loc[u], loc'[u])
                                   /\ loc'[u].d = Overtaken(loc[u].d, loc[u].p, S, E, v)
      /\ page' \in [Listers -> [Paths -> Dentry]]
      /\ \A m \in Listers, p \in Paths : page'[m][p] = Overtaken(page[m][p], p, S, E, v)
  BY <1>1 DEF Overtook
<1>3. \A u \in Threads : u # t => pc'[u] = pc[u] /\ SameButOver(loc[u], loc'[u])
  BY <1>0, <1>2 DEF TypeOK, Procs
<1>4. /\ LRUInv'
      /\ \A j \in DOMAIN dlist' : dlist'[j].Key \notin R /\ \E i \in DOMAIN dlist : dlist'[j] = dlist[i]
  BY LRUFromInv, RemoveKeeps
<1>5. ASSUME NEW j \in DOMAIN dlist' PROVE EntryOK(dlist[j])'
  <2>1. PICK i \in DOMAIN dlist : dlist'[j] = dlist[i]
    BY <1>4
  <2>2. PICK d, p : d = dlist[i].Value /\ p = dlist[i].Key
    OBVIOUS
  <2>3. d.ver > 0 /\ Current(d, p) /\ p \notin R /\ p \in Paths
    BY <1>4, <2>1, <2>2, LRUFromInv, ListFacts DEF Inv, CacheInv, EntryOK, Nodes
  <2>4. Current(d, p)'
    BY <1>3, <2>3, CleanedCurrent
  <2> QED BY <2>1, <2>2, <2>3, <2>4 DEF EntryOK, Current, Pending
<1>6. ASSUME NEW d \in Dentry, NEW p \in Paths, Current(d, p), NEW e, e = Overtaken(d, p, S, E, v)
      PROVE  Current(e, p)'
  BY <1>3, <1>6, OvertakenCurrent
<1>7. PageInv'
  <2> SUFFICES ASSUME NEW m \in Listers, NEW r \in Paths PROVE Current(page[m][r], r)'
    BY DEF PageInv
  <2>1. PICK d, e : d = page[m][r] /\ e = Overtaken(d, r, S, E, v)
    OBVIOUS
  <2>2. d \in Dentry /\ Current(d, r) /\ page'[m][r] = e
    BY <1>0, <1>2, <2>1 DEF TypeOK, Inv, PageInv
  <2>3. Current(e, r)'
    BY <1>6, <2>1, <2>2
  <2> QED BY <2>2, <2>3 DEF Current, Pending
<1>8. ASSUME NEW u \in Threads, u # t, loc'[u].p \in Paths PROVE Current(loc[u].d, loc[u].p)'
  <2>1. PICK d, e, r : d = loc[u].d /\ r = loc[u].p /\ e = Overtaken(d, r, S, E, v)
    OBVIOUS
  <2>2. u \in Procs /\ loc'[u].p = r /\ loc'[u].d = e
    BY <1>2, <1>8, <2>1, ThreadFacts DEF SameButOver
  <2>3. d \in Dentry /\ r \in Paths /\ Current(d, r)
    BY <1>8, <2>1, <2>2, ThreadFacts DEF AnswerOK, LocType
  <2>4. Current(e, r)'
    BY <1>6, <2>1, <2>3
  <2> QED BY <2>2, <2>4 DEF Current, Pending
<1>9. l.p \notin Paths \/ l.d = NoDentry
  BY CleanFacts, NoLocType, StatAssumption
<1>10. c \in {"clean", "clean2"} => /\ l.v \in 1 .. ver' /\ \A p \in Named(l) : l.v <= attr'[p].ver
                                    /\ l.call = "create" => \A p \in Entered(l) : l.v <= attr'[p].ent
  BY CleanFacts
<1>11. /\ attr' \in [Paths -> [ver : Nat, ent : Nat, there : BOOLEAN]] /\ ver' \in ver .. MaxVer
       /\ \A p \in Paths : attr[p].ver <= attr'[p].ver /\ attr'[p].ver \in 1 .. ver' /\ done'[p] <= attr'[p].ver
       /\ \A p \in Paths : attr[p].ent <= attr'[p].ent /\ attr'[p].ent \in 1 .. ver' /\ made'[p] <= attr'[p].ent
  <2>1. /\ attr \in [Paths -> [ver : Nat, ent : Nat, there : BOOLEAN]]
        /\ \A p \in Paths : attr[p].ver \in 1 .. ver /\ attr[p].ent \in 1 .. ver
    BY <1>0 DEF TypeOK, CountInv
  <2>2. ver \in ver .. MaxVer
    BY <1>0
  <2>3. \A p \in Paths : attr[p].ver <= attr[p].ver /\ attr[p].ent <= attr[p].ent
    BY <1>0, <2>1
  <2> QED BY <2>1, <2>2, <2>3
<1>12. c \in {"idle", "clean", "clean2"}
  OBVIOUS
<1>13. \A u \in Procs : u # t => SameButOver(loc[u], loc'[u])
  BY <1>2
<1> QED BY <1>2, <1>4, <1>5, <1>7, <1>8, <1>9, <1>10, <1>11, <1>12, <1>13, CallStep, ZenonT(120)

\* The last step of a call.
LEMMA ReturnStep ==
    ASSUME Inv, NEW t \in Threads, pc[t] \in {"clean", "clean2"}, NEW R, RemoveAll(R), CallReturns(t),
           attr' = attr, size' = size, wbuf' = wbuf, ver' = ver, tail' = tail, written' = written,
           loc[t].call = "create" => Entered(loc[t]) \subseteq R,
           \A p, n : Pending(t, p, n) => p \in R
    PROVE  Inv'
<1>1. PICK S, E, v : S = Named(loc[t]) /\ E = Entered(loc[t]) /\ v = loc[t].v
  OBVIOUS
<1>2. /\ done' = [p \in Paths |-> IF p \in S THEN Larger(done[p], v) ELSE done[p]]
      /\ made' = [p \in Paths |-> IF loc[t].call = "create" /\ p \in E THEN Larger(made[p], v) ELSE made[p]]
      /\ Overtake(S, E, v, t, NoLoc) /\ pc' = [pc EXCEPT ![t] = "idle"]
  BY <1>1 DEF CallReturns, Goto
<1>3. \A p, n : Pending(t, p, n) => p \in R /\ p \in S
  BY <1>1, CleanFacts
<1>4. /\ v \in Nat /\ v \in 1 .. ver /\ \A p \in S : v <= attr[p].ver
      /\ loc[t].call = "create" => \A p \in E : v <= attr[p].ent /\ p \in R
  BY <1>1, CleanFacts
<1>5. \A p \in Paths : done[p] \in 0 .. MaxVer /\ done[p] <= attr[p].ver /\ ver \in 0 .. MaxVer /\ MaxVer \in Nat
  BY StatAssumption DEF Inv, TypeOK, CountInv
<1>6. \A p \in Paths : done'[p] \in 0 .. MaxVer /\ done'[p] <= attr[p].ver
  <2> TAKE p \in Paths
  <2>1. CASE p \in S
    <3>1. done'[p] = Larger(done[p], v) /\ v <= attr[p].ver
      BY <1>2, <1>4, <2>1
    <3>2. v \in 0 .. MaxVer
      BY <1>4, <1>5
    <3>3. Larger(done[p], v) \in {done[p], v}
      BY DEF Larger
    <3> QED BY <1>5, <3>1, <3>2, <3>3
  <2>2. CASE p \notin S
    BY <1>2, <1>5, <2>2
  <2> QED BY <2>1, <2>2
<1>7. \A p \in Paths : /\ made'[p] = made[p] \/ (p \in R /\ p \in E /\ made'[p] = v /\ v <= attr[p].ent)
                       /\ made'[p] \in 0 .. MaxVer /\ made'[p] <= attr[p].ent
  <2> TAKE p \in Paths
  <2>1. made[p] \in 0 .. MaxVer /\ v \in 0 .. MaxVer /\ made[p] <= attr[p].ent
    BY <1>4, <1>5 DEF Inv, TypeOK, CountInv
  <2>2. Larger(made[p], v) \in {made[p], v}
    BY DEF Larger
  <2> QED BY <1>2, <1>4, <2>1, <2>2
<1>8. done' \in [Paths -> 0 .. MaxVer] /\ made' \in [Paths -> 0 .. MaxVer]
  <2>1. done' = [p \in Paths |-> done'[p]] /\ made' = [p \in Paths |-> made'[p]]
    BY <1>2
  <2> QED BY <1>6, <1>7, <2>1
<1>9. LocOK(t, "idle", NoLoc) /\ NoLoc \in LocType /\ "idle" \in {"idle", "clean2"} /\ "idle" # "clean2"
  BY IdleOK, NoLocType
<1>10. /\ v = loc[t].v /\ (\A p \in Paths : done'[p] <= attr[p].ver)
       /\ \A p \in Paths : made'[p] = made[p] \/ (p \in R /\ p \in E /\ made'[p] = v)
       /\ \A p \in Paths : made'[p] <= attr[p].ent
  BY <1>1, <1>6, <1>7
<1>11. \A p, n : Pending(t, p, n) => (p \in R /\ p \in S) \/ Pending(t, p, n)'
  BY <1>3
<1>12. PICK c, l : c = "idle" /\ l = NoLoc
  OBVIOUS
<1>13. /\ c \in {"idle", "clean2"} /\ l \in LocType /\ LocOK(t, c, l) /\ Overtake(S, E, v, t, l)
       /\ pc' = [pc EXCEPT ![t] = c] /\ (l = NoLoc \/ l = loc[t]) /\ c # "clean2"
  BY <1>2, <1>9, <1>12
<1>14. Removal(t, R, S, E, v, c, l)
  BY <1>8, <1>10, <1>11, <1>13 DEF Removal
<1> QED BY <1>14, RemoveStep

LEMMA CleanStep ==
    ASSUME Inv, NEW t \in Threads, Clean(t)
    PROVE  Inv'
<1>0. /\ pc[t] = "clean" /\ RemoveAll(Cleaned(loc[t]))
      /\ attr' = attr /\ size' = size /\ wbuf' = wbuf /\ ver' = ver /\ tail' = tail /\ written' = written
  BY DEF Clean, serverVars
<1>1. CASE loc[t].call # "rename"
  <2>1. \A p, n : Pending(t, p, n) => p \in Cleaned(loc[t])
    BY <1>0, <1>1 DEF Pending
  <2>2. CallReturns(t)
    BY <1>1 DEF Clean
  <2>3. PICK R : R = Cleaned(loc[t])
    OBVIOUS
  <2>4. RemoveAll(R) /\ \A p, n : Pending(t, p, n) => p \in R
    BY <1>0, <2>1, <2>3
  <2>5. loc[t].call = "create" => Entered(loc[t]) \subseteq R
    BY <2>3 DEF Entered, Cleaned
  <2> QED BY <1>0, <2>2, <2>4, <2>5, ReturnStep
<1>2. CASE loc[t].call = "rename"
  <2>1. PICK l, v, R, S, E : l = loc[t] /\ v = loc[t].v /\ R = Cleaned(loc[t]) /\ S = {loc[t].p} /\ E = {}
    OBVIOUS
  <2>2. RemoveAll(R) /\ Overtake(S, E, v, t, l) /\ pc' = [pc EXCEPT ![t] = "clean2"] /\ done' = done /\ made' = made
    BY <1>0, <1>2, <2>1 DEF Clean, Goto
  <2>3. l \in LocType /\ l.p \in Paths /\ l.p \in R /\ Named(l) = {l.p, l.q} /\ t \in Procs
    <3>1. l.p \in Matching(l.p)
      BY <1>0, <2>1, CleanFacts, StatAssumption DEF Matching
    <3> QED BY <1>0, <1>2, <2>1, <3>1, CleanFacts DEF Cleaned
  <2>4. LocOK(t, "clean2", l)
    <3>1. LocOK(t, "clean", l) /\ t \notin Listers
      BY <1>0, <2>1, ThreadFacts
    <3> QED BY <1>2, <2>1, <3>1 DEF LocOK
  <2>5. loc'[t] = l /\ pc'[t] = "clean2"
    BY <2>2, <2>3 DEF Overtake, Inv, TypeOK
  <2>6. ASSUME NEW p, NEW n, Pending(t, p, n) PROVE (p \in R /\ p \in S) \/ Pending(t, p, n)'
    <3>1. n < l.v /\ (p = l.p \/ p = l.q)
      BY <1>0, <2>1, <2>3, <2>6 DEF Pending
    <3>2. CASE p = l.p
      BY <2>1, <2>3, <3>2
    <3>3. CASE p = l.q
      BY <2>5, <3>1, <3>3 DEF Pending
    <3> QED BY <3>1, <3>2, <3>3
  <2>7. done' \in [Paths -> 0 .. MaxVer] /\ made' \in [Paths -> 0 .. MaxVer] /\ \A p \in Paths : done'[p] <= attr[p].ver /\ made'[p] = made[p] /\ made'[p] <= attr[p].ent
    BY <2>2 DEF Inv, TypeOK, CountInv
  <2>8. "clean2" \in {"idle", "clean2"} /\ pc[t] \in {"clean", "clean2"}
    BY <1>0
  <2>9. Removal(t, R, S, E, v, "clean2", l)
    BY <1>0, <2>1, <2>2, <2>3, <2>4, <2>6, <2>7, <2>8 DEF Removal
  <2> QED BY <2>9, RemoveStep
<1> QED BY <1>1, <1>2

LEMMA CleanTargetStep ==
    ASSUME Inv, NEW t \in Threads, CleanTarget(t)
    PROVE  Inv'
<1>0. /\ pc[t] = "clean2" /\ RemoveAll(Matching(loc[t].q)) /\ CallReturns(t)
      /\ attr' = attr /\ size' = size /\ wbuf' = wbuf /\ ver' = ver /\ tail' = tail /\ written' = written
  BY DEF CleanTarget, serverVars
<1>1. PICK R : R = Matching(loc[t].q)
  OBVIOUS
<1>2. loc[t].q \in R
  BY <1>0, <1>1, CleanFacts, StatAssumption DEF Matching
<1>3. RemoveAll(R) /\ \A p, n : Pending(t, p, n) => p \in R
  BY <1>0, <1>1, <1>2 DEF Pending
<1>4. loc[t].call # "create"
  BY <1>0, CleanFacts
<1> QED BY <1>0, <1>3, <1>4, ReturnStep

-----------------------------------------------------------------------------
(* The theorems *)

\* Nothing is cached, written or under way at first.
LEMMA InitInv == Init => Inv
<1> SUFFICES ASSUME Init PROVE Inv
  OBVIOUS
<1>0. /\ dlist = << >> /\ cacheMap = {} /\ attr = [p \in Paths |-> [ver |-> 1, ent |-> 1, there |-> p \notin Absent]]
      /\ size = [f \in Files |-> 0] /\ wbuf = [f \in Files |-> {}]
      /\ pc = [t \in Procs |-> "idle"] /\ loc = [t \in Procs |-> NoLoc] /\ page = [l \in Listers |-> NoPage]
      /\ ver = 1 /\ tail = [f \in Files |-> 0] /\ written = [f \in Files |-> 0] /\ done = [p \in Paths |-> 1]
      /\ made = [p \in Paths |-> 1]
  BY DEF Init, LRUInit
<1>1. MaxVer \in Nat /\ MaxVer > 0
  BY StatAssumption
<1>2. TypeOK
  <2>1. dlist \in Seq([Key : Paths, Value : Dentry, expired : BOOLEAN]) /\ cacheMap \subseteq Paths
    BY <1>0
  <2>2. NoPage \in [Paths -> Dentry] /\ "idle" \in Labels
    BY NoLocType DEF NoPage, Labels
  <2>3. 0 \in 0 .. MaxVer - 1 /\ 1 \in 0 .. MaxVer
    BY <1>1
  <2> QED BY <1>0, <2>1, <2>2, <2>3, NoLocType DEF TypeOK
<1>3. LRUConsistent
  BY <1>0, LRUCacheAssumption DEF LRUConsistent
<1>4. CountInv /\ BlockInv
  BY <1>0 DEF CountInv, BlockInv
<1>5. ProcInv
  <2>1. NoLoc.call = "none" /\ NoLoc.p \notin Paths
    BY NoLocType, StatAssumption
  <2>2. \A t \in Threads : t \in Procs
    BY DEF Procs
  <2> QED BY <1>0, <2>1, <2>2 DEF ProcInv, LocOK, CountOK, FstatOK, AnswerOK
<1>6. CacheInv
  BY <1>0 DEF CacheInv
<1>7. PageInv
  <2>1. \A p \in Paths : attr[p].ver = 1
    BY <1>0
  <2>2. \A l \in Listers, p \in Paths : page[l][p] = NoDentry
    BY <1>0 DEF NoPage
  <2>3. NoDentry.ver = 0
    BY DEF NoDentry
  <2>4. ASSUME NEW p \in Paths PROVE Current(NoDentry, p)
    BY <2>1, <2>3 DEF Current
  <2> QED BY <2>2, <2>4 DEF PageInv
<1> QED BY <1>2, <1>3, <1>4, <1>5, <1>6, <1>7 DEF Inv

LEMMA NextInv == Inv /\ [Next]_vars => Inv'
<1> SUFFICES ASSUME Inv, [Next]_vars PROVE Inv'
  OBVIOUS
<1>1. ASSUME NEW t \in Threads, NEW p \in Paths, Stat(t, p) \/ Fstat(t, p) PROVE Inv'
  BY <1>1, LookupStep DEF Stat, Fstat
<1>2. ASSUME NEW t \in Threads, NEW p \in Paths,
             \/ Fchmod(t, p) \/ Chmod(t, p) \/ Chown(t, p) \/ ChownEx(t, p) \/ Setxattr(t, p)
             \/ Removexattr(t, p) \/ Utime(t, p) \/ OpenExisting(t, p)
             \/ UnLink(t, p) \/ Rmdir(t, p) \/ RmDirTree(t, p)
      PROVE  Inv'
  <2>1. PICK call \in {"attr", "open", "unlink", "rmtree"} : Call(t, call, p, NoPath)
    BY <1>2 DEF Fchmod, Chmod, Chown, ChownEx, Setxattr, Removexattr, Utime, OpenExisting, UnLink, Rmdir, RmDirTree
  <2> QED BY <2>1, CallKeepsInv DEF Calls
<1>3. ASSUME NEW t \in Threads, NEW p \in Names,
             OpenCreate(t, p) \/ Mkdir(t, p) \/ Mknod(t, p) \/ Symlink(t, p)
      PROVE  Inv'
  <2>1. PICK call \in {"create", "symlink"} : Call(t, call, p, NoPath)
    BY <1>3 DEF OpenCreate, Mkdir, Mknod, Symlink
  <2>2. p \in Paths
    BY DEF Names
  <2> QED BY <2>1, <2>2, CallKeepsInv DEF Calls
<1>4. ASSUME NEW t \in Threads, NEW p \in Paths, NEW q \in Names, Link(t, p, q) \/ Rename(t, p, q)
      PROVE  Inv'
  <2>1. PICK call \in {"link", "rename"} : Call(t, call, p, q)
    BY <1>4 DEF Link, Rename
  <2>2. q \in Paths
    BY DEF Names
  <2> QED BY <2>1, <2>2, CallKeepsInv DEF Calls
<1>5. ASSUME NEW t \in Threads, NEW f \in Files, Write(t, f) PROVE Inv'
  BY <1>5, WriteStep
<1>6. ASSUME NEW t \in Threads, StatStep(t) \/ ChangeStep(t) PROVE Inv'
  BY <1>6, DoStatStep, DoStatFailStep, StatSizeStep, StatSizeLockedStep, StatSetStep, CleanStep,
     CleanTargetStep, WriteCleanStep DEF StatStep, ChangeStep
<1>7. ASSUME NEW m \in Listers, NEW p \in Paths, ReadDir(m, p) \/ SetEntry(m, p) PROVE Inv'
  BY <1>7, ReadDirStep, SetEntryStep
<1>8. ASSUME NEW f \in Files, NEW i \in Blocks, FlushBuffer(f, i) PROVE Inv'
  BY <1>8, FlushBufferStep
<1>9. ASSUME NEW i \in 1 .. Len(dlist), EntryExpires(i) PROVE Inv'
  BY <1>9, EntryExpiresStep
<1>10. CASE UNCHANGED vars
  <2>1. /\ dlist' = dlist /\ cacheMap' = cacheMap /\ attr' = attr /\ size' = size /\ wbuf' = wbuf /\ pc' = pc
        /\ loc' = loc /\ page' = page /\ ver' = ver /\ tail' = tail /\ done' = done /\ made' = made /\ written' = written
    BY <1>10 DEF vars, lruVars, serverVars, ghostVars
  <2> QED BY <2>1 DEF Inv, TypeOK, LRUConsistent, CountInv, BlockInv, ProcInv, CountOK, FstatOK, AnswerOK,
                      CacheInv, EntryOK, PageInv, Current, Pending
<1> QED BY <1>1, <1>2, <1>3, <1>4, <1>5, <1>6, <1>7, <1>8, <1>9, <1>10 DEF Next

\* Inv, the inductive invariant above, holds in every state the mount can reach.
THEOREM Invariance == Spec => []Inv
<1>1. Init => Inv
  BY InitInv
<1>2. Inv /\ [Next]_vars => Inv'
  BY NextInv
<1> QED BY <1>1, <1>2, PTL DEF Spec

\* Every variable keeps its type: sizes, versions and blocks stay within what the
\* calls have made, whatever the dentry cache holds.
THEOREM TypeCorrect == Spec => []TypeOK
<1>1. Inv => TypeOK
  BY DEF Inv
<1> QED BY <1>1, Invariance, PTL

\* The map and the list of the dentry cache agree and stay within the capacity,
\* for caches of any size (lru.go's SetExpire, Get and Remove).
THEOREM CacheConsistent == Spec => []LRUConsistent
<1>1. Inv => LRUConsistent
  BY DEF Inv
<1> QED BY <1>1, Invariance, PTL

\* The dentry cache never answers with attributes of a path from before a change of
\* them whose call has returned, nor with those of a directory from before an Open,
\* Mkdir or Mknod in it that has returned, but for the answers that were on their way
\* to the cache and the changes whose calls failed: for any tree of paths, every call
\* cleans the paths it names (file.go:103, dir.go:75 and 158 the parent too).
THEOREM AttributesFresh == Spec => []AttrFresh
<1>1. Inv => AttrFresh
  <2> SUFFICES ASSUME Inv, NEW p \in Paths, Hit(p)
               PROVE  \/ Node(p).Value.ver >= done[p] /\ Node(p).Value.ent >= made[p]
                      \/ Node(p).Value.over
                      \/ \E t \in Threads : Changing(t, p)
    BY DEF AttrFresh
  <2>1. p \in cacheMap
    BY DEF Hit
  <2>2. Elem(p) \in DOMAIN dlist /\ dlist[Elem(p)].Key = p /\ dlist[Elem(p)] \in Nodes
    BY <2>1, LRUFromInv, ElemFacts DEF Node
  <2>3. PICK d : d = Node(p).Value
    OBVIOUS
  <2>4. d.ver > 0 /\ Current(d, p) /\ d.ver \in Nat /\ d.ent \in Nat
    BY <2>2, <2>3 DEF Inv, CacheInv, EntryOK, Node, Nodes, Dentry
  <2>5. CASE d.ver = attr[p].ver /\ ~d.over
    <3>1. done[p] <= attr[p].ver /\ done[p] \in 0 .. MaxVer /\ made[p] \in 0 .. MaxVer /\ MaxVer \in Nat
      BY StatAssumption DEF Inv, CountInv, TypeOK
    <3>2. made[p] <= d.ent
      BY <2>4, <2>5 DEF Current
    <3> QED BY <2>3, <2>4, <2>5, <3>1, <3>2
  <2>6. ASSUME NEW t \in Threads, Pending(t, p, d.ver) PROVE Changing(t, p)
    <3>1. pc[t] \in {"clean", "clean2"}
      BY <2>6 DEF Pending
    <3>2. p \in Named(loc[t])
      BY <2>6, <3>1, CleanFacts
    <3> QED BY <3>1, <3>2 DEF Changing
  <2> QED BY <2>3, <2>4, <2>5, <2>6 DEF Current
<1> QED BY <1>1, Invariance, PTL

\* Fstat reports no less than the Writes that had returned when it was called,
\* however buffers are flushed between its look at the write cache and its request.
THEOREM FstatIsComplete == Spec => []FstatSeesWrites
<1>1. Inv => FstatSeesWrites
  <2> SUFFICES ASSUME Inv, NEW t \in Threads, pc[t] = "set", loc[t].call = "fstat"
               PROVE  loc[t].d.size >= loc[t].snap
    BY DEF FstatSeesWrites
  <2>1. loc[t].snap <= loc[t].d.size
    BY ThreadFacts DEF FstatOK
  <2>2. loc[t].d \in Dentry /\ loc[t].snap \in Nat
    BY ThreadFacts DEF LocType
  <2>3. loc[t].d.size \in Nat
    BY <2>2 DEF Dentry
  <2> QED BY <2>1, <2>2, <2>3
<1> QED BY <1>1, Invariance, PTL
=============================================================================
