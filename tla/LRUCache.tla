------------------------------ MODULE LRUCache ------------------------------
(***************************************************************************)
(* The dentry cache of a mount (lib/libfs/dentrycache.go): an LRU list     *)
(* with a map and expiring entries (lib/cache/lru.go), used under one      *)
(* mutex, so that every method is one step.  The list and the map are      *)
(* separate structures that have to agree.                                 *)
(***************************************************************************)
EXTENDS Naturals, Sequences

CONSTANTS
    Paths,      \* the keys
    HasPrefix,  \* the pairs <<p, q>> of paths such that q is a prefix of p
    Capacity    \* LRUCache.Capacity, 0 when the mount has no dentry cache

ASSUME LRUCacheAssumption == Capacity \in Nat /\ HasPrefix \subseteq Paths \X Paths

VARIABLES
    dlist,      \* LRUCache.dlist: the CacheNodes, most recently used first
    cacheMap    \* LRUCache.cacheMap: the keys that have an element of dlist

lruVars == <<dlist, cacheMap>>

LRUInit == dlist = << >> /\ cacheMap = {}

\* The element of dlist that the map has for a key, and its CacheNode; Expiration
\* is abstracted to whether it has passed.
Elem(k) == CHOOSE i \in DOMAIN dlist : dlist[i].Key = k
Node(k) == dlist[Elem(k)]
Hit(k)  == k \in cacheMap /\ ~Node(k).expired

NewNode(k, v) == [Key |-> k, Value |-> v, expired |-> FALSE]

\* list.MoveToFront of element i, which becomes n.
MoveToFront(i, n) ==
    [j \in DOMAIN dlist |-> IF j = 1 THEN n ELSE IF j <= i THEN dlist[j - 1] ELSE dlist[j]]

\* Mutant of Insert: the key of the element that is dropped stays in the map.
InsertKeepKey(k, v) ==
    /\ dlist' = SubSeq(<<NewNode(k, v)>> \o dlist, 1, Capacity)
    /\ cacheMap' = cacheMap \cup {k}
\* A new key; the last element goes when there are too many.
Insert(k, v) ==
    LET l == <<NewNode(k, v)>> \o dlist
    IN  IF Len(l) > Capacity
        THEN /\ dlist' = SubSeq(l, 1, Len(l) - 1)
             /\ cacheMap' = (cacheMap \cup {k}) \ {l[Len(l)].Key}
        ELSE dlist' = l /\ cacheMap' = cacheMap \cup {k}

\* DentryCache.Set and SetExpire.
Set(k, v) ==
    IF Capacity = 0 THEN UNCHANGED lruVars
    ELSE IF k \in cacheMap
    THEN dlist' = MoveToFront(Elem(k), NewNode(k, v)) /\ UNCHANGED cacheMap
    ELSE Insert(k, v)

\* DentryCache.Get: a hit goes to the front, an expired entry stays where it is.
Get(k) ==
    /\ dlist' = IF Hit(k) THEN MoveToFront(Elem(k), Node(k)) ELSE dlist
    /\ UNCHANGED cacheMap

\* The indices of the elements of dlist that are left, in their order, when those
\* with a key of S are removed.
Left(S) ==
    {g \in UNION {[1 .. n -> DOMAIN dlist] : n \in 0 .. Len(dlist)} :
        /\ \A i, j \in DOMAIN g : i < j => g[i] < g[j]
        /\ {g[i] : i \in DOMAIN g} = {i \in DOMAIN dlist : dlist[i].Key \notin S}}

\* DentryCache.Remove of every path of a set.
RemoveAll(S) ==
    /\ \E g \in Left(S) : dlist' = [i \in DOMAIN g |-> dlist[g[i]]]
    /\ cacheMap' = cacheMap \ S

\* What RemovePrefix removes; a prefix as a string, not as a directory.
Matching(p) == {q \in Paths : <<q, p>> \in HasPrefix}

\* Time passes.
Expire(i) ==
    /\ ~dlist[i].expired
    /\ dlist' = [dlist EXCEPT ![i].expired = TRUE]
    /\ UNCHANGED cacheMap

\* The map and the list of lru.go agree after any mix of Set, Get, Remove and
\* eviction: every key of the map has one element, every element is in the map,
\* and there are never more than Capacity.
LRUConsistent ==
    /\ cacheMap = {dlist[i].Key : i \in DOMAIN dlist}
    /\ \A i, j \in DOMAIN dlist : dlist[i].Key = dlist[j].Key => i = j
    /\ Len(dlist) <= Capacity
=============================================================================
