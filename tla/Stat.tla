-------------------------------- MODULE Stat --------------------------------
(***************************************************************************)
(* What a mount reports about a path: Stat, Fstat, the size of the write   *)
(* cache (StatSize) and the dentry cache, against the calls that change    *)
(* attributes and empty the dentry cache, and the listings that fill it.   *)
(*                                                                         *)
(* The attributes of a path are the versions of the last changes that were *)
(* applied to it: ver of its own attributes, ent of the entries of a       *)
(* directory, which show in its times and its link count.  The size of a   *)
(* file counts whole blocks, and a Write appends one, in a buffer of the   *)
(* write cache or on the server.  A file is followed under its first name  *)
(* only: once it is removed or renamed, nothing makes a file of that name  *)
(* again.  A directory is renamed when it is empty.                        *)
(***************************************************************************)
EXTENDS LRUCache, Integers, FiniteSets

CONSTANTS
    Files,      \* the paths that are written to
    Parent,     \* [Paths -> Paths \cup {NoPath}]
    NoPath,
    Absent,     \* the paths that do not exist at first
    Threads,    \* callers of the mount
    Listers,    \* goroutines of Opendir
    MaxVer      \* bound: changes and Writes, counted from 1

Procs  == Threads \cup Listers
Names  == Paths \ Files
Blocks == 1 .. MaxVer - 1

ParentOf(p) == IF Parent[p] = NoPath THEN {} ELSE {Parent[p]}

\* HasPrefix is that of strings: a path begins with the path of its parent.
ASSUME StatAssumption ==
    /\ Files \subseteq Paths /\ Absent \subseteq Names /\ NoPath \notin Paths
    /\ Parent \in [Paths -> Paths \cup {NoPath}]
    /\ \A p \in Paths : {p} \cup ParentOf(p) \subseteq {q \in Paths : <<p, q>> \in HasPrefix}
    /\ \A p, q, r \in Paths : <<p, q>> \in HasPrefix /\ <<q, r>> \in HasPrefix => <<p, r>> \in HasPrefix
    /\ Threads \cap Listers = {}
    /\ MaxVer \in Nat \ {0}

VARIABLES
    attr,       \* server: the versions of each path, and is it there?
    size,       \* server: blocks of each file
    wbuf,       \* write cache: the buffered blocks of each file
    pc, loc,    \* position and local variables of each goroutine
    page,       \* entries a listing has fetched and not yet set
    ver,        \* ghost: changes and Writes so far
    tail,       \* ghost: blocks written to each file
    done,       \* ghost: last change of a path's own attributes that returned
    made,       \* ghost: last Open, Mkdir or Mknod that returned and made an entry in it
    written     \* ghost: blocks written to each file by calls that returned

serverVars == <<attr, size>>
ghostVars  == <<ver, tail, done, made, written>>
vars       == <<lruVars, serverVars, wbuf, pc, loc, page, ghostVars>>

\* A Dentry; over is a ghost: since the server was asked, a change of the path was
\* applied whose call has returned, or has failed, before the answer was set.
Dentry   == [ver : Nat, ent : Nat, size : Nat, over : BOOLEAN]
NoDentry == [ver |-> 0, ent |-> 0, size |-> 0, over |-> FALSE]

Labels == {"idle", "stat", "size", "lock", "again", "set", "wclean", "clean", "clean2"}
Calls  == {"none", "stat", "fstat", "attr", "unlink", "rmtree", "open", "create", "link",
           "symlink", "rename", "write"}

\* call, p and q are the call and its paths; d the Dentry; idx UpperIdx; cs CacheSize;
\* v the version or block that a change made; snap is a ghost: written when the call began.
LocType == [call : Calls, p : Paths \cup {NoPath}, q : Paths \cup {NoPath}, d : Dentry,
            idx : Nat, cs : Nat, v : Nat, snap : Nat]
NoLoc   == [call |-> "none", p |-> NoPath, q |-> NoPath, d |-> NoDentry,
            idx |-> 0, cs |-> 0, v |-> 0, snap |-> 0]

TypeOK ==
    /\ dlist \in Seq([Key : Paths, Value : Dentry, expired : BOOLEAN]) /\ cacheMap \subseteq Paths
    /\ attr \in [Paths -> [ver : Nat, ent : Nat, there : BOOLEAN]]
    /\ size \in [Files -> 0 .. MaxVer - 1] /\ wbuf \in [Files -> SUBSET Blocks]
    /\ pc \in [Procs -> Labels] /\ loc \in [Procs -> LocType]
    /\ page \in [Listers -> [Paths -> Dentry]]
    /\ ver \in 0 .. MaxVer
    /\ tail \in [Files -> 0 .. MaxVer - 1] /\ written \in [Files -> 0 .. MaxVer - 1]
    /\ done \in [Paths -> 0 .. MaxVer] /\ made \in [Paths -> 0 .. MaxVer]

NoPage == [p \in Paths |-> NoDentry]

Init ==
    /\ LRUInit
    /\ attr = [p \in Paths |-> [ver |-> 1, ent |-> 1, there |-> p \notin Absent]]
    /\ size = [f \in Files |-> 0] /\ wbuf = [f \in Files |-> {}]
    /\ pc = [t \in Procs |-> "idle"] /\ loc = [t \in Procs |-> NoLoc]
    /\ page = [l \in Listers |-> NoPage]
    /\ ver = 1
    /\ tail = [f \in Files |-> 0] /\ written = [f \in Files |-> 0]
    /\ done = [p \in Paths |-> 1] /\ made = [p \in Paths |-> 1]

Goto(t, label) == pc' = [pc EXCEPT ![t] = label]
Larger(m, n)   == IF m < n THEN n ELSE m
Return(t)      == Goto(t, "idle") /\ loc' = [loc EXCEPT ![t] = NoLoc]

-----------------------------------------------------------------------------
(* Stat and Fstat *)

\* Get: a hit is the answer, a miss goes on at label.
Lookup(t, call, p, label) ==
    /\ pc[t] = "idle"
    /\ Get(p)
    /\ IF Hit(p)
       THEN UNCHANGED <<pc, loc>>
       ELSE /\ loc' = [loc EXCEPT ![t] = [@ EXCEPT !.call = call, !.p = p,
                          !.snap = IF p \in Files THEN written[p] ELSE 0]]
            /\ Goto(t, label)
    /\ UNCHANGED <<serverVars, wbuf, page, ghostVars>>

\* Mutant of Fstat: the write cache is not asked.
FstatServerOnly(t, p) == p \in Files /\ Lookup(t, "fstat", p, "stat")
Fstat(t, p) == p \in Files /\ Lookup(t, "fstat", p, "size")
Stat(t, p)  == Lookup(t, "stat", p, "stat")

Answer(p) == [ver |-> attr[p].ver, ent |-> attr[p].ent,
              size |-> IF p \in Files THEN size[p] ELSE 0, over |-> FALSE]

\* doStat: the server's answer, and what the caller does with it.  Fstat has the
\* size of the write cache already, Stat asks for it next.
DoStat(t) ==
    LET p == loc[t].p
        a == Answer(p)
    IN  /\ pc[t] \in {"stat", "again"} /\ attr[p].there
        /\ loc' = [loc EXCEPT ![t].d = [a EXCEPT !.size = Larger(a.size, loc[t].cs)]]
        /\ Goto(t, IF pc[t] = "stat" /\ loc[t].call = "stat" /\ p \in Files THEN "size" ELSE "set")
        /\ UNCHANGED <<lruVars, serverVars, wbuf, page, ghostVars>>

\* The path is not there, or the request fails.
DoStatFail(t) ==
    /\ pc[t] \in {"stat", "again"}
    /\ Return(t)
    /\ UNCHANGED <<lruVars, serverVars, wbuf, page, ghostVars>>

\* With the size of the write cache Fstat goes on to the server, Stat to the cache.
WithSize(t, n) ==
    /\ loc' = [loc EXCEPT ![t] = [@ EXCEPT !.cs = n, !.d.size = Larger(loc[t].d.size, n), !.idx = 0]]
    /\ Goto(t, IF loc[t].call = "fstat" THEN "stat" ELSE "set")

UpperIdx(f) == CHOOSE i \in wbuf[f] : \A j \in wbuf[f] : j <= i

\* StatSize: nothing buffered, or the last buffer, whose block is locked next.
StatSize(t) ==
    /\ pc[t] = "size"
    /\ IF wbuf[loc[t].p] = {}
       THEN WithSize(t, 0)
       ELSE loc' = [loc EXCEPT ![t].idx = UpperIdx(loc[t].p)] /\ Goto(t, "lock")
    /\ UNCHANGED <<lruVars, serverVars, wbuf, page, ghostVars>>

\* The block is locked.  Its buffer may be gone: Stat asks the server again, Fstat
\* has yet to ask.
StatSizeLocked(t) ==
    /\ pc[t] = "lock"
    /\ IF loc[t].idx \in wbuf[loc[t].p]
       THEN WithSize(t, loc[t].idx)
       ELSE /\ loc' = [loc EXCEPT ![t].idx = 0]
            /\ Goto(t, IF loc[t].call = "fstat" THEN "stat" ELSE "again")
    /\ UNCHANGED <<lruVars, serverVars, wbuf, page, ghostVars>>

StatSet(t) ==
    /\ pc[t] = "set"
    /\ Set(loc[t].p, loc[t].d)
    /\ Return(t)
    /\ UNCHANGED <<serverVars, wbuf, page, ghostVars>>

-----------------------------------------------------------------------------
(* The calls that change attributes: a request, then the dentry cache *)

Below(p)    == {q \in Paths : Parent[q] = p}
Leaf(p)     == \A q \in Below(p) : ~attr[q].there
InTree(p)   == {p} \cup Below(p) \cup UNION {Below(q) : q \in Below(p)}

\* The server accepts the call.
CanMake(p) == ~attr[p].there /\ \A q \in ParentOf(p) : attr[q].there
Accepts(l) ==
    CASE l.call \in {"create", "symlink"} -> CanMake(l.p)
      [] l.call = "link"   -> attr[l.p].there /\ CanMake(l.q)
      [] l.call = "unlink" -> attr[l.p].there /\ Leaf(l.p)
      [] l.call = "rename" -> attr[l.p].there /\ Leaf(l.p) /\ Leaf(l.q) /\ l.p \notin ParentOf(l.q) /\ \A q \in ParentOf(l.q) : attr[q].there
      [] OTHER             -> attr[l.p].there

\* The paths the call is about, whose own attributes it changes ...
Named(l) ==
    CASE l.call = "rmtree" -> InTree(l.p)
      [] l.call \in {"link", "rename"} -> {l.p, l.q}
      [] l.call = "open"   -> {}
      [] OTHER             -> {l.p}
\* ... the directories in which it makes or removes an entry ...
Entered(l) ==
    CASE l.call \in {"create", "symlink", "unlink", "rmtree"} -> ParentOf(l.p)
      [] l.call = "link"   -> ParentOf(l.q)
      [] l.call = "rename" -> ParentOf(l.p) \cup ParentOf(l.q)
      [] OTHER             -> {}
\* ... and whether a path the call is about is there afterwards.
There(l, p) ==
    CASE l.call = "unlink" -> FALSE
      [] l.call = "rmtree" -> FALSE
      [] l.call = "rename" -> p = l.q
      [] OTHER             -> TRUE

Apply(l) ==
    /\ Accepts(l)
    /\ ver' = l.v
    /\ attr' = [p \in Paths |->
                   [ver   |-> IF p \in Named(l) THEN l.v ELSE attr[p].ver,
                    ent   |-> IF p \in Entered(l) THEN l.v ELSE attr[p].ent,
                    there |-> IF p \in Named(l) THEN There(l, p) ELSE attr[p].there]]

\* Ghost: change v overtakes the answers that goroutines hold for the own attributes
\* of S and the entries of E; l is what becomes of the locals of goroutine t.
Overtaken(d, p, S, E, v) ==
    [d EXCEPT !.over = @ \/ (d.ver > 0 /\ ((p \in S /\ d.ver < v) \/ (p \in E /\ d.ent < v)))]
Overtake(S, E, v, t, l) ==
    /\ loc' = [u \in Procs |->
                  IF u = t THEN l ELSE [loc[u] EXCEPT !.d = Overtaken(@, loc[u].p, S, E, v)]]
    /\ page' = [m \in Listers |-> [p \in Paths |-> Overtaken(page[m][p], p, S, E, v)]]

Answered(t, l) ==
    /\ loc' = [loc EXCEPT ![t] = l]
    /\ Goto(t, "clean")
    /\ UNCHANGED <<lruVars, page>>

\* The answer is lost, or Open finds no free descriptor: the call fails although
\* it was applied, and leaves the dentry cache alone.
Lost(t, l) ==
    /\ Overtake(Named(l), Entered(l), l.v, t, NoLoc)
    /\ dlist' = [i \in DOMAIN dlist |->
                    [dlist[i] EXCEPT !.Value = Overtaken(@, dlist[i].Key, Named(l), Entered(l), l.v)]]
    /\ UNCHANGED <<cacheMap, pc>>

\* A call up to the answer to its request; one that the server refuses, or that
\* does not reach it, returns and changes nothing.
Call(t, call, p, q) ==
    LET l == [NoLoc EXCEPT !.call = call, !.p = p, !.q = q, !.v = ver + 1]
    IN  /\ pc[t] = "idle" /\ ver < MaxVer
        /\ Apply(l)
        /\ Answered(t, l) \/ Lost(t, l)
        /\ UNCHANGED <<size, wbuf, tail, done, made, written>>

Fchmod(t, p)       == Call(t, "attr", p, NoPath)
Chmod(t, p)        == Call(t, "attr", p, NoPath)
Chown(t, p)        == Call(t, "attr", p, NoPath)
ChownEx(t, p)      == Call(t, "attr", p, NoPath)
Setxattr(t, p)     == Call(t, "attr", p, NoPath)
Removexattr(t, p)  == Call(t, "attr", p, NoPath)
Utime(t, p)        == Call(t, "attr", p, NoPath)
UnLink(t, p)       == Call(t, "unlink", p, NoPath)
Rmdir(t, p)        == Call(t, "unlink", p, NoPath)
RmDirTree(t, p)    == Call(t, "rmtree", p, NoPath)
OpenExisting(t, p) == Call(t, "open", p, NoPath)
OpenCreate(t, p)   == Call(t, "create", p, NoPath)
Mkdir(t, p)        == Call(t, "create", p, NoPath)
Mknod(t, p)        == Call(t, "create", p, NoPath)
Symlink(t, p)      == Call(t, "symlink", p, NoPath)
Link(t, p, q)      == Call(t, "link", p, q)
Rename(t, p, q)    == Call(t, "rename", p, q)

\* Mutant of Cleaned: RmDirTree cleans its directory only.
CleanedOne(l) == IF l.call \in {"open", "create"} THEN ParentOf(l.p) ELSE {l.p}
\* What a call removes from the dentry cache: Remove of the path or of its parent,
\* or RemovePrefix.
Cleaned(l) ==
    CASE l.call \in {"rmtree", "rename"} -> Matching(l.p)
      [] l.call \in {"open", "create"}   -> ParentOf(l.p)
      [] l.call = "symlink"              -> {}
      [] OTHER                           -> {l.p}

CallReturns(t) ==
    /\ done' = [p \in Paths |-> IF p \in Named(loc[t]) THEN Larger(done[p], loc[t].v) ELSE done[p]]
    /\ made' = [p \in Paths |-> IF loc[t].call = "create" /\ p \in Entered(loc[t])
                                THEN Larger(made[p], loc[t].v) ELSE made[p]]
    /\ Overtake(Named(loc[t]), Entered(loc[t]), loc[t].v, t, NoLoc)
    /\ Goto(t, "idle")

\* Rename removes the other prefix in a second critical section.
Clean(t) ==
    /\ pc[t] = "clean"
    /\ RemoveAll(Cleaned(loc[t]))
    /\ IF loc[t].call = "rename"
       THEN Goto(t, "clean2") /\ Overtake({loc[t].p}, {}, loc[t].v, t, loc[t]) /\ UNCHANGED <<done, made>>
       ELSE CallReturns(t)
    /\ UNCHANGED <<serverVars, wbuf, ver, tail, written>>

CleanTarget(t) ==
    /\ pc[t] = "clean2"
    /\ RemoveAll(Matching(loc[t].q))
    /\ CallReturns(t)
    /\ UNCHANGED <<serverVars, wbuf, ver, tail, written>>

-----------------------------------------------------------------------------
(* Write and the flush of a buffer *)

\* The block stays in the write cache or goes to the server.
Write(t, f) ==
    LET n == tail[f] + 1
    IN  /\ pc[t] = "idle" /\ ver < MaxVer /\ attr[f].there
        /\ \/ wbuf' = [wbuf EXCEPT ![f] = @ \cup {n}] /\ UNCHANGED size
           \/ size' = [size EXCEPT ![f] = Larger(@, n)] /\ UNCHANGED wbuf
        /\ tail' = [tail EXCEPT ![f] = n] /\ ver' = ver + 1
        /\ loc' = [loc EXCEPT ![t] = [@ EXCEPT !.call = "write", !.p = f, !.v = n]]
        /\ Goto(t, "wclean")
        /\ UNCHANGED <<lruVars, attr, page, done, made, written>>

WriteClean(t) ==
    LET f == loc[t].p
    IN  /\ pc[t] = "wclean"
        /\ RemoveAll({f})
        /\ written' = [written EXCEPT ![f] = Larger(@, loc[t].v)]
        /\ Return(t)
        /\ UNCHANGED <<serverVars, wbuf, page, ver, tail, done, made>>

\* Mutant of FlushBuffer: the block after the buffer's end is written too.
FlushBeyond(f, i) ==
    /\ i \in wbuf[f]
    /\ wbuf' = [wbuf EXCEPT ![f] = @ \ {i}]
    /\ size' = [size EXCEPT ![f] = Larger(@, i + 1)]
    /\ UNCHANGED <<lruVars, attr, pc, loc, page, ghostVars>>
\* FlushBuffer; the data of a removed file is dropped.
FlushBuffer(f, i) ==
    /\ i \in wbuf[f]
    /\ wbuf' = [wbuf EXCEPT ![f] = @ \ {i}]
    /\ size' = [size EXCEPT ![f] = Larger(@, i)]
    /\ UNCHANGED <<lruVars, attr, pc, loc, page, ghostVars>>

-----------------------------------------------------------------------------
(* A listing: one page of a directory, each entry of which is then set *)

ReadDir(l, p) ==
    /\ pc[l] = "idle" /\ attr[p].there
    /\ page' = [page EXCEPT ![l] = [q \in Paths |-> IF q \in Below(p) /\ attr[q].there THEN Answer(q) ELSE NoDentry]]
    /\ page' # page
    /\ Goto(l, "set")
    /\ UNCHANGED <<lruVars, serverVars, wbuf, loc, ghostVars>>

Fetched(l) == {q \in Paths : page[l][q].ver > 0}

SetEntry(l, q) ==
    /\ pc[l] = "set" /\ q \in Fetched(l)
    /\ Set(q, page[l][q])
    /\ page' = [page EXCEPT ![l][q] = NoDentry]
    /\ Goto(l, IF Fetched(l) = {q} THEN "idle" ELSE "set")
    /\ UNCHANGED <<serverVars, wbuf, loc, ghostVars>>

EntryExpires(i) ==
    /\ Expire(i)
    /\ UNCHANGED <<serverVars, wbuf, pc, loc, page, ghostVars>>

-----------------------------------------------------------------------------
StatStep(t) ==
    \/ DoStat(t) \/ DoStatFail(t) \/ StatSize(t) \/ StatSizeLocked(t) \/ StatSet(t)
ChangeStep(t) == Clean(t) \/ CleanTarget(t) \/ WriteClean(t)

Next ==
    \/ \E t \in Threads, p \in Paths :
          \/ Stat(t, p) \/ Fstat(t, p)
          \/ Fchmod(t, p) \/ Chmod(t, p) \/ Chown(t, p) \/ ChownEx(t, p) \/ Setxattr(t, p) \/ Removexattr(t, p) \/ Utime(t, p) \/ OpenExisting(t, p)
          \/ UnLink(t, p) \/ Rmdir(t, p) \/ RmDirTree(t, p)
    \/ \E t \in Threads, p \in Names : OpenCreate(t, p) \/ Mkdir(t, p) \/ Mknod(t, p) \/ Symlink(t, p)
    \/ \E t \in Threads, p \in Paths, q \in Names : p # q /\ (Link(t, p, q) \/ Rename(t, p, q))
    \/ \E t \in Threads, f \in Files : Write(t, f)
    \/ \E t \in Threads : StatStep(t) \/ ChangeStep(t)
    \/ \E l \in Listers, p \in Paths : ReadDir(l, p) \/ SetEntry(l, p)
    \/ \E f \in Files, i \in Blocks : FlushBuffer(f, i)
    \/ \E i \in 1 .. Len(dlist) : EntryExpires(i)

Spec == Init /\ [][Next]_vars

-----------------------------------------------------------------------------
(* Properties *)

\* A change of p has been applied and its call has yet to clean the cache.
Changing(t, p) == pc[t] \in {"clean", "clean2"} /\ p \in Named(loc[t]) \cup Entered(loc[t])

\* The dentry cache never answers with attributes of a path from before a change of
\* them whose call has returned, nor with those of a directory from before an Open,
\* Mkdir or Mknod in it that has returned, unless the entry was on its way to the
\* cache meanwhile or the change failed and was applied all the same: the calls
\* clean after they were applied, whatever other calls and listings do.
AttrFresh ==
    \A p \in Paths : Hit(p) =>
        \/ Node(p).Value.ver >= done[p] /\ Node(p).Value.ent >= made[p]
        \/ Node(p).Value.over
        \/ \E t \in Threads : Changing(t, p)

\* The same of the entries of a directory whoever made or removed one: when no call
\* has still to clean the cache ("clean cache." file.go:103, rm.go:43 and 97), it does
\* not answer with a directory from before the last change in it.
EntriesFresh ==
    \A p \in Paths : Hit(p) =>
        \/ Node(p).Value.ent >= attr[p].ent
        \/ Node(p).Value.over
        \/ \E t \in Threads : Changing(t, p)

\* An Fstat that the dentry cache did not answer reports at least the size that
\* the Writes which returned before it had reached, whatever is flushed meanwhile.
FstatSeesWrites ==
    \A t \in Threads : pc[t] = "set" /\ loc[t].call = "fstat" => loc[t].d.size >= loc[t].snap

\* The same for a Stat that the dentry cache did not answer.
StatSeesWrites ==
    \A t \in Threads : pc[t] = "set" /\ loc[t].call = "stat" => loc[t].d.size >= loc[t].snap
=============================================================================
