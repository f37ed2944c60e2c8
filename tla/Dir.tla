-------------------------------- MODULE Dir --------------------------------
(***************************************************************************)
(* Listing a directory (lib/libfs/dir.go): Opendir starts a goroutine that *)
(* fetches the entries page by page into Dir.dirList, Readdir takes them   *)
(* from there and sleeps on Dir.ch while there are too few, and CloseDir   *)
(* aborts.  The reader is OpenDir of client/cfafuse/fuse_op.go, which      *)
(* calls Readdir until it returns less than it asked for; a reader may     *)
(* also give up between two calls, as a user of libfs can.                 *)
(*                                                                         *)
(* The directory changes while it is listed.  Names are numbers in the     *)
(* order of the server's keys; the empty startKey is 0.                    *)
(***************************************************************************)
EXTENDS Integers, Sequences

CONSTANTS
    MaxName,     \* bound: names are 1 .. MaxName
    MaxChanges,  \* bound: entries created or removed during the listing
    lsSize,      \* entries asked for per ReadDirEx (mount.LsSize)
    Counts       \* the possible arguments of Readdir (options.ReadDirCount)

ASSUME DirAssumption ==
    /\ MaxName \in Nat /\ MaxChanges \in Nat
    /\ lsSize \in Nat \ {0}
    /\ Counts \subseteq Nat \ {0}

Names == 1 .. MaxName

VARIABLES
    names,      \* the entries on the server
    changes,    \* how often they changed since Opendir
    dirList, startKey, lsStatus, cacheSize, ch,   \* the fields of Dir
    ppc,        \* where the fetching goroutine stands
    resp,       \* the page it has received
    rpc,        \* where the reader stands
    count,      \* the reader's argument of Readdir
    stream,     \* the entries OpenDir has collected
    outcome,    \* how its loop ended
    stayed      \* ghost: the entries that exist since Opendir

dirVars    == <<dirList, startKey, lsStatus, cacheSize, ch>>
readerVars == <<rpc, count, stream, outcome>>
serverVars == <<names, changes, stayed>>
vars == <<dirVars, readerVars, serverVars, ppc, resp>>

TypeOK ==
    /\ names \subseteq Names /\ stayed \subseteq names
    /\ changes \in 0 .. MaxChanges
    /\ dirList \in Seq(Names) /\ resp \in Seq(Names) /\ stream \in Seq(Names)
    /\ startKey \in Names \cup {0}
    /\ lsStatus \in {"LsFetching", "LsDone", "LsError", "LsUserAbort"}
    /\ cacheSize \in Nat /\ ch \in {0, 1} /\ count \in Counts
    /\ ppc \in {"check", "fetch", "push", "notify", "fail", "notifyFail", "done"}
    /\ rpc \in {"next", "check", "wait", "close", "closed"}
    /\ outcome \in {"none", "ok", "error", "gaveup"}

\* Opendir has returned, and its goroutine is about to start.
Init ==
    /\ names \in SUBSET Names /\ stayed = names /\ changes = 0
    /\ dirList = <<>> /\ startKey = 0 /\ lsStatus = "LsFetching"
    /\ cacheSize = lsSize /\ ch = 0
    /\ ppc = "check" /\ resp = <<>>
    /\ rpc = "next" /\ count \in Counts /\ stream = <<>> /\ outcome = "none"

-----------------------------------------------------------------------------
(* The goroutine of Opendir *)

\* The page the server answers with: the first lsSize names after startKey, in
\* order, and all of them when they are fewer.
Pages == UNION {[1 .. k -> Names] : k \in 0 .. lsSize}

IsPage(s) ==
    /\ \A i \in DOMAIN s : s[i] \in names /\ s[i] > startKey
    /\ \A i, j \in DOMAIN s : i < j => s[i] < s[j]
    /\ \A n \in names : n > startKey =>
          \/ \E i \in DOMAIN s : s[i] = n
          \/ Len(s) = lsSize /\ \A i \in DOMAIN s : s[i] < n

\* Mutant of CacheFull: the goroutine never waits for the reader.
CacheNeverFull == FALSE
CacheFull == Len(dirList) > cacheSize

\* Mutant of Aborted: the goroutine does not look at the status.
AbortIgnored == FALSE
Aborted == lsStatus = "LsUserAbort"

\* It spins, not enabled here, while the list is full.
ProducerCheck ==
    /\ ppc = "check"
    /\ \/ Aborted /\ ppc' = "done"
       \/ ~Aborted /\ ~CacheFull /\ ppc' = "fetch"
    /\ UNCHANGED <<dirVars, readerVars, serverVars, resp>>

ProducerFetch ==
    /\ ppc = "fetch"
    /\ \/ (\E s \in Pages : IsPage(s) /\ resp' = s) /\ ppc' = "push"
       \/ ppc' = "fail" /\ UNCHANGED resp
    /\ UNCHANGED <<dirVars, readerVars, serverVars>>

\* Mutant of IsLastPage: a full page is taken for the last one too.
IsLastPageOrFull == Len(resp) <= lsSize
IsLastPage == Len(resp) < lsSize

\* Mutant of NextStartKey: the next page starts where this one did.
SameStartKey == startKey
NextStartKey == resp[Len(resp)]

\* One critical section; LsDone may overwrite LsUserAbort.
ProducerPush ==
    /\ ppc = "push"
    /\ dirList' = dirList \o resp
    /\ IF IsLastPage THEN lsStatus' = "LsDone" /\ UNCHANGED startKey
                     ELSE startKey' = NextStartKey /\ UNCHANGED lsStatus
    /\ ppc' = "notify"
    /\ UNCHANGED <<cacheSize, ch, readerVars, serverVars, resp>>

\* Mutant of Notify: nobody is told.
NotifyNobody == UNCHANGED ch
\* Mutant of Notify: every page leaves a token, whether or not one is there.
NotifyQueues == ch' = ch + 1
\* The select with a default: a token is already there, or one is put there.
Notify == ch' = 1

\* Then the page goes to the dentry cache, and the loop ends with a short page.
ProducerNotify ==
    /\ ppc = "notify"
    /\ Notify
    /\ ppc' = IF IsLastPage THEN "done" ELSE "check"
    /\ resp' = <<>>
    /\ UNCHANGED <<dirList, startKey, lsStatus, cacheSize, readerVars, serverVars>>

ProducerFail ==
    /\ ppc = "fail"
    /\ lsStatus' = "LsError"
    /\ ppc' = "notifyFail"
    /\ UNCHANGED <<dirList, startKey, cacheSize, ch, readerVars, serverVars, resp>>

ProducerNotifyFail ==
    /\ ppc = "notifyFail"
    /\ Notify
    /\ ppc' = "done"
    /\ UNCHANGED <<dirList, startKey, lsStatus, cacheSize, readerVars, serverVars, resp>>

-----------------------------------------------------------------------------
(* The reader: OpenDir of the FUSE client, Readdir and CloseDir *)

CallReaddir ==
    /\ rpc = "next"
    /\ rpc' = "check"
    /\ UNCHANGED <<dirVars, serverVars, ppc, resp, count, stream, outcome>>

GiveUp ==
    /\ rpc = "next"
    /\ rpc' = "close" /\ outcome' = "gaveup"
    /\ UNCHANGED <<dirVars, serverVars, ppc, resp, count, stream>>

\* Every critical section of Readdir begins by widening the list.
GrowCache == cacheSize' = IF count * 2 > cacheSize THEN count * 2 ELSE cacheSize

ReadError ==
    /\ rpc = "check" /\ lsStatus \in {"LsError", "LsUserAbort"}
    /\ GrowCache
    /\ rpc' = "close" /\ outcome' = "error"
    /\ UNCHANGED <<dirList, startKey, lsStatus, ch, serverVars, ppc, resp, count, stream>>

MustWait == lsStatus = "LsFetching" /\ Len(dirList) < count

ReadWait ==
    /\ rpc = "check" /\ MustWait
    /\ GrowCache
    /\ rpc' = "wait"
    /\ UNCHANGED <<dirList, startKey, lsStatus, ch, serverVars, ppc, resp, count, stream, outcome>>

\* Readdir returns up to count entries; OpenDir takes fewer for the end.
ReadTake ==
    LET k == IF Len(dirList) < count THEN Len(dirList) ELSE count
    IN  /\ rpc = "check" /\ lsStatus \in {"LsFetching", "LsDone"} /\ ~MustWait
        /\ GrowCache
        /\ stream' = stream \o SubSeq(dirList, 1, k)
        /\ dirList' = SubSeq(dirList, k + 1, Len(dirList))
        /\ IF k < count THEN rpc' = "close" /\ outcome' = "ok"
                        ELSE rpc' = "next" /\ UNCHANGED outcome
        /\ UNCHANGED <<startKey, lsStatus, ch, serverVars, ppc, resp, count>>

ReadWake ==
    /\ rpc = "wait" /\ ch = 1
    /\ ch' = 0 /\ rpc' = "check"
    /\ UNCHANGED <<dirList, startKey, lsStatus, cacheSize, serverVars, ppc, resp, count, stream, outcome>>

CloseDir ==
    /\ rpc = "close"
    /\ lsStatus' = "LsUserAbort"
    /\ rpc' = "closed"
    /\ UNCHANGED <<dirList, startKey, cacheSize, ch, serverVars, ppc, resp, count, stream, outcome>>

-----------------------------------------------------------------------------
(* Others change the directory on the server *)

CreateEntry(n) ==
    /\ changes < MaxChanges /\ n \notin names
    /\ names' = names \cup {n} /\ changes' = changes + 1
    /\ UNCHANGED <<dirVars, readerVars, ppc, resp, stayed>>

RemoveEntry(n) ==
    /\ changes < MaxChanges /\ n \in names
    /\ names' = names \ {n} /\ stayed' = stayed \ {n} /\ changes' = changes + 1
    /\ UNCHANGED <<dirVars, readerVars, ppc, resp>>

Producer == ProducerCheck \/ ProducerFetch \/ ProducerPush \/ ProducerNotify
            \/ ProducerFail \/ ProducerNotifyFail
InCall   == ReadError \/ ReadWait \/ ReadTake \/ ReadWake \/ CloseDir
Reader   == CallReaddir \/ GiveUp \/ InCall

Finished == ppc = "done" /\ rpc = "closed" /\ UNCHANGED vars

Next == Producer \/ Reader \/ (\E n \in Names : CreateEntry(n) \/ RemoveEntry(n)) \/ Finished

Spec == Init /\ [][Next]_vars

\* Goroutines are scheduled and requests are answered, one way or the other; a
\* caller need not call again.
FairSpec == Spec /\ WF_vars(Producer) /\ WF_vars(InCall)

-----------------------------------------------------------------------------
(* Properties *)

\* A listing that ends without error has every entry that existed all the time,
\* although pages are fetched while the directory changes and OpenDir takes a
\* short result of Readdir for the end (fuse_op.go:345).
ListingComplete == outcome = "ok" => \A n \in stayed : \E i \in DOMAIN stream : stream[i] = n

\* No entry is listed twice, and they come in the server's order, across pages.
ListingOrdered ==
    \A i, j \in DOMAIN stream : i < j => stream[i] < stream[j]

\* The goroutine runs ahead of the reader by at most one page beyond cacheSize.
ListBounded == Len(dirList) <= cacheSize + lsSize

\* Readdir and CloseDir return: no notification is lost between the test under
\* the mutex and the receive from ch, and reader and goroutine never wait for
\* each other.
ReaddirReturns == rpc \in {"check", "wait", "close"} ~> rpc \in {"next", "closed"}

\* The goroutine does not outlive the listing, even one given up with a full
\* list.
ProducerStops == rpc = "closed" ~> ppc = "done"
=============================================================================
