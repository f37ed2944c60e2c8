-------------------------------- MODULE Mount --------------------------------
(***************************************************************************)
(* The life of a mount (lib/libfs/mount.go) in the FUSE client             *)
(* (client/main.go): Mount, serving requests, and on a signal exitSign's   *)
(* Unmount and DelMount, which closes the write cache (WCache.CloseAll)    *)
(* under the goroutines of WCache.                                         *)
(*                                                                         *)
(* The thread of DelMount is one of the Clients: WCache.Close of a file is *)
(* the flush of a last handle, whoever calls it.  No other client removes  *)
(* files here: WCache alone is checked with that.                          *)
(***************************************************************************)
EXTENDS WCachePromise

CONSTANTS
    Closer,       \* the thread that runs exitSign and DelMount
    UnmountFails  \* may Unmount return an error, with requests still served?

ASSUME MountAssumption == Closer \in Clients /\ UnmountFails \in BOOLEAN

VARIABLES
    MountStu,  \* CfaMountInfo.MountStu
    exit,      \* where exitSign and DelMount stand
    chClosed,  \* chSync is closed
    Stop,      \* WCache.Stop
    expiring,  \* CheckExpire goroutines in their inner loop
    stopped,   \* goroutines of the write cache that called wg.Done
    feList,    \* files CloseAll still has to close
    statTo     \* the StatTo goroutine

mountVars == <<MountStu, exit, chClosed, Stop, expiring, stopped, feList, statTo>>
allVars   == <<vars, mountVars>>

Users      == Clients \ {Closer}
Goroutines == Expirers \cup Syncers

MountTypeOK ==
    /\ MountStu \in {"New", "Mounted", "Del"}
    /\ exit \in {"none", "unmounted", "closing", "closed", "done"}
    /\ chClosed \in BOOLEAN /\ Stop \in BOOLEAN
    /\ expiring \subseteq Expirers /\ stopped \subseteq Goroutines
    /\ feList \subseteq Files
    /\ statTo \in {"none", "runs", "done"}

\* NewMount starts the goroutines of the cache.
NewMount ==
    /\ Init
    /\ MountStu = "New" /\ exit = "none"
    /\ chClosed = FALSE /\ Stop = FALSE /\ expiring = {} /\ stopped = {} /\ feList = {}
    /\ statTo = "none"

\* A client whose Mount fails in its first Stat ends; the other one serves.
MountCall ==
    /\ MountStu = "New"
    /\ MountStu' = "Mounted" /\ statTo' = "runs"
    /\ UNCHANGED <<vars, exit, chClosed, Stop, expiring, stopped, feList>>

-----------------------------------------------------------------------------
(* Requests of the kernel, and the goroutines while they are not stopped *)

\* The kernel sends requests until it is unmounted.  checkMount guards Open; the
\* calls on a handle do not look at MountStu.
Serves == exit = "none" \/ UnmountFails

UserOpen(c, f) == Serves /\ MountStu = "Mounted" /\ Open(c, f) /\ UNCHANGED mountVars
UserWrite(c)   == /\ Serves /\ UNCHANGED mountVars
                  /\ \E x \in Blocks, off \in Cells, size \in 1 .. BlockSize : Write(c, x, off, size)
UserFlush(c)   == Serves /\ Flush(c) /\ UNCHANGED mountVars
UserClose(c)   == Serves /\ Close(c) /\ UNCHANGED mountVars

UserStep(c)    == (pc[c] = "wsend" => ~chClosed) /\ ClientStep(c) /\ UNCHANGED mountVars
FlusherStep(w) == (TakeIndex(w) \/ FlushStep(w)) /\ UNCHANGED mountVars
ExpirerStep(e) == /\ e \notin stopped /\ (pc[e] = "idle" => e \in expiring)
                  /\ ExpireStep(e) \/ FlushStep(e)
                  /\ UNCHANGED mountVars
SyncerStep(s)  == s \notin stopped /\ SyncStep(s) /\ UNCHANGED mountVars
RpcStep(p)     == Rpc(p) /\ UNCHANGED mountVars

\* CheckExpire begins a round when it finds Stop unset.
ExpireRound(e) ==
    /\ ~Stop /\ pc[e] = "idle" /\ e \notin expiring /\ e \notin stopped
    /\ expiring' = expiring \cup {e}
    /\ UNCHANGED <<vars, MountStu, exit, chClosed, Stop, stopped, feList, statTo>>

\* The round goes on, whatever Stop says, until LruExpire returns nil: the list is
\* empty, or its last buffer is not old enough.
ExpireRoundEnds(e) ==
    /\ e \in expiring /\ pc[e] = "idle"
    /\ expiring' = expiring \ {e}
    /\ UNCHANGED <<vars, MountStu, exit, chClosed, Stop, stopped, feList, statTo>>

\* CheckExpire sees Stop between two rounds.
ExpireStop(e) ==
    /\ Stop /\ pc[e] = "idle" /\ e \notin expiring /\ e \notin stopped
    /\ stopped' = stopped \cup {e}
    /\ UNCHANGED <<vars, MountStu, exit, chClosed, Stop, expiring, feList, statTo>>

CheckExpire(e) == ExpireRound(e) \/ ExpirerStep(e) \/ ExpireRoundEnds(e) \/ ExpireStop(e)

\* The range over a closed channel ends when the channel is empty.
SyncStop(s) ==
    /\ chClosed /\ chSync = {} /\ pc[s] = "idle" /\ s \notin stopped
    /\ stopped' = stopped \cup {s}
    /\ UNCHANGED <<vars, MountStu, exit, chClosed, Stop, expiring, feList, statTo>>

StatToEnds ==
    /\ statTo = "runs" /\ MountStu # "Mounted"
    /\ statTo' = "done"
    /\ UNCHANGED <<vars, MountStu, exit, chClosed, Stop, expiring, stopped, feList>>

-----------------------------------------------------------------------------
(* exitSign: Unmount, whose error is ignored, then DelMount *)

NoRequest == \A c \in Users : pc[c] \in {"idle", "closed"}

\* Mutant of Unmount: DelMount does not wait for the unmount.
UnmountLater ==
    /\ MountStu = "Mounted" /\ exit = "none"
    /\ exit' = "unmounted"
    /\ UNCHANGED <<vars, MountStu, chClosed, Stop, expiring, stopped, feList, statTo>>

\* A successful Unmount returns when the last request has been answered.
Unmount ==
    /\ MountStu = "Mounted" /\ exit = "none"
    /\ NoRequest \/ UnmountFails
    /\ exit' = "unmounted"
    /\ UNCHANGED <<vars, MountStu, chClosed, Stop, expiring, stopped, feList, statTo>>

\* close(chSync), Stop and the files of the cache: nothing between them changes
\* which files those are.
CloseAll ==
    /\ exit = "unmounted"
    /\ exit' = "closing"
    /\ chClosed' = TRUE /\ Stop' = TRUE
    /\ feList' = {f \in Files : Cache[f] # 0}
    /\ UNCHANGED <<vars, MountStu, expiring, stopped, statTo>>

\* Mutant of CloseAllFile: the file is detached without flushing it.
CloseAllDetach(f) ==
    /\ exit = "closing" /\ f \in feList /\ pc[Closer] = "closed"
    /\ feList' = feList \ {f}
    /\ Cache' = [Cache EXCEPT ![f] = 0]
    /\ UNCHANGED <<poolVars, made, BufferMap, LockMap, localVars, diskVars, ghostVars>>
    /\ UNCHANGED <<MountStu, exit, chClosed, Stop, expiring, stopped, statTo>>

\* WCache.Close of the next file: its Flush begins.
CloseAllFile(f) ==
    LET fb  == Cache[f]
        idx == {x \in Blocks : fb # 0 /\ BufferMap[<<fb, x>>] # NoBuf}
    IN  /\ exit = "closing" /\ f \in feList /\ pc[Closer] = "closed"
        /\ feList' = feList \ {f}
        /\ fl' = [fl EXCEPT ![Closer] = [kind |-> "closelast", mq |-> idx, pend |-> idx,
                                         failed |-> FALSE]]
        /\ loc' = [loc EXCEPT ![Closer] = [@ EXCEPT !.fe = f, !.fb = fb]]
        /\ snap' = [snap EXCEPT ![Closer] = latest[f]]
        /\ Goto(Closer, "flushing")
        /\ UNCHANGED <<poolVars, tableVars, op, diskVars, ver, latest>>
        /\ UNCHANGED <<MountStu, exit, chClosed, Stop, expiring, stopped, statTo>>

\* The error of a Close is ignored: the FileBuffer stays, and its data with it.
CloseAllError ==
    /\ FlushReturned(Closer) /\ fl[Closer].failed
    /\ Goto(Closer, "closed")
    /\ loc' = [loc EXCEPT ![Closer] = NoLoc]
    /\ EndFlush(Closer)
    /\ UNCHANGED <<poolVars, tableVars, op, diskVars, ver, latest, mountVars>>

CloseAllClosed == CloseDone(Closer) /\ UNCHANGED mountVars

\* Mutant of CloseAllWait: it does not wait for the goroutines.
CloseAllNoWait ==
    /\ exit = "closing" /\ feList = {} /\ pc[Closer] = "closed"
    /\ exit' = "closed" /\ MountStu' = "Del"
    /\ UNCHANGED <<vars, chClosed, Stop, expiring, stopped, feList, statTo>>

\* wg.Wait of CloseAll, then the rest of DelMount up to its own wg.Wait.
CloseAllWait ==
    /\ exit = "closing" /\ feList = {} /\ pc[Closer] = "closed"
    /\ stopped = Goroutines
    /\ exit' = "closed" /\ MountStu' = "Del"
    /\ UNCHANGED <<vars, chClosed, Stop, expiring, stopped, feList, statTo>>

DelMountReturn ==
    /\ exit = "closed" /\ statTo = "done"
    /\ exit' = "done"
    /\ UNCHANGED <<vars, MountStu, chClosed, Stop, expiring, stopped, feList, statTo>>

DelMountStep ==
    \/ CloseAll \/ (\E f \in Files : CloseAllFile(f)) \/ CloseAllError \/ CloseAllClosed
    \/ CloseAllWait \/ DelMountReturn

MountNext ==
    \/ MountCall \/ Unmount \/ DelMountStep \/ StatToEnds
    \/ \E c \in Users : \/ \E f \in Files : UserOpen(c, f)
                        \/ UserWrite(c) \/ UserFlush(c) \/ UserClose(c) \/ UserStep(c)
    \/ \E w \in Workers : FlusherStep(w)
    \/ \E e \in Expirers : CheckExpire(e)
    \/ \E s \in Syncers : SyncerStep(s) \/ SyncStop(s)
    \/ \E p \in Procs : RpcStep(p)

\* Goroutines are scheduled, and every request gets an answer or an error, which
\* may be an error for ever.  Strong fairness for the lock of a block alone:
\* LockBuffer polls every half millisecond for a lock that CheckExpire, if the
\* server keeps refusing, takes once per expiry time.  Nothing is assumed about how
\* long a round of CheckExpire lasts.
MountFairness ==
    /\ \A c \in Users : SF_allVars(UserStep(c))
    /\ \A w \in Workers : SF_allVars(FlusherStep(w))
    /\ \A e \in Expirers : WF_allVars(CheckExpire(e))
    /\ \A s \in Syncers : WF_allVars(SyncerStep(s)) /\ WF_allVars(SyncStop(s))
    /\ \A p \in Procs : WF_allVars(RpcStep(p))
    /\ WF_allVars(DelMountStep) /\ WF_allVars(StatToEnds)

MountSpec == NewMount /\ [][MountNext]_allVars /\ MountFairness

-----------------------------------------------------------------------------
(* Properties *)

\* No writer sends, or waits to send, on chSync once CloseAll has closed it: it
\* would panic (wcache.go:269, 305 against 623).
NoSendOnClosed == chClosed => \A c \in Users : pc[c] # "wsend"

\* When CloseAll has returned, no goroutine of the cache is left that would
\* lock a block or send a request, no queued buffer is left behind, and accepted
\* data is lost only of files whose Close reported an error: those still have
\* their FileBuffer.
CleanShutdown ==
    exit \in {"closed", "done"} =>
        /\ chSync = {} /\ \A p \in Procs \ Users : pc[p] \in {"idle", "closed"}
        /\ \A f \in Files : Dirty(f) => gone[f] \/ Cache[f] # 0

\* A server that is asked again and again does not refuse for ever.
ServerAccepts == SF_allVars(\E p \in Procs : RpcOk(p) /\ UNCHANGED mountVars)

\* DelMount returns if the server accepts requests in the end: nobody waits for ever
\* on a block lock, on the results of a Flush or on a goroutine.  CheckExpire looks
\* at Stop only between two rounds, and a round in which buffers grow old while the
\* server refuses others may go on as long as it refuses.
DelMountReturns == ServerAccepts => (exit = "unmounted" ~> exit = "done")
=============================================================================
