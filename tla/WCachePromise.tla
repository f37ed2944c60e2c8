--------------------------- MODULE WCachePromise ---------------------------
(***************************************************************************)
(* The write cache implements WriteBack: how the state of WCache shows the *)
(* content that readers see, the content of the server, the acknowledged   *)
(* writes and the Flush calls.                                             *)
(***************************************************************************)
EXTENDS WCache

\* Every handle may have one Write on its way when the bound MaxVer is reached.
\* A file that was removed is not looked at any more.
Unless(g, content) == IF g THEN [x \in Blocks |-> Blank] ELSE content

Promise == INSTANCE WriteBack WITH
    Versions <- 1 .. MaxVer + Cardinality(Clients),
    view   <- [f \in Files |-> Unless(gone[f], [x \in Blocks |-> View(f, x)])],
    stored <- [f \in Files |-> Unless(gone[f], disk[f])],
    acked  <- [f \in Files |-> Unless(gone[f], latest[f])],
    flush  <- [c \in Clients |->
                  IF fl[c].kind = "none"
                  THEN [state |-> "none", file |-> NoFile, need |-> [x \in Blocks |-> Blank]]
                  ELSE [state |-> IF fl[c].pend # {} THEN "running"
                                  ELSE IF fl[c].failed THEN "failed" ELSE "ok",
                        file |-> loc[c].fe, need |-> Unless(gone[loc[c].fe], snap[c])]]

\* Whatever buffers, goroutines and failing requests do, a write takes effect
\* for readers at one moment and in the order of the block lock, the server only
\* catches up with the readers, and WCache.Flush succeeds only when the server
\* has everything acknowledged before it began.
KeepsPromise == Promise!AbstractSpec
=============================================================================
