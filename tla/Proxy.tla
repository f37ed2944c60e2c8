-------------------------------- MODULE Proxy --------------------------------
(***************************************************************************)
(* Requests to the proxy: tryReqProxy and its retries                      *)
(* (lib/libfs/api/proxyclient.go) over the HTTP client (http/http.go),     *)
(* driven by MkdirAll (lib/libfs/dir.go), the call of a mount that makes   *)
(* several requests and has to cope with its own repeated ones.            *)
(*                                                                         *)
(* A request that timed out or lost its connection is sent again, while    *)
(* the abandoned copy may still be on its way: the server may apply it     *)
(* before, after or long after the repeated one, or never.                 *)
(*                                                                         *)
(* Every request goes to Hosts[0] (proxyclient.go:75): the host a redirect *)
(* names is remembered by the selector, but no URL is made from it, and    *)
(* the copy after a redirect goes to the same address.                     *)
(***************************************************************************)
EXTENDS Naturals, FiniteSets

CONSTANTS
    Callers,      \* threads that call MkdirAll
    Depth,        \* directories on the path below the mount point
    RetryTimes,   \* RetryCfg.RetryTimes
    MaxRedirects, \* MAX_REDIRECT_TIMES
    MaxLate       \* bound: abandoned copies of one request on their way

ASSUME ProxyAssumption ==
    Depth \in Nat \ {0} /\ RetryTimes \in Nat /\ MaxRedirects \in Nat \ {0} /\ MaxLate \in Nat

Dirs == 1 .. Depth

\* Codes in an answer, those toErr translates to EEXIST and ENOENT.
Ok      == 0
Exists  == 1002
Missing == 1003
Codes   == {Ok, Exists, Missing}
\* The constant MkdirAll compares the code of an answer with.
E_POSIX_EEXIST == 17

\* How a call ends: nil, the code of the server, or an error of the HTTP client
\* that is not worth a retry, or the last one that was.
Results == {"none", "nil", "errno", "abnormal", "redirects", "connection"}

VARIABLES
    dirs,  \* directories of the path that exist on the server
    late,  \* abandoned copies of each Mkdir that the server may still receive
    call,  \* the MkdirAll of each caller
    seen,  \* ghost: directories that existed at some time since the call began
    disturbed \* ghost: another client removed a directory since the call began

ghosts    == <<seen, disturbed>>
proxyVars == <<dirs, late, call, ghosts>>

\* "wait": a copy is on its way; "got": the server has handled it and answered;
\* "ret": MkdirAll returns res.  try and redir count the rounds of the loops in
\* tryReqProxy and doCtxWithHostRet.
CallType == [pc : {"idle", "wait", "got", "ret"}, dir : Dirs, try : 0 .. RetryTimes,
             redir : 0 .. MaxRedirects - 1, code : Codes, res : Results]

NoCall == [pc |-> "idle", dir |-> 1, try |-> 0, redir |-> 0, code |-> Ok, res |-> "none"]

\* The server always has a path, and a request is sent at most MaxRedirects times
\* in each of RetryTimes + 1 attempts (the ranges of try and redir).
TypeOK ==
    /\ \E d \in 0 .. Depth : dirs = 1 .. d
    /\ late \in [Dirs -> 0 .. MaxLate]
    /\ call \in [Callers -> CallType]
    /\ seen \in [Callers -> SUBSET Dirs]
    /\ disturbed \in [Callers -> BOOLEAN]

Init ==
    /\ dirs \in {1 .. d : d \in 0 .. Depth}
    /\ late = [d \in Dirs |-> 0]
    /\ call = [c \in Callers |-> NoCall]
    /\ seen = [c \in Callers |-> {}]
    /\ disturbed = [c \in Callers |-> FALSE]

-----------------------------------------------------------------------------
(* The server *)

\* What a Mkdir is answered.
Code(d) == IF d \in dirs THEN Exists ELSE IF d > 1 /\ d - 1 \notin dirs THEN Missing ELSE Ok

ServerHas(s) ==
    /\ dirs' = s
    /\ seen' = [c \in Callers |-> IF call[c].pc = "idle" THEN {} ELSE seen[c] \cup s]

Apply(d) == ServerHas(IF Code(d) = Ok THEN dirs \cup {d} ELSE dirs)

\* An abandoned copy arrives after all; nobody waits for its answer.
ServeLate(d) ==
    /\ late[d] > 0
    /\ late' = [late EXCEPT ![d] = @ - 1]
    /\ Apply(d)
    /\ UNCHANGED <<call, disturbed>>

\* Another client removes the last directory of the path.
Rmdir ==
    /\ dirs # {}
    /\ ServerHas(dirs \ {Cardinality(dirs)})
    /\ disturbed' = [c \in Callers |-> call[c].pc # "idle"]
    /\ UNCHANGED <<late, call>>

-----------------------------------------------------------------------------
(* tryReqProxy *)

Update(c, q) == call' = [call EXCEPT ![c] = q]

\* The first copy of a request.
Request(q, d) == [q EXCEPT !.pc = "wait", !.dir = d, !.try = 0, !.redir = 0]

Fail(q, r) == [q EXCEPT !.pc = "ret", !.res = r]

\* Mutant of Again: one attempt more than configured.
AgainOnce(q) ==
    IF q.try <= RetryTimes
    THEN [q EXCEPT !.pc = "wait", !.try = @ + 1, !.redir = 0]
    ELSE Fail(q, "connection")

\* Mutant of Again: after the last attempt the result, still zero, is returned
\* without the error.
AgainNoError(q) ==
    IF q.try < RetryTimes
    THEN [q EXCEPT !.pc = "wait", !.try = @ + 1, !.redir = 0]
    ELSE [q EXCEPT !.pc = "got", !.code = Ok]

\* Mutant of Again: the attempts are not counted.
AgainForever(q) == [q EXCEPT !.pc = "wait", !.redir = 0]

\* retry(err) holds: the next attempt, or the error after the last one.
Again(q) ==
    IF q.try < RetryTimes
    THEN [q EXCEPT !.pc = "wait", !.try = @ + 1, !.redir = 0]
    ELSE Fail(q, "connection")

\* The copy reaches the server and is answered.
Serve(c) ==
    /\ call[c].pc = "wait"
    /\ Apply(call[c].dir)
    /\ Update(c, [call[c] EXCEPT !.pc = "got", !.code = Code(call[c].dir)])
    /\ UNCHANGED <<late, disturbed>>

\* 308: a new copy to the same host, until there were too many of them, which is
\* an error that is not retried.
Redirect(c) ==
    LET q == call[c]
    IN  /\ q.pc = "wait"
        /\ Update(c, IF q.redir + 1 >= MaxRedirects THEN Fail(q, "redirects")
                     ELSE [q EXCEPT !.redir = @ + 1])
        /\ UNCHANGED <<dirs, late, ghosts>>

\* A status of 400 and more, before the request was applied or after it, or an
\* answer that cannot be decoded: errors that are not retried.
AbnormalCode(c) ==
    /\ call[c].pc \in {"wait", "got"}
    /\ Update(c, Fail(call[c], "abnormal"))
    /\ UNCHANGED <<dirs, late, ghosts>>

\* Refused, reset or timed out: the copy is lost, or left on its way.
Broken(c) ==
    LET q == call[c]
    IN  /\ q.pc = "wait"
        /\ Update(c, Again(q))
        /\ \/ UNCHANGED late
           \/ late[q.dir] < MaxLate /\ late' = [late EXCEPT ![q.dir] = @ + 1]
        /\ UNCHANGED <<dirs, ghosts>>

\* The answer is cut off or comes too late: the request was applied.
AnswerLost(c) ==
    /\ call[c].pc = "got"
    /\ Update(c, Again(call[c]))
    /\ UNCHANGED <<dirs, late, ghosts>>

-----------------------------------------------------------------------------
(* MkdirAll.  It also removes the parent of the path from the dentry cache *)
(* (see Stat), which no request depends on.                                *)

MkdirAll(c) ==
    /\ call[c].pc = "idle"
    /\ Update(c, Request(NoCall, 1))
    /\ seen' = [seen EXCEPT ![c] = dirs]
    /\ UNCHANGED <<dirs, late, disturbed>>

\* Mutant of Continues: a missing parent is ignored as well.
ContinuesAlways(code) == TRUE

\* Errno(resp.Code) is the code as it came, which is never E_POSIX_EEXIST: toErr,
\* which translates it, is not called here.
Continues(code) == code \in {Ok, E_POSIX_EEXIST}

\* The answer: on to the next directory, or the end.
Answer(c) ==
    LET q == call[c]
    IN  /\ q.pc = "got"
        /\ Update(c, IF ~Continues(q.code) THEN Fail(q, "errno")
                     ELSE IF q.dir < Depth THEN Request(q, q.dir + 1)
                     ELSE [q EXCEPT !.pc = "ret", !.res = "nil"])
        /\ UNCHANGED <<dirs, late, ghosts>>

Return(c) ==
    /\ call[c].pc = "ret"
    /\ Update(c, NoCall)
    /\ seen' = [seen EXCEPT ![c] = {}]
    /\ disturbed' = [disturbed EXCEPT ![c] = FALSE]
    /\ UNCHANGED <<dirs, late>>

-----------------------------------------------------------------------------
\* What the client does by itself once it waits: it takes the answer, or its
\* timeout fires.
ClientStep(c) == Answer(c) \/ Broken(c) \/ Return(c)

Next ==
    \/ \E c \in Callers : \/ MkdirAll(c) \/ ClientStep(c) \/ AnswerLost(c)
                          \/ Serve(c) \/ Redirect(c) \/ AbnormalCode(c)
    \/ \E d \in Dirs : ServeLate(d)
    \/ Rmdir

\* client_timeout_ms bounds every wait, and threads are scheduled.
Spec == Init /\ [][Next]_proxyVars /\ \A c \in Callers : WF_proxyVars(ClientStep(c))

-----------------------------------------------------------------------------
(* Properties *)

\* MkdirAll returns nil only if each directory of the path existed at some time
\* since it was called, however often its requests were repeated, redirected,
\* applied twice or late.
MkdirAllComplete ==
    \A c \in Callers : call[c].res = "nil" => seen[c] = Dirs

\* MkdirAll fails with an error of the server only because the directory at hand
\* was there since the call began, or because another client removed one: its own
\* requests, lost, repeated or late, never make the parent of the next one missing.
FailureExplained ==
    \A c \in Callers : call[c].res = "errno" =>
        \/ call[c].code = Exists /\ call[c].dir \in seen[c]
        \/ call[c].code = Missing /\ disturbed[c]

\* As "mkdir -p" (dir.go:79) MkdirAll takes a directory that exists for made: it
\* fails with an error of the server only if another client removed one.
ExistingIsNoFailure ==
    \A c \in Callers : call[c].res = "errno" => disturbed[c]

\* Every MkdirAll returns, even when the server never answers.
MkdirAllReturns == \A c \in Callers : call[c].pc = "wait" ~> call[c].pc = "ret"
=============================================================================
