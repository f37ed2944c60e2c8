---------------------------- MODULE ProxyProofs ----------------------------
(***************************************************************************)
(* MkdirAll over repeated, lost, redirected and late requests, for any     *)
(* number of callers, directories, retries, redirects and late copies.     *)
(***************************************************************************)
EXTENDS Proxy, FiniteSetTheorems, TLAPS

\* A call that runs has no result yet.
ResultInv == \A c \in Callers : call[c].res # "none" => call[c].pc = "ret"

\* The directories before the one a call is at have existed since it began, and
\* so has this one when the answer says so ...
SeenInv ==
    \A c \in Callers :
        /\ call[c].pc \in {"wait", "got"} => 1 .. call[c].dir - 1 \subseteq seen[c]
        /\ call[c].pc = "got" /\ call[c].code # Missing => call[c].dir \in seen[c]

\* ... and they are still there if nobody removed a directory: only then a parent
\* is missing.
ThereInv ==
    \A c \in Callers : ~disturbed[c] =>
        /\ call[c].pc \in {"wait", "got"} => 1 .. call[c].dir - 1 \subseteq dirs
        /\ call[c].pc = "got" => call[c].code # Missing /\ call[c].dir \in dirs

ProxyInv ==
    TypeOK /\ ResultInv /\ SeenInv /\ ThereInv /\ MkdirAllComplete /\ FailureExplained

-----------------------------------------------------------------------------
LEMMA NoCallType == NoCall \in CallType
BY ProxyAssumption DEF NoCall, CallType, Dirs, Codes, Results

LEMMA InitInv == Init => ProxyInv
<1> SUFFICES ASSUME Init PROVE ProxyInv
  OBVIOUS
<1>1. TypeOK
  BY NoCallType, ProxyAssumption DEF Init, TypeOK, Dirs
<1>2. ResultInv /\ SeenInv /\ ThereInv /\ MkdirAllComplete /\ FailureExplained
  BY DEF Init, ResultInv, SeenInv, ThereInv, MkdirAllComplete, FailureExplained, NoCall
<1>3. QED
  BY <1>1, <1>2 DEF ProxyInv

-----------------------------------------------------------------------------
(* Steps of the server *)

\* A directory is made only behind its parent, so that a path stays a path.
LEMMA ApplyDirs ==
    ASSUME TypeOK, NEW d \in Dirs, Apply(d)
    PROVE  /\ \E n \in 0 .. Depth : dirs' = 1 .. n
           /\ dirs \subseteq dirs'
           /\ dirs' \subseteq Dirs
           /\ Code(d) \in {Ok, Exists} => d \in dirs'
           /\ Code(d) \in Codes
           /\ Code(d) = Missing => d > 1 /\ d - 1 \notin dirs
<1>1. PICK n \in 0 .. Depth : dirs = 1 .. n
  BY DEF TypeOK
<1>2. Depth \in Nat /\ d \in 1 .. Depth
  BY ProxyAssumption DEF Dirs
<1>3. Code(d) = Ok => d = n + 1 /\ dirs' = 1 .. n + 1
  <2>1. SUFFICES ASSUME Code(d) = Ok PROVE d = n + 1 /\ dirs' = 1 .. n + 1
    OBVIOUS
  <2>2. d \notin dirs /\ ~(d > 1 /\ d - 1 \notin dirs)
    BY <2>1 DEF Code, Ok, Exists, Missing
  <2>3. d = n + 1
    BY <2>2, <1>1, <1>2
  <2>4. dirs' = dirs \cup {d}
    BY <2>1 DEF Apply, ServerHas
  <2>5. QED
    BY <2>3, <2>4, <1>1, <1>2
<1>4. Code(d) # Ok => dirs' = dirs
  BY DEF Apply, ServerHas
<1>5. Code(d) = Exists => d \in dirs
  BY DEF Code, Ok, Exists, Missing
<1>6. Code(d) \in Codes /\ (Code(d) = Missing => d > 1 /\ d - 1 \notin dirs)
  BY DEF Code, Codes, Ok, Exists, Missing
<1>7. QED
  BY <1>1, <1>2, <1>3, <1>4, <1>5, <1>6 DEF Dirs

\* What a caller has seen only grows while its call runs.
LEMMA ServerHasSeen ==
    ASSUME TypeOK, NEW s \in SUBSET Dirs, ServerHas(s)
    PROVE  /\ seen' \in [Callers -> SUBSET Dirs]
           /\ \A c \in Callers : call[c].pc # "idle" => seen'[c] = seen[c] \cup s
BY DEF TypeOK, ServerHas

LEMMA ServeLateKeeps ==
    ASSUME ProxyInv, NEW d \in Dirs, ServeLate(d)
    PROVE  ProxyInv'
<1>1. TypeOK /\ Apply(d) /\ UNCHANGED <<call, disturbed>>
  BY DEF ProxyInv, ServeLate
<1>2. (\E n \in 0 .. Depth : dirs' = 1 .. n) /\ dirs \subseteq dirs' /\ dirs' \subseteq Dirs
  BY <1>1, ApplyDirs
<1>3. seen' \in [Callers -> SUBSET Dirs]
      /\ \A c \in Callers : call[c].pc # "idle" => seen'[c] = seen[c] \cup dirs'
  <2>1. ServerHas(dirs')
    BY <1>1 DEF Apply, ServerHas
  <2>2. QED
    BY <1>1, <1>2, <2>1, ServerHasSeen
<1>4. late' \in [Dirs -> 0 .. MaxLate]
  BY <1>1, ProxyAssumption DEF TypeOK, ServeLate
<1>5. TypeOK'
  BY <1>1, <1>2, <1>3, <1>4 DEF TypeOK
<1>6. ResultInv'
  BY <1>1 DEF ProxyInv, ResultInv
<1>6a. FailureExplained'
  <2> SUFFICES ASSUME NEW c \in Callers, call[c].res = "errno"
               PROVE  \/ call[c].code = Exists /\ call[c].dir \in seen'[c]
                      \/ call[c].code = Missing /\ disturbed[c]
    BY <1>1 DEF FailureExplained
  <2>1. call[c].pc = "ret"
    BY DEF ProxyInv, ResultInv
  <2>2. QED
    BY <2>1, <1>3 DEF ProxyInv, FailureExplained
<1>7. SeenInv'
  BY <1>1, <1>3 DEF ProxyInv, SeenInv
<1>8. ThereInv'
  BY <1>1, <1>2 DEF ProxyInv, ThereInv
<1>9. MkdirAllComplete'
  BY <1>1, <1>2, <1>3 DEF ProxyInv, ResultInv, MkdirAllComplete
<1>10. QED
  BY <1>5, <1>6, <1>6a, <1>7, <1>8, <1>9 DEF ProxyInv

LEMMA RmdirKeeps ==
    ASSUME ProxyInv, Rmdir
    PROVE  ProxyInv'
<1>1. TypeOK /\ UNCHANGED <<late, call>> /\ dirs # {} /\ ServerHas(dirs \ {Cardinality(dirs)})
  BY DEF ProxyInv, Rmdir
<1>2. PICK n \in 0 .. Depth : dirs = 1 .. n
  BY <1>1 DEF TypeOK
<1>3. Depth \in Nat /\ n \in Nat /\ n # 0
  BY <1>1, <1>2, ProxyAssumption
<1>4. Cardinality(dirs) = n
  BY <1>2, <1>3, FS_Interval
<1>5. dirs' = 1 .. n - 1 /\ n - 1 \in 0 .. Depth /\ dirs' \subseteq Dirs
  BY <1>1, <1>2, <1>3, <1>4 DEF ServerHas, Dirs
<1>6. seen' \in [Callers -> SUBSET Dirs]
      /\ \A c \in Callers : call[c].pc # "idle" => seen'[c] = seen[c] \cup dirs'
  <2>1. ServerHas(dirs')
    BY <1>1 DEF ServerHas
  <2>2. QED
    BY <1>1, <1>5, <2>1, ServerHasSeen
<1>7. disturbed' = [c \in Callers |-> call[c].pc # "idle"]
  BY DEF Rmdir
<1>8. TypeOK'
  BY <1>1, <1>5, <1>6, <1>7 DEF TypeOK
<1>9. ResultInv' /\ SeenInv'
  BY <1>1, <1>6 DEF ProxyInv, ResultInv, SeenInv
<1>10. ThereInv'
  BY <1>1, <1>7 DEF ThereInv
<1>11. MkdirAllComplete'
  <2> SUFFICES ASSUME NEW c \in Callers, call[c].res = "nil" PROVE seen'[c] = Dirs
    BY <1>1 DEF MkdirAllComplete
  <2>1. call[c].pc = "ret" /\ seen[c] = Dirs
    BY DEF ProxyInv, ResultInv, MkdirAllComplete
  <2>2. QED
    BY <2>1, <1>5, <1>6
<1>12. FailureExplained'
  <2> SUFFICES ASSUME NEW c \in Callers, call[c].res = "errno"
               PROVE  \/ call[c].code = Exists /\ call[c].dir \in seen'[c]
                      \/ call[c].code = Missing /\ disturbed'[c]
    BY <1>1 DEF FailureExplained
  <2>1. call[c].pc = "ret"
    BY DEF ProxyInv, ResultInv
  <2>2. QED
    BY <2>1, <1>6, <1>7 DEF ProxyInv, FailureExplained
<1>13. QED
  BY <1>8, <1>9, <1>10, <1>11, <1>12 DEF ProxyInv

-----------------------------------------------------------------------------
(* Steps of a call that leave the server alone *)

\* The failure of c, if q is it, is one that FailureExplained allows.
Explained(c, q) == \/ q.code = Exists /\ q.dir \in seen[c]
                   \/ q.code = Missing /\ disturbed[c]

\* What a step may make of the call of c, once the server and the history are as
\* they are: q is of its type and says nothing that is not so.
Allowed(c, q) ==
    /\ q \in CallType
    /\ q.res # "none" => q.pc = "ret"
    /\ q.pc \in {"wait", "got"} => 1 .. q.dir - 1 \subseteq seen[c]
    /\ q.pc = "got" /\ q.code # Missing => q.dir \in seen[c]
    /\ ~disturbed[c] => /\ q.pc \in {"wait", "got"} => 1 .. q.dir - 1 \subseteq dirs
                        /\ q.pc = "got" => q.code # Missing /\ q.dir \in dirs
    /\ q.res = "nil" => seen[c] = Dirs
    /\ q.res = "errno" => Explained(c, q)

LEMMA AllowedNow == ASSUME ProxyInv, NEW c \in Callers PROVE Allowed(c, call[c])
BY DEF ProxyInv, TypeOK, ResultInv, SeenInv, ThereInv, MkdirAllComplete, FailureExplained, Allowed, Explained

LEMMA UpdateKeeps ==
    ASSUME ProxyInv, NEW c \in Callers, NEW q, Allowed(c, q), Update(c, q),
           UNCHANGED <<dirs, ghosts>>, late' \in [Dirs -> 0 .. MaxLate]
    PROVE  ProxyInv'
<1>1. call' = [call EXCEPT ![c] = q] /\ call \in [Callers -> CallType] /\ q \in CallType
  BY DEF Update, ProxyInv, TypeOK, Allowed
<1>2. UNCHANGED <<dirs, seen, disturbed>>
  BY DEF ghosts
<1>3. TypeOK'
  BY <1>1, <1>2 DEF ProxyInv, TypeOK
<1>4. ResultInv'
  BY <1>1 DEF ProxyInv, ResultInv, Allowed
<1>5. SeenInv'
  BY <1>1, <1>2 DEF ProxyInv, SeenInv, Allowed
<1>6. ThereInv'
  BY <1>1, <1>2 DEF ProxyInv, ThereInv, Allowed
<1>7. MkdirAllComplete' /\ FailureExplained'
  BY <1>1, <1>2 DEF ProxyInv, MkdirAllComplete, FailureExplained, Allowed, Explained
<1>8. QED
  BY <1>3, <1>4, <1>5, <1>6, <1>7 DEF ProxyInv

\* Every field of a call has its type.
LEMMA CallFields ==
    ASSUME ProxyInv, NEW c \in Callers
    PROVE  /\ call[c] \in CallType
           /\ call[c].dir \in Dirs /\ call[c].try \in 0 .. RetryTimes
           /\ call[c].redir \in 0 .. MaxRedirects - 1
           /\ call[c].pc # "ret" => call[c].res = "none"
BY DEF ProxyInv, TypeOK, ResultInv, CallType

LEMMA FailAllowed ==
    ASSUME ProxyInv, NEW c \in Callers, NEW r \in Results, r # "nil",
           r = "errno" => Explained(c, call[c])
    PROVE  Allowed(c, Fail(call[c], r))
BY CallFields DEF Allowed, Explained, Fail, CallType

LEMMA AgainAllowed ==
    ASSUME ProxyInv, NEW c \in Callers, call[c].pc \in {"wait", "got"}
    PROVE  Allowed(c, Again(call[c]))
<1>1. CASE call[c].try < RetryTimes
  <2> DEFINE q == [call[c] EXCEPT !.pc = "wait", !.try = @ + 1, !.redir = 0]
  <2>0. call[c].try + 1 \in 0 .. RetryTimes /\ 0 \in 0 .. MaxRedirects - 1
    BY <1>1, CallFields, ProxyAssumption
  <2>1. q \in CallType
    BY <2>0, CallFields DEF CallType
  <2>2. q.pc = "wait" /\ q.dir = call[c].dir /\ q.res = "none"
    BY CallFields DEF CallType
  <2>3. Allowed(c, q)
    BY <2>1, <2>2, AllowedNow DEF Allowed
  <2>4. QED
    BY <1>1, <2>3 DEF Again
<1>2. CASE ~(call[c].try < RetryTimes)
  BY <1>2, FailAllowed DEF Again, Results
<1>3. QED
  BY <1>1, <1>2

LEMMA RedirectKeeps == ASSUME ProxyInv, NEW c \in Callers, Redirect(c) PROVE ProxyInv'
<1> DEFINE q == call[c]
           r == IF q.redir + 1 >= MaxRedirects THEN Fail(q, "redirects") ELSE [q EXCEPT !.redir = @ + 1]
<1>1. Update(c, r) /\ UNCHANGED <<dirs, late, ghosts>> /\ q.pc = "wait"
  BY DEF Redirect
<1>2. CASE q.redir + 1 >= MaxRedirects
  BY <1>2, FailAllowed, <1>1, UpdateKeeps DEF Results, ProxyInv, TypeOK
<1>3. CASE ~(q.redir + 1 >= MaxRedirects)
  <2>1. r \in CallType /\ r.pc = q.pc /\ r.dir = q.dir /\ r.res = q.res /\ r.code = q.code
    BY <1>3, CallFields, ProxyAssumption DEF CallType
  <2>2. Allowed(c, r)
    BY <2>1, AllowedNow DEF Allowed, Explained
  <2>3. QED
    BY <1>1, <2>2, UpdateKeeps DEF ProxyInv, TypeOK
<1>4. QED
  BY <1>2, <1>3

LEMMA AbnormalCodeKeeps == ASSUME ProxyInv, NEW c \in Callers, AbnormalCode(c) PROVE ProxyInv'
BY FailAllowed, UpdateKeeps DEF AbnormalCode, Results, ProxyInv, TypeOK

LEMMA BrokenKeeps == ASSUME ProxyInv, NEW c \in Callers, Broken(c) PROVE ProxyInv'
<1>1. Update(c, Again(call[c])) /\ UNCHANGED <<dirs, ghosts>> /\ call[c].pc = "wait"
  BY DEF Broken
<1>2. late' \in [Dirs -> 0 .. MaxLate]
  BY CallFields, ProxyAssumption DEF Broken, ProxyInv, TypeOK
<1>3. QED
  BY <1>1, <1>2, AgainAllowed, UpdateKeeps

LEMMA AnswerLostKeeps == ASSUME ProxyInv, NEW c \in Callers, AnswerLost(c) PROVE ProxyInv'
BY AgainAllowed, UpdateKeeps DEF AnswerLost, ProxyInv, TypeOK

LEMMA AnswerKeeps == ASSUME ProxyInv, NEW c \in Callers, Answer(c) PROVE ProxyInv'
<1> DEFINE q == call[c]
           next == [q EXCEPT !.pc = "wait", !.dir = q.dir + 1, !.try = 0, !.redir = 0]
           done == [q EXCEPT !.pc = "ret", !.res = "nil"]
<1>1. q.pc = "got" /\ UNCHANGED <<dirs, late, ghosts>> /\ late' \in [Dirs -> 0 .. MaxLate]
  BY DEF Answer, ProxyInv, TypeOK
<1>2. q \in CallType /\ q.dir \in 1 .. Depth /\ Depth \in Nat /\ q.res = "none" /\ Allowed(c, q)
  BY <1>1, CallFields, AllowedNow, ProxyAssumption DEF Dirs
<1>3. CASE ~Continues(q.code)
  <2>0. q.code \in {Exists, Missing}
    BY <1>2, <1>3 DEF CallType, Codes, Continues
  <2>1. Explained(c, q)
    BY <1>1, <1>2, <2>0 DEF Allowed, Explained, Exists, Missing
  <2>2. Update(c, Fail(q, "errno"))
    BY <1>3 DEF Answer
  <2>3. QED
    BY <1>1, <2>1, <2>2, FailAllowed, UpdateKeeps DEF Results
<1>4. CASE Continues(q.code) /\ q.dir < Depth
  <2>c. q.code # Missing
    BY <1>4 DEF Continues, Missing, Ok, E_POSIX_EEXIST
  <2>1. Update(c, next)
    BY <1>4 DEF Answer, Request
  <2>0. q.dir + 1 \in Dirs /\ 0 \in 0 .. RetryTimes /\ 0 \in 0 .. MaxRedirects - 1
    BY <1>2, <1>4, ProxyAssumption DEF Dirs
  <2>2. next \in CallType /\ next.pc = "wait" /\ next.dir = q.dir + 1 /\ next.res = "none"
    BY <1>2, <2>0 DEF CallType
  <2>3. 1 .. next.dir - 1 = (1 .. q.dir - 1) \cup {q.dir}
    BY <1>2, <2>2
  <2>4. Allowed(c, next)
    BY <1>1, <1>2, <2>c, <2>2, <2>3 DEF Allowed
  <2>5. QED
    BY <1>1, <2>1, <2>4, UpdateKeeps
<1>5. CASE Continues(q.code) /\ ~(q.dir < Depth)
  <2>c. q.code # Missing
    BY <1>5 DEF Continues, Missing, Ok, E_POSIX_EEXIST
  <2>1. Update(c, done)
    BY <1>5 DEF Answer
  <2>2. done \in CallType /\ done.pc = "ret" /\ done.res = "nil"
    BY <1>2 DEF CallType, Results
  <2>3. Dirs = (1 .. q.dir - 1) \cup {q.dir}
    BY <1>2, <1>5 DEF Dirs
  <2>4. Dirs \subseteq seen[c]
    BY <1>1, <1>2, <2>c, <2>3 DEF Allowed
  <2>5. seen[c] = Dirs
    BY <2>4 DEF ProxyInv, TypeOK
  <2>6. Allowed(c, done)
    BY <2>2, <2>5 DEF Allowed
  <2>7. QED
    BY <1>1, <2>1, <2>6, UpdateKeeps
<1>6. QED
  BY <1>3, <1>4, <1>5

-----------------------------------------------------------------------------
(* Steps of a call that change the server or the history *)

LEMMA ServeKeeps == ASSUME ProxyInv, NEW c \in Callers, Serve(c) PROVE ProxyInv'
<1> DEFINE d == call[c].dir
           q == [call[c] EXCEPT !.pc = "got", !.code = Code(call[c].dir)]
<1>1. TypeOK /\ Apply(d) /\ UNCHANGED <<late, disturbed>> /\ call[c].pc = "wait"
      /\ call' = [call EXCEPT ![c] = q]
  BY DEF ProxyInv, Serve, Update
<1>2. call[c] \in CallType /\ d \in Dirs /\ call[c].res = "none"
  BY <1>1, CallFields
<1>3. /\ \E n \in 0 .. Depth : dirs' = 1 .. n
      /\ dirs \subseteq dirs' /\ dirs' \subseteq Dirs
      /\ Code(d) \in {Ok, Exists} => d \in dirs'
      /\ Code(d) \in Codes
      /\ Code(d) = Missing => d > 1 /\ d - 1 \notin dirs
  BY <1>1, <1>2, ApplyDirs
<1>4. seen' \in [Callers -> SUBSET Dirs]
      /\ \A u \in Callers : call[u].pc # "idle" => seen'[u] = seen[u] \cup dirs'
  <2>1. ServerHas(dirs')
    BY <1>1 DEF Apply, ServerHas
  <2>2. QED
    BY <1>1, <1>3, <2>1, ServerHasSeen
<1>5. q \in CallType /\ q.pc = "got" /\ q.dir = d /\ q.code = Code(d) /\ q.res = "none"
  BY <1>2, <1>3 DEF CallType
<1>6. ~disturbed[c] => 1 .. d - 1 \subseteq dirs
  BY <1>1 DEF ProxyInv, ThereInv
<1>7. ~disturbed[c] => Code(d) # Missing
  BY <1>2, <1>3, <1>6, ProxyAssumption DEF Dirs
<1>8. \A u \in Callers : call'[u] = IF u = c THEN q ELSE call[u]
  BY <1>1 DEF TypeOK
<1> HIDE DEF q
<1>9. TypeOK'
  BY <1>1, <1>3, <1>4, <1>5 DEF TypeOK
<1>10. ResultInv'
  BY <1>1, <1>5, <1>8 DEF ProxyInv, ResultInv
<1>10a. FailureExplained'
  <2> SUFFICES ASSUME NEW u \in Callers, call'[u].res = "errno"
               PROVE  \/ call'[u].code = Exists /\ call'[u].dir \in seen'[u]
                      \/ call'[u].code = Missing /\ disturbed'[u]
    BY DEF FailureExplained
  <2>1. u # c /\ call'[u] = call[u]
    BY <1>5, <1>8
  <2>2. call[u].pc = "ret" /\ seen'[u] = seen[u] \cup dirs'
    BY <2>1, <1>4 DEF ProxyInv, ResultInv
  <2>3. QED
    BY <2>1, <2>2, <1>1 DEF ProxyInv, FailureExplained
<1>11. SeenInv'
  BY <1>1, <1>3, <1>4, <1>5, <1>8 DEF ProxyInv, SeenInv, Codes
<1>12. ThereInv'
  BY <1>1, <1>3, <1>5, <1>6, <1>7, <1>8 DEF ProxyInv, ThereInv, Codes
<1>13. MkdirAllComplete'
  <2> SUFFICES ASSUME NEW u \in Callers, call'[u].res = "nil" PROVE seen'[u] = Dirs
    BY DEF MkdirAllComplete
  <2>1. u # c /\ call[u].res = "nil"
    BY <1>5, <1>8
  <2>2. call[u].pc = "ret" /\ seen[u] = Dirs
    BY <2>1 DEF ProxyInv, ResultInv, MkdirAllComplete
  <2>3. QED
    BY <2>2, <1>3, <1>4
<1>14. QED
  BY <1>9, <1>10, <1>10a, <1>11, <1>12, <1>13 DEF ProxyInv

LEMMA MkdirAllKeeps == ASSUME ProxyInv, NEW c \in Callers, MkdirAll(c) PROVE ProxyInv'
<1> DEFINE q == [NoCall EXCEPT !.pc = "wait", !.dir = 1, !.try = 0, !.redir = 0]
<1>1. UNCHANGED <<dirs, late, disturbed>> /\ call' = [call EXCEPT ![c] = q]
      /\ seen' = [seen EXCEPT ![c] = dirs]
  BY DEF MkdirAll, Update, Request
<1>2. q \in CallType /\ q.pc = "wait" /\ q.dir = 1 /\ q.res = "none"
  BY NoCallType, ProxyAssumption DEF NoCall, CallType, Dirs
<1>3. dirs \subseteq Dirs
  BY ProxyAssumption DEF ProxyInv, TypeOK, Dirs
<1>4. \A u \in Callers : /\ call'[u] = IF u = c THEN q ELSE call[u]
                         /\ u # c => seen'[u] = seen[u]
  BY <1>1 DEF ProxyInv, TypeOK
<1> HIDE DEF q
<1>5. TypeOK'
  BY <1>1, <1>2, <1>3 DEF ProxyInv, TypeOK
<1>6. ResultInv' /\ FailureExplained' /\ MkdirAllComplete'
  BY <1>1, <1>2, <1>4 DEF ProxyInv, ResultInv, FailureExplained, MkdirAllComplete
<1>7. 1 .. q.dir - 1 = {}
  BY <1>2
<1>8. SeenInv' /\ ThereInv'
  BY <1>1, <1>2, <1>4, <1>7 DEF ProxyInv, SeenInv, ThereInv
<1>9. QED
  BY <1>5, <1>6, <1>8 DEF ProxyInv

LEMMA ReturnKeeps == ASSUME ProxyInv, NEW c \in Callers, Return(c) PROVE ProxyInv'
<1>1. UNCHANGED <<dirs, late>> /\ call' = [call EXCEPT ![c] = NoCall]
      /\ seen' = [seen EXCEPT ![c] = {}] /\ disturbed' = [disturbed EXCEPT ![c] = FALSE]
  BY DEF Return, Update
<1>2. TypeOK'
  BY <1>1, NoCallType DEF ProxyInv, TypeOK
<1>3. \A u \in Callers : /\ call'[u] = IF u = c THEN NoCall ELSE call[u]
                         /\ u # c => seen'[u] = seen[u] /\ disturbed'[u] = disturbed[u]
  BY <1>1 DEF ProxyInv, TypeOK
<1>4. NoCall.pc = "idle" /\ NoCall.res = "none"
  BY DEF NoCall
<1>5. ResultInv' /\ FailureExplained'
  BY <1>3, <1>4 DEF ProxyInv, ResultInv, FailureExplained
<1>6. MkdirAllComplete'
  BY <1>3, <1>4 DEF ProxyInv, MkdirAllComplete
<1>7. SeenInv'
  BY <1>3, <1>4 DEF ProxyInv, SeenInv
<1>8. ThereInv'
  <2> SUFFICES ASSUME NEW u \in Callers, ~disturbed'[u]
               PROVE  /\ call'[u].pc \in {"wait", "got"} => 1 .. call'[u].dir - 1 \subseteq dirs'
                      /\ call'[u].pc = "got" => call'[u].code # Missing /\ call'[u].dir \in dirs'
    BY DEF ThereInv
  <2>1. CASE u = c
    BY <2>1, <1>3, <1>4
  <2>2. CASE u # c
    <3>1. call'[u] = call[u] /\ dirs' = dirs /\ ~disturbed[u]
      BY <2>2, <1>1, <1>3
    <3>2. QED
      BY <3>1 DEF ProxyInv, ThereInv
  <2>3. QED
    BY <2>1, <2>2
<1>9. QED
  BY <1>2, <1>5, <1>6, <1>7, <1>8 DEF ProxyInv

-----------------------------------------------------------------------------
LEMMA NextInv == ProxyInv /\ [Next]_proxyVars => ProxyInv'
<1> SUFFICES ASSUME ProxyInv, [Next]_proxyVars PROVE ProxyInv'
  OBVIOUS
<1>1. CASE Next
  BY <1>1, MkdirAllKeeps, AnswerKeeps, BrokenKeeps, ReturnKeeps, AnswerLostKeeps, ServeKeeps,
     RedirectKeeps, AbnormalCodeKeeps, ServeLateKeeps, RmdirKeeps DEF Next, ClientStep
<1>2. CASE UNCHANGED proxyVars
  BY <1>2 DEF proxyVars, ghosts, ProxyInv, TypeOK, ResultInv, SeenInv, ThereInv,
     MkdirAllComplete, FailureExplained
<1>3. QED
  BY <1>1, <1>2

\* The inductive invariant holds in every behaviour.
THEOREM ProxyInvariant == Spec => []ProxyInv
BY InitInv, NextInv, PTL DEF Spec

\* No request is sent more than MaxRedirects times in each of RetryTimes + 1
\* attempts, and the server always has a path (tryReqProxy, doCtxWithHostRet).
THEOREM AttemptsBounded == Spec => []TypeOK
<1>1. ProxyInv => TypeOK
  BY DEF ProxyInv
<1>2. QED
  BY <1>1, ProxyInvariant, PTL

\* MkdirAll returns nil only if every directory of the path existed since the call.
THEOREM NilIsTrue == Spec => []MkdirAllComplete
<1>1. ProxyInv => MkdirAllComplete
  BY DEF ProxyInv
<1>2. QED
  BY <1>1, ProxyInvariant, PTL

\* MkdirAll fails with an error of the server only if the directory at hand was
\* there since the call began, or somebody removed one.
THEOREM ErrnoIsExplained == Spec => []FailureExplained
<1>1. ProxyInv => FailureExplained
  BY DEF ProxyInv
<1>2. QED
  BY <1>1, ProxyInvariant, PTL
=============================================================================
