----------------------------- MODULE DirProofs -----------------------------
(***************************************************************************)
(* Proofs about the listing of a directory for any page size, any reader's *)
(* count and any number of entries and changes.                            *)
(***************************************************************************)
EXTENDS Dir, TLAPS

-----------------------------------------------------------------------------
(* Sequences of names *)

Has(s, n)     == \E i \in DOMAIN s : s[i] = n
Increasing(s) == \A i, j \in DOMAIN s : i < j => s[i] < s[j]
Before(s, t)  == \A i \in DOMAIN s, j \in DOMAIN t : s[i] < t[j]
UpTo(s, k)    == \A i \in DOMAIN s : s[i] <= k
After(s, k)   == \A i \in DOMAIN s : s[i] > k

\* The elements of a sequence of names.
LEMMA NameElements ==
    ASSUME NEW s \in Seq(Names), NEW i \in DOMAIN s
    PROVE  s[i] \in Names /\ s[i] \in Nat /\ i \in 1 .. Len(s) /\ Len(s) \in DOMAIN s
<1>1. i \in 1 .. Len(s) /\ Len(s) \in Nat /\ s[i] \in Names
  OBVIOUS
<1> QED BY <1>1, DirAssumption DEF Names

\* The elements of a concatenation.
LEMMA ConcatElements ==
    ASSUME NEW s \in Seq(Names), NEW t \in Seq(Names)
    PROVE  /\ s \o t \in Seq(Names) /\ Len(s \o t) = Len(s) + Len(t)
           /\ \A i \in DOMAIN (s \o t) :
                 \/ i \in DOMAIN s /\ (s \o t)[i] = s[i]
                 \/ i - Len(s) \in DOMAIN t /\ (s \o t)[i] = t[i - Len(s)]
           /\ \A i \in DOMAIN s : i \in DOMAIN (s \o t) /\ (s \o t)[i] = s[i]
           /\ \A i \in DOMAIN t : i + Len(s) \in DOMAIN (s \o t) /\ (s \o t)[i + Len(s)] = t[i]
OBVIOUS

\* What a concatenation has, and when it is in order.
LEMMA ConcatHas ==
    ASSUME NEW s \in Seq(Names), NEW t \in Seq(Names), NEW n
    PROVE  Has(s \o t, n) <=> Has(s, n) \/ Has(t, n)
<1>1. ASSUME NEW i \in DOMAIN s, s[i] = n PROVE Has(s \o t, n)
  BY <1>1, ConcatElements DEF Has
<1>2. ASSUME NEW i \in DOMAIN t, t[i] = n PROVE Has(s \o t, n)
  BY <1>2, ConcatElements DEF Has
<1>3. ASSUME NEW i \in DOMAIN (s \o t), (s \o t)[i] = n PROVE Has(s, n) \/ Has(t, n)
  BY <1>3, ConcatElements DEF Has
<1> QED BY <1>1, <1>2, <1>3 DEF Has

LEMMA ConcatOrder ==
    ASSUME NEW s \in Seq(Names), NEW t \in Seq(Names), Increasing(s), Increasing(t), Before(s, t)
    PROVE  Increasing(s \o t)
<1> SUFFICES ASSUME NEW i \in DOMAIN (s \o t), NEW j \in DOMAIN (s \o t), i < j
             PROVE  (s \o t)[i] < (s \o t)[j]
  BY DEF Increasing
<1>1. i \in Nat /\ j \in Nat /\ Len(s) \in Nat /\ DOMAIN s = 1 .. Len(s) /\ DOMAIN t = 1 .. Len(t)
  BY ConcatElements
<1>2. CASE j \in DOMAIN s
  BY <1>1, <1>2, ConcatElements DEF Increasing
<1>3. CASE i \in DOMAIN s /\ j \notin DOMAIN s
  BY <1>1, <1>3, ConcatElements DEF Before
<1>4. CASE i \notin DOMAIN s /\ j \notin DOMAIN s
  <2>1. i - Len(s) \in DOMAIN t /\ j - Len(s) \in DOMAIN t /\ i - Len(s) < j - Len(s)
    BY <1>1, <1>4, ConcatElements
  <2> QED BY <1>4, <2>1, ConcatElements DEF Increasing
<1> QED BY <1>1, <1>2, <1>3, <1>4

\* The two parts Readdir cuts its list into.
LEMMA CutElements ==
    ASSUME NEW s \in Seq(Names), NEW k \in 0 .. Len(s)
    PROVE  LET a == SubSeq(s, 1, k)
               b == SubSeq(s, k + 1, Len(s))
           IN  /\ a \in Seq(Names) /\ b \in Seq(Names) /\ Len(a) = k /\ Len(b) = Len(s) - k
               /\ \A i \in DOMAIN a : i \in DOMAIN s /\ a[i] = s[i]
               /\ \A i \in DOMAIN b : i + k \in DOMAIN s /\ b[i] = s[i + k]
OBVIOUS

LEMMA CutHas ==
    ASSUME NEW s \in Seq(Names), NEW k \in 0 .. Len(s), NEW n, Has(s, n)
    PROVE  Has(SubSeq(s, 1, k), n) \/ Has(SubSeq(s, k + 1, Len(s)), n)
<1> DEFINE a == SubSeq(s, 1, k)
           b == SubSeq(s, k + 1, Len(s))
<1>1. PICK i \in DOMAIN s : s[i] = n
  BY DEF Has
<1>2. CASE i <= k
  <2>1. i \in DOMAIN a /\ a[i] = s[i]
    BY <1>2, CutElements
  <2> QED BY <1>1, <2>1 DEF Has
<1>3. CASE i > k
  <2>1. i - k \in DOMAIN b /\ b[i - k] = s[i]
    BY <1>3
  <2> QED BY <1>1, <2>1 DEF Has
<1> QED BY <1>2, <1>3

-----------------------------------------------------------------------------
(* The inductive invariant *)

\* The page that was received follows what was fetched before, without gaps.
PageInv ==
    ppc = "push" =>
        /\ Len(resp) <= lsSize /\ Increasing(resp) /\ After(resp, startKey)
        /\ \A n \in stayed : n > startKey =>
              Has(resp, n) \/ (Len(resp) = lsSize /\ \A i \in DOMAIN resp : resp[i] < n)

\* The goroutine may ask for another page.
Fetching == ppc \in {"check", "fetch", "push"} \/ (ppc = "notify" /\ Len(resp) >= lsSize)

\* What was handed over and what waits in the list are in order, up to startKey.
OrderInv ==
    /\ Increasing(stream) /\ Increasing(dirList) /\ Before(stream, dirList)
    /\ Fetching => UpTo(stream, startKey) /\ UpTo(dirList, startKey)

\* They have every entry that stayed, up to startKey, or all when it is done.
CoverInv ==
    \A n \in stayed :
        /\ n <= startKey \/ lsStatus = "LsDone" => Has(stream, n) \/ Has(dirList, n)
        /\ outcome = "ok" => Has(stream, n)

\* The goroutine has looked at the length of the list.
RoomInv == ppc \in {"fetch", "push"} => Len(dirList) <= cacheSize

\* After LsDone there is nothing more to fetch.
DoneInv == lsStatus = "LsDone" => ~Fetching /\ ppc \notin {"fail", "notifyFail"}

Inv == TypeOK /\ PageInv /\ OrderInv /\ CoverInv /\ RoomInv /\ DoneInv /\ ListBounded


\* The goroutine has just been started.
LEMMA InitInv == Init => Inv
<1> SUFFICES ASSUME Init PROVE Inv
  OBVIOUS
<1>1. TypeOK
  BY DirAssumption DEF Init, TypeOK
<1>2. OrderInv /\ PageInv /\ RoomInv /\ DoneInv /\ ListBounded
  BY DirAssumption
  DEF Init, OrderInv, PageInv, RoomInv, DoneInv, ListBounded, Increasing, Before, UpTo
<1>3. CoverInv
  BY <1>1 DEF Init, CoverInv, TypeOK, Names
<1> QED BY <1>1, <1>2, <1>3 DEF Inv

\* Steps that leave the entries and the place of the goroutine as they are.
LEMMA FrameInv ==
    ASSUME Inv, TypeOK', UNCHANGED <<dirList, stream, resp, startKey, ppc>>,
           cacheSize <= cacheSize', stayed' \subseteq stayed,
           outcome' = "ok" => outcome = "ok", lsStatus' = "LsDone" => lsStatus = "LsDone"
    PROVE  Inv'
<1>1. PageInv' /\ OrderInv' /\ DoneInv'
  BY DEF Inv, PageInv, OrderInv, DoneInv, Fetching
<1>2. CoverInv'
  BY DEF Inv, CoverInv
<1>3. RoomInv' /\ ListBounded'
  BY DirAssumption DEF Inv, RoomInv, ListBounded, TypeOK
<1> QED BY <1>1, <1>2, <1>3 DEF Inv

\* A page is asked for and received.
LEMMA FetchInv ==
    ASSUME Inv, ProducerCheck \/ ProducerFetch
    PROVE  Inv'
<1>1. TypeOK
  BY DEF Inv
<1>2. UNCHANGED <<dirVars, readerVars, serverVars>>
  BY DEF ProducerCheck, ProducerFetch
<1>3. CASE ProducerCheck
  <2>1. TypeOK' /\ RoomInv'
    BY <1>1, <1>2, <1>3
    DEF ProducerCheck, CacheFull, TypeOK, RoomInv, dirVars, readerVars, serverVars
  <2>2. PageInv' /\ OrderInv' /\ DoneInv'
    BY <1>2, <1>3 DEF Inv, ProducerCheck, PageInv, OrderInv, DoneInv, Fetching, dirVars, readerVars
  <2>3. CoverInv' /\ ListBounded'
    BY <1>2 DEF Inv, CoverInv, ListBounded, dirVars, readerVars, serverVars
  <2> QED BY <2>1, <2>2, <2>3 DEF Inv
<1>4. CASE ProducerFetch
  <2>1. \/ resp' \in Pages /\ IsPage(resp') /\ ppc' = "push"
        \/ ppc' = "fail" /\ resp' = resp
    BY <1>4 DEF ProducerFetch
  <2>2. resp' \in Seq(Names) /\ (ppc' = "push" => Len(resp') <= lsSize)
    <3>1. CASE resp' \in Pages
      <4>1. PICK k \in 0 .. lsSize : resp' \in [1 .. k -> Names]
        BY <3>1 DEF Pages
      <4> QED BY <4>1, DirAssumption
    <3>2. CASE ppc' = "fail" /\ resp' = resp
      BY <1>1, <3>2 DEF TypeOK
    <3> QED BY <2>1, <3>1, <3>2
  <2>3. TypeOK'
    BY <1>1, <1>2, <2>1, <2>2 DEF TypeOK, dirVars, readerVars, serverVars
  <2>4. PageInv'
    BY <1>1, <1>2, <2>1, <2>2
    DEF TypeOK, PageInv, IsPage, Increasing, After, Has, dirVars, serverVars
  <2>5. OrderInv' /\ DoneInv' /\ RoomInv'
    BY <1>2, <1>4, <2>1
    DEF Inv, ProducerFetch, OrderInv, DoneInv, RoomInv, Fetching, dirVars, readerVars
  <2>6. CoverInv' /\ ListBounded'
    BY <1>2 DEF Inv, CoverInv, ListBounded, dirVars, readerVars, serverVars
  <2> QED BY <2>3, <2>4, <2>5, <2>6 DEF Inv
<1> QED BY <1>3, <1>4

\* A page goes to the list.
LEMMA PushInv ==
    ASSUME Inv, ProducerPush
    PROVE  Inv'
<1>1. /\ ppc = "push" /\ ppc' = "notify" /\ dirList' = dirList \o resp
      /\ \/ Len(resp) < lsSize /\ lsStatus' = "LsDone" /\ startKey' = startKey
         \/ ~(Len(resp) < lsSize) /\ lsStatus' = lsStatus /\ startKey' = resp[Len(resp)]
      /\ UNCHANGED <<cacheSize, ch, rpc, count, stream, outcome, names, changes, stayed, resp>>
  BY DEF ProducerPush, IsLastPage, NextStartKey, readerVars, serverVars
<1>2. /\ TypeOK /\ dirList \in Seq(Names) /\ resp \in Seq(Names) /\ stream \in Seq(Names)
      /\ lsSize \in Nat \ {0} /\ startKey \in Nat /\ Len(resp) <= lsSize /\ Fetching
  BY <1>1, DirAssumption DEF Inv, TypeOK, PageInv, Fetching, Names
<1>3. dirList' \in Seq(Names) /\ Len(dirList') = Len(dirList) + Len(resp)
  BY <1>1, <1>2, ConcatElements
<1>4. /\ Increasing(resp) /\ After(resp, startKey) /\ UpTo(dirList, startKey) /\ UpTo(stream, startKey)
      /\ Increasing(stream) /\ Increasing(dirList) /\ Before(stream, dirList)
  BY <1>1, <1>2 DEF Inv, PageInv, OrderInv
<1>5. ASSUME ~(Len(resp) < lsSize)
      PROVE  /\ Len(resp) \in DOMAIN resp /\ startKey' \in Names /\ startKey < startKey'
             /\ UpTo(resp, startKey')
  <2>1. Len(resp) \in DOMAIN resp
    BY <1>2, <1>5
  <2>2. startKey' \in Names /\ startKey < startKey' /\ startKey' = resp[Len(resp)]
    BY <1>1, <1>2, <1>4, <1>5, <2>1, NameElements DEF After
  <2>3. ASSUME NEW i \in DOMAIN resp PROVE resp[i] <= startKey'
    <3>1. resp[i] \in Nat /\ i \in 1 .. Len(resp) /\ startKey' \in Nat
      BY <1>2, <2>1, <2>2, NameElements
    <3>2. CASE i = Len(resp)
      BY <2>2, <3>1, <3>2
    <3>3. CASE i < Len(resp)
      BY <1>4, <2>1, <2>2, <3>1, <3>3 DEF Increasing
    <3> QED BY <3>1, <3>2, <3>3
  <2> QED BY <2>1, <2>2, <2>3 DEF UpTo
<1>6. TypeOK'
  BY <1>1, <1>2, <1>3, <1>5 DEF TypeOK
<1>7. OrderInv'
  <2>1. Before(dirList, resp) /\ Before(stream, resp)
    <3>1. ASSUME NEW s \in Seq(Names), UpTo(s, startKey), NEW i \in DOMAIN s, NEW j \in DOMAIN resp
          PROVE  s[i] < resp[j]
      <4>1. s[i] \in Nat /\ resp[j] \in Nat
        BY <1>2, NameElements
      <4> QED BY <1>2, <1>4, <3>1, <4>1 DEF UpTo, After
    <3> QED BY <1>2, <1>4, <3>1 DEF Before
  <2>2. Increasing(dirList')
    BY <1>1, <1>2, <1>4, <2>1, ConcatOrder
  <2>3. Before(stream, dirList')
    BY <1>1, <1>2, <1>4, <2>1, ConcatElements DEF Before
  <2>4. ASSUME Fetching' PROVE UpTo(stream, startKey') /\ UpTo(dirList', startKey')
    <3>1. startKey < startKey' /\ UpTo(resp, startKey') /\ startKey' \in Nat
      BY <1>1, <1>2, <1>5, <2>4 DEF Fetching, Names
    <3>2. UpTo(stream, startKey') /\ UpTo(dirList, startKey')
      <4>1. ASSUME NEW s \in Seq(Names), UpTo(s, startKey), NEW i \in DOMAIN s PROVE s[i] <= startKey'
        <5>1. s[i] \in Nat /\ s[i] <= startKey
          BY <4>1, NameElements DEF UpTo
        <5> QED BY <1>2, <3>1, <5>1
      <4> QED BY <1>2, <1>4, <4>1 DEF UpTo
    <3> QED BY <1>1, <1>2, <3>1, <3>2, ConcatElements DEF UpTo
  <2> QED BY <1>1, <1>4, <2>2, <2>3, <2>4 DEF OrderInv
<1>8. CoverInv'
  <2> SUFFICES ASSUME NEW n \in stayed, n <= startKey' \/ lsStatus' = "LsDone"
               PROVE  Has(stream, n) \/ Has(dirList', n)
    BY <1>1 DEF Inv, CoverInv
  <2>1. n \in Nat
    BY <1>2 DEF TypeOK, Names
  <2>2. CASE n <= startKey
    BY <1>1, <1>2, <2>2, ConcatHas DEF Inv, CoverInv
  <2>3. CASE ~(n <= startKey)
    <3>1. Has(resp, n) \/ (Len(resp) = lsSize /\ \A i \in DOMAIN resp : resp[i] < n)
      BY <1>1, <1>2, <2>1, <2>3 DEF Inv, PageInv
    <3>2. CASE Has(resp, n)
      BY <1>1, <1>2, <3>2, ConcatHas
    <3>3. CASE Len(resp) = lsSize /\ \A i \in DOMAIN resp : resp[i] < n
      <4>1. ~(Len(resp) < lsSize) /\ lsStatus' = lsStatus
        BY <1>1, <1>2, <3>3
      <4>2. startKey' < n /\ startKey' \in Nat
        BY <1>1, <1>5, <3>3, <4>1 DEF Names
      <4>3. lsStatus # "LsDone"
        BY <1>2 DEF Inv, DoneInv
      <4> QED BY <2>1, <4>1, <4>2, <4>3
    <3> QED BY <3>1, <3>2, <3>3
  <2> QED BY <2>2, <2>3
<1>9. PageInv' /\ RoomInv' /\ DoneInv'
  <2>1. lsStatus # "LsDone"
    BY <1>2 DEF Inv, DoneInv
  <2> QED BY <1>1, <1>2, <2>1 DEF PageInv, RoomInv, DoneInv, Fetching
<1>10. ListBounded'
  BY <1>1, <1>2, <1>3 DEF Inv, RoomInv, ListBounded, TypeOK
<1> QED BY <1>6, <1>7, <1>8, <1>9, <1>10 DEF Inv

\* The goroutine tells the reader, and goes on or ends.
LEMMA NotifyInv ==
    ASSUME Inv, ProducerNotify \/ ProducerFail \/ ProducerNotifyFail
    PROVE  Inv'
<1>1. /\ UNCHANGED <<dirList, startKey, cacheSize, rpc, count, stream, outcome, names, changes, stayed>>
      /\ resp' \in {resp, <<>>} /\ ch' \in {ch, 1}
      /\ ppc' \in {"done", "check", "notifyFail"} /\ (ppc' = "check" => Fetching)
      /\ lsStatus' = "LsError" \/ (lsStatus' = lsStatus /\ ppc' # "notifyFail")
  BY DirAssumption
  DEF Inv, TypeOK, ProducerNotify, ProducerFail, ProducerNotifyFail, Notify, IsLastPage, Fetching,
     readerVars, serverVars
<1>2. TypeOK'
  <2>0. resp \in Seq(Names) /\ <<>> \in Seq(Names) /\ ch \in {0, 1}
    BY DEF Inv, TypeOK
  <2>1. resp' \in Seq(Names) /\ ch' \in {0, 1}
    BY <1>1, <2>0
  <2> QED BY <1>1, <2>1 DEF Inv, TypeOK
<1>3. PageInv' /\ OrderInv' /\ RoomInv' /\ DoneInv'
  BY <1>1 DEF Inv, PageInv, OrderInv, RoomInv, DoneInv, Fetching
<1>4. CoverInv' /\ ListBounded'
  BY <1>1 DEF Inv, CoverInv, ListBounded
<1> QED BY <1>2, <1>3, <1>4 DEF Inv

\* Readdir hands over the front of the list.
LEMMA TakeInv ==
    ASSUME Inv, ReadTake
    PROVE  Inv'
<1> DEFINE k == IF Len(dirList) < count THEN Len(dirList) ELSE count
           a == SubSeq(dirList, 1, k)
<1>1. /\ rpc = "check" /\ lsStatus \in {"LsFetching", "LsDone"} /\ ~MustWait /\ GrowCache
      /\ stream' = stream \o a /\ dirList' = SubSeq(dirList, k + 1, Len(dirList))
      /\ \/ k < count /\ rpc' = "close" /\ outcome' = "ok"
         \/ ~(k < count) /\ rpc' = "next" /\ outcome' = outcome
      /\ UNCHANGED <<startKey, lsStatus, ch, names, changes, stayed, ppc, resp, count>>
  BY DEF ReadTake, serverVars
<1>2. /\ TypeOK /\ dirList \in Seq(Names) /\ stream \in Seq(Names) /\ count \in Nat /\ k \in 0 .. Len(dirList)
      /\ k < count => k = Len(dirList) /\ lsStatus = "LsDone"
      /\ cacheSize \in Nat
  BY <1>1, DirAssumption DEF Inv, TypeOK, MustWait
<1>3. cacheSize <= cacheSize' /\ cacheSize' \in Nat
  BY <1>1, <1>2 DEF GrowCache
<1> HIDE DEF k
<1>4. /\ a \in Seq(Names) /\ dirList' \in Seq(Names) /\ Len(dirList') = Len(dirList) - k
      /\ \A i \in DOMAIN a : i \in DOMAIN dirList /\ a[i] = dirList[i]
      /\ \A i \in DOMAIN dirList' : i + k \in DOMAIN dirList /\ dirList'[i] = dirList[i + k]
      /\ DOMAIN a = 1 .. k /\ DOMAIN dirList' = 1 .. Len(dirList) - k
  BY <1>1, <1>2, CutElements
<1>5. ASSUME NEW n, Has(dirList, n) PROVE Has(a, n) \/ Has(dirList', n)
  BY <1>1, <1>2, <1>5, CutHas
<1> HIDE DEF a
<1>6. stream' \in Seq(Names)
  BY <1>1, <1>2, <1>4, ConcatElements
<1>7. TypeOK'
  BY <1>1, <1>2, <1>3, <1>4, <1>6 DEF TypeOK
<1>8. OrderInv'
  <2>1. Increasing(dirList) /\ Increasing(stream) /\ Before(stream, dirList)
    BY DEF Inv, OrderInv
  <2>2. Increasing(a) /\ Before(stream, a)
    BY <1>4, <2>1 DEF Increasing, Before
  <2>3. Increasing(dirList')
    BY <1>2, <1>4, <2>1 DEF Increasing
  <2>4. Before(stream, dirList')
    BY <1>4, <2>1 DEF Before
  <2>5. Before(a, dirList')
    <3> SUFFICES ASSUME NEW i \in DOMAIN a, NEW j \in DOMAIN dirList' PROVE a[i] < dirList'[j]
      BY DEF Before
    <3>1. i < j + k /\ i \in DOMAIN dirList /\ j + k \in DOMAIN dirList
      BY <1>2, <1>4
    <3> QED BY <1>4, <2>1, <3>1 DEF Increasing
  <2>6. Increasing(stream')
    BY <1>1, <1>2, <1>4, <2>1, <2>2, ConcatOrder
  <2>7. Before(stream', dirList')
    <3> SUFFICES ASSUME NEW i \in DOMAIN stream', NEW j \in DOMAIN dirList'
                 PROVE  stream'[i] < dirList'[j]
      BY DEF Before
    <3>1. \/ i \in DOMAIN stream /\ stream'[i] = stream[i]
          \/ i - Len(stream) \in DOMAIN a /\ stream'[i] = a[i - Len(stream)]
      <4>1. \A m \in DOMAIN (stream \o a) :
               \/ m \in DOMAIN stream /\ (stream \o a)[m] = stream[m]
               \/ m - Len(stream) \in DOMAIN a /\ (stream \o a)[m] = a[m - Len(stream)]
        BY <1>2, <1>4, ConcatElements
      <4> QED BY <1>1, <4>1
    <3> QED BY <2>4, <2>5, <3>1 DEF Before
  <2>8. ASSUME Fetching' PROVE UpTo(stream', startKey') /\ UpTo(dirList', startKey')
    <3>1. UpTo(stream, startKey) /\ UpTo(dirList, startKey)
      BY <1>1, <2>8 DEF Inv, OrderInv, Fetching
    <3>2. UpTo(a, startKey) /\ UpTo(dirList', startKey)
      BY <1>4, <3>1 DEF UpTo
    <3> QED BY <1>1, <1>2, <1>4, <3>1, <3>2, ConcatElements DEF UpTo
  <2> QED BY <2>3, <2>6, <2>7, <2>8 DEF OrderInv
<1>9. CoverInv'
  <2> SUFFICES ASSUME NEW n \in stayed
               PROVE  /\ n <= startKey \/ lsStatus = "LsDone" => Has(stream', n) \/ Has(dirList', n)
                      /\ outcome' = "ok" => Has(stream', n)
    BY <1>1 DEF CoverInv
  <2>1. Has(stream, n) \/ Has(dirList, n) => Has(stream', n) \/ Has(dirList', n)
    BY <1>1, <1>2, <1>4, <1>5, ConcatHas
  <2>2. n <= startKey \/ lsStatus = "LsDone" => Has(stream, n) \/ Has(dirList, n)
    BY DEF Inv, CoverInv
  <2>3. CASE k < count
    <3>1. ~Has(dirList', n)
      BY <1>2, <1>4, <2>3 DEF Has
    <3> QED BY <1>2, <2>1, <2>2, <2>3, <3>1
  <2>4. CASE ~(k < count)
    <3>1. Has(stream, n) => Has(stream', n)
      BY <1>1, <1>2, <1>4, ConcatHas
    <3> QED BY <1>1, <2>1, <2>2, <2>4, <3>1 DEF Inv, CoverInv
  <2> QED BY <2>3, <2>4
<1>10. PageInv' /\ DoneInv'
  BY <1>1 DEF Inv, PageInv, DoneInv, Fetching
<1>11. RoomInv' /\ ListBounded'
  BY <1>1, <1>2, <1>3, <1>4, DirAssumption DEF Inv, RoomInv, ListBounded
<1> QED BY <1>7, <1>8, <1>9, <1>10, <1>11 DEF Inv

\* Every step preserves the invariant.
LEMMA NextInv == Inv /\ [Next]_vars => Inv'
<1> SUFFICES ASSUME Inv, [Next]_vars PROVE Inv'
  OBVIOUS
<1>0. cacheSize \in Nat /\ count \in Nat
  BY DirAssumption DEF Inv, TypeOK
<1>1. CASE Producer
  BY <1>1, FetchInv, PushInv, NotifyInv DEF Producer
<1>2. CASE ReadTake
  BY <1>2, TakeInv
<1>3. CASE CallReaddir \/ GiveUp \/ ReadError \/ ReadWait \/ ReadWake \/ CloseDir
  <2>1. /\ UNCHANGED <<dirList, stream, resp, startKey, ppc, stayed>>
        /\ cacheSize' = cacheSize \/ GrowCache
        /\ outcome' = "ok" => outcome = "ok"
        /\ lsStatus' = lsStatus \/ lsStatus' = "LsUserAbort"
    BY <1>3 DEF CallReaddir, GiveUp, ReadError, ReadWait, ReadWake, CloseDir, dirVars, serverVars
  <2>2. cacheSize <= cacheSize' /\ cacheSize' \in Nat
    BY <1>0, <2>1 DEF GrowCache
  <2>3. TypeOK'
    BY <1>3, <2>1, <2>2
    DEF Inv, TypeOK, CallReaddir, GiveUp, ReadError, ReadWait, ReadWake, CloseDir, dirVars, serverVars
  <2> QED BY <2>1, <2>2, <2>3, FrameInv
<1>4. CASE (\E n \in Names : CreateEntry(n) \/ RemoveEntry(n)) \/ UNCHANGED vars
  <2>1. /\ UNCHANGED <<dirList, stream, resp, startKey, ppc, cacheSize, outcome, lsStatus>>
        /\ stayed' \subseteq stayed
    BY <1>4 DEF CreateEntry, RemoveEntry, vars, dirVars, readerVars, serverVars
  <2>2. TypeOK'
    BY <1>4, DirAssumption
    DEF Inv, TypeOK, CreateEntry, RemoveEntry, vars, dirVars, readerVars, serverVars
  <2> QED BY <1>0, <2>1, <2>2, FrameInv
<1> QED BY <1>1, <1>2, <1>3, <1>4 DEF Next, Reader, InCall, Finished

LEMMA InvHolds == Spec => []Inv
BY InitInv, NextInv, PTL DEF Spec

-----------------------------------------------------------------------------
\* Every field of a listing keeps its type; Dir.ch never holds two tokens.
THEOREM TypeCorrect == Spec => []TypeOK
<1>1. Inv => TypeOK
  BY DEF Inv
<1> QED BY <1>1, InvHolds, PTL

\* A listing that ends without error has every entry that existed all the time
\* (ListingComplete), whatever the sizes of pages, lists and calls of Readdir
\* and however the directory changes.
THEOREM ListingsComplete == Spec => []ListingComplete
<1>1. Inv => ListingComplete
  BY DEF Inv, CoverInv, ListingComplete, Has
<1> QED BY <1>1, InvHolds, PTL

\* A listing is in the server's order and names no entry twice (ListingOrdered).
THEOREM ListingsOrdered == Spec => []ListingOrdered
<1>1. Inv => ListingOrdered
  BY DEF Inv, OrderInv, ListingOrdered, Increasing
<1> QED BY <1>1, InvHolds, PTL

\* The goroutine is never more than one page beyond cacheSize ahead (ListBounded).
THEOREM ListsBounded == Spec => []ListBounded
<1>1. Inv => ListBounded
  BY DEF Inv
<1> QED BY <1>1, InvHolds, PTL
=============================================================================
