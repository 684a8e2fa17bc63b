---------------------------- MODULE ServerProofs ----------------------------
(***************************************************************************)
(* What is proved of the parts of Server that keep little data: the          *)
(* throttler, authenticators, relays, proxies, accounts and enrolments, each *)
(* by an inductive invariant that holds whenever the part runs.  What Leases *)
(* and Sessions keep by themselves (see their own proofs) they keep in       *)
(* Server too: each of its steps is one of the part that runs or leaves the  *)
(* variables of the part alone.                                              *)
(***************************************************************************)
EXTENDS Server, SequenceTheorems, FiniteSetTheorems, TLAPS

\* The part that runs is chosen at the start.
LEMMA PartKept == [PartsNext]_PartsVars => part' = part
  BY Zenon DEF PartsNext, PartsVars, Rest

-----------------------------------------------------------------------------
(* The log's throttler: every record counted from a time at which the        *)
(* instance was not yet found well, and told of when it had to be.           *)

Seen == [count : Nat, lastLogged : Nat, firstSeen : Nat]
Telling == [at : Nat, by : G!Options]

ThrottlerInv ==
    /\ records \in [G!Keys -> Seen \cup {Null}]
    /\ told \in [G!Keys -> Telling \cup {Null}]
    /\ since \in [Boxes -> Nat] /\ minute \in Nat
    /\ \A i \in Boxes : since[i] <= minute
    /\ G!NeverSilentLong
    /\ G!CountedSinceWell

\* An occurrence of an error, logged or not, with the options of its cause.
LEMMA ThrottledLogKeeps ==
    ASSUME ThrottlerInv,
           NEW k \in G!Keys, NEW o \in {Usual, Patient, Location, Aggregate},
           G!ThrottledLog(k, o)
    PROVE  ThrottlerInv'
<1>. DEFINE r == G!Counted(records[k])
            spoken == r.count = 1 \/ G!ShouldLog(r, o)
            next == IF spoken THEN [r EXCEPT !.lastLogged = minute] ELSE r
            t == [at |-> minute, by |-> o]
<1>1. o \in G!Options /\ o.initial <= o.subsequent /\ o.initial \in Nat /\ o.subsequent \in Nat
  BY ThrottlerAssumption DEF G!ConstantsOK, G!Options
<1>2. /\ records' = [records EXCEPT ![k] = next] /\ told' = [told EXCEPT ![k] = t]
      /\ UNCHANGED <<minute, since>>
  BY DEF G!ThrottledLog
<1>3. minute \in Nat /\ records[k] \in Seen \cup {Null}
  BY DEF ThrottlerInv
<1>4. r \in Seen
  BY <1>3 DEF G!Counted, Seen
<1>5. /\ records[k] # Null => r.firstSeen = records[k].firstSeen
      /\ records[k] = Null => r.firstSeen = minute
  BY <1>3 DEF G!Counted, Seen
<1>6. /\ next \in Seen /\ next.firstSeen = r.firstSeen
      /\ minute - next.lastLogged < o.subsequent \/ next.lastLogged = minute
  <2>1. CASE spoken
    <3>. HIDE DEF r, spoken
    <3>. QED
      BY <2>1, <1>3, <1>4 DEF Seen
  <2>2. CASE ~spoken
    <3>1. next = r
      BY <2>2
    <3>2. minute - r.lastLogged < (IF r.count <= o.max THEN o.initial ELSE o.subsequent)
      <4>. HIDE DEF r
      <4>. QED
        BY <2>2, <1>1, <1>3, <1>4 DEF G!ShouldLog, Seen, G!Options
    <3>. HIDE DEF r, next
    <3>. QED
      BY <3>1, <3>2, <1>1, <1>3, <1>4 DEF Seen
  <2>. QED
    BY <2>1, <2>2
<1>7. t \in Telling /\ t.at = minute /\ t.by = o
  BY <1>1, <1>3 DEF Telling
<1>. HIDE DEF next, r, t, spoken
<1>8. /\ records' \in [G!Keys -> Seen \cup {Null}] /\ told' \in [G!Keys -> Telling \cup {Null}]
      /\ \A j \in G!Keys : j # k => records'[j] = records[j] /\ told'[j] = told[j]
      /\ records'[k] = next /\ told'[k] = t
  BY <1>2, <1>6, <1>7 DEF ThrottlerInv
<1>9. G!NeverSilentLong'
  BY <1>2, <1>6, <1>7, <1>8 DEF ThrottlerInv, G!NeverSilentLong
<1>10. G!CountedSinceWell'
  <2>. SUFFICES ASSUME NEW j \in G!ResetErrors \X Boxes, records'[j] # Null
                PROVE  records'[j].firstSeen >= since[j[2]]
    BY <1>2 DEF G!CountedSinceWell
  <2>1. j \in G!Keys /\ j[2] \in Boxes
    BY DEF G!Keys, G!ResetErrors
  <2>2. CASE j # k
    BY <2>1, <2>2, <1>8 DEF ThrottlerInv, G!CountedSinceWell
  <2>3. CASE j = k /\ records[k] # Null
    BY <2>1, <2>3, <1>5, <1>6, <1>8 DEF ThrottlerInv, G!CountedSinceWell
  <2>4. CASE j = k /\ records[k] = Null
    BY <2>1, <2>4, <1>3, <1>5, <1>6, <1>8 DEF ThrottlerInv
  <2>. QED
    BY <2>2, <2>3, <2>4
<1>. QED
  BY <1>2, <1>8, <1>9, <1>10 DEF ThrottlerInv

\* An instance found well, of which everything but the answers without a state
\* is forgotten.
LEMMA FoundWellKeeps ==
    ASSUME ThrottlerInv, NEW i \in Boxes, G!FoundWell(i)
    PROVE  ThrottlerInv'
<1>. DEFINE forgotten == G!ResetErrors \X {i}
<1>1. /\ records' = [k \in G!Keys |-> IF k \in forgotten THEN Null ELSE records[k]]
      /\ told' = [k \in G!Keys |-> IF k \in forgotten THEN Null ELSE told[k]]
      /\ since' = [since EXCEPT ![i] = minute] /\ minute' = minute
  BY DEF G!FoundWell
<1>2. /\ records' \in [G!Keys -> Seen \cup {Null}] /\ told' \in [G!Keys -> Telling \cup {Null}]
      /\ since' \in [Boxes -> Nat] /\ \A b \in Boxes : since'[b] <= minute
  BY <1>1 DEF ThrottlerInv
<1>3. G!NeverSilentLong'
  BY <1>1 DEF ThrottlerInv, G!NeverSilentLong
<1>4. G!CountedSinceWell'
  <2>. SUFFICES ASSUME NEW j \in G!ResetErrors \X Boxes, records'[j] # Null
                PROVE  records'[j].firstSeen >= since'[j[2]]
    BY DEF G!CountedSinceWell
  <2>1. j \in G!Keys /\ j[2] \in Boxes
    BY DEF G!Keys, G!ResetErrors
  <2>2. j \notin forgotten /\ records'[j] = records[j]
    BY <1>1, <2>1
  <2>3. j[2] # i
    BY <2>1, <2>2
  <2>. QED
    BY <1>1, <2>1, <2>2, <2>3 DEF ThrottlerInv, G!CountedSinceWell
<1>. QED
  BY <1>1, <1>2, <1>3, <1>4 DEF ThrottlerInv

\* The records of the throttler, whatever the monitor finds.
LEMMA ThrottlerStep == ThrottlerInv /\ [G!Next]_(G!throttling) => ThrottlerInv'
<1>. SUFFICES ASSUME ThrottlerInv, [G!Next]_(G!throttling)
              PROVE  ThrottlerInv'
  OBVIOUS
<1>1. ASSUME NEW i \in Boxes, G!NoLocation(i) \/ G!NoHostIp(i) \/ G!NoState(i) \/ G!NoData(i)
      PROVE  ThrottlerInv'
  <2>1. PICK k \in G!Keys, o \in {Usual, Patient, Location, Aggregate} : G!ThrottledLog(k, o)
    BY <1>1 DEF G!NoLocation, G!NoHostIp, G!NoState, G!NoData, G!Keys, G!Errors
  <2>. QED
    BY <2>1, ThrottledLogKeeps
<1>2. ASSUME NEW i \in Boxes, G!FoundWell(i)
      PROVE  ThrottlerInv'
  BY <1>2, FoundWellKeeps
<1>3. CASE G!Tick
  BY <1>3 DEF G!Tick, ThrottlerInv, G!NeverSilentLong, G!CountedSinceWell
<1>4. CASE UNCHANGED G!throttling
  BY <1>4 DEF G!throttling, ThrottlerInv, G!NeverSilentLong, G!CountedSinceWell
<1>. QED
  BY <1>1, <1>2, <1>3, <1>4 DEF G!Next

\* An error of the monitor that lasts is told of, and counted from where it
\* began, whatever the options and however causes follow each other
\* (throttledLog, resetErrorCounts).
THEOREM LastingErrorsTold == PartsSpec => []ErrorsTold
<1>. DEFINE Inv == part = "throttler" => ThrottlerInv
<1>1. PartsInit => Inv
  <2>. SUFFICES ASSUME PartsInit, part = "throttler"
                PROVE  ThrottlerInv
    OBVIOUS
  <2>1. G!Init
    BY Zenon DEF PartsInit
  <2>. QED
    BY <2>1 DEF G!Init, ThrottlerInv, G!NeverSilentLong, G!CountedSinceWell, G!Keys, G!ResetErrors
<1>2. Inv /\ [PartsNext]_PartsVars => Inv'
  <2>1. part = "throttler" /\ [PartsNext]_PartsVars => [G!Next]_(G!throttling)
    BY Zenon DEF PartsNext, PartsVars, G!throttling, throttling
  <2>. QED
    BY <2>1, PartKept, ThrottlerStep
<1>3. Inv => ErrorsTold
  BY DEF ErrorsTold, G!ErrorsTold, ThrottlerInv
<1>. QED
  BY <1>1, <1>2, <1>3, PTL DEF PartsSpec

-----------------------------------------------------------------------------
(* ProxiesExpire: since the last cleanup a proxy was used less than TTL      *)
(* before it, or after it.                                                   *)

CachesShaped ==
    /\ caches = [way \in P!Kinds |-> [i \in Boxes |-> caches[way][i]]]
    /\ now \in Nat /\ cleaned \in Nat /\ cleaned <= now /\ now <= cleaned + TTL

\* A proxy that outlived the last cleanup was used less than TTL before it.
Aged(proxy, at, from) ==
    proxy # Null => /\ proxy.lastUsed \in Nat /\ proxy.lastUsed <= at
                    /\ from - proxy.lastUsed <= TTL
Recorded(proxy) ==
    proxy # Null => proxy = [target |-> proxy.target, lastUsed |-> proxy.lastUsed]
CachesHoldRecords == \A way \in P!Kinds, i \in Boxes : Recorded(caches[way][i])
Survivors == \A way \in P!Kinds, i \in Boxes : Aged(caches[way][i], now, cleaned)

ProxyInv == CachesShaped /\ CachesHoldRecords /\ Survivors

\* Time passes within the time to keep.
LEMMA CachesKept ==
    ASSUME ProxyInv, caches' = caches, cleaned' = cleaned,
           now' \in Nat, now <= now', now' <= cleaned + TTL
    PROVE  ProxyInv'
  BY DEF ProxyInv, CachesShaped, CachesHoldRecords, Recorded, Survivors, Aged

\* What a request writes was used now, or takes nothing from what it was.
LEMMA ContinueKeeps ==
    ASSUME ProxyInv, NEW q \in Requests, P!Continue(q)
    PROVE  ProxyInv'
<1>1. PICK k, i, touched :
         /\ k = visit[q].kind /\ i = visit[q].instance
         /\ touched = P!Touched(caches[k][i])
         /\ \/ caches' = caches
            \/ caches[k][i] # Null /\ caches' = [caches EXCEPT ![k][i] = touched]
  BY DEF P!Continue
<1>2. now' = now /\ cleaned' = cleaned
  BY DEF P!Continue
<1>3. CASE caches' = caches
  BY <1>2, <1>3, CachesKept DEF ProxyInv, CachesShaped
<1>4. CASE caches[k][i] # Null /\ caches' = [caches EXCEPT ![k][i] = touched]
  <2>1. caches' = [way \in P!Kinds |-> [j \in Boxes |->
                      IF way = k /\ j = i THEN touched ELSE caches[way][j]]]
    BY <1>4 DEF ProxyInv, CachesShaped
  <2>2. ASSUME k \in P!Kinds, i \in Boxes PROVE Aged(touched, now, cleaned) /\ Recorded(touched)
    <3>1. Recorded(caches[k][i])
      BY <2>2 DEF ProxyInv, CachesHoldRecords
    <3>2. touched = [target |-> caches[k][i].target, lastUsed |-> now]
      BY <1>1, <1>4, <3>1 DEF P!Touched, Recorded
    <3>3. now \in Nat /\ now <= now /\ cleaned - now <= TTL
      BY ProxiesAssumption DEF ProxyInv, CachesShaped, P!ConstantsOK
    <3>. QED
      BY <3>2, <3>3 DEF Aged, Recorded
  <2>. QED
    BY <1>2, <2>1, <2>2 DEF ProxyInv, CachesShaped, CachesHoldRecords, Survivors
<1>. QED
  BY <1>1, <1>3, <1>4

\* A proxy is cached.
LEMMA CreateProxyKeeps ==
    ASSUME ProxyInv, NEW q \in Requests, P!CreateProxy(q)
    PROVE  ProxyInv'
<1>1. PICK k, i, proxy :
         /\ k = visit[q].kind /\ i = visit[q].instance
         /\ proxy = [target |-> visit[q].target, lastUsed |-> now]
         /\ caches' = [caches EXCEPT ![k][i] = proxy]
  BY DEF P!CreateProxy
<1>2. now' = now /\ cleaned' = cleaned
  BY DEF P!CreateProxy
<1>3. now \in Nat /\ now <= now /\ cleaned - now <= TTL
  BY ProxiesAssumption DEF ProxyInv, CachesShaped, P!ConstantsOK
<1>4. Aged(proxy, now, cleaned) /\ Recorded(proxy)
  BY <1>1, <1>3 DEF Aged, Recorded
<1>5. caches' = [way \in P!Kinds |-> [j \in Boxes |->
                      IF way = k /\ j = i THEN proxy ELSE caches[way][j]]]
  <2>. DEFINE ways == [way \in P!Kinds |-> [j \in Boxes |-> caches[way][j]]]
              made == [[j \in Boxes |-> caches[k][j]] EXCEPT ![i] = proxy]
  <2>1. caches = ways
    BY DEF ProxyInv, CachesShaped
  <2>2. caches' = [ways EXCEPT ![k][i] = proxy]
    BY <1>1, <2>1, Zenon
  <2>3. made = [j \in Boxes |-> IF j = i THEN proxy ELSE caches[k][j]]
    OBVIOUS
  <2>4. [ways EXCEPT ![k][i] = proxy] =
            [way \in P!Kinds |-> [j \in Boxes |->
                IF way = k /\ j = i THEN proxy ELSE caches[way][j]]]
    BY <2>3
  <2>. QED
    BY <2>2, <2>4, Zenon
<1>. QED
  BY <1>2, <1>4, <1>5 DEF ProxyInv, CachesShaped, CachesHoldRecords, Survivors

\* The caches are cleaned.
LEMMA CleanupKeeps ==
    ASSUME ProxyInv, P!CleanupProxyCaches
    PROVE  ProxyInv'
<1>1. /\ now = cleaned + TTL /\ cleaned' = now /\ now' = now
      /\ caches' = [way \in P!Kinds |-> [i \in Boxes |->
                       IF P!Stale(caches[way][i]) THEN Null ELSE caches[way][i]]]
  BY DEF P!CleanupProxyCaches
<1>2. ASSUME NEW proxy, Aged(proxy, now, cleaned), ~P!Stale(proxy)  PROVE Aged(proxy, now, now)
  BY <1>2, ProxiesAssumption DEF Aged, P!Stale, ProxyInv, CachesShaped, P!ConstantsOK
<1>3. Aged(Null, now, now) /\ Recorded(Null)
  BY DEF Aged, Recorded
<1>. QED
  BY <1>1, <1>2, <1>3, ProxiesAssumption
     DEF ProxyInv, CachesShaped, CachesHoldRecords, Survivors, P!ConstantsOK

\* The server restarts.
LEMMA CachesRestart ==
    ASSUME ProxyInv, P!Restart
    PROVE  ProxyInv'
  BY ProxiesAssumption
     DEF P!Restart, ProxyInv, CachesShaped, CachesHoldRecords, Recorded, Survivors, Aged,
         P!ConstantsOK

\* Every step of a request, of the instances, of time and of the cleanup.
LEMMA ProxiesStep == ProxyInv /\ [P!Next]_(P!proxies) => ProxyInv'
<1>. SUFFICES ASSUME ProxyInv, [P!Next]_(P!proxies)
              PROVE  ProxyInv'
  OBVIOUS
<1>1. now \in Nat /\ cleaned \in Nat /\ now <= cleaned + TTL
  BY DEF ProxyInv, CachesShaped
<1>2. ASSUME NEW q \in Requests,
             \/ P!Begin(q) \/ P!VerifyAccess(q) \/ P!GetInstanceTarget(q) \/ P!GetContainerIP(q)
             \/ P!ExistingMonitorJob(q) \/ P!CreateMonitorJob(q) \/ P!Again(q)
      PROVE  ProxyInv'
  <2>1. caches' = caches /\ cleaned' = cleaned /\ now' = now
    BY <1>2 DEF P!Begin, P!VerifyAccess, P!GetInstanceTarget, P!GetContainerIP, P!ExistingMonitorJob,
                P!CreateMonitorJob, P!Again
  <2>. QED
    BY <1>1, <2>1, CachesKept
<1>3. CASE P!InstanceChanges
  BY <1>1, <1>3, CachesKept DEF P!InstanceChanges
<1>4. CASE P!Tick
  BY <1>1, <1>4, ProxiesAssumption, CachesKept DEF P!Tick, P!ConstantsOK
<1>5. CASE UNCHANGED P!proxies
  BY <1>1, <1>5, CachesKept DEF P!proxies
<1>. QED
  BY <1>2, <1>3, <1>4, <1>5, ContinueKeeps, CreateProxyKeeps, CleanupKeeps, CachesRestart DEF P!Next

\* Whatever requests insert, touch and remove meanwhile, no proxy stays cached for
\* longer than twice the time it is kept for, counted from its last use
\* (cleanupProxyCaches, lxd/index.ts).
THEOREM ProxiesDoExpire == PartsSpec => []ProxiesExpire
<1>. DEFINE Inv == part = "proxies" => ProxyInv
<1>1. PartsInit => Inv
  <2>. SUFFICES ASSUME PartsInit, part = "proxies"
                PROVE  ProxyInv
    OBVIOUS
  <2>1. P!Init
    BY Zenon DEF PartsInit
  <2>. QED
    BY <2>1, ProxiesAssumption
       DEF P!Init, ProxyInv, CachesShaped, CachesHoldRecords, Recorded, Survivors, Aged,
           P!ConstantsOK
<1>2. Inv /\ [PartsNext]_PartsVars => Inv'
  <2>1. part = "proxies" /\ [PartsNext]_PartsVars => [P!Next]_(P!proxies)
    BY Zenon DEF PartsNext, PartsVars, P!proxies, proxies
  <2>. QED
    BY <2>1, PartKept, ProxiesStep
<1>3. Inv => ProxiesExpire
  BY ProxiesAssumption
     DEF ProxyInv, CachesShaped, Survivors, Aged, ProxiesExpire, P!ProxiesExpire, P!ConstantsOK
<1>. QED
  BY <1>1, <1>2, <1>3, PTL DEF PartsSpec

-----------------------------------------------------------------------------
(* Authenticators: what a request has read is what it will overwrite, unless *)
(* another one of the same user came between.                                *)

HandlerOK(q) ==
    LET r == ceremony[q] IN
    /\ r.pc = "idle" => r.user = Null
    /\ r.pc # "idle" => r.user \in Users /\ r.doc = 1
    /\ r.pc = "insert" => r.user \in clash \/ ~W!Known(r.user)
    /\ r.pc \in {"challenge", "register", "authenticate", "remove"} => W!Known(r.user)
    /\ r.pc \in {"register", "authenticate", "remove"} =>
         /\ r.device \in Devices
         /\ r.user \in clash \/ r.list = W!Found(r.user).devices
    /\ r.pc = "authenticate" => r.list[r.device] # Null

AloneOrClash ==
    \A p, q \in Requests :
        p # q /\ ceremony[p].user = ceremony[q].user /\ ceremony[q].user # Null =>
            ceremony[q].user \in clash

DevicesInv ==
    /\ W!TypeOK
    /\ \A q \in Requests : HandlerOK(q)
    /\ AloneOrClash
    /\ W!DevicesKept

\* The records of requests, and their types.
LEMMA WType ==
    /\ Null \notin Users /\ Null \notin Devices /\ Null \notin W!Device
    /\ W!NoDevices \in W!List
    /\ W!Idle \in W!Request /\ W!Idle.pc = "idle" /\ W!Idle.user = Null
<1>1. W!NoDevices \in W!List
  BY DEF W!NoDevices, W!List, W!Maybe
<1>. QED
  BY <1>1, AuthenticatorsAssumption
     DEF W!ConstantsOK, W!Device, W!Idle, W!Request, W!Steps, W!Maybe

\* A user's documents are written by a request that ends, or by one that takes
\* no time.
LEMMA WrittenKeeps ==
    ASSUME DevicesInv, W!TypeOK', NEW u \in Users,
           \A v \in Users \ {u} : webauthn'[v] = webauthn[v] /\ expected'[v] = expected[v],
           clash \subseteq clash',
           W!Known(u) => webauthn'[u] # <<>>,
           \A p \in Requests : ceremony'[p] = ceremony[p] \/ ceremony'[p] = W!Idle,
           u \notin clash' =>
             /\ \A p \in Requests : ceremony'[p].user # u
             /\ Len(webauthn'[u]) <= 1
             /\ expected'[u] = IF webauthn'[u] # <<>> THEN webauthn'[u][1].devices
                               ELSE W!NoDevices
    PROVE  DevicesInv'
<1>1. ASSUME NEW q \in Requests
      PROVE  HandlerOK(q)'
  <2>1. CASE ceremony'[q] = W!Idle
    BY <2>1, WType DEF HandlerOK
  <2>2. CASE ceremony'[q] = ceremony[q] /\ ceremony[q].user = u
    <3>1. HandlerOK(q)
      BY DEF DevicesInv
    <3>. QED
      BY <2>2, <3>1 DEF HandlerOK, W!Known, W!Found
  <2>3. CASE ceremony'[q] = ceremony[q] /\ ceremony[q].user # u
    <3>1. HandlerOK(q)
      BY DEF DevicesInv
    <3>. QED
      BY <2>3, <3>1, WType DEF HandlerOK, W!Known, W!Found
  <2>. QED
    BY <2>1, <2>2, <2>3
<1>2. AloneOrClash'
  BY WType DEF DevicesInv, AloneOrClash
<1>3. W!DevicesKept'
  <2>. SUFFICES ASSUME NEW v \in Users, v \notin clash'
                PROVE  /\ ~(Len(webauthn'[v]) > 1)
                       /\ (IF webauthn'[v] # <<>> THEN webauthn'[v][1].devices ELSE W!NoDevices)
                            = expected'[v]
    BY DEF W!DevicesKept, W!OneDocument, W!ListKept, W!Known, W!Found
  <2>1. Len(webauthn'[v]) \in Nat
    BY DEF W!TypeOK
  <2>2. CASE v = u
    BY <2>1, <2>2
  <2>3. CASE v # u
    BY <2>3 DEF DevicesInv, W!DevicesKept, W!OneDocument, W!ListKept, W!Known, W!Found
  <2>. QED
    BY <2>2, <2>3
<1>. QED
  BY <1>1, <1>2, <1>3 DEF DevicesInv

\* A request begins, alone or with others of its user.
LEMMA BeginKeeps ==
    ASSUME DevicesInv,
           NEW q \in Requests, NEW step \in W!Steps \ {"idle"}, NEW u \in Users,
           NEW device \in W!Maybe(Devices), NEW counter \in Nat,
           W!Begin(q, step, u, device, counter),
           answers' \subseteq W!Answer,
           step = "insert" <=> ~W!Known(u),
           step \in {"register", "authenticate", "remove"} => device \in Devices,
           step = "authenticate" => W!Listed(u, device)
    PROVE  DevicesInv'
<1>. DEFINE list == IF W!Known(u) THEN W!Found(u).devices ELSE W!NoDevices
            new == [pc |-> step, user |-> u, doc |-> 1, list |-> list, device |-> device,
                    counter |-> counter]
<1>1. /\ ceremony[q].pc = "idle" /\ ceremony' = [ceremony EXCEPT ![q] = new]
      /\ UNCHANGED <<webauthn, asked, signed, wfaults, expected>> /\ W!Overlap(u)
  BY DEF W!Begin
<1>2. ceremony[q].user = Null
  BY <1>1 DEF DevicesInv, HandlerOK
<1>3. /\ clash \subseteq clash' /\ clash' \subseteq Users
      /\ u \notin clash' => \A p \in Requests : ceremony[p].user # u
  BY <1>1 DEF W!Overlap, DevicesInv, W!TypeOK
<1>4. list \in W!List
  <2>1. W!Known(u) => W!Found(u) \in W!Doc
    BY ElementOfSeq, EmptySeq DEF DevicesInv, W!TypeOK, W!Known, W!Found
  <2>. QED
    BY <2>1, WType DEF W!Doc
<1>5. new \in W!Request
  BY <1>4 DEF W!Request, W!Maybe
<1>6. W!TypeOK'
  BY <1>1, <1>3, <1>5 DEF DevicesInv, W!TypeOK
<1>7. /\ ceremony'[q] = new
      /\ \A p \in Requests : p # q => ceremony'[p] = ceremony[p]
  BY <1>1 DEF DevicesInv, W!TypeOK
<1>8. ASSUME NEW p \in Requests
      PROVE  HandlerOK(p)'
  <2>1. CASE p = q
    BY <2>1, <1>1, <1>7 DEF HandlerOK, W!Known, W!Found, W!Steps, W!Listed
  <2>2. CASE p # q
    <3>1. HandlerOK(p)
      BY DEF DevicesInv
    <3>. QED
      BY <2>2, <3>1, <1>1, <1>3, <1>7 DEF HandlerOK, W!Known, W!Found
  <2>. QED
    BY <2>1, <2>2
<1>. HIDE DEF list
<1>9. new.user = u
  OBVIOUS
<1>. HIDE DEF new
<1>10. AloneOrClash'
  <2>. SUFFICES ASSUME NEW p \in Requests, NEW r \in Requests, p # r,
                       ceremony'[p].user = ceremony'[r].user, ceremony'[r].user # Null
                PROVE  ceremony'[r].user \in clash'
    BY DEF AloneOrClash
  <2>1. CASE p = q
    BY <2>1, <1>3, <1>7, <1>9
  <2>2. CASE r = q
    BY <2>2, <1>3, <1>7, <1>9
  <2>3. CASE p # q /\ r # q
    BY <2>3, <1>3, <1>7 DEF DevicesInv, AloneOrClash
  <2>. QED
    BY <2>1, <2>2, <2>3
<1>11. W!DevicesKept'
  BY <1>1, <1>3 DEF DevicesInv, W!DevicesKept, W!OneDocument, W!ListKept, W!Known, W!Found
<1>. QED
  BY <1>6, <1>8, <1>10, <1>11 DEF DevicesInv

\* A request ends with its write.
LEMMA EndsAlone ==
    ASSUME DevicesInv, NEW q \in Requests, ceremony[q].pc # "idle",
           ceremony' = [ceremony EXCEPT ![q] = W!Idle], clash' = clash
    PROVE  /\ ceremony[q].user \in Users /\ ceremony[q].doc = 1
           /\ ceremony' \in [Requests -> W!Request]
           /\ \A p \in Requests : ceremony'[p] = ceremony[p] \/ ceremony'[p] = W!Idle
           /\ ceremony[q].user \notin clash' =>
                \A p \in Requests : ceremony'[p].user # ceremony[q].user
<1>1. ceremony[q].user \in Users /\ ceremony[q].doc = 1
  BY DEF DevicesInv, HandlerOK
<1>2. ceremony[q].user # Null
  BY <1>1, WType
<1>3. ceremony \in [Requests -> W!Request]
  BY DEF DevicesInv, W!TypeOK
<1>. QED
  BY <1>1, <1>2, <1>3, WType DEF DevicesInv, AloneOrClash

\* It writes the oldest document, as it must with what it has read.
FirstWritten(q, u, doc, list) ==
    /\ u = ceremony[q].user
    /\ ceremony[q].pc \in {"challenge", "register", "authenticate", "remove"}
    /\ W!Done(q)
    /\ asked' \in Nat /\ answers' \subseteq W!Answer
    /\ webauthn' = [webauthn EXCEPT ![u] = [webauthn[u] EXCEPT ![1] = doc]]
    /\ expected' = [expected EXCEPT ![u] = list]
    /\ u \in clash \/ doc.devices = list

\* The first document of a user is written, as the list now expected.
LEMMA FirstWrittenKeeps ==
    ASSUME DevicesInv, NEW q \in Requests, NEW u \in Users, NEW doc \in W!Doc,
           NEW list \in W!List, FirstWritten(q, u, doc, list)
    PROVE  DevicesInv'
<1>. USE DEF FirstWritten
<1>1. /\ ceremony' = [ceremony EXCEPT ![q] = W!Idle] /\ clash' = clash
      /\ UNCHANGED <<signed, wfaults>>
  BY DEF W!Done
<1>2. /\ ceremony' \in [Requests -> W!Request]
      /\ \A p \in Requests : ceremony'[p] = ceremony[p] \/ ceremony'[p] = W!Idle
      /\ u \notin clash' => \A p \in Requests : ceremony'[p].user # u
  BY <1>1, EndsAlone
<1>3. W!Known(u) /\ webauthn[u] \in Seq(W!Doc)
  BY DEF DevicesInv, HandlerOK, W!TypeOK
<1>4. 1 \in 1..Len(webauthn[u]) /\ Len(webauthn[u]) \in Nat
  BY <1>3, EmptySeq DEF W!Known
<1>5. /\ webauthn'[u] \in Seq(W!Doc) /\ Len(webauthn'[u]) = Len(webauthn[u])
      /\ webauthn'[u][1] = doc
  <2>1. webauthn'[u] = [webauthn[u] EXCEPT ![1] = doc]
    BY DEF DevicesInv, W!TypeOK
  <2>. QED
    BY ONLY <2>1, <1>3, <1>4, doc \in W!Doc, ExceptSeq
<1>6. W!TypeOK'
  BY <1>1, <1>2, <1>5 DEF DevicesInv, W!TypeOK
<1>7. \A v \in Users \ {u} : webauthn'[v] = webauthn[v] /\ expected'[v] = expected[v]
  BY DEF DevicesInv, W!TypeOK
<1>8. webauthn'[u] # <<>>
  BY <1>4, <1>5
<1>9. expected'[u] = list
  BY DEF DevicesInv, W!TypeOK
<1>10. u \notin clash' => Len(webauthn'[u]) <= 1
  BY <1>1, <1>4, <1>5 DEF DevicesInv, W!DevicesKept, W!OneDocument
<1>. QED
  BY <1>1, <1>2, <1>5, <1>6, <1>7, <1>8, <1>9, <1>10, WrittenKeeps

\* What a request has read of its user, before it writes.
LEMMA ReadOK ==
    ASSUME DevicesInv, NEW q \in Requests,
           ceremony[q].pc \in {"challenge", "register", "authenticate", "remove"}
    PROVE  /\ ceremony[q].user \in Users /\ ceremony[q].doc = 1
           /\ ceremony[q].list \in W!List /\ ceremony[q].counter \in Nat
           /\ webauthn[ceremony[q].user] \in Seq(W!Doc)
           /\ W!Found(ceremony[q].user) \in W!Doc
           /\ expected[ceremony[q].user] \in W!List
           /\ ceremony[q].user \notin clash =>
                W!Found(ceremony[q].user).devices = expected[ceremony[q].user]
           /\ ceremony[q].pc # "challenge" =>
                /\ ceremony[q].device \in Devices
                /\ ceremony[q].user \notin clash =>
                     ceremony[q].list = expected[ceremony[q].user]
           /\ ceremony[q].pc = "authenticate" =>
                ceremony[q].list[ceremony[q].device] \in W!Device
<1>1. /\ HandlerOK(q) /\ ceremony[q] \in W!Request
      /\ webauthn \in [Users -> Seq(W!Doc)] /\ expected \in [Users -> W!List]
  BY DEF DevicesInv, W!TypeOK
<1>2. PICK u \in Users : u = ceremony[q].user
  BY <1>1 DEF HandlerOK
<1>3. W!Known(u)
  BY <1>1, <1>2 DEF HandlerOK
<1>4. W!Found(u) \in W!Doc
  BY <1>1, <1>3, ElementOfSeq, EmptySeq DEF W!Known, W!Found
<1>5. u \notin clash => W!Found(u).devices = expected[u]
  BY <1>3 DEF DevicesInv, W!DevicesKept, W!ListKept
<1>6. ceremony[q].list \in W!List /\ ceremony[q].counter \in Nat
  BY <1>1 DEF W!Request
<1>7. ceremony[q].pc = "authenticate" => ceremony[q].list[ceremony[q].device] \in W!Device
  BY <1>1, <1>6 DEF HandlerOK, W!List, W!Maybe
<1>. QED
  BY <1>1, <1>2, <1>4, <1>5, <1>6, <1>7 DEF HandlerOK

\* A registered device joins the list as it was read.
LEMMA AddDeviceKeeps ==
    ASSUME DevicesInv, NEW q \in Requests, W!AddDevice(q)
    PROVE  DevicesInv'
<1>. DEFINE new == [counter |-> ceremony[q].counter, named |-> FALSE]
<1>1. /\ ceremony[q].pc = "register" /\ W!Done(q) /\ UNCHANGED <<asked, answers>>
      /\ webauthn' = [webauthn EXCEPT ![ceremony[q].user][ceremony[q].doc].devices =
                         [ceremony[q].list EXCEPT ![ceremony[q].device] = new]]
      /\ expected' = [expected EXCEPT ![ceremony[q].user][ceremony[q].device] = new]
  BY DEF W!AddDevice, W!At
<1>2. PICK u \in Users, d \in Devices, l \in W!List :
          u = ceremony[q].user /\ d = ceremony[q].device /\ l = ceremony[q].list
  BY <1>1, ReadOK
<1>3. new \in W!Device
  BY <1>1, ReadOK DEF W!Device
<1>. HIDE DEF new
<1>4. [l EXCEPT ![d] = new] \in W!List /\ [expected[u] EXCEPT ![d] = new] \in W!List
  BY <1>1, <1>2, <1>3, ReadOK DEF W!List, W!Maybe
<1>. DEFINE doc == [webauthn[u][1] EXCEPT !.devices = [l EXCEPT ![d] = new]]
            list == [expected[u] EXCEPT ![d] = new]
<1>5. doc \in W!Doc /\ doc.devices = [l EXCEPT ![d] = new]
  BY <1>1, <1>2, <1>4, ReadOK DEF W!Doc, W!Found
<1>6. webauthn' = [webauthn EXCEPT ![u] = [webauthn[u] EXCEPT ![1] = doc]]
  BY <1>1, <1>2, ReadOK
<1>7. expected' = [expected EXCEPT ![u] = list]
  BY <1>1, <1>2
<1>8. u \in clash \/ doc.devices = list
  BY <1>1, <1>2, <1>5, ReadOK
<1>9. asked' \in Nat /\ answers' \subseteq W!Answer
  BY <1>1 DEF DevicesInv, W!TypeOK
<1>10. list \in W!List /\ ceremony[q].pc \in {"challenge", "register", "authenticate", "remove"}
  BY <1>1, <1>4
<1>11. doc \in W!Doc
  BY <1>5
<1>. HIDE DEF doc, list
<1>12. FirstWritten(q, u, doc, list)
  BY <1>1, <1>2, <1>6, <1>7, <1>8, <1>9, <1>10 DEF FirstWritten
<1>. QED
  BY <1>10, <1>11, <1>12, FirstWrittenKeeps

\* An authentication sets the counter of its device in the list as it was read.
LEMMA SetCounterKeeps ==
    ASSUME DevicesInv, NEW q \in Requests, W!SetCounter(q)
    PROVE  DevicesInv'
<1>1. /\ ceremony[q].pc = "authenticate" /\ W!Done(q) /\ UNCHANGED <<asked, answers>>
      /\ webauthn' = [webauthn EXCEPT ![ceremony[q].user][ceremony[q].doc].devices =
             [ceremony[q].list EXCEPT ![ceremony[q].device].counter = ceremony[q].counter]]
      /\ expected' = IF expected[ceremony[q].user][ceremony[q].device] = Null THEN expected
                     ELSE [expected EXCEPT ![ceremony[q].user][ceremony[q].device].counter =
                              ceremony[q].counter]
  BY DEF W!SetCounter, W!At
<1>2. PICK u \in Users, d \in Devices, l \in W!List, c \in Nat :
          /\ u = ceremony[q].user /\ d = ceremony[q].device /\ l = ceremony[q].list
          /\ c = ceremony[q].counter
  BY <1>1, ReadOK
<1>3. l[d] \in W!Device /\ l[d] # Null /\ expected[u] \in W!List
  BY <1>1, <1>2, ReadOK, WType
<1>4. [l[d] EXCEPT !.counter = c] \in W!Device
  BY <1>3 DEF W!Device
<1>. DEFINE listed == [l EXCEPT ![d] = [l[d] EXCEPT !.counter = c]]
            list == IF expected[u][d] = Null THEN expected[u]
                    ELSE [expected[u] EXCEPT ![d] = [expected[u][d] EXCEPT !.counter = c]]
            doc == [webauthn[u][1] EXCEPT !.devices = listed]
<1>5. listed \in W!List
  BY <1>4 DEF W!List, W!Maybe
<1>6. list \in W!List
  <2>1. CASE expected[u][d] = Null
    BY <2>1, <1>3
  <2>2. CASE expected[u][d] # Null
    <3>1. expected[u][d] \in W!Device
      BY <2>2, <1>3 DEF W!List, W!Maybe
    <3>2. [expected[u][d] EXCEPT !.counter = c] \in W!Device
      BY <3>1 DEF W!Device
    <3>. QED
      BY <2>2, <3>2, <1>3 DEF W!List, W!Maybe
  <2>. QED
    BY <2>1, <2>2
<1>7. u \in clash \/ listed = list
  BY <1>1, <1>2, <1>3, ReadOK
<1>8. webauthn' = [webauthn EXCEPT ![u] = [webauthn[u] EXCEPT ![1] = doc]]
  BY <1>1, <1>2, ReadOK
<1>9. expected' = [expected EXCEPT ![u] = list]
  <2>1. expected \in [Users -> W!List]
    BY DEF DevicesInv, W!TypeOK
  <2>. QED
    BY <1>1, <1>2, <2>1
<1>. HIDE DEF listed, list
<1>10. doc \in W!Doc /\ doc.devices = listed
  BY <1>1, <1>2, <1>5, ReadOK DEF W!Doc, W!Found
<1>11. asked' \in Nat /\ answers' \subseteq W!Answer
  BY <1>1 DEF DevicesInv, W!TypeOK
<1>12. ceremony[q].pc \in {"challenge", "register", "authenticate", "remove"}
  BY <1>1
<1>13. u \in clash \/ doc.devices = list
  BY <1>7, <1>10
<1>. HIDE DEF doc
<1>14. FirstWritten(q, u, doc, list)
  BY <1>1, <1>2, <1>8, <1>9, <1>11, <1>12, <1>13 DEF FirstWritten
<1>. QED
  BY <1>6, <1>10, <1>14, FirstWrittenKeeps

\* A device leaves the list as it was read.
LEMMA RemoveDeviceKeeps ==
    ASSUME DevicesInv, NEW q \in Requests, W!RemoveDevice(q)
    PROVE  DevicesInv'
<1>1. /\ ceremony[q].pc = "remove" /\ W!Done(q) /\ UNCHANGED <<asked, answers>>
      /\ webauthn' = [webauthn EXCEPT ![ceremony[q].user][1].devices =
                         [ceremony[q].list EXCEPT ![ceremony[q].device] = Null]]
      /\ expected' = [expected EXCEPT ![ceremony[q].user][ceremony[q].device] = Null]
  BY DEF W!RemoveDevice, W!At
<1>2. PICK u \in Users, d \in Devices, l \in W!List :
          u = ceremony[q].user /\ d = ceremony[q].device /\ l = ceremony[q].list
  BY <1>1, ReadOK
<1>3. [l EXCEPT ![d] = Null] \in W!List /\ [expected[u] EXCEPT ![d] = Null] \in W!List
  BY <1>1, <1>2, ReadOK DEF W!List, W!Maybe
<1>. DEFINE doc == [webauthn[u][1] EXCEPT !.devices = [l EXCEPT ![d] = Null]]
            list == [expected[u] EXCEPT ![d] = Null]
<1>4. doc \in W!Doc /\ doc.devices = [l EXCEPT ![d] = Null]
  BY <1>1, <1>2, <1>3, ReadOK DEF W!Doc, W!Found
<1>5. webauthn' = [webauthn EXCEPT ![u] = [webauthn[u] EXCEPT ![1] = doc]]
  BY <1>1, <1>2
<1>6. expected' = [expected EXCEPT ![u] = list]
  BY <1>1, <1>2
<1>7. u \in clash \/ doc.devices = list
  BY <1>1, <1>2, <1>4, ReadOK
<1>8. asked' \in Nat /\ answers' \subseteq W!Answer
  BY <1>1 DEF DevicesInv, W!TypeOK
<1>9. list \in W!List /\ ceremony[q].pc \in {"challenge", "register", "authenticate", "remove"}
  BY <1>1, <1>3
<1>. HIDE DEF doc, list
<1>10. FirstWritten(q, u, doc, list)
  BY <1>1, <1>2, <1>5, <1>6, <1>7, <1>8, <1>9 DEF FirstWritten
<1>. QED
  BY <1>4, <1>9, <1>10, FirstWrittenKeeps

\* What a browser answers to the options for a registration.
LEMMA SignedAnswers ==
    ASSUME DevicesInv, NEW u \in Users, asked' \in Nat, W!SignNew(u)
    PROVE  answers' \subseteq W!Answer
<1>1. answers \subseteq W!Answer
  BY DEF DevicesInv, W!TypeOK
<1>2. \A d \in Devices :
        [user |-> u, device |-> d, challenge |-> asked', counter |-> 0, new |-> TRUE] \in W!Answer
  BY DEF W!Answer
<1>. QED
  BY <1>1, <1>2 DEF W!SignNew

\* A challenge is written beside the list as it was read.
LEMMA SetChallengeKeeps ==
    ASSUME DevicesInv, NEW q \in Requests, W!SetChallenge(q)
    PROVE  DevicesInv'
<1>1. /\ ceremony[q].pc = "challenge" /\ W!Done(q) /\ UNCHANGED expected
      /\ asked' = asked + 1 /\ W!SignNew(ceremony[q].user)
      /\ webauthn' = [webauthn EXCEPT ![ceremony[q].user][1].challenge = asked']
  BY DEF W!SetChallenge, W!At
<1>2. PICK u \in Users : u = ceremony[q].user
  BY <1>1, ReadOK
<1>3. asked' \in Nat
  BY <1>1 DEF DevicesInv, W!TypeOK
<1>4. answers' \subseteq W!Answer
  BY <1>1, <1>2, <1>3, SignedAnswers
<1>. DEFINE doc == [webauthn[u][1] EXCEPT !.challenge = asked']
            list == expected[u]
<1>5. doc \in W!Doc /\ doc.devices = W!Found(u).devices
  BY <1>1, <1>2, <1>3, ReadOK DEF W!Doc, W!Found
<1>6. list \in W!List /\ (u \in clash \/ doc.devices = list)
  BY <1>1, <1>2, <1>5, ReadOK
<1>7. webauthn' = [webauthn EXCEPT ![u] = [webauthn[u] EXCEPT ![1] = doc]]
  BY <1>1, <1>2
<1>8. expected' = [expected EXCEPT ![u] = list]
  BY <1>1 DEF DevicesInv, W!TypeOK
<1>9. ceremony[q].pc \in {"challenge", "register", "authenticate", "remove"}
  BY <1>1
<1>. HIDE DEF doc, list
<1>10. FirstWritten(q, u, doc, list)
  BY <1>1, <1>2, <1>3, <1>4, <1>6, <1>7, <1>8, <1>9 DEF FirstWritten
<1>. QED
  BY <1>5, <1>6, <1>10, FirstWrittenKeeps

\* A user's first document is inserted.
LEMMA InsertDocKeeps ==
    ASSUME DevicesInv, NEW q \in Requests, W!InsertDoc(q)
    PROVE  DevicesInv'
<1>. DEFINE doc == [devices |-> W!NoDevices, challenge |-> asked']
<1>1. /\ ceremony[q].pc = "insert" /\ W!Done(q) /\ UNCHANGED expected
      /\ asked' = asked + 1 /\ W!SignNew(ceremony[q].user)
      /\ webauthn' = [webauthn EXCEPT ![ceremony[q].user] = Append(@, doc)]
  BY DEF W!InsertDoc, W!At
<1>2. HandlerOK(q)
  BY DEF DevicesInv
<1>3. PICK u \in Users : u = ceremony[q].user
  BY <1>1, <1>2 DEF HandlerOK
<1>4. asked' \in Nat
  BY <1>1 DEF DevicesInv, W!TypeOK
<1>5. doc \in W!Doc /\ doc.devices = W!NoDevices
  BY <1>4, WType DEF W!Doc
<1>6. answers' \subseteq W!Answer
  BY <1>1, <1>3, <1>4, SignedAnswers
<1>. HIDE DEF doc
<1>7. webauthn[u] \in Seq(W!Doc) /\ webauthn'[u] = Append(webauthn[u], doc)
  BY <1>1, <1>3 DEF DevicesInv, W!TypeOK
<1>8. /\ webauthn'[u] \in Seq(W!Doc) /\ Len(webauthn'[u]) = Len(webauthn[u]) + 1
      /\ Len(webauthn[u]) \in Nat /\ webauthn'[u] # <<>>
      /\ webauthn[u] = <<>> => webauthn'[u][1] = doc
  BY <1>5, <1>7
<1>9. /\ ceremony' = [ceremony EXCEPT ![q] = W!Idle] /\ clash' = clash
      /\ UNCHANGED <<signed, wfaults>>
  BY <1>1 DEF W!Done
<1>10. /\ ceremony' \in [Requests -> W!Request]
       /\ \A p \in Requests : ceremony'[p] = ceremony[p] \/ ceremony'[p] = W!Idle
       /\ u \notin clash' => \A p \in Requests : ceremony'[p].user # u
  BY <1>1, <1>3, <1>9, EndsAlone
<1>11. W!TypeOK'
  BY <1>1, <1>3, <1>4, <1>6, <1>8, <1>9, <1>10 DEF DevicesInv, W!TypeOK
<1>12. \A v \in Users \ {u} : webauthn'[v] = webauthn[v] /\ expected'[v] = expected[v]
  BY <1>1, <1>3 DEF DevicesInv, W!TypeOK
<1>13. u \notin clash => webauthn[u] = <<>> /\ expected'[u] = W!NoDevices
  BY <1>1, <1>2, <1>3 DEF HandlerOK, W!Known, DevicesInv, W!DevicesKept, W!ListKept
<1>14. u \notin clash' =>
         /\ Len(webauthn'[u]) <= 1
         /\ expected'[u] = IF webauthn'[u] # <<>> THEN webauthn'[u][1].devices
                           ELSE W!NoDevices
  BY <1>5, <1>8, <1>9, <1>13
<1>. QED
  BY <1>8, <1>9, <1>10, <1>11, <1>12, <1>14, WrittenKeeps

\* A request dies and another takes its place.
LEMMA FailKeeps ==
    ASSUME DevicesInv, NEW q \in Requests, W!Fail(q)
    PROVE  DevicesInv'
<1>1. /\ ceremony[q].pc # "idle" /\ ceremony' = [ceremony EXCEPT ![q] = W!Idle]
      /\ wfaults' \in Nat /\ UNCHANGED <<webauthn, asked, signed, answers, expected, clash>>
  BY DEF W!Fail, W!At, DevicesInv, W!TypeOK
<1>2. PICK u \in Users : u = ceremony[q].user
  BY <1>1, EndsAlone
<1>3. /\ ceremony' \in [Requests -> W!Request]
      /\ \A p \in Requests : ceremony'[p] = ceremony[p] \/ ceremony'[p] = W!Idle
      /\ u \notin clash' => \A p \in Requests : ceremony'[p].user # u
  BY <1>1, <1>2, EndsAlone
<1>4. W!TypeOK'
  BY <1>1, <1>3 DEF DevicesInv, W!TypeOK
<1>5. u \notin clash' =>
        /\ Len(webauthn'[u]) <= 1
        /\ expected'[u] = IF webauthn'[u] # <<>> THEN webauthn'[u][1].devices
                          ELSE W!NoDevices
  <2>1. Len(webauthn[u]) \in Nat
    BY DEF DevicesInv, W!TypeOK
  <2>. QED
    BY <1>1, <2>1 DEF DevicesInv, W!DevicesKept, W!OneDocument, W!ListKept, W!Known, W!Found
<1>. QED
  BY <1>1, <1>3, <1>4, <1>5, WrittenKeeps DEF W!Known

\* A device is renamed where it is.
LEMMA RenameKeeps ==
    ASSUME DevicesInv, NEW u \in Users, NEW d \in Devices, W!UpdateWebauthnDeviceName(u, d)
    PROVE  DevicesInv'
<1>1. PICK i \in 1..Len(webauthn[u]) :
        /\ webauthn[u][i].devices[d] # Null
        /\ webauthn' = [webauthn EXCEPT ![u][i].devices[d].named = TRUE]
  BY DEF W!UpdateWebauthnDeviceName
<1>2. /\ expected' = IF expected[u][d] = Null THEN expected
                     ELSE [expected EXCEPT ![u][d].named = TRUE]
      /\ W!Overlap(u) /\ UNCHANGED <<asked, signed, answers, ceremony, wfaults>>
  BY DEF W!UpdateWebauthnDeviceName
<1>3. /\ webauthn \in [Users -> Seq(W!Doc)] /\ expected \in [Users -> W!List]
      /\ webauthn[u] \in Seq(W!Doc) /\ webauthn[u][i] \in W!Doc /\ expected[u] \in W!List
      /\ Len(webauthn[u]) \in Nat
  BY ElementOfSeq, <1>1 DEF DevicesInv, W!TypeOK
<1>4. webauthn[u][i].devices \in W!List /\ webauthn[u][i].devices[d] \in W!Device
  BY <1>1, <1>3 DEF W!Doc, W!List, W!Maybe
<1>. DEFINE l == webauthn[u][i].devices
            listed == [l EXCEPT ![d] = [l[d] EXCEPT !.named = TRUE]]
            list == IF expected[u][d] = Null THEN expected[u]
                    ELSE [expected[u] EXCEPT ![d] = [expected[u][d] EXCEPT !.named = TRUE]]
            doc == [webauthn[u][i] EXCEPT !.devices = listed]
<1>5. listed \in W!List
  <2>1. [l[d] EXCEPT !.named = TRUE] \in W!Device
    BY <1>4 DEF W!Device
  <2>. HIDE DEF l
  <2>. QED
    BY <2>1, <1>4 DEF W!List, W!Maybe, l
<1>6. list \in W!List
  <2>1. CASE expected[u][d] = Null
    BY <2>1, <1>3
  <2>2. CASE expected[u][d] # Null
    <3>1. expected[u][d] \in W!Device
      BY <2>2, <1>3 DEF W!List, W!Maybe
    <3>2. [expected[u][d] EXCEPT !.named = TRUE] \in W!Device
      BY <3>1 DEF W!Device
    <3>. QED
      BY <2>2, <3>2, <1>3 DEF W!List, W!Maybe
  <2>. QED
    BY <2>1, <2>2
<1>7. webauthn' = [webauthn EXCEPT ![u] = [webauthn[u] EXCEPT ![i] = doc]]
  BY <1>1
<1>8. expected' = [expected EXCEPT ![u] = list]
  BY <1>2, <1>3
<1>9. /\ clash \subseteq clash' /\ clash' \subseteq Users
      /\ u \notin clash' => u \notin clash /\ \A p \in Requests : ceremony[p].user # u
  BY <1>2 DEF W!Overlap, DevicesInv, W!TypeOK
<1>10. u \notin clash' => Len(webauthn[u]) <= 1 /\ i = 1 /\ l = expected[u]
  <2>. SUFFICES ASSUME u \notin clash'
                PROVE  Len(webauthn[u]) <= 1 /\ i = 1 /\ l = expected[u]
    OBVIOUS
  <2>1. ~(Len(webauthn[u]) > 1)
    BY <1>9 DEF DevicesInv, W!DevicesKept, W!OneDocument
  <2>2. Len(webauthn[u]) <= 1 /\ i = 1 /\ webauthn[u] # <<>>
    BY <2>1, <1>3
  <2>. QED
    BY <2>2, <1>9 DEF DevicesInv, W!DevicesKept, W!ListKept, W!Known, W!Found
<1>11. u \notin clash' => listed = list
  BY <1>1, <1>10
<1>12. doc \in W!Doc /\ doc.devices = listed
  <2>. HIDE DEF listed
  <2>. QED
    BY <1>3, <1>5 DEF W!Doc
<1>. HIDE DEF listed, list, doc, l
<1>13. webauthn'[u] = [webauthn[u] EXCEPT ![i] = doc]
  BY <1>3, <1>7
<1>14. /\ webauthn'[u] \in Seq(W!Doc) /\ Len(webauthn'[u]) = Len(webauthn[u])
       /\ webauthn'[u][i] = doc /\ webauthn'[u] # <<>>
  <2>1. /\ webauthn'[u] \in Seq(W!Doc) /\ Len(webauthn'[u]) = Len(webauthn[u])
        /\ webauthn'[u][i] = doc
    BY ONLY <1>13, <1>1, <1>3, <1>12, ExceptSeq
  <2>. QED
    BY <2>1, <1>1, <1>3
<1>15. W!TypeOK'
  BY <1>2, <1>3, <1>6, <1>7, <1>8, <1>9, <1>14 DEF DevicesInv, W!TypeOK
<1>16. \A v \in Users \ {u} : webauthn'[v] = webauthn[v] /\ expected'[v] = expected[v]
  BY <1>3, <1>7, <1>8
<1>17. expected'[u] = list
  BY <1>3, <1>8
<1>18. u \notin clash' =>
         /\ \A p \in Requests : ceremony'[p].user # u
         /\ Len(webauthn'[u]) <= 1
         /\ expected'[u] = IF webauthn'[u] # <<>> THEN webauthn'[u][1].devices
                           ELSE W!NoDevices
  BY <1>2, <1>9, <1>10, <1>11, <1>12, <1>14, <1>17
<1>19. ceremony' = ceremony
  BY <1>2
<1>. QED
  BY <1>9, <1>14, <1>15, <1>16, <1>18, <1>19, WrittenKeeps

\* What changes neither documents nor requests.
LEMMA AnswersKeep ==
    ASSUME DevicesInv, UNCHANGED <<webauthn, asked, ceremony, wfaults, expected, clash>>,
           signed' \in [Devices -> Nat], answers' \subseteq W!Answer
    PROVE  DevicesInv'
<1>1. W!TypeOK'
  BY DEF DevicesInv, W!TypeOK
<1>2. \A q \in Requests : HandlerOK(q)'
  <2>1. \A q \in Requests : HandlerOK(q)
    BY DEF DevicesInv
  <2>. QED
    BY <2>1 DEF HandlerOK, W!Known, W!Found
<1>3. AloneOrClash' /\ W!DevicesKept'
  BY DEF DevicesInv, AloneOrClash, W!DevicesKept, W!OneDocument, W!ListKept, W!Known, W!Found
<1>. QED
  BY <1>1, <1>2, <1>3 DEF DevicesInv

\* The options for an authentication.
LEMMA AuthenticationOptionsKeeps ==
    ASSUME DevicesInv, NEW u \in Users, NEW d \in Devices, W!AuthenticationOptions(u, d)
    PROVE  DevicesInv'
<1>. DEFINE a == [user |-> u, device |-> d, challenge |-> W!Found(u).challenge,
                  counter |-> IF d \in Counting THEN signed'[d] ELSE 0, new |-> FALSE]
<1>1. /\ W!Known(u) /\ signed' = [signed EXCEPT ![d] = @ + 1] /\ answers' = answers \cup {a}
      /\ UNCHANGED <<webauthn, asked, ceremony, wfaults, expected, clash>>
  BY DEF W!AuthenticationOptions, W!Listed
<1>2. /\ signed \in [Devices -> Nat] /\ answers \subseteq W!Answer
      /\ webauthn[u] \in Seq(W!Doc)
  BY DEF DevicesInv, W!TypeOK
<1>3. W!Found(u) \in W!Doc
  BY <1>1, <1>2, ElementOfSeq, EmptySeq DEF W!Known, W!Found
<1>4. signed' \in [Devices -> Nat] /\ signed'[d] \in Nat
  BY <1>1, <1>2
<1>5. a \in W!Answer
  BY <1>3, <1>4 DEF W!Answer, W!Doc
<1>. HIDE DEF a
<1>. QED
  BY <1>1, <1>2, <1>4, <1>5, AnswersKeep

\* A browser's answer is verified, and what it changes read.
LEMMA VerifyKeeps ==
    ASSUME DevicesInv, NEW q \in Requests, NEW a \in answers,
           W!HandleRegistrationVerify(q, a) \/ W!HandleAuthenticationVerify(q, a)
    PROVE  DevicesInv'
<1>1. /\ answers \subseteq W!Answer /\ a.user \in Users /\ a.device \in Devices
      /\ a.counter \in Nat /\ signed \in [Devices -> Nat]
  BY DEF DevicesInv, W!TypeOK, W!Answer
<1>2. CASE W!Refuse(a)
  BY <1>1, <1>2, AnswersKeep DEF W!Refuse
<1>3. CASE /\ W!Known(a.user) /\ answers' = answers \ {a}
           /\ W!Begin(q, "register", a.user, a.device, a.counter)
  BY <1>1, <1>3, BeginKeeps DEF W!Steps, W!Maybe
<1>4. CASE /\ W!Listed(a.user, a.device) /\ answers' = answers \ {a}
           /\ W!Begin(q, "authenticate", a.user, a.device, a.counter)
  BY <1>1, <1>4, BeginKeeps DEF W!Steps, W!Maybe, W!Listed
<1>. QED
  BY <1>2, <1>3, <1>4 DEF W!HandleRegistrationVerify, W!HandleAuthenticationVerify

\* Every step of a handler or of a browser.
LEMMA DevicesStep == DevicesInv /\ [W!Next]_(W!vars) => DevicesInv'
<1>. SUFFICES ASSUME DevicesInv, [W!Next]_(W!vars)
              PROVE  DevicesInv'
  OBVIOUS
<1>1. /\ answers \subseteq W!Answer /\ signed \in [Devices -> Nat]
  BY DEF DevicesInv, W!TypeOK
<1>2. ASSUME NEW q \in Requests, NEW u \in Users, W!RegistrationOptions(q, u)
      PROVE  DevicesInv'
  <2>1. /\ answers' = answers
        /\ W!Begin(q, IF W!Known(u) THEN "challenge" ELSE "insert", u, Null, 0)
    BY <1>2 DEF W!RegistrationOptions
  <2>2. CASE W!Known(u)
    BY <2>1, <2>2, <1>1, BeginKeeps DEF W!Steps, W!Maybe
  <2>3. CASE ~W!Known(u)
    BY <2>1, <2>3, <1>1, BeginKeeps DEF W!Steps, W!Maybe
  <2>. QED
    BY <2>2, <2>3
<1>3. ASSUME NEW q \in Requests, NEW u \in Users, NEW d \in Devices,
             W!DeleteWebauthnDevices(q, u, d)
      PROVE  DevicesInv'
  BY <1>1, <1>3, BeginKeeps DEF W!DeleteWebauthnDevices, W!Listed, W!Steps, W!Maybe
<1>4. CASE UNCHANGED W!vars
  BY <1>1, <1>4, AnswersKeep DEF W!vars
<1>. QED
  BY <1>2, <1>3, <1>4, InsertDocKeeps, SetChallengeKeeps, AddDeviceKeeps, SetCounterKeeps,
     RemoveDeviceKeeps, FailKeeps, RenameKeeps, AuthenticationOptionsKeeps, VerifyKeeps
     DEF W!Next

\* As long as the authenticators run.
LEMMA DevicesLast == PartsSpec => [](part = "authenticators" => DevicesInv)
<1>. DEFINE Inv == part = "authenticators" => DevicesInv
<1>1. PartsInit => Inv
  <2>. SUFFICES ASSUME PartsInit, part = "authenticators"
                PROVE  DevicesInv
    OBVIOUS
  <2>1. W!Init
    BY Zenon DEF PartsInit
  <2>2. W!TypeOK
    BY <2>1, WType DEF W!Init, W!TypeOK
  <2>3. \A q \in Requests : HandlerOK(q)
    BY <2>1, WType DEF W!Init, HandlerOK
  <2>4. AloneOrClash
    BY <2>1, WType DEF W!Init, AloneOrClash
  <2>5. W!DevicesKept
    BY <2>1 DEF W!Init, W!DevicesKept, W!OneDocument, W!ListKept, W!Known
  <2>. QED
    BY <2>2, <2>3, <2>4, <2>5 DEF DevicesInv
<1>2. Inv /\ [PartsNext]_PartsVars => Inv'
  <2>1. part = "authenticators" /\ [PartsNext]_PartsVars => [W!Next]_(W!vars)
    BY Zenon DEF PartsNext, PartsVars, W!vars, ceremonies
  <2>. QED
    BY <2>1, PartKept, DevicesStep
<1>. QED
  BY <1>1, <1>2, PTL DEF PartsSpec

\* Devices are lost and a second document made by overlapping requests of one
\* user alone: every handler by itself reads, verifies and writes back what the
\* ones before it have written (webauthnCore.ts).
THEOREM DevicesStayKept == PartsSpec => []DevicesKept
<1>1. (part = "authenticators" => DevicesInv) => DevicesKept
  BY DEF DevicesKept, DevicesInv
<1>. QED
  BY <1>1, DevicesLast, PTL

-----------------------------------------------------------------------------
(* A relay: each line counts its messages off from where its buffer begins,  *)
(* and what was put last is the message before it, or its first one again.   *)

Base(l) == l.said - Len(l.buffer)
Latest(l) == l.put[Len(l.put)]

Lines == [said : Nat, buffer : Seq(Nat), put : Seq(Nat), calls : Nat]

LineOK(l) ==
    /\ Base(l) \in Nat
    /\ \A j \in 1..Len(l.buffer) : l.buffer[j] = Base(l) + j
    /\ l.put # <<>> => l.put[1] = 1
    /\ \A i \in 1..Len(l.put) - 1 :
         l.put[i + 1] = l.put[i] + 1 \/ (kind = "terminal" /\ l.put[i + 1] = l.put[i])

\* ... of a line to a socket that is open, or will be.
Near(l) ==
    /\ l.put = <<>> => Base(l) = 0
    /\ l.put # <<>> => Latest(l) = Base(l) \/ (kind = "terminal" /\ Latest(l) = Base(l) + 1)
    /\ kind # "terminal" => l.calls = 0

\* ... and with a send under way, of the first message if there is one.
Ready(l) ==
    /\ Near(l)
    /\ l.calls > 0 /\ l.buffer # <<>> => l.put # <<>> /\ Latest(l) = Base(l) + 1

\* ... with nothing left behind, as after every flush.
Flushed(l) == l.calls = 0 => l.buffer = <<>>

Blank(l) == l.said = 0 /\ l.buffer = <<>> /\ l.put = <<>> /\ l.calls = 0

RelayInv ==
    /\ kind \in R!Kinds /\ reading \in BOOLEAN /\ timer \in BOOLEAN
    /\ stage \in {"new", "finding", "found", "linked", "refused"}
    /\ socket \in [client : {"open", "closing", "leaving", "closed"},
                   container : {"none", "connecting", "open", "closing", "leaving", "closed"}]
    /\ stage = "linked" <=> socket.container # "none"
    /\ line \in [R!Sides -> Lines]
    /\ \A side \in R!Sides :
         /\ LineOK(line[side])
         /\ socket[R!Other(side)] \in {"open", "connecting", "none"} => Ready(line[side])
         /\ socket[R!Other(side)] = "open" /\ socket.container = "open" => Flushed(line[side])
    /\ socket.container \in {"none", "connecting"} =>
         /\ Blank(line["container"])
         /\ line["client"].put = <<>> /\ line["client"].calls = 0
    /\ stage \in {"new", "finding", "found"} => socket.client = "open" /\ ~reading
    /\ kind = "vnc" /\ socket.container = "connecting" => socket.client = "open" /\ ~reading
    /\ R!NoOrphan

\* The other end of a relay.
LEMMA OtherSide ==
    /\ R!Sides = {"client", "container"}
    /\ R!Other("client") = "container" /\ R!Other("container") = "client"
<1>1. \A side \in R!Sides : R!Other(side) \in R!Sides /\ R!Other(side) # side
  BY DEF R!Other, R!Sides
<1>. QED
  BY <1>1 DEF R!Sides

\* A message arrives.
LEMMA HeardOK ==
    ASSUME NEW l \in Lines, LineOK(l)
    PROVE  /\ R!Heard(l) \in Lines /\ LineOK(R!Heard(l))
           /\ Near(l) => Near(R!Heard(l))
           /\ R!Heard(l).put = l.put /\ R!Heard(l).calls = l.calls
<1>. DEFINE m == R!Heard(l)
            b == Append(l.buffer, l.said + 1)
<1>1. /\ l.said \in Nat /\ l.buffer \in Seq(Nat) /\ l.put \in Seq(Nat) /\ l.calls \in Nat
      /\ Len(l.buffer) \in Nat /\ Base(l) \in Nat
  BY DEF Lines, LineOK
<1>3. /\ Len(b) = Len(l.buffer) + 1 /\ b[Len(l.buffer) + 1] = l.said + 1
      /\ \A j \in 1..Len(l.buffer) : b[j] = l.buffer[j]
      /\ b \in Seq(Nat)
  BY <1>1
<1>8. m = [l EXCEPT !.said = l.said + 1, !.buffer = b]
  BY DEF R!Heard
<1>. HIDE DEF m, b
<1>9. l.said + 1 \in Nat
  BY <1>1
<1>2. /\ m \in Lines /\ m.said = l.said + 1 /\ m.buffer = b /\ m.put = l.put /\ m.calls = l.calls
  BY <1>1, <1>3, <1>8, <1>9 DEF Lines
<1>4. Base(m) = Base(l)
  <2>1. Len(l.buffer) \in Nat /\ l.said \in Nat
    BY <1>1
  <2>2. (l.said + 1) - (Len(l.buffer) + 1) = l.said - Len(l.buffer)
    BY <2>1
  <2>3. m.said - Len(m.buffer) = l.said - Len(l.buffer)
    BY <1>2, <1>3, <2>2, Zenon
  <2>. QED
    BY <2>3 DEF Base
<1>5. \A j \in 1..Len(m.buffer) : m.buffer[j] = Base(m) + j
  <2>. SUFFICES ASSUME NEW j \in 1..Len(l.buffer) + 1
                PROVE  b[j] = Base(l) + j
    BY <1>2, <1>3, <1>4
  <2>1. CASE j \in 1..Len(l.buffer)
    BY <2>1, <1>3 DEF LineOK
  <2>2. CASE j = Len(l.buffer) + 1
    <3>1. Len(l.buffer) \in Nat /\ l.said \in Nat
      BY <1>1
    <3>2. (l.said - Len(l.buffer)) + (Len(l.buffer) + 1) = l.said + 1
      BY <3>1
    <3>3. b[j] = l.said + 1
      BY <2>2, <1>3
    <3>. QED
      BY <2>2, <3>2, <3>3 DEF Base
  <2>. QED
    BY <2>1, <2>2, <1>1
<1>6. LineOK(m)
  BY <1>1, <1>2, <1>4, <1>5 DEF LineOK
<1>7. Near(l) => Near(m)
  BY <1>2, <1>4 DEF Near, Latest
<1>. QED
  BY <1>2, <1>6, <1>7 DEF m

\* The first message of the buffer is sent and stays in it.
LEMMA FlushHeadOK ==
    ASSUME NEW l \in Lines, LineOK(l), Near(l), kind = "terminal"
    PROVE  /\ R!FlushHead(l) \in Lines /\ LineOK(R!FlushHead(l))
           /\ Ready(R!FlushHead(l)) /\ Flushed(R!FlushHead(l))
<1>1. /\ l.said \in Nat /\ l.buffer \in Seq(Nat) /\ l.put \in Seq(Nat) /\ l.calls \in Nat
      /\ Len(l.buffer) \in Nat /\ Len(l.put) \in Nat /\ Base(l) \in Nat
  BY DEF Lines, LineOK
<1>2. CASE l.buffer = <<>>
  BY <1>2 DEF R!FlushHead, Ready, Flushed
<1>3. CASE l.buffer # <<>>
  <2>. DEFINE m == R!FlushHead(l)
              p == Append(l.put, Head(l.buffer))
              n == Len(l.put)
  <2>1. /\ Head(l.buffer) \in Nat /\ Head(l.buffer) = l.buffer[1] /\ Len(l.buffer) > 0
    BY <1>1, <1>3
  <2>2. Head(l.buffer) = Base(l) + 1
    BY <2>1, <1>1 DEF LineOK
  <2>4. /\ p \in Seq(Nat) /\ Len(p) = n + 1 /\ p[n + 1] = Base(l) + 1
        /\ \A i \in 1..n : p[i] = l.put[i]
    BY <1>1, <2>1, <2>2
  <2>10. m = [l EXCEPT !.put = p, !.calls = l.calls + 1]
    BY <1>3 DEF R!FlushHead
  <2>11. l.calls + 1 \in Nat
    BY <1>1
  <2>. HIDE DEF m, p
  <2>3. /\ m \in Lines /\ m.said = l.said /\ m.buffer = l.buffer /\ m.put = p
        /\ m.calls = l.calls + 1
    BY <2>4, <2>10, <2>11, <1>1 DEF Lines
  <2>5. Base(m) = Base(l)
    BY <2>3 DEF Base
  <2>6. m.put # <<>> /\ Latest(m) = Base(m) + 1
    BY <1>1, <2>3, <2>4, <2>5 DEF Latest
  <2>7. p[1] = 1
    <3>1. CASE l.put = <<>>
      BY <3>1, <1>1, <2>4 DEF Near
    <3>2. CASE l.put # <<>>
      <4>1. 1 \in 1..n
        BY <3>2, <1>1
      <4>. QED
        BY <3>2, <4>1, <2>4 DEF LineOK
    <3>. QED
      BY <3>1, <3>2
  <2>8. ASSUME NEW i \in 1..Len(p) - 1
        PROVE  p[i + 1] = p[i] + 1 \/ p[i + 1] = p[i]
    <3>1. i \in 1..n
      BY <1>1, <2>4
    <3>2. CASE i < n
      <4>1. i \in 1..n - 1 /\ i + 1 \in 1..n
        BY <3>1, <3>2, <1>1
      <4>. QED
        BY <4>1, <3>1, <2>4 DEF LineOK
    <3>3. CASE i = n
      <4>1. l.put # <<>> /\ p[n] = Latest(l)
        BY <3>1, <3>3, <2>4 DEF Latest
      <4>. QED
        BY <4>1, <3>3, <1>1, <2>4 DEF Near
    <3>. QED
      BY <3>1, <3>2, <3>3, <1>1
  <2>9. LineOK(m)
    BY <1>1, <2>3, <2>5, <2>7, <2>8 DEF LineOK
  <2>. QED
    BY <1>1, <2>3, <2>6, <2>9 DEF m, Ready, Near, Flushed
<1>. QED
  BY <1>2, <1>3

\* The whole buffer is sent and emptied.
LEMMA FlushAllOK ==
    ASSUME NEW l \in Lines, LineOK(l), Near(l), kind # "terminal"
    PROVE  /\ R!FlushAll(l) \in Lines /\ LineOK(R!FlushAll(l))
           /\ Ready(R!FlushAll(l)) /\ Flushed(R!FlushAll(l))
<1>. DEFINE m == R!FlushAll(l)
            p == l.put \o l.buffer
            n == Len(l.put)
            k == Len(l.buffer)
<1>1. /\ l.said \in Nat /\ l.buffer \in Seq(Nat) /\ l.put \in Seq(Nat) /\ l.calls \in Nat
      /\ k \in Nat /\ n \in Nat /\ Base(l) \in Nat
  BY DEF Lines, LineOK
<1>2. /\ p \in Seq(Nat) /\ Len(p) = n + k
      /\ \A i \in 1..n + k : p[i] = IF i <= n THEN l.put[i] ELSE l.buffer[i - n]
  BY ONLY <1>1, ConcatProperties
<1>13. m = [l EXCEPT !.put = p, !.buffer = <<>>]
  BY DEF R!FlushAll
<1>. HIDE DEF m, p
<1>14. <<>> \in Seq(Nat) /\ Len(<<>>) = 0
  OBVIOUS
<1>3. m \in Lines /\ m.said = l.said /\ m.buffer = <<>> /\ m.put = p /\ m.calls = l.calls
  BY <1>1, <1>2, <1>13, <1>14 DEF Lines
<1>4. Base(m) = Base(l) + k /\ Len(m.buffer) = 0
  BY <1>1, <1>3 DEF Base
<1>5. \A j \in 1..k : l.buffer[j] = Base(l) + j
  BY DEF LineOK
<1>6. n > 0 => l.put # <<>> /\ l.put[n] = Base(l) /\ l.put[1] = 1
  BY <1>1 DEF Near, Latest, LineOK
<1>7. n = 0 => Base(l) = 0
  BY <1>1 DEF Near
<1>15. \A i \in 1..n - 1 : l.put[i + 1] = l.put[i] + 1
  BY DEF LineOK
<1>17. Base(l) \in Nat /\ n \in Nat /\ k \in Nat
  BY <1>1
<1>18. p # <<>> => Len(p) \in Nat \ {0}
  BY ONLY <1>2, EmptySeq
<1>. HIDE DEF n, k
<1>16. p # <<>> => n + k > 0
  BY <1>2, <1>17, <1>18
<1>8. ASSUME NEW i \in 1..n + k, i > n
      PROVE  p[i] = Base(l) + (i - n)
  <2>1. i - n \in 1..k
    BY <1>17, <1>8
  <2>2. p[i] = l.buffer[i - n]
    BY <1>17, <1>2, <1>8
  <2>. QED
    BY <2>1, <2>2, <1>5
<1>9. p # <<>> => p[1] = 1
  <2>. SUFFICES ASSUME p # <<>>
                PROVE  p[1] = 1
    OBVIOUS
  <2>1. n + k > 0 /\ 1 \in 1..n + k
    BY <1>16, <1>17
  <2>2. CASE n > 0
    BY <2>1, <2>2, <1>17, <1>2, <1>6
  <2>3. CASE n = 0
    BY <2>1, <2>3, <1>17, <1>7, <1>8
  <2>. QED
    BY <2>2, <2>3, <1>17
<1>10. ASSUME NEW i \in 1..Len(p) - 1
       PROVE  p[i + 1] = p[i] + 1
  <2>1. i \in 1..n + k /\ i + 1 \in 1..n + k
    BY <1>17, <1>2
  <2>2. CASE i > n
    BY <2>1, <2>2, <1>17, <1>8
  <2>3. CASE i = n
    <3>1. n > 0 /\ n + 1 > n /\ (n + 1) - n = 1
      BY <2>1, <2>3, <1>17
    <3>2. p[n] = l.put[n] /\ n <= n
      BY <2>1, <2>3, <1>17, <1>2
    <3>3. p[n + 1] = Base(l) + 1
      BY <2>1, <2>3, <3>1, <1>8
    <3>. QED
      BY <2>3, <3>1, <3>2, <3>3, <1>6
  <2>4. CASE i < n
    <3>1. i \in 1..n - 1 /\ i + 1 <= n
      BY <2>4, <1>17
    <3>2. l.put[i + 1] = l.put[i] + 1
      BY <3>1, <1>15
    <3>. QED
      BY <2>1, <2>4, <3>1, <3>2, <1>2, <1>17
  <2>. QED
    BY <2>2, <2>3, <2>4, <1>17
<1>11. LineOK(m)
  BY <1>17, <1>3, <1>4, <1>9, <1>10 DEF LineOK
<1>12. Near(m)
  <2>1. m.put = <<>> => Base(m) = 0
    <3>. SUFFICES ASSUME p = <<>>
                  PROVE  Base(l) + k = 0
      BY <1>3, <1>4
    <3>1. n + k = 0
      BY <1>2, <1>14
    <3>. QED
      BY <3>1, <1>7, <1>17
  <2>2. m.put # <<>> => Latest(m) = Base(m)
    <3>. SUFFICES ASSUME p # <<>>
                  PROVE  p[n + k] = Base(l) + k
      BY <1>2, <1>3, <1>4 DEF Latest
    <3>1. n + k > 0 /\ n + k \in 1..n + k
      BY <1>16, <1>17
    <3>2. CASE k = 0
      BY <3>1, <3>2, <1>17, <1>2, <1>6
    <3>3. CASE k > 0
      BY <3>1, <3>3, <1>17, <1>8
    <3>. QED
      BY <3>2, <3>3, <1>17
  <2>3. m.calls = 0
    BY <1>3 DEF Near
  <2>. QED
    BY <2>1, <2>2, <2>3 DEF Near
<1>. QED
  BY <1>3, <1>11, <1>12 DEF Ready, Flushed, m

\* A flush, of whichever kind the relay is.
LEMMA FlushOK ==
    ASSUME NEW l \in Lines, LineOK(l), Near(l)
    PROVE  /\ R!FlushFor(l) \in Lines /\ LineOK(R!FlushFor(l))
           /\ Ready(R!FlushFor(l)) /\ Flushed(R!FlushFor(l))
  BY FlushHeadOK, FlushAllOK DEF R!FlushFor

\* A send has succeeded: what it sent leaves the buffer.
LEMMA ShiftOK ==
    ASSUME NEW l \in Lines, LineOK(l), l.calls > 0
    PROVE  /\ R!Shift(l) \in Lines /\ LineOK(R!Shift(l))
           /\ Ready(l) => Near(R!Shift(l))
<1>. DEFINE m == R!Shift(l)
            b == IF l.buffer = <<>> THEN l.buffer ELSE Tail(l.buffer)
<1>1. /\ l.said \in Nat /\ l.buffer \in Seq(Nat) /\ l.put \in Seq(Nat) /\ l.calls \in Nat
      /\ Len(l.buffer) \in Nat /\ Base(l) \in Nat
  BY DEF Lines, LineOK
<1>2. b \in Seq(Nat)
  BY <1>1
<1>6. m = [l EXCEPT !.calls = l.calls - 1, !.buffer = b]
  BY DEF R!Shift
<1>. HIDE DEF m, b
<1>7. l.calls - 1 \in Nat
  BY <1>1
<1>3. m \in Lines /\ m.said = l.said /\ m.buffer = b /\ m.put = l.put /\ m.calls = l.calls - 1
  BY <1>1, <1>2, <1>6, <1>7 DEF Lines
<1>4. CASE l.buffer = <<>>
  <2>1. Base(m) = Base(l) /\ m.buffer = l.buffer
    BY <1>3, <1>4 DEF Base, b
  <2>2. LineOK(m)
    BY <1>1, <1>3, <2>1 DEF LineOK
  <2>3. Ready(l) => Near(m)
    BY <1>1, <1>3, <2>1 DEF Ready, Near, Latest
  <2>. QED
    BY <1>3, <2>2, <2>3 DEF m
<1>5. CASE l.buffer # <<>>
  <2>1. /\ Len(b) = Len(l.buffer) - 1 /\ Len(l.buffer) > 0
        /\ \A i \in 1..Len(b) : b[i] = l.buffer[i + 1]
    BY <1>1, <1>5, HeadTailProperties DEF b
  <2>2. Base(m) = Base(l) + 1
    BY <1>1, <1>3, <2>1 DEF Base
  <2>3. \A j \in 1..Len(m.buffer) : m.buffer[j] = Base(m) + j
    <3>. SUFFICES ASSUME NEW j \in 1..Len(b)
                  PROVE  b[j] = Base(l) + 1 + j
      BY <1>3, <2>2
    <3>1. j + 1 \in 1..Len(l.buffer)
      BY <1>1, <2>1
    <3>2. l.buffer[j + 1] = Base(l) + (j + 1)
      BY <3>1 DEF LineOK
    <3>. QED
      BY <1>1, <2>1, <3>2
  <2>4. LineOK(m)
    BY <1>1, <1>3, <2>2, <2>3 DEF LineOK
  <2>5. Ready(l) => Near(m)
    BY <1>1, <1>3, <1>5, <2>2 DEF Ready, Near, Latest
  <2>. QED
    BY <1>3, <2>4, <2>5 DEF m
<1>. QED
  BY <1>4, <1>5

-----------------------------------------------------------------------------
(* The steps of a relay.                                                     *)

\* A line whose messages are heard, flushed or acknowledged, in the words of
\* Message, Sent and ContainerClosed.
LEMMA FlushedLine ==
    ASSUME NEW side \in R!Sides, NEW l \in Lines, LineOK(l),
           socket[R!Other(side)] = "open" => Near(l)
    PROVE  /\ R!Flush(side, l) \in Lines /\ LineOK(R!Flush(side, l))
           /\ socket[R!Other(side)] = "open" =>
                Ready(R!Flush(side, l)) /\ Flushed(R!Flush(side, l))
           /\ socket[R!Other(side)] # "open" => R!Flush(side, l) = l
  BY FlushOK DEF R!Flush

\* One line changes and no socket does.
LEMMA LineKeeps ==
    ASSUME RelayInv, NEW side \in R!Sides, NEW l \in Lines,
           line' = [line EXCEPT ![side] = l],
           UNCHANGED <<kind, stage, socket, reading, timer>>,
           LineOK(l),
           socket[R!Other(side)] \in {"open", "connecting", "none"} => Ready(l),
           socket[R!Other(side)] = "open" => Flushed(l),
           socket.container \in {"none", "connecting"} =>
             side = "client" /\ l.put = <<>> /\ l.calls = 0
    PROVE  RelayInv'
<1>1. line' \in [R!Sides -> Lines]
  BY DEF RelayInv
<1>2. line'[side] = l /\ \A s \in R!Sides \ {side} : line'[s] = line[s]
  BY DEF RelayInv
<1>3. \A s \in R!Sides : LineOK(line[s])' <=> LineOK(line'[s])
  BY DEF LineOK, Base
<1>4. \A s \in R!Sides : Ready(line[s])' <=> Ready(line'[s])
  BY DEF Ready, Near, Base, Latest
<1>5. \A s \in R!Sides : Flushed(line[s])' <=> Flushed(line'[s])
  BY DEF Flushed
<1>. QED
  BY <1>1, <1>2, <1>3, <1>4, <1>5, OtherSide
     DEF RelayInv, R!NoOrphan, Blank

\* A message is heard on either side.
LEMMA MessageKeeps ==
    ASSUME RelayInv, NEW side \in R!Sides, R!Message(side)
    PROVE  RelayInv'
<1>. DEFINE l == line[side]
            h == R!Heard(l)
            m == R!Flush(side, h)
<1>1. /\ line' = [line EXCEPT ![side] = m]
      /\ UNCHANGED <<kind, stage, socket, reading, timer>>
      /\ stage = "linked" /\ socket[side] \in {"open", "closing"}
  BY DEF R!Message
<1>2. l \in Lines /\ LineOK(l)
  BY DEF RelayInv
<1>3. socket[R!Other(side)] \in {"open", "connecting", "none"} => Ready(l)
  BY DEF RelayInv
<1>. HIDE DEF l
<1>4. /\ h \in Lines /\ LineOK(h) /\ h.put = l.put /\ h.calls = l.calls
      /\ socket[R!Other(side)] \in {"open", "connecting", "none"} => Near(h)
  BY <1>2, <1>3, HeardOK DEF Ready
<1>. HIDE DEF h
<1>5. /\ m \in Lines /\ LineOK(m)
      /\ socket[R!Other(side)] = "open" => Ready(m) /\ Flushed(m)
      /\ socket[R!Other(side)] # "open" => m = h
  BY <1>4, FlushedLine
<1>. HIDE DEF m
<1>6. socket.container \in {"none", "connecting"} =>
         side = "client" /\ l.put = <<>> /\ l.calls = 0
  BY <1>1, OtherSide DEF RelayInv, l
<1>7. socket.container \in {"none", "connecting"} =>
         side = "client" /\ m.put = <<>> /\ m.calls = 0
  BY <1>4, <1>5, <1>6, OtherSide
<1>8. socket[R!Other(side)] \in {"open", "connecting", "none"} => Ready(m)
  <2>1. CASE socket[R!Other(side)] = "open"
    BY <2>1, <1>5
  <2>2. CASE socket[R!Other(side)] \in {"connecting", "none"}
    <3>1. m = h /\ Near(h)
      BY <2>2, <1>4, <1>5
    <3>2. side = "client" /\ h.calls = 0
      BY <2>2, <1>4, <1>6, OtherSide DEF RelayInv
    <3>. QED
      BY <3>1, <3>2 DEF Ready
  <2>. QED
    BY <2>1, <2>2
<1>. QED
  BY <1>1, <1>5, <1>7, <1>8, LineKeeps

\* A send has succeeded.
LEMMA SentKeeps ==
    ASSUME RelayInv, NEW side \in R!Sides, R!Sent(side)
    PROVE  RelayInv'
<1>. DEFINE l == line[side]
            h == R!Shift(l)
            m == R!Flush(side, h)
<1>1. /\ line' = [line EXCEPT ![side] = m] /\ l.calls > 0
      /\ UNCHANGED <<kind, stage, socket, reading, timer>>
  BY DEF R!Sent
<1>2. l \in Lines /\ LineOK(l)
  BY DEF RelayInv
<1>3. socket[R!Other(side)] = "open" => Ready(l)
  BY DEF RelayInv
<1>4. socket.container \notin {"none", "connecting"}
  BY <1>1, OtherSide DEF RelayInv, Blank
<1>5. socket[R!Other(side)] \notin {"none", "connecting"}
  BY <1>4, OtherSide DEF RelayInv
<1>. HIDE DEF l
<1>6. h \in Lines /\ LineOK(h) /\ (socket[R!Other(side)] = "open" => Near(h))
  BY <1>1, <1>2, <1>3, ShiftOK
<1>. HIDE DEF h
<1>7. /\ m \in Lines /\ LineOK(m)
      /\ socket[R!Other(side)] = "open" => Ready(m) /\ Flushed(m)
  BY <1>6, FlushedLine
<1>. HIDE DEF m
<1>. QED
  BY <1>1, <1>4, <1>5, <1>7, LineKeeps

\* A send has failed.
LEMMA NotSentKeeps ==
    ASSUME RelayInv, NEW side \in R!Sides, R!NotSent(side)
    PROVE  RelayInv'
<1>. DEFINE l == line[side]
            m == [l EXCEPT !.calls = l.calls - 1]
<1>1. /\ line' = [line EXCEPT ![side] = m] /\ l.calls > 0
      /\ socket[R!Other(side)] # "open"
      /\ UNCHANGED <<kind, stage, socket, reading, timer>>
  BY DEF R!NotSent
<1>2. l \in Lines /\ LineOK(l)
  BY DEF RelayInv
<1>3. socket.container \notin {"none", "connecting"}
  BY <1>1, OtherSide DEF RelayInv, Blank
<1>4. socket[R!Other(side)] \notin {"none", "connecting"}
  BY <1>3, OtherSide DEF RelayInv
<1>. HIDE DEF l
<1>5. l.calls - 1 \in Nat
  BY <1>1, <1>2 DEF Lines
<1>6. m \in Lines /\ m.put = l.put /\ m.said = l.said /\ m.buffer = l.buffer
  BY <1>2, <1>5 DEF Lines
<1>. HIDE DEF m
<1>7. LineOK(m)
  BY <1>2, <1>6 DEF LineOK, Base
<1>. QED
  BY <1>1, <1>3, <1>4, <1>6, <1>7, LineKeeps

\* Sockets change, and no line does: a socket that is open has been, or the
\* container's has never been there.
LEMMA SocketsKeep ==
    ASSUME RelayInv, UNCHANGED <<kind, line>>,
           stage' \in {"new", "finding", "found", "linked", "refused"},
           socket' \in [client : {"open", "closing", "leaving", "closed"},
                        container : {"none", "connecting", "open", "closing", "leaving", "closed"}],
           reading' \in BOOLEAN, timer' \in BOOLEAN,
           stage' = "linked" <=> socket'.container # "none",
           socket'.client = "open" => socket.client = "open",
           socket'.container = "open" => socket.container = "open",
           socket'.container \in {"none", "connecting"} =>
             socket.container \in {"none", "connecting"},
           stage' \in {"new", "finding", "found"} => socket'.client = "open" /\ ~reading',
           kind = "vnc" /\ socket'.container = "connecting" =>
             socket'.client = "open" /\ ~reading',
           R!NoOrphan'
    PROVE  RelayInv'
<1>1. \A s \in R!Sides : LineOK(line[s])' <=> LineOK(line[s])
  BY DEF LineOK, Base
<1>2. \A s \in R!Sides : Ready(line[s])' <=> Ready(line[s])
  BY DEF Ready, Near, Base, Latest
<1>3. \A s \in R!Sides : Flushed(line[s])' <=> Flushed(line[s])
  BY DEF Flushed
<1>. QED
  BY <1>1, <1>2, <1>3, OtherSide DEF RelayInv, Blank

\* Sockets found, refused and closed.
LEMMA SocketStepsKeep ==
    ASSUME RelayInv,
           \/ R!RefuseUpgrade \/ R!Upgrade \/ R!TargetFound \/ R!Link \/ R!Refuse
           \/ R!ClientClosed \/ R!Interval
           \/ \E side \in R!Sides : R!Leave(side) \/ R!Error(side)
    PROVE  RelayInv'
<1>. USE DEF R!Shut, R!NoOrphan
<1>1. CASE R!RefuseUpgrade
  BY <1>1, SocketsKeep DEF R!RefuseUpgrade, RelayInv
<1>2. CASE R!Upgrade
  BY <1>2, SocketsKeep DEF R!Upgrade, RelayInv
<1>3. CASE R!TargetFound
  BY <1>3, SocketsKeep DEF R!TargetFound, RelayInv
<1>4. CASE R!Link
  BY <1>4, SocketsKeep DEF R!Link, R!Resumes, RelayInv
<1>5. CASE R!Refuse
  BY <1>5, SocketsKeep DEF R!Refuse, RelayInv
<1>6. CASE R!ClientClosed
  BY <1>6, SocketsKeep DEF R!ClientClosed, R!AwaitsOpen, R!Kinds, RelayInv
<1>7. CASE R!Interval
  BY <1>7, SocketsKeep DEF R!Interval, RelayInv
<1>8. ASSUME NEW side \in R!Sides, R!Leave(side)
      PROVE  RelayInv'
  <2>1. CASE side = "client"
    BY <1>8, <2>1, SocketsKeep DEF R!Leave, RelayInv
  <2>2. CASE side = "container"
    BY <1>8, <2>2, SocketsKeep DEF R!Leave, RelayInv
  <2>. QED
    BY <2>1, <2>2 DEF R!Sides
<1>9. ASSUME NEW side \in R!Sides, R!Error(side)
      PROVE  RelayInv'
  <2>1. CASE side = "client"
    BY <1>9, <2>1, SocketsKeep, OtherSide DEF R!Error, RelayInv
  <2>2. CASE side = "container"
    BY <1>9, <2>2, SocketsKeep, OtherSide DEF R!Error, RelayInv
  <2>. QED
    BY <2>1, <2>2 DEF R!Sides
<1>. QED
  BY <1>1, <1>2, <1>3, <1>4, <1>5, <1>6, <1>7, <1>8, <1>9

\* A line that nothing was said on.
LEMMA BlankReady ==
    ASSUME NEW l, Blank(l)
    PROVE  Ready(l) /\ Flushed(l)
<1>1. l.said = 0 /\ l.buffer = <<>> /\ l.put = <<>> /\ l.calls = 0
  BY DEF Blank
<1>2. Len(l.buffer) = 0
  BY <1>1
<1>3. l.said = 0
  BY <1>1
<1>4. Base(l) = 0
  BY ONLY <1>2, <1>3 DEF Base
<1>. QED
  BY <1>1, <1>4 DEF Ready, Near, Flushed

\* The container's socket opens and what the client said by then is flushed.
LEMMA OpenKeeps ==
    ASSUME RelayInv, R!Open
    PROVE  RelayInv'
<1>. DEFINE l == line["client"]
            m == R!FlushFor(l)
<1>1. /\ socket.container = "connecting" /\ socket' = [socket EXCEPT !.container = "open"]
      /\ line' = [line EXCEPT !["client"] = m] /\ reading' = TRUE
      /\ UNCHANGED <<kind, stage, timer>>
  BY DEF R!Open
<1>2. l \in Lines /\ LineOK(l) /\ Ready(l)
  BY <1>1, OtherSide DEF RelayInv
<1>3. Blank(line["container"])
  BY <1>1 DEF RelayInv
<1>. HIDE DEF l
<1>4. m \in Lines /\ LineOK(m) /\ Ready(m) /\ Flushed(m)
  BY <1>2, FlushOK DEF Ready
<1>. HIDE DEF m
<1>5. /\ line' \in [R!Sides -> Lines]
      /\ line'["client"] = m /\ line'["container"] = line["container"]
  BY <1>1, <1>4, OtherSide DEF RelayInv
<1>6. LineOK(line["client"])' /\ Ready(line["client"])' /\ Flushed(line["client"])'
  BY <1>1, <1>4, <1>5 DEF LineOK, Base, Ready, Near, Latest, Flushed
<1>7. /\ LineOK(line["container"])' /\ Flushed(line["container"])'
      /\ socket'.client \in {"open", "connecting", "none"} => Ready(line["container"])'
  <2>1. LineOK(line["container"])
    BY OtherSide DEF RelayInv
  <2>2. Ready(line["container"])
    BY <1>3, BlankReady
  <2>3. LineOK(line["container"])'
    BY <2>1, <1>1, <1>5 DEF LineOK, Base
  <2>4. Ready(line["container"])'
    BY <2>2, <1>1, <1>5 DEF Ready, Near, Base, Latest
  <2>. QED
    BY <2>3, <2>4, <1>3, <1>5 DEF Flushed, Blank
<1>8. R!NoOrphan'
  BY <1>1 DEF RelayInv, R!NoOrphan
<1>9. /\ socket' \in [client : {"open", "closing", "leaving", "closed"},
                     container : {"none", "connecting", "open", "closing", "leaving", "closed"}]
      /\ socket'.container = "open" /\ socket'.client = socket.client
  BY <1>1 DEF RelayInv
<1>. QED
  BY <1>1, <1>5, <1>6, <1>7, <1>8, <1>9, OtherSide DEF RelayInv

\* It closes, and what it said by then is flushed; the client is closed with it.
LEMMA ContainerClosedKeeps ==
    ASSUME RelayInv, R!ContainerClosed
    PROVE  RelayInv'
<1>. DEFINE l == line["container"]
            m == R!Flush("container", l)
<1>1. /\ socket.container \in {"closing", "leaving"}
      /\ socket' = R!Shut([socket EXCEPT !.container = "closed"], "client")
      /\ line' = [line EXCEPT !["container"] = m]
      /\ UNCHANGED <<kind, stage, reading, timer>>
  BY DEF R!ContainerClosed
<1>2. l \in Lines /\ LineOK(l) /\ (socket.client = "open" => Near(l))
  BY OtherSide DEF RelayInv, Ready
<1>. HIDE DEF l
<1>3. m \in Lines /\ LineOK(m)
  BY <1>2, OtherSide, FlushedLine
<1>. HIDE DEF m
<1>4. /\ line' \in [R!Sides -> Lines]
      /\ line'["container"] = m /\ line'["client"] = line["client"]
  BY <1>1, <1>3, OtherSide DEF RelayInv
<1>5. LineOK(line["client"])' /\ LineOK(line["container"])'
  <2>1. LineOK(line["client"])
    BY OtherSide DEF RelayInv
  <2>. QED
    BY <2>1, <1>1, <1>3, <1>4 DEF LineOK, Base
<1>6. /\ socket' \in [client : {"open", "closing", "leaving", "closed"},
                     container : {"none", "connecting", "open", "closing", "leaving", "closed"}]
      /\ socket'.container = "closed" /\ socket'.client \in {"closing", "leaving", "closed"}
  BY <1>1 DEF RelayInv, R!Shut
<1>7. stage \notin {"new", "finding", "found"}
  BY <1>1 DEF RelayInv
<1>. QED
  BY <1>1, <1>4, <1>5, <1>6, <1>7, OtherSide DEF RelayInv, R!NoOrphan

\* Every step of a relay.
LEMMA RelayStep == RelayInv /\ [R!Next]_(R!relay) => RelayInv'
<1>. SUFFICES ASSUME RelayInv, [R!Next]_(R!relay)
              PROVE  RelayInv'
  OBVIOUS
<1>1. CASE UNCHANGED R!relay
  BY <1>1, SocketsKeep DEF R!relay, RelayInv, R!NoOrphan
<1>. QED
  BY <1>1, MessageKeeps, SentKeeps, NotSentKeeps, SocketStepsKeep, OpenKeeps, ContainerClosedKeeps
     DEF R!Next

\* As long as the relay is there.
LEMMA RelaysLast == PartsSpec => [](part = "relays" => RelayInv)
<1>. DEFINE Inv == part = "relays" => RelayInv
<1>1. PartsInit => Inv
  <2>. SUFFICES ASSUME PartsInit, part = "relays"
                PROVE  RelayInv
    OBVIOUS
  <2>1. R!Init
    BY Zenon DEF PartsInit
  <2>. DEFINE l == [said |-> 0, buffer |-> <<>>, put |-> <<>>, calls |-> 0]
  <2>2. l \in Lines /\ LineOK(l) /\ Ready(l) /\ Flushed(l) /\ Blank(l)
    BY BlankReady DEF Lines, LineOK, Base, Blank
  <2>3. line = [side \in R!Sides |-> l]
    BY <2>1 DEF R!Init
  <2>. HIDE DEF l
  <2>4. line \in [R!Sides -> Lines] /\ \A side \in R!Sides : line[side] = l
    BY <2>2, <2>3
  <2>5. line["client"].put = <<>> /\ line["client"].calls = 0 /\ Blank(line["container"])
    BY <2>2, <2>4, OtherSide DEF Blank
  <2>. QED
    BY <2>1, <2>2, <2>4, <2>5 DEF R!Init, RelayInv, R!NoOrphan
<1>2. Inv /\ [PartsNext]_PartsVars => Inv'
  <2>1. part = "relays" /\ [PartsNext]_PartsVars => [R!Next]_(R!relay)
    BY Zenon DEF PartsNext, PartsVars, R!relay, relay
  <2>. QED
    BY <2>1, PartKept, RelayStep
<1>. QED
  BY <1>1, <1>2, PTL DEF PartsSpec

\* Whatever is said while sockets open and close: what reaches the other side
\* is in its order and without a gap, nothing stays in a buffer between two open
\* sockets, and no connection outlives its client, save that the terminal keeps a
\* socket to its container that was still connecting when the client left
\* (registerContainSocketServer, lxd/index.ts).
THEOREM RelaysDoDeliver == PartsSpec => []RelaysDeliver
<1>1. (part = "relays" => RelayInv) => RelaysDeliver
  <2>. SUFFICES ASSUME RelayInv
                PROVE  R!RelaysDeliver
    BY DEF RelaysDeliver
  <2>1. R!InOrder
    BY DEF RelayInv, LineOK, R!InOrder
  <2>2. R!NoneStranded
    BY OtherSide DEF RelayInv, Flushed, R!NoneStranded
  <2>. QED
    BY <2>1, <2>2 DEF RelayInv, R!RelaysDeliver
<1>. QED
  BY <1>1, RelaysLast, PTL

-----------------------------------------------------------------------------
(* Accounts: what a request is about is there, and what it wrote alone has   *)
(* not been overtaken.                                                       *)

MadeUsers == {u \in People : users[u] # Null}
MadeTokens == {t \in Tokens : tokens[t] # Null}
MadeRoles == {x \in Roles : roles[x] # Null}
MadeEntries == {e \in Entries : entries[e] # Null}

\* A request whose step finds the documents it names, among those made.
Sound(r, us, ts, rs, es) ==
    /\ r \in U!Request
    /\ r.pc = "user" => r.name \in Names /\ r.mail \in Mails
    /\ r.pc \in {"drive", "config", "welcome", "set", "mark", "pull", "invalidate", "push",
                 "reset", "send", "join"} => r.user \in us
    /\ r.pc \in {"invalidate", "push"} => r.mail \in Mails
    /\ r.pc = "reset" => r.token \in ts
    /\ r.pc \in {"setrole", "droprole"} => r.role \in rs
    /\ r.todo \subseteq rs
    /\ r.pc \in {"enter", "relabel"} => r.label \in Labels
    /\ r.pc \in {"relabel", "unlist"} => r.entry \in es

DocsTyped ==
    /\ users \in [People -> U!User \cup {Null}]
    /\ tokens \in [Tokens -> U!Token \cup {Null}]
    /\ drives \subseteq People /\ configs \subseteq People
    /\ roles \in [Roles -> U!Role \cup {Null}]
    /\ entries \in [Entries -> U!Entry \cup {Null}]
    /\ mailed \in [People -> Nat] /\ secrets \in Nat
    /\ begun \in Nat /\ faults \in Nat
    /\ resets \in [Tokens -> Nat]
    /\ unpulled \subseteq People
    /\ mixed \subseteq Roles
    /\ strangers \subseteq Roles \X People

AccountsTyped ==
    /\ DocsTyped
    /\ req \in [Requests -> U!Request]
    /\ \A q \in Requests : Sound(req[q], MadeUsers, MadeTokens, MadeRoles, MadeEntries)

\* A request that is alone: the lists it has read are those that are there, and who of
\* those it was given is not live was not live when it began.
AloneOK(q) ==
    LET r == req[q] IN
    /\ \A p \in Requests \ {q} : req[p].pc = "idle"
    /\ r.pc = "addrole" => r.list \subseteq U!LiveUsers \cup r.strange
    /\ r.pc = "setrole" => \/ r.list = roles[r.role].users
                          \/ r.list \subseteq U!LiveUsers \cup r.strange

TokensOnce == \A t \in Tokens : resets[t] <= 1 /\ (tokens[t] = Null \/ U!Open(t) => resets[t] = 0)

AccountsInv ==
    /\ AccountsTyped
    /\ TokensOnce
    /\ \A q \in Requests : req[q].alone => AloneOK(q)
    /\ \A q \in Requests : req[q].pc = "join" => users[req[q].user].guest
    /\ U!RolesListLive

\* What the assumptions say of Null and of a request that is idle.
LEMMA UTypes ==
    /\ Null \notin People /\ Null \notin Names /\ Null \notin Mails /\ Null \notin Tokens
    /\ Null \notin Roles /\ Null \notin Entries /\ Null \notin Labels
    /\ Null \notin U!User /\ Null \notin U!Token /\ Null \notin U!Role /\ Null \notin U!Entry
    /\ U!Idle \in U!Request /\ U!Idle.pc = "idle" /\ ~U!Idle.alone
    /\ \A us, ts, rs, es : Sound(U!Idle, us, ts, rs, es)
<1>1. U!Idle \in U!Request
  BY DEF U!Idle, U!Request, U!Steps, U!Maybe, U!Kinds
<1>2. \A us, ts, rs, es : Sound(U!Idle, us, ts, rs, es)
  BY <1>1 DEF Sound, U!Idle
<1>. QED
  BY <1>1, <1>2, AccountsAssumption DEF U!ConstantsOK, U!Idle

\* A step of a request, seen from the requests and from what lasts.
Moves(q, r) ==
    /\ req' = [req EXCEPT ![q] = r]
    /\ req[q].pc # "idle"
    /\ r.alone => req[q].alone
    /\ r.pc \notin {"addrole", "setrole"}
    /\ Sound(r, MadeUsers', MadeTokens', MadeRoles', MadeEntries')
    /\ r.pc = "join" => users'[r.user].guest

Lasts ==
    /\ DocsTyped'
    /\ MadeUsers \subseteq MadeUsers' /\ MadeTokens \subseteq MadeTokens'
    /\ MadeRoles \subseteq MadeRoles' /\ MadeEntries \subseteq MadeEntries'
    /\ \A u \in People : \/ users'[u].guest = users[u].guest
                         \/ users[u] = Null /\ u \in U!LiveUsers'

\* A request moves on while the others wait.
LEMMA MovesKeeps ==
    ASSUME AccountsInv, NEW q \in Requests, NEW r, Moves(q, r), Lasts
    PROVE  /\ AccountsTyped'
           /\ \A p \in Requests : req'[p].alone => AloneOK(p)'
           /\ \A p \in Requests : req'[p].pc = "join" => users'[req'[p].user].guest
<1>1. /\ req \in [Requests -> U!Request] /\ req' = [req EXCEPT ![q] = r] /\ r \in U!Request
      /\ \A p \in Requests : Sound(req[p], MadeUsers, MadeTokens, MadeRoles, MadeEntries)
  BY DEF AccountsInv, AccountsTyped, Moves, Sound
<1>2. req' \in [Requests -> U!Request] /\ req'[q] = r
      /\ \A p \in Requests : p # q => req'[p] = req[p]
  BY <1>1
<1>3. ASSUME NEW p \in Requests
      PROVE  Sound(req'[p], MadeUsers', MadeTokens', MadeRoles', MadeEntries')
  <2>1. CASE p = q
    BY <1>2, <2>1 DEF Moves
  <2>2. CASE p # q
    <3>1. req'[p] = req[p] /\ Sound(req[p], MadeUsers, MadeTokens, MadeRoles, MadeEntries)
      BY <1>1, <1>2, <2>2
    <3>2. /\ MadeUsers \subseteq MadeUsers' /\ MadeTokens \subseteq MadeTokens'
          /\ MadeRoles \subseteq MadeRoles' /\ MadeEntries \subseteq MadeEntries'
      BY DEF Lasts
    <3>3. Sound(req[p], MadeUsers', MadeTokens', MadeRoles', MadeEntries')
      BY <3>1, <3>2 DEF Sound
    <3>. QED
      BY <3>1, <3>3
  <2>. QED
    BY <2>1, <2>2
<1>4. AccountsTyped'
  BY <1>2, <1>3 DEF AccountsTyped, Lasts
<1>5. ASSUME NEW p \in Requests, req'[p].alone
      PROVE  AloneOK(p)'
  <2>1. req[p].alone
    BY <1>2, <1>5 DEF Moves
  <2>2. p = q
    BY <2>1 DEF AccountsInv, AloneOK, Moves
  <2>3. \A o \in Requests \ {p} : req'[o].pc = "idle"
    BY <1>2, <2>1, <2>2 DEF AccountsInv, AloneOK
  <2>. QED
    BY <1>2, <2>2, <2>3 DEF AloneOK, Moves
<1>6. ASSUME NEW p \in Requests, req'[p].pc = "join"
      PROVE  users'[req'[p].user].guest
  <2>1. CASE p = q
    BY <1>2, <1>6, <2>1 DEF Moves
  <2>2. CASE p # q
    <3>1. req'[p] = req[p] /\ req[p].user \in MadeUsers /\ users[req[p].user].guest
      BY <1>1, <1>2, <1>6, <2>2 DEF AccountsInv, Sound
    <3>. QED
      BY <3>1 DEF MadeUsers, Lasts
  <2>. QED
    BY <2>1, <2>2
<1>. QED
  BY <1>4, <1>5, <1>6

\* A guest stays one.
LEMMA GuestsStay ==
    ASSUME Lasts, NEW u \in People, U!Guest(u)
    PROVE  U!Guest(u)'
BY DEF Lasts, MadeUsers, U!Guest

\* Roles stay as they are: a user who ceases to be live is about to be pulled.
LEMMA RolesSame ==
    ASSUME AccountsInv, NEW q \in Requests, NEW r, Moves(q, r), Lasts,
           UNCHANGED <<roles, mixed, unpulled, strangers>>, req[q].pc # "pull",
           \A u \in U!LiveUsers : u \in U!LiveUsers' \/ (r.pc = "pull" /\ r.user = u)
    PROVE  U!RolesListLive'
<1>. SUFFICES ASSUME NEW x \in Roles, U!LiveRole(x)', NEW u \in roles'[x].users \ U!LiveUsers'
              PROVE  \/ u \in unpulled' \/ x \in mixed' \/ U!Guest(u)' \/ <<x, u>> \in strangers'
                     \/ \E p \in Requests : req'[p].pc = "pull" /\ req'[p].user = u
  BY DEF U!RolesListLive, U!At
<1>1. U!LiveRole(x) /\ u \in roles[x].users /\ u \in People
  BY UTypes DEF U!LiveRole, AccountsInv, AccountsTyped, DocsTyped, U!Role
<1>2. /\ req' = [req EXCEPT ![q] = r] /\ req \in [Requests -> U!Request]
  BY DEF Moves, AccountsInv, AccountsTyped
<1>3. CASE u \in U!LiveUsers
  BY <1>2, <1>3
<1>4. CASE u \notin U!LiveUsers
  <2>1. \/ u \in unpulled \/ x \in mixed \/ U!Guest(u) \/ <<x, u>> \in strangers
        \/ \E p \in Requests : req[p].pc = "pull" /\ req[p].user = u
    BY <1>1, <1>4 DEF AccountsInv, U!RolesListLive, U!At
  <2>2. U!Guest(u) => U!Guest(u)'
    BY <1>1, GuestsStay
  <2>. QED
    BY <2>1, <2>2, <1>2
<1>. QED
  BY <1>3, <1>4

\* Nothing happens to tokens.
LEMMA TokensSame == TokensOnce /\ UNCHANGED <<tokens, resets>> => TokensOnce'
  BY DEF TokensOnce, U!Open

\* A step that leaves the tokens alone, and the roles.
LEMMA QuietStep ==
    ASSUME AccountsInv, NEW q \in Requests, NEW r, Moves(q, r), Lasts,
           UNCHANGED <<tokens, resets>>, UNCHANGED <<roles, mixed, unpulled, strangers>>,
           req[q].pc # "pull",
           \A u \in U!LiveUsers : u \in U!LiveUsers' \/ (r.pc = "pull" /\ r.user = u)
    PROVE  AccountsInv'
BY MovesKeeps, RolesSame, TokensSame DEF AccountsInv

\* What a step begins with.
LEMMA AtStep ==
    ASSUME AccountsInv, NEW q \in Requests
    PROVE  /\ req \in [Requests -> U!Request] /\ req[q] \in U!Request
           /\ Sound(req[q], MadeUsers, MadeTokens, MadeRoles, MadeEntries)
           /\ MadeUsers \subseteq People /\ MadeTokens \subseteq Tokens
           /\ MadeRoles \subseteq Roles /\ MadeEntries \subseteq Entries
           /\ \A u \in MadeUsers : users[u] \in U!User
           /\ \A x \in MadeRoles : roles[x] \in U!Role
           /\ \A t \in MadeTokens : tokens[t] \in U!Token
           /\ \A e \in MadeEntries : entries[e] \in U!Entry
BY DEF AccountsInv, AccountsTyped, DocsTyped, MadeUsers, MadeTokens, MadeRoles, MadeEntries

\* The request goes on with the same business.
LEMMA Onward ==
    ASSUME NEW r \in U!Request, NEW s \in U!Steps
    PROVE  LET n == [r EXCEPT !.pc = s] IN
           /\ n \in U!Request /\ n.pc = s /\ n.user = r.user /\ n.name = r.name
           /\ n.mail = r.mail /\ n.token = r.token /\ n.role = r.role /\ n.todo = r.todo
           /\ n.entry = r.entry /\ n.label = r.label /\ n.alone = r.alone
           /\ n.list = r.list
BY DEF U!Request

\* createUser.
LEMMA InsertUserKeeps ==
    ASSUME AccountsInv, NEW q \in Requests, U!InsertUser(q)
    PROVE  AccountsInv'
<1>. DEFINE r == req[q]
<1>1. /\ r.pc = "user" /\ r \in U!Request /\ r.name \in Names /\ r.mail \in Mails
      /\ Sound(r, MadeUsers, MadeTokens, MadeRoles, MadeEntries)
  BY AtStep DEF U!InsertUser, U!At, Sound
<1>2. DocsTyped
  BY DEF AccountsInv, AccountsTyped
<1>3. CASE U!End(q) /\ UNCHANGED <<users, secrets>>
  <2>1. Moves(q, U!Idle)
    BY <1>1, <1>3, UTypes DEF U!End, U!Goto, Moves
  <2>2. Lasts /\ \A u \in U!LiveUsers : u \in U!LiveUsers'
    BY <1>2, <1>3 DEF U!InsertUser, U!End, U!Goto, Lasts, DocsTyped, MadeUsers, MadeTokens,
       MadeRoles, MadeEntries, U!LiveUsers, U!Live
  <2>. QED
    BY <1>1, <1>3, <2>1, <2>2, QuietStep DEF U!InsertUser, U!End, U!Goto
<1>4. ASSUME NEW u \in U!FreshUsers,
             secrets' = secrets + 1,
             users' = [users EXCEPT ![u] = [name |-> r.name, mail |-> r.mail, guest |-> r.guest,
                                            live |-> TRUE, secret |-> secrets']],
             U!Goto(q, [r EXCEPT !.pc = "drive", !.user = u, !.secret = secrets'])
      PROVE  AccountsInv'
  <2>. DEFINE doc == [name |-> r.name, mail |-> r.mail, guest |-> r.guest, live |-> TRUE,
                      secret |-> secrets']
              n == [r EXCEPT !.pc = "drive", !.user = u, !.secret = secrets']
  <2>1. u \in People /\ users[u] = Null /\ secrets' \in Nat
    BY <1>2, <1>4 DEF U!FreshUsers, DocsTyped
  <2>2. doc \in U!User /\ doc # Null /\ doc.live
    <3>1. r.guest \in BOOLEAN
      BY <1>1 DEF U!Request
    <3>2. doc \in U!User
      BY <1>1, <2>1, <3>1 DEF U!User
    <3>. QED
      BY <3>2, UTypes
  <2>3. /\ n \in U!Request /\ n.pc = "drive" /\ n.user = u /\ n.todo = r.todo
        /\ n.alone = r.alone
    <3>1. secrets' \in Nat /\ u \in U!Maybe(People) /\ "drive" \in U!Steps
      BY <2>1 DEF U!Steps, U!Maybe
    <3>2. PICK c : c = secrets'
      OBVIOUS
    <3>3. /\ [r EXCEPT !.pc = "drive", !.user = u, !.secret = c] \in U!Request
      BY <1>1, <3>1, <3>2 DEF U!Request
    <3>. QED
      BY <1>1, <3>2, <3>3 DEF U!Request
  <2>. HIDE DEF doc, n
  <2>4. users' = [users EXCEPT ![u] = doc] /\ users' \in [People -> U!User \cup {Null}]
    BY <1>2, <1>4, <2>2 DEF DocsTyped, doc
  <2>5. DocsTyped'
    BY <1>2, <1>4, <2>1, <2>4 DEF U!InsertUser, U!Goto, DocsTyped
  <2>6. /\ u \in MadeUsers' /\ MadeUsers \subseteq MadeUsers'
        /\ \A v \in U!LiveUsers : v \in U!LiveUsers'
        /\ u \in U!LiveUsers'
        /\ \A v \in People : v # u => users'[v] = users[v]
    BY <1>2, <2>1, <2>2, <2>4 DEF MadeUsers, U!LiveUsers, U!Live, DocsTyped
  <2>7. Lasts
    BY <1>4, <2>1, <2>5, <2>6 DEF U!InsertUser, U!Goto, Lasts, MadeTokens, MadeRoles, MadeEntries
  <2>8. Moves(q, n)
    BY <1>1, <1>4, <2>3, <2>6, <2>7 DEF U!Goto, Moves, Sound, Lasts, n
  <2>. QED
    BY <1>1, <1>4, <2>6, <2>7, <2>8, QuietStep DEF U!InsertUser, U!Goto
<1>. QED
  BY <1>3, <1>4 DEF U!InsertUser

\* A step that ends or goes on, and touches no user's life.
Plain(q) ==
    /\ req[q].pc \notin {"pull", "idle"}
    /\ \/ req' = [req EXCEPT ![q] = U!Idle]
       \/ \E s \in {"drive", "config", "welcome", "push"} :
            /\ req' = [req EXCEPT ![q] = [req[q] EXCEPT !.pc = s]]
            /\ req[q].user \in MadeUsers
            /\ s = "push" => req[q].mail \in Mails
    /\ DocsTyped'
    /\ \A u \in People : /\ users[u] # Null => users'[u] # Null
                         /\ users'[u].guest = users[u].guest /\ users'[u].live = users[u].live
    /\ MadeTokens \subseteq MadeTokens' /\ MadeEntries \subseteq MadeEntries'
    /\ UNCHANGED <<roles, mixed, unpulled, strangers>>

\* A step that changes no token, role or entry.
LEMMA PlainKeeps ==
    ASSUME AccountsInv, NEW q \in Requests, Plain(q), TokensOnce'
    PROVE  AccountsInv'
<1>1. /\ req[q] \in U!Request /\ req[q].pc \notin {"pull", "idle"}
      /\ Sound(req[q], MadeUsers, MadeTokens, MadeRoles, MadeEntries)
  BY AtStep DEF Plain
<1>2. Lasts /\ \A u \in U!LiveUsers : u \in U!LiveUsers'
  BY DEF Plain, Lasts, MadeUsers, MadeRoles, U!LiveUsers, U!Live
<1>3. PICK r : req' = [req EXCEPT ![q] = r] /\ r \in U!Request
               /\ r.pc \in {"idle", "drive", "config", "welcome", "push"}
               /\ (r.alone => req[q].alone)
               /\ Sound(r, MadeUsers, MadeTokens, MadeRoles, MadeEntries)
  <2>1. CASE req' = [req EXCEPT ![q] = U!Idle]
    BY <2>1, UTypes
  <2>2. ASSUME NEW s \in {"drive", "config", "welcome", "push"},
               req' = [req EXCEPT ![q] = [req[q] EXCEPT !.pc = s]],
               req[q].user \in MadeUsers, s = "push" => req[q].mail \in Mails
        PROVE  \E r : req' = [req EXCEPT ![q] = r] /\ r \in U!Request
                      /\ r.pc \in {"idle", "drive", "config", "welcome", "push"}
                      /\ (r.alone => req[q].alone)
                      /\ Sound(r, MadeUsers, MadeTokens, MadeRoles, MadeEntries)
    <3>. DEFINE n == [req[q] EXCEPT !.pc = s]
    <3>1. /\ n \in U!Request /\ n.pc = s /\ n.user = req[q].user /\ n.mail = req[q].mail
          /\ n.todo = req[q].todo /\ n.alone = req[q].alone
      BY <1>1, <2>2 DEF U!Request, U!Steps
    <3>. HIDE DEF n
    <3>2. Sound(n, MadeUsers, MadeTokens, MadeRoles, MadeEntries)
      BY <1>1, <2>2, <3>1 DEF Sound
    <3>. QED
      BY <2>2, <3>1, <3>2 DEF n
  <2>. QED
    BY <2>1, <2>2 DEF Plain
<1>4. Sound(r, MadeUsers', MadeTokens', MadeRoles', MadeEntries')
  BY <1>2, <1>3 DEF Sound, Lasts
<1>5. Moves(q, r)
  BY <1>1, <1>3, <1>4 DEF Moves
<1>. QED
  BY <1>1, <1>2, <1>5, MovesKeeps, RolesSame DEF AccountsInv, Plain

\* Steps of a creation, an edit and the mails.
LEMMA UserStepsKeep ==
    ASSUME AccountsInv, NEW q \in Requests,
           U!InsertDrive(q) \/ U!InsertConfig(q) \/ U!MailWelcome(q) \/ U!MailSecret(q)
    PROVE  AccountsInv'
<1>1. /\ req \in [Requests -> U!Request] /\ req[q] \in U!Request
      /\ Sound(req[q], MadeUsers, MadeTokens, MadeRoles, MadeEntries)
      /\ MadeUsers \subseteq People
  BY AtStep
<1>2. DocsTyped /\ TokensOnce
  BY DEF AccountsInv, AccountsTyped
<1>3. req[q].user \in MadeUsers /\ req[q].user \in People /\ req[q].secret \in Nat
  BY <1>1 DEF Sound, U!Request, U!InsertDrive, U!InsertConfig, U!MailWelcome, U!MailSecret, U!At
<1>4. UNCHANGED <<users, tokens, resets, roles, entries, mixed, unpulled, strangers>>
  BY DEF U!InsertDrive, U!InsertConfig, U!MailWelcome, U!MailSecret, U!End, U!Then, U!Goto
<1>5. DocsTyped'
  BY <1>2, <1>3, <1>4 DEF DocsTyped, U!InsertDrive, U!InsertConfig, U!MailWelcome, U!MailSecret,
     U!End, U!Then, U!Goto
<1>6. Plain(q)
  BY <1>3, <1>4, <1>5 DEF Plain, U!InsertDrive, U!InsertConfig, U!MailWelcome, U!MailSecret,
     U!End, U!Then, U!Goto, U!At, MadeTokens, MadeEntries
<1>. QED
  BY <1>2, <1>4, <1>6, TokensSame, PlainKeeps

\* editUser.
LEMMA SetUserKeeps ==
    ASSUME AccountsInv, NEW q \in Requests, U!SetUser(q)
    PROVE  AccountsInv'
<1>. DEFINE r == req[q]
            u == r.user
            name == U!Given(r.name, users[u].name)
            mail == U!Given(r.mail, users[u].mail)
<1>1. /\ r \in U!Request /\ r.pc = "set" /\ u \in People /\ users[u] # Null
      /\ users[u] \in U!User
  BY AtStep DEF U!SetUser, U!At, Sound, MadeUsers
<1>2. DocsTyped /\ TokensOnce
  BY DEF AccountsInv, AccountsTyped
<1>3. name \in Names /\ mail \in Mails /\ r.secret \in Nat
  BY <1>1 DEF U!Given, U!Request, U!User, U!Maybe
<1>4. UNCHANGED <<tokens, resets, roles, entries, mixed, unpulled, strangers>>
  BY DEF U!SetUser, U!End, U!Goto
<1>5. \/ UNCHANGED <<users, secrets>>
      \/ \E doc \in U!User : /\ users' = [users EXCEPT ![u] = doc]
                             /\ doc.guest = users[u].guest /\ doc.live = users[u].live
                             /\ secrets' \in Nat
  <2>1. CASE UNCHANGED <<users, secrets>>
    BY <2>1
  <2>2. CASE /\ secrets' = secrets + r.secret
             /\ users' = [users EXCEPT ![u].name = name, ![u].mail = mail,
                                       ![u].secret = IF r.secret = 0 THEN @ ELSE secrets']
    <3>1. secrets' \in Nat
      <4>1. secrets \in Nat
        BY <1>2, Zenon DEF DocsTyped
      <4>. QED
        BY <1>3, <2>2, <4>1
    <3>2. PICK c \in Nat : users' = [users EXCEPT ![u].name = name, ![u].mail = mail,
                                                  ![u].secret = c]
      <4>1. CASE r.secret = 0
        BY <1>1, <1>2, <2>2, <4>1 DEF U!User, DocsTyped
      <4>2. CASE r.secret # 0
        BY <2>2, <3>1, <4>2
      <4>. QED
        BY <4>1, <4>2
    <3>. DEFINE doc == [users[u] EXCEPT !.name = name, !.mail = mail, !.secret = c]
    <3>3. doc \in U!User /\ doc.guest = users[u].guest /\ doc.live = users[u].live
      BY <1>1, <1>3, <3>2 DEF U!User
    <3>4. users' = [users EXCEPT ![u] = doc]
      BY <1>1, <1>2, <3>2 DEF DocsTyped
    <3>. QED
      BY <3>1, <3>3, <3>4
  <2>. QED
    BY <2>1, <2>2 DEF U!SetUser
<1>6. users' \in [People -> U!User \cup {Null}] /\ secrets' \in Nat
  BY <1>2, <1>5 DEF DocsTyped
<1>7. \A v \in People : /\ users[v] # Null => users'[v] # Null
                        /\ users'[v].guest = users[v].guest /\ users'[v].live = users[v].live
  BY <1>1, <1>2, <1>5, UTypes DEF DocsTyped
<1>8. DocsTyped'
  BY <1>2, <1>4, <1>6 DEF DocsTyped, U!SetUser, U!End, U!Goto
<1>9. Plain(q)
  BY <1>1, <1>4, <1>7, <1>8 DEF Plain, U!SetUser, U!End, U!Goto, MadeTokens, MadeEntries
<1>. QED
  BY <1>2, <1>4, <1>9, TokensSame, PlainKeeps

\* Entries of the registers.
LEMMA EntryStepsKeep ==
    ASSUME AccountsInv, NEW q \in Requests, U!EnterEntry(q) \/ U!Relabel(q) \/ U!Unlist(q)
    PROVE  AccountsInv'
<1>. DEFINE r == req[q]
<1>1. /\ r \in U!Request /\ Sound(r, MadeUsers, MadeTokens, MadeRoles, MadeEntries)
      /\ MadeEntries \subseteq Entries /\ \A e \in MadeEntries : entries[e] \in U!Entry
  BY AtStep
<1>2. DocsTyped /\ TokensOnce
  BY DEF AccountsInv, AccountsTyped
<1>3. /\ UNCHANGED <<users, tokens, resets, roles, mixed, unpulled, strangers>>
      /\ req' = [req EXCEPT ![q] = U!Idle] /\ r.pc \notin {"pull", "idle"}
  BY DEF U!EnterEntry, U!Relabel, U!Unlist, U!End, U!Goto, U!At
<1>4. \/ entries' = entries
      \/ \E e \in Entries, doc \in U!Entry : entries' = [entries EXCEPT ![e] = doc]
  <2>1. CASE U!EnterEntry(q)
    <3>1. r.kind \in U!Kinds /\ r.label \in Labels
      BY <1>1, <2>1 DEF U!EnterEntry, U!At, Sound, U!Request
    <3>2. [kind |-> r.kind, label |-> r.label, live |-> TRUE] \in U!Entry
      BY <3>1 DEF U!Entry
    <3>. QED
      BY <2>1, <3>2 DEF U!EnterEntry, U!FreshEntries
  <2>2. CASE U!Relabel(q)
    <3>1. r.entry \in Entries /\ entries[r.entry] \in U!Entry /\ r.label \in Labels
      BY <1>1, <2>2 DEF U!Relabel, U!At, Sound
    <3>2. [entries[r.entry] EXCEPT !.label = r.label] \in U!Entry
      BY <3>1 DEF U!Entry
    <3>3. \/ entries' = entries
          \/ entries' = [entries EXCEPT ![r.entry] = [entries[r.entry] EXCEPT !.label = r.label]]
      BY <2>2 DEF U!Relabel
    <3>. QED
      BY <3>1, <3>2, <3>3
  <2>3. CASE U!Unlist(q)
    <3>1. r.entry \in Entries /\ entries[r.entry] \in U!Entry
      BY <1>1, <2>3 DEF U!Unlist, U!At, Sound
    <3>2. [entries[r.entry] EXCEPT !.live = FALSE] \in U!Entry
      BY <3>1 DEF U!Entry
    <3>3. entries' = [entries EXCEPT ![r.entry] = [entries[r.entry] EXCEPT !.live = FALSE]]
      BY <2>3 DEF U!Unlist
    <3>. QED
      BY <3>1, <3>2, <3>3
  <2>. QED
    BY <2>1, <2>2, <2>3
<1>5. entries' \in [Entries -> U!Entry \cup {Null}] /\ MadeEntries \subseteq MadeEntries'
  BY <1>2, <1>4, UTypes DEF DocsTyped, MadeEntries
<1>6. DocsTyped'
  BY <1>2, <1>3, <1>5 DEF DocsTyped, U!EnterEntry, U!Relabel, U!Unlist, U!End, U!Goto
<1>7. Plain(q)
  BY <1>3, <1>5, <1>6 DEF Plain, MadeTokens
<1>. QED
  BY <1>2, <1>3, <1>7, TokensSame, PlainKeeps

\* Requests for a new password: the links before are used up, and one is pushed
\* that has reset nothing.
LEMMA LinkStepsKeep ==
    ASSUME AccountsInv, NEW q \in Requests, U!Invalidate(q) \/ U!PushToken(q)
    PROVE  AccountsInv'
<1>. DEFINE r == req[q]
<1>1. /\ r \in U!Request /\ Sound(r, MadeUsers, MadeTokens, MadeRoles, MadeEntries)
      /\ MadeUsers \subseteq People
      /\ r.pc \notin {"pull", "idle"} /\ r.user \in MadeUsers /\ r.mail \in Mails
  BY AtStep DEF U!Invalidate, U!PushToken, U!At, Sound
<1>2. DocsTyped /\ TokensOnce
  BY DEF AccountsInv, AccountsTyped
<1>3. UNCHANGED <<users, resets, roles, entries, mixed, unpulled, strangers>>
  BY DEF U!Invalidate, U!PushToken, U!End, U!Then, U!Goto
<1>4. /\ tokens' \in [Tokens -> U!Token \cup {Null}] /\ MadeTokens \subseteq MadeTokens'
      /\ TokensOnce'
  <2>1. CASE U!Invalidate(q)
    <3>1. \A t \in Tokens : tokens[t] # Null => [tokens[t] EXCEPT !.used = TRUE] \in U!Token
      BY <1>2 DEF DocsTyped, U!Token
    <3>2. tokens' = [t \in Tokens |-> IF tokens[t] # Null /\ tokens[t].user = r.user
                                      THEN [tokens[t] EXCEPT !.used = TRUE] ELSE tokens[t]]
      BY <2>1 DEF U!Invalidate
    <3>3. /\ tokens' \in [Tokens -> U!Token \cup {Null}] /\ MadeTokens \subseteq MadeTokens'
      BY <1>2, <3>1, <3>2, UTypes DEF DocsTyped, MadeTokens
    <3>4. ASSUME NEW t \in Tokens, tokens'[t] = Null \/ U!Open(t)'
          PROVE  tokens[t] = Null \/ U!Open(t)
      BY <1>2, <3>1, <3>2, <3>4, UTypes DEF DocsTyped, U!Open, U!Token
    <3>. QED
      BY <1>2, <1>3, <3>3, <3>4 DEF TokensOnce
  <2>2. CASE U!PushToken(q)
    <3>. DEFINE doc == [user |-> r.user, mail |-> r.mail, used |-> FALSE, old |-> FALSE]
    <3>1. PICK t \in U!FreshTokens : tokens' = [tokens EXCEPT ![t] = doc]
      BY <2>2 DEF U!PushToken
    <3>2. doc \in U!Token /\ t \in Tokens /\ tokens[t] = Null
      BY <1>1 DEF U!Token, U!FreshTokens
    <3>. HIDE DEF doc
    <3>3. /\ tokens' \in [Tokens -> U!Token \cup {Null}] /\ MadeTokens \subseteq MadeTokens'
      BY <1>2, <3>1, <3>2, UTypes DEF DocsTyped, MadeTokens
    <3>4. ASSUME NEW s \in Tokens, tokens'[s] = Null \/ U!Open(s)'
          PROVE  tokens[s] = Null \/ U!Open(s)
      BY <1>2, <3>1, <3>2, <3>4, UTypes DEF DocsTyped, U!Open
    <3>. QED
      BY <1>2, <1>3, <3>3, <3>4 DEF TokensOnce
  <2>. QED
    BY <2>1, <2>2
<1>5. DocsTyped'
  BY <1>2, <1>3, <1>4 DEF DocsTyped, U!Invalidate, U!PushToken, U!End, U!Then, U!Goto
<1>6. Plain(q)
  BY <1>1, <1>3, <1>4, <1>5 DEF Plain, U!Invalidate, U!PushToken, U!End, U!Then, U!Goto, MadeEntries
<1>. QED
  BY <1>4, <1>6, PlainKeeps

\* resetPassword: the link is open, so it has reset nothing, and is used now.
LEMMA ResetSecretKeeps ==
    ASSUME AccountsInv, NEW q \in Requests, U!ResetSecret(q)
    PROVE  AccountsInv'
<1>. DEFINE r == req[q]
            u == r.user
            t == r.token
<1>1. /\ r \in U!Request /\ r.pc = "reset" /\ u \in People /\ users[u] # Null
      /\ users[u] \in U!User /\ t \in Tokens /\ tokens[t] # Null /\ tokens[t] \in U!Token
      /\ Sound(r, MadeUsers, MadeTokens, MadeRoles, MadeEntries)
      /\ req \in [Requests -> U!Request]
  BY AtStep DEF U!ResetSecret, U!At, Sound, MadeUsers, MadeTokens
<1>2. DocsTyped /\ TokensOnce
  BY DEF AccountsInv, AccountsTyped
<1>3. UNCHANGED <<drives, configs, roles, entries, mailed, mixed, unpulled,
                 strangers, begun, faults>>
  BY DEF U!ResetSecret, U!End, U!Goto
<1>4. CASE ~U!Open(t)
  <2>1. req' = [req EXCEPT ![q] = U!Idle] /\ UNCHANGED <<users, tokens, secrets, resets>>
    BY <1>4 DEF U!ResetSecret, U!End, U!Goto
  <2>2. DocsTyped'
    BY <1>2, <1>3, <2>1 DEF DocsTyped
  <2>3. Plain(q)
    BY <1>1, <1>3, <2>1, <2>2 DEF Plain, MadeTokens, MadeEntries
  <2>. QED
    BY <1>2, <2>1, <2>3, TokensSame, PlainKeeps
<1>5. CASE U!Open(t)
  <2>. DEFINE n == [r EXCEPT !.pc = "send", !.secret = users[u].secret]
              doc == [users[u] EXCEPT !.secret = secrets']
              link == [tokens[t] EXCEPT !.used = TRUE]
  <2>1. /\ secrets' = secrets + 1 /\ users' = [users EXCEPT ![u] = doc]
        /\ tokens' = [tokens EXCEPT ![t] = link]
        /\ resets' = [resets EXCEPT ![t] = @ + 1] /\ req' = [req EXCEPT ![q] = n]
    BY <1>5 DEF U!ResetSecret, U!Goto
  <2>2. secrets' \in Nat
    BY <1>2, <2>1 DEF DocsTyped
  <2>3. doc \in U!User /\ doc.guest = users[u].guest /\ doc.live = users[u].live
    <3>1. PICK c \in Nat : c = secrets'
      BY <2>2
    <3>2. [users[u] EXCEPT !.secret = c] \in U!User
      BY <1>1, <3>1 DEF U!User
    <3>. QED
      BY <1>1, <3>1, <3>2 DEF U!User
  <2>4. link \in U!Token /\ link.used
    BY <1>1 DEF U!Token
  <2>5. /\ n \in U!Request /\ n.pc = "send" /\ n.user = u /\ n.todo = r.todo /\ n.alone = r.alone
    <3>1. users[u].secret \in Nat /\ "send" \in U!Steps
      BY <1>1 DEF U!User, U!Steps
    <3>. QED
      BY <1>1, <3>1 DEF U!Request
  <2>. HIDE DEF n, doc, link
  <2>6. /\ users' \in [People -> U!User \cup {Null}] /\ tokens' \in [Tokens -> U!Token \cup {Null}]
        /\ MadeUsers \subseteq MadeUsers' /\ MadeTokens \subseteq MadeTokens'
        /\ \A v \in People : /\ users'[v].guest = users[v].guest
                             /\ users[v] # Null => users'[v] # Null
                             /\ users'[v].live = users[v].live
    BY <1>1, <1>2, <2>1, <2>3, <2>4, UTypes DEF DocsTyped, MadeUsers, MadeTokens
  <2>7. resets' \in [Tokens -> Nat] /\ resets[t] = 0 /\ resets'[t] = 1
    BY <1>1, <1>2, <1>5, <2>1 DEF DocsTyped, TokensOnce
  <2>8. DocsTyped'
    BY <1>2, <1>3, <2>2, <2>6, <2>7 DEF DocsTyped
  <2>9. Lasts /\ \A v \in U!LiveUsers : v \in U!LiveUsers'
    BY <1>3, <2>6, <2>8 DEF Lasts, MadeRoles, MadeEntries, U!LiveUsers, U!Live
  <2>10. Moves(q, n)
    BY <1>1, <2>1, <2>5, <2>9 DEF Moves, Sound, Lasts
  <2>11. TokensOnce'
    <3>. SUFFICES ASSUME NEW s \in Tokens
                  PROVE  resets'[s] <= 1 /\ (tokens'[s] = Null \/ U!Open(s)' => resets'[s] = 0)
      BY DEF TokensOnce
    <3>1. CASE s = t
      BY <1>1, <1>2, <2>1, <2>4, <2>7, <3>1, UTypes DEF U!Open, DocsTyped
    <3>2. CASE s # t
      BY <1>2, <2>1, <3>2 DEF U!Open, DocsTyped, TokensOnce
    <3>. QED
      BY <3>1, <3>2
  <2>. QED
    BY <1>1, <1>3, <2>9, <2>10, <2>11, MovesKeeps, RolesSame DEF AccountsInv
<1>. QED
  BY <1>4, <1>5

\* deleteUser: who is marked is about to be taken out of the roles.
LEMMA MarkUserKeeps ==
    ASSUME AccountsInv, NEW q \in Requests, U!MarkUser(q)
    PROVE  AccountsInv'
<1>. DEFINE r == req[q]
            u == r.user
            n == [r EXCEPT !.pc = "pull"]
<1>1. /\ r \in U!Request /\ r.pc = "mark" /\ u \in People /\ users[u] # Null
      /\ users[u] \in U!User
      /\ Sound(r, MadeUsers, MadeTokens, MadeRoles, MadeEntries)
  BY AtStep DEF U!MarkUser, U!At, Sound, MadeUsers
<1>2. DocsTyped
  BY DEF AccountsInv, AccountsTyped
<1>3. /\ UNCHANGED <<tokens, drives, configs, roles, entries, mailed, secrets, resets, mixed,
                     strangers, unpulled, begun, faults>>
      /\ req' = [req EXCEPT ![q] = n]
  BY DEF U!MarkUser, U!Then, U!Goto
<1>4. /\ users' \in [People -> U!User \cup {Null}]
      /\ \A v \in People : /\ users[v] # Null => users'[v] # Null
                           /\ users'[v].guest = users[v].guest
                           /\ v # u => users'[v] = users[v]
  <2>1. CASE ~U!Live(u)
    BY <1>2, <2>1 DEF U!MarkUser, DocsTyped
  <2>2. CASE U!Live(u)
    <3>. DEFINE doc == [users[u] EXCEPT !.live = FALSE, !.secret = 0]
    <3>1. doc \in U!User /\ doc.guest = users[u].guest
      BY <1>1 DEF U!User
    <3>2. users' = [users EXCEPT ![u] = doc]
      BY <1>1, <1>2, <2>2 DEF U!MarkUser, DocsTyped
    <3>. HIDE DEF doc
    <3>. QED
      BY <1>1, <1>2, <3>1, <3>2, UTypes DEF DocsTyped
  <2>. QED
    BY <2>1, <2>2
<1>5. n \in U!Request /\ n.pc = "pull" /\ n.user = u /\ n.todo = r.todo /\ n.alone = r.alone
  BY <1>1 DEF U!Request, U!Steps
<1>. HIDE DEF n
<1>6. Lasts
  BY <1>2, <1>3, <1>4 DEF Lasts, DocsTyped, MadeUsers, MadeTokens, MadeRoles, MadeEntries
<1>7. Moves(q, n)
  BY <1>1, <1>3, <1>5, <1>6 DEF Moves, Sound, Lasts
<1>8. \A v \in U!LiveUsers : v \in U!LiveUsers' \/ (n.pc = "pull" /\ n.user = v)
  BY <1>4, <1>5 DEF U!LiveUsers, U!Live
<1>. QED
  BY <1>1, <1>3, <1>6, <1>7, <1>8, QuietStep

\* A step that writes one role.
LEMMA RoleWritten ==
    ASSUME AccountsInv, NEW q \in Requests, NEW r, Moves(q, r),
           UNCHANGED <<users, tokens, resets, unpulled>>, DocsTyped',
           MadeRoles \subseteq MadeRoles', MadeEntries \subseteq MadeEntries',
           mixed \subseteq mixed', strangers \subseteq strangers', req[q].pc # "pull",
           NEW x \in Roles, \A y \in Roles \ {x} : roles'[y] = roles[y],
           \/ x \in mixed'
           \/ \A u \in roles'[x].users : \/ u \in U!LiveUsers \/ U!Guest(u)
                                         \/ <<x, u>> \in strangers'
                                         \/ U!LiveRole(x) /\ u \in roles[x].users
           \/ ~U!LiveRole(x)'
    PROVE  AccountsInv'
<1>1. Lasts
  BY DEF Lasts, MadeUsers, MadeTokens
<1>2. U!LiveUsers' = U!LiveUsers /\ \A u : U!Guest(u)' <=> U!Guest(u)
  BY DEF U!LiveUsers, U!Live, U!Guest
<1>3. req' = [req EXCEPT ![q] = r] /\ req \in [Requests -> U!Request]
  BY DEF Moves, AccountsInv, AccountsTyped
<1>4. ASSUME NEW y \in Roles, U!LiveRole(y)', NEW u \in roles'[y].users \ U!LiveUsers'
      PROVE  \/ u \in unpulled' \/ y \in mixed' \/ U!Guest(u)' \/ <<y, u>> \in strangers'
             \/ \E p \in Requests : U!At(p, "pull")' /\ req'[p].user = u
  <2>1. CASE U!LiveRole(y) /\ u \in roles[y].users
    <3>1. \/ u \in unpulled \/ y \in mixed \/ U!Guest(u) \/ <<y, u>> \in strangers
          \/ \E p \in Requests : U!At(p, "pull") /\ req[p].user = u
      BY <1>2, <1>4, <2>1 DEF AccountsInv, U!RolesListLive
    <3>. QED
      BY <1>2, <1>3, <3>1 DEF U!At
  <2>2. CASE ~(U!LiveRole(y) /\ u \in roles[y].users)
    <3>1. y = x
      BY <1>4, <2>2 DEF U!LiveRole
    <3>. QED
      BY <1>2, <1>4, <2>2, <3>1
  <2>. QED
    BY <2>1, <2>2
<1>5. U!RolesListLive'
  BY <1>4 DEF U!RolesListLive
<1>. QED
  BY <1>1, <1>5, MovesKeeps, TokensSame DEF AccountsInv

\* createRole, editRole, deleteRole.
LEMMA RoleStepsKeep ==
    ASSUME AccountsInv, NEW q \in Requests, U!AddRole(q) \/ U!SetRole(q) \/ U!DropRole(q)
    PROVE  AccountsInv'
<1>. DEFINE r == req[q]
<1>1. /\ r \in U!Request /\ r.pc \in {"addrole", "setrole", "droprole"}
      /\ Sound(r, MadeUsers, MadeTokens, MadeRoles, MadeEntries)
      /\ MadeRoles \subseteq Roles /\ \A x \in MadeRoles : roles[x] \in U!Role
  BY AtStep DEF U!AddRole, U!SetRole, U!DropRole, U!At
<1>2. DocsTyped
  BY DEF AccountsInv, AccountsTyped
<1>3. /\ UNCHANGED <<users, tokens, drives, configs, entries, mailed, secrets, resets, unpulled,
                     begun, faults>>
      /\ req' = [req EXCEPT ![q] = U!Idle]
  BY DEF U!AddRole, U!SetRole, U!DropRole, U!End, U!Goto
<1>4. \E x \in Roles, doc \in U!Role :
        /\ roles' = [roles EXCEPT ![x] = doc]
        /\ mixed' = IF r.alone THEN mixed ELSE mixed \cup {x}
        /\ strangers' = strangers \cup ({x} \X r.strange)
        /\ \/ ~r.alone \/ ~doc.live
           \/ doc.users \subseteq U!LiveUsers \cup r.strange
           \/ roles[x] # Null /\ doc.live = roles[x].live /\ doc.users = roles[x].users
  <2>1. CASE U!AddRole(q)
    <3>. DEFINE doc == [users |-> r.list, guest |-> r.guest, live |-> TRUE]
    <3>1. doc \in U!Role
      BY <1>1 DEF U!Role, U!Request
    <3>2. PICK x \in Roles : /\ roles' = [roles EXCEPT ![x] = doc]
                             /\ mixed' = IF r.alone THEN mixed ELSE mixed \cup {x}
                             /\ strangers' = strangers \cup ({x} \X r.strange)
      BY <2>1 DEF U!AddRole, U!Note, U!FreshRoles
    <3>3. r.alone => doc.users \subseteq U!LiveUsers \cup r.strange
      BY <2>1 DEF U!AddRole, U!At, AccountsInv, AloneOK
    <3>. QED
      BY <3>1, <3>2, <3>3
  <2>2. CASE U!SetRole(q)
    <3>. DEFINE x == r.role
                doc == [roles[x] EXCEPT !.users = r.list]
    <3>1. x \in Roles /\ roles[x] \in U!Role /\ roles[x] # Null /\ r.list \subseteq People
      BY <1>1, <2>2, UTypes DEF U!SetRole, U!At, Sound, U!Request
    <3>2. doc \in U!Role /\ doc.users = r.list /\ doc.live = roles[x].live
      BY <3>1 DEF U!Role
    <3>3. /\ roles' = [roles EXCEPT ![x] = doc]
          /\ mixed' = IF r.alone THEN mixed ELSE mixed \cup {x}
          /\ strangers' = strangers \cup ({x} \X r.strange)
      BY <1>2, <2>2, <3>1 DEF U!SetRole, U!Note, DocsTyped
    <3>4. r.alone => \/ r.list = roles[x].users
                     \/ r.list \subseteq U!LiveUsers \cup r.strange
      BY <2>2 DEF U!SetRole, U!At, AccountsInv, AloneOK
    <3>. HIDE DEF doc
    <3>. QED
      BY <3>1, <3>2, <3>3, <3>4
  <2>3. CASE U!DropRole(q)
    <3>. DEFINE x == r.role
                doc == [roles[x] EXCEPT !.live = FALSE]
    <3>1. x \in Roles /\ roles[x] \in U!Role
      BY <1>1, <2>3 DEF U!DropRole, U!At, Sound
    <3>2. doc \in U!Role /\ ~doc.live
      BY <3>1 DEF U!Role
    <3>3. /\ roles' = [roles EXCEPT ![x] = doc]
          /\ mixed' = IF r.alone THEN mixed ELSE mixed \cup {x}
          /\ strangers' = strangers \cup ({x} \X r.strange)
      BY <1>2, <2>3, <3>1 DEF U!DropRole, U!Note, DocsTyped
    <3>. HIDE DEF doc
    <3>. QED
      BY <3>1, <3>2, <3>3
  <2>. QED
    BY <2>1, <2>2, <2>3
<1>5. PICK x \in Roles, doc \in U!Role :
        /\ roles' = [roles EXCEPT ![x] = doc]
        /\ mixed' = IF r.alone THEN mixed ELSE mixed \cup {x}
        /\ strangers' = strangers \cup ({x} \X r.strange)
        /\ \/ ~r.alone \/ ~doc.live
           \/ doc.users \subseteq U!LiveUsers \cup r.strange
           \/ roles[x] # Null /\ doc.live = roles[x].live /\ doc.users = roles[x].users
  BY <1>4
<1>6. /\ roles' \in [Roles -> U!Role \cup {Null}] /\ roles'[x] = doc /\ doc # Null
      /\ \A y \in Roles \ {x} : roles'[y] = roles[y]
      /\ MadeRoles \subseteq MadeRoles' /\ mixed \subseteq mixed' /\ mixed' \subseteq Roles
  BY <1>2, <1>5, UTypes DEF DocsTyped, MadeRoles
<1>11. strangers \subseteq strangers' /\ strangers' \subseteq Roles \X People
  BY <1>1, <1>2, <1>5 DEF DocsTyped, U!Request
<1>7. DocsTyped'
  BY <1>2, <1>3, <1>6, <1>11 DEF DocsTyped
<1>8. Moves(q, U!Idle)
  BY <1>1, <1>3, UTypes DEF Moves
<1>9. \/ x \in mixed'
      \/ \A u \in roles'[x].users : \/ u \in U!LiveUsers \/ U!Guest(u)
                                    \/ <<x, u>> \in strangers'
                                    \/ U!LiveRole(x) /\ u \in roles[x].users
      \/ ~U!LiveRole(x)'
  BY <1>5, <1>6 DEF U!LiveRole
<1>10. MadeEntries \subseteq MadeEntries' /\ r.pc # "pull"
  BY <1>1, <1>3 DEF MadeEntries
<1>. QED
  BY <1>3, <1>6, <1>7, <1>8, <1>9, <1>10, <1>11, RoleWritten

\* addGuestUser: who joins is a guest.
LEMMA JoinRoleKeeps ==
    ASSUME AccountsInv, NEW q \in Requests, U!JoinRole(q)
    PROVE  AccountsInv'
<1>. DEFINE r == req[q]
<1>1. /\ r \in U!Request /\ r.pc = "join" /\ r.user \in People /\ r.user \in MadeUsers
      /\ Sound(r, MadeUsers, MadeTokens, MadeRoles, MadeEntries)
      /\ r.todo \subseteq MadeRoles /\ users[r.user].guest
      /\ MadeRoles \subseteq Roles /\ \A x \in MadeRoles : roles[x] \in U!Role
  BY AtStep DEF U!JoinRole, U!At, Sound, AccountsInv
<1>2. DocsTyped
  BY DEF AccountsInv, AccountsTyped
<1>3. PICK x \in r.todo :
        /\ roles' = [roles EXCEPT ![x].users = @ \cup {r.user}]
        /\ U!Note(q, {x})
        /\ IF r.todo = {x} THEN U!End(q) ELSE U!Goto(q, [r EXCEPT !.todo = @ \ {x}])
  BY DEF U!JoinRole
<1>. DEFINE doc == [roles[x] EXCEPT !.users = @ \cup {r.user}]
            n == IF r.todo = {x} THEN U!Idle ELSE [r EXCEPT !.todo = @ \ {x}]
<1>4. x \in Roles /\ roles[x] \in U!Role /\ roles[x] # Null
  BY <1>1, UTypes
<1>5. doc \in U!Role /\ doc.users = roles[x].users \cup {r.user} /\ doc.live = roles[x].live
  BY <1>1, <1>4 DEF U!Role
<1>6. roles' = [roles EXCEPT ![x] = doc] /\ req' = [req EXCEPT ![q] = n]
      /\ UNCHANGED <<users, tokens, drives, configs, entries, mailed, secrets, resets, unpulled,
                     begun, faults>>
      /\ mixed \subseteq mixed' /\ mixed' \subseteq mixed \cup {x}
      /\ strangers' = strangers \cup ({x} \X r.strange)
  BY <1>2, <1>3, <1>4 DEF U!JoinRole, U!Note, U!End, U!Goto, DocsTyped
<1>7. /\ n \in U!Request /\ n.pc \in {"idle", "join"} /\ (n.alone => r.alone)
      /\ Sound(n, MadeUsers, MadeTokens, MadeRoles, MadeEntries)
      /\ n.pc = "join" => n.user = r.user
  <2>1. CASE r.todo = {x}
    BY <2>1, UTypes
  <2>2. CASE r.todo # {x}
    <3>1. n = [r EXCEPT !.todo = r.todo \ {x}]
      BY <2>2
    <3>2. /\ n \in U!Request /\ n.pc = "join" /\ n.alone = r.alone /\ n.user = r.user
          /\ n.todo = r.todo \ {x}
      BY <1>1, <3>1 DEF U!Request
    <3>. HIDE DEF n
    <3>. QED
      BY <1>1, <3>2 DEF Sound
  <2>. QED
    BY <2>1, <2>2
<1>. HIDE DEF doc, n
<1>8. /\ roles' \in [Roles -> U!Role \cup {Null}] /\ roles'[x] = doc /\ doc # Null
      /\ \A y \in Roles \ {x} : roles'[y] = roles[y]
      /\ MadeRoles \subseteq MadeRoles' /\ mixed' \subseteq Roles
      /\ strangers \subseteq strangers'
  BY <1>2, <1>4, <1>5, <1>6, UTypes DEF DocsTyped, MadeRoles
<1>13. strangers' \subseteq Roles \X People
  BY <1>1, <1>2, <1>4, <1>6 DEF DocsTyped, U!Request
<1>9. DocsTyped'
  BY <1>2, <1>6, <1>8, <1>13 DEF DocsTyped
<1>10. /\ MadeUsers' = MadeUsers /\ MadeTokens' = MadeTokens /\ MadeEntries' = MadeEntries
  BY <1>6 DEF MadeUsers, MadeTokens, MadeEntries
<1>11. Moves(q, n)
  <2>1. Sound(n, MadeUsers', MadeTokens', MadeRoles', MadeEntries')
    BY <1>7, <1>8, <1>10 DEF Sound
  <2>. QED
    BY <1>1, <1>6, <1>7, <2>1 DEF Moves
<1>12. \/ ~U!LiveRole(x)'
       \/ \A u \in roles'[x].users : \/ u \in U!LiveUsers \/ U!Guest(u)
                                     \/ U!LiveRole(x) /\ u \in roles[x].users
  BY <1>1, <1>4, <1>5, <1>8 DEF U!LiveRole, U!Guest, MadeUsers
<1>. QED
  BY <1>1, <1>4, <1>6, <1>8, <1>9, <1>10, <1>11, <1>12, RoleWritten

\* The end of deleteUser: the user is in no live role any more.
LEMMA PullRolesKeeps ==
    ASSUME AccountsInv, NEW q \in Requests, U!PullRoles(q)
    PROVE  AccountsInv'
<1>. DEFINE r == req[q]
<1>1. /\ r \in U!Request /\ r.pc = "pull"
      /\ \A x \in MadeRoles : roles[x] \in U!Role
      /\ req \in [Requests -> U!Request]
  BY AtStep DEF U!PullRoles, U!At
<1>2. DocsTyped
  BY DEF AccountsInv, AccountsTyped
<1>3. /\ UNCHANGED <<users, tokens, drives, configs, entries, mailed, secrets, resets, unpulled,
                     begun, faults>>
      /\ req' = [req EXCEPT ![q] = U!Idle]
      /\ roles' = [x \in Roles |-> IF U!LiveRole(x)
                                   THEN [roles[x] EXCEPT !.users = @ \ {r.user}]
                                   ELSE roles[x]]
      /\ mixed \subseteq mixed' /\ mixed' \subseteq Roles
      /\ strangers' = strangers \cup ({x \in Roles : U!LiveRole(x)} \X r.strange)
  BY <1>2 DEF U!PullRoles, U!End, U!Goto, U!Note, DocsTyped
<1>4. ASSUME NEW x \in Roles, U!LiveRole(x)
      PROVE  /\ roles'[x] \in U!Role /\ roles'[x].users = roles[x].users \ {r.user}
  <2>1. roles[x] \in U!Role
    BY <1>1, <1>4 DEF U!LiveRole, MadeRoles
  <2>2. roles'[x] = [roles[x] EXCEPT !.users = roles[x].users \ {r.user}]
    BY <1>3, <1>4, <2>1 DEF U!Role
  <2>. QED
    BY <2>1, <2>2 DEF U!Role
<1>5. \A x \in Roles : ~U!LiveRole(x) => roles'[x] = roles[x]
  BY <1>3
<1>6. roles' \in [Roles -> U!Role \cup {Null}] /\ MadeRoles \subseteq MadeRoles'
  <2>1. roles' = [x \in Roles |-> roles'[x]]
    BY <1>3
  <2>2. \A x \in Roles : roles'[x] \in U!Role \cup {Null}
    BY <1>2, <1>4, <1>5 DEF DocsTyped
  <2>3. MadeRoles \subseteq MadeRoles'
    BY <1>4, <1>5, UTypes DEF MadeRoles
  <2>. QED
    BY <2>1, <2>2, <2>3
<1>7. DocsTyped'
  <2>1. strangers' \subseteq Roles \X People
    BY <1>1, <1>2, <1>3 DEF DocsTyped, U!Request
  <2>. QED
    BY <1>2, <1>3, <1>6, <2>1 DEF DocsTyped
<1>8. Lasts
  BY <1>3, <1>6, <1>7 DEF Lasts, MadeUsers, MadeTokens, MadeEntries
<1>9. Moves(q, U!Idle)
  BY <1>1, <1>3, UTypes DEF Moves
<1>10. ASSUME NEW x \in Roles, U!LiveRole(x)', NEW u \in roles'[x].users \ U!LiveUsers'
       PROVE  \/ u \in unpulled' \/ x \in mixed' \/ U!Guest(u)' \/ <<x, u>> \in strangers'
              \/ \E p \in Requests : U!At(p, "pull")' /\ req'[p].user = u
  <2>1. U!LiveRole(x)
    BY <1>5, <1>10 DEF U!LiveRole
  <2>2. u \in roles[x].users \ U!LiveUsers /\ u # r.user
    BY <1>3, <1>4, <1>10, <2>1 DEF U!LiveUsers, U!Live
  <2>3. \/ u \in unpulled \/ x \in mixed \/ U!Guest(u) \/ <<x, u>> \in strangers
        \/ \E p \in Requests : U!At(p, "pull") /\ req[p].user = u
    BY <2>1, <2>2 DEF AccountsInv, U!RolesListLive
  <2>. QED
    BY <1>1, <1>3, <2>2, <2>3 DEF U!At, U!Guest
<1>11. U!RolesListLive'
  BY <1>10 DEF U!RolesListLive
<1>. QED
  BY <1>3, <1>8, <1>9, <1>11, MovesKeeps, TokensSame DEF AccountsInv

\* The same request, alone or not.
LEMMA Overlapped ==
    ASSUME NEW r \in U!Request, NEW b \in BOOLEAN, NEW us, NEW ts, NEW rs, NEW es,
           Sound(r, us, ts, rs, es)
    PROVE  LET n == [r EXCEPT !.alone = b] IN
           /\ n \in U!Request /\ n.alone = b /\ n.pc = r.pc /\ n.user = r.user
           /\ n.list = r.list /\ n.strange = r.strange /\ n.role = r.role
           /\ Sound(n, us, ts, rs, es)
<1>. DEFINE n == [r EXCEPT !.alone = b]
<1>1. /\ n \in U!Request /\ n.pc = r.pc /\ n.user = r.user /\ n.name = r.name
      /\ n.mail = r.mail /\ n.token = r.token /\ n.role = r.role /\ n.todo = r.todo
      /\ n.entry = r.entry /\ n.label = r.label /\ n.alone = b /\ n.list = r.list
      /\ n.strange = r.strange
  BY DEF U!Request
<1>. HIDE DEF n
<1>2. Sound(n, us, ts, rs, es)
  BY <1>1 DEF Sound
<1>. QED
  BY <1>1, <1>2 DEF n

\* A request begins, and no other one is alone any more.
LEMMA CallBegins ==
    ASSUME AccountsInv, NEW q \in Requests, NEW r, U!Begin(q, r), r.pc # "idle",
           Sound(r, MadeUsers, MadeTokens, MadeRoles, MadeEntries),
           r.pc = "addrole" => r.list \subseteq U!LiveUsers \cup r.strange,
           r.pc = "setrole" => \/ r.list = roles[r.role].users
                               \/ r.list \subseteq U!LiveUsers \cup r.strange,
           r.pc = "join" => users[r.user].guest
    PROVE  AccountsInv'
<1>. DEFINE b == \A o \in Requests : req[o].pc = "idle"
            n(p) == IF p = q THEN r ELSE req[p]
            a(p) == IF p = q THEN b ELSE FALSE
<1>1. /\ UNCHANGED <<users, tokens, drives, configs, roles, entries, mailed, secrets, faults,
                     resets, unpulled, mixed, strangers>>
      /\ begun' = begun + 1 /\ req[q].pc = "idle"
      /\ req' = [p \in Requests |-> [n(p) EXCEPT !.alone = a(p)]]
  <2>1. \A p \in Requests : [n(p) EXCEPT !.alone = a(p)] =
            IF p = q THEN [r EXCEPT !.alone = b] ELSE [req[p] EXCEPT !.alone = FALSE]
    OBVIOUS
  <2>. QED
    BY <2>1, Zenon DEF U!Begin, U!MayBegin, U!docs
<1>2. DocsTyped /\ DocsTyped'
  BY <1>1 DEF AccountsInv, AccountsTyped, DocsTyped
<1>3. /\ MadeUsers' = MadeUsers /\ MadeTokens' = MadeTokens /\ MadeRoles' = MadeRoles
      /\ MadeEntries' = MadeEntries /\ U!LiveUsers' = U!LiveUsers
      /\ \A x \in Roles : U!LiveRole(x)' <=> U!LiveRole(x)
      /\ \A u : U!Guest(u)' <=> U!Guest(u)
  BY <1>1 DEF MadeUsers, MadeTokens, MadeRoles, MadeEntries, U!LiveUsers, U!Live, U!LiveRole,
     U!Guest
<1>4. ASSUME NEW p \in Requests
      PROVE  /\ n(p) \in U!Request /\ Sound(n(p), MadeUsers, MadeTokens, MadeRoles, MadeEntries)
             /\ a(p) \in BOOLEAN
  BY AtStep DEF Sound
<1>. HIDE DEF n, a
<1>5. ASSUME NEW p \in Requests
      PROVE  /\ req'[p] \in U!Request /\ req'[p].alone = a(p) /\ req'[p].pc = n(p).pc
             /\ req'[p].user = n(p).user /\ req'[p].list = n(p).list
             /\ req'[p].strange = n(p).strange /\ req'[p].role = n(p).role
             /\ Sound(req'[p], MadeUsers, MadeTokens, MadeRoles, MadeEntries)
  <2>1. req'[p] = [n(p) EXCEPT !.alone = a(p)]
    BY <1>1
  <2>. QED
    BY <1>4, <2>1, Overlapped
<1>6. AccountsTyped'
  BY <1>1, <1>2, <1>3, <1>5 DEF AccountsTyped
<1>7. TokensOnce'
  BY <1>1, TokensSame DEF AccountsInv
<1>8. ASSUME NEW p \in Requests, req'[p].alone
      PROVE  AloneOK(p)'
  <2>1. p = q /\ b
    BY <1>5, <1>8 DEF a
  <2>2. \A o \in Requests \ {p} : req'[o].pc = "idle"
    BY <1>5, <2>1 DEF n
  <2>3. /\ req'[p].pc = r.pc /\ req'[p].list = r.list /\ req'[p].role = r.role
        /\ req'[p].strange = r.strange
    BY <1>5, <2>1 DEF n
  <2>. QED
    BY <1>1, <1>3, <2>2, <2>3 DEF AloneOK
<1>9. ASSUME NEW p \in Requests, req'[p].pc = "join"
      PROVE  users'[req'[p].user].guest
  <2>1. /\ req'[p].pc = n(p).pc /\ req'[p].user = n(p).user /\ users' = users
    BY <1>1, <1>5, Zenon
  <2>2. CASE p = q
    <3>1. n(p) = r
      BY <2>2 DEF n
    <3>. QED
      BY <1>9, <2>1, <3>1
  <2>3. CASE p # q
    <3>1. n(p) = req[p]
      BY <2>3 DEF n
    <3>2. req[p].pc = "join" => users[req[p].user].guest
      BY Zenon DEF AccountsInv
    <3>. QED
      BY <1>9, <2>1, <3>1, <3>2
  <2>. QED
    BY <2>2, <2>3
<1>10. ASSUME NEW x \in Roles, U!LiveRole(x)', NEW u \in roles'[x].users \ U!LiveUsers'
       PROVE  \/ u \in unpulled' \/ x \in mixed' \/ U!Guest(u)' \/ <<x, u>> \in strangers'
              \/ \E p \in Requests : U!At(p, "pull")' /\ req'[p].user = u
  <2>1. \/ u \in unpulled \/ x \in mixed \/ U!Guest(u) \/ <<x, u>> \in strangers
        \/ \E p \in Requests : U!At(p, "pull") /\ req[p].user = u
    BY <1>1, <1>3, <1>10 DEF AccountsInv, U!RolesListLive
  <2>2. ASSUME NEW p \in Requests, U!At(p, "pull"), req[p].user = u
        PROVE  U!At(p, "pull")' /\ req'[p].user = u
    <3>1. req[p].pc = "pull" /\ p # q
      BY <1>1, <2>2 DEF U!At
    <3>2. n(p) = req[p]
      BY <3>1 DEF n
    <3>3. req'[p].pc = req[p].pc /\ req'[p].user = req[p].user
      BY <1>5, <3>2, Zenon
    <3>. QED
      BY <2>2, <3>1, <3>3 DEF U!At
  <2>. QED
    BY <1>1, <1>3, <2>1, <2>2
<1>. QED
  BY <1>6, <1>7, <1>8, <1>9, <1>10 DEF AccountsInv, U!RolesListLive

\* What is asked about a user.
LEMMA UserAsked ==
    ASSUME AccountsInv, NEW q \in Requests, U!AskUser(q)
    PROVE  AccountsInv'
<1>1. /\ DocsTyped /\ U!Idle \in U!Request
      /\ \A u \in People : users[u] \in U!User \cup {Null}
      /\ \A t \in Tokens : tokens[t] \in U!Token \cup {Null}
  BY UTypes DEF AccountsInv, AccountsTyped, DocsTyped
<1>2. ASSUME NEW n \in Names, NEW m \in Mails, NEW g \in BOOLEAN, U!CreateUser(q, n, m, g)
      PROVE  AccountsInv'
  <2>. DEFINE r == [U!Idle EXCEPT !.pc = "user", !.name = n, !.mail = m, !.guest = g]
  <2>1. /\ r \in U!Request /\ r.pc = "user" /\ r.name = n /\ r.mail = m /\ r.todo = {}
    BY DEF U!Idle, U!Request, U!Steps, U!Maybe, U!Kinds
  <2>2. U!Begin(q, r)
    BY <1>2 DEF U!CreateUser
  <2>. HIDE DEF r
  <2>3. Sound(r, MadeUsers, MadeTokens, MadeRoles, MadeEntries)
    BY <2>1 DEF Sound
  <2>. QED
    BY <2>1, <2>2, <2>3, CallBegins
<1>3. ASSUME NEW u \in People, NEW n \in U!Maybe(Names), NEW m \in U!Maybe(Mails),
             NEW c \in BOOLEAN, U!EditUser(q, u, n, m, c)
      PROVE  AccountsInv'
  <2>. DEFINE s == IF c THEN 1 ELSE 0
              r == [U!Idle EXCEPT !.pc = "set", !.user = u, !.name = n, !.mail = m, !.secret = s]
  <2>1. /\ r \in U!Request /\ r.pc = "set" /\ r.user = u /\ r.todo = {}
    BY DEF U!Idle, U!Request, U!Steps, U!Maybe, U!Kinds
  <2>2. U!Begin(q, r) /\ u \in MadeUsers
    BY <1>3 DEF U!EditUser, U!Live, MadeUsers
  <2>. HIDE DEF r
  <2>3. Sound(r, MadeUsers, MadeTokens, MadeRoles, MadeEntries)
    BY <2>1, <2>2 DEF Sound
  <2>. QED
    BY <2>1, <2>2, <2>3, CallBegins
<1>4. ASSUME NEW u \in People, U!DeleteUser(q, u)
      PROVE  AccountsInv'
  <2>. DEFINE r == [U!Idle EXCEPT !.pc = "mark", !.user = u]
  <2>1. /\ r \in U!Request /\ r.pc = "mark" /\ r.user = u /\ r.todo = {}
    BY DEF U!Idle, U!Request, U!Steps, U!Maybe, U!Kinds
  <2>2. U!Begin(q, r) /\ u \in MadeUsers
    BY <1>4 DEF U!DeleteUser, U!Live, MadeUsers
  <2>. HIDE DEF r
  <2>3. Sound(r, MadeUsers, MadeTokens, MadeRoles, MadeEntries)
    BY <2>1, <2>2 DEF Sound
  <2>. QED
    BY <2>1, <2>2, <2>3, CallBegins
<1>5. ASSUME NEW u \in People, U!RequestReset(q, u)
      PROVE  AccountsInv'
  <2>. DEFINE m == users[u].mail
              r == [U!Idle EXCEPT !.pc = "invalidate", !.user = u, !.mail = m]
  <2>1. u \in MadeUsers /\ m \in Mails /\ U!Begin(q, r)
    BY <1>1, <1>5 DEF U!RequestReset, U!Live, MadeUsers, U!User
  <2>2. /\ r \in U!Request /\ r.pc = "invalidate" /\ r.user = u /\ r.mail = m /\ r.todo = {}
    BY <2>1 DEF U!Idle, U!Request, U!Steps, U!Maybe, U!Kinds
  <2>. HIDE DEF r
  <2>3. Sound(r, MadeUsers, MadeTokens, MadeRoles, MadeEntries)
    BY <2>1, <2>2 DEF Sound
  <2>. QED
    BY <2>1, <2>2, <2>3, CallBegins
<1>6. ASSUME NEW t \in Tokens, U!UseLink(q, t)
      PROVE  AccountsInv'
  <2>. DEFINE u == tokens[t].user
              r == [U!Idle EXCEPT !.pc = "reset", !.user = u, !.token = t]
  <2>1. t \in MadeTokens /\ u \in MadeUsers /\ u \in People /\ U!Begin(q, r)
    BY <1>1, <1>6 DEF U!UseLink, U!Open, U!Live, MadeTokens, MadeUsers, U!Token
  <2>2. /\ r \in U!Request /\ r.pc = "reset" /\ r.user = u /\ r.token = t /\ r.todo = {}
    BY <2>1 DEF U!Idle, U!Request, U!Steps, U!Maybe, U!Kinds
  <2>. HIDE DEF r
  <2>3. Sound(r, MadeUsers, MadeTokens, MadeRoles, MadeEntries)
    BY <2>1, <2>2 DEF Sound
  <2>. QED
    BY <2>1, <2>2, <2>3, CallBegins
<1>. QED
  BY <1>2, <1>3, <1>4, <1>5, <1>6 DEF U!AskUser

\* What is asked about a role.
LEMMA RoleAsked ==
    ASSUME AccountsInv, NEW q \in Requests, U!AskRole(q)
    PROVE  AccountsInv'
<1>1. /\ DocsTyped /\ U!LiveUsers \subseteq People
      /\ \A x \in Roles : roles[x] \in U!Role \cup {Null}
  BY DEF AccountsInv, AccountsTyped, DocsTyped, U!LiveUsers
<1>2. ASSUME NEW list \in SUBSET People, NEW g \in BOOLEAN, U!CreateRole(q, list, g)
      PROVE  AccountsInv'
  <2>. DEFINE r == [U!Idle EXCEPT !.pc = "addrole", !.list = list,
                                  !.strange = list \ U!LiveUsers, !.guest = g]
  <2>1. /\ r \in U!Request /\ r.pc = "addrole" /\ r.list = list /\ r.todo = {}
        /\ r.strange = list \ U!LiveUsers
    BY <1>1 DEF U!Idle, U!Request, U!Steps, U!Maybe, U!Kinds
  <2>2. U!Begin(q, r)
    BY <1>2 DEF U!CreateRole
  <2>. HIDE DEF r
  <2>3. Sound(r, MadeUsers, MadeTokens, MadeRoles, MadeEntries)
    BY <2>1 DEF Sound
  <2>. QED
    BY <2>1, <2>2, <2>3, CallBegins
<1>3. ASSUME NEW x \in Roles, NEW list \in U!Maybe(SUBSET People), U!EditRole(q, x, list)
      PROVE  AccountsInv'
  <2>. DEFINE l == IF list = Null THEN roles[x].users ELSE list
              s == IF list = Null THEN {} ELSE list \ U!LiveUsers
              r == [U!Idle EXCEPT !.pc = "setrole", !.role = x, !.list = l, !.strange = s]
  <2>1. /\ x \in MadeRoles /\ U!Begin(q, r)
        /\ l = roles[x].users \/ l \subseteq U!LiveUsers \cup s
        /\ l \subseteq People /\ s \subseteq People
    BY <1>1, <1>3 DEF U!EditRole, U!LiveRole, MadeRoles, U!Maybe, U!Role
  <2>. HIDE DEF l, s
  <2>2. /\ r \in U!Request /\ r.pc = "setrole" /\ r.role = x /\ r.list = l /\ r.todo = {}
        /\ r.strange = s
    BY <2>1 DEF U!Idle, U!Request, U!Steps, U!Maybe, U!Kinds
  <2>. HIDE DEF r
  <2>3. Sound(r, MadeUsers, MadeTokens, MadeRoles, MadeEntries)
    BY <2>1, <2>2 DEF Sound
  <2>. QED
    BY <2>1, <2>2, <2>3, CallBegins
<1>4. ASSUME NEW x \in Roles, U!DeleteRole(q, x)
      PROVE  AccountsInv'
  <2>. DEFINE r == [U!Idle EXCEPT !.pc = "droprole", !.role = x]
  <2>1. /\ r \in U!Request /\ r.pc = "droprole" /\ r.role = x /\ r.todo = {}
    BY DEF U!Idle, U!Request, U!Steps, U!Maybe, U!Kinds
  <2>2. U!Begin(q, r) /\ x \in MadeRoles
    BY <1>4 DEF U!DeleteRole, U!LiveRole, MadeRoles
  <2>. HIDE DEF r
  <2>3. Sound(r, MadeUsers, MadeTokens, MadeRoles, MadeEntries)
    BY <2>1, <2>2 DEF Sound
  <2>. QED
    BY <2>1, <2>2, <2>3, CallBegins
<1>5. ASSUME NEW u \in People, U!AddGuestUser(q, u)
      PROVE  AccountsInv'
  <2>. DEFINE guests == {x \in Roles : U!LiveRole(x) /\ roles[x].guest}
              r == [U!Idle EXCEPT !.pc = "join", !.user = u, !.todo = guests]
  <2>1. /\ u \in MadeUsers /\ users[u].guest /\ U!Begin(q, r)
        /\ guests \subseteq MadeRoles /\ guests \subseteq Roles
    BY <1>5 DEF U!AddGuestUser, U!Guest, U!LiveRole, MadeUsers, MadeRoles
  <2>. HIDE DEF guests
  <2>2. /\ r \in U!Request /\ r.pc = "join" /\ r.user = u /\ r.todo = guests
    BY <2>1 DEF U!Idle, U!Request, U!Steps, U!Maybe, U!Kinds
  <2>. HIDE DEF r
  <2>3. Sound(r, MadeUsers, MadeTokens, MadeRoles, MadeEntries)
    BY <2>1, <2>2 DEF Sound
  <2>. QED
    BY <2>1, <2>2, <2>3, CallBegins
<1>. QED
  BY <1>2, <1>3, <1>4, <1>5 DEF U!AskRole

\* What is asked about an entry of a register.
LEMMA EntryAsked ==
    ASSUME AccountsInv, NEW q \in Requests,
           U!AskOrganisation(q) \/ U!AskDomain(q) \/ U!AskPubkey(q)
    PROVE  AccountsInv'
<1>1. ASSUME NEW k \in U!Kinds, NEW l \in Labels, U!CreateEntry(q, k, l)
      PROVE  AccountsInv'
  <2>. DEFINE r == [U!Idle EXCEPT !.pc = "enter", !.kind = k, !.label = l]
  <2>1. /\ r \in U!Request /\ r.pc = "enter" /\ r.label = l /\ r.todo = {}
    BY DEF U!Idle, U!Request, U!Steps, U!Maybe, U!Kinds
  <2>2. U!Begin(q, r)
    BY <1>1 DEF U!CreateEntry
  <2>. HIDE DEF r
  <2>3. Sound(r, MadeUsers, MadeTokens, MadeRoles, MadeEntries)
    BY <2>1 DEF Sound
  <2>. QED
    BY <2>1, <2>2, <2>3, CallBegins
<1>2. ASSUME NEW e \in Entries, NEW k \in U!Kinds, NEW l \in Labels, U!EditEntry(q, e, k, l)
      PROVE  AccountsInv'
  <2>. DEFINE r == [U!Idle EXCEPT !.pc = "relabel", !.entry = e, !.label = l]
  <2>1. /\ r \in U!Request /\ r.pc = "relabel" /\ r.entry = e /\ r.label = l /\ r.todo = {}
    BY DEF U!Idle, U!Request, U!Steps, U!Maybe, U!Kinds
  <2>2. U!Begin(q, r) /\ e \in MadeEntries
    BY <1>2 DEF U!EditEntry, U!LiveEntry, MadeEntries
  <2>. HIDE DEF r
  <2>3. Sound(r, MadeUsers, MadeTokens, MadeRoles, MadeEntries)
    BY <2>1, <2>2 DEF Sound
  <2>. QED
    BY <2>1, <2>2, <2>3, CallBegins
<1>3. ASSUME NEW e \in Entries, NEW k \in U!Kinds, U!DeleteEntry(q, e, k)
      PROVE  AccountsInv'
  <2>. DEFINE r == [U!Idle EXCEPT !.pc = "unlist", !.entry = e]
  <2>1. /\ r \in U!Request /\ r.pc = "unlist" /\ r.entry = e /\ r.todo = {}
    BY DEF U!Idle, U!Request, U!Steps, U!Maybe, U!Kinds
  <2>2. U!Begin(q, r) /\ e \in MadeEntries
    BY <1>3 DEF U!DeleteEntry, U!LiveEntry, MadeEntries
  <2>. HIDE DEF r
  <2>3. Sound(r, MadeUsers, MadeTokens, MadeRoles, MadeEntries)
    BY <2>1, <2>2 DEF Sound
  <2>. QED
    BY <2>1, <2>2, <2>3, CallBegins
<1>4. {"organisation", "domain", "pubkey"} \subseteq U!Kinds
  BY DEF U!Kinds
<1>. QED
  BY <1>1, <1>2, <1>3, <1>4 DEF U!AskOrganisation, U!AskDomain, U!AskPubkey, U!CreateOrganisation,
     U!CreateDomain, U!RegisterPubkey, U!EditOrganisation, U!EditDomain, U!DeleteOrganisation,
     U!DeleteDomain, U!DeletePubkey

\* A request fails, or all do: the user of a deletion under way is remembered.
LEMMA FailuresKeep ==
    ASSUME AccountsInv, U!Restart \/ \E q \in Requests : U!Fail(q)
    PROVE  AccountsInv'
<1>1. PICK dead \in SUBSET Requests :
        /\ \A p \in Requests : req'[p] = IF p \in dead THEN U!Idle ELSE req[p]
        /\ req' = [p \in Requests |-> req'[p]]
        /\ \A p \in dead : req[p].pc = "pull" => req[p].user \in unpulled'
        /\ \A u \in unpulled' : \/ u \in unpulled
                                \/ \E p \in dead : req[p].pc = "pull" /\ u = req[p].user
        /\ unpulled \subseteq unpulled'
  <2>1. req = [p \in Requests |-> req[p]]
    BY DEF AccountsInv, AccountsTyped
  <2>2. CASE U!Restart
    <3>1. WITNESS Requests \in SUBSET Requests
    <3>. QED
      BY <2>2 DEF U!Restart, U!Deleting
  <2>3. ASSUME NEW q \in Requests, U!Fail(q)
        PROVE  \E dead \in SUBSET Requests :
                 /\ \A p \in Requests : req'[p] = IF p \in dead THEN U!Idle ELSE req[p]
                 /\ req' = [p \in Requests |-> req'[p]]
                 /\ \A p \in dead : req[p].pc = "pull" => req[p].user \in unpulled'
                 /\ \A u \in unpulled' : \/ u \in unpulled
                                         \/ \E p \in dead : req[p].pc = "pull" /\ u = req[p].user
                 /\ unpulled \subseteq unpulled'
    <3>1. WITNESS {q} \in SUBSET Requests
    <3>. QED
      BY <2>1, <2>3 DEF U!Fail, U!Deleting
  <2>. QED
    BY <2>2, <2>3
<1>2. /\ UNCHANGED <<users, tokens, drives, configs, roles, entries, mailed, secrets, begun,
                     resets, mixed, strangers>>
      /\ faults' = faults + 1
  BY DEF U!Restart, U!Fail, U!docs
<1>3. /\ DocsTyped /\ \A p \in Requests : req[p] \in U!Request
      /\ \A p \in Requests : Sound(req[p], MadeUsers, MadeTokens, MadeRoles, MadeEntries)
  BY AtStep DEF AccountsInv, AccountsTyped
<1>4. unpulled' \subseteq People
  <2>. SUFFICES ASSUME NEW u \in unpulled'
                PROVE  u \in People
    OBVIOUS
  <2>. QED
    BY <1>1, <1>3 DEF DocsTyped, Sound, MadeUsers
<1>5. DocsTyped'
  BY <1>2, <1>3, <1>4 DEF DocsTyped
<1>6. /\ MadeUsers' = MadeUsers /\ MadeTokens' = MadeTokens /\ MadeRoles' = MadeRoles
      /\ MadeEntries' = MadeEntries /\ U!LiveUsers' = U!LiveUsers
      /\ \A x \in Roles : U!LiveRole(x)' <=> U!LiveRole(x)
      /\ \A u : U!Guest(u)' <=> U!Guest(u)
  BY <1>2 DEF MadeUsers, MadeTokens, MadeRoles, MadeEntries, U!LiveUsers, U!Live, U!LiveRole,
     U!Guest
<1>7. \A p \in Requests : Sound(req'[p], MadeUsers, MadeTokens, MadeRoles, MadeEntries)
                          /\ req'[p] \in U!Request
  BY <1>1, <1>3, UTypes
<1>8. AccountsTyped'
  BY <1>1, <1>5, <1>6, <1>7 DEF AccountsTyped
<1>9. TokensOnce'
  BY <1>2, TokensSame DEF AccountsInv
<1>10. \A p \in Requests : req'[p].alone => AloneOK(p)'
  BY <1>1, <1>2, <1>6, UTypes DEF AccountsInv, AloneOK
<1>11. \A p \in Requests : req'[p].pc = "join" => users'[req'[p].user].guest
  BY <1>1, <1>2, UTypes DEF AccountsInv
<1>12. ASSUME NEW x \in Roles, U!LiveRole(x)', NEW u \in roles'[x].users \ U!LiveUsers'
       PROVE  \/ u \in unpulled' \/ x \in mixed' \/ U!Guest(u)' \/ <<x, u>> \in strangers'
              \/ \E p \in Requests : U!At(p, "pull")' /\ req'[p].user = u
  <2>1. \/ u \in unpulled \/ x \in mixed \/ U!Guest(u) \/ <<x, u>> \in strangers
        \/ \E p \in Requests : U!At(p, "pull") /\ req[p].user = u
    BY <1>2, <1>6, <1>12 DEF AccountsInv, U!RolesListLive
  <2>2. ASSUME NEW p \in Requests, U!At(p, "pull"), req[p].user = u
        PROVE  u \in unpulled' \/ (U!At(p, "pull")' /\ req'[p].user = u)
    BY <1>1, <2>2 DEF U!At
  <2>. QED
    BY <1>1, <1>2, <1>6, <2>1, <2>2
<1>. QED
  BY <1>8, <1>9, <1>10, <1>11, <1>12 DEF AccountsInv, U!RolesListLive

\* An hour passes.
LEMMA AgeKeeps ==
    ASSUME AccountsInv, NEW t \in Tokens, U!Age(t)
    PROVE  AccountsInv'
<1>. DEFINE link == [tokens[t] EXCEPT !.old = TRUE]
<1>1. DocsTyped /\ tokens[t] \in U!Token /\ tokens[t] # Null
  BY DEF AccountsInv, AccountsTyped, DocsTyped, U!Age
<1>2. link \in U!Token /\ link.used = tokens[t].used
  BY <1>1 DEF U!Token
<1>3. /\ tokens' = [tokens EXCEPT ![t] = link]
      /\ UNCHANGED <<users, drives, configs, roles, entries, mailed, secrets, req, begun, faults,
                     resets, unpulled, mixed, strangers>>
  BY <1>1 DEF U!Age, DocsTyped
<1>. HIDE DEF link
<1>4. /\ tokens' \in [Tokens -> U!Token \cup {Null}] /\ MadeTokens' = MadeTokens
      /\ \A s \in Tokens : U!Open(s)' <=> U!Open(s)
      /\ \A s \in Tokens : tokens'[s] = Null <=> tokens[s] = Null
  BY <1>1, <1>2, <1>3, UTypes DEF DocsTyped, MadeTokens, U!Open
<1>5. DocsTyped'
  BY <1>1, <1>3, <1>4 DEF DocsTyped
<1>6. /\ MadeUsers' = MadeUsers /\ MadeRoles' = MadeRoles /\ MadeEntries' = MadeEntries
      /\ U!LiveUsers' = U!LiveUsers
  BY <1>3 DEF MadeUsers, MadeRoles, MadeEntries, U!LiveUsers, U!Live
<1>7. AccountsTyped'
  BY <1>3, <1>4, <1>5, <1>6 DEF AccountsInv, AccountsTyped
<1>8. TokensOnce'
  BY <1>3, <1>4 DEF AccountsInv, TokensOnce
<1>9. \A p \in Requests : req'[p].alone => AloneOK(p)'
  BY <1>3, <1>6 DEF AccountsInv, AloneOK
<1>10. U!RolesListLive'
  BY <1>3, <1>6 DEF AccountsInv, U!RolesListLive, U!LiveRole, U!Guest, U!At
<1>. QED
  BY <1>3, <1>7, <1>8, <1>9, <1>10 DEF AccountsInv

\* Every step of an account's life.
LEMMA AccountsStep == AccountsInv /\ [U!Next]_(U!vars) => AccountsInv'
<1>. SUFFICES ASSUME AccountsInv, [U!Next]_(U!vars)
              PROVE  AccountsInv'
  OBVIOUS
<1>1. ASSUME NEW q \in Requests, U!Step(q)
      PROVE  AccountsInv'
  BY <1>1, InsertUserKeeps, UserStepsKeep, SetUserKeeps, MarkUserKeeps, PullRolesKeeps,
     LinkStepsKeep, ResetSecretKeeps, RoleStepsKeep, JoinRoleKeeps, EntryStepsKeep DEF U!Step
<1>2. CASE UNCHANGED U!vars
  BY <1>2 DEF U!vars, U!docs, AccountsInv, AccountsTyped, DocsTyped, TokensOnce, AloneOK, MadeUsers,
     MadeTokens, MadeRoles, MadeEntries, U!RolesListLive, U!LiveRole, U!LiveUsers, U!Live, U!Open,
     U!Guest, U!At
<1>3. CASE U!Restart \/ \E q \in Requests : U!Fail(q)
  BY <1>3, FailuresKeep
<1>. QED
  BY <1>1, <1>2, <1>3, UserAsked, RoleAsked, EntryAsked, AgeKeeps DEF U!Next

\* It holds at the start, with the users the setup inserts.
LEMMA AccountsBegin == PartsInit /\ part = "accounts" => AccountsInv
<1>. SUFFICES ASSUME PartsInit, part = "accounts"
              PROVE  AccountsInv
  OBVIOUS
<1>1. U!Init
  BY Zenon DEF PartsInit
<1>2. users \in [People -> U!User \cup {Null}]
  <2>1. \A u \in Seeds : [name |-> SeedName[u], mail |-> SeedMail[u], guest |-> FALSE,
                          live |-> TRUE, secret |-> 1] \in U!User
    BY AccountsAssumption DEF U!ConstantsOK, U!User
  <2>. QED
    BY <1>1, <2>1 DEF U!Init
<1>3. DocsTyped
  BY <1>1, <1>2 DEF U!Init, DocsTyped
<1>4. AccountsTyped
  BY <1>1, <1>3, UTypes DEF U!Init, AccountsTyped
<1>5. TokensOnce
  BY <1>1 DEF U!Init, TokensOnce
<1>6. \A q \in Requests : req[q] = U!Idle
  BY <1>1 DEF U!Init
<1>7. U!RolesListLive
  BY <1>1 DEF U!Init, U!RolesListLive, U!LiveRole
<1>. QED
  BY <1>4, <1>5, <1>6, <1>7, UTypes DEF AccountsInv

\* As long as the accounts run.
LEMMA AccountsLast == PartsSpec => [](part = "accounts" => AccountsInv)
<1>. DEFINE Inv == part = "accounts" => AccountsInv
<1>1. PartsInit => Inv
  BY AccountsBegin
<1>2. Inv /\ [PartsNext]_PartsVars => Inv'
  <2>1. part = "accounts" /\ [PartsNext]_PartsVars => [U!Next]_(U!vars)
    BY Zenon DEF PartsNext, PartsVars, U!vars, U!docs, accounts
  <2>. QED
    BY <2>1, PartKept, AccountsStep
<1>. QED
  BY <1>1, <1>2, PTL DEF PartsSpec

\* A link resets a password once, although it is looked up by one call and marked
\* by another: two requests with one link, or a newer link asked for in between
\* (processResetPasswordRequest, userCore.ts).
THEOREM LinksResetOnce == PartsSpec => []ResetsOnce
<1>1. (part = "accounts" => AccountsInv) => ResetsOnce
  BY DEF ResetsOnce, U!ResetsOnce, AccountsInv, TokensOnce
<1>. QED
  BY <1>1, AccountsLast, PTL

\* A role lists one who is not live while the deletion is under way, after it died,
\* where requests overlapped, for a guest, or where the request that wrote the role
\* was given the id of one who was not live when it began, as nobody looks ids up
\* (deleteUser, createStudyRole, editStudyRole, addGuestUser).
THEOREM RolesKeepLive == PartsSpec => []RolesListLive
<1>1. (part = "accounts" => AccountsInv) => RolesListLive
  BY DEF RolesListLive, AccountsInv
<1>. QED
  BY <1>1, AccountsLast, PTL

-----------------------------------------------------------------------------
(* Enrolments: who was put on the list has a device of this machine, so that *)
(* nothing but what has not heard of it, or fails, takes the user off.       *)

\* A tab with an answer to act on has it, and a registration under way is some
\* user's.
Registrations == [step : {"none", "prompt", "known", "verified"}, user : B!Maybe(Everybody),
                  held : SUBSET Everybody, known : BOOLEAN]
Questions == [step : {"none", "asked", "answered"}, user : B!Maybe(Everybody), has : BOOLEAN]
FitRegistration == {r \in Registrations : r.step # "none" => r.user \in Everybody}
FitTab == {tab \in B!Tab : /\ tab.due => tab.cache[tab.credentials] # Null
                           /\ tab.registration \in FitRegistration}

EnrolmentsTyped ==
    /\ machines \in [Everybody -> B!Maybe(SUBSET B!Machines)]
    /\ session \in B!Maybe(Everybody)
    /\ stored \subseteq Everybody
    /\ tabs \in [Tabs -> FitTab]
    /\ enrolled \subseteq Everybody /\ missed \subseteq Everybody /\ unsaved \subseteq Everybody

EnrolmentsInv ==
    /\ EnrolmentsTyped
    /\ \A u \in enrolled : "here" \in B!DevicesOf(u)
    /\ B!StaysOffered

\* A tab whose list is written.
Written(tab, list) ==
    [tab EXCEPT !.credentials = list,
                !.due = IF list = tab.credentials THEN @
                        ELSE tab.page = "authenticate" /\ tab.cache[list] # Null]

\* What a tab is after a change of it.
LEMMA TabTypes ==
    /\ \A page \in B!Pages, list \in SUBSET Everybody, login \in B!Maybe(Everybody) :
          B!Loaded(page, list, login) \in FitTab
    /\ \A tab \in FitTab, page \in B!Pages : B!Moved(tab, page) \in FitTab
    /\ \A tab \in FitTab, list \in SUBSET Everybody : Written(tab, list) \in FitTab
    /\ \A tab \in FitTab, r \in FitRegistration : [tab EXCEPT !.registration = r] \in FitTab
    /\ \A tab \in FitTab, q \in Questions : [tab EXCEPT !.question = q] \in FitTab
    /\ B!NoRegistration \in FitRegistration /\ B!NoQuestion \in Questions
<1>1. B!NoRegistration \in FitRegistration /\ B!NoQuestion \in Questions
  <2>1. B!NoRegistration \in Registrations /\ B!NoQuestion \in Questions
    BY DEF B!NoRegistration, B!NoQuestion, B!Maybe, Registrations, Questions
  <2>2. B!NoRegistration.step = "none"
    BY DEF B!NoRegistration
  <2>. QED
    BY <2>1, <2>2 DEF FitRegistration
<1>2. [l \in SUBSET Everybody |-> Null] \in [SUBSET Everybody -> B!Maybe(SUBSET Everybody)]
  BY DEF B!Maybe
<1>3. ASSUME NEW page \in B!Pages, NEW list \in SUBSET Everybody, NEW login \in B!Maybe(Everybody)
      PROVE  B!Loaded(page, list, login) \in FitTab
  <2>1. B!Loaded(page, list, login) \in B!Tab
    BY <1>1, <1>2 DEF B!Loaded, B!Tab, FitRegistration, Registrations, Questions
  <2>2. /\ ~B!Loaded(page, list, login).due
        /\ B!Loaded(page, list, login).registration = B!NoRegistration
    BY DEF B!Loaded
  <2>. QED
    BY <1>1, <2>1, <2>2 DEF FitTab
<1>4. ASSUME NEW tab \in FitTab, NEW page \in B!Pages
      PROVE  B!Moved(tab, page) \in FitTab
  <2>. tab \in B!Tab /\ tab.registration \in FitRegistration
    BY DEF FitTab
  <2>1. B!Moved(tab, page) \in B!Tab
    BY <1>1 DEF B!Moved, B!Tab, Questions
  <2>2. B!Moved(tab, page).due => tab.cache[tab.credentials] # Null
    BY DEF B!Moved, B!Tab
  <2>3. /\ B!Moved(tab, page).cache = tab.cache
        /\ B!Moved(tab, page).credentials = tab.credentials
        /\ B!Moved(tab, page).registration = tab.registration
    BY DEF B!Moved, B!Tab
  <2>. QED
    BY <2>1, <2>2, <2>3 DEF FitTab
<1>5. ASSUME NEW tab \in FitTab, NEW list \in SUBSET Everybody
      PROVE  Written(tab, list) \in FitTab
  <2>1. tab \in B!Tab
    BY DEF FitTab
  <2>2. Written(tab, list) \in B!Tab
    BY <2>1 DEF Written, B!Tab
  <2>3. /\ Written(tab, list).credentials = list /\ Written(tab, list).cache = tab.cache
        /\ Written(tab, list).registration = tab.registration
        /\ Written(tab, list).due =
             IF list = tab.credentials THEN tab.due
             ELSE tab.page = "authenticate" /\ tab.cache[list] # Null
    BY <2>1 DEF Written, B!Tab
  <2>. QED
    BY <2>2, <2>3 DEF FitTab
<1>6. ASSUME NEW tab \in FitTab, NEW r \in FitRegistration
      PROVE  [tab EXCEPT !.registration = r] \in FitTab
  <2>1. tab \in B!Tab /\ r \in Registrations
    BY DEF FitTab, FitRegistration
  <2>2. [tab EXCEPT !.registration = r] \in B!Tab
    BY <2>1 DEF B!Tab, Registrations
  <2>. QED
    BY <2>1, <2>2 DEF FitTab, B!Tab
<1>7. ASSUME NEW tab \in FitTab, NEW q \in Questions
      PROVE  [tab EXCEPT !.question = q] \in FitTab
  <2>1. tab \in B!Tab
    BY DEF FitTab
  <2>2. [tab EXCEPT !.question = q] \in B!Tab
    BY <2>1 DEF B!Tab, Questions
  <2>. QED
    BY <2>1, <2>2 DEF FitTab, B!Tab
<1>. QED
  BY <1>1, <1>3, <1>4, <1>5, <1>6, <1>7

\* What a tab holds, before its answer is acted on and after.
LEMMA TabParts ==
    ASSUME NEW tab \in FitTab
    PROVE  /\ tab \in B!Tab /\ tab.page \in B!Pages /\ tab.credentials \in SUBSET Everybody
           /\ tab.registration \in FitRegistration /\ tab.registration \in Registrations
           /\ tab.question \in Questions
           /\ [tab EXCEPT !.due = FALSE] \in FitTab
           /\ [tab EXCEPT !.due = FALSE].credentials = tab.credentials
           /\ [tab EXCEPT !.due = FALSE].cache = tab.cache
<1>1. tab \in B!Tab /\ tab.registration \in FitRegistration
  BY DEF FitTab
<1>2. tab.page \in B!Pages /\ tab.credentials \in SUBSET Everybody
  BY <1>1 DEF B!Tab
<1>3. tab.question \in Questions
  BY <1>1 DEF B!Tab, Questions
<1>4. tab.registration \in Registrations
  BY <1>1 DEF FitRegistration
<1>5. PICK done \in B!Tab : done = [tab EXCEPT !.due = FALSE]
  BY <1>1 DEF B!Tab
<1>6. /\ ~done.due /\ done.credentials = tab.credentials /\ done.cache = tab.cache
      /\ done.registration = tab.registration
  BY <1>1, <1>5 DEF B!Tab
<1>7. done \in FitTab
  BY <1>1, <1>6 DEF FitTab
<1>. QED
  BY <1>1, <1>2, <1>3, <1>4, <1>5, <1>6, <1>7, Zenon

\* What the tabs, the session and the server hold.
LEMMA TabsKnown ==
    ASSUME EnrolmentsInv
    PROVE  /\ tabs \in [Tabs -> FitTab]
           /\ session \in B!Maybe(Everybody)
           /\ machines \in [Everybody -> B!Maybe(SUBSET B!Machines)]
           /\ \A t \in Tabs : tabs[t] \in FitTab
<1>1. /\ tabs \in [Tabs -> FitTab] /\ session \in B!Maybe(Everybody)
      /\ machines \in [Everybody -> B!Maybe(SUBSET B!Machines)]
  BY Zenon DEF EnrolmentsInv, EnrolmentsTyped
<1>2. \A t \in Tabs : tabs[t] \in FitTab
  BY <1>1
<1>. QED
  BY <1>1, <1>2, Zenon

\* A tab changes, and neither the list nor the devices do.
LEMMA TabChanges ==
    ASSUME EnrolmentsInv, NEW t \in Tabs, NEW tab \in FitTab, B!Becomes(t, tab),
           session' \in B!Maybe(Everybody),
           UNCHANGED <<machines, stored, enrolled, missed, unsaved>>
    PROVE  EnrolmentsInv'
BY DEF EnrolmentsInv, EnrolmentsTyped, B!Becomes, B!StaysOffered, B!DevicesOf

\* Devices come, or the one of this machine goes and its user with it.
LEMMA DevicesChange ==
    ASSUME EnrolmentsInv, tabs' \in [Tabs -> FitTab], 
           UNCHANGED <<session, stored, missed, unsaved>>,
           NEW u \in Everybody, NEW d \in SUBSET B!Machines,
           machines' = [machines EXCEPT ![u] = d],
           \/ B!DevicesOf(u) \subseteq d /\ enrolled' = enrolled
           \/ enrolled' = enrolled \ {u}
           \/ "here" \in d /\ enrolled' = enrolled
    PROVE  EnrolmentsInv'
<1>1. machines' \in [Everybody -> B!Maybe(SUBSET B!Machines)]
  BY DEF EnrolmentsInv, EnrolmentsTyped, B!Maybe
<1>2. /\ \A v \in Everybody : v # u => machines'[v] = machines[v]
      /\ machines'[u] = d /\ d # Null
  BY EnrolmentsAssumption DEF EnrolmentsInv, EnrolmentsTyped, B!ConstantsOK
<1>3. /\ \A v \in Everybody : v # u => B!DevicesOf(v)' = B!DevicesOf(v)
      /\ B!DevicesOf(u)' = d
  BY <1>2 DEF B!DevicesOf
<1>. QED
  BY <1>1, <1>3 DEF EnrolmentsInv, EnrolmentsTyped, B!StaysOffered

\* The list is written by a tab, or kept.
LEMMA ListChanges ==
    ASSUME EnrolmentsInv, NEW t \in Tabs, NEW tab \in FitTab, B!Becomes(t, tab),
           UNCHANGED <<session, machines>>, stored' \subseteq Everybody,
           enrolled' \subseteq Everybody,
           \A u \in enrolled' \ enrolled : "here" \in B!DevicesOf(u),
           missed' \subseteq Everybody, unsaved' \subseteq Everybody,
           enrolled' \subseteq stored' \cup missed' \cup unsaved'
    PROVE  EnrolmentsInv'
BY DEF EnrolmentsInv, EnrolmentsTyped, B!Becomes, B!StaysOffered, B!DevicesOf

\* A list is written, or refused: those on it, those who were due and not known, and those
\* who were off the list with a reason are accounted for.
LEMMA WriteKeeps ==
    ASSUME EnrolmentsInv, NEW t \in Tabs, NEW next \in FitTab, NEW list \in SUBSET Everybody,
           B!SetCredentials(t, next, list), UNCHANGED <<session, machines>>,
           NEW due \in SUBSET Everybody, NEW known, B!Misses(due, known),
           enrolled' \subseteq Everybody,
           \A u \in enrolled' \ enrolled : "here" \in B!DevicesOf(u),
           \A u \in enrolled' : \/ u \in list \/ u \in due \ known
                                \/ u \in missed \cup unsaved
    PROVE  EnrolmentsInv'
<1>1. /\ B!Becomes(t, Written(next, list))
      /\ stored' = list \/ stored' = stored
      /\ unsaved' = (unsaved \cup list) \ stored'
      /\ missed' = (missed \cup (due \ known)) \ stored'
  BY DEF B!SetCredentials, B!Misses, Written
<1>2. Written(next, list) \in FitTab
  BY TabTypes
<1>3. stored \subseteq Everybody /\ missed \subseteq Everybody /\ unsaved \subseteq Everybody
  BY DEF EnrolmentsInv, EnrolmentsTyped
<1>4. /\ stored' \subseteq Everybody /\ missed' \subseteq Everybody /\ unsaved' \subseteq Everybody
      /\ enrolled' \subseteq stored' \cup missed' \cup unsaved'
  BY <1>1, <1>3
<1>. QED
  BY <1>1, <1>2, <1>4, ListChanges

\* Pages, and who is logged in.
LEMMA PagesKeep ==
    ASSUME EnrolmentsInv, NEW t \in Tabs,
           \/ (\E page \in B!Pages : B!Open(t, page)) \/ B!Go(t) \/ B!WhoAmI(t) \/ B!LogOut(t)
           \/ \E u \in Everybody : B!LogIn(t, u) \/ B!Authenticate(t, u)
           \/ B!AskWebauthn(t) \/ B!Leave(t)
    PROVE  EnrolmentsInv'
<1>1. /\ tabs[t] \in FitTab /\ tabs[t] \in B!Tab /\ session \in B!Maybe(Everybody) /\ stored \in SUBSET Everybody
      /\ {} \in SUBSET Everybody /\ Null \in B!Maybe(Everybody)
      /\ "main" \in B!Pages /\ tabs[t].page \in B!Pages
      /\ tabs[t].credentials \in SUBSET Everybody
  BY DEF EnrolmentsInv, EnrolmentsTyped, B!Maybe, B!Pages, B!Tab, FitTab
<1>2. ASSUME NEW page \in B!Pages, B!Open(t, page)
      PROVE  EnrolmentsInv'
  BY <1>1, <1>2, TabTypes, TabChanges DEF B!Open
<1>3. CASE B!Go(t)
  <2>1. B!Leads(tabs[t]) \subseteq B!Pages
    BY <1>1 DEF B!Leads, B!Pages, B!Restricted
  <2>2. PICK page \in B!Pages : B!Becomes(t, B!Moved(tabs[t], page))
    BY <1>3, <2>1 DEF B!Go
  <2>3. B!Moved(tabs[t], page) \in FitTab
    BY <1>1, TabTypes
  <2>. QED
    BY <1>1, <1>3, <2>2, <2>3, TabChanges DEF B!Go
<1>4. CASE B!WhoAmI(t)
  <2>1. [tabs[t] EXCEPT !.login = session] \in FitTab
    BY <1>1 DEF B!Tab, FitTab
  <2>. QED
    BY <1>1, <1>4, <2>1, TabChanges DEF B!WhoAmI
<1>5. CASE B!LogOut(t)
  BY <1>1, <1>5, TabTypes, TabChanges DEF B!LogOut
<1>6. ASSUME NEW u \in Everybody, B!LogIn(t, u) \/ B!Authenticate(t, u)
      PROVE  EnrolmentsInv'
  <2>1. u \in B!Maybe(Everybody)
    BY DEF B!Maybe
  <2>2. PICK page \in B!Pages : B!Becomes(t, B!Loaded(page, stored, u))
    BY <1>1, <1>6 DEF B!LogIn, B!Authenticate
  <2>3. B!Loaded(page, stored, u) \in FitTab
    BY <1>1, <2>1, TabTypes
  <2>4. session' = u /\ UNCHANGED <<machines, stored, enrolled, missed, unsaved>>
    BY <1>6 DEF B!LogIn, B!Authenticate, B!WebauthnLogin
  <2>. QED
    BY <2>1, <2>2, <2>3, <2>4, TabChanges
<1>7. CASE B!AskWebauthn(t)
  <2>. DEFINE list == tabs[t].credentials
              answer == B!WithDevices(list)
  <2>1. answer \in B!Maybe(SUBSET Everybody)
    BY <1>1 DEF B!WithDevices, B!Maybe
  <2>2. tabs[t].cache \in [SUBSET Everybody -> B!Maybe(SUBSET Everybody)]
    BY <1>1 DEF B!Tab
  <2>. DEFINE filled == [tabs[t].cache EXCEPT ![list] = answer]
  <2>3. filled \in [SUBSET Everybody -> B!Maybe(SUBSET Everybody)]
    BY <1>1, <2>1, <2>2
  <2>6. filled[list] # Null
    <3>1. answer \in SUBSET Everybody
      BY <1>1 DEF B!WithDevices
    <3>2. \A s \in SUBSET Everybody : s # Null
      BY EnrolmentsAssumption DEF B!ConstantsOK
    <3>3. filled[list] = answer
      BY <1>1, <2>2
    <3>. HIDE DEF filled, answer
    <3>. QED
      BY <3>1, <3>2, <3>3
  <2>4. [tabs[t] EXCEPT !.cache = filled, !.due = TRUE] \in FitTab
    <3>. HIDE DEF filled
    <3>1. [tabs[t] EXCEPT !.cache = filled, !.due = TRUE] \in B!Tab
      BY <1>1, <2>3 DEF B!Tab
    <3>2. /\ [tabs[t] EXCEPT !.cache = filled, !.due = TRUE].cache = filled
          /\ [tabs[t] EXCEPT !.cache = filled, !.due = TRUE].credentials = list
          /\ [tabs[t] EXCEPT !.cache = filled, !.due = TRUE].registration = tabs[t].registration
      BY <1>1 DEF B!Tab
    <3>. QED
      BY <1>1, <2>6, <3>1, <3>2 DEF FitTab
  <2>5. [tabs[t] EXCEPT !.cache[list] = answer, !.due = TRUE]
            = [tabs[t] EXCEPT !.cache = filled, !.due = TRUE]
    BY <1>1 DEF B!Tab
  <2>. QED
    BY <1>1, <1>7, <2>4, <2>5, TabChanges DEF B!AskWebauthn
<1>8. CASE B!Leave(t)
  BY <1>1, <1>8, TabTypes, TabChanges DEF B!Leave
<1>. QED
  BY <1>2, <1>3, <1>4, <1>5, <1>6, <1>7, <1>8


\* The page to authenticate with gives the list up when nobody on it has a device.
LEMMA AnswerKeeps ==
    ASSUME EnrolmentsInv, NEW t \in Tabs, B!ActOnAnswer(t)
    PROVE  EnrolmentsInv'
<1>. DEFINE tab == [tabs[t] EXCEPT !.due = FALSE]
            answer == tab.cache[tab.credentials]
            list == IF answer = {} THEN {} ELSE tab.credentials
            next == IF answer = {} THEN B!Moved(tab, "main") ELSE [tab EXCEPT !.shown = answer]
<1>1. /\ tab \in FitTab /\ tab \in B!Tab /\ tab.credentials \in SUBSET Everybody
      /\ tabs[t] \in B!Tab /\ tab.credentials = tabs[t].credentials
      /\ tab.cache = tabs[t].cache
  <2>1. tabs[t] \in FitTab
    BY TabsKnown
  <2>2. /\ tabs[t] \in B!Tab /\ tab \in FitTab /\ tabs[t].credentials \in SUBSET Everybody
        /\ tab.credentials = tabs[t].credentials /\ tab.cache = tabs[t].cache
    BY <2>1, TabParts, Zenon
  <2>3. tab \in B!Tab
    BY <2>2, TabParts, Zenon
  <2>. QED
    BY <2>2, <2>3, Zenon
<1>2. CASE answer # {} /\ answer = tab.shown
  <2>1. B!Becomes(t, tab) /\ UNCHANGED <<stored, missed, unsaved, machines, session, enrolled>>
    BY <1>2, Zenon DEF B!ActOnAnswer
  <2>. QED
    BY <1>1, <2>1, TabChanges DEF EnrolmentsInv, EnrolmentsTyped
<1>3. CASE ~(answer # {} /\ answer = tab.shown)
  <2>. DEFINE known == tab.credentials \ (B!WithDevices(tab.credentials) \ answer)
  <2>1. /\ B!SetCredentials(t, next, list) /\ UNCHANGED <<machines, session, enrolled>>
        /\ B!Misses(stored, known)
    BY <1>3, Zenon DEF B!ActOnAnswer
  <2>3. tab.cache[tab.credentials] \in B!Maybe(SUBSET Everybody)
    BY <1>1 DEF B!Tab
  <2>4. CASE answer \in SUBSET Everybody
    <3>1. next \in FitTab /\ list \in SUBSET Everybody
      <4>. "main" \in B!Pages
        BY DEF B!Pages
      <4>1. B!Moved(tab, "main") \in FitTab
        BY <1>1, TabTypes
      <4>2. [tab EXCEPT !.shown = answer] \in FitTab
        BY <1>1, <2>4 DEF B!Tab, FitTab
      <4>. QED
        BY <1>1, <4>1, <4>2
    <3>2. ASSUME NEW u \in enrolled
          PROVE  \/ u \in list \/ u \in stored \ known \/ u \in missed \cup unsaved
      <4>1. u \in stored \cup missed \cup unsaved /\ B!DevicesOf(u) # {}
        BY DEF EnrolmentsInv, B!StaysOffered
      <4>2. ASSUME u \in known
            PROVE  u \in list
        <5>1. u \in tab.credentials /\ u \in B!WithDevices(tab.credentials)
          BY <4>1, <4>2 DEF B!WithDevices
        <5>2. u \in answer
          BY <4>2, <5>1
        <5>. QED
          BY <5>1, <5>2
      <4>. QED
        BY <4>1, <4>2
    <3>3. enrolled \subseteq Everybody /\ stored \in SUBSET Everybody
      BY DEF EnrolmentsInv, EnrolmentsTyped
    <3>. HIDE DEF next, list, known
    <3>. QED
      BY <2>1, <3>1, <3>2, <3>3, WriteKeeps
  <2>5. answer # Null
    BY <1>1 DEF B!ActOnAnswer, EnrolmentsInv, EnrolmentsTyped, FitTab
  <2>. QED
    BY <2>3, <2>4, <2>5 DEF B!Maybe
<1>. QED
  BY <1>2, <1>3

\* A registration, up to the answer of its verification.
LEMMA RegisterKeeps ==
    ASSUME EnrolmentsInv, NEW t \in Tabs, B!Register(t) \/ B!Prompted(t)
    PROVE  EnrolmentsInv'
<1>. DEFINE r == tabs[t].registration
<1>1. /\ tabs[t] \in FitTab /\ tabs[t] \in B!Tab /\ r \in FitRegistration /\ r \in Registrations
      /\ tabs \in [Tabs -> FitTab] /\ session \in B!Maybe(Everybody)
      /\ machines \in [Everybody -> B!Maybe(SUBSET B!Machines)]
      /\ tabs[t].credentials \in SUBSET Everybody
      /\ B!NoRegistration \in FitRegistration
  <2>1. tabs[t] \in FitTab
    BY TabsKnown
  <2>. QED
    BY <2>1, TabTypes, TabsKnown, TabParts, Zenon
<1>2. \A v \in Everybody : B!DevicesOf(v) \in SUBSET B!Machines
  BY <1>1 DEF B!DevicesOf, B!Maybe
<1>3. ASSUME B!Register(t)
      PROVE  EnrolmentsInv'
  <2>1. session \in Everybody
    BY <1>1, <1>3 DEF B!Register, B!Maybe
  <2>. DEFINE opening == [step |-> "prompt", user |-> session, held |-> tabs[t].credentials,
                        known |-> "here" \in B!DevicesOf(session)]
  <2>2. opening \in FitRegistration
    BY <1>1, <2>1 DEF FitRegistration, Registrations, B!Maybe
  <2>3. /\ machines' = [machines EXCEPT ![session] = B!DevicesOf(session)]
        /\ B!Becomes(t, [tabs[t] EXCEPT !.registration = opening])
        /\ UNCHANGED <<session, stored, enrolled, missed, unsaved>>
    BY <1>3 DEF B!Register
  <2>. HIDE DEF opening
  <2>4. [tabs[t] EXCEPT !.registration = opening] \in FitTab
    BY <1>1, <2>2, TabTypes
  <2>5. tabs' \in [Tabs -> FitTab]
    BY <1>1, <2>3, <2>4 DEF B!Becomes
  <2>6. PICK d \in SUBSET B!Machines : d = B!DevicesOf(session)
    BY <1>2, <2>1
  <2>7. machines' = [machines EXCEPT ![session] = d] /\ B!DevicesOf(session) \subseteq d
    BY <2>3, <2>6
  <2>. QED
    BY <2>1, <2>3, <2>5, <2>7, DevicesChange
<1>4. ASSUME B!Prompted(t)
      PROVE  EnrolmentsInv'
  <2>1. r.step = "prompt" /\ r.user \in Everybody
    BY <1>1, <1>4 DEF B!Prompted, FitRegistration
  <2>2. \A s \in {"known", "verified"} : [tabs[t] EXCEPT !.registration.step = s] \in FitTab
    <3>1. ASSUME NEW s \in {"known", "verified"}
          PROVE  [tabs[t] EXCEPT !.registration.step = s] \in FitTab
      <4>1. [r EXCEPT !.step = s] \in FitRegistration
        BY <1>1, <2>1 DEF FitRegistration, Registrations
      <4>2. [tabs[t] EXCEPT !.registration.step = s]
              = [tabs[t] EXCEPT !.registration = [r EXCEPT !.step = s]]
        BY <1>1 DEF B!Tab
      <4>. QED
        BY <1>1, <4>1, <4>2, TabTypes
    <3>. QED
      BY <3>1
  <2>3. [tabs[t] EXCEPT !.registration = B!NoRegistration] \in FitTab
    BY <1>1, TabTypes
  <2>4. PICK tab \in FitTab :
          /\ B!Becomes(t, tab)
          /\ \/ UNCHANGED machines
             \/ machines' = [machines EXCEPT ![r.user] = @ \cup {"here"}] /\ machines[r.user] # Null
    BY <1>4, <2>2, <2>3 DEF B!Prompted
  <2>5. UNCHANGED <<session, stored, enrolled, missed, unsaved>>
    BY <1>4 DEF B!Prompted
  <2>6. CASE UNCHANGED machines
    BY <1>1, <2>4, <2>5, <2>6, TabChanges
  <2>7. CASE machines' = [machines EXCEPT ![r.user] = @ \cup {"here"}] /\ machines[r.user] # Null
    <3>1. PICK d \in SUBSET B!Machines : d = B!DevicesOf(r.user) \cup {"here"}
      BY <1>2, <2>1 DEF B!Machines
    <3>2. machines' = [machines EXCEPT ![r.user] = d] /\ B!DevicesOf(r.user) \subseteq d
      BY <1>1, <2>1, <2>7, <3>1 DEF B!DevicesOf
    <3>3. tabs' \in [Tabs -> FitTab]
      BY <1>1, <2>4 DEF B!Becomes
    <3>. QED
      BY <2>1, <2>5, <3>2, <3>3, DevicesChange
  <2>. QED
    BY <2>4, <2>6, <2>7
<1>. QED
  BY <1>3, <1>4

\* The user is put on the list the registration held.
LEMMA EnrolKeeps ==
    ASSUME EnrolmentsInv, NEW t \in Tabs, B!Verified(t) \/ B!Known(t)
    PROVE  EnrolmentsInv'
<1>. DEFINE r == tabs[t].registration
            tab == [tabs[t] EXCEPT !.registration = B!NoRegistration]
<1>1. /\ tabs[t] \in FitTab /\ r \in FitRegistration /\ r \in Registrations
      /\ tab \in FitTab /\ tab \in B!Tab /\ tab.page \in B!Pages
      /\ tab.credentials \in SUBSET Everybody /\ session \in B!Maybe(Everybody)
      /\ r.held \in SUBSET Everybody
  <2>1. tabs[t] \in FitTab
    BY TabsKnown
  <2>2. r \in FitRegistration /\ r \in Registrations
    BY <2>1, TabParts, Zenon
  <2>3. tab \in FitTab
    BY <2>1, TabTypes, Zenon
  <2>4. r.held \in SUBSET Everybody
    BY <2>2 DEF Registrations
  <2>. QED
    BY <2>1, <2>2, <2>3, <2>4, TabParts, TabsKnown, Zenon
<1>2. r.user \in Everybody
  BY <1>1 DEF B!Verified, B!Known, FitRegistration
<1>3. /\ enrolled' = IF "here" \in B!DevicesOf(r.user) THEN enrolled \cup {r.user} ELSE enrolled
      /\ UNCHANGED <<machines, session>>
  BY DEF B!Verified, B!Known
<1>4. /\ enrolled' \subseteq Everybody
      /\ \A u \in enrolled' \ enrolled : "here" \in B!DevicesOf(u)
      /\ enrolled' \subseteq enrolled \cup {r.user}
  BY <1>2, <1>3 DEF EnrolmentsInv, EnrolmentsTyped
<1>5. \A page \in B!Pages : B!Moved(tab, page) \in FitTab
  BY <1>1, TabTypes
<1>9. /\ stored \in SUBSET Everybody /\ missed \subseteq Everybody /\ unsaved \subseteq Everybody
      /\ enrolled \subseteq stored \cup missed \cup unsaved
  BY DEF EnrolmentsInv, EnrolmentsTyped, B!StaysOffered
<1>6. ASSUME NEW page \in B!Pages, B!Enrol(t, r, page)
      PROVE  EnrolmentsInv'
  <2>2. CASE r.user \notin r.held
    <3>. DEFINE next == IF page = tab.page THEN tab ELSE B!Moved(tab, page)
    <3>1. B!SetCredentials(t, next, r.held \cup {r.user}) /\ B!Misses(stored, r.held)
      BY <1>6, <2>2 DEF B!Enrol
    <3>2. next \in FitTab
      BY <1>1, <1>5
    <3>. HIDE DEF next
    <3>3. PICK list \in SUBSET Everybody : list = r.held \cup {r.user}
      BY <1>1, <1>2
    <3>4. B!SetCredentials(t, next, list)
      BY <3>1, <3>3
    <3>5. \A u \in enrolled' : \/ u \in list \/ u \in stored \ r.held
                               \/ u \in missed \cup unsaved
      BY <1>4, <1>9, <3>3
    <3>. QED
      BY <1>3, <1>4, <1>9, <3>1, <3>2, <3>4, <3>5, WriteKeeps
  <2>3. CASE r.user \in r.held
    <3>1. /\ B!Becomes(t, tab) /\ UNCHANGED <<stored, unsaved>>
          /\ missed' = (missed \cup {r.user}) \ stored'
      BY <1>6, <2>3 DEF B!Enrol, B!Misses
    <3>2. /\ stored' \subseteq Everybody /\ missed' \subseteq Everybody
          /\ unsaved' \subseteq Everybody
          /\ enrolled' \subseteq stored' \cup missed' \cup unsaved'
      BY <1>2, <1>4, <1>9, <3>1
    <3>. QED
      BY <1>1, <1>3, <1>4, <3>1, <3>2, ListChanges
  <2>. QED
    BY <2>2, <2>3
<1>7. CASE B!Verified(t)
  BY <1>6, <1>7 DEF B!Verified, B!Pages
<1>8. CASE B!Known(t)
  <2>1. CASE B!Enrol(t, r, tab.page)
    BY <1>1, <1>6, <2>1
  <2>2. CASE ~B!Enrol(t, r, tab.page)
    <3>1. /\ B!SetCredentials(t, tab, tab.credentials \cup {session})
          /\ B!Misses(stored \cup {r.user}, tab.credentials)
          /\ r.user \in r.held /\ session # Null
      BY <1>8, <2>2 DEF B!Known
    <3>2. PICK list \in SUBSET Everybody : list = tab.credentials \cup {session}
      BY <1>1, <3>1 DEF B!Maybe
    <3>3. PICK due \in SUBSET Everybody : due = stored \cup {r.user}
      BY <1>2, <1>9
    <3>4. B!SetCredentials(t, tab, list) /\ B!Misses(due, tab.credentials)
      BY <3>1, <3>2, <3>3
    <3>5. \A u \in enrolled' : \/ u \in list \/ u \in due \ tab.credentials
                               \/ u \in missed \cup unsaved
      BY <1>4, <1>9, <3>2, <3>3
    <3>. HIDE DEF tab
    <3>. QED
      BY <1>1, <1>3, <1>4, <3>4, <3>5, WriteKeeps
  <2>. QED
    BY <2>1, <2>2
<1>. QED
  BY <1>7, <1>8

\* The profile takes a user without a device off the list.
LEMMA ProfileKeeps ==
    ASSUME EnrolmentsInv, NEW t \in Tabs, B!FetchWebAuthnID(t) \/ B!FetchedWebAuthnID(t)
    PROVE  EnrolmentsInv'
<1>. DEFINE q == tabs[t].question
            tab == [tabs[t] EXCEPT !.question = B!NoQuestion]
<1>1. /\ tabs[t] \in FitTab /\ tabs[t] \in B!Tab /\ q \in Questions
      /\ tab \in FitTab /\ tab \in B!Tab
      /\ tab.credentials \in SUBSET Everybody /\ session \in B!Maybe(Everybody)
  <2>1. tabs[t] \in FitTab
    BY TabsKnown
  <2>2. tab \in FitTab
    BY <2>1, TabTypes, Zenon
  <2>. QED
    BY <2>1, <2>2, TabParts, TabsKnown, Zenon
<1>2. CASE B!FetchWebAuthnID(t)
  <2>1. UNCHANGED <<machines, session, stored, enrolled, missed, unsaved>> /\ session \in Everybody
    BY <1>1, <1>2 DEF B!FetchWebAuthnID, B!Maybe
  <2>2. CASE B!Becomes(t, [tabs[t] EXCEPT !.question.step = "asked"])
    <3>1. [q EXCEPT !.step = "asked"] \in Questions
      BY <1>1 DEF Questions
    <3>2. [tabs[t] EXCEPT !.question.step = "asked"]
            = [tabs[t] EXCEPT !.question = [q EXCEPT !.step = "asked"]]
      BY <1>1 DEF B!Tab
    <3>3. [tabs[t] EXCEPT !.question.step = "asked"] \in FitTab
      BY <1>1, <3>1, <3>2, TabTypes
    <3>. QED
      BY <1>1, <2>1, <2>2, <3>3, TabChanges
  <2>3. CASE ~B!Becomes(t, [tabs[t] EXCEPT !.question.step = "asked"])
    <3>. DEFINE answer == [step |-> "answered",
                           user |-> IF machines[session] = Null THEN Null ELSE session,
                           has |-> B!DevicesOf(session) # {}]
    <3>1. B!Becomes(t, [tabs[t] EXCEPT !.question = answer])
      BY <1>2, <2>3 DEF B!FetchWebAuthnID
    <3>2. answer \in Questions
      BY <2>1 DEF Questions, B!Maybe
    <3>. HIDE DEF answer
    <3>3. [tabs[t] EXCEPT !.question = answer] \in FitTab
      BY <1>1, <3>2, TabTypes
    <3>. QED
      BY <1>1, <2>1, <3>1, <3>3, TabChanges
  <2>. QED
    BY <2>2, <2>3
<1>3. CASE B!FetchedWebAuthnID(t)
  <2>. DEFINE list == B!Listed(tab.credentials, q.user, q.has)
  <2>1. UNCHANGED <<machines, session, enrolled>>
    BY <1>3 DEF B!FetchedWebAuthnID
  <2>2. CASE q.user = Null \/ list = tab.credentials
    <3>1. B!Becomes(t, tab) /\ UNCHANGED <<stored, missed, unsaved>>
      BY <1>3, <2>2, Zenon DEF B!FetchedWebAuthnID
    <3>. QED
      BY <1>1, <2>1, <3>1, TabChanges
  <2>3. CASE ~(q.user = Null \/ list = tab.credentials)
    <3>. DEFINE known == IF q.has = (B!DevicesOf(q.user) # {}) THEN tab.credentials
                         ELSE tab.credentials \ {q.user}
    <3>1. B!SetCredentials(t, tab, list) /\ B!Misses(stored, known)
      BY <1>3, <2>3, Zenon DEF B!FetchedWebAuthnID
    <3>2. q.user \in Everybody
      BY <1>1, <2>3 DEF Questions, B!Maybe
    <3>3. list \in SUBSET Everybody
      BY <1>1, <3>2 DEF B!Listed
    <3>4. ASSUME NEW u \in enrolled
          PROVE  \/ u \in list \/ u \in stored \ known \/ u \in missed \cup unsaved
      <4>1. u \in stored \cup missed \cup unsaved /\ B!DevicesOf(u) # {}
        BY DEF EnrolmentsInv, B!StaysOffered
      <4>2. ASSUME u \in known
            PROVE  u \in list
        <5>1. u \in tab.credentials
          BY <4>2
        <5>2. CASE u = q.user
          <6>1. q.has
            BY <4>1, <4>2, <5>2
          <6>. QED
            BY <5>1, <6>1 DEF B!Listed
        <5>3. CASE u # q.user
          BY <5>1, <5>3 DEF B!Listed
        <5>. QED
          BY <5>2, <5>3
      <4>. QED
        BY <4>1, <4>2
    <3>5. enrolled \subseteq Everybody /\ stored \in SUBSET Everybody
      BY DEF EnrolmentsInv, EnrolmentsTyped
    <3>. HIDE DEF list, known, tab
    <3>. QED
      BY <1>1, <2>1, <3>1, <3>3, <3>4, <3>5, WriteKeeps
  <2>. QED
    BY <2>2, <2>3
<1>. QED
  BY <1>2, <1>3

\* Devices come and go at the server.
LEMMA ServerKeeps ==
    ASSUME EnrolmentsInv,
           (\E t \in Tabs : B!HandleDeleteDevice(t)) \/ (\E u \in Everybody : B!Elsewhere(u))
    PROVE  EnrolmentsInv'
<1>1. /\ tabs \in [Tabs -> FitTab] /\ session \in B!Maybe(Everybody)
      /\ machines \in [Everybody -> B!Maybe(SUBSET B!Machines)]
  BY DEF EnrolmentsInv, EnrolmentsTyped
<1>2. \A v \in Everybody : B!DevicesOf(v) \in SUBSET B!Machines
  BY <1>1 DEF B!DevicesOf, B!Maybe
<1>3. UNCHANGED <<session, stored, tabs, missed, unsaved>> /\ tabs' \in [Tabs -> FitTab]
  BY <1>1 DEF B!HandleDeleteDevice, B!Elsewhere
<1>4. ASSUME NEW u \in Everybody, NEW m \in B!Machines, B!Deleted(u, m)
      PROVE  EnrolmentsInv'
  <2>1. PICK d \in SUBSET B!Machines : d = B!DevicesOf(u) \ {m}
    BY <1>2
  <2>2. machines' = [machines EXCEPT ![u] = d] /\ m \in B!DevicesOf(u)
    BY <1>1, <1>4, <2>1 DEF B!Deleted, B!DevicesOf
  <2>3. enrolled' = IF m = "here" THEN enrolled \ {u} ELSE enrolled
    BY <1>4 DEF B!Deleted
  <2>4. CASE m = "here"
    BY <1>3, <2>2, <2>3, <2>4, DevicesChange
  <2>5. CASE m # "here" /\ u \in enrolled
    <3>1. "here" \in d
      BY <2>1, <2>5 DEF EnrolmentsInv
    <3>. QED
      BY <1>3, <2>2, <2>3, <2>5, <3>1, DevicesChange
  <2>6. CASE m # "here" /\ u \notin enrolled
    <3>1. enrolled' = enrolled \ {u}
      BY <2>3, <2>6
    <3>. QED
      BY <1>3, <2>2, <3>1, DevicesChange
  <2>. QED
    BY <2>4, <2>5, <2>6
<1>5. ASSUME NEW u \in Everybody, UNCHANGED enrolled,
             machines' = [machines EXCEPT ![u] = B!DevicesOf(u) \cup {"away"}]
      PROVE  EnrolmentsInv'
  <2>1. PICK d \in SUBSET B!Machines : d = B!DevicesOf(u) \cup {"away"}
    BY <1>2 DEF B!Machines
  <2>2. machines' = [machines EXCEPT ![u] = d] /\ B!DevicesOf(u) \subseteq d
    BY <1>5, <2>1
  <2>. QED
    BY <1>3, <1>5, <2>2, DevicesChange
<1>6. ASSUME NEW t \in Tabs, B!HandleDeleteDevice(t)
      PROVE  EnrolmentsInv'
  <2>1. session \in Everybody
    BY <1>1, <1>6 DEF B!HandleDeleteDevice, B!Maybe
  <2>. QED
    BY <1>4, <1>6, <2>1 DEF B!HandleDeleteDevice
<1>7. ASSUME NEW u \in Everybody, B!Elsewhere(u)
      PROVE  EnrolmentsInv'
  BY <1>4, <1>5, <1>7 DEF B!Elsewhere
<1>. QED
  BY <1>6, <1>7

\* Every step of the browser and of the server keeps it.
LEMMA EnrolmentsStep == EnrolmentsInv /\ [B!Next]_(B!enrolment) => EnrolmentsInv'
<1>. SUFFICES ASSUME EnrolmentsInv, [B!Next]_(B!enrolment)
              PROVE  EnrolmentsInv'
  OBVIOUS
<1>1. CASE UNCHANGED B!enrolment
  BY <1>1 DEF B!enrolment, EnrolmentsInv, EnrolmentsTyped, B!StaysOffered, B!DevicesOf
<1>2. ASSUME NEW t \in Tabs,
             \/ \E page \in B!Pages : B!Open(t, page)
             \/ B!Go(t) \/ B!WhoAmI(t) \/ B!LogOut(t)
             \/ \E u \in Everybody : B!LogIn(t, u) \/ B!Authenticate(t, u)
             \/ B!AskWebauthn(t) \/ B!ActOnAnswer(t) \/ B!Leave(t)
             \/ B!Register(t) \/ B!Prompted(t) \/ B!Verified(t) \/ B!Known(t)
             \/ B!FetchWebAuthnID(t) \/ B!FetchedWebAuthnID(t)
      PROVE  EnrolmentsInv'
  BY <1>2, PagesKeep, AnswerKeeps, RegisterKeeps, EnrolKeeps, ProfileKeeps
<1>3. ASSUME (\E t \in Tabs : B!HandleDeleteDevice(t)) \/ (\E u \in Everybody : B!Elsewhere(u))
      PROVE  EnrolmentsInv'
  BY <1>3, ServerKeeps
<1>. QED
  BY <1>1, <1>2, <1>3 DEF B!Next

\* It holds at the start, with nobody registered, and as long as the browser runs.
LEMMA EnrolmentsLast == PartsSpec => [](part = "enrolments" => EnrolmentsInv)
<1>. DEFINE Inv == part = "enrolments" => EnrolmentsInv
<1>1. PartsInit => Inv
  <2>1. PartsInit /\ part = "enrolments" => B!Init
    BY Zenon DEF PartsInit
  <2>2. B!Init => EnrolmentsInv
    BY TabTypes DEF B!Init, EnrolmentsInv, EnrolmentsTyped, B!StaysOffered, B!Maybe, B!Pages
  <2>. QED
    BY <2>1, <2>2
<1>2. Inv /\ [PartsNext]_PartsVars => Inv'
  <2>1. part = "enrolments" /\ [PartsNext]_PartsVars => [B!Next]_(B!enrolment)
    BY Zenon DEF PartsNext, PartsVars, B!enrolment, enrolment
  <2>. QED
    BY <2>1, PartKept, EnrolmentsStep
<1>. QED
  BY <1>1, <1>2, PTL DEF PartsSpec

\* A user who has registered a device of this machine stays on the browser's list
\* as long as the device is registered, whatever the tabs, the answers and the
\* profile do: who is off it was on a list whose write was refused, or is someone
\* that the tab which wrote it, or what it went by, had not heard of (AuthProvider,
\* useLocalForage, webauthn.authenticate.tsx, webauthn.register.tsx).
THEOREM EnrolledStayOffered == PartsSpec => []StaysOffered
<1>1. (part = "enrolments" => EnrolmentsInv) => StaysOffered
  BY DEF StaysOffered, EnrolmentsInv
<1>. QED
  BY <1>1, EnrolmentsLast, PTL

-----------------------------------------------------------------------------
(* Types.  A part's state is of its type for as long as the part runs: of   *)
(* some parts the inductive invariant above says so, others have one of     *)
(* their own here.                                                          *)

\* A record counts no more occurrences than there were.
ThrottlerTyped ==
    /\ G!TypeOK
    /\ \A k \in G!Keys : records[k] # Null => records[k].count <= occurred

\* An occurrence more is counted, and no record can have more of them.
LEMMA ThrottledLogTyped ==
    ASSUME ThrottlerTyped,
           NEW k \in G!Keys, NEW o \in {Usual, Patient, Location, Aggregate},
           G!ThrottledLog(k, o)
    PROVE  ThrottlerTyped'
<1>. DEFINE r == G!Counted(records[k])
            next == IF r.count = 1 \/ G!ShouldLog(r, o)
                    THEN [r EXCEPT !.lastLogged = minute] ELSE r
            t == [at |-> minute, by |-> o]
<1>1. /\ occurred < MaxOccurred /\ occurred' = occurred + 1
      /\ records' = [records EXCEPT ![k] = next] /\ told' = [told EXCEPT ![k] = t]
      /\ UNCHANGED <<minute, since>>
  BY DEF G!ThrottledLog
<1>2. /\ MaxNow \in Nat /\ MaxOccurred \in Nat /\ minute \in 0..MaxNow
      /\ occurred \in 0..MaxOccurred /\ records[k] \in G!Record \cup {Null}
      /\ records[k] # Null => records[k].count <= occurred
  BY ThrottlerAssumption DEF G!ConstantsOK, ThrottlerTyped, G!TypeOK
<1>3. r \in G!Record /\ r.count <= occurred + 1
  BY <1>1, <1>2 DEF G!Counted, G!Record
<1>4. next \in G!Record /\ next.count <= occurred + 1
  <2>. HIDE DEF r
  <2>. QED
    BY <1>2, <1>3 DEF G!Record
<1>5. t \in [at : 0..MaxNow, by : {Usual, Patient, Location, Aggregate}]
  BY <1>2
<1>. HIDE DEF next, r, t
<1>6. G!TypeOK'
  BY <1>1, <1>2, <1>4, <1>5 DEF ThrottlerTyped, G!TypeOK
<1>7. ASSUME NEW j \in G!Keys, records'[j] # Null  PROVE records'[j].count <= occurred'
  <2>1. CASE j = k
    BY <2>1, <1>1, <1>4 DEF ThrottlerTyped, G!TypeOK
  <2>2. CASE j # k
    <3>1. records'[j] = records[j]
      BY <2>2, <1>1 DEF ThrottlerTyped, G!TypeOK
    <3>2. records[j] \in G!Record /\ records[j].count <= occurred
      BY <3>1, <1>7 DEF ThrottlerTyped, G!TypeOK
    <3>. QED
      BY <3>1, <3>2, <1>1, <1>2 DEF G!Record
  <2>. QED
    BY <2>1, <2>2
<1>. QED
  BY <1>6, <1>7 DEF ThrottlerTyped

\* The throttler's records, times and options are of their types.
LEMMA ThrottlerTypes == PartsSpec => [](part = "throttler" => G!TypeOK)
<1>. DEFINE Inv == part = "throttler" => ThrottlerTyped
<1>1. PartsInit => Inv
  <2>. SUFFICES ASSUME PartsInit, part = "throttler"
                PROVE  ThrottlerTyped
    OBVIOUS
  <2>1. G!Init
    BY Zenon DEF PartsInit
  <2>. QED
    BY <2>1, ThrottlerAssumption DEF G!Init, ThrottlerTyped, G!TypeOK, G!ConstantsOK
<1>2. ThrottlerTyped /\ [G!Next]_(G!throttling) => ThrottlerTyped'
  <2>. SUFFICES ASSUME ThrottlerTyped, [G!Next]_(G!throttling)
                PROVE  ThrottlerTyped'
    OBVIOUS
  <2>1. ASSUME NEW i \in Boxes, G!NoLocation(i) \/ G!NoHostIp(i) \/ G!NoState(i) \/ G!NoData(i)
        PROVE  ThrottlerTyped'
    <3>1. PICK k \in G!Keys, o \in {Usual, Patient, Location, Aggregate} : G!ThrottledLog(k, o)
      BY <2>1 DEF G!NoLocation, G!NoHostIp, G!NoState, G!NoData, G!Keys, G!Errors
    <3>. QED
      BY <3>1, ThrottledLogTyped
  <2>2. ASSUME NEW i \in Boxes, G!FoundWell(i)
        PROVE  ThrottlerTyped'
    BY <2>2 DEF G!FoundWell, ThrottlerTyped, G!TypeOK
  <2>3. CASE G!Tick
    BY <2>3, ThrottlerAssumption DEF G!Tick, ThrottlerTyped, G!TypeOK, G!ConstantsOK
  <2>4. CASE UNCHANGED G!throttling
    BY <2>4 DEF G!throttling, ThrottlerTyped, G!TypeOK
  <2>. QED
    BY <2>1, <2>2, <2>3, <2>4 DEF G!Next
<1>3. Inv /\ [PartsNext]_PartsVars => Inv'
  <2>1. part = "throttler" /\ [PartsNext]_PartsVars => [G!Next]_(G!throttling)
    BY Zenon DEF PartsNext, PartsVars, G!throttling, throttling
  <2>. QED
    BY <2>1, <1>2, PartKept
<1>4. Inv => (part = "throttler" => G!TypeOK)
  BY DEF ThrottlerTyped
<1>. QED
  BY <1>1, <1>3, <1>4, PTL DEF PartsSpec

\* What the relay's two sides said, what waits and what was put are numbers of
\* messages.
LinesTyped == line \in [R!Sides -> R!Line]

\* A flush puts what waits, and no other message.
LEMMA FlushForTyped ==
    ASSUME NEW l \in R!Line
    PROVE  R!FlushFor(l) \in R!Line
<1>. DEFINE Messages == 1..MaxSaid
<1>1. l \in [said : 0..MaxSaid, buffer : Seq(Messages), put : Seq(Messages), calls : Nat]
  BY DEF R!Line
<1>. HIDE DEF Messages
<1>2. R!FlushHead(l) \in [said : 0..MaxSaid, buffer : Seq(Messages), put : Seq(Messages), calls : Nat]
  <2>1. l.buffer # <<>> => Append(l.put, Head(l.buffer)) \in Seq(Messages)
    <3>1. l.buffer # <<>> => Head(l.buffer) \in Messages
      BY <1>1
    <3>. QED
      BY <1>1, <3>1
  <2>2. CASE l.buffer = <<>>
    BY <1>1, <2>2 DEF R!FlushHead
  <2>3. CASE l.buffer # <<>>
    <3>1. R!FlushHead(l) = [l EXCEPT !.put = Append(l.put, Head(l.buffer)), !.calls = l.calls + 1]
      BY <1>1, <2>3 DEF R!FlushHead
    <3>2. l.calls + 1 \in Nat
      BY <1>1
    <3>. QED
      BY <1>1, <2>1, <2>3, <3>1, <3>2
  <2>. QED
    BY <2>2, <2>3
<1>3. R!FlushAll(l) \in [said : 0..MaxSaid, buffer : Seq(Messages), put : Seq(Messages), calls : Nat]
  <2>1. l.put \o l.buffer \in Seq(Messages) /\ <<>> \in Seq(Messages)
    BY <1>1
  <2>. QED
    BY <1>1, <2>1 DEF R!FlushAll
<1>. QED
  BY <1>1, <1>2, <1>3 DEF R!FlushFor, R!Line, Messages

\* ... of either side, whether the other one is open or not.
LEMMA FlushTyped ==
    ASSUME NEW l \in R!Line, NEW side
    PROVE  R!Flush(side, l) \in R!Line
  BY FlushForTyped DEF R!Flush

\* Every step of a relay.
LEMMA LinesStep == LinesTyped /\ [R!Next]_(R!relay) => LinesTyped'
<1>. SUFFICES ASSUME LinesTyped, [R!Next]_(R!relay)
              PROVE  LinesTyped'
  OBVIOUS
<1>. USE RelaysAssumption
<1>1. ASSUME NEW side \in R!Sides, R!Message(side)
      PROVE  LinesTyped'
  <2>1. /\ line[side] \in R!Line /\ line[side].said < MaxSaid
        /\ line' = [line EXCEPT ![side] = R!Flush(side, R!Heard(line[side]))]
    BY <1>1 DEF R!Message, LinesTyped
  <2>2. R!Heard(line[side]) \in R!Line
    <3>. DEFINE l == line[side]
    <3>1. l \in R!Line /\ l.said + 1 \in 1..MaxSaid /\ l.said + 1 \in 0..MaxSaid
      BY <2>1 DEF R!Line
    <3>. HIDE DEF l
    <3>2. Append(l.buffer, l.said + 1) \in Seq(1..MaxSaid)
      BY <3>1 DEF R!Line
    <3>3. R!Heard(l) \in R!Line
      BY <3>1, <3>2 DEF R!Heard, R!Line
    <3>. QED
      BY <3>3 DEF l
  <2>3. R!Flush(side, R!Heard(line[side])) \in R!Line
    BY <2>2, FlushTyped
  <2>. QED
    BY <2>1, <2>3, Zenon DEF LinesTyped
<1>2. ASSUME NEW side \in R!Sides, R!Sent(side)
      PROVE  LinesTyped'
  <2>1. /\ line[side] \in R!Line /\ line[side].calls > 0
        /\ line' = [line EXCEPT ![side] = R!Flush(side, R!Shift(line[side]))]
    BY <1>2 DEF R!Sent, LinesTyped
  <2>2. R!Shift(line[side]) \in R!Line
    <3>. DEFINE l == line[side]
    <3>1. l \in R!Line /\ l.calls - 1 \in Nat
      BY <2>1 DEF R!Line
    <3>. HIDE DEF l
    <3>2. l.buffer # <<>> => Tail(l.buffer) \in Seq(1..MaxSaid)
      BY <3>1 DEF R!Line
    <3>3. R!Shift(l) \in R!Line
      BY <3>1, <3>2 DEF R!Shift, R!Line
    <3>. QED
      BY <3>3 DEF l
  <2>3. R!Flush(side, R!Shift(line[side])) \in R!Line
    BY <2>2, FlushTyped
  <2>. QED
    BY <2>1, <2>3, Zenon DEF LinesTyped
<1>3. ASSUME NEW side \in R!Sides, R!NotSent(side)
      PROVE  LinesTyped'
  <2>. DEFINE l == line[side]
              m == [l EXCEPT !.calls = @ - 1]
  <2>1. l \in R!Line /\ l.calls > 0 /\ line' = [line EXCEPT ![side] = m]
    BY <1>3 DEF R!NotSent, LinesTyped
  <2>. HIDE DEF l
  <2>2. m \in R!Line
    <3>1. l.calls - 1 \in Nat
      BY <2>1 DEF R!Line
    <3>2. l \in R!Line /\ m = [l EXCEPT !.calls = l.calls - 1]
      BY <2>1 DEF R!Line
    <3>. HIDE DEF m
    <3>. QED
      BY <3>1, <3>2 DEF R!Line
  <2>. HIDE DEF m
  <2>. QED
    BY <2>1, <2>2, Zenon DEF LinesTyped
<1>4. CASE R!Open
  <2>1. /\ line["client"] \in R!Line
        /\ line' = [line EXCEPT !["client"] = R!FlushFor(line["client"])]
    BY <1>4 DEF R!Open, LinesTyped, R!Sides
  <2>2. R!FlushFor(line["client"]) \in R!Line
    BY <2>1, FlushForTyped
  <2>. QED
    BY <2>1, <2>2, Zenon DEF LinesTyped
<1>5. CASE R!ContainerClosed
  <2>1. /\ line["container"] \in R!Line
        /\ line' = [line EXCEPT !["container"] = R!Flush("container", line["container"])]
    BY <1>5 DEF R!ContainerClosed, LinesTyped, R!Sides
  <2>2. R!Flush("container", line["container"]) \in R!Line
    BY <2>1, FlushTyped
  <2>. QED
    BY <2>1, <2>2, Zenon DEF LinesTyped
<1>6. CASE UNCHANGED line
  BY <1>6 DEF LinesTyped
<1>. QED
  BY <1>1, <1>2, <1>3, <1>4, <1>5, <1>6, Zenon
     DEF R!Next, R!relay, R!RefuseUpgrade, R!Upgrade, R!TargetFound, R!Link, R!Refuse, R!ClientClosed,
         R!Interval, R!Leave, R!Error

\* A relay's sockets, buffers and timers are of their types.
LEMMA RelayTypes == PartsSpec => [](part = "relays" => R!TypeOK)
<1>. DEFINE Inv == part = "relays" => LinesTyped
<1>1. PartsInit => Inv
  <2>. SUFFICES ASSUME PartsInit, part = "relays"
                PROVE  LinesTyped
    OBVIOUS
  <2>1. R!Init
    BY Zenon DEF PartsInit
  <2>2. [said |-> 0, buffer |-> <<>>, put |-> <<>>, calls |-> 0] \in R!Line
    BY RelaysAssumption DEF R!Line
  <2>. QED
    BY <2>1, <2>2, Zenon DEF R!Init, LinesTyped
<1>2. Inv /\ [PartsNext]_PartsVars => Inv'
  <2>1. part = "relays" /\ [PartsNext]_PartsVars => [R!Next]_(R!relay)
    BY Zenon DEF PartsNext, PartsVars, R!relay, relay
  <2>. QED
    BY <2>1, PartKept, LinesStep
<1>3. (part = "relays" => RelayInv) /\ Inv => (part = "relays" => R!TypeOK)
  BY Zenon DEF RelayInv, LinesTyped, R!TypeOK
<1>. QED
  BY <1>1, <1>2, <1>3, RelaysLast, PTL DEF PartsSpec

\* A request on its way has the kind and the instance it was made with, and a
\* target once one was found.
Visits == [step : P!Steps, kind : P!Maybe(P!Kinds), user : P!Maybe(Users),
           instance : P!Maybe(Boxes), target : P!Maybe(Targets)]

Underway == {"verifying", "verified", "seeking", "asking", "monitoring", "posting", "found"}

VisitOK(r) ==
    /\ r \in Visits
    /\ r.step \in Underway => r.kind \in P!Kinds /\ r.instance \in Boxes
    /\ r.step = "found" => r.target \in Targets

VisitsOK == visit \in [Requests -> Visits] /\ \A q \in Requests : VisitOK(visit[q])

BoxesTyped == instances \in [Boxes -> P!Maybe(P!Instance)] /\ monitors \subseteq Users

CachesTyped ==
    /\ caches \in [P!Kinds -> [Boxes -> P!Maybe(P!Proxy)]]
    /\ now \in 0..MaxTime /\ cleaned \in 0..now /\ now <= cleaned + TTL

CountsTyped == visits \in 0..MaxFew /\ moves \in 0..MaxChanges

ProxiesTyped == VisitsOK /\ BoxesTyped /\ CachesTyped /\ CountsTyped

\* A request goes on with a record of its own.
LEMMA VisitGoes ==
    ASSUME VisitsOK, NEW q \in Requests, NEW r, VisitOK(r), visit' = [visit EXCEPT ![q] = r]
    PROVE  VisitsOK'
<1>1. visit' \in [Requests -> Visits]
  BY Zenon DEF VisitsOK, VisitOK
<1>2. ASSUME NEW p \in Requests PROVE VisitOK(visit'[p])
  BY Zenon DEF VisitsOK
<1>. QED
  BY <1>1, <1>2 DEF VisitsOK, VisitOK

\* ... or is through, or not under way yet.
LEMMA VisitThrough ==
    ASSUME NEW outcome \in {"idle", "denied", "failed", "forwarded"}
    PROVE  VisitOK([P!Idle EXCEPT !.step = outcome]) /\ VisitOK(P!Idle)
  BY DEF VisitOK, Visits, Underway, P!Idle, P!Steps, P!Maybe

\* A step forward changes nothing else of the record.
LEMMA VisitTo ==
    ASSUME NEW r, VisitOK(r), r.step \in Underway, NEW s \in Underway \ {"found"}
    PROVE  VisitOK([r EXCEPT !.step = s])
  BY DEF VisitOK, Visits, Underway, P!Steps, P!Maybe

\* ... but for the target that was found.
LEMMA VisitFound ==
    ASSUME NEW r, VisitOK(r), r.step \in Underway, NEW t \in Targets,
           NEW s, s = [r EXCEPT !.step = "found", !.target = t]
    PROVE  VisitOK(s)
  BY DEF VisitOK, Visits, Underway, P!Steps, P!Maybe

\* A request that has just come is verified first.
LEMMA VisitBegins ==
    ASSUME NEW k \in P!Kinds, NEW u \in P!Maybe(Users), NEW i \in Boxes
    PROVE  VisitOK([P!Idle EXCEPT !.step = "verifying", !.kind = k, !.user = u, !.instance = i])
  BY DEF VisitOK, Visits, Underway, P!Idle, P!Steps, P!Maybe

\* The requests, whoever steps.
LEMMA VisitsStep ==
    ASSUME ProxiesTyped, [P!Next]_(P!proxies)
    PROVE  VisitsOK'
<1>1. ASSUME NEW q \in Requests,
             \/ P!Begin(q) \/ P!VerifyAccess(q) \/ P!Continue(q) \/ P!GetInstanceTarget(q)
             \/ P!GetContainerIP(q) \/ P!ExistingMonitorJob(q) \/ P!CreateMonitorJob(q)
             \/ P!CreateProxy(q) \/ P!Again(q)
      PROVE  VisitsOK'
  <2>1. VisitsOK /\ VisitOK(visit[q])
    BY Zenon DEF ProxiesTyped, VisitsOK
  <2>2. CASE P!Begin(q)
    <3>1. PICK k \in P!Kinds, u \in P!Maybe(Users), i \in Boxes :
             visit' = [visit EXCEPT ![q] =
               [P!Idle EXCEPT !.step = "verifying", !.kind = k, !.user = u, !.instance = i]]
      BY <2>2, Zenon DEF P!Begin, P!Goes
    <3>. QED
      BY <2>1, <3>1, VisitBegins, VisitGoes, Zenon
  <2>3. ASSUME NEW s \in {"denied", "failed", "forwarded"}, P!Through(q, s)
        PROVE  VisitsOK'
    BY <2>1, <2>3, VisitThrough, VisitGoes DEF P!Through, P!Goes
  <2>4. ASSUME NEW s \in Underway \ {"found"}, visit[q].step \in Underway, P!To(q, s)
        PROVE  VisitsOK'
    BY <2>1, <2>4, VisitTo, VisitGoes DEF P!To, P!Goes
  <2>5. ASSUME NEW t \in Targets, visit[q].step \in Underway,
               P!Goes(q, [visit[q] EXCEPT !.step = "found", !.target = t])
        PROVE  VisitsOK'
    <3>1. PICK r : r = [visit[q] EXCEPT !.step = "found", !.target = t]
      OBVIOUS
    <3>2. VisitOK(r)
      BY <2>1, <2>5, <3>1, VisitFound, Zenon
    <3>3. visit' = [visit EXCEPT ![q] = r]
      BY <2>5, <3>1 DEF P!Goes
    <3>. QED
      BY <2>1, <3>2, <3>3, VisitGoes
  <2>6. CASE P!VerifyAccess(q)
    BY <2>6, <2>3, <2>4 DEF P!VerifyAccess, P!At, Underway
  <2>7. CASE P!Continue(q)
    BY <2>7, <2>3, <2>4 DEF P!Continue, P!At, Underway
  <2>8. P!Through(q, "failed") => VisitsOK'
    BY <2>3
  <2>9. ASSUME visit[q].step \in Underway, P!To(q, "asking") \/ P!To(q, "monitoring")
         PROVE  VisitsOK'
    BY <2>4, <2>9 DEF Underway
  <2>10. CASE P!GetInstanceTarget(q)
    <3>. DEFINE doc == instances[visit[q].instance]
    <3>1. visit[q].step = "seeking" /\ visit[q].instance \in Boxes
      BY <2>1, <2>10 DEF P!GetInstanceTarget, P!At, VisitOK, Underway
    <3>2. doc # Null /\ doc.host # Null => doc.host \in Targets
      BY <3>1 DEF ProxiesTyped, BoxesTyped, P!Maybe, P!Instance
    <3>3. \/ P!Through(q, "failed")
          \/ doc # Null /\ doc.host # Null
               /\ P!Goes(q, [visit[q] EXCEPT !.step = "found", !.target = doc.host])
          \/ P!To(q, "asking")
      BY <2>10, Zenon DEF P!GetInstanceTarget
    <3>4. visit[q].step \in Underway
      BY <3>1 DEF Underway
    <3>. HIDE DEF doc
    <3>. QED
      BY <3>2, <3>3, <3>4, <2>5, <2>8, <2>9, Zenon
  <2>11. CASE P!GetContainerIP(q)
    <3>. DEFINE doc == instances[visit[q].instance]
    <3>1. visit[q].step = "asking" /\ visit[q].instance \in Boxes
      BY <2>1, <2>11 DEF P!GetContainerIP, P!At, VisitOK, Underway
    <3>2. doc # Null /\ doc.eth0 # Null => doc.eth0 \in Targets
      BY <3>1 DEF ProxiesTyped, BoxesTyped, P!Maybe, P!Instance
    <3>3. \/ P!Through(q, "failed")
          \/ doc # Null /\ doc.eth0 # Null
               /\ P!Goes(q, [visit[q] EXCEPT !.step = "found", !.target = doc.eth0])
          \/ P!To(q, "monitoring")
      BY <2>11, Zenon DEF P!GetContainerIP
    <3>4. visit[q].step \in Underway
      BY <3>1 DEF Underway
    <3>. HIDE DEF doc
    <3>. QED
      BY <3>2, <3>3, <3>4, <2>5, <2>8, <2>9, Zenon
  <2>12. CASE P!ExistingMonitorJob(q)
    BY <2>12, <2>3, <2>4 DEF P!ExistingMonitorJob, P!At, Underway
  <2>13. CASE P!CreateMonitorJob(q) \/ P!CreateProxy(q)
    BY <2>13, <2>3 DEF P!CreateMonitorJob, P!CreateProxy
  <2>14. CASE P!Again(q)
    BY <2>1, <2>14, VisitThrough, VisitGoes DEF P!Again, P!Goes
  <2>. QED
    BY <1>1, <2>2, <2>6, <2>7, <2>10, <2>11, <2>12, <2>13, <2>14
<1>2. CASE P!Restart
  <2>1. visit' = [q \in Requests |-> P!Idle] /\ VisitOK(P!Idle)
    BY <1>2, VisitThrough DEF P!Restart
  <2>2. P!Idle \in Visits
    BY <2>1 DEF VisitOK
  <2>3. \A q \in Requests : visit'[q] = P!Idle
    BY <2>1, Zenon
  <2>4. \A q \in Requests : VisitOK(visit'[q])
    BY <2>1, <2>3 DEF VisitOK
  <2>. QED
    BY <2>1, <2>2, <2>4 DEF VisitsOK, VisitOK
<1>3. CASE P!CleanupProxyCaches \/ P!Tick \/ P!InstanceChanges \/ UNCHANGED P!proxies
  BY <1>3 DEF P!CleanupProxyCaches, P!Tick, P!InstanceChanges, P!proxies, ProxiesTyped, VisitsOK,
              VisitOK
<1>. QED
  BY <1>1, <1>2, <1>3 DEF P!Next

\* The documents, and the monitors' jobs.
LEMMA BoxesStep ==
    ASSUME ProxiesTyped, [P!Next]_(P!proxies)
    PROVE  BoxesTyped'
<1>1. ASSUME NEW q \in Requests, P!CreateMonitorJob(q)
      PROVE  BoxesTyped'
  <2>1. visit[q].instance \in Boxes
    BY <1>1 DEF P!CreateMonitorJob, P!At, ProxiesTyped, VisitsOK, VisitOK, Underway
  <2>. QED
    BY <1>1, <2>1, ProxiesAssumption
       DEF P!CreateMonitorJob, ProxiesTyped, BoxesTyped, P!ConstantsOK
<1>2. CASE P!InstanceChanges
  <2>. DEFINE fresh == [host |-> Null, eth0 |-> Null, running |-> FALSE]
  <2>1. /\ instances \in [Boxes -> P!Maybe(P!Instance)] /\ monitors \subseteq Users
        /\ Null \in P!Maybe(P!Instance) /\ fresh \in P!Maybe(P!Instance)
    BY DEF ProxiesTyped, BoxesTyped, P!Maybe, P!Instance
  <2>2. ASSUME NEW d \in P!Maybe(P!Instance), d # Null
        PROVE  [d EXCEPT !.running = ~d.running] \in P!Maybe(P!Instance)
    BY <2>2 DEF P!Maybe, P!Instance
  <2>3. ASSUME NEW server \in P!Server
        PROVE  P!HostIp(server) \in P!Maybe(Targets)
    BY DEF P!Server, P!HostIp, P!Maybe
  <2>4. ASSUME NEW i \in Boxes, P!MonitorWrites(i)
        PROVE  BoxesTyped'
    <3>1. PICK server \in P!Server, mapped \in BOOLEAN, eth0 \in P!Maybe(Targets), running \in BOOLEAN :
             instances' = [instances EXCEPT ![i] =
                [host |-> IF mapped THEN P!HostIp(server) ELSE Null, eth0 |-> eth0,
                 running |-> running]]
      BY <2>4, Zenon DEF P!MonitorWrites
    <3>2. [host |-> IF mapped THEN P!HostIp(server) ELSE Null, eth0 |-> eth0,
           running |-> running] \in P!Maybe(P!Instance)
      BY <2>3 DEF P!Maybe, P!Instance
    <3>3. instances' \in [Boxes -> P!Maybe(P!Instance)]
      BY <2>1, <3>1, <3>2, Zenon
    <3>. QED
      BY <2>1, <2>4, <3>3 DEF P!MonitorWrites, BoxesTyped
  <2>5. ASSUME NEW i \in Boxes, monitors' = monitors,
               \/ instances' = [instances EXCEPT ![i] =
                     IF @ = Null THEN fresh ELSE [@ EXCEPT !.running = ~instances[i].running]]
               \/ instances' = [instances EXCEPT ![i] = Null]
        PROVE  BoxesTyped'
    <3>1. instances[i] \in P!Maybe(P!Instance)
      BY <2>1
    <3>2. instances[i] # Null
             => [instances[i] EXCEPT !.running = ~instances[i].running] \in P!Maybe(P!Instance)
      BY <2>2, <3>1, Zenon
    <3>3. (IF instances[i] = Null THEN fresh
           ELSE [instances[i] EXCEPT !.running = ~instances[i].running])
             \in P!Maybe(P!Instance)
      <4>. HIDE DEF fresh
      <4>. QED
        BY <2>1, <3>2, Zenon
    <3>4. instances' \in [Boxes -> P!Maybe(P!Instance)]
      <4>1. ASSUME NEW e \in P!Maybe(P!Instance), instances' = [instances EXCEPT ![i] = e]
            PROVE  instances' \in [Boxes -> P!Maybe(P!Instance)]
        BY <2>1, <4>1
      <4>2. CASE instances' = [instances EXCEPT ![i] = Null]
        BY <2>1, <4>1, <4>2, Zenon
      <4>3. CASE instances' = [instances EXCEPT ![i] =
                     IF @ = Null THEN fresh ELSE [@ EXCEPT !.running = ~instances[i].running]]
        <5>1. PICK e \in P!Maybe(P!Instance) :
                 e = IF instances[i] = Null THEN fresh
                     ELSE [instances[i] EXCEPT !.running = ~instances[i].running]
          BY <3>3, Zenon
        <5>. HIDE DEF fresh
        <5>2. instances' = [instances EXCEPT ![i] = e]
          BY <4>3, <5>1, Zenon
        <5>. QED
          BY <4>1, <5>2
      <4>. QED
        BY <2>5, <4>2, <4>3, Zenon
    <3>. QED
      BY <2>1, <2>5, <3>4 DEF BoxesTyped
  <2>. HIDE DEF fresh
  <2>6. ASSUME instances' = instances, NEW u \in monitors, monitors' = monitors \ {u}
        PROVE  BoxesTyped'
    BY <2>1, <2>6 DEF BoxesTyped
  <2>. QED
    BY <1>2, <2>4, <2>5, <2>6, Zenon DEF P!InstanceChanges, fresh
<1>3. CASE UNCHANGED <<instances, monitors>>
  BY <1>3 DEF ProxiesTyped, BoxesTyped
<1>4. ASSUME NEW q \in Requests,
             \/ P!Begin(q) \/ P!VerifyAccess(q) \/ P!Continue(q) \/ P!GetInstanceTarget(q)
             \/ P!GetContainerIP(q) \/ P!ExistingMonitorJob(q) \/ P!CreateProxy(q) \/ P!Again(q)
      PROVE  UNCHANGED <<instances, monitors>>
  BY <1>4, Zenon
     DEF P!Begin, P!VerifyAccess, P!Continue, P!GetInstanceTarget, P!GetContainerIP,
         P!ExistingMonitorJob, P!CreateProxy, P!Again
<1>5. P!CleanupProxyCaches \/ P!Tick \/ P!Restart \/ UNCHANGED P!proxies
         => UNCHANGED <<instances, monitors>>
  BY Zenon DEF P!CleanupProxyCaches, P!Tick, P!Restart, P!proxies
<1>. QED
  BY <1>1, <1>2, <1>3, <1>4, <1>5 DEF P!Next

\* The caches, and the time.
LEMMA CachesStep ==
    ASSUME ProxiesTyped, [P!Next]_(P!proxies)
    PROVE  CachesTyped'
<1>1. /\ caches \in [P!Kinds -> [Boxes -> P!Maybe(P!Proxy)]]
      /\ now \in 0..MaxTime /\ cleaned \in 0..now /\ now <= cleaned + TTL
      /\ MaxTime \in Nat /\ TTL \in Nat
  BY ProxiesAssumption DEF ProxiesTyped, CachesTyped, P!ConstantsOK
<1>2. [i \in Boxes |-> Null] \in [Boxes -> P!Maybe(P!Proxy)]
  BY DEF P!Maybe
<1>3. ASSUME NEW q \in Requests, P!Continue(q)
      PROVE  CachesTyped'
  <2>. DEFINE k == visit[q].kind
              i == visit[q].instance
              p == P!Touched(caches[k][i])
  <2>1. k \in P!Kinds /\ i \in Boxes
    BY <1>3 DEF P!Continue, P!At, ProxiesTyped, VisitsOK, VisitOK, Underway
  <2>2. \/ caches' = caches
        \/ caches[k][i] # Null /\ caches' = [caches EXCEPT ![k][i] = p]
    BY <1>3 DEF P!Continue
  <2>. HIDE DEF k, i
  <2>3. caches[k][i] # Null => p \in P!Maybe(P!Proxy)
    BY <1>1, <2>1 DEF P!Touched, P!Proxy, P!Maybe
  <2>. HIDE DEF p
  <2>4. caches' \in [P!Kinds -> [Boxes -> P!Maybe(P!Proxy)]]
    BY <1>1, <2>1, <2>2, <2>3
  <2>. QED
    BY <1>1, <1>3, <2>4 DEF P!Continue, CachesTyped
<1>4. ASSUME NEW q \in Requests, P!CreateProxy(q)
      PROVE  CachesTyped'
  <2>. DEFINE k == visit[q].kind
              i == visit[q].instance
              p == [target |-> visit[q].target, lastUsed |-> now]
  <2>1. k \in P!Kinds /\ i \in Boxes /\ visit[q].target \in Targets
    BY <1>4 DEF P!CreateProxy, P!At, ProxiesTyped, VisitsOK, VisitOK, Underway
  <2>2. caches' = [caches EXCEPT ![k][i] = p]
    BY <1>4 DEF P!CreateProxy
  <2>3. p \in P!Maybe(P!Proxy)
    BY <1>1, <2>1 DEF P!Proxy, P!Maybe
  <2>. HIDE DEF k, i, p
  <2>4. caches' \in [P!Kinds -> [Boxes -> P!Maybe(P!Proxy)]]
    BY <1>1, <2>1, <2>2, <2>3
  <2>. QED
    BY <1>1, <1>4, <2>4 DEF P!CreateProxy, CachesTyped
<1>5. CASE P!CleanupProxyCaches
  BY <1>1, <1>5 DEF P!CleanupProxyCaches, CachesTyped, P!Maybe
<1>6. CASE P!Restart
  BY <1>1, <1>2, <1>6 DEF P!Restart, CachesTyped
<1>7. CASE P!Tick
  BY <1>1, <1>7 DEF P!Tick, CachesTyped
<1>8. CASE UNCHANGED <<caches, now, cleaned>>
  BY <1>1, <1>8 DEF CachesTyped
<1>9. ASSUME NEW q \in Requests,
             \/ P!Begin(q) \/ P!VerifyAccess(q) \/ P!GetInstanceTarget(q) \/ P!GetContainerIP(q)
             \/ P!ExistingMonitorJob(q) \/ P!CreateMonitorJob(q) \/ P!Again(q)
      PROVE  UNCHANGED <<caches, now, cleaned>>
  BY <1>9, Zenon
     DEF P!Begin, P!VerifyAccess, P!GetInstanceTarget, P!GetContainerIP, P!ExistingMonitorJob,
         P!CreateMonitorJob, P!Again
<1>10. P!InstanceChanges \/ UNCHANGED P!proxies => UNCHANGED <<caches, now, cleaned>>
  BY Zenon DEF P!InstanceChanges, P!proxies
<1>. QED
  BY <1>3, <1>4, <1>5, <1>6, <1>7, <1>8, <1>9, <1>10 DEF P!Next

\* What is counted.
LEMMA CountsStep ==
    ASSUME ProxiesTyped, [P!Next]_(P!proxies)
    PROVE  CountsTyped'
<1>1. visits \in 0..MaxFew /\ moves \in 0..MaxChanges /\ MaxFew \in Nat /\ MaxChanges \in Nat
  BY ProxiesAssumption DEF ProxiesTyped, CountsTyped, P!ConstantsOK
<1>2. ASSUME NEW q \in Requests, P!Begin(q)  PROVE CountsTyped'
  BY <1>1, <1>2 DEF P!Begin, CountsTyped
<1>3. CASE P!Restart \/ P!InstanceChanges
  BY <1>1, <1>3 DEF P!Restart, P!InstanceChanges, CountsTyped
<1>4. CASE UNCHANGED <<visits, moves>>
  BY <1>1, <1>4 DEF CountsTyped
<1>5. ASSUME NEW q \in Requests,
             \/ P!VerifyAccess(q) \/ P!Continue(q) \/ P!GetInstanceTarget(q) \/ P!GetContainerIP(q)
             \/ P!ExistingMonitorJob(q) \/ P!CreateMonitorJob(q) \/ P!CreateProxy(q) \/ P!Again(q)
      PROVE  UNCHANGED <<visits, moves>>
  BY <1>5, Zenon
     DEF P!VerifyAccess, P!Continue, P!GetInstanceTarget, P!GetContainerIP, P!ExistingMonitorJob,
         P!CreateMonitorJob, P!CreateProxy, P!Again
<1>6. P!CleanupProxyCaches \/ P!Tick \/ UNCHANGED P!proxies => UNCHANGED <<visits, moves>>
  BY Zenon DEF P!CleanupProxyCaches, P!Tick, P!proxies
<1>. QED
  BY <1>2, <1>3, <1>4, <1>5, <1>6 DEF P!Next

\* The proxies' documents, caches and requests are of their types.
LEMMA ProxyTypes == PartsSpec => [](part = "proxies" => P!TypeOK)
<1>. DEFINE Inv == part = "proxies" => ProxiesTyped
<1>1. PartsInit => Inv
  <2>. SUFFICES ASSUME PartsInit, part = "proxies"
                PROVE  ProxiesTyped
    OBVIOUS
  <2>1. P!Init
    BY Zenon DEF PartsInit
  <2>2. VisitsOK
    <3>1. visit = [q \in Requests |-> P!Idle] /\ VisitOK(P!Idle)
      BY <2>1, VisitThrough DEF P!Init
    <3>2. P!Idle \in Visits
      BY <3>1 DEF VisitOK
    <3>. QED
      BY <3>1, <3>2, Zenon DEF VisitsOK
  <2>3. BoxesTyped
    <3>1. [host : {Null}, eth0 : P!Maybe(Targets), running : BOOLEAN] \subseteq P!Instance
      BY DEF P!Maybe, P!Instance
    <3>2. P!Maybe([host : {Null}, eth0 : P!Maybe(Targets), running : BOOLEAN])
             \subseteq P!Maybe(P!Instance)
      BY <3>1, Zenon DEF P!Maybe
    <3>3. /\ monitors = {}
          /\ instances \in
               [Boxes -> P!Maybe([host : {Null}, eth0 : P!Maybe(Targets), running : BOOLEAN])]
      BY <2>1, Zenon DEF P!Init
    <3>. HIDE DEF P!Maybe
    <3>. QED
      BY <3>2, <3>3 DEF BoxesTyped
  <2>4. CachesTyped /\ CountsTyped
    BY <2>1, ProxiesAssumption DEF P!Init, CachesTyped, CountsTyped, P!ConstantsOK, P!Maybe
  <2>. QED
    BY <2>2, <2>3, <2>4 DEF ProxiesTyped
<1>2. Inv /\ [PartsNext]_PartsVars => Inv'
  <2>1. part = "proxies" /\ [PartsNext]_PartsVars => [P!Next]_(P!proxies)
    BY Zenon DEF PartsNext, PartsVars, P!proxies, proxies
  <2>2. ProxiesTyped /\ [P!Next]_(P!proxies) => ProxiesTyped'
    BY VisitsStep, BoxesStep, CachesStep, CountsStep, Zenon DEF ProxiesTyped
  <2>. QED
    BY <2>1, <2>2, PartKept
<1>3. Inv => (part = "proxies" => P!TypeOK)
  BY DEF ProxiesTyped, VisitsOK, Visits, BoxesTyped, CachesTyped, CountsTyped, P!TypeOK
<1>. QED
  BY <1>1, <1>2, <1>3, PTL DEF PartsSpec

\* What accounts, devices and requests of Accounts and Authenticators are: the
\* invariants above say it.
LEMMA AccountTypes == PartsSpec => [](part = "accounts" => U!TypeOK)
<1>1. AccountsInv => U!TypeOK
  BY Zenon DEF AccountsInv, AccountsTyped, DocsTyped, U!TypeOK
<1>. QED
  BY <1>1, AccountsLast, PTL

\* Devices, challenges and requests: the invariant of Authenticators says it.
LEMMA CeremonyTypes == PartsSpec => [](part = "authenticators" => W!TypeOK)
<1>1. DevicesInv => W!TypeOK
  BY Zenon DEF DevicesInv
<1>. QED
  BY <1>1, DevicesLast, PTL

-----------------------------------------------------------------------------
\* What is counted of enrolments.
ClicksTyped == clicks \in 0..MaxClicks /\ efaults \in 0..MaxFaults

\* Every step of a tab, of the server and of other browsers.
LEMMA ClicksStep == ClicksTyped /\ [B!Next]_(B!enrolment) => ClicksTyped'
<1>. SUFFICES ASSUME ClicksTyped, [B!Next]_(B!enrolment)
              PROVE  ClicksTyped'
  OBVIOUS
<1>1. MaxClicks \in Nat /\ MaxFaults \in Nat
  BY EnrolmentsAssumption DEF B!ConstantsOK
<1>2. ASSUME clicks' = clicks \/ B!Click, efaults' = efaults \/ B!Fault
      PROVE  ClicksTyped'
  BY <1>1, <1>2 DEF ClicksTyped, B!Click, B!Fault
<1>4. ASSUME NEW t \in Tabs,
             \/ \E page \in B!Pages : B!Open(t, page)
             \/ B!Go(t) \/ B!WhoAmI(t) \/ B!LogOut(t) \/ B!AskWebauthn(t) \/ B!Leave(t)
             \/ \E u \in Everybody : B!LogIn(t, u) \/ B!Authenticate(t, u)
             \/ B!Register(t) \/ B!Prompted(t) \/ B!FetchWebAuthnID(t) \/ B!HandleDeleteDevice(t)
      PROVE  ClicksTyped'
  <2>1. (clicks' = clicks \/ B!Click) /\ (efaults' = efaults \/ B!Fault)
    BY <1>4, Zenon
       DEF B!Open, B!Go, B!WhoAmI, B!LogOut, B!AskWebauthn, B!Leave, B!LogIn, B!Authenticate,
           B!Register, B!Prompted, B!FetchWebAuthnID, B!HandleDeleteDevice
  <2>. QED
    BY <1>2, <2>1
<1>5. ASSUME NEW t \in Tabs, B!ActOnAnswer(t) \/ B!Verified(t) \/ B!Known(t) \/ B!FetchedWebAuthnID(t)
      PROVE  ClicksTyped'
  <2>1. clicks' = clicks /\ (efaults' = efaults \/ B!Fault)
    BY <1>5, Zenon
       DEF B!ActOnAnswer, B!Verified, B!Known, B!FetchedWebAuthnID, B!Enrol, B!SetCredentials
  <2>. QED
    BY <1>2, <2>1
<1>6. ASSUME NEW u \in Everybody, B!Elsewhere(u)
      PROVE  ClicksTyped'
  BY <1>2, <1>6 DEF B!Elsewhere
<1>7. CASE UNCHANGED B!enrolment
  BY <1>2, <1>7 DEF B!enrolment
<1>. QED
  BY <1>4, <1>5, <1>6, <1>7 DEF B!Next

\* The tabs, the browser's list and the machines are of their types.
LEMMA EnrolmentTypes == PartsSpec => [](part = "enrolments" => B!TypeOK)
<1>. DEFINE Inv == part = "enrolments" => ClicksTyped
<1>1. PartsInit => Inv
  <2>1. PartsInit /\ part = "enrolments" => B!Init
    BY Zenon DEF PartsInit
  <2>2. B!Init => ClicksTyped
    <3>1. MaxClicks \in Nat /\ MaxFaults \in Nat
      BY EnrolmentsAssumption DEF B!ConstantsOK
    <3>2. B!Init => clicks = 0 /\ efaults = 0
      BY Zenon DEF B!Init
    <3>. QED
      <4>1. 0 \in 0..MaxClicks /\ 0 \in 0..MaxFaults
        BY <3>1
      <4>. QED
        BY <3>2, <4>1, Zenon DEF ClicksTyped
  <2>. QED
    BY <2>1, <2>2
<1>2. Inv /\ [PartsNext]_PartsVars => Inv'
  <2>1. part = "enrolments" /\ [PartsNext]_PartsVars => [B!Next]_(B!enrolment)
    BY Zenon DEF PartsNext, PartsVars, B!enrolment, enrolment
  <2>. QED
    BY <2>1, PartKept, ClicksStep
<1>3. EnrolmentsInv /\ ClicksTyped => B!TypeOK
  <2>1. tabs \in [Tabs -> FitTab] => tabs \in [Tabs -> B!Tab]
    BY DEF FitTab
  <2>. QED
    BY <2>1, Zenon DEF EnrolmentsInv, EnrolmentsTyped, ClicksTyped, B!TypeOK
<1>. QED
  BY <1>1, <1>2, <1>3, EnrolmentsLast, PTL DEF PartsSpec

-----------------------------------------------------------------------------
(* Parts that are proved about by themselves.                              *)

LP == INSTANCE LeasesProofs WITH Instances <- Leased, MaxTime <- MaxHeld

SP == INSTANCE SessionsProofs WITH
        Keys <- Pubkeys, OwnerOf <- HolderOf, MaxBegun <- MaxFew,
        users <- people, keys <- pubkeys, tokens <- access, req <- call, begun <- calls,
        faults <- sfaults

\* What a part does here is what it does by itself: instances and their lives ...
LEMMA LeasesRun ==
    /\ LP!ConstantsOK
    /\ PartsInit /\ part = "leases" => LP!Init
    /\ part = "leases" /\ [PartsNext]_PartsVars => [LP!Next]_(LP!leasing)
<1>1. LP!ConstantsOK
  BY LeasesAssumption, Zenon DEF L!ConstantsOK, LP!ConstantsOK, L!IsFiniteSet, LP!IsFiniteSet
<1>2. PartsInit /\ part = "leases" => LP!Init
  BY Zenon DEF PartsInit,
       L!Init, LP!Init, L!Free, LP!Free
<1>3. part = "leases" /\ [PartsNext]_PartsVars => [LP!Next]_(LP!leasing)
  <2>1. L!Next => LP!Next
    BY Zenon DEF
       L!Next, LP!Next, L!GetInstances, LP!GetInstances, L!RefreshMonitors,
       LP!RefreshMonitors, L!Listed, LP!Listed, L!CreateInstance, LP!CreateInstance,
       L!StartStopInstance, LP!StartStopInstance, L!RestartInstance, LP!RestartInstance,
       L!EditInstance, LP!EditInstance, L!DeleteInstance, LP!DeleteInstance,
       L!FindToExtend, LP!FindToExtend, L!ExtendInstanceLifespan,
       LP!ExtendInstanceLifespan, L!PostJob, LP!PostJob, L!Die, LP!Die, L!StopExpired,
       LP!StopExpired, L!StopFails, LP!StopFails, L!EndLife, LP!EndLife, L!StatusFound,
       LP!StatusFound, L!Tick, LP!Tick, L!Is, LP!Is, L!Starts, LP!Starts, L!Becomes,
       LP!Becomes, L!Free, LP!Free, L!Shown, LP!Shown, L!Expired, LP!Expired, L!ToEnd,
       LP!ToEnd, L!Allowed, LP!Allowed, L!Fresh, LP!Fresh, L!Write, LP!Write, L!Post,
       LP!Post, L!Exists, LP!Exists, L!Extending, LP!Extending, L!Statuses, LP!Statuses,
       L!Remaining, LP!Remaining, L!Extended, LP!Extended, L!Unwritten, LP!Unwritten,
       L!SeenStopped, LP!SeenStopped, L!Cardinality, LP!Cardinality
  <2>. QED
    BY <2>1, Zenon DEF PartsNext, PartsVars, LP!leasing, leasing
<1>. QED
  BY <1>1, <1>2, <1>3

\* Instances beyond the quota were admitted while another creation was under way
\* (one started again after its deletion is not counted with them), and a life is
\* longer than asked for where an extension met a restart alone
\* (createInstance, restartInstance, extendInstanceLifespan).
THEOREM LeasesStayBounded == PartsSpec => []LeasesBounded
<1>. DEFINE On == part = "leases"
<1>1. On /\ [PartsNext]_PartsVars => On'
  BY PartKept
<1>2. ~On /\ [PartsNext]_PartsVars => (~On)'
  BY PartKept
<1>3. LP!Spec => []LP!LeasesBounded
  BY LeasesRun, LP!LeasesStayBounded
<1>4. LP!LeasesBounded => L!LeasesBounded
  BY Zenon DEF
       L!LeasesBounded, LP!LeasesBounded, L!OvershootBounded, LP!OvershootBounded,
       L!LifeBounded, LP!LifeBounded, L!Is, LP!Is, L!Shown, LP!Shown, L!Exists,
       LP!Exists, L!Remaining, LP!Remaining, L!Cardinality, LP!Cardinality
<1>5. (On => L!LeasesBounded) => LeasesBounded
  BY DEF LeasesBounded
<1>. QED
  BY <1>1, <1>2, <1>3, <1>4, <1>5, LeasesRun, PTL DEF PartsSpec, LP!Spec

\* The instances, tasks and counts of Leases are of their types.
LEMMA LeaseTypes == PartsSpec => [](part = "leases" => L!TypeOK)
<1>. DEFINE On == part = "leases"
<1>1. On /\ [PartsNext]_PartsVars => On'
  BY PartKept
<1>2. ~On /\ [PartsNext]_PartsVars => (~On)'
  BY PartKept
<1>3. LP!Spec => []LP!TypeOK
  BY LeasesRun, LP!LeasesAreTyped
<1>4. LP!TypeOK => L!TypeOK
  BY Zenon DEF
       L!TypeOK, LP!TypeOK, L!Lease, LP!Lease, L!Jobs, LP!Jobs, L!Steps, LP!Steps,
       L!Statuses, LP!Statuses
<1>5. (On => L!TypeOK) => (part = "leases" => L!TypeOK)
  OBVIOUS
<1>. QED
  BY <1>1, <1>2, <1>3, <1>4, <1>5, LeasesRun, PTL DEF PartsSpec, LP!Spec

\* ... and sessions and the calls that come with them.
LEMMA SessionsRun ==
    /\ SP!ConstantsOK
    /\ PartsInit /\ part = "sessions" => SP!Init
    /\ part = "sessions" /\ [PartsNext]_PartsVars => [SP!Next]_(SP!vars)
<1>1. SP!ConstantsOK
  BY SessionsAssumption, Zenon DEF S!ConstantsOK, SP!ConstantsOK
<1>2. PartsInit /\ part = "sessions" => SP!Init
  BY Zenon DEF PartsInit,
       S!Init, SP!Init, S!Maybe, SP!Maybe, S!Idle, SP!Idle
<1>3. part = "sessions" /\ [PartsNext]_PartsVars => [SP!Next]_(SP!vars)
  <2>1. S!Next => SP!Next
    BY Zenon DEF
       S!Next, SP!Next, S!Maybe, SP!Maybe, S!Arrive, SP!Arrive, S!DeserialiseUser,
       SP!DeserialiseUser, S!DeserialiseFails, SP!DeserialiseFails,
       S!TokenAuthentication, SP!TokenAuthentication, S!TokenFails, SP!TokenFails,
       S!UserRetrieval, SP!UserRetrieval, S!GuestProtection, SP!GuestProtection,
       S!Handle, SP!Handle, S!Log, SP!Log, S!LogAgain, SP!LogAgain, S!LogFails,
       SP!LogFails, S!Answer, SP!Answer, S!Rename, SP!Rename, S!DeleteUser,
       SP!DeleteUser, S!IssueSystemAccessToken, SP!IssueSystemAccessToken,
       S!DeletePubkey, SP!DeletePubkey, S!Lapse, SP!Lapse, S!At, SP!At, S!Goto, SP!Goto,
       S!Idle, SP!Idle, S!LiveUsers, SP!LiveUsers, S!LiveKeys, SP!LiveKeys, S!docs,
       SP!docs, S!Then, SP!Then, S!Deserialised, SP!Deserialised, S!rest, SP!rest,
       S!Fault, SP!Fault, S!Hang, SP!Hang, S!KeyFound, SP!KeyFound, S!Barred, SP!Barred,
       S!Left, SP!Left, S!Login, SP!Login, S!FindUser, SP!FindUser, S!FindKey,
       SP!FindKey, S!IssueAccessToken, SP!IssueAccessToken, S!OpenSession,
       SP!OpenSession, S!Logout, SP!Logout, S!SessionStoreFails, SP!SessionStoreFails,
       S!SetChallenge, SP!SetChallenge, S!GiveToken, SP!GiveToken, S!GetUser, SP!GetUser,
       S!GetUserKeys, SP!GetUserKeys, S!GetUsers, SP!GetUsers, S!ValidateResetPassword,
       SP!ValidateResetPassword, S!GetLogs, SP!GetLogs, S!RequestExpiryDate,
       SP!RequestExpiryDate, S!OtherCall, SP!OtherCall, S!FileDownload, SP!FileDownload,
       S!Logged, SP!Logged, S!Ended, SP!Ended, S!Stored, SP!Stored, S!Named, SP!Named,
       S!Change, SP!Change, S!Finish, SP!Finish, S!Candidates, SP!Candidates, S!Horizon,
       SP!Horizon, S!VerifyTOTP, SP!VerifyTOTP, S!Reply, SP!Reply, S!MayAskAbout,
       SP!MayAskAbout, S!Counter, SP!Counter
  <2>. QED
    BY <2>1, Zenon DEF PartsNext, PartsVars, SP!vars, serving
<1>. QED
  BY <1>1, <1>2, <1>3

\* No cookie whose session was closed opens one again, although requests that
\* began before still hold it (logout, the session store).
THEOREM LogoutStaysFinal == PartsSpec => []LogoutIsFinal
<1>. DEFINE On == part = "sessions"
<1>1. On /\ [PartsNext]_PartsVars => On'
  BY PartKept
<1>2. ~On /\ [PartsNext]_PartsVars => (~On)'
  BY PartKept
<1>3. SP!Spec => []SP!LogoutIsFinal
  BY SessionsRun, SP!LogoutStaysFinal
<1>4. SP!LogoutIsFinal => S!LogoutIsFinal
  BY Zenon DEF
       S!LogoutIsFinal, SP!LogoutIsFinal
<1>5. (On => S!LogoutIsFinal) => LogoutIsFinal
  BY DEF LogoutIsFinal
<1>. QED
  BY <1>1, <1>2, <1>3, <1>4, <1>5, SessionsRun, PTL DEF PartsSpec, SP!Spec

\* Whoever a request acts as was live with the key it used when it began, and no
\* call is answered as a success that the log does not show as one
\* (tokenAuthentication, userRetrieval, the middleware of the API).
THEOREM CallsAreAccounted == PartsSpec => []CallsAccounted
<1>. DEFINE On == part = "sessions"
<1>1. On /\ [PartsNext]_PartsVars => On'
  BY PartKept
<1>2. ~On /\ [PartsNext]_PartsVars => (~On)'
  BY PartKept
<1>3. SP!Spec => []SP!CallsAccounted
  BY SessionsRun, SP!CallsAreAccounted
<1>4. SP!CallsAccounted => S!CallsAccounted
  BY Zenon DEF
       S!CallsAccounted, SP!CallsAccounted, S!ActsAsLive, SP!ActsAsLive, S!CodeHolds,
       SP!CodeHolds, S!SuccessIsLogged, SP!SuccessIsLogged, S!Maybe, SP!Maybe, S!Horizon,
       SP!Horizon, S!VerifyTOTP, SP!VerifyTOTP, S!Counter, SP!Counter
<1>5. (On => S!CallsAccounted) => CallsAccounted
  BY DEF CallsAccounted
<1>. QED
  BY <1>1, <1>2, <1>3, <1>4, <1>5, SessionsRun, PTL DEF PartsSpec, SP!Spec

\* The accounts, sessions and requests of Sessions are of their types.
LEMMA CallTypes == PartsSpec => [](part = "sessions" => S!TypeOK)
<1>. DEFINE On == part = "sessions"
<1>1. On /\ [PartsNext]_PartsVars => On'
  BY PartKept
<1>2. ~On /\ [PartsNext]_PartsVars => (~On)'
  BY PartKept
<1>3. SP!Spec => []SP!TypeOK
  BY SessionsRun, SP!CallsAreTyped
<1>4. SP!TypeOK => S!TypeOK
  BY Zenon DEF
       S!TypeOK, SP!TypeOK, S!User, SP!User, S!Key, SP!Key, S!Token, SP!Token, S!Maybe,
       SP!Maybe, S!Request, SP!Request, S!Steps, SP!Steps, S!Calls, SP!Calls, S!Outcomes,
       SP!Outcomes
<1>5. (On => S!TypeOK) => (part = "sessions" => S!TypeOK)
  OBVIOUS
<1>. QED
  BY <1>1, <1>2, <1>3, <1>4, <1>5, SessionsRun, PTL DEF PartsSpec, SP!Spec
=============================================================================
