------------------------------ MODULE Proxies ------------------------------
(***************************************************************************)
(* HTTP requests to Jupyter and MATLAB, forwarded to the instance by the   *)
(* API server, and the two caches of proxies it forwards them through      *)
(* (lxd/index.ts, getContainerIP of instanceCore.ts).                      *)
(*                                                                         *)
(* A request reads the instance's document to check its owner, and reads   *)
(* it again, once or twice, when no proxy is cached; the document changes  *)
(* between the reads.  A target is the address and port of an instance.    *)
(* Left out: the limit of the rate, headers, paths and bodies, and what    *)
(* happens to a request once forwarded.                                    *)
(***************************************************************************)
EXTENDS Integers

CONSTANTS
    Users,
    Instances,
    OwnerOf,    \* the user of each instance
    Targets,
    Requests,
    TTL,        \* PROXY_CACHE_TTL, which is also the time between two cleanups
    MaxBegun,   \* bound on the requests begun
    MaxChanges, \* bound on the changes of instances and jobs
    MaxTime,    \* bound on the time that passes
    Null

\* What the constants are meant to be.
ConstantsOK ==
    /\ OwnerOf \in [Instances -> Users]
    /\ TTL \in Nat \ {0}
    /\ MaxBegun \in Nat /\ MaxChanges \in Nat /\ MaxTime \in Nat
    /\ Null \notin Users \cup Instances \cup Targets

VARIABLES
    instances, \* instance_collection
    monitors,  \* the users whose monitor job is PENDING
    caches,    \* proxyCache and vncProxyCache
    req,       \* progress of each request
    now, cleaned,  \* the time, and the time of the last cleanup
    begun, changes

proxies == <<instances, monitors, caches, req, now, cleaned, begun, changes>>

-----------------------------------------------------------------------------

Kinds == {"jupyter", "vnc"}
Maybe(S) == S \cup {Null}

\* What the document says of the instance's whereabouts: the mapped port of
\* its host, if the host's address is known, and its own address.
Instance == [host : Maybe(Targets), eth0 : Maybe(Targets), running : BOOLEAN]
Proxy == [target : Targets, lastUsed : 0..MaxTime]

Steps == {"idle", "verifying", "verified", "seeking", "asking", "monitoring",
          "posting", "found", "denied", "failed", "forwarded"}
Idle == [step |-> "idle", kind |-> Null, user |-> Null, instance |-> Null, target |-> Null]

Goes(q, r) == req' = [req EXCEPT ![q] = r]
At(q, step) == req[q].step = step
To(q, step) == Goes(q, [req[q] EXCEPT !.step = step])

\* The handler is through.
Through(q, outcome) == Goes(q, [Idle EXCEPT !.step = outcome])

-----------------------------------------------------------------------------
(* jupyterProxyMiddleware and vncProxyMiddleware.                          *)

Init ==
    /\ instances \in [Instances -> Maybe([host : {Null}, eth0 : Maybe(Targets), running : BOOLEAN])]
    /\ monitors = {}
    /\ caches = [kind \in Kinds |-> [i \in Instances |-> Null]]
    /\ req = [q \in Requests |-> Idle]
    /\ now = 0 /\ cleaned = 0 /\ begun = 0 /\ changes = 0

\* A request of a user, or of nobody.
Begin(q) ==
    /\ At(q, "idle") /\ begun < MaxBegun
    /\ begun' = begun + 1
    /\ \E kind \in Kinds, u \in Maybe(Users), i \in Instances :
         Goes(q, [Idle EXCEPT !.step = "verifying", !.kind = kind, !.user = u, !.instance = i])
    /\ UNCHANGED <<instances, monitors, caches, now, cleaned, changes>>

\* verifyInstanceAccess
Owns(u, i) == instances[i] # Null /\ OwnerOf[i] = u
VerifyAccess(q) ==
    /\ At(q, "verifying")
    /\ IF Owns(req[q].user, req[q].instance) THEN To(q, "verified")
       ELSE Through(q, "denied")
    /\ UNCHANGED <<instances, monitors, caches, now, cleaned, begun, changes>>

Touched(proxy) == [proxy EXCEPT !.lastUsed = now]

\* The handler goes on: a cached proxy forwards the request at once.
Continue(q) ==
    LET kind == req[q].kind
        i == req[q].instance
    IN  /\ At(q, "verified")
        /\ IF caches[kind][i] = Null
           THEN To(q, "seeking") /\ UNCHANGED caches
           ELSE /\ caches' = [caches EXCEPT ![kind][i] = Touched(@)]
                /\ Through(q, "forwarded")
        /\ UNCHANGED <<instances, monitors, now, cleaned, begun, changes>>

\* getInstanceTarget: the host, if it is known, or else the container.
GetInstanceTarget(q) ==
    LET doc == instances[req[q].instance]
    IN  /\ At(q, "seeking")
        /\ IF doc = Null THEN Through(q, "failed")
           ELSE IF doc.host # Null
           THEN Goes(q, [req[q] EXCEPT !.step = "found", !.target = doc.host])
           ELSE To(q, "asking")
        /\ UNCHANGED <<instances, monitors, caches, now, cleaned, begun, changes>>

\* getContainerIP: the address, if the instance runs and it is known.
GetContainerIP(q) ==
    LET doc == instances[req[q].instance]
    IN  /\ At(q, "asking")
        /\ IF doc = Null \/ ~doc.running THEN Through(q, "failed")
           ELSE IF doc.eth0 # Null
           THEN Goes(q, [req[q] EXCEPT !.step = "found", !.target = doc.eth0])
           ELSE To(q, "monitoring")
        /\ UNCHANGED <<instances, monitors, caches, now, cleaned, begun, changes>>

\* ... or, for want of an address, a monitor job, unless one is PENDING.
ExistingMonitorJob(q) ==
    /\ At(q, "monitoring")
    /\ IF OwnerOf[req[q].instance] \in monitors THEN Through(q, "failed")
       ELSE To(q, "posting")
    /\ UNCHANGED <<instances, monitors, caches, now, cleaned, begun, changes>>

CreateMonitorJob(q) ==
    /\ At(q, "posting")
    /\ monitors' = monitors \cup {OwnerOf[req[q].instance]}
    /\ Through(q, "failed")
    /\ UNCHANGED <<instances, caches, now, cleaned, begun, changes>>

\* A proxy is made, replacing one that was cached in the meantime, and
\* forwards the request (updateProxyCache, updateVncProxyCache).
CreateProxy(q) ==
    /\ At(q, "found")
    /\ caches' = [caches EXCEPT ![req[q].kind][req[q].instance] =
                      [target |-> req[q].target, lastUsed |-> now]]
    /\ Through(q, "forwarded")
    /\ UNCHANGED <<instances, monitors, now, cleaned, begun, changes>>

\* The client asks again.
Again(q) ==
    /\ req[q].step \in {"denied", "failed", "forwarded"}
    /\ Goes(q, Idle)
    /\ UNCHANGED <<instances, monitors, caches, now, cleaned, begun, changes>>

-----------------------------------------------------------------------------
(* The caches, the documents and the time.                                 *)

\* cleanupProxyCaches
\* Mutant of Stale: twice the time.
StaleLater(proxy) == proxy # Null /\ now - proxy.lastUsed > 2 * TTL
Stale(proxy) == proxy # Null /\ now - proxy.lastUsed > TTL
CleanupProxyCaches ==
    /\ now = cleaned + TTL
    /\ cleaned' = now
    /\ caches' = [kind \in Kinds |-> [i \in Instances |->
                     IF Stale(caches[kind][i]) THEN Null ELSE caches[kind][i]]]
    /\ UNCHANGED <<instances, monitors, req, now, begun, changes>>

\* The interval of the cleanup is never late for long: it comes before the
\* time goes on (initializeProxyCacheCleanup).
Tick ==
    /\ now < cleaned + TTL /\ now < MaxTime
    /\ now' = now + 1
    /\ UNCHANGED <<instances, monitors, caches, req, cleaned, begun, changes>>

\* The server ends (stopProxyCacheCleanup) and starts again.
Restart ==
    /\ changes < MaxChanges
    /\ changes' = changes + 1
    /\ caches' = [kind \in Kinds |-> [i \in Instances |-> Null]]
    /\ req' = [q \in Requests |-> Idle]
    /\ cleaned' = now
    /\ UNCHANGED <<instances, monitors, now, begun>>

\* What the LXD server tells the monitor about the place of an instance.
Server == [cert : BOOLEAN, key : BOOLEAN, located : BOOLEAN, clustered : BOOLEAN,
           public : Maybe(Targets), url : Maybe(Targets), address : Maybe(Targets),
           endpoint : Targets]

\* initializeLXDClient: without a certificate or its key there is no client,
\* and whatever is asked of it fails.
Initialized(server) == server.cert /\ server.key

\* getInstanceLocation
Located(server) == Initialized(server) /\ server.located

\* getInstanceHostIp: the public address of the member of the cluster the
\* instance is on, or the one of its URL, or else the server's, whatever the
\* member said, or the endpoint's.
HostIp(server) ==
    IF server.clustered /\ server.public # Null THEN server.public
    ELSE IF server.clustered /\ server.url # Null THEN server.url
    ELSE IF server.address # Null THEN server.address
    ELSE server.endpoint

\* updateInstanceState: an instance LXD does not say everything about is left
\* as it is.  A document may lack the mapped port of the host.
MonitorWrites(i) ==
    /\ instances[i] # Null
    /\ \E server \in Server, mapped \in BOOLEAN, eth0 \in Maybe(Targets), running \in BOOLEAN :
         /\ Located(server)
         /\ instances' = [instances EXCEPT ![i] =
                [host |-> IF mapped THEN HostIp(server) ELSE Null, eth0 |-> eth0, running |-> running]]
    /\ UNCHANGED monitors

\* Instances are made, started and stopped, and removed; the monitor's job is
\* done or cancelled.
InstanceChanges ==
    /\ changes < MaxChanges
    /\ changes' = changes + 1
    /\ \/ \E i \in Instances :
            \/ MonitorWrites(i)
            \/ /\ instances' = [instances EXCEPT ![i] =
                      IF @ = Null THEN [host |-> Null, eth0 |-> Null, running |-> FALSE]
                      ELSE [@ EXCEPT !.running = ~instances[i].running]]
               /\ UNCHANGED monitors
            \/ instances' = [instances EXCEPT ![i] = Null] /\ UNCHANGED monitors
       \/ /\ \E u \in monitors : monitors' = monitors \ {u}
          /\ UNCHANGED instances
    /\ UNCHANGED <<caches, req, now, cleaned, begun>>

Next ==
    \/ \E q \in Requests :
         \/ Begin(q) \/ VerifyAccess(q) \/ Continue(q) \/ GetInstanceTarget(q)
         \/ GetContainerIP(q) \/ ExistingMonitorJob(q) \/ CreateMonitorJob(q)
         \/ CreateProxy(q) \/ Again(q)
    \/ CleanupProxyCaches \/ Tick \/ Restart \/ InstanceChanges

Spec == Init /\ [][Next]_proxies

-----------------------------------------------------------------------------
(* Properties.                                                             *)

\* The type invariant, and that no proxy was used in the future.
TypeOK ==
    /\ instances \in [Instances -> Maybe(Instance)]
    /\ monitors \subseteq Users
    /\ caches \in [Kinds -> [Instances -> Maybe(Proxy)]]
    /\ req \in [Requests -> [step : Steps, kind : Maybe(Kinds), user : Maybe(Users),
                             instance : Maybe(Instances), target : Maybe(Targets)]]
    /\ now \in 0..MaxTime /\ cleaned \in 0..now /\ now <= cleaned + TTL
    /\ begun \in 0..MaxBegun /\ changes \in 0..MaxChanges

\* A proxy nobody uses is gone after twice the time it is kept for: one that
\* is just not old enough for one cleanup is too old for the next
\* (cleanupProxyCaches, PROXY_CACHE_TTL).
ProxiesExpire ==
    \A kind \in Kinds, i \in Instances :
        caches[kind][i] # Null => now - caches[kind][i].lastUsed <= 2 * TTL
=============================================================================
