------------------------------- MODULE Leases -------------------------------
(***************************************************************************)
(* How many instances a user may have and how long they live: the quota,   *)
(* the end of a life span, its extension, restarts and edits               *)
(* (instanceCore.ts, instanceProcedure.ts).                                *)
(*                                                                         *)
(* Module LxdInstances has the jobs and what becomes of them; here a job   *)
(* is posted and that is all.  Every access to a document is a step.  CPU, *)
(* memory and disk space are checked as the number of instances is, and    *)
(* may refuse any creation; the quota itself does not change.              *)
(***************************************************************************)
EXTENDS Integers, FiniteSets

CONSTANTS
    Instances,  \* ids
    Quota,      \* defaultLXDMaximumInstances
    Enough,     \* the seven days of which no more may be left for an extension
    MaxLife,    \* bound on the life spans asked for
    MaxMore,    \* bound on the extensions asked for
    Requests,
    MaxBegun,   \* bound on the requests begun
    MaxTime,    \* bound on the time that passes
    MaxFaults,  \* bound on requests that die
    Null

\* What the constants are meant to be.
ConstantsOK ==
    /\ Quota \in Nat /\ Enough \in Nat /\ MaxLife \in Nat \ {0} /\ MaxMore \in Nat \ {0}
    /\ MaxBegun \in Nat /\ MaxTime \in Nat /\ MaxFaults \in Nat
    /\ IsFiniteSet(Requests) /\ Requests # {} /\ Null \notin Instances

VARIABLES
    leases,     \* instance_collection: the documents of one user
    posted,     \* the kinds of jobs asked for
    tasks,      \* progress of each request
    time, started, died,
    crossed,    \* instances restarted while an extension was under way (history)
    revived     \* instances that came back from their deletion (history)

leasing == <<leases, posted, tasks, time, started, died, crossed, revived>>

-----------------------------------------------------------------------------

Statuses == {"PENDING", "STARTING", "STOPPING", "RUNNING", "STOPPED", "FAILED", "DELETED"}
\* Life spans grow with every extension.
Lease == [status : Statuses, made : Nat, life : Nat]
Jobs == {"create", "start", "stop", "update", "delete", "monitor"}

\* What is left of a life span (getInstances, extendInstanceLifespan).
Remaining(lease) == lease.life - (time - lease.made)

Steps == {"idle", "list", "expire", "checked", "post", "extend"}
Free == [step |-> "idle", creates |-> FALSE, seen |-> <<>>, instance |-> Null, job |-> Null]
Becomes(q, t) == tasks' = [tasks EXCEPT ![q] = t]
Is(q, step) == tasks[q].step = step

Init ==
    /\ leases = [i \in Instances |-> Null]
    /\ posted = {}
    /\ tasks = [q \in Requests |-> Free]
    /\ time = 0 /\ started = 0 /\ died = 0
    /\ crossed = {} /\ revived = {}

\* Begins a request whose first step is done at once.
Starts == /\ started < MaxBegun
          /\ started' = started + 1

Write(i, lease) ==
    /\ leases' = [leases EXCEPT ![i] = lease]
    /\ revived' = IF lease = Null THEN revived \ {i}
                  ELSE IF leases[i] # Null /\ leases[i].status = "DELETED" /\ lease.status # "DELETED"
                  THEN revived \cup {i} ELSE revived
Unwritten == UNCHANGED <<leases, revived>>
Exists(i) == leases[i] # Null

\* The last step of most requests: JobCore.createJob.
Post(q, job) == Becomes(q, [Free EXCEPT !.step = "post", !.job = job])

PostJob(q) ==
    /\ Is(q, "post")
    /\ posted' = posted \cup {tasks[q].job}
    /\ Becomes(q, Free)
    /\ UNCHANGED <<leases, time, started, died, crossed, revived>>

-----------------------------------------------------------------------------
(* getInstances, alone or on behalf of a creation.                         *)

Shown == {i \in Instances : Exists(i) /\ leases[i].status # "DELETED"}

GetInstances(q) ==
    /\ Is(q, "idle") /\ Starts
    /\ \E creates \in BOOLEAN :
         Becomes(q, [Free EXCEPT !.step = "list", !.creates = creates,
                                 !.seen = [i \in Shown |-> leases[i]]])
    /\ UNCHANGED <<leases, posted, time, died, crossed, revived>>

\* The monitor jobs are seen to; then the clock is read, once for all.  What
\* is left to do for the expired ones is in `seen`.
Expired(lease) == Remaining(lease) <= 0
RefreshMonitors(q) ==
    /\ Is(q, "list")
    /\ posted' = posted \cup {"monitor"}
    /\ Becomes(q, [tasks[q] EXCEPT !.step = "expire",
                       !.seen = [i \in DOMAIN @ |-> IF Expired(@[i]) THEN @[i] ELSE Null]])
    /\ UNCHANGED <<leases, time, started, died, crossed, revived>>

\* One that has come to its end is stopped, unless it was seen stopped ...
ToEnd(q) == {i \in DOMAIN tasks[q].seen : tasks[q].seen[i] # Null}
SeenStopped(lease) == lease.status \in {"STOPPED", "STOPPING", "FAILED"}
StopExpired(q, i) ==
    /\ Is(q, "expire") /\ i \in ToEnd(q)
    /\ ~SeenStopped(tasks[q].seen[i])
    /\ Exists(i)
    /\ Write(i, [leases[i] EXCEPT !.status = "STOPPING"])
    /\ posted' = posted \cup {"stop"}
    /\ Becomes(q, [tasks[q] EXCEPT !.seen[i].status = "STOPPING"])
    /\ UNCHANGED <<time, started, died, crossed>>

\* ... which fails when the document is gone, and the request with it ...
StopFails(q, i) ==
    /\ Is(q, "expire") /\ i \in ToEnd(q)
    /\ ~SeenStopped(tasks[q].seen[i])
    /\ ~Exists(i)
    /\ Becomes(q, Free)
    /\ UNCHANGED <<leases, posted, time, started, died, crossed, revived>>

\* ... and its life span is set to nothing.
EndLife(q, i) ==
    /\ Is(q, "expire") /\ i \in ToEnd(q)
    /\ SeenStopped(tasks[q].seen[i])
    /\ IF Exists(i) THEN Write(i, [leases[i] EXCEPT !.life = 0]) ELSE Unwritten
    /\ Becomes(q, [tasks[q] EXCEPT !.seen[i] = Null])
    /\ UNCHANGED <<posted, time, started, died, crossed>>

\* Mutant of Allowed: one more.
AllowedToo(n) == n <= Quota

\* checkQuotaBeforeCreation.
Allowed(n) == n + 1 <= Quota

\* The list is answered, or the quota checked by it.
Listed(q) ==
    /\ Is(q, "expire") /\ ToEnd(q) = {}
    /\ \/ /\ tasks[q].creates /\ Allowed(Cardinality(DOMAIN tasks[q].seen))
          /\ Becomes(q, [Free EXCEPT !.step = "checked"])
       \/ Becomes(q, Free)
    /\ UNCHANGED <<leases, posted, time, started, died, crossed, revived>>

-----------------------------------------------------------------------------
(* The other operations.                                                   *)

\* Ids are not given twice: one that is used again is one that nobody remembers.
Fresh(i) == ~Exists(i) /\ \A q \in Requests : i \notin DOMAIN tasks[q].seen

CreateInstance(q) ==
    /\ Is(q, "checked")
    /\ \E i \in Instances, life \in 1..MaxLife :
         /\ Fresh(i)
         /\ Write(i, [status |-> "PENDING", made |-> time, life |-> life])
         /\ Post(q, "create")
         /\ crossed' = crossed \ {i}
    /\ UNCHANGED <<posted, time, started, died>>

StartStopInstance(q) ==
    /\ Is(q, "idle") /\ Starts
    /\ \E i \in Instances, job \in {"start", "stop"} :
         /\ Exists(i)
         /\ Write(i, [leases[i] EXCEPT !.status = IF job = "start" THEN "STARTING" ELSE "STOPPING"])
         /\ Post(q, job)
    /\ UNCHANGED <<posted, time, died, crossed>>

\* Extensions of i that have read its life span and not written it yet.
Extending(i) == {q \in Requests : Is(q, "extend") /\ tasks[q].instance = i}

RestartInstance(q) ==
    /\ Is(q, "idle") /\ Starts
    /\ \E i \in Instances, life \in 1..MaxLife :
         /\ Exists(i)
         /\ Write(i, [status |-> "STARTING", made |-> time, life |-> life])
         /\ crossed' = IF Extending(i) = {} THEN crossed ELSE crossed \cup {i}
         /\ Post(q, "start")
    /\ UNCHANGED <<posted, time, died>>

\* An edit writes the fields it is given, the status and the life span among
\* them.
EditInstance(q) ==
    /\ Is(q, "idle") /\ Starts
    /\ \E i \in Instances :
         /\ Exists(i)
         /\ \/ \E life \in 1..MaxLife : Write(i, [leases[i] EXCEPT !.life = life])
            \/ \E status \in Statuses : Write(i, [leases[i] EXCEPT !.status = status])
         /\ Post(q, "update")
    /\ UNCHANGED <<posted, time, died, crossed>>

DeleteInstance(q) ==
    /\ Is(q, "idle") /\ Starts
    /\ \E i \in Instances :
         /\ Exists(i)
         /\ Write(i, [leases[i] EXCEPT !.status = "DELETED"])
         /\ Post(q, "delete")
    /\ UNCHANGED <<posted, time, died, crossed>>

\* extendInstanceLifespan reads and looks how much is left ...
FindToExtend(q) ==
    /\ Is(q, "idle") /\ Starts
    /\ \E i \in Instances :
         /\ Exists(i)
         /\ Remaining(leases[i]) <= Enough
         /\ Becomes(q, [Free EXCEPT !.step = "extend", !.instance = i,
                                    !.seen = [j \in {i} |-> leases[i]]])
    /\ UNCHANGED <<leases, posted, time, died, crossed, revived>>

Extended(q, more) == tasks[q].seen[tasks[q].instance].life + more
ExtendInstanceLifespan(q) ==
    /\ Is(q, "extend")
    /\ IF Exists(tasks[q].instance)
       THEN \E more \in 1..MaxMore :
              Write(tasks[q].instance, [leases[tasks[q].instance] EXCEPT !.life = Extended(q, more)])
       ELSE Unwritten
    /\ Becomes(q, Free)
    /\ UNCHANGED <<posted, time, started, died, crossed>>

-----------------------------------------------------------------------------
(* Everything else.                                                        *)

\* The monitor, or a job, writes the status it found or removes the document.
StatusFound ==
    /\ \E i \in Instances :
         /\ Exists(i)
         /\ \/ \E status \in {"RUNNING", "STOPPED", "FAILED"} :
                 leases[i].status # "DELETED" /\ Write(i, [leases[i] EXCEPT !.status = status])
            \/ leases[i].status = "DELETED" /\ Write(i, Null)
    /\ UNCHANGED <<posted, tasks, time, started, died, crossed>>

Tick ==
    /\ time < MaxTime
    /\ time' = time + 1
    /\ UNCHANGED <<leases, posted, tasks, started, died, crossed, revived>>

\* A request dies with the server, between any two steps.
Die(q) ==
    /\ ~Is(q, "idle") /\ died < MaxFaults
    /\ died' = died + 1
    /\ Becomes(q, Free)
    /\ UNCHANGED <<leases, posted, time, started, crossed, revived>>

Next ==
    \/ \E q \in Requests :
         \/ GetInstances(q) \/ RefreshMonitors(q) \/ Listed(q)
         \/ CreateInstance(q) \/ StartStopInstance(q) \/ RestartInstance(q)
         \/ EditInstance(q) \/ DeleteInstance(q) \/ FindToExtend(q)
         \/ ExtendInstanceLifespan(q) \/ PostJob(q) \/ Die(q)
         \/ \E i \in Instances : StopExpired(q, i) \/ StopFails(q, i) \/ EndLife(q, i)
    \/ StatusFound \/ Tick

Spec == Init /\ [][Next]_leasing

-----------------------------------------------------------------------------
(* Properties.                                                             *)

\* Type invariant.
TypeOK ==
    /\ leases \in [Instances -> Lease \cup {Null}]
    /\ posted \subseteq Jobs
    /\ \A q \in Requests :
         /\ tasks[q].step \in Steps /\ tasks[q].creates \in BOOLEAN
         /\ DOMAIN tasks[q].seen \subseteq Instances
         /\ \A i \in DOMAIN tasks[q].seen : tasks[q].seen[i] \in Lease \cup {Null}
         /\ tasks[q].instance \in Instances \cup {Null} /\ tasks[q].job \in Jobs \cup {Null}
    /\ time \in 0..MaxTime /\ started \in 0..MaxBegun /\ died \in 0..MaxFaults
    /\ crossed \subseteq Instances /\ revived \subseteq Instances

\* Creations that overlap may each find room for themselves, but n of them
\* take a user at most n - 1 instances over the quota, and one that runs by
\* itself none (checkQuotaBeforeCreation before createInstance).  Instances
\* started again after their deletion are not counted.
OvershootBounded ==
    LET passed == {q \in Requests : Is(q, "checked")}
    IN  Cardinality(Shown \ revived) + Cardinality(passed) <= Quota + Cardinality(Requests) - 1

\* Extensions do not pile up: whatever overlaps, no instance has more left to
\* live than was asked for it at once, or than an extension adds to the seven
\* days below which it is granted - unless it was restarted between the two
\* halves of an extension.
LifeBounded ==
    \A i \in Instances \ crossed :
        Exists(i) => Remaining(leases[i]) <= MaxLife \/ Remaining(leases[i]) <= Enough + MaxMore

\* All of it: neither instances nor their lives grow beyond what overlapping requests explain.
LeasesBounded == OvershootBounded /\ LifeBounded
=============================================================================
