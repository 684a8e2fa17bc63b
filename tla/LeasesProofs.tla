---------------------------- MODULE LeasesProofs ----------------------------
(***************************************************************************)
(* LeasesBounded of Leases, for all instances, requests and bounds.        *)
(***************************************************************************)
EXTENDS Leases, FiniteSetTheorems, TLAPS

-----------------------------------------------------------------------------
(* The inductive invariant.                                                *)

Slot == Lease \cup {Null}
Seen == UNION {[S -> Slot] : S \in SUBSET Instances}
Task == [step : Steps, creates : BOOLEAN, seen : Seen,
         instance : Instances \cup {Null}, job : Jobs \cup {Null}]

Typed ==
    /\ leases \in [Instances -> Slot]
    /\ tasks \in [Requests -> Task]
    /\ time \in Nat
    /\ revived \subseteq Instances

\* Requests that may still create an instance on the strength of a list they
\* have read already.
Admitted ==
    {q \in Requests :
        \/ Is(q, "checked")
        \/ /\ tasks[q].step \in {"list", "expire"} /\ tasks[q].creates
           /\ Allowed(Cardinality(DOMAIN tasks[q].seen))}

\* The instances and those still to come stay below the quota and the number
\* of requests.
QuotaKept ==
    /\ IsFiniteSet(Shown)
    /\ Cardinality(Shown \ revived) + Cardinality(Admitted) <= Quota + Cardinality(Requests) - 1

\* An extension under way has read a life span that is about to end, of the
\* life that its instance still has, unless it was restarted since.
Reading(q) ==
    LET i == tasks[q].instance  s == tasks[q].seen[i]
    IN  /\ i \in Instances /\ i \in DOMAIN tasks[q].seen /\ s \in Lease
        /\ s.life - (time - s.made) <= Enough
        /\ i \notin crossed /\ Exists(i) => leases[i].made = s.made

LivesKept ==
    /\ \A i \in Instances : Exists(i) => leases[i].made <= time
    /\ \A q \in Requests : Is(q, "extend") => Reading(q)

IInv == Typed /\ QuotaKept /\ LivesKept /\ LifeBounded

-----------------------------------------------------------------------------
(* The parts of a step.                                                    *)

LEMMA SeenIn ==
    ASSUME NEW S \in SUBSET Instances, NEW f \in [S -> Slot]
    PROVE  f \in Seen
  BY DEF Seen

LEMMA SeenOut ==
    ASSUME NEW f \in Seen
    PROVE  DOMAIN f \in SUBSET Instances /\ f \in [DOMAIN f -> Slot]
  BY DEF Seen

LEMMA FreeFacts ==
    /\ <<>> \in Seen /\ DOMAIN <<>> = {}
    /\ Free \in Task /\ Free.step = "idle"
    /\ \A job \in Jobs : /\ [Free EXCEPT !.step = "post", !.job = job] \in Task
                         /\ [Free EXCEPT !.step = "post", !.job = job].step = "post"
    /\ [Free EXCEPT !.step = "checked"] \in Task
    /\ [Free EXCEPT !.step = "checked"].step = "checked"
<1>1. DOMAIN <<>> = {} /\ <<>> \in [{} -> Slot]
  OBVIOUS
<1>2. <<>> \in Seen
  BY <1>1, SeenIn
<1>3. Free \in Task /\ Free.step = "idle"
  BY <1>2 DEF Free, Task, Steps
<1>. QED
  BY <1>1, <1>2, <1>3 DEF Task, Steps, Jobs

\* A request changes its own progress only.
LEMMA BecomesFacts ==
    ASSUME Typed, NEW q \in Requests, NEW t \in Task, Becomes(q, t)
    PROVE  /\ tasks' \in [Requests -> Task]
           /\ tasks'[q] = t
           /\ \A p \in Requests \ {q} : tasks'[p] = tasks[p]
  BY DEF Typed, Becomes

LEMMA TaskFacts ==
    ASSUME Typed, NEW q \in Requests
    PROVE  /\ tasks[q] \in Task /\ tasks[q].step \in Steps
           /\ tasks[q].seen \in Seen /\ tasks[q].instance \in Instances \cup {Null}
  BY DEF Typed, Task

LEMMA LeaseFacts ==
    ASSUME Typed, NEW i \in Instances, Exists(i)
    PROVE  /\ leases[i] \in Lease /\ leases[i].status \in Statuses
           /\ leases[i].life \in Nat /\ leases[i].made \in Nat
           /\ \A status \in Statuses : [leases[i] EXCEPT !.status = status] \in Lease
           /\ \A life \in Nat : [leases[i] EXCEPT !.life = life] \in Lease
  BY DEF Typed, Slot, Lease, Exists

\* What writing one document does to the instances that count.
LEMMA WriteFacts ==
    ASSUME Typed, NEW i \in Instances, NEW lease, lease \in Slot, Write(i, lease)
    PROVE  /\ leases' \in [Instances -> Slot] /\ leases'[i] = lease
           /\ \A j \in Instances \ {i} : leases'[j] = leases[j]
           /\ revived' \subseteq Instances
           /\ Shown' \subseteq Shown \cup {i}
           /\ (Shown \ revived)' \subseteq (Shown \ revived) \cup {i}
           /\ Exists(i) => (Shown \ revived)' \subseteq Shown \ revived
           /\ IsFiniteSet(Shown) => IsFiniteSet(Shown')
<1>1. /\ leases' \in [Instances -> Slot] /\ leases'[i] = lease
      /\ \A j \in Instances \ {i} : leases'[j] = leases[j]
      /\ revived' \subseteq Instances
  BY DEF Typed, Write
<1>2. Shown' \subseteq Shown \cup {i}
  BY <1>1 DEF Shown, Exists
<1>3. \A j \in Instances \ {i} : j \in revived' <=> j \in revived
  BY DEF Write
<1>4. (Shown \ revived)' \subseteq (Shown \ revived) \cup {i}
  BY <1>1, <1>3 DEF Shown, Exists
<1>5. ASSUME Exists(i), i \in (Shown \ revived)'  PROVE i \in Shown \ revived
  BY <1>1, <1>5 DEF Shown, Exists, Write
<1>6. ASSUME IsFiniteSet(Shown) PROVE IsFiniteSet(Shown')
  BY <1>2, <1>6, FS_AddElement, FS_Subset
<1>. QED
  BY <1>1, <1>2, <1>4, <1>5, <1>6

-----------------------------------------------------------------------------
(* Types.                                                                  *)

\* A request that finishes, posts a job or has its quota checked is typed.
LEMMA PostFacts ==
    ASSUME Typed, NEW q \in Requests, NEW job \in Jobs, Post(q, job)
    PROVE  /\ tasks' \in [Requests -> Task]
           /\ tasks'[q].step = "post"
           /\ \A p \in Requests \ {q} : tasks'[p] = tasks[p]
<1>. DEFINE t == [Free EXCEPT !.step = "post", !.job = job]
<1>1. t \in Task /\ t.step = "post"
  BY FreeFacts
<1>2. Becomes(q, t)
  BY DEF Post
<1>. HIDE DEF t
<1>. QED
  BY <1>1, <1>2, BecomesFacts

LEMMA ListFacts ==
    ASSUME Typed, NEW q \in Requests, NEW creates \in BOOLEAN
    PROVE  LET t == [Free EXCEPT !.step = "list", !.creates = creates,
                                 !.seen = [i \in Shown |-> leases[i]]]
           IN  /\ t \in Task /\ t.step = "list" /\ t.creates = creates
               /\ DOMAIN t.seen = Shown
<1>1. [i \in Shown |-> leases[i]] \in [Shown -> Slot] /\ Shown \in SUBSET Instances
  BY DEF Typed, Shown
<1>2. [i \in Shown |-> leases[i]] \in Seen
  BY <1>1, SeenIn
<1>. QED
  BY <1>1, <1>2, FreeFacts DEF Free, Task, Steps

LEMMA RefreshFacts ==
    ASSUME Typed, NEW q \in Requests
    PROVE  LET t == [tasks[q] EXCEPT !.step = "expire",
                       !.seen = [i \in DOMAIN @ |-> IF Expired(@[i]) THEN @[i] ELSE Null]]
           IN  /\ t \in Task /\ t.step = "expire" /\ t.creates = tasks[q].creates
               /\ DOMAIN t.seen = DOMAIN tasks[q].seen
<1>. DEFINE seen == tasks[q].seen
            left == [i \in DOMAIN seen |-> IF Expired(seen[i]) THEN seen[i] ELSE Null]
<1>1. seen \in Seen /\ DOMAIN seen \in SUBSET Instances /\ seen \in [DOMAIN seen -> Slot]
  BY TaskFacts, SeenOut
<1>2. left \in [DOMAIN seen -> Slot] /\ DOMAIN left = DOMAIN seen
  BY <1>1 DEF Slot
<1>3. left \in Seen
  BY <1>1, <1>2, SeenIn
<1>. HIDE DEF left
<1>4. LET t == [tasks[q] EXCEPT !.step = "expire", !.seen = left]
      IN  /\ t \in Task /\ t.step = "expire" /\ t.creates = tasks[q].creates
          /\ DOMAIN t.seen = DOMAIN tasks[q].seen
  BY <1>2, <1>3, TaskFacts DEF Task, Steps
<1>. QED
  BY <1>4 DEF left

LEMMA SeenStoppingFacts ==
    ASSUME Typed, NEW q \in Requests, NEW i \in Instances, i \in ToEnd(q)
    PROVE  LET t == [tasks[q] EXCEPT !.seen[i].status = "STOPPING"]
           IN  /\ t \in Task /\ t.step = tasks[q].step /\ t.creates = tasks[q].creates
               /\ DOMAIN t.seen = DOMAIN tasks[q].seen
<1>. DEFINE seen == tasks[q].seen
            left == [seen EXCEPT ![i].status = "STOPPING"]
<1>1. seen \in Seen /\ DOMAIN seen \in SUBSET Instances /\ seen \in [DOMAIN seen -> Slot]
  BY TaskFacts, SeenOut
<1>2. i \in DOMAIN seen /\ seen[i] \in Lease
  BY <1>1 DEF ToEnd, Slot
<1>3. [seen[i] EXCEPT !.status = "STOPPING"] \in Slot
  BY <1>2 DEF Lease, Slot, Statuses
<1>4. left \in [DOMAIN seen -> Slot] /\ DOMAIN left = DOMAIN seen
  BY <1>1, <1>3
<1>5. left \in Seen
  BY <1>1, <1>4, SeenIn
<1>. HIDE DEF left
<1>6. LET t == [tasks[q] EXCEPT !.seen = left]
      IN  /\ t \in Task /\ t.step = tasks[q].step /\ t.creates = tasks[q].creates
          /\ DOMAIN t.seen = DOMAIN tasks[q].seen
  BY <1>4, <1>5, TaskFacts DEF Task
<1>. QED
  BY <1>6, TaskFacts DEF left, Task

LEMMA SeenNullFacts ==
    ASSUME Typed, NEW q \in Requests, NEW i \in Instances
    PROVE  LET t == [tasks[q] EXCEPT !.seen[i] = Null]
           IN  /\ t \in Task /\ t.step = tasks[q].step /\ t.creates = tasks[q].creates
               /\ DOMAIN t.seen = DOMAIN tasks[q].seen
<1>. DEFINE seen == tasks[q].seen
            left == [seen EXCEPT ![i] = Null]
<1>1. seen \in Seen /\ DOMAIN seen \in SUBSET Instances /\ seen \in [DOMAIN seen -> Slot]
  BY TaskFacts, SeenOut
<1>2. left \in [DOMAIN seen -> Slot] /\ DOMAIN left = DOMAIN seen
  BY <1>1 DEF Slot
<1>3. left \in Seen
  BY <1>1, <1>2, SeenIn
<1>. HIDE DEF left
<1>4. LET t == [tasks[q] EXCEPT !.seen = left]
      IN  /\ t \in Task /\ t.step = tasks[q].step /\ t.creates = tasks[q].creates
          /\ DOMAIN t.seen = DOMAIN tasks[q].seen
  BY <1>2, <1>3, TaskFacts DEF Task
<1>. QED
  BY <1>4, TaskFacts DEF left, Task

-----------------------------------------------------------------------------
(* What a step does to the types and to the instances that count: all but  *)
(* two actions let them shrink.                                            *)

Shrinks ==
    /\ IsFiniteSet(Shown) => IsFiniteSet(Shown')
    /\ (Shown \ revived)' \subseteq Shown \ revived
    /\ Admitted' \subseteq Admitted

\* Of the requests only q goes on, and not to an extension.
Others(q) ==
    /\ \A p \in Requests \ {q} : tasks'[p] = tasks[p]
    /\ tasks'[q].step # "extend"

LEMMA UnwrittenFacts ==
    ASSUME Typed, Unwritten
    PROVE  /\ leases' \in [Instances -> Slot] /\ revived' \subseteq Instances
           /\ Shown' = Shown /\ (Shown \ revived)' = Shown \ revived
  BY DEF Typed, Unwritten, Shown, Exists

LEMMA AdmittedFacts ==
    ASSUME NEW q \in Requests, \A p \in Requests \ {q} : tasks'[p] = tasks[p]
    PROVE  /\ Admitted' \subseteq Admitted \cup {q}
           /\ tasks'[q].step \notin {"checked", "list", "expire"} => Admitted' \subseteq Admitted \ {q}
           /\ (/\ tasks'[q].step \in {"list", "expire"} /\ tasks[q].step \in {"list", "expire"}
               /\ tasks'[q].creates = tasks[q].creates
               /\ DOMAIN tasks'[q].seen = DOMAIN tasks[q].seen)
              => Admitted' \subseteq Admitted
  BY DEF Admitted, Is

LEMMA PostJobStep ==
    ASSUME Typed, NEW q \in Requests, PostJob(q)
    PROVE  Typed' /\ Shrinks /\ Others(q)
<1>1. /\ tasks' \in [Requests -> Task] /\ tasks'[q] = Free
      /\ \A p \in Requests \ {q} : tasks'[p] = tasks[p]
  BY FreeFacts, BecomesFacts DEF PostJob
<1>2. Admitted' \subseteq Admitted
  BY <1>1, AdmittedFacts, FreeFacts
<1>. QED
  BY <1>1, <1>2, FreeFacts, UnwrittenFacts DEF PostJob, Unwritten, Typed, Shrinks, Others

LEMMA RefreshMonitorsStep ==
    ASSUME Typed, NEW q \in Requests, RefreshMonitors(q)
    PROVE  Typed' /\ Shrinks /\ Others(q)
<1>. DEFINE t == [tasks[q] EXCEPT !.step = "expire",
                       !.seen = [i \in DOMAIN @ |-> IF Expired(@[i]) THEN @[i] ELSE Null]]
<1>1. /\ t \in Task /\ t.step = "expire" /\ t.creates = tasks[q].creates
      /\ DOMAIN t.seen = DOMAIN tasks[q].seen
  BY RefreshFacts
<1>2. Becomes(q, t)
  BY DEF RefreshMonitors
<1>. HIDE DEF t
<1>3. /\ tasks' \in [Requests -> Task] /\ tasks'[q] = t
      /\ \A p \in Requests \ {q} : tasks'[p] = tasks[p]
  BY <1>1, <1>2, BecomesFacts
<1>4. Admitted' \subseteq Admitted
  BY <1>1, <1>3, AdmittedFacts DEF RefreshMonitors, Is
<1>. QED
  BY <1>1, <1>3, <1>4, UnwrittenFacts DEF RefreshMonitors, Unwritten, Typed, Shrinks, Others

LEMMA StopExpiredStep ==
    ASSUME Typed, NEW q \in Requests, NEW i \in Instances, StopExpired(q, i)
    PROVE  Typed' /\ Shrinks /\ Others(q)
<1>. DEFINE t == [tasks[q] EXCEPT !.seen[i].status = "STOPPING"]
<1>1. /\ t \in Task /\ t.step = tasks[q].step /\ t.creates = tasks[q].creates
      /\ DOMAIN t.seen = DOMAIN tasks[q].seen
  BY SeenStoppingFacts DEF StopExpired
<1>2. Becomes(q, t)
  BY DEF StopExpired
<1>. HIDE DEF t
<1>3. /\ tasks' \in [Requests -> Task] /\ tasks'[q] = t
      /\ \A p \in Requests \ {q} : tasks'[p] = tasks[p]
  BY <1>1, <1>2, BecomesFacts
<1>4. Admitted' \subseteq Admitted
  BY <1>1, <1>3, AdmittedFacts DEF StopExpired, Is
<1>5. [leases[i] EXCEPT !.status = "STOPPING"] \in Slot
  BY LeaseFacts DEF StopExpired, Slot, Statuses
<1>6. Exists(i) /\ Write(i, [leases[i] EXCEPT !.status = "STOPPING"]) /\ time' = time
  BY DEF StopExpired
<1>7. Others(q)
  BY <1>1, <1>3 DEF StopExpired, Is, Others
<1>. QED
  BY <1>3, <1>4, <1>5, <1>6, <1>7, WriteFacts DEF Typed, Shrinks

LEMMA StopFailsStep ==
    ASSUME Typed, NEW q \in Requests, NEW i \in Instances, StopFails(q, i)
    PROVE  Typed' /\ Shrinks /\ Others(q)
<1>1. /\ tasks' \in [Requests -> Task] /\ tasks'[q] = Free
      /\ \A p \in Requests \ {q} : tasks'[p] = tasks[p]
  BY FreeFacts, BecomesFacts DEF StopFails
<1>2. Admitted' \subseteq Admitted
  BY <1>1, AdmittedFacts, FreeFacts
<1>. QED
  BY <1>1, <1>2, FreeFacts, UnwrittenFacts DEF StopFails, Unwritten, Typed, Shrinks, Others

LEMMA EndLifeStep ==
    ASSUME Typed, NEW q \in Requests, NEW i \in Instances, EndLife(q, i)
    PROVE  Typed' /\ Shrinks /\ Others(q)
<1>. DEFINE t == [tasks[q] EXCEPT !.seen[i] = Null]
<1>1. /\ t \in Task /\ t.step = tasks[q].step /\ t.creates = tasks[q].creates
      /\ DOMAIN t.seen = DOMAIN tasks[q].seen
  BY SeenNullFacts
<1>2. Becomes(q, t) /\ time' = time
  BY DEF EndLife
<1>. HIDE DEF t
<1>3. /\ tasks' \in [Requests -> Task] /\ tasks'[q] = t
      /\ \A p \in Requests \ {q} : tasks'[p] = tasks[p]
  BY <1>1, <1>2, BecomesFacts
<1>4. Admitted' \subseteq Admitted
  BY <1>1, <1>3, AdmittedFacts DEF EndLife, Is
<1>5. Others(q)
  BY <1>1, <1>3 DEF EndLife, Is, Others
<1>6. CASE Exists(i) /\ Write(i, [leases[i] EXCEPT !.life = 0])
  <2>1. [leases[i] EXCEPT !.life = 0] \in Slot
    BY <1>6, LeaseFacts DEF Slot
  <2>. QED
    BY <1>2, <1>3, <1>4, <1>6, <1>5, <2>1, WriteFacts DEF Typed, Shrinks
<1>7. CASE Unwritten
  BY <1>2, <1>3, <1>4, <1>7, <1>5, UnwrittenFacts DEF Typed, Shrinks
<1>. QED
  BY <1>6, <1>7 DEF EndLife

LEMMA ListedStep ==
    ASSUME Typed, NEW q \in Requests, Listed(q)
    PROVE  Typed' /\ Shrinks /\ Others(q)
<1>. DEFINE t == [Free EXCEPT !.step = "checked"]
<1>1. CASE Becomes(q, Free)
  <2>1. /\ tasks' \in [Requests -> Task] /\ tasks'[q] = Free
        /\ \A p \in Requests \ {q} : tasks'[p] = tasks[p]
    BY <1>1, FreeFacts, BecomesFacts
  <2>2. Admitted' \subseteq Admitted
    BY <2>1, AdmittedFacts, FreeFacts
  <2>. QED
    BY <2>1, <2>2, FreeFacts, UnwrittenFacts DEF Listed, Unwritten, Typed, Shrinks, Others
<1>2. CASE tasks[q].creates /\ Allowed(Cardinality(DOMAIN tasks[q].seen)) /\ Becomes(q, t)
  <2>1. t \in Task /\ t.step = "checked"
    BY FreeFacts
  <2>. HIDE DEF t
  <2>2. /\ tasks' \in [Requests -> Task] /\ tasks'[q] = t
        /\ \A p \in Requests \ {q} : tasks'[p] = tasks[p]
    BY <1>2, <2>1, BecomesFacts
  <2>3. q \in Admitted
    BY <1>2 DEF Listed, Is, Admitted
  <2>4. Admitted' \subseteq Admitted
    BY <2>2, <2>3, AdmittedFacts
  <2>. QED
    BY <2>1, <2>2, <2>4, UnwrittenFacts DEF Listed, Unwritten, Typed, Shrinks, Others
<1>. QED
  BY <1>1, <1>2 DEF Listed

\* Requests that write one document and post a job.
LEMMA WriteAndPost ==
    ASSUME Typed, NEW q \in Requests, NEW job \in Jobs, NEW i \in Instances, NEW lease, lease \in Slot,
           Exists(i), Write(i, lease), Post(q, job), time' = time
    PROVE  Typed' /\ Shrinks /\ Others(q)
<1>1. Admitted' \subseteq Admitted
  BY PostFacts, AdmittedFacts
<1>. QED
  BY <1>1, PostFacts, WriteFacts DEF Typed, Shrinks, Others

LEMMA StartStopStep ==
    ASSUME Typed, NEW q \in Requests, StartStopInstance(q)
    PROVE  Typed' /\ Shrinks /\ Others(q)
<1>1. PICK i \in Instances, job \in {"start", "stop"} :
         /\ Exists(i)
         /\ Write(i, [leases[i] EXCEPT !.status = IF job = "start" THEN "STARTING" ELSE "STOPPING"])
         /\ Post(q, job)
  BY DEF StartStopInstance
<1>. DEFINE status == IF job = "start" THEN "STARTING" ELSE "STOPPING"
<1>2. status \in Statuses /\ job \in Jobs
  BY DEF Statuses, Jobs
<1>3. Write(i, [leases[i] EXCEPT !.status = status])
  BY <1>1
<1>. HIDE DEF status
<1>4. [leases[i] EXCEPT !.status = status] \in Slot
  BY <1>1, <1>2, LeaseFacts DEF Slot
<1>5. time' = time
  BY DEF StartStopInstance
<1>. QED
  BY <1>1, <1>2, <1>3, <1>4, <1>5, WriteAndPost

LEMMA RestartStep ==
    ASSUME Typed, ConstantsOK, NEW q \in Requests, RestartInstance(q)
    PROVE  Typed' /\ Shrinks /\ Others(q)
<1>1. PICK i \in Instances, life \in 1..MaxLife :
         /\ Exists(i)
         /\ Write(i, [status |-> "STARTING", made |-> time, life |-> life])
         /\ Post(q, "start")
  BY DEF RestartInstance
<1>2. [status |-> "STARTING", made |-> time, life |-> life] \in Slot
  BY DEF Typed, ConstantsOK, Slot, Lease, Statuses
<1>3. time' = time /\ "start" \in Jobs
  BY DEF RestartInstance, Jobs
<1>. QED
  BY <1>1, <1>2, <1>3, WriteAndPost

LEMMA EditStep ==
    ASSUME Typed, ConstantsOK, NEW q \in Requests, EditInstance(q)
    PROVE  Typed' /\ Shrinks /\ Others(q)
<1>1. PICK i \in Instances :
         /\ Exists(i)
         /\ \/ \E life \in 1..MaxLife : Write(i, [leases[i] EXCEPT !.life = life])
            \/ \E status \in Statuses : Write(i, [leases[i] EXCEPT !.status = status])
         /\ Post(q, "update")
  BY DEF EditInstance
<1>2. time' = time /\ "update" \in Jobs
  BY DEF EditInstance, Jobs
<1>3. /\ \A life \in 1..MaxLife : [leases[i] EXCEPT !.life = life] \in Slot
      /\ \A status \in Statuses : [leases[i] EXCEPT !.status = status] \in Slot
  BY <1>1, LeaseFacts DEF Slot, ConstantsOK
<1>. QED
  BY <1>1, <1>2, <1>3, WriteAndPost

LEMMA DeleteStep ==
    ASSUME Typed, NEW q \in Requests, DeleteInstance(q)
    PROVE  Typed' /\ Shrinks /\ Others(q)
<1>1. PICK i \in Instances :
         /\ Exists(i) /\ Write(i, [leases[i] EXCEPT !.status = "DELETED"]) /\ Post(q, "delete")
  BY DEF DeleteInstance
<1>2. time' = time /\ "delete" \in Jobs
  BY DEF DeleteInstance, Jobs
<1>3. [leases[i] EXCEPT !.status = "DELETED"] \in Slot
  BY <1>1, LeaseFacts DEF Slot, Statuses
<1>. QED
  BY <1>1, <1>2, <1>3, WriteAndPost

\* What an extension reads.
LEMMA FindFacts ==
    ASSUME Typed, NEW q \in Requests, NEW i \in Instances, Exists(i)
    PROVE  LET t == [Free EXCEPT !.step = "extend", !.instance = i,
                                 !.seen = [j \in {i} |-> leases[i]]]
           IN  /\ t \in Task /\ t.step = "extend" /\ t.instance = i
               /\ i \in DOMAIN t.seen /\ t.seen[i] = leases[i]
<1>1. [j \in {i} |-> leases[i]] \in [{i} -> Slot] /\ {i} \in SUBSET Instances
  BY DEF Typed
<1>2. [j \in {i} |-> leases[i]] \in Seen
  BY <1>1, SeenIn
<1>. QED
  BY <1>2, FreeFacts DEF Free, Task, Steps

LEMMA FindToExtendStep ==
    ASSUME Typed, NEW q \in Requests, FindToExtend(q)
    PROVE  Typed' /\ Shrinks
<1>1. PICK i \in Instances :
         /\ Exists(i)
         /\ Becomes(q, [Free EXCEPT !.step = "extend", !.instance = i,
                                    !.seen = [j \in {i} |-> leases[i]]])
  BY DEF FindToExtend
<1>. DEFINE t == [Free EXCEPT !.step = "extend", !.instance = i,
                              !.seen = [j \in {i} |-> leases[i]]]
<1>2. t \in Task /\ t.step = "extend" /\ Becomes(q, t)
  BY <1>1, FindFacts
<1>. HIDE DEF t
<1>3. /\ tasks' \in [Requests -> Task] /\ tasks'[q] = t
      /\ \A p \in Requests \ {q} : tasks'[p] = tasks[p]
  BY <1>2, BecomesFacts
<1>4. Admitted' \subseteq Admitted
  BY <1>2, <1>3, AdmittedFacts
<1>. QED
  BY <1>3, <1>4, UnwrittenFacts DEF FindToExtend, Unwritten, Typed, Shrinks

LEMMA ExtendStep ==
    ASSUME Typed, ConstantsOK, LivesKept, NEW q \in Requests, ExtendInstanceLifespan(q)
    PROVE  Typed' /\ Shrinks /\ Others(q)
<1>. DEFINE i == tasks[q].instance
<1>1. /\ tasks' \in [Requests -> Task] /\ tasks'[q] = Free
      /\ \A p \in Requests \ {q} : tasks'[p] = tasks[p]
  BY FreeFacts, BecomesFacts DEF ExtendInstanceLifespan
<1>2. Admitted' \subseteq Admitted /\ time' = time
  BY <1>1, AdmittedFacts, FreeFacts DEF ExtendInstanceLifespan
<1>3. i \in Instances /\ tasks[q].seen[i].life \in Nat
  BY DEF LivesKept, Reading, ExtendInstanceLifespan, Lease
<1>4. CASE Exists(i) /\ \E more \in 1..MaxMore : Write(i, [leases[i] EXCEPT !.life = Extended(q, more)])
  <2>1. PICK more \in 1..MaxMore : Write(i, [leases[i] EXCEPT !.life = Extended(q, more)])
    BY <1>4
  <2>2. Extended(q, more) \in Nat
    BY <1>3 DEF Extended, ConstantsOK
  <2>3. [leases[i] EXCEPT !.life = Extended(q, more)] \in Slot
    BY <1>3, <1>4, <2>2, LeaseFacts DEF Slot
  <2>. QED
    BY <1>1, <1>2, <1>3, <1>4, <2>1, <2>3, FreeFacts, WriteFacts DEF Typed, Shrinks, Others
<1>5. CASE Unwritten
  BY <1>1, <1>2, <1>5, FreeFacts, UnwrittenFacts DEF Typed, Shrinks, Others
<1>. QED
  BY <1>4, <1>5 DEF ExtendInstanceLifespan

LEMMA DieStep ==
    ASSUME Typed, NEW q \in Requests, Die(q)
    PROVE  Typed' /\ Shrinks /\ Others(q)
<1>1. /\ tasks' \in [Requests -> Task] /\ tasks'[q] = Free
      /\ \A p \in Requests \ {q} : tasks'[p] = tasks[p]
  BY FreeFacts, BecomesFacts DEF Die
<1>2. Admitted' \subseteq Admitted
  BY <1>1, AdmittedFacts, FreeFacts
<1>. QED
  BY <1>1, <1>2, FreeFacts, UnwrittenFacts DEF Die, Unwritten, Typed, Shrinks, Others

LEMMA StatusFoundStep ==
    ASSUME Typed, StatusFound
    PROVE  Typed' /\ Shrinks
<1>1. PICK i \in Instances :
         /\ Exists(i)
         /\ \/ \E status \in {"RUNNING", "STOPPED", "FAILED"} :
                 leases[i].status # "DELETED" /\ Write(i, [leases[i] EXCEPT !.status = status])
            \/ leases[i].status = "DELETED" /\ Write(i, Null)
  BY DEF StatusFound
<1>2. \E lease \in Slot : Write(i, lease)
  BY <1>1, LeaseFacts DEF Slot, Statuses
<1>3. tasks' = tasks /\ time' = time
  BY DEF StatusFound
<1>4. Admitted' = Admitted
  BY <1>3 DEF Admitted, Is
<1>. QED
  BY <1>1, <1>2, <1>3, <1>4, WriteFacts DEF Typed, Shrinks

LEMMA TickStep ==
    ASSUME Typed, Tick
    PROVE  Typed' /\ Shrinks
<1>1. Admitted' = Admitted
  BY DEF Tick, Admitted, Is
<1>. QED
  BY <1>1, UnwrittenFacts DEF Tick, Unwritten, Typed, Shrinks

-----------------------------------------------------------------------------
(* The quota.                                                              *)

LEMMA AdmittedFinite ==
    ASSUME ConstantsOK
    PROVE  /\ IsFiniteSet(Admitted) /\ Cardinality(Admitted) \in Nat
           /\ Cardinality(Requests) \in Nat /\ Cardinality(Admitted) <= Cardinality(Requests)
           /\ Cardinality(Requests) >= 1
<1>1. Admitted \in SUBSET Requests /\ IsFiniteSet(Requests) /\ Requests # {}
  BY DEF Admitted, ConstantsOK
<1>. QED
  BY <1>1, FS_Subset, FS_CardinalityType, FS_EmptySet

LEMMA QuotaShrinks ==
    ASSUME ConstantsOK, QuotaKept, Shrinks
    PROVE  QuotaKept'
<1>1. IsFiniteSet(Shown \ revived) /\ Cardinality(Shown \ revived) \in Nat
  BY FS_Difference, FS_CardinalityType DEF QuotaKept
<1>2. /\ Cardinality((Shown \ revived)') \in Nat
      /\ Cardinality((Shown \ revived)') <= Cardinality(Shown \ revived)
  BY <1>1, FS_Subset, FS_CardinalityType DEF Shrinks
<1>3. /\ Cardinality(Admitted') \in Nat
      /\ Cardinality(Admitted') <= Cardinality(Admitted)
  BY AdmittedFinite, FS_Subset, FS_CardinalityType DEF Shrinks
<1>. QED
  BY <1>1, <1>2, <1>3, AdmittedFinite DEF QuotaKept, Shrinks, ConstantsOK

LEMMA GetInstancesStep ==
    ASSUME Typed, ConstantsOK, QuotaKept, NEW q \in Requests, GetInstances(q)
    PROVE  Typed' /\ QuotaKept' /\ Others(q)
<1>1. PICK creates \in BOOLEAN :
         Becomes(q, [Free EXCEPT !.step = "list", !.creates = creates,
                                 !.seen = [i \in Shown |-> leases[i]]])
  BY DEF GetInstances
<1>. DEFINE t == [Free EXCEPT !.step = "list", !.creates = creates,
                              !.seen = [i \in Shown |-> leases[i]]]
<1>2. t \in Task /\ t.step = "list" /\ DOMAIN t.seen = Shown /\ Becomes(q, t)
  BY <1>1, ListFacts
<1>. HIDE DEF t
<1>3. /\ tasks' \in [Requests -> Task] /\ tasks'[q] = t
      /\ \A p \in Requests \ {q} : tasks'[p] = tasks[p]
  BY <1>2, BecomesFacts
<1>4. /\ Typed' /\ Shown' = Shown /\ (Shown \ revived)' = Shown \ revived
  BY <1>3, UnwrittenFacts DEF GetInstances, Unwritten, Typed
<1>5. Others(q)
  BY <1>2, <1>3 DEF Others
<1>6. CASE q \in Admitted'
  <2>1. Allowed(Cardinality(Shown))
    BY <1>2, <1>3, <1>6 DEF Admitted, Is
  <2>2. Cardinality(Shown) \in Nat /\ Cardinality(Shown \ revived) \in Nat
        /\ Cardinality(Shown \ revived) <= Cardinality(Shown)
    BY FS_Difference, FS_CardinalityType, FS_Subset DEF QuotaKept
  <2>3. Cardinality(Admitted') \in Nat /\ Cardinality(Admitted') <= Cardinality(Requests)
    <3>1. Admitted' \in SUBSET Requests
      BY DEF Admitted
    <3>. QED
      BY <3>1, FS_Subset, FS_CardinalityType DEF ConstantsOK
  <2>4. Cardinality(Shown) + 1 <= Quota /\ Quota \in Nat
    BY <2>1 DEF Allowed, ConstantsOK
  <2>5. Cardinality(Shown \ revived) + Cardinality(Admitted') <= Quota + Cardinality(Requests) - 1
    BY <2>2, <2>3, <2>4, AdmittedFinite
  <2>6. IsFiniteSet(Shown)
    BY DEF QuotaKept
  <2>. QED
    BY <1>4, <1>5, <2>5, <2>6 DEF QuotaKept
<1>7. CASE q \notin Admitted'
  <2>1. Admitted' \subseteq Admitted
    BY <1>3, <1>7, AdmittedFacts
  <2>. QED
    BY <1>4, <1>5, <2>1, QuotaShrinks DEF Shrinks
<1>. QED
  BY <1>4, <1>6, <1>7

LEMMA CreateStep ==
    ASSUME Typed, ConstantsOK, QuotaKept, NEW q \in Requests, CreateInstance(q)
    PROVE  Typed' /\ QuotaKept' /\ Others(q)
<1>1. PICK i \in Instances, life \in 1..MaxLife :
         /\ Write(i, [status |-> "PENDING", made |-> time, life |-> life])
         /\ Post(q, "create")
  BY DEF CreateInstance
<1>2. [status |-> "PENDING", made |-> time, life |-> life] \in Slot
  BY DEF Typed, ConstantsOK, Slot, Lease, Statuses
<1>3. q \in Admitted
  BY DEF CreateInstance, Admitted
<1>4. /\ tasks' \in [Requests -> Task] /\ Others(q)
      /\ Admitted' \subseteq Admitted \ {q}
  BY <1>1, PostFacts, AdmittedFacts DEF Jobs, Others
<1>5. /\ leases' \in [Instances -> Slot] /\ revived' \subseteq Instances
      /\ (Shown \ revived)' \subseteq (Shown \ revived) \cup {i}
      /\ IsFiniteSet(Shown) => IsFiniteSet(Shown')
  BY <1>1, <1>2, WriteFacts
<1>6. Cardinality(Admitted') \in Nat /\ Cardinality(Admitted') <= Cardinality(Admitted) - 1
  <2>1. IsFiniteSet(Admitted \ {q}) /\ Cardinality(Admitted \ {q}) = Cardinality(Admitted) - 1
    BY <1>3, AdmittedFinite, FS_RemoveElement
  <2>. QED
    BY <1>4, <2>1, FS_Subset, FS_CardinalityType
<1>7. /\ Cardinality(Shown \ revived) \in Nat
      /\ Cardinality((Shown \ revived)') \in Nat
      /\ Cardinality((Shown \ revived)') <= Cardinality(Shown \ revived) + 1
  <2>1. IsFiniteSet(Shown \ revived) /\ Cardinality(Shown \ revived) \in Nat
    BY FS_Difference, FS_CardinalityType DEF QuotaKept
  <2>. DEFINE S == Shown \ revived
  <2>2. IsFiniteSet(S \cup {i})
        /\ Cardinality(S \cup {i}) = IF i \in S THEN Cardinality(S) ELSE Cardinality(S) + 1
    <3>. HIDE DEF S
    <3>. QED
      BY <2>1, FS_AddElement DEF S
  <2>3. Cardinality(S \cup {i}) \in Nat /\ Cardinality(S \cup {i}) <= Cardinality(S) + 1
    BY <2>1, <2>2, FS_CardinalityType
  <2>. QED
    BY <1>5, <2>1, <2>2, <2>3, FS_Subset, FS_CardinalityType
<1>. QED
  BY <1>4, <1>5, <1>6, <1>7, AdmittedFinite DEF QuotaKept, Typed, CreateInstance, ConstantsOK

-----------------------------------------------------------------------------
(* The life spans.                                                         *)

Short(i) == Remaining(leases[i]) <= MaxLife \/ Remaining(leases[i]) <= Enough + MaxMore

\* Extensions under way stay as they are, and none is begun.
Reads == \A p \in Requests : Is(p, "extend")' => Is(p, "extend") /\ tasks'[p] = tasks[p]

LEMMA OthersRead ==
    ASSUME NEW q \in Requests, Others(q)
    PROVE  Reads
  BY DEF Others, Reads, Is

\* Documents that begin a new life are none that an extension has read, or are
\* remembered as crossed; other lives get no longer, or end within the bound.
LEMMA LivesFacts ==
    ASSUME Typed, Typed', LivesKept, LifeBounded, Reads, time' = time,
           \A p \in Requests : Is(p, "extend") /\ tasks[p].instance \notin crossed'
                                  => tasks[p].instance \notin crossed,
           \A i \in Instances : Exists(i)' =>
              \/ Exists(i) /\ leases'[i].made = leases[i].made
              \/ /\ leases'[i].made = time
                 /\ \A p \in Requests : Is(p, "extend") /\ tasks[p].instance = i => i \in crossed',
           \A i \in Instances \ crossed' : Exists(i)' =>
              \/ /\ i \notin crossed /\ Exists(i)
                 /\ leases'[i].made = leases[i].made /\ leases'[i].life = leases[i].life
              \/ Short(i)'
    PROVE  LivesKept' /\ LifeBounded'
<1>1. \A i \in Instances : Exists(i)' => leases'[i].made <= time'
  BY DEF LivesKept, Typed
<1>2. ASSUME NEW p \in Requests, Is(p, "extend")'
      PROVE  Reading(p)'
  <2>1. Reading(p) /\ tasks'[p] = tasks[p] /\ Is(p, "extend")
    BY <1>2 DEF Reads, LivesKept
  <2>. DEFINE i == tasks[p].instance
              s == tasks[p].seen[i]
  <2>2. /\ i \in Instances /\ i \in DOMAIN tasks[p].seen /\ s \in Lease
        /\ s.life - (time - s.made) <= Enough
        /\ i \notin crossed /\ Exists(i) => leases[i].made = s.made
    BY <2>1 DEF Reading
  <2>3. ASSUME i \notin crossed', Exists(i)' PROVE leases'[i].made = s.made
    BY <2>1, <2>2, <2>3
  <2>. QED
    BY <2>1, <2>2, <2>3 DEF Reading
<1>3. ASSUME NEW i \in Instances \ crossed', Exists(i)'
      PROVE  Short(i)'
  BY <1>3 DEF LifeBounded, Short, Remaining
<1>. QED
  BY <1>1, <1>2, <1>3 DEF LivesKept, LifeBounded, Short

\* Steps that write at most one document, begin no life and make it no longer.
LEMMA LivesAside ==
    ASSUME Typed, Typed', LivesKept, LifeBounded, Reads, time' = time, crossed' = crossed,
           \A i \in Instances : Exists(i)' =>
              /\ Exists(i) /\ leases'[i].made = leases[i].made
              /\ leases'[i].life = leases[i].life \/ Short(i)'
    PROVE  LivesKept' /\ LifeBounded'
  BY LivesFacts

LEMMA LivesUnwritten ==
    ASSUME Typed, Typed', LivesKept, LifeBounded, Reads, time' = time, crossed' = crossed, Unwritten
    PROVE  LivesKept' /\ LifeBounded'
<1>1. \A i \in Instances : Exists(i)' => Exists(i) /\ leases'[i] = leases[i]
  BY DEF Unwritten, Exists
<1>. QED
  BY <1>1, LivesAside

LEMMA LivesStatus ==
    ASSUME Typed, Typed', LivesKept, LifeBounded, Reads, time' = time, crossed' = crossed,
           NEW i \in Instances, Exists(i), NEW status \in Statuses,
           Write(i, [leases[i] EXCEPT !.status = status])
    PROVE  LivesKept' /\ LifeBounded'
<1>. DEFINE lease == [leases[i] EXCEPT !.status = status]
<1>1. lease \in Slot /\ lease.made = leases[i].made /\ lease.life = leases[i].life
  BY LeaseFacts DEF Slot, Lease
<1>. HIDE DEF lease
<1>2. leases'[i] = lease /\ \A j \in Instances \ {i} : leases'[j] = leases[j]
  BY <1>1, WriteFacts DEF lease
<1>3. \A j \in Instances : Exists(j)' =>
         Exists(j) /\ leases'[j].made = leases[j].made /\ leases'[j].life = leases[j].life
  BY <1>1, <1>2 DEF Exists
<1>. QED
  BY <1>3, LivesAside

LEMMA LivesLife ==
    ASSUME Typed, Typed', LivesKept, LifeBounded, Reads, time' = time, crossed' = crossed,
           NEW i \in Instances, Exists(i), NEW life \in Nat,
           Write(i, [leases[i] EXCEPT !.life = life]), Short(i)'
    PROVE  LivesKept' /\ LifeBounded'
<1>. DEFINE lease == [leases[i] EXCEPT !.life = life]
<1>1. lease \in Slot /\ lease.made = leases[i].made
  BY LeaseFacts DEF Slot, Lease
<1>. HIDE DEF lease
<1>2. leases'[i] = lease /\ \A j \in Instances \ {i} : leases'[j] = leases[j]
  BY <1>1, WriteFacts DEF lease
<1>3. \A j \in Instances : Exists(j)' =>
         /\ Exists(j) /\ leases'[j].made = leases[j].made
         /\ leases'[j].life = leases[j].life \/ Short(j)'
  BY <1>1, <1>2 DEF Exists
<1>. QED
  BY <1>3, LivesAside

LEMMA StopExpiredLives ==
    ASSUME Typed, LivesKept, LifeBounded, NEW q \in Requests, NEW i \in Instances, StopExpired(q, i)
    PROVE  LivesKept' /\ LifeBounded'
<1>1. Typed' /\ Reads
  BY StopExpiredStep, OthersRead
<1>. QED
  BY <1>1, LivesStatus DEF StopExpired, Statuses

LEMMA EndLifeLives ==
    ASSUME ConstantsOK, Typed, LivesKept, LifeBounded,
           NEW q \in Requests, NEW i \in Instances, EndLife(q, i)
    PROVE  LivesKept' /\ LifeBounded'
<1>1. Typed' /\ Reads /\ time' = time /\ crossed' = crossed
  BY EndLifeStep, OthersRead DEF EndLife
<1>2. CASE Exists(i) /\ Write(i, [leases[i] EXCEPT !.life = 0])
  <2>1. [leases[i] EXCEPT !.life = 0] \in Slot
    BY <1>2, LeaseFacts DEF Slot
  <2>2. leases'[i] = [leases[i] EXCEPT !.life = 0]
    BY <1>2, <2>1, WriteFacts
  <2>3. leases'[i].life = 0 /\ leases'[i].made = leases[i].made
    BY <1>2, <2>2, LeaseFacts DEF Lease
  <2>4. leases[i].made \in Nat /\ leases[i].made <= time /\ time \in Nat
    BY <1>2, LeaseFacts DEF LivesKept, Typed
  <2>5. Short(i)'
    BY <1>1, <2>3, <2>4 DEF Short, Remaining, ConstantsOK
  <2>. QED
    BY <1>1, <1>2, <2>5, LivesLife
<1>3. CASE Unwritten
  BY <1>1, <1>3, LivesUnwritten
<1>. QED
  BY <1>2, <1>3 DEF EndLife

LEMMA CreateLives ==
    ASSUME ConstantsOK, Typed, QuotaKept, LivesKept, LifeBounded,
           NEW q \in Requests, CreateInstance(q)
    PROVE  LivesKept' /\ LifeBounded'
<1>1. PICK i \in Instances, life \in 1..MaxLife :
         /\ Fresh(i)
         /\ Write(i, [status |-> "PENDING", made |-> time, life |-> life])
         /\ crossed' = crossed \ {i}
  BY DEF CreateInstance
<1>2. Typed' /\ Reads /\ time' = time
  BY CreateStep, OthersRead DEF CreateInstance
<1>. DEFINE lease == [status |-> "PENDING", made |-> time, life |-> life]
<1>3. lease \in Slot /\ lease.made = time /\ lease.life = life
  BY DEF Typed, ConstantsOK, Slot, Lease, Statuses
<1>. HIDE DEF lease
<1>4. leases'[i] = lease /\ \A j \in Instances \ {i} : leases'[j] = leases[j]
  BY <1>1, <1>3, WriteFacts DEF lease
<1>5. ASSUME NEW p \in Requests, Is(p, "extend")  PROVE tasks[p].instance # i
  BY <1>1, <1>5 DEF Fresh, LivesKept, Reading
<1>6. Short(i)'
  BY <1>2, <1>3, <1>4 DEF Short, Remaining, Typed, ConstantsOK
<1>7. \A j \in Instances : Exists(j)' =>
              \/ Exists(j) /\ leases'[j].made = leases[j].made
              \/ /\ leases'[j].made = time
                 /\ \A p \in Requests : Is(p, "extend") /\ tasks[p].instance = j => j \in crossed'
  BY <1>3, <1>4, <1>5 DEF Exists
<1>8. \A j \in Instances \ crossed' : Exists(j)' =>
              \/ /\ j \notin crossed /\ Exists(j)
                 /\ leases'[j].made = leases[j].made /\ leases'[j].life = leases[j].life
              \/ Short(j)'
  BY <1>1, <1>4, <1>6 DEF Exists
<1>9. \A p \in Requests : Is(p, "extend") /\ tasks[p].instance \notin crossed'
                              => tasks[p].instance \notin crossed
  BY <1>1, <1>5
<1>. QED
  BY <1>2, <1>7, <1>8, <1>9, LivesFacts

LEMMA RestartLives ==
    ASSUME ConstantsOK, Typed, LivesKept, LifeBounded, NEW q \in Requests, RestartInstance(q)
    PROVE  LivesKept' /\ LifeBounded'
<1>1. PICK i \in Instances, life \in 1..MaxLife :
         /\ Write(i, [status |-> "STARTING", made |-> time, life |-> life])
         /\ crossed' = IF Extending(i) = {} THEN crossed ELSE crossed \cup {i}
  BY DEF RestartInstance
<1>2. Typed' /\ Reads /\ time' = time
  BY RestartStep, OthersRead DEF RestartInstance
<1>. DEFINE lease == [status |-> "STARTING", made |-> time, life |-> life]
<1>3. lease \in Slot /\ lease.made = time /\ lease.life = life
  BY DEF Typed, ConstantsOK, Slot, Lease, Statuses
<1>. HIDE DEF lease
<1>4. leases'[i] = lease /\ \A j \in Instances \ {i} : leases'[j] = leases[j]
  BY <1>1, <1>3, WriteFacts DEF lease
<1>5. ASSUME NEW p \in Requests, Is(p, "extend"), tasks[p].instance = i  PROVE i \in crossed'
  BY <1>1, <1>5 DEF Extending
<1>6. Short(i)'
  BY <1>2, <1>3, <1>4 DEF Short, Remaining, Typed, ConstantsOK
<1>7. \A j \in Instances : Exists(j)' =>
              \/ Exists(j) /\ leases'[j].made = leases[j].made
              \/ /\ leases'[j].made = time
                 /\ \A p \in Requests : Is(p, "extend") /\ tasks[p].instance = j => j \in crossed'
  BY <1>3, <1>4, <1>5 DEF Exists
<1>8. crossed \subseteq crossed'
  BY <1>1
<1>9. \A j \in Instances \ crossed' : Exists(j)' =>
              \/ /\ j \notin crossed /\ Exists(j)
                 /\ leases'[j].made = leases[j].made /\ leases'[j].life = leases[j].life
              \/ Short(j)'
  BY <1>4, <1>6, <1>8 DEF Exists
<1>. QED
  BY <1>2, <1>7, <1>8, <1>9, LivesFacts

LEMMA EditLives ==
    ASSUME ConstantsOK, Typed, LivesKept, LifeBounded, NEW q \in Requests, EditInstance(q)
    PROVE  LivesKept' /\ LifeBounded'
<1>1. PICK i \in Instances :
         /\ Exists(i)
         /\ \/ \E life \in 1..MaxLife : Write(i, [leases[i] EXCEPT !.life = life])
            \/ \E status \in Statuses : Write(i, [leases[i] EXCEPT !.status = status])
  BY DEF EditInstance
<1>2. Typed' /\ Reads /\ time' = time /\ crossed' = crossed
  BY EditStep, OthersRead DEF EditInstance
<1>3. ASSUME NEW life \in 1..MaxLife, Write(i, [leases[i] EXCEPT !.life = life])
      PROVE  LivesKept' /\ LifeBounded'
  <2>1. life \in Nat /\ life <= MaxLife /\ MaxLife \in Nat
    BY DEF ConstantsOK
  <2>2. [leases[i] EXCEPT !.life = life] \in Slot
    BY <1>1, <2>1, LeaseFacts DEF Slot
  <2>3. leases'[i] = [leases[i] EXCEPT !.life = life]
    BY <1>3, <2>2, WriteFacts
  <2>4. leases'[i].life = life /\ leases'[i].made = leases[i].made
    BY <1>1, <2>3, LeaseFacts DEF Lease
  <2>5. leases[i].made \in Nat /\ leases[i].made <= time /\ time \in Nat
    BY <1>1, LeaseFacts DEF LivesKept, Typed
  <2>6. Short(i)'
    BY <1>2, <2>1, <2>4, <2>5 DEF Short, Remaining
  <2>. QED
    BY <1>1, <1>2, <1>3, <2>1, <2>6, LivesLife
<1>. QED
  BY <1>1, <1>2, <1>3, LivesStatus

LEMMA FindToExtendLives ==
    ASSUME ConstantsOK, Typed, LivesKept, LifeBounded, NEW q \in Requests, FindToExtend(q)
    PROVE  LivesKept' /\ LifeBounded'
<1>1. PICK i \in Instances :
         /\ Exists(i) /\ Remaining(leases[i]) <= Enough
         /\ Becomes(q, [Free EXCEPT !.step = "extend", !.instance = i,
                                    !.seen = [j \in {i} |-> leases[i]]])
  BY DEF FindToExtend
<1>. DEFINE t == [Free EXCEPT !.step = "extend", !.instance = i,
                              !.seen = [j \in {i} |-> leases[i]]]
<1>2. /\ t \in Task /\ t.instance = i /\ i \in DOMAIN t.seen /\ t.seen[i] = leases[i]
      /\ Becomes(q, t)
  BY <1>1, FindFacts
<1>. HIDE DEF t
<1>3. tasks'[q] = t /\ \A p \in Requests \ {q} : tasks'[p] = tasks[p]
  BY <1>2, BecomesFacts
<1>4. leases' = leases /\ time' = time /\ crossed' = crossed
  BY DEF FindToExtend
<1>5. Reading(q)'
  BY <1>1, <1>2, <1>3, <1>4, LeaseFacts DEF Reading, Exists, Remaining
<1>6. ASSUME NEW p \in Requests, p # q, Is(p, "extend")'  PROVE Reading(p)'
  <2>1. Reading(p)
    BY <1>3, <1>6 DEF Is, LivesKept
  <2>. QED
    BY <1>3, <1>4, <1>6, <2>1 DEF Reading, Exists
<1>7. \A j \in Instances : Exists(j)' <=> Exists(j)
  BY <1>4 DEF Exists
<1>. QED
  BY <1>4, <1>5, <1>6, <1>7 DEF LivesKept, LifeBounded, Remaining

LEMMA ExtendLives ==
    ASSUME ConstantsOK, Typed, LivesKept, LifeBounded,
           NEW q \in Requests, ExtendInstanceLifespan(q)
    PROVE  LivesKept' /\ LifeBounded'
<1>0. PICK i \in Instances : i = tasks[q].instance
  BY DEF LivesKept, Reading, ExtendInstanceLifespan
<1>. DEFINE s == tasks[q].seen[i]
<1>1. Typed' /\ Reads /\ time' = time /\ crossed' = crossed
  BY ExtendStep, OthersRead DEF ExtendInstanceLifespan
<1>2. /\ s.life \in Nat /\ s.made \in Nat
      /\ s.life - (time - s.made) <= Enough
      /\ i \notin crossed /\ Exists(i) => leases[i].made = s.made
  BY <1>0 DEF LivesKept, Reading, ExtendInstanceLifespan, Lease
<1>3. CASE Exists(i) /\ \E more \in 1..MaxMore : Write(i, [leases[i] EXCEPT !.life = Extended(q, more)])
  <2>1. PICK more \in 1..MaxMore : Write(i, [leases[i] EXCEPT !.life = Extended(q, more)])
    BY <1>3
  <2>. DEFINE lease == [leases[i] EXCEPT !.life = Extended(q, more)]
  <2>2. Extended(q, more) \in Nat /\ Extended(q, more) = s.life + more
        /\ more \in Nat /\ more <= MaxMore /\ MaxMore \in Nat /\ Enough \in Nat /\ time \in Nat
    BY <1>0, <1>2 DEF Extended, ConstantsOK, Typed
  <2>3. lease \in Slot /\ lease.made = leases[i].made /\ lease.life = s.life + more
    BY <1>2, <1>3, <2>2, LeaseFacts DEF Slot, Lease
  <2>. HIDE DEF lease
  <2>4. leases'[i] = lease /\ \A j \in Instances \ {i} : leases'[j] = leases[j]
    BY <1>2, <2>1, <2>3, WriteFacts DEF lease
  <2>5. ASSUME i \notin crossed PROVE Short(i)'
    <3>1. leases'[i].made = s.made /\ leases'[i].life = s.life + more
      BY <1>2, <1>3, <2>3, <2>4, <2>5
    <3>. QED
      BY <1>1, <1>2, <2>2, <3>1 DEF Short, Remaining
  <2>6. \A j \in Instances : Exists(j)' => Exists(j) /\ leases'[j].made = leases[j].made
    BY <1>3, <2>3, <2>4 DEF Exists
  <2>7. \A j \in Instances \ crossed' : Exists(j)' =>
              \/ /\ j \notin crossed /\ Exists(j)
                 /\ leases'[j].made = leases[j].made /\ leases'[j].life = leases[j].life
              \/ Short(j)'
    BY <1>1, <2>4, <2>5, <2>6
  <2>. QED
    BY <1>1, <2>6, <2>7, LivesFacts
<1>4. CASE Unwritten
  BY <1>1, <1>4, LivesUnwritten
<1>. QED
  BY <1>0, <1>3, <1>4 DEF ExtendInstanceLifespan

LEMMA StatusFoundLives ==
    ASSUME Typed, LivesKept, LifeBounded, StatusFound
    PROVE  LivesKept' /\ LifeBounded'
<1>1. PICK i \in Instances :
         /\ Exists(i)
         /\ \/ \E status \in {"RUNNING", "STOPPED", "FAILED"} :
                 leases[i].status # "DELETED" /\ Write(i, [leases[i] EXCEPT !.status = status])
            \/ leases[i].status = "DELETED" /\ Write(i, Null)
  BY DEF StatusFound
<1>2. Typed' /\ time' = time /\ crossed' = crossed /\ tasks' = tasks
  BY StatusFoundStep DEF StatusFound
<1>3. Reads
  BY <1>2 DEF Reads, Is
<1>4. CASE Write(i, Null)
  <2>1. leases'[i] = Null /\ \A j \in Instances \ {i} : leases'[j] = leases[j]
    BY <1>4, WriteFacts DEF Slot
  <2>2. \A j \in Instances : Exists(j)' => Exists(j) /\ leases'[j] = leases[j]
    BY <2>1 DEF Exists
  <2>. QED
    BY <1>2, <1>3, <2>2, LivesAside
<1>. QED
  BY <1>1, <1>2, <1>3, <1>4, LivesStatus DEF Statuses

LEMMA TickLives ==
    ASSUME ConstantsOK, Typed, LivesKept, LifeBounded, Tick
    PROVE  LivesKept' /\ LifeBounded'
<1>1. leases' = leases /\ tasks' = tasks /\ crossed' = crossed /\ time' = time + 1 /\ time \in Nat
  BY DEF Tick, Typed
<1>2. \A i \in Instances : Exists(i)' <=> Exists(i)
  BY <1>1 DEF Exists
<1>3. \A i \in Instances : Exists(i) => leases[i].life \in Nat /\ leases[i].made \in Nat
                                          /\ leases[i].made <= time
  BY LeaseFacts DEF LivesKept
<1>4. ASSUME NEW p \in Requests, Is(p, "extend")'  PROVE Reading(p)'
  <2>1. Reading(p)
    BY <1>1, <1>4 DEF Is, LivesKept
  <2>2. tasks[p].seen[tasks[p].instance].life \in Nat /\ tasks[p].seen[tasks[p].instance].made \in Nat
    BY <2>1 DEF Reading, Lease
  <2>. QED
    BY <1>1, <2>1, <2>2 DEF Reading, Exists, ConstantsOK
<1>. QED
  BY <1>1, <1>2, <1>3, <1>4 DEF LivesKept, LifeBounded, Remaining, ConstantsOK

-----------------------------------------------------------------------------
(* The theorem.                                                            *)

LEMMA IInvInit ==
    ASSUME ConstantsOK, Init
    PROVE  IInv
<1>1. Typed
  BY FreeFacts DEF Init, Typed, Slot
<1>2. Shown = {} /\ Admitted = {}
  BY FreeFacts DEF Init, Shown, Exists, Admitted, Is
<1>3. Cardinality(Shown \ revived) = 0 /\ Cardinality(Admitted) = 0 /\ IsFiniteSet(Shown)
  BY <1>2, FS_EmptySet DEF Init
<1>4. QuotaKept
  BY <1>3, AdmittedFinite DEF QuotaKept, ConstantsOK
<1>5. LivesKept /\ LifeBounded
  BY FreeFacts DEF Init, LivesKept, LifeBounded, Exists, Is
<1>. QED
  BY <1>1, <1>4, <1>5 DEF IInv

LEMMA IInvStep ==
    ASSUME ConstantsOK, IInv, [Next]_leasing
    PROVE  IInv'
<1>. USE DEF IInv
<1>1. ASSUME NEW q \in Requests, GetInstances(q)  PROVE IInv'
  BY <1>1, GetInstancesStep, OthersRead, LivesUnwritten DEF GetInstances, Unwritten
<1>2. ASSUME NEW q \in Requests, RefreshMonitors(q)  PROVE IInv'
  BY <1>2, RefreshMonitorsStep, QuotaShrinks, OthersRead, LivesUnwritten DEF RefreshMonitors, Unwritten
<1>3. ASSUME NEW q \in Requests, Listed(q)  PROVE IInv'
  BY <1>3, ListedStep, QuotaShrinks, OthersRead, LivesUnwritten DEF Listed, Unwritten
<1>4. ASSUME NEW q \in Requests, CreateInstance(q)  PROVE IInv'
  BY <1>4, CreateStep, CreateLives
<1>5. ASSUME NEW q \in Requests, StartStopInstance(q)  PROVE IInv'
  <2>1. PICK i \in Instances, job \in {"start", "stop"} :
         /\ Exists(i)
         /\ Write(i, [leases[i] EXCEPT !.status = IF job = "start" THEN "STARTING" ELSE "STOPPING"])
    BY <1>5 DEF StartStopInstance
  <2>2. PICK status \in Statuses : Write(i, [leases[i] EXCEPT !.status = status])
    BY <2>1 DEF Statuses
  <2>3. Typed' /\ Shrinks /\ Reads /\ time' = time /\ crossed' = crossed
    BY <1>5, StartStopStep, OthersRead DEF StartStopInstance
  <2>. QED
    BY <2>1, <2>2, <2>3, QuotaShrinks, LivesStatus
<1>6. ASSUME NEW q \in Requests, RestartInstance(q)  PROVE IInv'
  BY <1>6, RestartStep, QuotaShrinks, RestartLives
<1>7. ASSUME NEW q \in Requests, EditInstance(q)  PROVE IInv'
  BY <1>7, EditStep, QuotaShrinks, EditLives
<1>8. ASSUME NEW q \in Requests, DeleteInstance(q)  PROVE IInv'
  <2>1. PICK i \in Instances : Exists(i) /\ Write(i, [leases[i] EXCEPT !.status = "DELETED"])
    BY <1>8 DEF DeleteInstance
  <2>2. Typed' /\ Shrinks /\ Reads /\ time' = time /\ crossed' = crossed
    BY <1>8, DeleteStep, OthersRead DEF DeleteInstance
  <2>. QED
    BY <2>1, <2>2, QuotaShrinks, LivesStatus DEF Statuses
<1>9. ASSUME NEW q \in Requests, FindToExtend(q)  PROVE IInv'
  BY <1>9, FindToExtendStep, QuotaShrinks, FindToExtendLives
<1>10. ASSUME NEW q \in Requests, ExtendInstanceLifespan(q)  PROVE IInv'
  BY <1>10, ExtendStep, QuotaShrinks, ExtendLives
<1>11. ASSUME NEW q \in Requests, PostJob(q)  PROVE IInv'
  BY <1>11, PostJobStep, QuotaShrinks, OthersRead, LivesUnwritten DEF PostJob, Unwritten
<1>12. ASSUME NEW q \in Requests, Die(q)  PROVE IInv'
  BY <1>12, DieStep, QuotaShrinks, OthersRead, LivesUnwritten DEF Die, Unwritten
<1>13. ASSUME NEW q \in Requests, NEW i \in Instances, StopExpired(q, i)  PROVE IInv'
  BY <1>13, StopExpiredStep, QuotaShrinks, StopExpiredLives
<1>14. ASSUME NEW q \in Requests, NEW i \in Instances, StopFails(q, i)  PROVE IInv'
  BY <1>14, StopFailsStep, QuotaShrinks, OthersRead, LivesUnwritten DEF StopFails, Unwritten
<1>15. ASSUME NEW q \in Requests, NEW i \in Instances, EndLife(q, i)  PROVE IInv'
  BY <1>15, EndLifeStep, QuotaShrinks, EndLifeLives
<1>16. CASE StatusFound
  BY <1>16, StatusFoundStep, QuotaShrinks, StatusFoundLives
<1>17. CASE Tick
  BY <1>17, TickStep, QuotaShrinks, TickLives
<1>18. CASE UNCHANGED leasing
  BY <1>18 DEF leasing, Typed, QuotaKept, Shown, Exists, Admitted, Is, LivesKept, Reading,
               LifeBounded, Remaining
<1>. QED
  BY <1>1, <1>2, <1>3, <1>4, <1>5, <1>6, <1>7, <1>8, <1>9, <1>10, <1>11, <1>12, <1>13, <1>14,
     <1>15, <1>16, <1>17, <1>18 DEF Next

LEMMA OvershootFromQuota ==
    ASSUME ConstantsOK, QuotaKept
    PROVE  OvershootBounded
<1>. DEFINE passed == {q \in Requests : Is(q, "checked")}
<1>1. passed \in SUBSET Admitted
  BY DEF Admitted
<1>2. Cardinality(passed) \in Nat /\ Cardinality(passed) <= Cardinality(Admitted)
  BY <1>1, AdmittedFinite, FS_Subset, FS_CardinalityType
<1>3. Cardinality(Shown \ revived) \in Nat
  BY FS_Difference, FS_CardinalityType DEF QuotaKept
<1>. HIDE DEF passed
<1>4. Cardinality(Shown \ revived) + Cardinality(passed) <= Quota + Cardinality(Requests) - 1
  BY <1>2, <1>3, AdmittedFinite DEF QuotaKept, ConstantsOK
<1>. QED
  BY <1>4 DEF OvershootBounded, passed

\* However creations, listings, edits and extensions overlap, a user has at most
\* n - 1 instances over the quota, n being the number of requests, and none of
\* them longer to live than was asked for (checkQuotaBeforeCreation,
\* extendInstanceLifespan).
THEOREM LeasesStayBounded ==
    ASSUME ConstantsOK
    PROVE  Spec => []LeasesBounded
<1>1. Init => IInv
  BY IInvInit
<1>2. IInv /\ [Next]_leasing => IInv'
  BY IInvStep
<1>3. IInv => LeasesBounded
  BY OvershootFromQuota DEF IInv, LeasesBounded
<1>. QED
  BY <1>1, <1>2, <1>3, PTL DEF Spec

-----------------------------------------------------------------------------
(* The rest of the types: jobs are posted by requests that have one.       *)

JobsTyped ==
    /\ posted \subseteq Jobs
    /\ \A q \in Requests : Is(q, "post") => tasks[q].job \in Jobs

CountsTyped ==
    /\ time \in 0..MaxTime /\ started \in 0..MaxBegun /\ died \in 0..MaxFaults
    /\ crossed \subseteq Instances

\* A request goes on, and if it is about to post a job it has one.
LEMMA JobsBecome ==
    ASSUME Typed, JobsTyped, posted' \subseteq Jobs, NEW q \in Requests, NEW t, Becomes(q, t),
           t.step = "post" => t.job \in Jobs
    PROVE  JobsTyped'
<1>1. tasks'[q] = t /\ \A p \in Requests \ {q} : tasks'[p] = tasks[p]
  BY DEF Typed, Becomes
<1>. QED
  BY <1>1 DEF JobsTyped, Is

\* What is posted, and what is about to be.
LEMMA JobsStep ==
    ASSUME Typed, JobsTyped, [Next]_leasing
    PROVE  JobsTyped'
<1>1. posted \subseteq Jobs /\ posted \cup {"monitor"} \subseteq Jobs /\ posted \cup {"stop"} \subseteq Jobs
  BY DEF JobsTyped, Jobs
<1>2. ASSUME NEW q \in Requests, posted' = posted, NEW job \in Jobs, Post(q, job)
      PROVE  JobsTyped'
  <2>1. [Free EXCEPT !.step = "post", !.job = job].job = job
    BY DEF Free
  <2>. QED
    BY <1>1, <1>2, <2>1, JobsBecome DEF Post
<1>3. ASSUME NEW q \in Requests, posted' \subseteq Jobs, Becomes(q, Free)
      PROVE  JobsTyped'
  BY <1>3, JobsBecome DEF Free
<1>4. ASSUME NEW q \in Requests, GetInstances(q)
      PROVE  JobsTyped'
  <2>1. PICK creates, seen : Becomes(q, [Free EXCEPT !.step = "list", !.creates = creates, !.seen = seen])
    BY <1>4, Zenon DEF GetInstances
  <2>2. [Free EXCEPT !.step = "list", !.creates = creates, !.seen = seen].step = "list"
    BY DEF Free
  <2>. QED
    BY <1>1, <1>4, <2>1, <2>2, JobsBecome DEF GetInstances
<1>5. ASSUME NEW q \in Requests, FindToExtend(q)
      PROVE  JobsTyped'
  <2>1. PICK i, seen : Becomes(q, [Free EXCEPT !.step = "extend", !.instance = i, !.seen = seen])
    BY <1>5, Zenon DEF FindToExtend
  <2>2. [Free EXCEPT !.step = "extend", !.instance = i, !.seen = seen].step = "extend"
    BY DEF Free
  <2>. QED
    BY <1>1, <1>5, <2>1, <2>2, JobsBecome DEF FindToExtend
<1>6. ASSUME NEW q \in Requests, RefreshMonitors(q)
      PROVE  JobsTyped'
  <2>1. PICK seen : Becomes(q, [tasks[q] EXCEPT !.step = "expire", !.seen = seen])
    BY <1>6, Zenon DEF RefreshMonitors
  <2>2. [tasks[q] EXCEPT !.step = "expire", !.seen = seen].step = "expire"
    BY TaskFacts DEF Task
  <2>. QED
    BY <1>1, <1>6, <2>1, <2>2, JobsBecome DEF RefreshMonitors
<1>7. ASSUME NEW q \in Requests, NEW i \in Instances, StopExpired(q, i) \/ EndLife(q, i)
      PROVE  JobsTyped'
  <2>1. PICK seen : Becomes(q, [tasks[q] EXCEPT !.seen = seen])
    <3>1. \A v : [tasks[q] EXCEPT !.seen[i] = v] = [tasks[q] EXCEPT !.seen = [tasks[q].seen EXCEPT ![i] = v]]
      BY TaskFacts DEF Task
    <3>2. \A v : [tasks[q] EXCEPT !.seen[i].status = v]
                   = [tasks[q] EXCEPT !.seen = [tasks[q].seen EXCEPT ![i].status = v]]
      BY TaskFacts DEF Task
    <3>. QED
      BY <1>7, <3>1, <3>2 DEF StopExpired, EndLife
  <2>2. [tasks[q] EXCEPT !.seen = seen].step = "expire"
    BY <1>7, TaskFacts DEF Task, StopExpired, EndLife, Is
  <2>. QED
    BY <1>1, <1>7, <2>1, <2>2, JobsBecome DEF StopExpired, EndLife
<1>8. ASSUME NEW q \in Requests,
             \/ \E i \in Instances : StopFails(q, i)
             \/ ExtendInstanceLifespan(q) \/ Die(q)
      PROVE  JobsTyped'
  BY <1>1, <1>3, <1>8 DEF StopFails, ExtendInstanceLifespan, Die
<1>9. ASSUME NEW q \in Requests, Listed(q)
      PROVE  JobsTyped'
  <2>1. Becomes(q, [Free EXCEPT !.step = "checked"]) \/ Becomes(q, Free)
    BY <1>9, Zenon DEF Listed
  <2>2. [Free EXCEPT !.step = "checked"].step = "checked"
    BY DEF Free
  <2>. QED
    BY <1>1, <1>3, <1>9, <2>1, <2>2, JobsBecome DEF Listed
<1>10. ASSUME NEW q \in Requests, PostJob(q)
      PROVE  JobsTyped'
  <2>1. posted' \subseteq Jobs
    BY <1>1, <1>10 DEF PostJob, JobsTyped
  <2>. QED
    BY <1>3, <1>10, <2>1 DEF PostJob
<1>11. ASSUME NEW q \in Requests,
              \/ CreateInstance(q) \/ StartStopInstance(q) \/ RestartInstance(q)
              \/ EditInstance(q) \/ DeleteInstance(q)
      PROVE  JobsTyped'
  <2>1. \E job \in Jobs : Post(q, job)
    <3>1. /\ "create" \in Jobs /\ "start" \in Jobs /\ "update" \in Jobs /\ "delete" \in Jobs
          /\ {"start", "stop"} \subseteq Jobs
      BY DEF Jobs
    <3>. QED
      BY <1>11, <3>1
         DEF CreateInstance, StartStopInstance, RestartInstance, EditInstance, DeleteInstance
  <2>2. posted' = posted
    BY <1>11, Zenon DEF CreateInstance, StartStopInstance, RestartInstance, EditInstance, DeleteInstance
  <2>. QED
    BY <1>2, <2>1, <2>2
<1>12. CASE UNCHANGED <<posted, tasks>>
  BY <1>12 DEF JobsTyped, Is
<1>. QED
  BY <1>4, <1>5, <1>6, <1>7, <1>8, <1>9, <1>10, <1>11, <1>12 DEF Next, StatusFound, Tick, leasing

\* The time, what is counted, and which instances an extension has crossed.
LEMMA CountsStep ==
    ASSUME ConstantsOK, CountsTyped, [Next]_leasing
    PROVE  CountsTyped'
<1>1. /\ time \in 0..MaxTime /\ started \in 0..MaxBegun /\ died \in 0..MaxFaults
      /\ MaxBegun \in Nat /\ MaxTime \in Nat /\ MaxFaults \in Nat
  BY DEF ConstantsOK, CountsTyped
<1>2. Starts => started' \in 0..MaxBegun
  BY <1>1 DEF Starts
<1>3. crossed \subseteq Instances
  BY DEF CountsTyped
<1>4. ASSUME NEW q \in Requests,
             \/ GetInstances(q) \/ StartStopInstance(q) \/ EditInstance(q) \/ DeleteInstance(q)
             \/ FindToExtend(q)
      PROVE  CountsTyped'
  <2>1. Starts /\ UNCHANGED <<time, died, crossed>>
    BY <1>4, Zenon DEF GetInstances, StartStopInstance, EditInstance, DeleteInstance, FindToExtend
  <2>. QED
    BY <1>1, <1>2, <2>1 DEF CountsTyped
<1>5. ASSUME NEW q \in Requests, RestartInstance(q)
      PROVE  CountsTyped'
  <2>1. Starts /\ UNCHANGED <<time, died>>
    BY <1>5, Zenon DEF RestartInstance
  <2>2. crossed' \subseteq Instances
    BY <1>3, <1>5 DEF RestartInstance
  <2>. QED
    BY <1>1, <1>2, <2>1, <2>2 DEF CountsTyped
<1>6. ASSUME NEW q \in Requests, CreateInstance(q)
      PROVE  CountsTyped'
  <2>1. UNCHANGED <<time, started, died>> /\ crossed' \subseteq Instances
    BY <1>3, <1>6 DEF CreateInstance
  <2>. QED
    BY <1>1, <2>1 DEF CountsTyped
<1>7. ASSUME NEW q \in Requests, Die(q)
      PROVE  CountsTyped'
  BY <1>1, <1>3, <1>7 DEF Die, CountsTyped
<1>8. CASE Tick
  BY <1>1, <1>3, <1>8 DEF Tick, CountsTyped
<1>9. CASE UNCHANGED <<time, started, died, crossed>>
  BY <1>1, <1>3, <1>9 DEF CountsTyped
<1>10. ASSUME NEW q \in Requests,
              \/ RefreshMonitors(q) \/ Listed(q) \/ ExtendInstanceLifespan(q) \/ PostJob(q)
              \/ \E i \in Instances : StopExpired(q, i) \/ StopFails(q, i) \/ EndLife(q, i)
       PROVE  CountsTyped'
  <2>1. UNCHANGED <<time, started, died, crossed>>
    BY <1>10, Zenon
       DEF RefreshMonitors, Listed, ExtendInstanceLifespan, PostJob, StopExpired, StopFails, EndLife
  <2>. QED
    BY <1>9, <2>1
<1>11. CASE StatusFound \/ UNCHANGED leasing
  BY <1>9, <1>11 DEF StatusFound, leasing
<1>. QED
  BY <1>4, <1>5, <1>6, <1>7, <1>8, <1>10, <1>11 DEF Next

\* The documents, the requests and all that is counted are of their types.
THEOREM LeasesAreTyped ==
    ASSUME ConstantsOK
    PROVE  Spec => []TypeOK
<1>. DEFINE Inv == IInv /\ JobsTyped /\ CountsTyped
<1>1. Init => Inv
  <2>1. Init => JobsTyped
    BY DEF Init, JobsTyped, Is, Free
  <2>2. Init => CountsTyped
    BY DEF Init, CountsTyped, ConstantsOK
  <2>. QED
    BY <2>1, <2>2, IInvInit
<1>2. Inv /\ [Next]_leasing => Inv'
  BY IInvStep, JobsStep, CountsStep DEF IInv
<1>3. Inv => TypeOK
  <2>. SUFFICES ASSUME Inv
                PROVE  TypeOK
    OBVIOUS
  <2>1. ASSUME NEW q \in Requests
        PROVE  /\ tasks[q].step \in Steps /\ tasks[q].creates \in BOOLEAN
               /\ DOMAIN tasks[q].seen \subseteq Instances
               /\ \A i \in DOMAIN tasks[q].seen : tasks[q].seen[i] \in Lease \cup {Null}
               /\ tasks[q].instance \in Instances \cup {Null} /\ tasks[q].job \in Jobs \cup {Null}
    <3>1. tasks[q] \in Task
      BY DEF IInv, Typed
    <3>2. DOMAIN tasks[q].seen \in SUBSET Instances /\ tasks[q].seen \in [DOMAIN tasks[q].seen -> Slot]
      BY <3>1, SeenOut DEF Task
    <3>. QED
      BY <3>1, <3>2 DEF Task, Slot
  <2>. QED
    BY <2>1, Zenon DEF IInv, Typed, Slot, JobsTyped, CountsTyped, TypeOK
<1>. QED
  BY <1>1, <1>2, <1>3, PTL DEF Spec
=============================================================================
