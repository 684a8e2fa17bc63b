------------------------- MODULE LxdInstancesProofs -------------------------
(***************************************************************************)
(* Theorems of LxdInstances, for all instances and names, any number of    *)
(* requests and of calls of checkForJobs, and all bounds.                  *)
(***************************************************************************)
EXTENDS LxdInstances, SequenceTheorems, TLAPS

USE DEF history

-----------------------------------------------------------------------------
(* The parts of a step.                                                    *)

LEMMA IdleFacts ==
    /\ SomeInstance \in Instances
    /\ IdleClient \in Client /\ IdleClient.pc = "idle"
    /\ IdleWorker \in Worker /\ IdleWorker.pc = "idle" /\ IdleWorker.todo = {}
<1>1. SomeInstance \in Instances
  BY NameAssumption DEF SomeInstance
<1>. QED
  BY <1>1 DEF IdleClient, Client, Ops, IdleWorker, Worker, Steps

LEMMA WorkerFacts ==
    ASSUME TypeOK, NEW w \in Workers
    PROVE  /\ worker[w] \in Worker /\ worker[w].inst \in Instances
           /\ worker[w].pc \in Steps /\ worker[w].todo \subseteq Instances
  BY DEF TypeOK, Worker

LEMMA ClientFacts ==
    ASSUME TypeOK, NEW c \in Clients
    PROVE  client[c] \in Client /\ client[c].inst \in Instances /\ client[c].op \in Ops
  BY DEF TypeOK, Client

LEMMA SetStatusFacts ==
    ASSUME TypeOK, NEW i \in Instances, NEW s \in Status, SetStatus(i, s) \/ SetIfExists(i, s)
    PROVE  /\ doc' \in [Instances -> Doc]
           /\ \A k \in Instances :
                 /\ doc'[k].doomed = doc[k].doomed
                 /\ doc'[k].status = doc[k].status \/ (k = i /\ doc'[k].status = s)
<1>1. doc \in [Instances -> Doc]
  BY DEF TypeOK
<1>2. CASE doc' = doc
  BY <1>1, <1>2
<1>3. CASE doc' = [doc EXCEPT ![i].status = s]
  BY <1>1, <1>3 DEF Doc
<1>. QED
  BY <1>2, <1>3 DEF SetStatus, SetIfExists

LEMMA GoToFacts ==
    ASSUME TypeOK, NEW w \in Workers, NEW pc \in Steps, GoTo(w, pc)
    PROVE  /\ worker' \in [Workers -> Worker]
           /\ worker'[w].pc = pc /\ worker'[w].inst = worker[w].inst
           /\ worker'[w].todo = worker[w].todo
           /\ \A v \in Workers : v # w => worker'[v] = worker[v]
  BY DEF TypeOK, GoTo, Worker

LEMMA QueueFacts ==
    ASSUME TypeOK, NEW c \in Clients, NEW i \in Instances, NEW op \in Ops, Queue(c, i, op)
    PROVE  client' \in [Clients -> Client]
<1>1. [IdleClient EXCEPT !.pc = "post", !.inst = i, !.op = op] \in Client
  BY IdleFacts DEF Client
<1>. QED
  BY <1>1 DEF Queue, TypeOK

LEMMA JobFacts ==
    ASSUME TypeOK
    PROVE  \A k \in 1..Len(jobs) :
              /\ jobs[k] \in Job
              /\ \A s \in {"CANCELLED", "DONE"} : [jobs[k] EXCEPT !.status = s] \in Job
<1>1. \A k \in 1..Len(jobs) : jobs[k] \in Job
  BY ElementOfSeq DEF TypeOK
<1>2. \A j \in Job, s \in {"CANCELLED", "DONE"} : [j EXCEPT !.status = s] \in Job
  BY DEF Job
<1>. QED
  BY <1>1, <1>2

LEMMA DestroyedFacts ==
    ASSUME TypeOK, NEW n \in Names
    PROVE  /\ Destroyed(n) \in [Names -> {"none", "making", "stopped", "running"}]
           /\ \A m \in Names : m # n => Destroyed(n)[m] = box[m]
  BY DEF TypeOK, Destroyed

-----------------------------------------------------------------------------
(* Type correctness.                                                       *)

LEMMA InitType == Init => TypeOK
<1>. SUFFICES ASSUME Init PROVE TypeOK
  OBVIOUS
<1>1. doc \in [Instances -> Doc]
  BY DEF Init, Doc, Status
<1>2. monitor \in Monitor /\ jobs \in Seq(Job)
  BY EmptySeq DEF Init, Monitor
<1>. QED
  BY <1>1, <1>2, IdleFacts DEF Init, TypeOK

LEMMA ClientType ==
    ASSUME TypeOK, NEW c \in Clients, ClientStep(c) \/ ClientRequest(c) \/ RequestDies(c)
    PROVE  TypeOK'
<1>. USE DEF TypeOK
<1>0. client[c] \in Client /\ client[c].inst \in Instances /\ client[c].op \in Ops
  BY ClientFacts
<1>i. client' = [client EXCEPT ![c] = IdleClient] => client' \in [Clients -> Client]
  BY IdleFacts
<1>1. CASE StopExpired(c)
  <2>1. doc' \in [Instances -> Doc]
    BY <1>0, <1>1, SetStatusFacts DEF StopExpired, Status
  <2>2. client' \in [Clients -> Client]
    BY <1>0, <1>1, <1>i, QueueFacts DEF StopExpired, Ops
  <2>. QED
    BY <1>1, <2>1, <2>2 DEF StopExpired
<1>2. CASE PostJob(c)
  <2>1. [op |-> client[c].op, inst |-> client[c].inst, status |-> "PENDING"] \in Job
    BY <1>0 DEF Job
  <2>2. jobs' \in Seq(Job)
    BY <1>2, <2>1, AppendProperties DEF PostJob
  <2>3. Len(jobs) + 1 \in Nat
    BY LenProperties
  <2>4. [client[c] EXCEPT !.pc = "cancel", !.job = Len(jobs) + 1] \in Client
    BY <1>0, <2>3 DEF Client
  <2>5. client' \in [Clients -> Client]
    BY <1>2, <2>4, IdleFacts DEF PostJob
  <2>. QED
    BY <1>2, <2>2, <2>5 DEF PostJob
<1>3. CASE CancelJobs(c)
  <2>1. \A k \in DOMAIN jobs : jobs[k] \in Job /\ [jobs[k] EXCEPT !.status = "CANCELLED"] \in Job
    BY JobFacts, LenProperties
  <2>2. jobs' \in [1..Len(jobs) -> Job]
    BY <1>3, <2>1, LenProperties DEF CancelJobs
  <2>3. jobs' \in Seq(Job)
    BY <2>2, LenProperties, IsASeq
  <2>4. monitor' \in Monitor
    BY <1>3 DEF CancelJobs, Monitor
  <2>. QED
    BY <1>3, <1>i, <2>3, <2>4 DEF CancelJobs
<1>4. CASE RequestDies(c)
  BY <1>4, <1>i, <1>0 DEF RequestDies
<1>5. ASSUME NEW i \in Instances, CreateInstance(c, i) PROVE TypeOK'
  <2>1. doc' \in [Instances -> Doc]
    BY <1>5, SetStatusFacts DEF CreateInstance, Status
  <2>2. client' \in [Clients -> Client]
    BY <1>5, QueueFacts DEF CreateInstance, Ops
  <2>. QED
    BY <1>5, <2>1, <2>2 DEF CreateInstance
<1>6. ASSUME NEW i \in Instances, DeleteInstance(c, i) PROVE TypeOK'
  <2>1. doc' \in [Instances -> Doc]
    BY <1>6 DEF DeleteInstance, Doc, Status
  <2>2. client' \in [Clients -> Client]
    BY <1>6, QueueFacts DEF DeleteInstance, Ops
  <2>. QED
    BY <1>6, <2>1, <2>2 DEF DeleteInstance
<1>7. ASSUME NEW i \in Instances, FindExpired(c, i) PROVE TypeOK'
  <2>1. [IdleClient EXCEPT !.pc = "expired", !.inst = i] \in Client
    BY IdleFacts DEF Client
  <2>. QED
    BY <1>7, <2>1 DEF FindExpired
<1>8. ASSUME NEW i \in Instances, NEW op \in {"start", "stop"}, StartStop(c, i, op) PROVE TypeOK'
  <2>1. doc' \in [Instances -> Doc]
    BY <1>8, SetStatusFacts DEF StartStop, Status
  <2>2. client' \in [Clients -> Client]
    BY <1>8, QueueFacts DEF StartStop, Ops
  <2>. QED
    BY <1>8, <2>1, <2>2 DEF StartStop
<1>9. ASSUME NEW i \in Instances, EditInstance(c, i) PROVE TypeOK'
  <2>. PICK s \in Status : SetStatus(i, s)
    BY <1>9 DEF EditInstance
  <2>1. doc' \in [Instances -> Doc]
    BY SetStatusFacts
  <2>2. client' \in [Clients -> Client]
    BY <1>9, QueueFacts DEF EditInstance, Ops
  <2>3. edited' \subseteq Instances /\ lost' \subseteq Instances
    BY <1>9 DEF EditInstance
  <2>. QED
    BY <1>9, <2>1, <2>2, <2>3 DEF EditInstance
<1>. QED
  BY <1>1, <1>2, <1>3, <1>4, <1>5, <1>6, <1>7, <1>8, <1>9 DEF ClientStep, ClientRequest

LEMMA JobStepType ==
    ASSUME TypeOK, NEW w \in Workers, JobStep(w)
    PROVE  TypeOK'
<1>. USE DEF TypeOK
<1>0. worker[w] \in Worker /\ worker[w].inst \in Instances /\ NameOf[worker[w].inst] \in Names
  BY WorkerFacts, NameAssumption
<1>1. CASE Report(w)
  <2>1. jobs \in Seq(Job) /\ jobs' = [jobs EXCEPT ![worker[w].job].status = "DONE"]
    BY <1>1 DEF Report
  <2>2. \A k \in 1..Len(jobs) : jobs[k] \in Job /\ [jobs[k] EXCEPT !.status = "DONE"] \in Job
    BY <2>1, JobFacts
  <2>3. DOMAIN jobs' = 1..Len(jobs) /\ \A k \in 1..Len(jobs) : jobs'[k] \in Job
    BY <2>1, <2>2, LenProperties
  <2>4. jobs' = [k \in 1..Len(jobs) |-> jobs'[k]]
    BY <2>1, <2>3, LenProperties
  <2>5. jobs' \in Seq(Job)
    BY <2>3, <2>4, LenProperties, IsASeq
  <2>. QED
    BY <1>1, <2>5, IdleFacts DEF Report
<1>2. CASE BeginCreate(w)
  <2>1. worker' \in [Workers -> Worker]
    BY <1>2, GoToFacts DEF BeginCreate, Steps
  <2>. QED
    BY <1>2, <2>1 DEF BeginCreate
<1>3. CASE PostCreate(w)
  <2>1. worker' \in [Workers -> Worker]
    BY <1>3, GoToFacts DEF PostCreate, Steps
  <2>2. box' \in [Names -> {"none", "making", "stopped", "running"}]
    BY <1>0, <1>3 DEF PostCreate
  <2>3. lost' \subseteq Instances
    BY <1>0, <1>3 DEF PostCreate
  <2>. QED
    BY <1>3, <2>1, <2>2, <2>3 DEF PostCreate
<1>4. CASE PollCreate(w)
  <2>1. worker' \in [Workers -> Worker]
    BY <1>4, GoToFacts DEF PollCreate, Steps
  <2>. QED
    BY <1>0, <1>4, <2>1 DEF PollCreate
<1>5. CASE WaitStopped(w)
  <2>1. worker' \in [Workers -> Worker]
    BY <1>5, GoToFacts DEF WaitStopped, Steps
  <2>. QED
    BY <1>5, <2>1 DEF WaitStopped
<1>6. CASE WriteStatus(w)
  <2>1. worker' \in [Workers -> Worker]
    BY <1>6, GoToFacts DEF WriteStatus, Steps
  <2>2. doc' \in [Instances -> Doc]
    BY <1>0, <1>6, SetStatusFacts DEF WriteStatus, Status
  <2>. QED
    BY <1>6, <2>1, <2>2 DEF WriteStatus
<1>7. CASE Switch(w)
  <2>1. worker' \in [Workers -> Worker]
    BY <1>7, GoToFacts DEF Switch, Steps
  <2>2. box' \in [Names -> {"none", "making", "stopped", "running"}]
    BY <1>0, <1>7 DEF Switch
  <2>. QED
    BY <1>7, <2>1, <2>2 DEF Switch
<1>8. CASE BeginDelete(w)
  <2>1. worker' \in [Workers -> Worker]
    BY <1>8, GoToFacts DEF BeginDelete, Steps
  <2>. QED
    BY <1>8, <2>1 DEF BeginDelete
<1>9. CASE CallDelete(w)
  <2>1. worker' \in [Workers -> Worker]
    BY <1>9, GoToFacts DEF CallDelete, Steps
  <2>2. box' \in [Names -> {"none", "making", "stopped", "running"}]
    BY <1>0, <1>9, DestroyedFacts DEF CallDelete
  <2>. QED
    BY <1>9, <2>1, <2>2 DEF CallDelete
<1>10. CASE RemoveDoc(w)
  <2>1. worker' \in [Workers -> Worker]
    BY <1>10, GoToFacts DEF RemoveDoc, Steps
  <2>2. doc' \in [Instances -> Doc]
    BY <1>0, <1>10, SetStatusFacts DEF RemoveDoc, Status
  <2>. QED
    BY <1>10, <2>1, <2>2 DEF RemoveDoc
<1>11. CASE UpdateConfig(w)
  <2>1. worker' \in [Workers -> Worker]
    BY <1>11, GoToFacts DEF UpdateConfig, Steps
  <2>. QED
    BY <1>11, <2>1 DEF UpdateConfig
<1>. QED
  BY <1>1, <1>2, <1>3, <1>4, <1>5, <1>6, <1>7, <1>8, <1>9, <1>10, <1>11 DEF JobStep

LEMMA RecurringType ==
    ASSUME TypeOK, NEW w \in Workers, RecurringStep(w) \/ BeginScan(w) \/ BeginSync(w)
    PROVE  TypeOK'
<1>. USE DEF TypeOK
<1>0. worker[w] \in Worker /\ worker[w].inst \in Instances /\ worker[w].seen \in {"stopped", "running"}
      /\ worker[w].todo \subseteq Instances
  BY WorkerFacts DEF Worker
<1>1. CASE RecordState(w)
  <2>1. worker' \in [Workers -> Worker]
    BY <1>1, GoToFacts DEF RecordState, Steps
  <2>2. doc' \in [Instances -> Doc]
    BY <1>0, <1>1, SetStatusFacts DEF RecordState, StatusOf, Status
  <2>. QED
    BY <1>1, <2>1, <2>2 DEF RecordState
<1>2. CASE EndRecurring(w)
  <2>1. monitor' \in Monitor
    BY <1>2 DEF EndRecurring, Monitor
  <2>. QED
    BY <1>2, <2>1, IdleFacts DEF EndRecurring
<1>3. ASSUME NEW i \in Instances, ReadState(w, i) PROVE TypeOK'
  <2>. DEFINE r == [worker[w] EXCEPT !.pc = "record", !.inst = i, !.seen = Box(i),
                                     !.todo = worker[w].todo \ {i}]
              n == [worker[w] EXCEPT !.todo = worker[w].todo \ {i}]
  <2>1. Box(i) \in {"stopped", "running"} => r \in Worker
    BY <1>0 DEF Worker, Steps
  <2>2. n \in Worker
    BY <1>0 DEF Worker
  <2>3. worker' = [worker EXCEPT ![w] = IF Box(i) \in {"stopped", "running"} THEN r ELSE n]
    BY <1>3 DEF ReadState
  <2>. HIDE DEF r, n
  <2>4. worker' \in [Workers -> Worker]
    BY <2>1, <2>2, <2>3
  <2>. QED
    BY <1>3, <2>4 DEF ReadState
<1>4. ASSUME NEW i \in Instances, SyncDeletion(w, i) PROVE TypeOK'
  <2>1. worker' \in [Workers -> Worker]
    BY <1>0, <1>4 DEF SyncDeletion, Worker
  <2>2. box' \in [Names -> {"none", "making", "stopped", "running"}]
    BY <1>4, DestroyedFacts, NameAssumption DEF SyncDeletion
  <2>. QED
    BY <1>4, <2>1, <2>2 DEF SyncDeletion
<1>5. ASSUME NEW todo \in SUBSET Instances, NEW pc \in {"scan", "sync"}
      PROVE  [IdleWorker EXCEPT !.pc = pc, !.todo = todo] \in Worker
  BY IdleFacts DEF Worker, Steps
<1>6. CASE BeginScan(w)
  <2>1. worker' \in [Workers -> Worker]
    BY <1>5, <1>6 DEF BeginScan
  <2>. QED
    BY <1>6, <2>1 DEF BeginScan
<1>7. CASE BeginSync(w)
  <2>1. worker' \in [Workers -> Worker]
    BY <1>5, <1>7 DEF BeginSync
  <2>. QED
    BY <1>7, <2>1 DEF BeginSync
<1>. QED
  BY <1>1, <1>2, <1>3, <1>4, <1>6, <1>7 DEF RecurringStep

LEMMA NextType == TypeOK /\ [Next]_vars => TypeOK'
<1>. SUFFICES ASSUME TypeOK, [Next]_vars PROVE TypeOK'
  OBVIOUS
<1>. USE DEF TypeOK
<1>1. CASE \E c \in Clients : ClientStep(c) \/ ClientRequest(c) \/ RequestDies(c)
  BY <1>1, ClientType
<1>2. CASE \E w \in Workers : WorkerStep(w) \/ BeginScan(w) \/ BeginSync(w)
  BY <1>2, JobStepType, RecurringType DEF WorkerStep
<1>3. CASE \E w \in Workers : LxdFails(w)
  <2>. PICK w \in Workers : LxdFails(w)
    BY <1>3
  <2>1. worker' \in [Workers -> Worker]
    <3>1. CASE \E pc \in Steps : GoTo(w, pc)
      BY <3>1, GoToFacts
    <3>2. CASE \E i \in worker[w].todo : worker' = [worker EXCEPT ![w].todo = @ \ {i}]
      <4>. PICK i \in worker[w].todo : worker' = [worker EXCEPT ![w].todo = @ \ {i}]
        BY <3>2
      <4>1. [worker[w] EXCEPT !.todo = worker[w].todo \ {i}] \in Worker
        BY WorkerFacts DEF Worker
      <4>. QED
        BY <4>1
    <3>. QED
      BY <3>1, <3>2 DEF LxdFails, Steps
  <2>. QED
    BY <2>1 DEF LxdFails
<1>4. CASE \E w \in Workers : PickJob(w)
  <2>. PICK w \in Workers, k \in DOMAIN jobs :
          worker' = [worker EXCEPT ![w] = [IdleWorker EXCEPT !.pc = "begin", !.job = k,
                                                           !.inst = jobs[k].inst]]
    BY <1>4 DEF PickJob
  <2>1. k \in Nat /\ jobs[k] \in Job
    BY ElementOfSeq, LenProperties
  <2>2. [IdleWorker EXCEPT !.pc = "begin", !.job = k, !.inst = jobs[k].inst] \in Worker
    BY <2>1, IdleFacts DEF Worker, Job, Steps
  <2>. QED
    BY <1>4, <2>2 DEF PickJob
<1>5. CASE \E n \in Names : LxdMakes(n)
  <2>1. box' \in [Names -> {"none", "making", "stopped", "running"}]
    BY <1>5 DEF LxdMakes
  <2>. QED
    BY <1>5, <2>1 DEF LxdMakes
<1>6. CASE RefreshMonitor
  <2>1. monitor' \in Monitor
    BY <1>6 DEF RefreshMonitor, Monitor
  <2>. QED
    BY <1>6, <2>1 DEF RefreshMonitor
<1>7. CASE Crash
  BY <1>7, IdleFacts DEF Crash
<1>8. CASE UNCHANGED vars
  BY <1>8 DEF vars
<1>9. CASE \E n \in Names : DirectCall(n)
  <2>1. box' \in [Names -> {"none", "making", "stopped", "running"}]
    BY <1>9, DestroyedFacts DEF DirectCall
  <2>. QED
    BY <1>9, <2>1 DEF DirectCall
<1>. QED
  BY <1>1, <1>2, <1>3, <1>4, <1>5, <1>6, <1>7, <1>8, <1>9 DEF Next

\* Documents, containers, jobs, requests and handlers hold values of their types, for any
\* number of instances, requests and calls of checkForJobs.
THEOREM TypeCorrect == Spec => []TypeOK
<1>1. Init => TypeOK
  BY InitType
<1>2. TypeOK /\ [Next]_vars => TypeOK'
  BY NextType
<1>. QED
  BY <1>1, <1>2, PTL DEF Spec

-----------------------------------------------------------------------------
(* An instance that is PENDING has its create job.  A document is PENDING  *)
(* only from its insertion on, and what has settled never is again, unless *)
(* an edit makes it so: the job may go once the document has settled, and  *)
(* it goes no earlier.  A delete job is one of an instance that deleteInstance *)
(* was called for.                                                         *)

Begun(i) == doc[i].status # "NONE"
Wanted(i, op) == Begun(i) /\ (op = "delete" => doc[i].doomed)
Settled(i) == Begun(i) /\ (doc[i].status # "PENDING" \/ i \in lost)

Waiting(i, k) == jobs[k].op = "create" /\ jobs[k].inst = i /\ Pending(k)
Posting(i, c) == client[c].pc = "post" /\ client[c].op = "create" /\ client[c].inst = i

JobsBegun == \A k \in 1..Len(jobs) : Wanted(jobs[k].inst, jobs[k].op)

ClientOK(c) ==
    /\ client[c].pc = "post" => /\ Wanted(client[c].inst, client[c].op)
                                /\ client[c].op = "delete" => Settled(client[c].inst)
    /\ client[c].pc = "cancel" => Settled(client[c].inst)

Recurring == {"idle", "scan", "record", "sync"}
Last == {"delete", "remove", "report"}
WorkerOK(w) ==
    /\ worker[w].pc \notin Recurring => /\ worker[w].job \in 1..Len(jobs)
                                        /\ jobs[worker[w].job].inst = worker[w].inst
    /\ worker[w].pc \in Last /\ Op(w) = "create" =>
          Settled(worker[w].inst) \/ worker[w].inst \in lost

AwaitInv == /\ TypeOK /\ JobsBegun /\ PendingHasJob
            /\ (\A c \in Clients : ClientOK(c)) /\ (\A w \in Workers : WorkerOK(w))

\* What every step but an insertion does to the documents, the jobs and `lost`.
DocsSettle ==
    \A i \in Instances : /\ Settled(i) => Settled(i)'
                         /\ Begun(i) => Begun(i)'
                         /\ doc[i].doomed => doc'[i].doomed
                         /\ doc'[i].status = "PENDING" => doc[i].status = "PENDING" \/ i \in lost'
JobsStay ==
    /\ Len(jobs') \in Nat /\ Len(jobs) \in Nat /\ Len(jobs) <= Len(jobs')
    /\ \A k \in 1..Len(jobs) : /\ jobs'[k].op = jobs[k].op /\ jobs'[k].inst = jobs[k].inst
                               /\ jobs[k] \in Job

LEMMA SameJobs ==
    ASSUME TypeOK, jobs' = jobs
    PROVE  JobsStay
  BY JobFacts, LenProperties DEF TypeOK, JobsStay

LEMMA Settles ==
    ASSUME TypeOK, NEW i \in Instances, NEW s \in Status \ {"NONE", "PENDING"},
           SetStatus(i, s) \/ SetIfExists(i, s),
           lost \subseteq lost'
    PROVE  DocsSettle /\ (Begun(i) => Settled(i)')
<1>1. DocsSettle
  BY SetStatusFacts DEF DocsSettle, Settled, Begun
<1>2. ASSUME Begun(i) PROVE Settled(i)'
  BY <1>2 DEF SetStatus, SetIfExists, Exists, Begun, Settled, TypeOK, Doc, Status
<1>. QED
  BY <1>1, <1>2

LEMMA SameDocsSettle ==
    ASSUME doc' = doc, lost \subseteq lost'
    PROVE  DocsSettle
  BY DEF DocsSettle, Settled, Begun

LEMMA ClientKept ==
    ASSUME TypeOK, NEW c \in Clients, ClientOK(c), client'[c] = client[c], DocsSettle
    PROVE  ClientOK(c)'
  BY ClientFacts DEF ClientOK, DocsSettle, Wanted

LEMMA WorkerKept ==
    ASSUME TypeOK, NEW w \in Workers, WorkerOK(w), worker'[w] = worker[w], DocsSettle, JobsStay,
           lost \subseteq lost'
    PROVE  WorkerOK(w)'
<1>1. worker[w].inst \in Instances /\ (Settled(worker[w].inst) => Settled(worker[w].inst)')
  BY WorkerFacts DEF DocsSettle
<1>2. PICK r : r = worker[w] /\ r = worker'[w]
  OBVIOUS
<1>3. r.pc \notin Recurring => /\ r.job \in 1..Len(jobs') /\ jobs'[r.job].inst = r.inst
                               /\ jobs'[r.job].op = jobs[r.job].op
  BY <1>2 DEF WorkerOK, JobsStay
<1>4. r.pc \in Last => r.pc \notin Recurring
  BY DEF Last, Recurring
<1>. QED
  BY <1>1, <1>2, <1>3, <1>4 DEF WorkerOK, Op

\* A step that takes no create job or request away keeps what is awaited.
LEMMA AwaitKept ==
    ASSUME AwaitInv, DocsSettle, lost \subseteq lost',
           \A i \in Instances, k \in DOMAIN jobs :
              doc'[i].status = "PENDING" /\ Waiting(i, k) =>
                 (k \in DOMAIN jobs' /\ Waiting(i, k)') \/ i \in lost',
           \A i \in Instances, c \in Clients :
              doc'[i].status = "PENDING" /\ Posting(i, c) =>
                 Posting(i, c)' \/ i \in lost' \/ \E k \in DOMAIN jobs' : Waiting(i, k)'
    PROVE  PendingHasJob'
  BY DEF AwaitInv, DocsSettle, PendingHasJob, Waiting, Posting

\* A worker goes on, its job untouched.
LEMMA WorkerAwaits ==
    ASSUME AwaitInv, TypeOK', NEW w \in Workers, DocsSettle, jobs' = jobs, client' = client,
           lost \subseteq lost', \A v \in Workers : v # w => worker'[v] = worker[v], WorkerOK(w)'
    PROVE  AwaitInv'
<1>0. TypeOK /\ JobsStay
  BY SameJobs DEF AwaitInv
<1>1. JobsBegun'
  BY <1>0, JobFacts DEF AwaitInv, JobsBegun, DocsSettle, Job, Wanted
<1>2. \A c \in Clients : ClientOK(c)'
  BY <1>0, ClientKept DEF AwaitInv
<1>3. \A v \in Workers : WorkerOK(v)'
  BY <1>0, WorkerKept DEF AwaitInv
<1>4. PendingHasJob'
  BY AwaitKept DEF Waiting, Posting, Pending
<1>. QED
  BY <1>1, <1>2, <1>3, <1>4 DEF AwaitInv

LEMMA GoToAwaits ==
    ASSUME AwaitInv, TypeOK', NEW w \in Workers, NEW pc \in Steps \ Recurring, GoTo(w, pc),
           NEW i, i = worker[w].inst,
           worker[w].pc \notin Recurring, jobs' = jobs, client' = client, lost \subseteq lost',
           DocsSettle,
           pc \in Last /\ Op(w) = "create" => Settled(i)' \/ i \in lost'
    PROVE  AwaitInv'
<1>1. PICK k : k = worker[w].job
  OBVIOUS
<1>2. TypeOK /\ k \in 1..Len(jobs) /\ jobs[k].inst = i
  BY <1>1 DEF AwaitInv, WorkerOK
<1>3. /\ worker'[w].pc = pc /\ worker'[w].inst = i /\ worker'[w].job = k
      /\ \A v \in Workers : v # w => worker'[v] = worker[v]
  BY <1>1, <1>2 DEF TypeOK, GoTo, Worker
<1>4. pc \in Last /\ jobs[k].op = "create" => Settled(i)' \/ i \in lost'
  BY <1>1 DEF Op
<1>5. WorkerOK(w)'
  BY <1>2, <1>3, <1>4 DEF WorkerOK, Op
<1>. QED
  BY <1>3, <1>5, WorkerAwaits

LEMMA JobStepAwaits ==
    ASSUME AwaitInv, TypeOK', NEW w \in Workers, JobStep(w)
    PROVE  AwaitInv'
<1>0. PICK i, k :
         /\ i \in Instances /\ i = worker[w].inst /\ k = worker[w].job /\ TypeOK
         /\ worker[w].pc \notin Recurring =>
               k \in 1..Len(jobs) /\ jobs[k].inst = i /\ Begun(i)
  BY WorkerFacts DEF AwaitInv, WorkerOK, JobsBegun, Wanted
<1>1. CASE Report(w)
  <2>1. /\ worker[w].pc = "report" /\ jobs' = [jobs EXCEPT ![k].status = "DONE"]
        /\ worker' = [worker EXCEPT ![w] = IdleWorker]
        /\ client' = client /\ doc' = doc /\ lost' = lost
    BY <1>0, <1>1 DEF Report
  <2>2. k \in 1..Len(jobs) /\ jobs[k].inst = i /\ (jobs[k].op = "create" => Settled(i) \/ i \in lost)
    BY <1>0, <2>1 DEF AwaitInv, WorkerOK, Recurring, Last, Op
  <2>3. /\ jobs \in Seq(Job) /\ jobs' \in Seq(Job) /\ Len(jobs') = Len(jobs)
        /\ DOMAIN jobs = 1..Len(jobs) /\ DOMAIN jobs' = 1..Len(jobs) /\ Len(jobs) \in Nat
    BY <2>1, LenProperties DEF AwaitInv, TypeOK
  <2>4. \A j \in 1..Len(jobs) : /\ jobs'[j].op = jobs[j].op /\ jobs'[j].inst = jobs[j].inst
                                /\ j # k => jobs'[j] = jobs[j]
    BY <1>0, <2>1, <2>3, JobFacts DEF Job
  <2>5. JobsStay /\ DocsSettle
    BY <1>0, <2>1, <2>3, <2>4, JobFacts, SameDocsSettle DEF JobsStay
  <2>6. JobsBegun'
    BY <2>1, <2>3, <2>4 DEF AwaitInv, JobsBegun, Wanted, Begun
  <2>7. \A c \in Clients : ClientOK(c)'
    BY <1>0, <2>1, <2>5, ClientKept DEF AwaitInv
  <2>8. ASSUME NEW v \in Workers PROVE WorkerOK(v)'
    <3>1. CASE v # w
      BY <1>0, <2>1, <2>5, <3>1, WorkerKept DEF AwaitInv, TypeOK
    <3>2. CASE v = w
      <4>1. worker'[v].pc = "idle"
        BY <1>0, <2>1, <3>2, IdleFacts DEF TypeOK
      <4>. QED
        BY <4>1 DEF WorkerOK, Recurring, Last
    <3>. QED
      BY <3>1, <3>2
  <2>9. PendingHasJob'
    <3>1. ASSUME NEW n \in Instances, NEW j \in DOMAIN jobs, doc'[n].status = "PENDING", Waiting(n, j)
          PROVE  j \in DOMAIN jobs' /\ (Waiting(n, j)' \/ n \in lost')
      <4>1. CASE j = k
        BY <2>1, <2>2, <2>3, <3>1, <4>1 DEF Waiting, Settled
      <4>2. CASE j # k
        <5>1. j \in 1..Len(jobs) /\ j \in DOMAIN jobs'
          BY <2>3, <3>1
        <5>2. jobs'[j] = jobs[j]
          BY <2>4, <4>2, <5>1
        <5>. QED
          BY <3>1, <5>1, <5>2 DEF Waiting, Pending
      <4>. QED
        BY <4>1, <4>2
    <3>2. \A n \in Instances, c \in Clients : Posting(n, c) => Posting(n, c)'
      BY <2>1 DEF Posting
    <3>. QED
      BY <2>1, <2>5, <3>1, <3>2, AwaitKept
  <2>. QED
    BY <2>6, <2>7, <2>8, <2>9 DEF AwaitInv
<1>2. CASE BeginCreate(w)
  <2>1. /\ worker[w].pc = "begin" /\ doc' = doc /\ jobs' = jobs /\ client' = client /\ lost' = lost
        /\ GoTo(w, IF doc[i].status = "PENDING" THEN "create" ELSE "report")
    BY <1>0, <1>2 DEF BeginCreate
  <2>2. doc[i].status # "PENDING" => Settled(i)'
    BY <1>0, <2>1 DEF Settled, Begun, Recurring
  <2>. QED
    BY <1>0, <2>1, <2>2, SameDocsSettle, GoToAwaits DEF Recurring, Last, Steps
<1>3. CASE PostCreate(w)
  <2>1. /\ worker[w].pc = "create" /\ doc' = doc /\ jobs' = jobs /\ client' = client
        /\ \/ lost' = lost /\ (GoTo(w, "poll") \/ GoTo(w, "stopped"))
           \/ lost' = lost \cup {i} /\ GoTo(w, "report")
    BY <1>0, <1>3 DEF PostCreate
  <2>. QED
    BY <1>0, <2>1, SameDocsSettle, GoToAwaits DEF Recurring, Last, Steps
<1>4. CASE PollCreate(w)
  <2>1. /\ worker[w].pc = "poll" /\ doc' = doc /\ jobs' = jobs /\ client' = client
        /\ \/ lost' = lost /\ (GoTo(w, "wait") \/ GoTo(w, "fail") \/ GoTo(w, "failTwice"))
           \/ lost' = lost \cup {i} /\ GoTo(w, "report")
    BY <1>0, <1>4 DEF PollCreate
  <2>. QED
    BY <1>0, <2>1, SameDocsSettle, GoToAwaits DEF Recurring, Last, Steps
<1>5. CASE WaitStopped(w)
  <2>1. /\ worker[w].pc = "wait" /\ doc' = doc /\ jobs' = jobs /\ client' = client /\ lost' = lost
        /\ GoTo(w, "stopped") \/ GoTo(w, "failTwice")
    BY <1>5 DEF WaitStopped
  <2>. QED
    BY <1>0, <2>1, SameDocsSettle, GoToAwaits DEF Recurring, Last, Steps
<1>6. CASE WriteStatus(w)
  <2>1. /\ worker[w].pc \notin Recurring /\ jobs' = jobs /\ client' = client /\ lost' = lost
        /\ GoTo(w, "fail") \/ GoTo(w, "report")
        /\ SetIfExists(i, "STOPPED") \/ SetIfExists(i, "FAILED")
    BY <1>0, <1>6 DEF WriteStatus, Recurring
  <2>2. DocsSettle /\ Settled(i)'
    BY <1>0, <2>1, Settles DEF Status
  <2>. QED
    BY <1>0, <2>1, <2>2, GoToAwaits DEF Recurring, Last, Steps
<1>7. CASE Switch(w)
  <2>1. /\ worker[w].pc = "begin" /\ doc' = doc /\ jobs' = jobs /\ client' = client /\ lost' = lost
        /\ GoTo(w, "report") /\ Op(w) # "create"
    BY <1>7 DEF Switch
  <2>. QED
    BY <1>0, <2>1, SameDocsSettle, GoToAwaits DEF Recurring, Steps
<1>8. CASE BeginDelete(w)
  <2>1. /\ worker[w].pc = "begin" /\ doc' = doc /\ jobs' = jobs /\ client' = client /\ lost' = lost
        /\ GoTo(w, "delete") \/ GoTo(w, "report")
        /\ Op(w) # "create"
    BY <1>8 DEF BeginDelete
  <2>. QED
    BY <1>0, <2>1, SameDocsSettle, GoToAwaits DEF Recurring, Steps
<1>9. CASE CallDelete(w)
  <2>1. /\ worker[w].pc = "delete" /\ doc' = doc /\ jobs' = jobs /\ client' = client /\ lost' = lost
        /\ GoTo(w, "remove")
    BY <1>9 DEF CallDelete
  <2>2. Op(w) = "create" => Settled(i)' \/ i \in lost'
    BY <1>0, <2>1, SameDocsSettle DEF AwaitInv, WorkerOK, Last, DocsSettle
  <2>. QED
    BY <1>0, <2>1, <2>2, SameDocsSettle, GoToAwaits DEF Recurring, Steps
<1>10. CASE RemoveDoc(w)
  <2>1. /\ worker[w].pc = "remove" /\ jobs' = jobs /\ client' = client /\ lost' = lost
        /\ GoTo(w, "report") /\ SetIfExists(i, "REMOVED")
    BY <1>0, <1>10 DEF RemoveDoc
  <2>2. DocsSettle /\ Settled(i)'
    BY <1>0, <2>1, Settles DEF Status, Recurring
  <2>. QED
    BY <1>0, <2>1, <2>2, GoToAwaits DEF Recurring, Steps
<1>11. CASE UpdateConfig(w)
  <2>1. /\ worker[w].pc = "begin" /\ doc' = doc /\ jobs' = jobs /\ client' = client /\ lost' = lost
        /\ GoTo(w, "report") /\ Op(w) # "create"
    BY <1>11 DEF UpdateConfig
  <2>. QED
    BY <1>0, <2>1, SameDocsSettle, GoToAwaits DEF Recurring, Steps
<1>. QED
  BY <1>1, <1>2, <1>3, <1>4, <1>5, <1>6, <1>7, <1>8, <1>9, <1>10, <1>11 DEF JobStep

LEMMA RecurringAwaits ==
    ASSUME AwaitInv, TypeOK', NEW w \in Workers, RecurringStep(w) \/ BeginScan(w) \/ BeginSync(w)
    PROVE  AwaitInv'
<1>0. /\ TypeOK /\ worker \in [Workers -> Worker] /\ worker[w].inst \in Instances
      /\ worker[w].todo \subseteq Instances
  BY WorkerFacts DEF AwaitInv, TypeOK
<1>1. /\ jobs' = jobs /\ client' = client /\ lost' = lost
      /\ \A v \in Workers : v # w => worker'[v] = worker[v]
  BY <1>0 DEF RecurringStep, RecordState, EndRecurring, ReadState, SyncDeletion, BeginScan, BeginSync, GoTo
<1>2. worker'[w].pc \in Recurring
  <2>1. CASE RecordState(w) \/ EndRecurring(w)
    BY <1>0, <2>1, IdleFacts DEF RecordState, EndRecurring, GoTo, Worker, Recurring
  <2>4. CASE BeginScan(w)
    BY <1>0, <2>4, IdleFacts DEF BeginScan, Worker, Recurring
  <2>5. CASE BeginSync(w)
    BY <1>0, <2>5, IdleFacts DEF BeginSync, Worker, Recurring
  <2>2. ASSUME NEW i \in Instances, ReadState(w, i) PROVE worker'[w].pc \in Recurring
    <3>. DEFINE r == [worker[w] EXCEPT !.pc = "record", !.inst = i, !.seen = Box(i),
                                       !.todo = worker[w].todo \ {i}]
                n == [worker[w] EXCEPT !.todo = worker[w].todo \ {i}]
    <3>1. worker' = [worker EXCEPT ![w] = IF Box(i) \in {"stopped", "running"} THEN r ELSE n]
      BY <2>2 DEF ReadState
    <3>2. r.pc = "record" /\ n.pc = "scan"
      BY <1>0, <2>2 DEF ReadState, Worker
    <3>. HIDE DEF r, n
    <3>. QED
      BY <1>0, <3>1, <3>2 DEF Recurring
  <2>3. ASSUME NEW i \in Instances, SyncDeletion(w, i) PROVE worker'[w].pc \in Recurring
    BY <1>0, <2>3 DEF SyncDeletion, Worker, Recurring
  <2>. QED
    BY <2>1, <2>2, <2>3, <2>4, <2>5 DEF RecurringStep
<1>3. WorkerOK(w)'
  BY <1>2 DEF WorkerOK, Recurring, Last
<1>4. DocsSettle
  <2>1. CASE RecordState(w)
    BY <1>0, <2>1, Settles, WorkerFacts DEF RecordState, StatusOf, Status
  <2>2. CASE doc' = doc
    BY <1>1, <2>2, SameDocsSettle
  <2>. QED
    BY <2>1, <2>2 DEF RecurringStep, EndRecurring, ReadState, SyncDeletion, BeginScan, BeginSync
<1>. QED
  BY <1>1, <1>3, <1>4, WorkerAwaits

LEMMA PickAwaits ==
    ASSUME AwaitInv, TypeOK', NEW w \in Workers, PickJob(w) \/ LxdFails(w)
    PROVE  AwaitInv'
<1>0. TypeOK /\ worker \in [Workers -> Worker] /\ DocsSettle
      /\ jobs' = jobs /\ client' = client /\ lost' = lost /\ DOMAIN jobs = 1..Len(jobs)
  BY SameDocsSettle, LenProperties DEF AwaitInv, TypeOK, PickJob, LxdFails
<1>1. CASE PickJob(w)
  <2>. PICK k \in DOMAIN jobs :
          worker' = [worker EXCEPT ![w] = [IdleWorker EXCEPT !.pc = "begin", !.job = k,
                                                           !.inst = jobs[k].inst]]
    BY <1>1 DEF PickJob
  <2>1. /\ worker'[w].pc = "begin" /\ worker'[w].job = k /\ worker'[w].inst = jobs[k].inst
        /\ \A v \in Workers : v # w => worker'[v] = worker[v]
    BY <1>0, IdleFacts DEF Worker
  <2>2. WorkerOK(w)'
    BY <1>0, <2>1 DEF WorkerOK, Recurring, Last
  <2>. QED
    BY <1>0, <2>1, <2>2, WorkerAwaits
<1>2. CASE worker[w].pc = "create" /\ GoTo(w, "fail")
  BY <1>0, <1>2, GoToAwaits DEF Steps, Recurring, Last
<1>3. CASE worker[w].pc = "begin" /\ Op(w) \in {"start", "stop"} /\ GoTo(w, "report")
  BY <1>0, <1>3, GoToAwaits DEF Steps, Recurring
<1>4. ASSUME worker[w].pc = "delete", NEW pc \in {"remove", "report"}, GoTo(w, pc) PROVE AwaitInv'
  <2>1. PICK i : i = worker[w].inst
    OBVIOUS
  <2>2. Op(w) = "create" => Settled(i)' \/ i \in lost'
    BY <1>0, <1>4, <2>1 DEF AwaitInv, WorkerOK, Last, DocsSettle, TypeOK, Worker
  <2>. QED
    BY <1>0, <1>4, <2>1, <2>2, GoToAwaits DEF Steps, Recurring
<1>5. ASSUME worker[w].pc \in {"scan", "sync"}, NEW i, worker' = [worker EXCEPT ![w].todo = @ \ {i}]
      PROVE  AwaitInv'
  <2>1. worker'[w].pc = worker[w].pc /\ \A v \in Workers : v # w => worker'[v] = worker[v]
    BY <1>0, <1>5 DEF Worker
  <2>2. WorkerOK(w)'
    BY <1>5, <2>1 DEF WorkerOK, Recurring, Last
  <2>. QED
    BY <1>0, <2>1, <2>2, WorkerAwaits
<1>. QED
  BY <1>1, <1>2, <1>3, <1>4, <1>5 DEF LxdFails

\* A request goes on.
LEMMA ClientAwaits ==
    ASSUME AwaitInv, TypeOK', NEW c \in Clients, DocsSettle, JobsStay, lost \subseteq lost',
           worker' = worker, \A d \in Clients : d # c => client'[d] = client[d],
           ClientOK(c)', JobsBegun', PendingHasJob'
    PROVE  AwaitInv'
  BY ClientKept, WorkerKept DEF AwaitInv

\* ... and leaves the jobs alone; no create job is given up but to `lost`.
LEMMA ClientMoves ==
    ASSUME AwaitInv, TypeOK', NEW c \in Clients, DocsSettle, jobs' = jobs, lost \subseteq lost',
           worker' = worker, \A d \in Clients : d # c => client'[d] = client[d],
           ClientOK(c)', \A i \in Instances : Posting(i, c) => i \in lost'
    PROVE  AwaitInv'
<1>1. JobsStay /\ JobsBegun'
  BY SameJobs, JobFacts DEF AwaitInv, JobsBegun, Wanted, DocsSettle, Job
<1>2. \A i \in Instances, k \in DOMAIN jobs : Waiting(i, k) => k \in DOMAIN jobs' /\ Waiting(i, k)'
  BY DEF Waiting, Pending
<1>3. \A i \in Instances, d \in Clients : Posting(i, d) => Posting(i, d)' \/ i \in lost'
  BY DEF Posting
<1>4. PendingHasJob'
  BY <1>2, <1>3, AwaitKept
<1>. QED
  BY <1>1, <1>4, ClientAwaits

\* The client is idle, or will post a job of an instance that may have it.
LEMMA ClientNow ==
    ASSUME AwaitInv, NEW c \in Clients
    PROVE  /\ client' = [client EXCEPT ![c] = IdleClient] =>
                  ClientOK(c)' /\ \A d \in Clients : d # c => client'[d] = client[d]
           /\ \A i \in Instances, op \in Ops :
                  Queue(c, i, op) /\ Wanted(i, op)' /\ (op = "delete" => Settled(i)') =>
                     /\ ClientOK(c)' /\ client'[c].pc = "post"
                     /\ client'[c].op = op /\ client'[c].inst = i
                     /\ \A d \in Clients : d # c => client'[d] = client[d]
<1>0. client \in [Clients -> Client] /\ IdleClient \in Client /\ IdleClient.pc = "idle"
  BY IdleFacts DEF AwaitInv, TypeOK
<1>1. client' = [client EXCEPT ![c] = IdleClient] =>
          ClientOK(c)' /\ \A d \in Clients : d # c => client'[d] = client[d]
  BY <1>0 DEF ClientOK
<1>2. ASSUME NEW i \in Instances, NEW op \in Ops,
             Queue(c, i, op), Wanted(i, op)', op = "delete" => Settled(i)'
      PROVE  /\ ClientOK(c)' /\ client'[c].pc = "post"
             /\ client'[c].op = op /\ client'[c].inst = i
             /\ \A d \in Clients : d # c => client'[d] = client[d]
  <2>1. /\ client'[c].pc = "post" /\ client'[c].op = op /\ client'[c].inst = i
        /\ \A d \in Clients : d # c => client'[d] = client[d]
    BY <1>0, <1>2 DEF Queue, Client
  <2>. QED
    BY <1>2, <2>1 DEF ClientOK
<1>. QED
  BY <1>1, <1>2

LEMMA RequestAwaits ==
    ASSUME AwaitInv, TypeOK', NEW c \in Clients, ClientRequest(c) \/ StopExpired(c) \/ RequestDies(c)
    PROVE  AwaitInv'
<1>0. PICK n \in Instances : TypeOK /\ client \in [Clients -> Client] /\ n = client[c].inst
  BY ClientFacts DEF AwaitInv, TypeOK
<1>1. ASSUME NEW i \in Instances, CreateInstance(c, i) PROVE AwaitInv'
  <2>1. /\ client[c].pc = "idle" /\ doc[i].status = "NONE" /\ doc' = [doc EXCEPT ![i].status = "PENDING"]
        /\ Queue(c, i, "create") /\ jobs' = jobs /\ worker' = worker /\ lost' = lost
    BY <1>1 DEF CreateInstance, SetStatus
  <2>2. /\ doc'[i].status = "PENDING"
        /\ \A j \in Instances : j # i => doc'[j] = doc[j]
    BY <1>0, <2>1 DEF TypeOK, Doc
  <2>3. \A j \in Instances : /\ Settled(j) => Settled(j)'
                             /\ Begun(j) => Begun(j)'
                             /\ doc[j].doomed => doc'[j].doomed
    BY <1>0, <2>1, <2>2 DEF Settled, Begun, TypeOK, Doc
  <2>4. /\ ClientOK(c)' /\ Posting(i, c)'
        /\ \A d \in Clients : d # c => client'[d] = client[d]
    BY <2>1, <2>2, ClientNow DEF Wanted, Begun, Ops, Posting
  <2>5. JobsBegun'
    BY <1>0, <2>1, <2>3, JobFacts DEF AwaitInv, JobsBegun, Wanted, Job
  <2>6. \A d \in Clients : ClientOK(d)'
    <3>1. ASSUME NEW d \in Clients, d # c PROVE ClientOK(d)'
      <4>1. client'[d] = client[d] /\ client[d].inst \in Instances /\ ClientOK(d)
        BY <1>0, <2>4, <3>1, ClientFacts DEF AwaitInv
      <4>. QED
        BY <2>3, <4>1 DEF ClientOK, Wanted
    <3>. QED
      BY <2>4, <3>1
  <2>7. ASSUME NEW w \in Workers PROVE WorkerOK(w)'
    BY <1>0, <2>1, <2>3, <2>7, WorkerFacts DEF AwaitInv, WorkerOK, Op
  <2>8. PendingHasJob'
    <3>1. ASSUME NEW j \in Instances, doc'[j].status = "PENDING", j # i
          PROVE  \/ \E k \in DOMAIN jobs : Waiting(j, k)'
                 \/ \E d \in Clients : Posting(j, d)'
                 \/ j \in lost'
      <4>1. doc[j].status = "PENDING"
        BY <2>2, <3>1
      <4>2. \/ \E k \in DOMAIN jobs : Waiting(j, k)
            \/ \E d \in Clients : Posting(j, d)
            \/ j \in lost
        BY <4>1 DEF AwaitInv, PendingHasJob, Waiting, Posting
      <4>. QED
        BY <2>1, <2>4, <4>2 DEF Waiting, Posting, Pending
    <3>. QED
      BY <2>1, <2>4, <3>1 DEF PendingHasJob, Waiting, Posting
  <2>. QED
    BY <2>5, <2>6, <2>7, <2>8 DEF AwaitInv
<1>2. ASSUME NEW i \in Instances, NEW op \in {"start", "stop"}, StartStop(c, i, op) PROVE AwaitInv'
  <2>1. /\ client[c].pc = "idle" /\ Exists(i) /\ SetStatus(i, IF op = "start" THEN "STARTING" ELSE "STOPPING")
        /\ Queue(c, i, op) /\ jobs' = jobs /\ worker' = worker /\ lost' = lost
    BY <1>2 DEF StartStop
  <2>2. DocsSettle /\ Begun(i)'
    BY <1>0, <2>1, Settles DEF Status, Exists, Begun, Settled
  <2>3. ClientOK(c)' /\ \A d \in Clients : d # c => client'[d] = client[d]
    BY <2>1, <2>2, ClientNow DEF Ops, Wanted
  <2>. QED
    BY <2>1, <2>2, <2>3, ClientMoves DEF Posting
<1>3. ASSUME NEW i \in Instances, DeleteInstance(c, i) PROVE AwaitInv'
  <2>1. /\ client[c].pc = "idle" /\ doc' = [doc EXCEPT ![i] = [status |-> "DELETED", doomed |-> TRUE]]
        /\ Queue(c, i, "delete") /\ jobs' = jobs /\ worker' = worker /\ lost' = lost
    BY <1>3 DEF DeleteInstance
  <2>2. DocsSettle /\ Wanted(i, "delete")' /\ Settled(i)'
    BY <1>0, <2>1 DEF TypeOK, DocsSettle, Wanted, Begun, Settled
  <2>3. ClientOK(c)' /\ \A d \in Clients : d # c => client'[d] = client[d]
    BY <2>1, <2>2, ClientNow DEF Ops, Wanted
  <2>. QED
    BY <2>1, <2>2, <2>3, ClientMoves DEF Posting
<1>4. ASSUME NEW i \in Instances, FindExpired(c, i) PROVE AwaitInv'
  <2>1. /\ client[c].pc = "idle" /\ client' = [client EXCEPT ![c] = [IdleClient EXCEPT !.pc = "expired", !.inst = i]]
        /\ doc' = doc /\ jobs' = jobs /\ worker' = worker /\ lost' = lost
    BY <1>4 DEF FindExpired
  <2>2. client'[c].pc = "expired" /\ \A d \in Clients : d # c => client'[d] = client[d]
    BY <1>0, <2>1, IdleFacts DEF Client
  <2>3. ClientOK(c)'
    BY <2>2 DEF ClientOK
  <2>. QED
    BY <2>1, <2>2, <2>3, SameDocsSettle, ClientMoves DEF Posting
<1>5. CASE StopExpired(c)
  <2>1. /\ client[c].pc = "expired" /\ SetIfExists(n, "STOPPING")
        /\ jobs' = jobs /\ worker' = worker /\ lost' = lost
        /\ \/ Exists(n) /\ Queue(c, n, "stop")
           \/ client' = [client EXCEPT ![c] = IdleClient]
    BY <1>0, <1>5 DEF StopExpired
  <2>2. DocsSettle /\ (Exists(n) => Begun(n)')
    BY <1>0, <2>1, Settles DEF Status, Exists, Begun, Settled
  <2>3. ClientOK(c)' /\ \A d \in Clients : d # c => client'[d] = client[d]
    BY <2>1, <2>2, ClientNow DEF Ops, Wanted
  <2>. QED
    BY <2>1, <2>2, <2>3, ClientMoves DEF Posting
<1>6. CASE RequestDies(c)
  <2>1. /\ lost' = IF client[c].pc = "post" /\ client[c].op = "create" THEN lost \cup {n} ELSE lost
        /\ client' = [client EXCEPT ![c] = IdleClient]
        /\ doc' = doc /\ jobs' = jobs /\ worker' = worker
    BY <1>0, <1>6 DEF RequestDies
  <2>2. \A i \in Instances : Posting(i, c) => i \in lost'
    BY <1>0, <2>1 DEF Posting
  <2>3. ClientOK(c)' /\ \A d \in Clients : d # c => client'[d] = client[d]
    BY <2>1, ClientNow
  <2>. QED
    BY <2>1, <2>2, <2>3, SameDocsSettle, ClientMoves
<1>7. ASSUME NEW i \in Instances, EditInstance(c, i) PROVE AwaitInv'
  <2>1. PICK s \in Status \ {"NONE", "REMOVED"} :
           /\ SetStatus(i, s) /\ lost' = IF s = "PENDING" THEN lost \cup {i} ELSE lost
    BY <1>7 DEF EditInstance
  <2>2. /\ client[c].pc = "idle" /\ Exists(i) /\ Queue(c, i, "update")
        /\ jobs' = jobs /\ worker' = worker
    BY <1>7 DEF EditInstance
  <2>3. /\ doc'[i].status = s /\ doc'[i].doomed = doc[i].doomed
        /\ \A j \in Instances : j # i => doc'[j] = doc[j]
    BY <1>0, <2>1 DEF SetStatus, TypeOK, Doc
  <2>4. DocsSettle /\ Wanted(i, "update")'
    BY <2>1, <2>3 DEF DocsSettle, Settled, Begun, Wanted
  <2>5. ClientOK(c)' /\ \A d \in Clients : d # c => client'[d] = client[d]
    BY <2>2, <2>4, ClientNow DEF Ops
  <2>. QED
    BY <2>1, <2>2, <2>4, <2>5, ClientMoves DEF Posting
<1>. QED
  BY <1>1, <1>2, <1>3, <1>4, <1>5, <1>6, <1>7 DEF ClientRequest

LEMMA PostAwaits ==
    ASSUME AwaitInv, TypeOK', NEW c \in Clients, PostJob(c)
    PROVE  AwaitInv'
<1>. DEFINE job == [op |-> client[c].op, inst |-> client[c].inst, status |-> "PENDING"]
<1>0. PICK n \in Instances : TypeOK /\ client \in [Clients -> Client] /\ n = client[c].inst
  BY ClientFacts DEF AwaitInv, TypeOK
<1>1. PICK new : /\ new = job /\ new \in Job /\ new.inst = n /\ new.op = client[c].op
                 /\ new.status = "PENDING" /\ jobs' = Append(jobs, new)
  BY <1>0, ClientFacts DEF PostJob, Job
<1>2. /\ client[c].pc = "post" /\ Wanted(n, client[c].op) /\ (client[c].op = "delete" => Settled(n))
      /\ doc' = doc /\ worker' = worker /\ lost' = lost
  BY <1>0 DEF PostJob, AwaitInv, ClientOK
<1>3. /\ jobs \in Seq(Job) /\ Len(jobs) \in Nat /\ Len(jobs') = Len(jobs) + 1
      /\ DOMAIN jobs = 1..Len(jobs) /\ DOMAIN jobs' = 1..Len(jobs')
      /\ jobs'[Len(jobs) + 1] = new /\ \A k \in 1..Len(jobs) : jobs'[k] = jobs[k]
  BY <1>0, <1>1, AppendProperties, LenProperties DEF TypeOK
<1>4. JobsStay /\ DocsSettle
  BY <1>0, <1>2, <1>3, JobFacts, SameDocsSettle DEF JobsStay
<1>5. JobsBegun'
  <2>1. ASSUME NEW k \in 1..Len(jobs')
        PROVE  /\ doc'[jobs'[k].inst].status # "NONE"
               /\ jobs'[k].op = "delete" => doc'[jobs'[k].inst].doomed
    <3>1. CASE k = Len(jobs) + 1
      BY <1>1, <1>2, <1>3, <3>1 DEF Wanted, Begun
    <3>2. CASE k # Len(jobs) + 1
      <4>1. k \in 1..Len(jobs)
        BY <1>3, <2>1, <3>2
      <4>. QED
        BY <1>2, <1>3, <4>1 DEF AwaitInv, JobsBegun, Wanted, Begun
    <3>. QED
      BY <3>1, <3>2
  <2>. QED
    BY <2>1 DEF JobsBegun, Wanted, Begun
<1>6. /\ client'[c].inst = n /\ client'[c].pc = "cancel" /\ client[c].op = "delete"
      \/ client'[c].pc = "idle"
  <2>1. client' = [client EXCEPT ![c] = IF client[c].op = "delete"
                                        THEN [client[c] EXCEPT !.pc = "cancel", !.job = Len(jobs) + 1]
                                        ELSE IdleClient]
    BY DEF PostJob
  <2>. QED
    BY <1>0, <2>1, IdleFacts DEF Client
<1>7. \A d \in Clients : d # c => client'[d] = client[d]
  BY <1>0 DEF PostJob
<1>8. ClientOK(c)'
  BY <1>2, <1>6 DEF ClientOK, Settled, Begun
<1>9. PendingHasJob'
  <2>1. ASSUME NEW i \in Instances, NEW k \in DOMAIN jobs, Waiting(i, k)
        PROVE  k \in DOMAIN jobs' /\ Waiting(i, k)'
    <3>1. k \in 1..Len(jobs) /\ k \in DOMAIN jobs'
      BY <1>3, <2>1
    <3>2. jobs'[k] = jobs[k]
      BY <1>3, <3>1
    <3>. QED
      BY <2>1, <3>1, <3>2 DEF Waiting, Pending
  <2>2. ASSUME NEW i \in Instances, NEW d \in Clients, Posting(i, d)
        PROVE  Posting(i, d)' \/ \E k \in DOMAIN jobs' : Waiting(i, k)'
    <3>1. CASE d # c
      BY <1>7, <2>2, <3>1 DEF Posting
    <3>2. CASE d = c
      <4>1. new.inst = i /\ new.op = "create" /\ Len(jobs) + 1 \in DOMAIN jobs'
        BY <1>0, <1>1, <1>3, <2>2, <3>2 DEF Posting
      <4>2. jobs'[Len(jobs) + 1] = new
        BY <1>3
      <4>3. PICK k : k = Len(jobs) + 1
        OBVIOUS
      <4>. QED
        BY <1>1, <4>1, <4>2, <4>3 DEF Waiting, Pending
    <3>. QED
      BY <3>1, <3>2
  <2>. QED
    BY <1>2, <1>4, <2>1, <2>2, AwaitKept
<1>. QED
  BY <1>2, <1>4, <1>5, <1>7, <1>8, <1>9, ClientAwaits

LEMMA CancelAwaits ==
    ASSUME AwaitInv, TypeOK', NEW c \in Clients, CancelJobs(c)
    PROVE  AwaitInv'
<1>0. PICK n \in Instances : TypeOK /\ client \in [Clients -> Client] /\ n = client[c].inst
  BY ClientFacts DEF AwaitInv, TypeOK
<1>1. /\ client[c].pc = "cancel" /\ Settled(n) /\ client' = [client EXCEPT ![c] = IdleClient]
      /\ doc' = doc /\ worker' = worker /\ lost' = lost
  BY <1>0 DEF CancelJobs, AwaitInv, ClientOK
<1>2. /\ jobs \in Seq(Job) /\ jobs' \in Seq(Job) /\ Len(jobs) \in Nat
      /\ DOMAIN jobs = 1..Len(jobs) /\ DOMAIN jobs' = 1..Len(jobs) /\ Len(jobs') = Len(jobs)
  <2>1. jobs \in Seq(Job) /\ jobs' \in Seq(Job) /\ DOMAIN jobs' = DOMAIN jobs
    BY <1>0 DEF TypeOK, CancelJobs
  <2>2. Len(jobs) \in Nat /\ Len(jobs') \in Nat /\ DOMAIN jobs = 1..Len(jobs) /\ DOMAIN jobs' = 1..Len(jobs')
    BY <2>1, LenProperties
  <2>3. Len(jobs') = Len(jobs)
    BY <2>1, <2>2
  <2>. QED
    BY <2>1, <2>2, <2>3
<1>3. \A k \in 1..Len(jobs) : /\ jobs[k] \in Job /\ jobs'[k].op = jobs[k].op /\ jobs'[k].inst = jobs[k].inst
                              /\ jobs[k].inst # n => jobs'[k] = jobs[k]
  BY <1>0, <1>2, JobFacts DEF CancelJobs, Job
<1>4. JobsStay /\ DocsSettle
  BY <1>1, <1>2, <1>3, SameDocsSettle DEF JobsStay
<1>5. JobsBegun'
  BY <1>1, <1>2, <1>3 DEF AwaitInv, JobsBegun, Wanted, Begun
<1>6. ClientOK(c)' /\ \A d \in Clients : d # c => client'[d] = client[d]
  BY <1>1, ClientNow
<1>7. PendingHasJob'
  <2>1. ASSUME NEW i \in Instances, NEW k \in DOMAIN jobs, doc'[i].status = "PENDING", Waiting(i, k)
        PROVE  (k \in DOMAIN jobs' /\ Waiting(i, k)') \/ i \in lost'
    <3>1. k \in 1..Len(jobs) /\ k \in DOMAIN jobs'
      BY <1>2, <2>1
    <3>2. jobs[k].inst # n \/ i \in lost'
      BY <1>1, <2>1 DEF Waiting, Settled
    <3>3. jobs[k].inst # n => jobs'[k] = jobs[k]
      BY <1>3, <3>1
    <3>. QED
      BY <2>1, <3>1, <3>2, <3>3 DEF Waiting, Pending
  <2>2. \A i \in Instances, d \in Clients : Posting(i, d) => Posting(i, d)'
    BY <1>1, <1>6 DEF Posting
  <2>. QED
    BY <1>1, <1>4, <2>1, <2>2, AwaitKept
<1>. QED
  BY <1>1, <1>4, <1>5, <1>6, <1>7, ClientAwaits

LEMMA NextAwaits == AwaitInv /\ [Next]_vars => AwaitInv'
<1>. SUFFICES ASSUME AwaitInv, [Next]_vars PROVE AwaitInv'
  OBVIOUS
<1>0. TypeOK /\ TypeOK'
  BY NextType DEF AwaitInv
<1>1. ASSUME NEW c \in Clients, ClientStep(c) \/ ClientRequest(c) \/ RequestDies(c)  PROVE AwaitInv'
  BY <1>0, <1>1, RequestAwaits, PostAwaits, CancelAwaits DEF ClientStep
<1>2. ASSUME NEW w \in Workers,
             WorkerStep(w) \/ LxdFails(w) \/ PickJob(w) \/ BeginScan(w) \/ BeginSync(w)
      PROVE  AwaitInv'
  BY <1>0, <1>2, JobStepAwaits, RecurringAwaits, PickAwaits DEF WorkerStep
<1>3. ASSUME doc' = doc, jobs' = jobs, client' = client, lost' = lost,
             \A w \in Workers : worker'[w] = worker[w] \/ worker'[w].pc = "idle"
      PROVE  AwaitInv'
  <2>1. JobsStay /\ DocsSettle
    BY <1>0, <1>3, SameJobs, SameDocsSettle
  <2>2. \A c \in Clients : ClientOK(c)'
    BY <1>0, <1>3, <2>1, ClientKept DEF AwaitInv
  <2>3. ASSUME NEW w \in Workers PROVE WorkerOK(w)'
    <3>1. CASE worker'[w] = worker[w]
      BY <1>0, <1>3, <2>1, <3>1, WorkerKept DEF AwaitInv
    <3>2. CASE worker'[w].pc = "idle"
      BY <3>2 DEF WorkerOK, Recurring, Last
    <3>. QED
      BY <1>3, <3>1, <3>2
  <2>4. JobsBegun' /\ PendingHasJob'
    BY <1>3 DEF AwaitInv, JobsBegun, Wanted, Begun, PendingHasJob, Pending
  <2>. QED
    BY <1>0, <2>2, <2>3, <2>4 DEF AwaitInv
<1>4. CASE (\E n \in Names : LxdMakes(n) \/ DirectCall(n)) \/ RefreshMonitor \/ UNCHANGED vars
  BY <1>3, <1>4 DEF LxdMakes, DirectCall, RefreshMonitor, vars
<1>5. CASE Crash
  BY <1>3, <1>5, IdleFacts DEF Crash
<1>. QED
  BY <1>1, <1>2, <1>4, <1>5 DEF Next

LEMMA InitAwaits == Init => AwaitInv
<1>. SUFFICES ASSUME Init PROVE AwaitInv
  OBVIOUS
<1>1. JobsBegun /\ PendingHasJob
  BY DEF Init, JobsBegun, PendingHasJob
<1>2. (\A c \in Clients : ClientOK(c)) /\ \A w \in Workers : WorkerOK(w)
  BY IdleFacts DEF Init, ClientOK, WorkerOK, Recurring, Last
<1>. QED
  BY <1>1, <1>2, InitType DEF AwaitInv

\* While an instance is PENDING its create job is, or is about to be queued, unless the
\* request died, LXD refused the container with an answer that has no operation, polling
\* LXD was given up or an edit wrote PENDING: no handler and no deletion takes the job away
\* from an instance that waits for it.
THEOREM CreationIsAwaited == Spec => []PendingHasJob
<1>1. AwaitInv => PendingHasJob
  BY DEF AwaitInv
<1>. QED
  BY <1>1, InitAwaits, NextAwaits, PTL DEF Spec
-----------------------------------------------------------------------------
(* Nothing is removed that nobody deleted.  The documents' status is       *)
(* overwritten at any time, by edits with anything, so the invariant       *)
(* speaks of life.deletedTime, which deleteInstance writes, and of the     *)
(* edits: a delete job is one of a doomed instance, and what the deletion  *)
(* sync saw as DELETED was marked, though its status may have changed.     *)

Marked(i) == doc[i].doomed \/ i \in edited

DeletionWasAsked ==
    \A i \in Instances : /\ doc[i].status = "REMOVED" => doc[i].doomed
                         /\ doc[i].status = "DELETED" => Marked(i)

HandlersWereAsked ==
    \A w \in Workers :
        /\ worker[w].pc \in {"delete", "remove"} => doc[worker[w].inst].doomed
        /\ worker[w].pc = "sync" => \A i \in worker[w].todo : Marked(i)

AskedInv == AwaitInv /\ DeletionWasAsked /\ HandlersWereAsked

\* What a step may do to the documents, and which work it may begin.
DocsKept ==
    \A i \in Instances : /\ doc[i].doomed => doc'[i].doomed
                         /\ i \in edited => i \in edited'
                         /\ doc'[i].status = "REMOVED" => doc'[i].doomed
                         /\ doc'[i].status = "DELETED" => Marked(i)'

WorkWasAsked ==
    \A w \in Workers :
        /\ worker'[w].pc \in {"delete", "remove"} => doc[worker'[w].inst].doomed
        /\ worker'[w].pc = "sync" => \A i \in worker'[w].todo : Marked(i)

LEMMA AskedStep ==
    ASSUME AskedInv, AwaitInv', DocsKept, WorkWasAsked
    PROVE  AskedInv'
<1>1. \A w \in Workers : worker'[w].inst \in Instances /\ worker'[w].todo \subseteq Instances
  BY DEF AwaitInv, TypeOK, Worker
<1>. QED
  BY <1>1 DEF AskedInv, DocsKept, WorkWasAsked, DeletionWasAsked, HandlersWereAsked, Marked

LEMMA SameDocs ==
    ASSUME AskedInv, doc' = doc, edited' = edited
    PROVE  DocsKept
  BY DEF AskedInv, DeletionWasAsked, DocsKept, Marked

LEMMA StatusWritten ==
    ASSUME AskedInv, NEW i \in Instances, NEW s \in Status, edited \subseteq edited',
           s = "REMOVED" => doc[i].doomed, s = "DELETED" => i \in edited',
           SetStatus(i, s) \/ SetIfExists(i, s)
    PROVE  DocsKept
  BY SetStatusFacts DEF AskedInv, AwaitInv, DeletionWasAsked, DocsKept, Marked

LEMMA SameWork ==
    ASSUME AskedInv, worker' = worker
    PROVE  WorkWasAsked
  BY DEF AskedInv, HandlersWereAsked, WorkWasAsked

\* A worker goes on: it neither begins to delete nor changes what it works on.
LEMMA OtherWork ==
    ASSUME AskedInv, NEW w \in Workers,
           \A v \in Workers : v # w => worker'[v] = worker[v],
           /\ worker'[w].pc \in {"delete", "remove"} => doc[worker'[w].inst].doomed
           /\ worker'[w].pc = "sync" => \A i \in worker'[w].todo : Marked(i)
    PROVE  WorkWasAsked
  BY DEF AskedInv, HandlersWereAsked, WorkWasAsked

LEMMA GoToWork ==
    ASSUME AskedInv, NEW w \in Workers, NEW pc \in Steps \ {"sync"}, GoTo(w, pc),
           pc \in {"delete", "remove"} => doc[worker[w].inst].doomed
    PROVE  WorkWasAsked
<1>1. /\ worker'[w].pc = pc /\ worker'[w].inst = worker[w].inst
      /\ \A v \in Workers : v # w => worker'[v] = worker[v]
  BY GoToFacts DEF AskedInv, AwaitInv
<1>. QED
  BY <1>1, OtherWork

LEMMA EndsWork ==
    ASSUME AskedInv, NEW w \in Workers, worker' = [worker EXCEPT ![w] = IdleWorker]
    PROVE  WorkWasAsked
<1>1. worker'[w].pc = "idle" /\ \A v \in Workers : v # w => worker'[v] = worker[v]
  BY IdleFacts DEF AskedInv, AwaitInv, TypeOK
<1>. QED
  BY <1>1, OtherWork

LEMMA ClientAsked ==
    ASSUME AskedInv, NEW c \in Clients, ClientStep(c) \/ ClientRequest(c) \/ RequestDies(c)
    PROVE  DocsKept /\ WorkWasAsked
<1>0. TypeOK /\ client[c].inst \in Instances
  BY ClientFacts DEF AskedInv, AwaitInv
<1>1. WorkWasAsked
  BY SameWork DEF ClientStep, ClientRequest, RequestDies, StopExpired, PostJob, CancelJobs,
                  CreateInstance, DeleteInstance, FindExpired, StartStop, EditInstance
<1>2. DocsKept
  <2>1. CASE StopExpired(c)
    BY <1>0, <2>1, StatusWritten DEF StopExpired, Status
  <2>2. CASE PostJob(c) \/ CancelJobs(c) \/ RequestDies(c)
    BY <2>2, SameDocs DEF PostJob, CancelJobs, RequestDies
  <2>3. ASSUME NEW i \in Instances, CreateInstance(c, i) PROVE DocsKept
    BY <2>3, StatusWritten DEF CreateInstance, Status
  <2>4. ASSUME NEW i \in Instances, DeleteInstance(c, i) PROVE DocsKept
    BY <1>0, <2>4 DEF DeleteInstance, DocsKept, AskedInv, DeletionWasAsked, Marked, TypeOK
  <2>5. ASSUME NEW i \in Instances, FindExpired(c, i) PROVE DocsKept
    BY <2>5, SameDocs DEF FindExpired
  <2>6. ASSUME NEW i \in Instances, NEW op \in {"start", "stop"}, StartStop(c, i, op)
        PROVE  DocsKept
    BY <2>6, StatusWritten DEF StartStop, Status
  <2>7. ASSUME NEW i \in Instances, EditInstance(c, i) PROVE DocsKept
    BY <2>7, StatusWritten DEF EditInstance
  <2>. QED
    BY <2>1, <2>2, <2>3, <2>4, <2>5, <2>6, <2>7 DEF ClientStep, ClientRequest
<1>. QED
  BY <1>1, <1>2

LEMMA JobStepAsked ==
    ASSUME AskedInv, NEW w \in Workers, JobStep(w)
    PROVE  DocsKept /\ WorkWasAsked
<1>0. TypeOK /\ worker[w].inst \in Instances
  BY WorkerFacts DEF AskedInv, AwaitInv
<1>1. CASE Report(w)
  BY <1>1, SameDocs, EndsWork DEF Report
<1>2. CASE BeginCreate(w)
  BY <1>2, SameDocs, GoToWork DEF BeginCreate, Steps
<1>3. CASE PostCreate(w)
  BY <1>3, SameDocs, GoToWork DEF PostCreate, Steps
<1>4. CASE PollCreate(w)
  BY <1>4, SameDocs, GoToWork DEF PollCreate, Steps
<1>5. CASE WaitStopped(w)
  BY <1>5, SameDocs, GoToWork DEF WaitStopped, Steps
<1>6. CASE WriteStatus(w)
  <2>1. DocsKept
    BY <1>0, <1>6, StatusWritten DEF WriteStatus, Status
  <2>. QED
    BY <1>6, <2>1, GoToWork DEF WriteStatus, Steps
<1>7. CASE Switch(w)
  BY <1>7, SameDocs, GoToWork DEF Switch, Steps
<1>8. CASE BeginDelete(w)
  <2>1. doc[worker[w].inst].doomed
    BY <1>0, <1>8 DEF BeginDelete, AskedInv, AwaitInv, WorkerOK, Recurring, JobsBegun, Wanted, Op
  <2>. QED
    BY <1>8, <2>1, SameDocs, GoToWork DEF BeginDelete, Steps
<1>9. CASE CallDelete(w)
  <2>1. doc[worker[w].inst].doomed
    BY <1>9 DEF CallDelete, AskedInv, HandlersWereAsked
  <2>. QED
    BY <1>9, <2>1, SameDocs, GoToWork DEF CallDelete, Steps
<1>10. CASE RemoveDoc(w)
  <2>1. doc[worker[w].inst].doomed
    BY <1>10 DEF RemoveDoc, AskedInv, HandlersWereAsked
  <2>2. DocsKept
    BY <1>0, <1>10, <2>1, StatusWritten DEF RemoveDoc, Status
  <2>. QED
    BY <1>10, <2>2, GoToWork DEF RemoveDoc, Steps
<1>11. CASE UpdateConfig(w)
  BY <1>11, SameDocs, GoToWork DEF UpdateConfig, Steps
<1>. QED
  BY <1>1, <1>2, <1>3, <1>4, <1>5, <1>6, <1>7, <1>8, <1>9, <1>10, <1>11 DEF JobStep

LEMMA RecurringAsked ==
    ASSUME AskedInv, NEW w \in Workers, RecurringStep(w) \/ BeginScan(w) \/ BeginSync(w)
    PROVE  DocsKept /\ WorkWasAsked
<1>0. TypeOK /\ worker \in [Workers -> Worker] /\ worker[w].inst \in Instances
      /\ worker[w].seen \in {"stopped", "running"} /\ worker[w].todo \subseteq Instances
  BY WorkerFacts DEF AskedInv, AwaitInv, TypeOK, Worker
<1>1. CASE RecordState(w)
  <2>1. DocsKept
    BY <1>0, <1>1, StatusWritten DEF RecordState, StatusOf, Status
  <2>. QED
    BY <1>1, <2>1, GoToWork DEF RecordState, Steps
<1>2. CASE EndRecurring(w)
  BY <1>2, SameDocs, EndsWork DEF EndRecurring
<1>3. ASSUME NEW i \in Instances, ReadState(w, i) PROVE DocsKept /\ WorkWasAsked
  <2>. DEFINE r == [worker[w] EXCEPT !.pc = "record", !.inst = i, !.seen = Box(i),
                                     !.todo = worker[w].todo \ {i}]
              n == [worker[w] EXCEPT !.todo = worker[w].todo \ {i}]
  <2>1. worker' = [worker EXCEPT ![w] = IF Box(i) \in {"stopped", "running"} THEN r ELSE n]
    BY <1>3 DEF ReadState
  <2>2. r.pc = "record" /\ n.pc = "scan"
    BY <1>0, <1>3 DEF ReadState, Worker
  <2>. HIDE DEF r, n
  <2>3. worker'[w].pc \in {"record", "scan"} /\ \A v \in Workers : v # w => worker'[v] = worker[v]
    BY <1>0, <2>1, <2>2
  <2>. QED
    BY <1>3, <2>3, SameDocs, OtherWork DEF ReadState
<1>4. ASSUME NEW i \in Instances, SyncDeletion(w, i) PROVE DocsKept /\ WorkWasAsked
  <2>1. /\ worker[w].pc = "sync" /\ worker'[w].pc = "sync"
        /\ worker'[w].todo = worker[w].todo \ {i}
        /\ \A v \in Workers : v # w => worker'[v] = worker[v]
    BY <1>0, <1>4 DEF SyncDeletion, Worker
  <2>2. \A k \in worker[w].todo : Marked(k)
    BY <2>1 DEF AskedInv, HandlersWereAsked
  <2>. QED
    BY <1>4, <2>1, <2>2, SameDocs, OtherWork DEF SyncDeletion
<1>5. CASE BeginScan(w)
  <2>1. worker'[w].pc = "scan" /\ \A v \in Workers : v # w => worker'[v] = worker[v]
    BY <1>0, <1>5, IdleFacts DEF BeginScan, Worker
  <2>. QED
    BY <1>5, <2>1, SameDocs, OtherWork DEF BeginScan
<1>6. CASE BeginSync(w)
  <2>1. /\ worker'[w].pc = "sync"
        /\ worker'[w].todo = {i \in Instances : doc[i].status = "DELETED"}
        /\ \A v \in Workers : v # w => worker'[v] = worker[v]
    BY <1>0, <1>6, IdleFacts DEF BeginSync, Worker
  <2>2. \A i \in worker'[w].todo : Marked(i)
    BY <2>1 DEF AskedInv, DeletionWasAsked
  <2>. QED
    BY <1>6, <2>1, <2>2, SameDocs, OtherWork DEF BeginSync
<1>. QED
  BY <1>1, <1>2, <1>3, <1>4, <1>5, <1>6 DEF RecurringStep

LEMMA NextAsked == AskedInv /\ [Next]_vars => AskedInv'
<1>. SUFFICES ASSUME AskedInv, [Next]_vars PROVE DocsKept /\ WorkWasAsked
  BY NextAwaits, AskedStep DEF AskedInv
<1>0. TypeOK /\ worker \in [Workers -> Worker]
  BY DEF AskedInv, AwaitInv, TypeOK
<1>1. CASE \E c \in Clients : ClientStep(c) \/ ClientRequest(c) \/ RequestDies(c)
  BY <1>1, ClientAsked
<1>2. CASE \E w \in Workers : WorkerStep(w) \/ BeginScan(w) \/ BeginSync(w)
  BY <1>2, JobStepAsked, RecurringAsked DEF WorkerStep
<1>3. CASE \E w \in Workers : LxdFails(w)
  <2>. PICK w \in Workers : LxdFails(w)
    BY <1>3
  <2>1. DocsKept
    BY SameDocs DEF LxdFails
  <2>2. CASE worker[w].pc = "create" /\ GoTo(w, "fail")
    BY <2>1, <2>2, GoToWork DEF Steps
  <2>3. CASE GoTo(w, "report")
    BY <2>1, <2>3, GoToWork DEF Steps
  <2>4. CASE worker[w].pc = "delete" /\ GoTo(w, "remove")
    <3>1. doc[worker[w].inst].doomed
      BY <2>4 DEF AskedInv, HandlersWereAsked
    <3>. QED
      BY <2>1, <2>4, <3>1, GoToWork DEF Steps
  <2>5. CASE \E i \in worker[w].todo : worker' = [worker EXCEPT ![w].todo = @ \ {i}]
    <3>1. /\ worker'[w].pc = worker[w].pc /\ worker'[w].inst = worker[w].inst
          /\ worker'[w].todo \subseteq worker[w].todo
          /\ \A v \in Workers : v # w => worker'[v] = worker[v]
      BY <1>0, <2>5 DEF Worker
    <3>. QED
      BY <2>1, <3>1, OtherWork DEF AskedInv, HandlersWereAsked
  <2>. QED
    BY <2>2, <2>3, <2>4, <2>5 DEF LxdFails
<1>4. CASE \E w \in Workers : PickJob(w)
  <2>. PICK w \in Workers, k \in DOMAIN jobs :
          worker' = [worker EXCEPT ![w] = [IdleWorker EXCEPT !.pc = "begin", !.job = k,
                                                           !.inst = jobs[k].inst]]
    BY <1>4 DEF PickJob
  <2>1. worker'[w].pc = "begin" /\ \A v \in Workers : v # w => worker'[v] = worker[v]
    BY <1>0, IdleFacts DEF Worker
  <2>. QED
    BY <1>4, <2>1, SameDocs, OtherWork DEF PickJob
<1>5. CASE (\E n \in Names : LxdMakes(n) \/ DirectCall(n)) \/ RefreshMonitor \/ UNCHANGED vars
  BY <1>5, SameDocs, SameWork DEF LxdMakes, DirectCall, RefreshMonitor, vars
<1>6. CASE Crash
  <2>1. DocsKept
    BY <1>6, SameDocs DEF Crash
  <2>2. \A w \in Workers : worker'[w].pc = "idle"
    BY <1>6, IdleFacts DEF Crash
  <2>. QED
    BY <2>1, <2>2 DEF WorkWasAsked
<1>. QED
  BY <1>1, <1>2, <1>3, <1>4, <1>5, <1>6 DEF Next

LEMMA InitAsked == Init => AskedInv
<1>. SUFFICES ASSUME Init PROVE DeletionWasAsked /\ HandlersWereAsked
  BY InitAwaits DEF AskedInv
<1>. QED
  BY IdleFacts DEF Init, DeletionWasAsked, HandlersWereAsked

\* No document is removed unless deleteInstance was called for it, whatever the requests,
\* the edits, the handlers and the monitors write over each other.
THEOREM RemovalCorrect == Spec => []RemovalWasAsked
<1>1. AskedInv => RemovalWasAsked
  BY DEF AskedInv, DeletionWasAsked, RemovalWasAsked
<1>. QED
  BY <1>1, InitAsked, NextAsked, PTL DEF Spec

LEMMA DestructionStep ==
    ASSUME AskedInv, [Next]_vars, NEW n \in Names,
           box[n] \in {"stopped", "running"}, box'[n] = "none"
    PROVE  (\E i \in Instances : NameOf[i] = n /\ Marked(i)) \/ direct' = direct + 1
<1>0. TypeOK /\ box \in [Names -> {"none", "making", "stopped", "running"}]
  BY DEF AskedInv, AwaitInv, TypeOK
<1>1. CASE UNCHANGED box
  BY <1>1
<1>2. ASSUME NEW m \in Names, LxdMakes(m) PROVE FALSE
  BY <1>0, <1>2 DEF LxdMakes
<1>3. ASSUME NEW w \in Workers, PostCreate(w) \/ Switch(w) PROVE FALSE
  BY <1>0, <1>3 DEF PostCreate, Switch, Box
<1>4. ASSUME NEW w \in Workers, CallDelete(w)
      PROVE  \E i \in Instances : NameOf[i] = n /\ Marked(i)
  <2>1. worker[w].inst \in Instances /\ Marked(worker[w].inst)
    BY <1>0, <1>4, WorkerFacts DEF CallDelete, AskedInv, HandlersWereAsked, Marked
  <2>2. NameOf[worker[w].inst] = n
    BY <1>0, <1>4, <2>1, DestroyedFacts, NameAssumption DEF CallDelete
  <2>. QED
    BY <2>1, <2>2
<1>5. ASSUME NEW w \in Workers, NEW i \in Instances, SyncDeletion(w, i)
      PROVE  NameOf[i] = n /\ Marked(i)
  <2>1. Marked(i)
    BY <1>5 DEF SyncDeletion, AskedInv, HandlersWereAsked
  <2>2. NameOf[i] = n
    BY <1>0, <1>5, DestroyedFacts, NameAssumption DEF SyncDeletion
  <2>. QED
    BY <2>1, <2>2
<1>6. ASSUME NEW w \in Workers, JobStep(w), box' # box
      PROVE  PostCreate(w) \/ Switch(w) \/ CallDelete(w)
  BY <1>6 DEF JobStep, Report, BeginCreate, PollCreate, WaitStopped, WriteStatus, UpdateConfig,
              BeginDelete, RemoveDoc
<1>7. ASSUME NEW w \in Workers, RecurringStep(w), box' # box
      PROVE  \E i \in Instances : SyncDeletion(w, i)
  BY <1>7 DEF RecurringStep, RecordState, EndRecurring, ReadState
<1>8. ASSUME NEW c \in Clients, ClientStep(c) \/ ClientRequest(c) \/ RequestDies(c)
      PROVE  box' = box
  BY <1>8 DEF ClientStep, ClientRequest, RequestDies, StopExpired, PostJob, CancelJobs,
              CreateInstance, DeleteInstance, FindExpired, StartStop, EditInstance
<1>9. ASSUME NEW w \in Workers, LxdFails(w) \/ PickJob(w) \/ BeginScan(w) \/ BeginSync(w)
      PROVE  box' = box
  BY <1>9 DEF LxdFails, PickJob, BeginScan, BeginSync
<1>10. CASE RefreshMonitor \/ Crash \/ UNCHANGED vars
  BY <1>1, <1>10 DEF RefreshMonitor, Crash, vars
<1>11. ASSUME NEW m \in Names, DirectCall(m) PROVE direct' = direct + 1
  BY <1>11 DEF DirectCall
<1>. QED
  BY <1>1, <1>2, <1>3, <1>4, <1>5, <1>6, <1>7, <1>8, <1>9, <1>10, <1>11 DEF Next, WorkerStep

\* No container that was made is destroyed unless an instance of its name was deleted, or
\* marked as DELETED by an edit, before, or a call was made to LXD directly.
THEOREM DestructionCorrect == Spec => DestructionWasAsked
<1>1. AskedInv /\ [Next]_vars =>
          [\A n \in Names : box[n] \in {"stopped", "running"} /\ box'[n] = "none" =>
              \/ \E i \in Instances : NameOf[i] = n /\ (doc[i].doomed \/ i \in edited)
              \/ direct' = direct + 1]_vars
  BY DestructionStep DEF Marked
<1>. QED
  BY <1>1, InitAsked, NextAsked, PTL DEF Spec, DestructionWasAsked
=============================================================================
