---------------------------- MODULE LxdInstances ----------------------------
(***************************************************************************)
(* The life of compute instances: the requests of instanceCore.ts, which   *)
(* write the instance's document and queue jobs, the handlers of the job   *)
(* executor (lxdJobHandler.ts, lxdMonitorHandler.ts), which act on the LXD *)
(* server and write the document back, and the LXD server (external).      *)
(*                                                                         *)
(* The status of a document is written by both sides, each from what it    *)
(* saw some awaits earlier.  A job stays PENDING while it is executed, so  *)
(* several calls of checkForJobs may work on it (module JobPoller, whose   *)
(* attempts and histories are left out here).  A user names the container  *)
(* of an instance freely; two instances may have one name.                 *)
(*                                                                         *)
(* Two ways around all this are part of the model: editInstance writes any *)
(* status its caller gives, and the procedures of lxdProcedure.ts call LXD *)
(* for a container without looking at any document.  What else an edit can *)
(* write (the limits, but the name, the project, life or id of a document  *)
(* too, since its updates are passed through) is left out: an instance     *)
(* keeps its name.                                                         *)
(***************************************************************************)
EXTENDS Naturals, Sequences, FiniteSets

CONSTANTS
    Instances,   \* ids of instances, of one user
    Names,       \* container names
    NameOf,      \* the name its user gives to each instance
    Clients,     \* requests under way at the API server
    Workers,     \* calls of checkForJobs under way at the executor
    MaxJobs,     \* bound on the jobs created
    MaxFaults,   \* bound on failing LXD calls, dead requests and executor crashes
    MaxDirect    \* bound on the calls that go to LXD directly

ASSUME NameAssumption == NameOf \in [Instances -> Names] /\ Instances # {}
ASSUME BoundAssumption == MaxJobs \in Nat /\ MaxFaults \in Nat /\ MaxDirect \in Nat

VARIABLES
    doc,      \* instance_collection
    box,      \* the containers of the LXD server
    jobs,     \* the one-off jobs in the order of their creation
    monitor,  \* the recurring jobs of the user
    client,   \* progress of each request
    worker,   \* progress of each call of checkForJobs
    faults,   \* faults so far
    direct,   \* calls made to LXD directly so far
    \* History variables, for the properties only:
    edited,   \* instances that an edit has marked as DELETED
    lost      \* instances whose creation died, was refused or given up by the executor,
              \* or that an edit has marked as PENDING

history == <<edited, lost>>
vars == <<doc, box, jobs, monitor, client, worker, faults, direct, edited, lost>>

-----------------------------------------------------------------------------

\* NONE and REMOVED stand for a document not yet inserted and one deleted.
Status == {"NONE", "PENDING", "FAILED", "STARTING", "STOPPING", "RUNNING", "STOPPED",
           "DELETED", "REMOVED"}

\* `doomed` says that deleteInstance has set life.deletedTime, which nothing reads.
Doc == [status : Status, doomed : BOOLEAN]
Exists(i) == doc[i].status \notin {"NONE", "REMOVED"}

Ops == {"create", "update", "start", "stop", "delete"}
Job == [op : Ops, inst : Instances, status : {"PENDING", "CANCELLED", "DONE"}]

\* The priorities createJob is called with.
Priority(op) == CASE op = "delete" -> 10 [] op = "create" -> 8 [] op = "update" -> 2
                  [] OTHER -> 5

\* `scope` are the instances whose ids make up executor.id of the state job.
Monitor == [state : BOOLEAN, scope : SUBSET Instances, sync : BOOLEAN]

SomeInstance == CHOOSE i \in Instances : TRUE
Client == [pc : {"idle", "expired", "post", "cancel"}, inst : Instances, op : Ops, job : Nat]
IdleClient == [pc |-> "idle", inst |-> SomeInstance, op |-> "stop", job |-> 0]

Steps == {"idle", "begin", "create", "poll", "wait", "stopped", "failTwice", "fail", "delete",
          "remove", "report", "scan", "record", "sync"}
Worker == [pc : Steps, job : Nat, inst : Instances, todo : SUBSET Instances,
           seen : {"stopped", "running"}]
IdleWorker == [pc |-> "idle", job |-> 0, inst |-> SomeInstance, todo |-> {}, seen |-> "stopped"]

Op(w) == jobs[worker[w].job].op
Box(i) == box[NameOf[i]]

Init ==
    /\ doc = [i \in Instances |-> [status |-> "NONE", doomed |-> FALSE]]
    /\ box = [n \in Names |-> "none"]
    /\ jobs = <<>>
    /\ monitor = [state |-> FALSE, scope |-> {}, sync |-> FALSE]
    /\ client = [c \in Clients |-> IdleClient]
    /\ worker = [w \in Workers |-> IdleWorker]
    /\ faults = 0 /\ direct = 0 /\ edited = {} /\ lost = {}

SetStatus(i, s) == doc' = [doc EXCEPT ![i].status = s]
\* updateOne and findOneAndUpdate find nothing when the document is gone.
SetIfExists(i, s) == doc' = IF Exists(i) THEN [doc EXCEPT ![i].status = s] ELSE doc

-----------------------------------------------------------------------------
(* The requests: instanceCore.ts.  Each writes the document and then, in a *)
(* later call to the database, creates its job.                            *)

\* Jobs that exist or are about to.
JobsDue == Len(jobs) + Cardinality({c \in Clients : client[c].pc \in {"expired", "post"}})

Queue(c, i, op) == client' = [client EXCEPT ![c] = [IdleClient EXCEPT !.pc = "post",
                                                                   !.inst = i, !.op = op]]

CreateInstance(c, i) ==
    /\ client[c].pc = "idle" /\ JobsDue < MaxJobs
    /\ doc[i].status = "NONE"
    /\ SetStatus(i, "PENDING")
    /\ Queue(c, i, "create")
    /\ UNCHANGED <<box, jobs, monitor, worker, faults, direct, history>>

\* startStopInstance, restartInstance: no status is asked for.
StartStop(c, i, op) ==
    /\ client[c].pc = "idle" /\ JobsDue < MaxJobs
    /\ Exists(i)
    /\ SetStatus(i, IF op = "start" THEN "STARTING" ELSE "STOPPING")
    /\ Queue(c, i, op)
    /\ UNCHANGED <<box, jobs, monitor, worker, faults, direct, history>>

\* getInstances finds that the lifespan of an instance is over ...
FindExpired(c, i) ==
    /\ client[c].pc = "idle" /\ JobsDue < MaxJobs
    /\ Exists(i) /\ doc[i].status \notin {"DELETED", "STOPPED", "STOPPING", "FAILED"}
    /\ client' = [client EXCEPT ![c] = [IdleClient EXCEPT !.pc = "expired", !.inst = i]]
    /\ UNCHANGED <<doc, box, jobs, monitor, worker, faults, direct, history>>

\* ... and stops it, from the status it has read.
StopExpired(c) ==
    /\ client[c].pc = "expired"
    /\ SetIfExists(client[c].inst, "STOPPING")
    /\ IF Exists(client[c].inst) THEN Queue(c, client[c].inst, "stop")
                                 ELSE client' = [client EXCEPT ![c] = IdleClient]
    /\ UNCHANGED <<box, jobs, monitor, worker, faults, direct, history>>

\* Mutant of DeleteInstance: life is not written.
DeleteKeepsLife(c, i) ==
    /\ client[c].pc = "idle" /\ JobsDue < MaxJobs
    /\ Exists(i)
    /\ SetStatus(i, "DELETED")
    /\ Queue(c, i, "delete")
    /\ UNCHANGED <<box, jobs, monitor, worker, faults, direct, history>>

DeleteInstance(c, i) ==
    /\ client[c].pc = "idle" /\ JobsDue < MaxJobs
    /\ Exists(i)
    /\ doc' = [doc EXCEPT ![i] = [status |-> "DELETED", doomed |-> TRUE]]
    /\ Queue(c, i, "delete")
    /\ UNCHANGED <<box, jobs, monitor, worker, faults, direct, history>>

\* editInstance writes the status that it is given, whatever it is, and none when it is
\* given none; an update job follows in any case.
EditInstance(c, i) ==
    /\ client[c].pc = "idle" /\ JobsDue < MaxJobs
    /\ Exists(i)
    /\ \E s \in Status \ {"NONE", "REMOVED"} :
         /\ SetStatus(i, s)
         /\ edited' = IF s = "DELETED" THEN edited \cup {i} ELSE edited
         /\ lost' = IF s = "PENDING" THEN lost \cup {i} ELSE lost
    /\ Queue(c, i, "update")
    /\ UNCHANGED <<box, jobs, monitor, worker, faults, direct>>

PostJob(c) ==
    /\ client[c].pc = "post"
    /\ jobs' = Append(jobs, [op |-> client[c].op, inst |-> client[c].inst, status |-> "PENDING"])
    /\ client' = [client EXCEPT ![c] = IF client[c].op = "delete"
                                       THEN [@ EXCEPT !.pc = "cancel", !.job = Len(jobs) + 1]
                                       ELSE IdleClient]
    /\ UNCHANGED <<doc, box, monitor, worker, faults, direct, history>>

\* deleteInstance cancels the instance's other pending jobs, the state job
\* included when it was created for this instance alone.
CancelJobs(c) ==
    /\ client[c].pc = "cancel"
    /\ jobs' = [k \in DOMAIN jobs |->
          IF jobs[k].inst = client[c].inst /\ jobs[k].status = "PENDING" /\ k # client[c].job
          THEN [jobs[k] EXCEPT !.status = "CANCELLED"] ELSE jobs[k]]
    /\ monitor' = IF monitor.scope = {client[c].inst} THEN [monitor EXCEPT !.state = FALSE]
                                                      ELSE monitor
    /\ client' = [client EXCEPT ![c] = IdleClient]
    /\ UNCHANGED <<doc, box, worker, faults, direct, history>>

\* getInstances, which the instances page asks for every two minutes, creates the
\* recurring jobs that are not pending.
RefreshMonitor ==
    /\ ~(monitor.state /\ monitor.sync)
    /\ monitor' = [state |-> TRUE, sync |-> TRUE,
                   scope |-> IF monitor.state THEN monitor.scope
                             ELSE {i \in Instances : Exists(i) /\ doc[i].status # "DELETED"}]
    /\ UNCHANGED <<doc, box, jobs, client, worker, faults, direct, history>>

RequestDies(c) ==
    /\ client[c].pc # "idle" /\ faults < MaxFaults
    /\ lost' = IF client[c].pc = "post" /\ client[c].op = "create"
               THEN lost \cup {client[c].inst} ELSE lost
    /\ client' = [client EXCEPT ![c] = IdleClient]
    /\ faults' = faults + 1
    /\ UNCHANGED <<doc, box, jobs, monitor, worker, direct, edited>>

-----------------------------------------------------------------------------
(* The LXD server: a container that is being made is made, or not.  The    *)
(* procedures of lxdProcedure.ts reach it without a document or a job.     *)

LxdMakes(n) ==
    /\ box[n] = "making"
    /\ \E outcome \in {"stopped", "none"} : box' = [box EXCEPT ![n] = outcome]
    /\ UNCHANGED <<doc, jobs, monitor, client, worker, faults, direct, history>>

\* LXD deletes a container that exists.
Destroyed(n) == IF box[n] \in {"stopped", "running"} THEN [box EXCEPT ![n] = "none"] ELSE box

DirectCall(n) ==
    /\ direct < MaxDirect
    /\ \/ box[n] = "none" /\ box' = [box EXCEPT ![n] = "making"]
       \/ /\ box[n] \in {"stopped", "running"}
          /\ \E state \in {"stopped", "running"} : box' = [box EXCEPT ![n] = state]
       \/ box' = Destroyed(n)
    /\ direct' = direct + 1
    /\ UNCHANGED <<doc, jobs, monitor, client, worker, faults, history>>

-----------------------------------------------------------------------------
(* The executor.  A job is reported as done whether it succeeded or not:   *)
(* neither FINISHED nor ERROR is ever picked again.                        *)

Pending(k) == jobs[k].status = "PENDING"
Before(j, k) == \/ Priority(jobs[j].op) > Priority(jobs[k].op)
                \/ Priority(jobs[j].op) = Priority(jobs[k].op) /\ j <= k

\* Mutant of PickJob: the job is marked as done when it is picked.
PickJobTaken(w) ==
    /\ worker[w].pc = "idle"
    /\ \E k \in DOMAIN jobs :
         /\ Pending(k) /\ \A j \in DOMAIN jobs : Pending(j) => Before(k, j)
         /\ worker' = [worker EXCEPT ![w] = [IdleWorker EXCEPT !.pc = "begin", !.job = k,
                                                             !.inst = jobs[k].inst]]
         /\ jobs' = [jobs EXCEPT ![k].status = "DONE"]
    /\ UNCHANGED <<doc, box, monitor, client, faults, direct, history>>

PickJob(w) ==
    /\ worker[w].pc = "idle"
    /\ \E k \in DOMAIN jobs :
         /\ Pending(k) /\ \A j \in DOMAIN jobs : Pending(j) => Before(k, j)
         /\ worker' = [worker EXCEPT ![w] = [IdleWorker EXCEPT !.pc = "begin", !.job = k,
                                                             !.inst = jobs[k].inst]]
    /\ UNCHANGED <<doc, box, jobs, monitor, client, faults, direct, history>>

GoTo(w, pc) == worker' = [worker EXCEPT ![w].pc = pc]

Report(w) ==
    /\ worker[w].pc = "report"
    /\ jobs' = [jobs EXCEPT ![worker[w].job].status = "DONE"]
    /\ worker' = [worker EXCEPT ![w] = IdleWorker]
    /\ UNCHANGED <<doc, box, monitor, client, faults, direct, history>>

\* create: an instance that is not PENDING is refused.
BeginCreate(w) ==
    /\ worker[w].pc = "begin" /\ Op(w) = "create"
    /\ GoTo(w, IF doc[worker[w].inst].status = "PENDING" THEN "create" ELSE "report")
    /\ UNCHANGED <<doc, box, jobs, monitor, client, faults, direct, history>>

\* LXD begins an operation, which fails at once when it has a container of the name: that
\* create takes for success.  Or LXD refuses with a status below 500, which the manager
\* lets pass as an answer: it has no operation, so nothing is polled and no status is
\* written, and the job is reported as successful.
PostCreate(w) ==
    /\ worker[w].pc = "create"
    /\ \/ /\ Box(worker[w].inst) = "none"
          /\ box' = [box EXCEPT ![NameOf[worker[w].inst]] = "making"] /\ GoTo(w, "poll")
          /\ lost' = lost
       \/ Box(worker[w].inst) # "none" /\ box' = box /\ GoTo(w, "stopped") /\ lost' = lost
       \/ box' = box /\ GoTo(w, "report") /\ lost' = lost \cup {worker[w].inst}
    /\ UNCHANGED <<doc, jobs, monitor, client, faults, direct, edited>>

\* pollOperation: a failure with a message that create knows to be fatal fails the
\* instance, any other leaves its status; so do 50 tries, respectively errors.
PollCreate(w) ==
    /\ worker[w].pc = "poll"
    /\ \/ Box(worker[w].inst) \in {"stopped", "running"} /\ GoTo(w, "wait") /\ lost' = lost
       \/ Box(worker[w].inst) = "none" /\ GoTo(w, "fail") /\ lost' = lost
       \/ Box(worker[w].inst) = "making" /\ GoTo(w, "failTwice") /\ lost' = lost
       \/ /\ Box(worker[w].inst) \in {"none", "making"} /\ GoTo(w, "report")
          /\ lost' = lost \cup {worker[w].inst}
    /\ UNCHANGED <<doc, box, jobs, monitor, client, faults, direct, edited>>

WaitStopped(w) ==
    /\ worker[w].pc = "wait"
    /\ GoTo(w, IF Box(worker[w].inst) = "stopped" THEN "stopped" ELSE "failTwice")
    /\ UNCHANGED <<doc, box, jobs, monitor, client, faults, direct, history>>

\* updateInstanceMetadata, whatever the status has become; after an error that is
\* not a polling error FAILED is written by both catch blocks.
WriteStatus(w) ==
    /\ worker[w].pc \in {"stopped", "failTwice", "fail"}
    /\ SetIfExists(worker[w].inst, IF worker[w].pc = "stopped" THEN "STOPPED" ELSE "FAILED")
    /\ GoTo(w, IF worker[w].pc = "failTwice" THEN "fail" ELSE "report")
    /\ UNCHANGED <<box, jobs, monitor, client, faults, direct, history>>

\* startStopInstance leaves the status to the monitor.
Switch(w) ==
    /\ worker[w].pc = "begin" /\ Op(w) \in {"start", "stop"}
    /\ box' = IF Exists(worker[w].inst) /\ Box(worker[w].inst) \in {"stopped", "running"}
              THEN [box EXCEPT ![NameOf[worker[w].inst]] =
                                   IF Op(w) = "start" THEN "running" ELSE "stopped"]
              ELSE box
    /\ GoTo(w, "report")
    /\ UNCHANGED <<doc, jobs, monitor, client, faults, direct, history>>

\* update leaves the document, and which containers there are, as they are.
UpdateConfig(w) ==
    /\ worker[w].pc = "begin" /\ Op(w) = "update"
    /\ GoTo(w, "report")
    /\ UNCHANGED <<doc, box, jobs, monitor, client, faults, direct, history>>

BeginDelete(w) ==
    /\ worker[w].pc = "begin" /\ Op(w) = "delete"
    /\ GoTo(w, IF doc[worker[w].inst].status = "DELETED" THEN "delete" ELSE "report")
    /\ UNCHANGED <<doc, box, jobs, monitor, client, faults, direct, history>>

\* The manager returns every error as an answer, and the handler goes on as if the
\* container was gone.
CallDelete(w) ==
    /\ worker[w].pc = "delete"
    /\ box' = Destroyed(NameOf[worker[w].inst])
    /\ GoTo(w, "remove")
    /\ UNCHANGED <<doc, jobs, monitor, client, faults, direct, history>>

RemoveDoc(w) ==
    /\ worker[w].pc = "remove"
    /\ SetIfExists(worker[w].inst, "REMOVED")
    /\ GoTo(w, "report")
    /\ UNCHANGED <<box, jobs, monitor, client, faults, direct, history>>

-----------------------------------------------------------------------------
(* The recurring jobs: lxdMonitorHandler.ts.  They rank below every one-off *)
(* job, work through a list read when they begin, and end by setting their *)
(* own status to PENDING again.                                            *)

NoJobPending == \A k \in DOMAIN jobs : ~Pending(k)

BeginScan(w) ==
    /\ worker[w].pc = "idle" /\ monitor.state /\ NoJobPending
    /\ worker' = [worker EXCEPT ![w] = [IdleWorker EXCEPT
          !.pc = "scan", !.todo = {i \in Instances : Exists(i) /\ doc[i].status # "DELETED"}]]
    /\ UNCHANGED <<doc, box, jobs, monitor, client, faults, direct, history>>

\* Mutant of BeginSync: all instances of the user.
BeginSyncAll(w) ==
    /\ worker[w].pc = "idle" /\ monitor.sync /\ NoJobPending
    /\ worker' = [worker EXCEPT ![w] = [IdleWorker EXCEPT
          !.pc = "sync", !.todo = {i \in Instances : Exists(i)}]]
    /\ UNCHANGED <<doc, box, jobs, monitor, client, faults, direct, history>>

\* Of the instances that are not DELETED the state is asked for, and nothing done:
\* getInstanceState never throws, so none of them counts as missing.
BeginSync(w) ==
    /\ worker[w].pc = "idle" /\ monitor.sync /\ NoJobPending
    /\ worker' = [worker EXCEPT ![w] = [IdleWorker EXCEPT
          !.pc = "sync", !.todo = {i \in Instances : doc[i].status = "DELETED"}]]
    /\ UNCHANGED <<doc, box, jobs, monitor, client, faults, direct, history>>

\* An instance whose container does not answer is left out.
ReadState(w, i) ==
    /\ worker[w].pc = "scan" /\ i \in worker[w].todo
    /\ worker' = [worker EXCEPT ![w] =
          IF Box(i) \in {"stopped", "running"}
          THEN [worker[w] EXCEPT !.pc = "record", !.inst = i, !.seen = Box(i),
                                 !.todo = worker[w].todo \ {i}]
          ELSE [worker[w] EXCEPT !.todo = worker[w].todo \ {i}]]
    /\ UNCHANGED <<doc, box, jobs, monitor, client, faults, direct, history>>

\* determineInstanceStatus
StatusOf(state) == IF state = "running" THEN "RUNNING" ELSE "STOPPED"

\* Mutants of RecordState: the state is stored as it is; the status is left alone.
RecordRaw(w) ==
    /\ worker[w].pc = "record"
    /\ SetIfExists(worker[w].inst, worker[w].seen)
    /\ GoTo(w, "scan")
    /\ UNCHANGED <<box, jobs, monitor, client, faults, direct, history>>

RecordNothing(w) ==
    /\ worker[w].pc = "record"
    /\ GoTo(w, "scan")
    /\ UNCHANGED <<doc, box, jobs, monitor, client, faults, direct, history>>

RecordState(w) ==
    /\ worker[w].pc = "record"
    /\ SetIfExists(worker[w].inst, StatusOf(worker[w].seen))
    /\ GoTo(w, "scan")
    /\ UNCHANGED <<box, jobs, monitor, client, faults, direct, history>>

\* Mutant of SyncDeletion: the container is kept.
SyncNothing(w, i) ==
    /\ worker[w].pc = "sync" /\ i \in worker[w].todo
    /\ worker' = [worker EXCEPT ![w].todo = @ \ {i}]
    /\ UNCHANGED <<doc, box, jobs, monitor, client, faults, direct, history>>

SyncDeletion(w, i) ==
    /\ worker[w].pc = "sync" /\ i \in worker[w].todo
    /\ box' = Destroyed(NameOf[i])
    /\ worker' = [worker EXCEPT ![w].todo = @ \ {i}]
    /\ UNCHANGED <<doc, jobs, monitor, client, faults, direct, history>>

EndRecurring(w) ==
    /\ worker[w].pc \in {"scan", "sync"} /\ worker[w].todo = {}
    /\ monitor' = IF worker[w].pc = "scan" THEN [monitor EXCEPT !.state = TRUE]
                                           ELSE [monitor EXCEPT !.sync = TRUE]
    /\ worker' = [worker EXCEPT ![w] = IdleWorker]
    /\ UNCHANGED <<doc, box, jobs, client, faults, direct, history>>

-----------------------------------------------------------------------------
(* Faults.                                                                 *)

\* A call to LXD fails: creating fails the instance, starting and stopping are
\* reported, deleting goes on to remove the document when the request was answered
\* by an error, and is reported when the operation failed; the monitor goes on.
LxdFails(w) ==
    /\ faults < MaxFaults
    /\ \/ worker[w].pc = "create" /\ GoTo(w, "fail")
       \/ worker[w].pc = "begin" /\ Op(w) \in {"start", "stop"} /\ GoTo(w, "report")
       \/ worker[w].pc = "delete" /\ \E pc \in {"remove", "report"} : GoTo(w, pc)
       \/ /\ worker[w].pc \in {"scan", "sync"}
          /\ \E i \in worker[w].todo : worker' = [worker EXCEPT ![w].todo = @ \ {i}]
    /\ faults' = faults + 1
    /\ UNCHANGED <<doc, box, jobs, monitor, client, direct, history>>

\* The executor stops and starts again; the jobs it worked on are still PENDING.
Crash ==
    /\ faults < MaxFaults
    /\ worker' = [w \in Workers |-> IdleWorker]
    /\ faults' = faults + 1
    /\ UNCHANGED <<doc, box, jobs, monitor, client, direct, history>>

-----------------------------------------------------------------------------

ClientStep(c) == StopExpired(c) \/ PostJob(c) \/ CancelJobs(c)

ClientRequest(c) ==
    \E i \in Instances :
        \/ CreateInstance(c, i) \/ DeleteInstance(c, i) \/ FindExpired(c, i)
        \/ EditInstance(c, i)
        \/ \E op \in {"start", "stop"} : StartStop(c, i, op)

JobStep(w) ==
    \/ Report(w) \/ BeginCreate(w) \/ PostCreate(w) \/ PollCreate(w) \/ WaitStopped(w)
    \/ WriteStatus(w) \/ Switch(w) \/ UpdateConfig(w)
    \/ BeginDelete(w) \/ CallDelete(w) \/ RemoveDoc(w)

RecurringStep(w) ==
    \/ RecordState(w) \/ EndRecurring(w)
    \/ \E i \in Instances : ReadState(w, i) \/ SyncDeletion(w, i)

WorkerStep(w) == JobStep(w) \/ RecurringStep(w)

Next ==
    \/ \E c \in Clients : ClientStep(c) \/ ClientRequest(c) \/ RequestDies(c)
    \/ \E w \in Workers : \/ WorkerStep(w) \/ LxdFails(w)
                          \/ PickJob(w) \/ BeginScan(w) \/ BeginSync(w)
    \/ \E n \in Names : LxdMakes(n) \/ DirectCall(n)
    \/ RefreshMonitor \/ Crash

Spec == Init /\ [][Next]_vars

\* Requests and calls under way go on; the timer picks jobs, among equally ranked
\* recurring ones the one whose turn has been waited for longest, so both get
\* theirs; LXD ends what it has begun; the open page keeps asking for the instances.
FairSpec ==
    /\ Spec
    /\ \A c \in Clients : WF_vars(ClientStep(c))
    /\ \A w \in Workers : WF_vars(WorkerStep(w)) /\ WF_vars(PickJob(w))
    /\ \A w \in Workers : SF_vars(BeginScan(w)) /\ SF_vars(BeginSync(w))
    /\ \A n \in Names : WF_vars(LxdMakes(n))
    /\ WF_vars(RefreshMonitor)

-----------------------------------------------------------------------------
(* Type invariant.                                                         *)

\* Documents, containers, jobs and the progress of requests and handlers hold
\* values of their types (instanceCore.ts, lxdJobHandler.ts, lxdMonitorHandler.ts).
TypeOK ==
    /\ doc \in [Instances -> Doc]
    /\ box \in [Names -> {"none", "making", "stopped", "running"}]
    /\ jobs \in Seq(Job)
    /\ monitor \in Monitor
    /\ client \in [Clients -> Client]
    /\ worker \in [Workers -> Worker]
    /\ faults \in Nat /\ direct \in Nat
    /\ edited \subseteq Instances /\ lost \subseteq Instances

-----------------------------------------------------------------------------
(* Safety.                                                                 *)

\* A document is removed only after deleteInstance was called for it, whatever status
\* an edit has written and whoever executes the delete job how often (lxdJobHandler.ts).
RemovalWasAsked == \A i \in Instances : doc[i].status = "REMOVED" => doc[i].doomed

\* A container is destroyed only after an instance of its name was deleted, or marked as
\* DELETED by an edit, or by a call made to LXD directly: no race of the handlers, the
\* monitor and the deletion sync destroys the container of an instance that nobody
\* marked, and no status they write makes the sync destroy one.
DestructionWasAsked ==
    [][\A n \in Names : box[n] \in {"stopped", "running"} /\ box'[n] = "none" =>
          \/ \E i \in Instances : NameOf[i] = n /\ (doc[i].doomed \/ i \in edited)
          \/ direct' = direct + 1]_vars

\* An instance does not wait for ever: while it is PENDING its create job is too, or
\* is about to be queued.  Except when the request died, LXD refused the container with
\* an answer that create takes for success, polling LXD was given up, or an edit wrote
\* PENDING: then nothing is left that would change the status.
PendingHasJob ==
    \A i \in Instances : doc[i].status = "PENDING" =>
        \/ \E k \in DOMAIN jobs : jobs[k].op = "create" /\ jobs[k].inst = i /\ Pending(k)
        \/ \E c \in Clients : client[c].pc = "post" /\ client[c].op = "create"
                              /\ client[c].inst = i
        \/ i \in lost

-----------------------------------------------------------------------------
(* Liveness.                                                               *)

\* When the requests cease, the status shown is the state of the container, although
\* monitors write what they saw some time ago and handlers overwrite each other.
StatusConverges ==
    <>[](\A i \in Instances :
            Exists(i) /\ doc[i].status # "DELETED" /\ Box(i) \in {"stopped", "running"} =>
                doc[i].status = StatusOf(Box(i)))

\* A deleted instance that stays DELETED loses its container.
DeletedIsCleaned ==
    \A i \in Instances : doc[i].status = "DELETED" ~>
        doc[i].status # "DELETED" \/ Box(i) = "none"
=============================================================================
