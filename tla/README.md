# A TLA+ model of the Data Management Portal

The Data Management Portal (DMP, formerly ITMAT) stores the data of clinical
studies. Users define fields, upload and delete clips of data, freeze them in
versions and read them back; beside that they keep files in drives and run
virtual machines on an LXD server. The repository is a TypeScript monorepo whose
logic is in `packages/itmat-cores` (called by the tRPC and REST layers of
`itmat-apis` and `itmat-interface`), `packages/itmat-job-executor` (a second
process that polls a job collection) and `packages/itmat-commons`. Nearly all state
is in MongoDB, an object store and the LXD server. A request is an `async` function,
so every `await` is a point where other requests, the other process, and a failure
can come in between, and almost no sequence of database calls is a transaction.
That is where the program is hard to get right, and it is what is modelled.

Contents: [inventory](#inventory), [modules](#modules),
[the models](#the-models), [runs](#runs), [fairness](#fairness),
[proofs](#proofs), [divergences](#divergences), [not modelled](#not-modelled).

## Inventory

Paths are below `src/packages/`. "Cores" is `itmat-cores/src/coreFunc`, "executor"
is `itmat-job-executor/src`.

| component | state it keeps | operations | hard, and correct when |
|---|---|---|---|
| Versioned study data (cores/studyCore.ts, dataCore.ts) | studies (list of versions, index of the current one), field dictionary, clips, cold copies, cached answers | createDataVersion (8 database calls), setDataversionAsCurrent, deleteStudy; fields, uploads, deletions; cached reads | versions made beside uploads and each other, a request that dies half way, batches of cold copies; versions are frozen and disjoint, nothing stamped is lost, cold storage is complete and made of copies, no cached answer misses a listed version |
| Data answers and permissions (dataCore.ts, permissionCore.ts) | roles, cache entries | reads by roles, list of files, summary | entries inserted, used and outdated while clips and roles change; the ways of asking agree |
| Aggregation (cores/transformationCore.ts) | objects shared by the pipelines of a request | ten operations, run one after another | a pipeline answers as if it ran alone |
| Job scheduler (commons/utils/poller.ts, cores/jobCore.ts) | `jobs_collection`; the calls under way | createJob, cancellation, checkForJobs | calls overlap on one job, results are computed from copies, restarts; a job is closed for good, attempts are bounded, counts are of what happened, urgent jobs get their turn |
| Compute instances (cores/instanceCore.ts, executor/jobHandlers/lxd*.ts, cores/lxd) | instance documents, jobs, containers | create, start, stop, restart, delete, expiry, the handlers, monitor and deletion sync; quota and life spans | every part writes the status it last saw, and an edit any other; nothing is removed that nobody deleted, a status becomes right, a deleted instance loses its container, quota and life are exceeded by overlapping requests alone |
| Access to instances (itmat-interface/src/lxd) | two caches of proxies, pairs of sockets with buffers | forwarding, relaying, cleaning | order and loss of messages while sockets close; proxies expire |
| Monitor's log (commons/utils/logThrottler.ts) | record per error and instance | throttled logging | counts, times and resets; an error that lasts is told of |
| Drive tree (cores/driveCore.ts) | nodes with parent, children, path, sharing lists | folders, files, recursive uploads, rename, move, share, copy, delete | one relation kept three times, recursion over `children` read one by one; files of what is shown exist, children and deletions are complete |
| Files and configuration (cores/fileCore.ts, configCore.ts, commons object store) | configurations, buckets, objects, entries | uploads by category, direct upload, download, edits | a configuration changes between an upload's steps; what is listed can be read |
| User accounts, roles, registers (cores/userCore.ts, permissionCore.ts, domainCore.ts, organisationCore.ts) | users, reset links, roles, entries | creation, edits, deletion, reset of passwords, roles, guests, registers | look-up and write in different calls, ids that nobody looks up; a link resets once, a deleted user leaves the roles |
| Authenticators (cores/webauthnCore.ts) | one list of devices per user, challenges, signed answers | registration, authentication, removal, renaming | the whole list is rewritten from a copy; no device is lost or revived without an overlap |
| Authenticators in the browser (itmat-ui-react dmpWebauthn) | a list in local storage, a copy in each tab, cached answers | log in, register, delete, offer | tabs overwrite each other, the storage may refuse a write; an enrolled user is offered to log in |
| Sessions, tokens, the log of calls (itmat-interface, itmat-apis/src/trpc/middleware.ts, cores/authentication) | sessions, access keys, log | login, logout, tokens, every call | accounts change during a request; who acts is live, logout is final, success is logged |
| Summaries of the log (cores/logCore.ts) | the log | getLogsSummary | calls are logged while it counts |
| WebDAV (cores/webdav/dmpWebDAV.ts) | a flag shared by requests | listings, look-ups, operations on paths | paths out of date; listing and look-up agree |

How they interact: browsers call the API; the API reads and writes the database and
the object store, and creates jobs; the executor picks jobs, calls LXD and writes
results and states back; the interface server relays browsers to the instances by
addresses it finds in the instance documents. Components share documents, never
locks. The hazards each part is exposed to are listed, at their lines and with the
properties that cover them, under `hazards` in `PROJECT.json`.

## Modules

| module | models | proofs |
|---|---|---|
| `VersionLog` | abstract: an append-only log of frozen, disjoint sets of documents | |
| `StudyVersions` | studyCore and dataCore for one study | `StudyVersionsProofs` |
| `JobLedger` | abstract: jobs opened once, closed for good, executed by several workers | |
| `JobPoller` | poller.ts with createJob, dispatch and cancellation | `JobPollerProofs` |
| `LxdInstances` | requests, handlers and monitors of instances, with LXD and a plain job queue | `LxdInstancesProofs` |
| `DriveTree` | driveCore, with file entries, objects and WebDAV's calls | `DriveTreeProofs` |
| `Accounts` | users, reset links, roles, registers | `ServerProofs` |
| `Authenticators` | devices, challenges and signed answers | `ServerProofs` |
| `Transformations` | the aggregation of answers (`MCTransformations` gives inputs) | `ServerDataProofs` |
| `Answers` | what roles let a user see, and cached lists and summaries | `ServerDataProofs` |
| `FileStore` | configurations, buckets, objects, entries, uploads and downloads | `ServerDataProofs` |
| `Sessions` | a call from arrival to answer, login, logout, tokens, the log | `SessionsProofs`, carried over by `ServerProofs` |
| `Relays` | a web socket relayed to an instance | `ServerProofs` |
| `Proxies` | HTTP proxies and their caches | `ServerProofs` |
| `Leases` | quota and life spans of instances | `LeasesProofs`, carried over by `ServerProofs` |
| `LogThrottler` | repeated errors of the monitor | `ServerProofs` |
| `LogSummaries` | statistics of the log of calls | `ServerDataProofs` |
| `WebDav` | the file system shown of drives and studies | `ServerDataProofs` |
| `Enrolments` | the browser's list of users with an authenticator | `ServerProofs` |
| `Server` | the sum of the last thirteen | `ServerProofs`, `ServerDataProofs` |

`MC*` modules extend the specification of the same name with symmetry sets, values
that a `.cfg` cannot write, and the statements that the code departs from.

`Server` puts together thirteen parts that share no state with each other: `part`
names the one that runs, the variables of the others are `Null`, and a property of a
part is evaluated where it runs. A product would only multiply states; the sum lets
one run check them all and one specification state what is proved of them. What the
parts do share is in one module where they meet: roles with users in `Accounts`,
WebDAV's calls and file entries in `DriveTree`, jobs and documents in `LxdInstances`.
The parts' constants meet `ConstantsOK` of their modules, which `Server` assumes.

Definitions headed *Mutant of X* are no part of a specification. Each is X with a
plausible slip (a filter forgotten, a status not reset); put in the place of X it must
break the property named for it in `PROJECT.json`, which shows that the property
depends on that piece of code.

To repeat the checks, in this directory: `tlc -config MCServer.cfg MCServer`
(the runs of `PROJECT.json` name module and configuration) and
`tlapm ServerProofs.tla`, which takes some ten minutes, as `ServerDataProofs` does; the
other proofs take less.

## The models

In all of them a request is a record of the step it is at with the local variables it
carries over an `await`; each database call is one atomic step (`updateMany`
included); a failure may come at every step; `MaxBegun`, `MaxFaults` and the like bound
how many requests begin and how much fails.

### StudyVersions

One study. Documents are identified by their creation time: the clock ticks at each
insertion, so there are no ties (the unique indexes of the collections reject most of
them). `data`, `fields`, `cold`, `cache` are sets of documents, `study` the study
document; `mgr`, `wrt`, `rdr` hold how far each request has come.

| action | code |
|---|---|
| CreateDataVersion … PublishVersion | `createDataVersion`, one action per database call: read and check the name; stamp clips; stamp fields; outdate the cache and open the cold cursor; a bulk of cold copies; push the version and increment the index |
| FailVersion | a call rejects or the server stops, at any point of the above |
| SetCurrentRead/Write | `setDataversionAsCurrent`, index computed on the study as read |
| DeleteStudy, DeleteStudyFields, DeleteStudyData | `deleteStudy`, three updates |
| CreateField, EditField, DeleteField, InsertField | field dictionary: check, then insert an unversioned document |
| UploadData, InsertClip, DeleteData, InsertMarker | `uploadData`: check study and field, stamp the time, execute the bulk later; `deleteData` |
| ReadStudy, ReadData, FillCache | `getStudyData` with `useCache`: study, documents, cache entry |

Abstractions: clips are told apart by field and one property; a clip's value is "a
value" or "null" (the deletion marker); permissions are granted (see `Answers`); the
cache is that of the default query; a request uploads one clip. `batch` in CopyBatch
is any batch the cursor may return, and the unordered bulk may write clips of one key
in any order. What it promises is `VersionLog`: a list of ids, each with a set of
documents, which grows at its end and never changes otherwise. `StudyVersions`
implements it by `published <- ` ids of the list, `content <- ` stamped documents by id.

### JobPoller

`jobs` is the collection, with histories reduced to the numbers of successes and
failures; `slot[s]` is a call of `checkForJobs` with the copies it works on; `now` is
the clock. `settled` counts written results, for the properties only.

| action | code |
|---|---|
| CreateJob, CancelJob | `createJob`; the `updateMany` of `deleteInstance` |
| FindNextJob | `findNextJob`: find and filter are merged, the sort has no effect on the database |
| ClaimJob | the `updateOne` that moves a recurring job's time |
| ActionReturns, ActionThrows | `dispatch`: an answer of any outcome; an exception only without a handler |
| ReadHistory, WriteResult | read the history, write the whole result |
| WriteFailure | the catch, which rewrites the history from the job as picked |
| CallRejects, Crash | a rejected database call at each place where one can occur; a stop and restart of the executor |
| Tick | time |

Counters saturate at `MaxCount` instead of growing. `Slots` bounds how many calls
overlap (unbounded in the code, since the timer does not wait). `editJob` has no
callers and is left out. `JobLedger` forgets histories and times, and keeps that
nothing begins on a closed job and that what is closed stays so, for every one-off
job. It does not hold for recurring jobs: see [divergences](#divergences).

### LxdInstances

Documents, containers by name, one-off jobs in order of creation, the two recurring
jobs of a user, and the progress of requests and handlers. Jobs are picked by
priority, stay PENDING while executed and may be executed by several workers at
once, as `JobPoller` shows; attempts, histories and times are left out, FINISHED and
ERROR are one status DONE since neither is picked again.

| action | code |
|---|---|
| CreateInstance, StartStop, EditInstance, DeleteInstance, FindExpired, StopExpired | `instanceCore.ts`; each writes the document (an edit any status it is given), then |
| PostJob, CancelJobs | creates the job and, for a deletion, cancels the others |
| RefreshMonitor | `getInstances` creating the recurring jobs that are not pending |
| RequestDies | a request ends between two database calls |
| PickJob, Report | the scheduler |
| BeginCreate, PostCreate, PollCreate, WaitStopped, WriteStatus | `lxdJobHandler.create` and `lxdPollOperation` |
| Switch, UpdateConfig | start/stop handler; update handler, which touches neither document nor container's state |
| BeginDelete, CallDelete, RemoveDoc | delete handler |
| BeginScan, ReadState, RecordState | instance monitor |
| BeginSync, SyncDeletion | deletion sync |
| EndRecurring | both write their own job back to PENDING |
| DirectCall | `lxdProcedure.ts`: a container is made, switched or destroyed without a document or a job |
| LxdMakes, LxdFails, Crash | LXD completes or fails an operation; a call to it fails; the executor restarts |

Abstractions: an operation "container already exists" is answered at once; LXD
deletes running containers with `force`; picking and claiming a recurring job is one
step; ports and metadata are left out, and so is what an edit writes beside the status
(its updates are passed through, so they could rename a document).
PostCreate has the answer without an operation: the manager lets every status below 500
pass (`lxdManager.ts:94`), and `create` looks for errors only in an answer that has one
(`lxdJobHandler.ts:73`), so a refusal ends the job as a success. `lost` marks instances
whose create request died before its job was there, whose container was refused, whose
polling was given up, or that an edit set to PENDING: for those no job is promised.
`edited` marks those that an edit set to DELETED.

### DriveTree

`drives` maps an id to its document (parent, children, path, owner, sharing list,
file, whether it is deleted), `files` to the entry of `files_collection`, `stored` is
the object store. A request is a procedure of `DriveRouter` (`Ops`) or a call of
WebDAV (DavDelete, DavMkcol, DavWrite).

| action | code |
|---|---|
| CreateDrive, UploadTree, NextPart, FindParent | `createDriveFolder`, `createDriveFile`, `createRecursiveDrives`: checks, then part by part of a path |
| PutObject, InsertEntry, InsertDrive, PushChild | object, entry, document, the parent's `children` |
| Visit | one look-up of `recursiveFindDrives` |
| EditDrive … SetDrive, UpdateFound, LinkParent, RepathFound | `editDrive`: the drive, those below it, the new parent, paths of the children |
| ShareDrive, NextShare | `shareDriveToUserViaEmail` |
| CopyDrive, PasteCopies | `copyDrive` |
| DeleteDrive, MarkDrives, MarkFiles | `deleteDrive`: walk, then drives, then files |
| Fail, Restart | a rejected call; the server stops |

Abstractions: RepathFound and PasteCopies write their drives in one step; an upload
of folders brings one path. `unlisted` names the drives that their request did not
enter in their folder (it died before, or was a copy).

### Accounts, Authenticators, Enrolments

`Accounts` keeps `users`, reset links (`tokens`), drives and configurations by user,
`roles` and the registers. Creation is InsertUser, InsertDrive, InsertConfig,
MailWelcome; deletion MarkUser, PullRoles; a reset RequestReset, Invalidate, PushToken
and UseLink, ResetSecret, MailSecret; AddRole, SetRole, DropRole, JoinRole write
roles; EnterEntry, Relabel, Unlist write organisations, domains and public keys. The
unique indexes are in `Taken` and `Used`. Pictures, profiles and names are left out.
`alone` marks a request that no other overlapped, `mixed` a role whose list was
written from a copy that overlapped another request, `unpulled` a user whose deletion
died before the roles. AddRole and SetRole take any users, live or not, since nothing
looks the ids up (`permissionCore.ts:167`, `:223`); `strangers` keeps who was put on a
role in this way without being live when the request began.

`Authenticators` has a list of documents per user (no index keeps it to one), the
options asked for, and the answers that devices have signed and that arrive in any
order. HandleRegistrationVerify and HandleAuthenticationVerify read and verify;
AddDevice, SetCounter and RemoveDevice write the whole list as it was read.
`expected` is the list that the finished requests amount to, `clash` the users two of
whose requests overlapped. UpdateWebauthnDeviceName is one step.

`Enrolments` is the browser: `stored` in local storage, a tab's own list
(`credentials`), its cached answers and what its handlers hold, and the documents at
the server. Go, WhoAmI, LogIn, LogOut, Authenticate, AskWebauthn, ActOnAnswer,
Register, Prompted, Verified, Known, FetchWebAuthnID and HandleDeleteDevice are the
handlers and effects of App, Fence, LoginBox and dmpWebauthn; Elsewhere is a device
removed from another browser. SetCredentials gives the tab its list first; the
storage may then refuse it, which is only reported (`useLocalStorage.ts:47`). `missed`
keeps the users taken off the stored list by a tab that did not know of them or acted on
an answer out of date, `unsaved` those on a list whose write was refused.

### Answers and Transformations

`Answers`: an archive of clips, roles with their permissions, and the cache.
DataByRoles, StudyFields, GetStudyFiles and GetStudySummary follow the code's
expressions; ReadFields, ReadFiles, StoreFiles, Count and StoreSummary are the steps
between which InsertClip, OutdateFiles, DeleteData and SetRole come. A regular
expression is the set it matches. `Transformations`: each of the ten operations is an
operator on sequences of clips, TransformationAggregate runs the pipelines of a
request on the same objects; values are pairs of a type and a content.

### FileStore

`configs` are the configurations, `files` the entries, `clips` the files that a clip
of a study names, `objects` pairs of bucket and file (`Server` calls three of the
variables settings, filed and transfer). ReadConfig, FindBucket, MakeBucket, PutObject, InsertFile are an upload;
CheckStudy and InsertClip come before and after for study data, and the direct upload
of the REST server puts InsertClip before InsertFile; SetProfile ends an edit of a
study; DeleteStudy, MarkFiles, MarkConfigs delete one; EditConfig and CreateConfig
change settings. A download goes to the bucket that the settings name at that moment
(`Retrieved`). `lost` names the files whose request died.

### Sessions

Arrive, DeserialiseUser, TokenAuthentication, UserRetrieval, GuestProtection, Handle,
Log, LogAgain, LogFails, Answer: the middleware of `router.ts` and `middleware.ts` in
its order. Handle has the handlers of accounts step by step (Login, OpenSession,
Logout, FindUser, FindKey, SetChallenge, GiveToken …) and all others as calls that
succeed or fail. Users are renamed and deleted, keys deleted and tokens lapse between
any two steps. `known` is who was live when the request arrived, `closed` the cookies
whose session was closed.

### Relays, Proxies, Leases, LogThrottler

`Relays` is one connection of one of three kinds (terminal, Jupyter, MATLAB): two
sockets, a line of messages in each direction with the buffer, the sends under way
and what was put on the other socket. Sockets pause, resume, close and fail as those
of the library `ws` do.

`Proxies`: a request checks the owner, finds a cached proxy or reads the target and
makes one; CleanupProxyCaches runs at each interval. `Leases`: GetInstances (with its
expiry), Listed, CreateInstance, ExtendInstanceLifespan (find, then update),
RestartInstance, EditInstance and the rest, with `tasks` the requests; `crossed` marks
an instance restarted between the two halves of an extension, `revived` one started
again after its deletion. `LogThrottler`: `records` as in the code, with `told` and
`since` (the last occurrence with its cause, the last success) for the properties.

### LogSummaries and WebDav

`LogSummaries`: EventStatistics and RequesterStatistics are the two aggregations,
LogCall and Tick go on between them. `WebDav`: AllPaths, ReadDir and PathExists are
`convertToWebDAVPaths`, `_readDir` and `_fastExistCheck` as operators over any
drives; the operations look a path up, and call the drive's handlers after the tree
changed in between.

## Runs

| run | bounds | shows |
|---|---|---|
| study_versions | 2 managers, 1 writer, 1 key, 3 documents, 2 versions, batches of 2 | TypeOK, CurrentIsListed, NoOrphanVersion, VersionedDataHasVersionedField, ColdCovers, ColdIsCopy and the refinement ImplementsVersionLog, with two creations, selections and a deletion of the study racing |
| study_live | 1 manager, 1 writer, 1 reader, 2 documents, 1 fill | CacheOutdatedByVersion and, fairly, StampedIsPublished |
| job_scheduler | 2 one-off jobs, one without handler, 2 slots, 1 fault, 2 attempts | TypeOK, AttemptsBounded, NeverOvercounts, ImplementsLedger |
| job_settles | the same and a recurring job, 1 fault | UrgentSettles: beside a job that is always available, one-off jobs are settled |
| job_claim_retry | 1 job, 1 slot, no fault | that ErroredJobRetried fails |
| lxd_instances | 1 instance, 2 clients, 2 workers, 2 jobs, no fault | TypeOK, RemovalWasAsked and, fairly, StatusConverges, with handlers that write over each other |
| lxd_repairs | 1 instance, 2 clients, 1 worker, 2 jobs, 1 fault, 1 direct call | DestructionWasAsked, PendingHasJob and, fairly, DeletedIsCleaned after a fault and a call behind the document's back |
| lxd_claim_removed | as lxd_instances | that RemovedMeansDestroyed fails |
| drive_tree | 3 drives, 2 users, 2 files, 2 requests at a time and 3 in all, 1 fault; half a million states | TypeOK, FileKept, ChildrenComplete, DeletionComplete |
| drive_claim_tree | 4 requests one after another | that RemovesOnlyWithin fails |
| server | each of the thirteen parts with two requests, tabs or sockets at a time, two or three requests in all, 1 fault; the numbers are in `MCServer.cfg`; a million states | PartsTypeOK; ResetsOnce, RolesListLive (Accounts); DevicesKept (Authenticators); AggregationsRight (Transformations); AnswersAgree (Answers); FilesReadable (FileStore); CallsAccounted, LogoutIsFinal (Sessions); RelaysDeliver (Relays); ProxiesExpire (Proxies); LeasesBounded (Leases); ErrorsTold (LogThrottler); SummariesAddUp (LogSummaries); PathsAgree (WebDav); StaysOffered (Enrolments) |
| accounts_claim | 2 requests | that MailedSecretIsCurrent fails |

Why the bounds are enough: a race needs two actors, so every role that races has two,
and the third actor would only repeat one of the steps; two versions are needed to
see one frozen while another is made; three documents give a field, a clip and a
change of one of them between two steps; a batch of two with three clips has a
complete batch, an incomplete one and one key within a batch. Two one-off jobs
differ in having a handler; two slots give overlapping executions of one job and
execution of different jobs at once. One instance and two jobs give a deletion racing
a creation, a start or a stop, or an edit of its status racing any of
these, each possibly executed twice. Overlapping calls of the executor and faults are
looked at in a run each, as liveness of both together is too much to check; safety is
proved of them together, and of any number of requests, calls and faults. Three drives are a root,
a folder and what is in it, two of which can change places. In `Server` two requests
overlap and a third begins in the state they left; the exceptions are named by the
properties (`clash`, `mixed`, `strangers`, `missed`, `unsaved` …) and are reached. In job_settles counters
saturate at 1 and no attempt is repeated: the property distinguishes only whether the
attempts are used up. What holds beyond these bounds is what is [proved](#proofs).

The bounds stop requests (no more times, versions or jobs), so a state may be without
successor: that is why deadlock is not checked. Symmetry is over managers, slots,
requests and interchangeable ids, and is used in safety runs only.

## Fairness

- *StudyVersions*: weak fairness of the steps of a request that has begun. The event
  loop continues each promise and the driver answers or rejects. Rejection is an action
  (FailVersion), not assumed away. Nothing makes requests begin.
- *JobPoller*: weak fairness of each call's own steps and of polling in each slot: the
  interval timer fires every 10 seconds for as long as the executor runs, and each
  handler bounds its waiting (`lxdPollOperation.ts` gives up after 50 tries). Cancelling,
  creating, time, rejections and crashes are not fair; faults are bounded.
- *LxdInstances*: the same, and: LXD ends an operation it has begun (weakly fair, with
  either outcome); the open instances page asks for the instances every two minutes
  (`itmat-ui-react/src/components/instance/instance.tsx:44`), so RefreshMonitor is weakly
  fair; the two recurring jobs have one priority and the scheduler takes the one with
  the earlier next execution time, which is moved each time a job is picked, so
  each gets its turn whenever no one-off job is waiting: strong fairness of BeginScan
  and BeginSync.
- The other modules state no fairness: what is asked of them is safety.

## Proofs

Every theorem holds for all values of the constants: any fields, users, requests,
slots, jobs, instances, drives, and any bounds. The assumptions are those named in the
modules (`ConstantsOK`, or an ASSUME): sets from which a default value is chosen are
not empty, numbers are natural, `Null` is none of the values it stands beside,
`MaxAttempts < MaxCount`, one-off and recurring jobs are different, a name is given to
each instance, a set of requests is finite where it is counted.

| module | theorem | statement |
|---|---|---|
| StudyVersionsProofs | TypeCorrect | `TypeOK` |
| | CurrentCorrect | `CurrentIsListed` |
| | NoOrphanCorrect | `NoOrphanVersion` |
| | VersionedFieldCorrect | `VersionedDataHasVersionedField` |
| | CacheCorrect | `CacheOutdatedByVersion` |
| | ColdCopied, ColdCovered | `ColdIsCopy`, `ColdCovers` |
| | LogImplemented | `ImplementsVersionLog` |
| JobPollerProofs | TypeCorrect | `TypeOK` |
| | AttemptsCorrect | `AttemptsBounded` |
| | CountsCorrect | `NeverOvercounts` |
| | LedgerImplemented | `ImplementsLedger` |
| LxdInstancesProofs | TypeCorrect | `TypeOK` |
| | RemovalCorrect | `RemovalWasAsked` |
| | DestructionCorrect | `DestructionWasAsked` |
| | CreationIsAwaited | `PendingHasJob` |
| DriveTreeProofs | TypeCorrect | `TypeOK` |
| | FilesKept | `FileKept` |
| | ChildrenStayComplete | `ChildrenComplete` |
| | DeletionsComplete | `DeletionComplete` |
| LeasesProofs | LeasesAreTyped | `TypeOK` of Leases |
| | LeasesStayBounded | `LeasesBounded` of Leases |
| SessionsProofs | CallsAreTyped | `TypeOK` of Sessions |
| | LogoutStaysFinal, CallsAreAccounted | `LogoutIsFinal`, `CallsAccounted` of Sessions |
| ServerProofs | LeasesStayBounded, LogoutStaysFinal, CallsAreAccounted | the same of `PartsSpec` |
| | ProxiesDoExpire | `ProxiesExpire` |
| | LastingErrorsTold | `ErrorsTold` |
| | DevicesStayKept | `DevicesKept` |
| | RelaysDoDeliver | `RelaysDeliver` |
| | LinksResetOnce, RolesKeepLive | `ResetsOnce`, `RolesListLive` |
| | EnrolledStayOffered | `StaysOffered` |
| ServerDataProofs | PartsAreTyped | `PartsTypeOK`, the types of all thirteen parts |
| | FilesStayReadable | `FilesReadable` |
| | PathsDoAgree | `PathsAgree` |
| | SummariesDoAddUp | `SummariesAddUp` |
| | AnswersDoAgree | `AnswersAgree` |
| | PipelinesStayApart | `PipelinesApart`, of `AggregationsRight` |

Next to none of these properties is inductive. The strengthenings, which TLC checked
as invariants before they were proved:

*StudyVersions.* `VersionsInv`: a version id belongs to at most one request in flight,
and to none once it is listed or given up (without it a second publication, or a stamp
with a listed id, could not be excluded). `IndexInv`: an index a manager is about to
select lies in the list. `FieldSeen`: a clip which is not a marker, or is about to be
inserted, has a document of its field, so that stamping clips before fields leaves the
field to be stamped. `TimesInv`: creation times identify documents, which makes the
content of a version comparable before and after a step; the refinement follows from
the two (publishing appends, every other step stutters). `CacheInv`: once a version has outdated the
cache, every entry still in use was inserted after the version had its id. `ColdInv`: what
waits to be copied shows stamped clips as they are. `CoverInv`: while a request copies, each key
of the clips it stamped is in cold storage or waits in its copies; as an id belongs to
one request, nothing is stamped with it after the copies were read.

*JobPoller.* `AttemptsBounded` is inductive together with `PickedBelow`: an execution of a
job without handler works on a copy picked below the limit and can only throw, so what it
writes is at most one above, even if several do so. `NeverOvercounts` needs
`CopiesBounded`, the same bounds for every copy held by a call; what has been settled only
grows, so a copy stays within the bounds while others write. The refinement needs
`ClaimsRecurring`: the claim, which sets PENDING unconditionally, is only ever made
for a recurring job; every result of a one-off job is FINISHED or ERROR.

*LxdInstances.* `RemovalWasAsked` is not inductive, since a status seen as DELETED may be
overwritten before the handler acts on it, and an edit may write DELETED. `AskedInv` speaks
of `life.deletedTime`, which only a deletion writes and nothing resets: what a delete
handler works on is doomed, and what the deletion sync works on is doomed or `edited`
(`Marked`). `DestructionWasAsked` follows step by step: only these two and a direct call
destroy containers. `AwaitInv` carries `PendingHasJob`: jobs, requests and handlers name
instances whose document was inserted (`JobsBegun`, `ClientOK`, `WorkerOK`), a job that
is not a creation, and a handler past its first step, belong to one that has left
PENDING or is `lost`, and no step sets PENDING again but an edit, which loses it.

*DriveTree.* Documents are never taken out, only marked (`Kept`), so what a request
remembers stays true: `Shape` says which steps a request of each kind can be at and that
what it holds exists. `FileInv` carries `FileKept`: a file that is stored and not yet
named belongs to one request (`HoldersApart`) and to no drive (`Holding`), two drives
name different files (`DrivesApart`), and a deletion that marks files has marked its
drives before (`Marked`). `ChildrenComplete` needs that a PushChild under way is its
drive's own (`StaysListed`, `PendingDone`). `DeletionComplete` is about a deletion that
nothing overlapped: `Closed`, its walk has in each drive it found the children that drive
has now, or has them still to visit.

*Leases.* The quota: the set `Admitted` of requests that may still create on the
strength of a list they have read; instances and `Admitted` together stay below the
quota plus the number of requests (`QuotaKept`), since a list is read whole and at that
moment every other request may be admitted too. Lives: `LivesKept`, what an extension
read is what is there (`Reading`), or the instance was restarted since.

*Sessions.* `Fine`, of one request:
what it holds of accounts was live when it arrived, by the step it is at; `Opened`:
cookies in the hands of requests were opened. A session closed is never opened again
since a cookie is new when it opens one. The window of a one-time code is arithmetic.

*Server.* A step of `PartsSpec` is a step of the part that runs or leaves its variables
alone; this is shown once for each part. For Leases and Sessions their own proofs are
instantiated, the others have their invariants here:

- *Throttler* (`ThrottlerInv`): what was told of an error last is what its record says,
  or is less than an interval ago by the options it occurred with.
- *Proxies* (`ProxyInv`): a proxy that outlived the last cleaning was used less than
  TTL before it, and a cleaning comes within TTL (`Survivors`).
- *Authenticators* (`DevicesInv`): what a handler read is what is there (`HandlerOK`),
  unless another request of the user ran (`AloneOrClash`).
- *Relays* (`RelayInv`): a line of messages in each direction has put what its buffer
  no longer has: the next to go is `Base`, said less waiting, and what was put last is
  near it (`Near`); a buffer is empty or a send is under way that comes back for it
  (`Flushed`), by the state of both sockets (`Ready`).
- *Accounts* (`AccountsInv`): documents a step names are made (`Sound`); a list read by
  a request that nothing overlapped is still current, and those it will put on a role are
  live or its strangers (`AloneOK`); a link still open has
  reset nothing (`TokensOnce`), which the update tests again although the look-up came
  before.
- *Enrolments* (`EnrolmentsInv`): a tab with an answer to act on has it, and a
  registration under way is some user's (`FitTab`); who is enrolled has a device of this
  machine, so that neither an answer nor a list up to date takes the user off; and a write
  leaves each who was on the list before on it, or among `missed` or `unsaved`
  (`WriteKeeps`).
- *FileStore* (`FilesInv`): the bucket of an upload is the one a download will go to
  (`Home`), the object is put before the entry (`Formed`, `Placed`), uploads under way
  have different files without entries, and live configurations for CACHE and DOMAIN
  keep the bucket the defaults name, since edits match the type of a configuration.
- *Answers* (`AnswersInv`): what more roles answer and what cold storage answers follows
  from the clips alone (`MoreRoles`, `ColdAlike`; the second needs that a published clip
  has a published field, which StudyVersions shows). A list under way that no edit of a
  role or upload overlapped was begun for the permissions of the moment and has what
  they show (`FileListOK`, `EntryOK`); a count that was made lacks at most the clips that
  came since its summary was begun, and none of those is published (`CountsOK`), so that
  the differences a summary shows are within what came meanwhile.
- *WebDav* (`DavInv`): every document keeps a path of nodes. The rest is about the
  operators: listing and look-up read the same set of paths, a path made of names is
  there as far as a longer one is (`NextPartThere`, `FrontThere`), and an owner with
  something to see has one. The three reserved names must differ, as they do in the code.

- *LogSummaries* (`SummaryInv`): the days of a requester are the classes of the calls
  logged before the summary was asked for, and the classes of a finite set add up to it
  (`ClassesAddUp`, by one-to-one correspondences, since an induction on the days is out
  of reach); a call logged later falls beyond the last day (`Quotients`).
- *Transformations* (`PipelinesInv`): the pipeline under way has made what it would
  have made alone up to here (`Halfway`), if nothing changed the objects before; only
  AFFINE changes them (`OthersLeaveObjects`). What a pipeline makes alone is defined
  operation by operation (`Course`), which has an instance of any length since a shortest
  length without one is absurd (`CourseExists`).

*The types of the parts* (`PartsAreTyped`). For Accounts, Authenticators, Answers,
Leases and Sessions their invariants above say nearly all. Elsewhere the types needed one of
their own, since what a type says of a record holds at some of its steps only because of
the ones before:

- *Proxies*: `VisitOK`, a request under way has an instance and a kind, and a target
  once one was found.
- *LogThrottler*: a record counts no more occurrences than there were, which are bounded.
- *FileStore*: `Aimed`, an upload on its way to the store is bound for a bucket, which
  is there when the object is put, as no step removes one; only the configurations of
  studies name no bucket (`BucketsNamed`), and an upload to a study goes to the study's.
- *LogSummaries*: the parts of a summary are numbers of calls that are in the log.
- *WebDav*: whoever calls is a user still (`CallersAreUsers`), so that what is opened or
  asked for is a node of the drives; *Relays* and *Enrolments*: lines, tabs and lists
  change within their types.
- *Transformations*: an answer keeps its number of clips, since only AFFINE replaces
  objects, one for one (`AffineKeepsNumber`), and there are no more results than pipelines.

Proving corrected the models in two places. In Enrolments an effect was left to run on
the answer for a list that the tab had meanwhile replaced; it now waits for an answer
for the new list, as the query's key makes it do. And the assumptions on constants of
several parts did not exclude that `Null` is one of the values it stands beside, nor say
that an answer is a sequence of clips. The runs were repeated with the corrected models.

Only model-checked: liveness (StampedIsPublished, UrgentSettles, StatusConverges,
DeletedIsCleaned) and everything about ENABLED, which the prover does not treat; and of
`AggregationsRight` the parts `VersioningIsLatest` and `NothingLost`. These say what folds
over the clips compute, which is induction over data; and they are not true of all
constants: the code joins the texts of a group's keys (`GroupKey`), so that a number and
its text, or two texts of which one has the separator, fall into one group; DECONCAT
takes apart whatever array a clip had before CONCAT; and DEGROUP without targets keeps
nothing of a clip. They are properties of the clips and pipelines of `MCTransformations`.

## Divergences

Four runs show that the program departs from what its own comments say (they are
listed under `findings`): a failed one-off job is never retried (`poller.ts:71` against
`poller.ts:73` and `poller.ts:134`); an instance's document is removed although LXD did
not delete its container (`lxdJobHandler.ts:274` against `:279`); a deletion in the drive
removes what was moved out of the folder before (`driveCore.ts:761`); a password reset
mails the secret of the document before the change (`userCore.ts:1102`, `:1402`).

Reading the code for the model brought up the following as well. They are stated here
without a run: they lie outside what the modules keep, or need no model to be seen.

*Study data*

- Cold storage, which answers the latest data of a study (`dataCore.ts:855`), gets the
  markers of deleted clips as live documents (`studyCore.ts:448`).
- Two overlapping creations list one version string twice (`studyCore.ts:384`, `:387`).
- A creation that stamps nothing lists an empty version all the same
  (`studyCore.ts:485`–`495`); `types/study.ts:5` has -1 for "no data".
- A version made after an older one was selected is not read: the index is
  incremented from the older one (`dataCore.ts:71`).
- An answer computed while a version is made stays in use after it, without the
  documents of that version (`studyCore.ts:413`).
- A deleted field may still be edited (`dataCore.ts:317`), and clips arrive in a study
  deleted meanwhile (`studyCore.ts:334`).
- `checkFieldOrDataPermission` joins permissions on data by "and" where `permission.ts`
  has the comment `// or`; a role without permissions may write everything, and one with
  an empty list of fields answers nothing; `deleteData` does not look at the result.
- `getStudyData` caches what it answers before transformations; keys of the cache lack
  roles and version for some queries; the list of files is outdated by uploads, not by
  deletions.
- `keepFlattened` does the opposite of its documentation (`transformationCore.ts:467`
  against `:503`); TYPECONVERSION takes the value for its type; examples in comments use
  names of operations that do not exist.

*Jobs and instances*

- Recurring jobs are available at each poll, whatever their next execution time
  (`poller.ts:131` against `jobCore.ts:18`), and one cancelled while it runs becomes
  PENDING again (`instanceCore.ts:412`); one-off jobs of the default priority wait behind
  them (`jobCore.ts:18`); overlapping executions lose entries of a history
  (`types/job.ts:81`).
- Two overlapping deletions of an instance cancel each other's delete job
  (`instanceCore.ts:412`); the deletion sync then removes the container, not the document.
- Errors of LXD below 500 are answers, not exceptions, so that branches for 404 are never
  taken (`lxdManager.ts`), nor the deletion sync's second case (`lxdMonitorHandler.ts:241`).
- A container that LXD refuses with a status below 500 ends the create job as successful
  (`lxdManager.ts:94`, `lxdJobHandler.ts:73`, `:168`): the instance stays PENDING with no
  job, although the comment at `:137` has it set to failed. PendingHasJob names the case.
- `editInstance` writes any status it is given (`instanceCore.ts:645`): DELETED has the
  deletion sync destroy the container without a deletion, PENDING waits for no job. The
  procedures of `lxdProcedure.ts` destroy a container whose document stays.
- Ports are checked, then used in a later call. An edit changes limits without a look at
  the quota; an omitted number of CPUs counts as none and is stored as four.
- A start, a restart or an edit of a DELETED instance revives it; an extension that
  overlaps a restart adds to the old life span.
- `clearProxyCacheForInstance` has no caller (`lxd/index.ts:684`), so a cached target
  outlives a change of address while it is used; two first requests make two proxies.
- The terminal's relay may deliver one message twice in a row, when a send fails or when a
  second message comes while the first one's callback is outstanding; it loses
  the last output when the container closes first, and keeps a container's socket that
  was still connecting when the client closed.
- Calls logged while a summary is made count in its totals and belong to no day.

*Drive, files, settings*

- A move leaves the drive in the old folder's children and does not test for cycles or
  types; descendants' paths are then out of date; copies have no entry of their own in
  `files_collection`; the condition `el.iid === requester` (createDriveFile) never holds.
- The root can be moved and then deleted, despite the message "Protected folder could not
  be deleted" (`driveCore.ts:24`).
- The used space of a user's files is computed as zero (`fileCore.ts:70`): a cursor is
  read without `toArray`.
- The direct upload looks for the study's configuration before it knows the study
  (`commonMiddleware.ts:56`), stores the object before any check, and inserts the clip
  before the entry; two first uploads race on `makeBucket`; an edit of a study whose
  upload fails sets back the profile it read; files that are uploaded while a study is
  deleted stay.
- The schemas of tRPC omit settings (`defaultLXDflavor`, `jobSchedulerConfig`), which are
  dropped on the way; `createConfig` does not compare the type.
- WebDAV: `isCopying` is shared by all requests and makes every path of My Drive exist
  until some stream opens; Copy and Move compare parts of a path with characters of ids;
  listing a shared directory does not answer; a read fetches a relative URL; a look-up
  throws when a path names a node the user does not see; every user has a My Drive in the
  root's list.

*Accounts, authenticators, sessions*

- A role is given any user ids, none is looked up (`permissionCore.ts:167`, `:223`), so
  it may list users who were deleted or never were.
- When the browser's storage refuses a list, the tab has it and says so, and the page loads
  without it the next time (`useLocalStorage.ts:47`–`57`).
- Unique indexes count deleted entries; `deleteUser`'s transaction does not contain its
  updates (`userCore.ts:647`); `addGuestUser` finds deleted users; `createUser`'s three
  inserts may end between two.
- A challenge is never cleared. A user already on the browser's list who registers a new
  device is told 'Authenticator ID is undefined.'; the page's comment "Clear and set
  unique webauthn_ids" stands over code that adds only; a list that failed to load clears
  the storage; tabs overwrite each other's lists.
- A session follows the name of its user; the life of a token is passed in seconds where
  it is written in milliseconds; refusals of guests are not logged, nor is
  `data.uploadStudyFileData`; a download is logged as a success before its object is
  fetched; errors in the callbacks of login and logout are never answered.

## Not modelled

Standardisation is a placeholder by its own comment (`standardizationCore.ts:11`), and
`utils/query.ts` is used by nothing the API offers. Database set-up is in the initial
states and unique indexes of the models. Host ports, cloud-init, flavours and the calls
of `lxdManager` and `lxdProcedure` that only show something or set limits (those which
make, switch or destroy a container are DirectCall); the verification of values,
`editStudyVisibility`, profile pictures and logos; filters of `getLogs`; schemas of
inputs, static files, headers and rate limits; signatures and hashes, which turn out
right or wrong; and the rendering of the web interface are left out. `FileCore.deleteFile`
and `JobCore.editJob` have no caller.
