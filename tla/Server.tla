------------------------------- MODULE Server -------------------------------
(***************************************************************************)
(* The parts of the servers, and of the browser, that share no state with   *)
(* each other.  A behaviour is one of a single part, the variables of the   *)
(* others are Null: states of the parts add up and do not multiply, and a   *)
(* property of a part is evaluated where that part runs.                    *)
(***************************************************************************)
EXTENDS Naturals, FiniteSets

CONSTANTS
    Requests,                       \* requests under way at the API server
    MaxBegun, MaxFew, MaxFaults,    \* bounds on requests and failures
    Null,
    \* Accounts
    People, Seeds, SeedName, SeedMail, Names, Mails, Tokens, Roles, Entries, Labels,
    \* Authenticators, and the users of FileStore, Sessions and Proxies
    Users, Devices, Counting, MaxAsked, MaxSigned,
    \* Transformations
    Inputs, Plans,
    \* Answers, and the users of WebDav and Enrolments
    Everybody, Subjects, Fields, FileFields, Defined, StudyRoles, Members, Managing, Grants,
    Archives,
    \* FileStore
    Bare, Studies, Files, OtherBucket, MaxSize, Default,
    \* Sessions
    Guests, Admins, NameOf, Pubkeys, HolderOf, Cookies, MaxChanges,
    \* Relays
    MaxSaid,
    \* Proxies and LogThrottler
    Boxes, OwnerOf, Targets, TTL, MaxTime,
    Usual, Patient, Location, Aggregate, MaxNow, MaxOccurred,
    \* Leases
    Leased, Quota, Enough, MaxLife, MaxMore, MaxHeld,
    \* LogSummaries
    Events, Requesters, Day, Days, MaxLogs, MaxHours,
    \* WebDav
    Nodes, Words, MyRoot, SharedRoot, StudyRoot, FullName, Titles, Paths, Documents, IsFile,
    MaxCalls, MaxChanged,
    \* Enrolments
    Tabs, MaxClicks

VARIABLES
    part,
    users, tokens, drives, configs, roles, entries, mailed, secrets, req, begun, faults, resets,
    unpulled, mixed, strangers,                                            \* Accounts
    webauthn, asked, signed, answers, ceremony, wfaults, expected, clash,  \* Authenticators
    plan, given, clips, todo, current, results, refused,                   \* Transformations
    archive, permissions, cache, inquiry, inquiries,                       \* Answers
    settings, studies, files, filed, buckets, objects, transfer, transfers, ffaults, lost,
                                                                           \* FileStore
    people, pubkeys, access, sessions, call, calls, changes, sfaults, opened, closed,
                                                                           \* Sessions
    kind, stage, socket, reading, timer, line,                             \* Relays
    instances, monitors, caches, visit, now, cleaned, visits, moves,       \* Proxies
    leases, posted, tasks, time, started, died, crossed, revived,          \* Leases
    records, minute, occurred, told, since,                                \* LogThrottler
    logs, hour, summary, byEvent, byRequester,                             \* LogSummaries
    tree, members, isCopying, asking, stream, requested, changed,          \* WebDav
    machines, session, stored, tabs, enrolled, missed, unsaved, clicks, efaults \* Enrolments

(***************************************************************************)
(* Instances.                                                              *)
(***************************************************************************)
U == INSTANCE Accounts WITH Users <- People

W == INSTANCE Authenticators WITH req <- ceremony, faults <- wfaults

T == INSTANCE Transformations

A == INSTANCE Answers WITH
        Users <- Everybody, Roles <- StudyRoles, MaxBegun <- MaxFew,
        req <- inquiry, begun <- inquiries

F == INSTANCE FileStore WITH
        Elsewhere <- OtherBucket,
        configs <- settings, clips <- filed, req <- transfer, begun <- transfers,
        faults <- ffaults

S == INSTANCE Sessions WITH
        Keys <- Pubkeys, OwnerOf <- HolderOf, MaxBegun <- MaxFew,
        users <- people, keys <- pubkeys, tokens <- access, req <- call, begun <- calls,
        faults <- sfaults

R == INSTANCE Relays

P == INSTANCE Proxies WITH
        Instances <- Boxes, MaxBegun <- MaxFew, req <- visit, begun <- visits, changes <- moves

L == INSTANCE Leases WITH Instances <- Leased, MaxTime <- MaxHeld

G == INSTANCE LogThrottler WITH Instances <- Boxes

Y == INSTANCE LogSummaries WITH asked <- summary

D == INSTANCE WebDav WITH
        Users <- Everybody, MyDrive <- MyRoot, Shared <- SharedRoot, Study <- StudyRoot,
        Drives <- Documents, MaxAsked <- MaxCalls,
        drives <- tree, asked <- requested

B == INSTANCE Enrolments WITH
        Users <- Everybody, docs <- machines, faults <- efaults

\* What the constants are meant to be, part by part.
ASSUME AccountsAssumption == U!ConstantsOK
ASSUME AuthenticatorsAssumption == W!ConstantsOK
ASSUME TransformationsAssumption == T!ConstantsOK
ASSUME AnswersAssumption == A!ConstantsOK
ASSUME FilesAssumption == F!ConstantsOK
ASSUME SessionsAssumption == S!ConstantsOK
ASSUME RelaysAssumption == MaxSaid \in Nat
ASSUME ProxiesAssumption == P!ConstantsOK
ASSUME LeasesAssumption == L!ConstantsOK
ASSUME ThrottlerAssumption == G!ConstantsOK
ASSUME SummariesAssumption == Y!ConstantsOK
ASSUME DavAssumption == D!ConstantsOK
ASSUME EnrolmentsAssumption == B!ConstantsOK

(***************************************************************************)
(* One part runs.                                                          *)
(***************************************************************************)
Parts == {"accounts", "authenticators", "transformations", "answers", "files", "sessions",
          "relays", "proxies", "leases", "throttler", "summaries", "webdav", "enrolments"}

PartsInit ==
    /\ part \in Parts
    /\ IF part = "accounts" THEN U!Init ELSE
         /\ users = Null /\ tokens = Null /\ drives = Null /\ configs = Null /\ roles = Null
         /\ entries = Null /\ mailed = Null /\ secrets = Null /\ req = Null /\ begun = Null
         /\ faults = Null /\ resets = Null /\ unpulled = Null /\ mixed = Null
         /\ strangers = Null
    /\ IF part = "authenticators" THEN W!Init ELSE
         /\ webauthn = Null /\ asked = Null /\ signed = Null /\ answers = Null /\ ceremony = Null
         /\ wfaults = Null /\ expected = Null /\ clash = Null
    /\ IF part = "transformations" THEN T!Init ELSE
         /\ plan = Null /\ given = Null /\ clips = Null /\ todo = Null /\ current = Null
         /\ results = Null /\ refused = Null
    /\ IF part = "answers" THEN A!Init ELSE
         /\ archive = Null /\ permissions = Null /\ cache = Null /\ inquiry = Null
         /\ inquiries = Null
    /\ IF part = "files" THEN F!Init ELSE
         /\ settings = Null /\ studies = Null /\ files = Null /\ filed = Null /\ buckets = Null
         /\ objects = Null /\ transfer = Null /\ transfers = Null /\ ffaults = Null /\ lost = Null
    /\ IF part = "sessions" THEN S!Init ELSE
         /\ people = Null /\ pubkeys = Null /\ access = Null /\ sessions = Null /\ call = Null
         /\ calls = Null /\ changes = Null /\ sfaults = Null /\ opened = Null /\ closed = Null
    /\ IF part = "relays" THEN R!Init ELSE
         /\ kind = Null /\ stage = Null /\ socket = Null /\ reading = Null /\ timer = Null
         /\ line = Null
    /\ IF part = "proxies" THEN P!Init ELSE
         /\ instances = Null /\ monitors = Null /\ caches = Null /\ visit = Null /\ now = Null
         /\ cleaned = Null /\ visits = Null /\ moves = Null
    /\ IF part = "leases" THEN L!Init ELSE
         /\ leases = Null /\ posted = Null /\ tasks = Null /\ time = Null /\ started = Null
         /\ died = Null /\ crossed = Null /\ revived = Null
    /\ IF part = "throttler" THEN G!Init ELSE
         /\ records = Null /\ minute = Null /\ occurred = Null /\ told = Null /\ since = Null
    /\ IF part = "summaries" THEN Y!Init ELSE
         /\ logs = Null /\ hour = Null /\ summary = Null /\ byEvent = Null /\ byRequester = Null
    /\ IF part = "webdav" THEN D!Init ELSE
         /\ tree = Null /\ members = Null /\ isCopying = Null /\ asking = Null /\ stream = Null
         /\ requested = Null /\ changed = Null
    /\ IF part = "enrolments" THEN B!Init ELSE
         /\ machines = Null /\ session = Null /\ stored = Null /\ tabs = Null /\ enrolled = Null
         /\ missed = Null /\ unsaved = Null /\ clicks = Null /\ efaults = Null

\* The variables of each part.
accounts ==
    <<users, tokens, drives, configs, roles, entries, mailed, secrets, req, begun, faults, resets,
      unpulled, mixed, strangers>>
ceremonies == <<webauthn, asked, signed, answers, ceremony, wfaults, expected, clash>>
aggregation == <<plan, given, clips, todo, current, results, refused>>
answering == <<archive, permissions, cache, inquiry, inquiries>>
storing ==
    <<settings, studies, files, filed, buckets, objects, transfer, transfers, ffaults, lost>>
serving == <<people, pubkeys, access, sessions, call, calls, changes, sfaults, opened, closed>>
relay == <<kind, stage, socket, reading, timer, line>>
proxies == <<instances, monitors, caches, visit, now, cleaned, visits, moves>>
leasing == <<leases, posted, tasks, time, started, died, crossed, revived>>
throttling == <<records, minute, occurred, told, since>>
summing == <<logs, hour, summary, byEvent, byRequester>>
dav == <<tree, members, isCopying, asking, stream, requested, changed>>
enrolment == <<machines, session, stored, tabs, enrolled, missed, unsaved, clicks, efaults>>

Rest ==
    /\ UNCHANGED part
    /\ IF part = "accounts" THEN TRUE ELSE UNCHANGED accounts
    /\ IF part = "authenticators" THEN TRUE ELSE UNCHANGED ceremonies
    /\ IF part = "transformations" THEN TRUE ELSE UNCHANGED aggregation
    /\ IF part = "answers" THEN TRUE ELSE UNCHANGED answering
    /\ IF part = "files" THEN TRUE ELSE UNCHANGED storing
    /\ IF part = "sessions" THEN TRUE ELSE UNCHANGED serving
    /\ IF part = "relays" THEN TRUE ELSE UNCHANGED relay
    /\ IF part = "proxies" THEN TRUE ELSE UNCHANGED proxies
    /\ IF part = "leases" THEN TRUE ELSE UNCHANGED leasing
    /\ IF part = "throttler" THEN TRUE ELSE UNCHANGED throttling
    /\ IF part = "summaries" THEN TRUE ELSE UNCHANGED summing
    /\ IF part = "webdav" THEN TRUE ELSE UNCHANGED dav
    /\ IF part = "enrolments" THEN TRUE ELSE UNCHANGED enrolment

PartsNext ==
    \/ part = "accounts" /\ U!Next /\ Rest
    \/ part = "authenticators" /\ W!Next /\ Rest
    \/ part = "transformations" /\ T!Next /\ Rest
    \/ part = "answers" /\ A!Next /\ Rest
    \/ part = "files" /\ F!Next /\ Rest
    \/ part = "sessions" /\ S!Next /\ Rest
    \/ part = "relays" /\ R!Next /\ Rest
    \/ part = "proxies" /\ P!Next /\ Rest
    \/ part = "leases" /\ L!Next /\ Rest
    \/ part = "throttler" /\ G!Next /\ Rest
    \/ part = "summaries" /\ Y!Next /\ Rest
    \/ part = "webdav" /\ D!Next /\ Rest
    \/ part = "enrolments" /\ B!Next /\ Rest

PartsVars ==
    <<part, accounts, ceremonies, aggregation, answering, storing, serving, relay, proxies, leasing,
      throttling, summing, dav, enrolment>>

PartsSpec == PartsInit /\ [][PartsNext]_PartsVars

(***************************************************************************)
(* The properties of the parts.                                            *)
(***************************************************************************)
\* Each part's state is of its type.
PartsTypeOK ==
    CASE part = "accounts" -> U!TypeOK
      [] part = "authenticators" -> W!TypeOK
      [] part = "transformations" -> T!TypeOK
      [] part = "answers" -> A!TypeOK
      [] part = "files" -> F!TypeOK
      [] part = "sessions" -> S!TypeOK
      [] part = "relays" -> R!TypeOK
      [] part = "proxies" -> P!TypeOK
      [] part = "leases" -> L!TypeOK
      [] part = "throttler" -> G!TypeOK
      [] part = "summaries" -> Y!TypeOK
      [] part = "webdav" -> D!TypeOK
      [] part = "enrolments" -> B!TypeOK

\* A link resets a password once (see Accounts).
ResetsOnce == part = "accounts" => U!ResetsOnce
\* Live roles list live users, and others for known reasons alone (see Accounts).
RolesListLive == part = "accounts" => U!RolesListLive
\* Devices are lost and documents doubled by overlapping requests alone (see Authenticators).
DevicesKept == part = "authenticators" => W!DevicesKept
\* Pipelines do not touch each other and lose nothing (see Transformations).
AggregationsRight == part = "transformations" => T!AggregationsRight
\* Roles, cold storage, cached lists and summaries agree (see Answers).
AnswersAgree == part = "answers" => A!AnswersAgree
\* What is listed as a file can be read (see FileStore).
FilesReadable == part = "files" => F!FilesReadable
\* Who acts is who was let in, and success leaves a trace (see Sessions).
CallsAccounted == part = "sessions" => S!CallsAccounted
\* No session comes back from a logout (see Sessions).
LogoutIsFinal == part = "sessions" => S!LogoutIsFinal
\* A relay delivers what is said and is gone when its client is (see Relays).
RelaysDeliver == part = "relays" => R!RelaysDeliver
\* Proxies that nobody uses are forgotten (see Proxies).
ProxiesExpire == part = "proxies" => P!ProxiesExpire
\* Instances and lives stay within what overlapping requests explain (see Leases).
LeasesBounded == part = "leases" => L!LeasesBounded
\* An error that lasts is told of (see LogThrottler).
ErrorsTold == part = "throttler" => G!ErrorsTold
\* A summary is off by the calls logged meanwhile alone (see LogSummaries).
SummariesAddUp == part = "summaries" => Y!SummariesAddUp
\* Listings and look-ups agree (see WebDav).
PathsAgree == part = "webdav" => D!PathsAgree
\* A user enrolled on a machine is offered there, unless a list that was out of date or not
\* saved left the user off (see Enrolments).
StaysOffered == part = "enrolments" => B!StaysOffered
=============================================================================
