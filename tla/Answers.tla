------------------------------ MODULE Answers ------------------------------
(***************************************************************************)
(* What a user is answered of a study's data (dataCore.ts,                  *)
(* permissionCore.ts): the clips his roles grant, the list of the study's   *)
(* files, and the summary, the last two through entries of the cache that   *)
(* other requests insert, use and outdate meanwhile.                        *)
(*                                                                         *)
(* Versions are published in StudyVersions; here the archive has those of   *)
(* before, and requests add clips without a version.  The fields of the     *)
(* study, its configuration and the study itself stay.  A regular           *)
(* expression of a permission stands for what it matches.  Left out:        *)
(* texts and values of clips (a file clip's value is its own number),       *)
(* names in the list of files, the summary's counts by user.                *)
(***************************************************************************)
EXTENDS Integers, Sequences, FiniteSets

CONSTANTS
    Users, Subjects,
    Fields, FileFields,  \* field ids, and those whose values are files
    Defined,             \* the version in which each field is defined
    Roles, Members,      \* roles of the study, and the users of each
    Managing,            \* roles of study managers
    Grants,              \* sets of permissions a role may have
    Archives,            \* sequences of clips of before, oldest first
    Requests,            \* requests under way at the API server
    MaxBegun,            \* bound on requests
    Null

\* Version 0 is none; a deletion is a clip of its own.
Clip == [field : Fields, subject : Subjects, version : Nat, user : Users, deleted : BOOLEAN]

\* What the constants are meant to be.  A clip is published with its field (StudyVersions).
ConstantsOK ==
    /\ FileFields \subseteq Fields /\ Managing \subseteq Roles
    /\ Members \in [Roles -> SUBSET Users] /\ Defined \in [Fields -> Nat]
    /\ \A p \in UNION Grants :
          /\ p.fields \subseteq Fields /\ p.level \in 0..7 /\ p.unversioned \in BOOLEAN
          /\ p.subjects \in SUBSET Subjects \cup {Null}
    /\ Archives \subseteq Seq(Clip)
    /\ \A a \in Archives : \A i \in 1..Len(a) : a[i].version # 0 => Defined[a[i].field] # 0
    /\ MaxBegun \in Nat

VARIABLES
    archive,      \* data_collection: the study's clips in the order they were created
    permissions,  \* dataPermissions of each role
    cache,        \* cache_collection: the entries in the order they were inserted
    req,          \* progress of each request
    begun         \* requests so far

answering == <<archive, permissions, cache, req, begun>>

-----------------------------------------------------------------------------
(* Documents.                                                              *)

Key(d) == <<d.field, d.subject>>
Versions == {0} \cup {archive[i].version : i \in 1..Len(archive)}
                \cup {Defined[f] : f \in Fields}

\* What roles give a user, by their dataPermissions.
RolesOf(u) == {r \in Roles : u \in Members[r]}
Held(u) == {permissions[r] : r \in RolesOf(u)}
HeldBy(u) == [r \in RolesOf(u) |-> permissions[r]]
Manages(u) == RolesOf(u) \cap Managing # {}

Counters == {"records", "deletes", "versionedDeletes", "unversioned", "unversionedDeletes"}
NoCounts == [c \in Counters |-> -1]

Idle == [pc |-> "idle", user |-> Null, field |-> Null, subject |-> Null, held |-> <<>>,
         versions |-> {}, fields |-> {}, content |-> {}, counts |-> NoCounts,
         from |-> 0, raced |-> FALSE]

Init ==
    /\ archive \in Archives
    /\ permissions \in [Roles -> Grants]
    /\ cache = <<>>
    /\ req = [q \in Requests |-> Idle]
    /\ begun = 0

-----------------------------------------------------------------------------
(* Permissions.                                                            *)

Reads(p) == p.level \in 4..7

StudyFields(held, versions) ==
    {f \in Fields : Defined[f] \in versions /\ \E g \in held : \E p \in g : f \in p.fields /\ Reads(p)}

\* Every permission of some role is asked to cover the clip, and a role without any does.
CheckDataPermission(held, f, s) ==
    \E g \in held : \A p \in g : f \in p.fields /\ (p.subjects # Null => s \in p.subjects)
                                 /\ p.level \in {6, 7}

Granted(p, d) ==
    /\ d.field \in p.fields
    /\ p.subjects # Null => d.subject \in p.subjects
    /\ p.unversioned \/ d.version # 0

Covered(held, d) == \E g \in held : \E p \in g : Granted(p, d)

\* A role whose permissions name no field keeps everything from its users.
Barred(held) == \E g \in held : \A p \in g : p.fields = {}

Visible(u, held, versions) ==
    {i \in 1..Len(archive) :
        /\ archive[i].version \in versions
        /\ Covered(held, archive[i]) \/ archive[i].user = u}

Latest(clips) == {i \in clips : \A j \in clips : Key(archive[j]) = Key(archive[i]) => j <= i}

DataByRoles(u, held, versions, fields) ==
    IF Barred(held) THEN {}
    ELSE {i \in Latest(Visible(u, held, versions)) :
             /\ archive[i].field \in fields \cap StudyFields(held, versions)
             /\ ~archive[i].deleted}

\* Cold storage has a copy of the latest published clip of each key, deletions among them; the
\* copy belongs to whoever published.
Cold == Latest({i \in 1..Len(archive) : archive[i].version # 0})

DataLatest(held, publisher) ==
    IF Barred(held) THEN {}
    ELSE {i \in Cold : /\ Covered(held, archive[i]) \/ publisher
                       /\ archive[i].field \in StudyFields(held, Versions)}

-----------------------------------------------------------------------------
(* The list of files.                                                      *)

MayBegin(q) == begun < MaxBegun /\ req[q].pc = "idle"
Begin(q, r) ==
    /\ MayBegin(q) /\ begun' = begun + 1
    /\ req' = [req EXCEPT ![q] = r]

Found(query, key) == \E i \in 1..Len(cache) : cache[i].query = query /\ cache[i].key = key
                                              /\ cache[i].inuse

\* The roles are read for the key; the versions that are asked for are no part of it.
GetStudyFiles(q, u, versions, forceUpdate) ==
    /\ RolesOf(u) # {}
    /\ Found("files", HeldBy(u)) => forceUpdate
    /\ Begin(q, [Idle EXCEPT !.pc = "fields", !.user = u, !.held = HeldBy(u),
                             !.versions = versions])
    /\ UNCHANGED <<archive, permissions, cache>>

ReadFields(q) ==
    /\ req[q].pc = "fields"
    /\ req' = [req EXCEPT ![q].pc = "files",
          ![q].fields = StudyFields(Held(req[q].user), req[q].versions) \cap FileFields]
    /\ UNCHANGED <<archive, permissions, cache, begun>>

\* The roles are read again, by getStudyData.
ReadFiles(q) ==
    /\ req[q].pc = "files"
    /\ req' = [req EXCEPT ![q].pc = "store",
          ![q].content = DataByRoles(req[q].user, Held(req[q].user),
                                      req[q].versions, req[q].fields)]
    /\ UNCHANGED <<archive, permissions, cache, begun>>

StoreFiles(q) ==
    /\ req[q].pc = "store"
    /\ LET r == req[q] IN
       cache' = Append(cache, [query |-> "files", key |-> r.held, inuse |-> TRUE,
                               content |-> r.content, versions |-> r.versions,
                               counts |-> NoCounts, from |-> 0, to |-> 0, raced |-> r.raced])
    /\ req' = [req EXCEPT ![q] = Idle]
    /\ UNCHANGED <<archive, permissions, begun>>

-----------------------------------------------------------------------------
(* Clips.                                                                  *)

Insert(u, f, s, deleted) ==
    archive' = Append(archive, [field |-> f, subject |-> s, version |-> 0, user |-> u,
                                deleted |-> deleted])

\* uploadData, or uploadFileData, which has stored the file by now and outdates the lists after.
UploadData(q, u, f, s) ==
    /\ RolesOf(u) # {}
    /\ f \in StudyFields(Held(u), Versions)
    /\ CheckDataPermission(Held(u), f, s)
    /\ Begin(q, [Idle EXCEPT !.pc = "insert", !.user = u, !.field = f, !.subject = s])
    /\ UNCHANGED <<archive, permissions, cache>>

InsertClip(q) ==
    /\ req[q].pc = "insert"
    /\ Insert(req[q].user, req[q].field, req[q].subject, FALSE)
    /\ req' = [req EXCEPT ![q] = IF @.field \in FileFields THEN [@ EXCEPT !.pc = "outdate"] ELSE Idle]
    /\ UNCHANGED <<permissions, cache, begun>>

Listing == {q \in Requests : req[q].pc \in {"fields", "files", "store"}}

\* Mutant of OutdateFiles: only lists made with the permissions the uploader has.
OutdateOwn(q) ==
    /\ req[q].pc = "outdate"
    /\ cache' = [i \in 1..Len(cache) |->
                    IF cache[i].query = "files" /\ cache[i].key = HeldBy(req[q].user)
                    THEN [cache[i] EXCEPT !.inuse = FALSE] ELSE cache[i]]
    /\ req' = [p \in Requests |-> IF p = q THEN Idle
                                  ELSE IF p \in Listing THEN [req[p] EXCEPT !.raced = TRUE]
                                  ELSE req[p]]
    /\ UNCHANGED <<archive, permissions, begun>>

\* Lists under way are not outdated: `raced` marks them.
OutdateFiles(q) ==
    /\ req[q].pc = "outdate"
    /\ cache' = [i \in 1..Len(cache) |->
                    IF cache[i].query = "files" THEN [cache[i] EXCEPT !.inuse = FALSE] ELSE cache[i]]
    /\ req' = [p \in Requests |-> IF p = q THEN Idle
                                  ELSE IF p \in Listing THEN [req[p] EXCEPT !.raced = TRUE]
                                  ELSE req[p]]
    /\ UNCHANGED <<archive, permissions, begun>>

\* The permission to delete is looked up and not heeded; deleteFile finds a clip by its value
\* and goes on here.
DeleteData(u, f, s) ==
    /\ Manages(u)
    /\ begun < MaxBegun /\ begun' = begun + 1
    /\ Insert(u, f, s, TRUE)
    /\ UNCHANGED <<permissions, cache, req>>

\* editStudyRole.
SetRole(r, g) ==
    /\ g # permissions[r]
    /\ begun < MaxBegun /\ begun' = begun + 1
    /\ permissions' = [permissions EXCEPT ![r] = g]
    /\ req' = [p \in Requests |-> IF p \in Listing THEN [req[p] EXCEPT !.raced = TRUE] ELSE req[p]]
    /\ UNCHANGED <<archive, cache>>

-----------------------------------------------------------------------------
(* The summary.                                                            *)

Counted(c) ==
    LET clips == {i \in 1..Len(archive) :
                     /\ c \in {"deletes", "versionedDeletes", "unversionedDeletes"} => archive[i].deleted
                     /\ c = "versionedDeletes" => archive[i].version # 0
                     /\ c \in {"unversioned", "unversionedDeletes"} => archive[i].version = 0}
    IN Cardinality(clips)

GetStudySummary(q, u, forceUpdate) ==
    /\ Manages(u)
    /\ Found("summary", <<>>) => forceUpdate
    /\ Begin(q, [Idle EXCEPT !.pc = "count", !.user = u, !.from = Len(archive)])
    /\ UNCHANGED <<archive, permissions, cache>>

\* The counts are asked for at the same time and come in any order.
Count(q, c) ==
    /\ req[q].pc = "count" /\ req[q].counts[c] = -1
    /\ req' = [req EXCEPT ![q].counts[c] = Counted(c)]
    /\ UNCHANGED <<archive, permissions, cache, begun>>

StoreSummary(q) ==
    /\ req[q].pc = "count" /\ \A c \in Counters : req[q].counts[c] # -1
    /\ cache' = Append(cache, [query |-> "summary", key |-> <<>>, inuse |-> TRUE, content |-> {},
                               versions |-> {}, counts |-> req[q].counts, from |-> req[q].from,
                               to |-> Len(archive), raced |-> FALSE])
    /\ req' = [req EXCEPT ![q] = Idle]
    /\ UNCHANGED <<archive, permissions, begun>>

-----------------------------------------------------------------------------

Ask(q, u) ==
    \/ \E forceUpdate \in BOOLEAN :
          \/ GetStudySummary(q, u, forceUpdate)
          \/ \E versions \in {Versions, {0}} : GetStudyFiles(q, u, versions, forceUpdate)
    \/ \E f \in Fields, s \in Subjects : UploadData(q, u, f, s)

Next ==
    \/ \E q \in Requests :
          \/ ReadFields(q) \/ ReadFiles(q) \/ StoreFiles(q)
          \/ InsertClip(q) \/ OutdateFiles(q) \/ StoreSummary(q)
          \/ \E c \in Counters : Count(q, c)
          \/ MayBegin(q) /\ \E u \in Users : Ask(q, u)
    \/ /\ begun < MaxBegun
       /\ \/ \E u \in Users, f \in Fields, s \in Subjects : DeleteData(u, f, s)
          \/ \E r \in Roles, g \in Grants : SetRole(r, g)

Spec == Init /\ [][Next]_answering

-----------------------------------------------------------------------------

TypeOK ==
    /\ archive \in Seq(Clip)
    /\ permissions \in [Roles -> Grants]
    /\ \A i \in 1..Len(cache) : cache[i].query \in {"files", "summary"}
    /\ \A q \in Requests : req[q].pc \in {"idle", "fields", "files", "store", "insert", "outdate", "count"}
    /\ begun \in 0..MaxBegun

\* With more roles a user is never answered an older clip, and what he uploaded last he can read,
\* in the fields his roles show him, unless someone he may hear of has written after him.
MoreRolesNewer ==
    \A u \in Users, versions \in SUBSET Versions : \A held \in SUBSET Held(u) :
        held # {} /\ ~Barred(Held(u)) =>
            LET answer == DataByRoles(u, Held(u), versions, Fields)
                seen == Latest(Visible(u, Held(u), versions))
            IN /\ \A i \in DataByRoles(u, held, versions, Fields) :
                     \E j \in seen : /\ j >= i /\ Key(archive[j]) = Key(archive[i])
                                     /\ ~archive[j].deleted => j \in answer
               /\ \A i \in 1..Len(archive) :
                     /\ archive[i].user = u /\ archive[i].version \in versions
                     /\ archive[i].field \in StudyFields(Held(u), versions)
                     => \E j \in seen : /\ j >= i /\ Key(archive[j]) = Key(archive[i])
                                        /\ ~archive[j].deleted => j \in answer

\* The shortcut to the latest data, from cold storage, answers the keys that the published
\* versions have, deleted ones too: of the clips that others uploaded it misses none.
ColdAnswersAlike ==
    \A u \in Users :
        {i \in DataLatest(Held(u), FALSE) : ~archive[i].deleted} =
            {i \in DataByRoles(u, Held(u), Versions \ {0}, StudyFields(Held(u), Versions)) :
                Covered(Held(u), archive[i])}

\* A cached list in use has every file that its roles could see in the versions it was made for,
\* unless the upload has yet to outdate it or overlapped its making.
FilesListed ==
    \A k \in 1..Len(cache) :
        LET e == cache[k]
            held == {e.key[r] : r \in DOMAIN e.key}
        IN e.query = "files" /\ e.inuse /\ ~e.raced =>
            \A i \in 1..Len(archive) :
                /\ archive[i].field \in FileFields \cap StudyFields(held, e.versions)
                /\ archive[i].version \in e.versions /\ ~archive[i].deleted
                /\ Covered(held, archive[i]) /\ ~Barred(held)
                => \/ i \in e.content
                   \/ \E j \in (i + 1)..Len(archive) : Key(archive[j]) = Key(archive[i])
                   \/ \E q \in Requests : req[q].pc = "outdate" /\ req[q].field = archive[i].field

\* The summary's counts are taken apart from each other: what they say of the published clips
\* is off by no more than the clips that came meanwhile.
SummaryWithin ==
    \A k \in 1..Len(cache) :
        LET e == cache[k]
            published == Cardinality({i \in 1..Len(archive) : archive[i].version # 0})
            versioned == e.counts["records"] - e.counts["unversioned"]
            late == e.to - e.from
        IN e.query = "summary" =>
              /\ versioned \in (published - late)..(published + late)
              /\ e.counts["deletes"] - e.counts["versionedDeletes"] - e.counts["unversionedDeletes"]
                    \in (0 - late)..late

\* All of it: roles, cold storage, cached lists and summaries agree on the clips of a study.
AnswersAgree == MoreRolesNewer /\ ColdAnswersAlike /\ FilesListed /\ SummaryWithin
=============================================================================
