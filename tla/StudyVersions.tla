--------------------------- MODULE StudyVersions ---------------------------
(***************************************************************************)
(* The versioned data store of one study: studyCore.ts (versions and       *)
(* deletion) over the collections written by dataCore.ts (fields, clips,   *)
(* cold copy and query cache).                                             *)
(*                                                                         *)
(* Documents are never changed in place by users: an edit or a deletion    *)
(* inserts a newer document for the same key.  A new document carries the  *)
(* data version null ("not versioned yet"); createDataVersion stamps every *)
(* unversioned document with a fresh id and, several awaits later, lists   *)
(* that id in the study.  Every await is a point where the steps of other  *)
(* requests interleave, and where a request may die.                       *)
(*                                                                         *)
(* A document is identified by its creation time: the clock ticks at each  *)
(* stamp, so two documents never share one (the unique index on the        *)
(* collections rejects most ties; the model leaves ties out).              *)
(***************************************************************************)
EXTENDS Integers, Sequences, FiniteSets

CONSTANTS
    Fields,      \* field ids of the study
    Subjects,    \* values of the clip properties that tell clips apart
    Managers,    \* requests that create or select versions, or delete the study
    Writers,     \* requests that write fields and clips
    Readers,     \* requests that read through the cache
    Names,       \* version strings a manager may ask for, e.g. "1.0"
    BatchSize,   \* cold-storage operations per bulk (1000 in the code)
    MaxTime,     \* bound on the documents created
    MaxVersion,  \* bound on the versions created
    MaxFills     \* bound on the cache entries written

ASSUME BatchAssumption == BatchSize \in Nat \ {0}
ASSUME InputsAssumption == Fields # {} /\ Subjects # {} /\ Names # {}
ASSUME BoundsAssumption == MaxTime \in Nat /\ MaxVersion \in Nat /\ MaxFills \in Nat

VARIABLES
    study,    \* the studies_collection document
    data,     \* data_collection
    fields,   \* field_dictionary_collection
    cold,     \* colddata_collection
    cache,    \* cache_collection, entries of the default query
    mgr,      \* progress of each manager request
    wrt,      \* the document each writer is about to insert
    rdr,      \* the answer each reader is about to cache
    clock,    \* next creation time
    nextVer,  \* next data version id
    failed    \* ids of the versions whose creation died (history variable)

vars == <<study, data, fields, cold, cache, mgr, wrt, rdr, clock, nextVer, failed>>

-----------------------------------------------------------------------------
(* The documents.                                                          *)

Null == 0        \* dataVersion: null
Versions == Nat  \* uuid() of a version, or Null

FieldDoc == [field : Fields, deleted : BOOLEAN, time : Nat, ver : Versions]

\* A clip; `marker` says that its value is null, which is how a deletion is
\* recorded, and `deleted` that life.deletedTime is set.
DataDoc == [field : Fields, subject : Subjects, marker : BOOLEAN,
            deleted : BOOLEAN, time : Nat, ver : Versions]

\* A cold document is a copy whose life is reset: it has no deletedTime.
ColdDoc == [field : Fields, subject : Subjects, marker : BOOLEAN,
            time : Nat, ver : Versions]

\* `seen` are the documents of the answer, `had` those stored when it was
\* computed, `born` the next version id when the entry was inserted.
CacheEntry == [seen : SUBSET Nat, had : SUBSET Nat, born : Nat, inuse : BOOLEAN]

VersionEntry == [id : Nat, name : Names]
StudyDoc == [current : Int, deleted : BOOLEAN, versions : Seq(VersionEntry)]

Listed == {study.versions[i].id : i \in 1..Len(study.versions)}
UsedNames == {study.versions[i].name : i \in 1..Len(study.versions)}

\* The versions up to the current one, and null: what a read that names no
\* version looks at.
DefaultVersions ==
    {study.versions[i].id : i \in {j \in 1..Len(study.versions) : j - 1 <= study.current}}
        \cup {Null}

\* The latest document of a field decides whether the field exists.
LatestField(docs) ==
    {d \in docs : \A e \in docs : e.field = d.field => e.time <= d.time}

AvailableFields(vers) ==
    {d.field : d \in {e \in LatestField({g \in fields : g.ver \in vers}) : ~e.deleted}}

Key(d) == <<d.field, d.subject>>
Keys(docs) == {Key(d) : d \in docs}

-----------------------------------------------------------------------------
(* The requests.                                                           *)

Creating == {"stampData", "stampFields", "outdate", "copy", "publish"}

MgrState == [pc : Creating \cup {"idle", "setCurrent", "delFields", "delData"},
             ver : Versions, name : Names, sync : BOOLEAN,
             todo : SUBSET DataDoc, index : Nat]

NoName == CHOOSE n \in Names : TRUE
IdleMgr == [pc |-> "idle", ver |-> Null, name |-> NoName, sync |-> FALSE,
            todo |-> {}, index |-> 0]

WrtState == [pc : {"idle", "field", "upload", "erase"}, field : Fields,
             subject : Subjects, deleted : BOOLEAN, time : Nat]
NoField == CHOOSE f \in Fields : TRUE
NoSubject == CHOOSE s \in Subjects : TRUE
IdleWrt == [pc |-> "idle", field |-> NoField, subject |-> NoSubject,
            deleted |-> FALSE, time |-> 0]

RdrState == [pc : {"idle", "read", "fill"}, vers : SUBSET Versions,
             seen : SUBSET Nat, had : SUBSET Nat]
IdleRdr == [pc |-> "idle", vers |-> {}, seen |-> {}, had |-> {}]

InFlight(v) == \E m \in Managers : mgr[m].pc \in Creating /\ mgr[m].ver = v

\* createStudy: a new study has no version, and -1 for the current one.
Init ==
    /\ study = [current |-> -1, deleted |-> FALSE, versions |-> <<>>]
    /\ data = {} /\ fields = {} /\ cold = {} /\ cache = {}
    /\ mgr = [m \in Managers |-> IdleMgr]
    /\ wrt = [w \in Writers |-> IdleWrt]
    /\ rdr = [r \in Readers |-> IdleRdr]
    /\ clock = 1 /\ nextVer = 1 /\ failed = {}

-----------------------------------------------------------------------------
(* createDataVersion, one action per database call.                        *)

\* The study is read and the version string checked against its list.
CreateDataVersion(m, name, sync) ==
    /\ mgr[m].pc = "idle" /\ ~study.deleted
    /\ name \notin UsedNames
    /\ nextVer <= MaxVersion
    /\ mgr' = [mgr EXCEPT ![m] = [IdleMgr EXCEPT !.pc = "stampData", !.ver = nextVer,
                                               !.name = name, !.sync = sync]]
    /\ nextVer' = nextVer + 1
    /\ UNCHANGED <<study, data, fields, cold, cache, wrt, rdr, clock, failed>>

\* Mutant of Stamp: the filter {dataVersion: null} is forgotten.
StampEverything(docs, v) == {[d EXCEPT !.ver = v] : d \in docs}

\* updateMany({dataVersion: null}, {dataVersion: v})
Stamp(docs, v) == {IF d.ver = Null THEN [d EXCEPT !.ver = v] ELSE d : d \in docs}

StampData(m) ==
    /\ mgr[m].pc = "stampData"
    /\ data' = Stamp(data, mgr[m].ver)
    /\ mgr' = [mgr EXCEPT ![m].pc = "stampFields"]
    /\ UNCHANGED <<study, fields, cold, cache, wrt, rdr, clock, nextVer, failed>>

\* Mutant of StampFields: the field dictionary is not versioned.
StampNoFields(m) ==
    /\ mgr[m].pc = "stampFields"
    /\ mgr' = [mgr EXCEPT ![m].pc = "outdate"]
    /\ UNCHANGED <<study, data, fields, cold, cache, wrt, rdr, clock, nextVer, failed>>

StampFields(m) ==
    /\ mgr[m].pc = "stampFields"
    /\ fields' = Stamp(fields, mgr[m].ver)
    /\ mgr' = [mgr EXCEPT ![m].pc = "outdate"]
    /\ UNCHANGED <<study, data, cold, cache, wrt, rdr, clock, nextVer, failed>>

\* Mutants of OutdateCache: the cache is left alone; the cursor has no filter on
\* the data version.
OutdateNothing(m) ==
    /\ mgr[m].pc = "outdate"
    /\ mgr' = [mgr EXCEPT ![m].pc = "publish"]
    /\ UNCHANGED <<study, data, fields, cold, cache, wrt, rdr, clock, nextVer, failed>>

OutdateAndCopyAll(m) ==
    /\ mgr[m].pc = "outdate"
    /\ cache' = {[e EXCEPT !.inuse = FALSE] : e \in cache}
    /\ mgr' = [mgr EXCEPT ![m].pc = IF mgr[m].sync THEN "copy" ELSE "publish",
                         ![m].todo = IF mgr[m].sync THEN data ELSE {}]
    /\ UNCHANGED <<study, data, fields, cold, wrt, rdr, clock, nextVer, failed>>

\* The cursor over the new version's clips is opened when syncCold is set; the
\* set it runs over is fixed, for no later step stamps a clip with this id.
OutdateCache(m) ==
    /\ mgr[m].pc = "outdate"
    /\ cache' = {[e EXCEPT !.inuse = FALSE] : e \in cache}
    /\ mgr' = [mgr EXCEPT
          ![m].pc = IF mgr[m].sync THEN "copy" ELSE "publish",
          ![m].todo = IF mgr[m].sync THEN {d \in data : d.ver = mgr[m].ver} ELSE {}]
    /\ UNCHANGED <<study, data, fields, cold, wrt, rdr, clock, nextVer, failed>>

\* Mutant of ColdCopy: the clip is copied with its life.
ColdCopyWhole(d, v) == [d EXCEPT !.ver = v]

ColdCopy(d, v) == [field |-> d.field, subject |-> d.subject, marker |-> d.marker,
                   time |-> d.time, ver |-> v]

\* The cursor hands out a batch, and the unordered bulk upserts it by key: of
\* several clips of one key any may be written last.
FullBatch(docs, todo) ==
    Cardinality(docs) = IF Cardinality(todo) < BatchSize THEN Cardinality(todo)
                                                         ELSE BatchSize

\* Mutant of CopyBatch: the batch is not cleared.
CopyBatchAgain(m) ==
    /\ mgr[m].pc = "copy" /\ mgr[m].todo # {}
    /\ cold' = {c \in cold : Key(c) \notin Keys(mgr[m].todo)}
                 \cup {ColdCopy(d, mgr[m].ver) : d \in mgr[m].todo}
    /\ UNCHANGED <<study, data, fields, cache, mgr, wrt, rdr, clock, nextVer, failed>>

CopyBatch(m) ==
    /\ mgr[m].pc = "copy" /\ mgr[m].todo # {}
    /\ \E batch \in SUBSET mgr[m].todo :
         /\ FullBatch(batch, mgr[m].todo)
         /\ \E last \in SUBSET batch :
              /\ Keys(last) = Keys(batch)
              /\ \A d, e \in last : Key(d) = Key(e) => d = e
              /\ cold' = {c \in cold : Key(c) \notin Keys(batch)}
                          \cup {ColdCopy(d, mgr[m].ver) : d \in last}
         /\ mgr' = [mgr EXCEPT ![m].todo = @ \ batch]
    /\ UNCHANGED <<study, data, fields, cache, wrt, rdr, clock, nextVer, failed>>

\* Mutant of CopyDone: the last incomplete batch is not executed.
CopyDoneEarly(m) ==
    /\ mgr[m].pc = "copy" /\ Cardinality(mgr[m].todo) < BatchSize
    /\ mgr' = [mgr EXCEPT ![m].pc = "publish", ![m].todo = {}]
    /\ UNCHANGED <<study, data, fields, cold, cache, wrt, rdr, clock, nextVer, failed>>

CopyDone(m) ==
    /\ mgr[m].pc = "copy" /\ mgr[m].todo = {}
    /\ mgr' = [mgr EXCEPT ![m].pc = "publish"]
    /\ UNCHANGED <<study, data, fields, cold, cache, wrt, rdr, clock, nextVer, failed>>

\* Mutant of PublishVersion: a second check of the name comes after the stamping.
PublishVersionRecheck(m) ==
    /\ mgr[m].pc = "publish"
    /\ study' = IF mgr[m].name \in UsedNames THEN study ELSE
          [study EXCEPT !.versions = Append(@, [id |-> mgr[m].ver, name |-> mgr[m].name]),
                        !.current = @ + 1]
    /\ mgr' = [mgr EXCEPT ![m] = IdleMgr]
    /\ UNCHANGED <<data, fields, cold, cache, wrt, rdr, clock, nextVer, failed>>

\* One update pushes the version and increments the current one; only then does
\* the code answer "Nothing to update." when neither updateMany changed anything.
PublishVersion(m) ==
    /\ mgr[m].pc = "publish"
    /\ study' = [study EXCEPT
          !.versions = Append(@, [id |-> mgr[m].ver, name |-> mgr[m].name]),
          !.current = @ + 1]
    /\ mgr' = [mgr EXCEPT ![m] = IdleMgr]
    /\ UNCHANGED <<data, fields, cold, cache, wrt, rdr, clock, nextVer, failed>>

\* The request dies: the server stops, or a database call rejects.
FailVersion(m) ==
    /\ mgr[m].pc \in Creating
    /\ failed' = failed \cup {mgr[m].ver}
    /\ mgr' = [mgr EXCEPT ![m] = IdleMgr]
    /\ UNCHANGED <<study, data, fields, cold, cache, wrt, rdr, clock, nextVer>>

-----------------------------------------------------------------------------
(* setDataversionAsCurrent and deleteStudy.                                *)

\* Mutant of SetCurrentRead: the index counts from one.
SetCurrentFromOne(m, i) ==
    /\ mgr[m].pc = "idle" /\ ~study.deleted
    /\ mgr' = [mgr EXCEPT ![m].pc = "setCurrent", ![m].index = i]
    /\ UNCHANGED <<study, data, fields, cold, cache, wrt, rdr, clock, nextVer, failed>>

\* The index of the chosen version is computed from the study as read.
SetCurrentRead(m, i) ==
    /\ mgr[m].pc = "idle" /\ ~study.deleted
    /\ mgr' = [mgr EXCEPT ![m].pc = "setCurrent", ![m].index = i - 1]
    /\ UNCHANGED <<study, data, fields, cold, cache, wrt, rdr, clock, nextVer, failed>>

SetCurrentWrite(m) ==
    /\ mgr[m].pc = "setCurrent"
    /\ study' = [study EXCEPT !.current = mgr[m].index]
    /\ mgr' = [mgr EXCEPT ![m] = IdleMgr]
    /\ UNCHANGED <<data, fields, cold, cache, wrt, rdr, clock, nextVer, failed>>

DeleteStudy(m) ==
    /\ mgr[m].pc = "idle" /\ ~study.deleted
    /\ study' = [study EXCEPT !.deleted = TRUE]
    /\ mgr' = [mgr EXCEPT ![m].pc = "delFields"]
    /\ UNCHANGED <<data, fields, cold, cache, wrt, rdr, clock, nextVer, failed>>

\* updateMany({'life.deletedTime': null}, {'life.deletedTime': now})
Erase(docs) == {[d EXCEPT !.deleted = TRUE] : d \in docs}

DeleteStudyFields(m) ==
    /\ mgr[m].pc = "delFields"
    /\ fields' = Erase(fields)
    /\ mgr' = [mgr EXCEPT ![m].pc = "delData"]
    /\ UNCHANGED <<study, data, cold, cache, wrt, rdr, clock, nextVer, failed>>

DeleteStudyData(m) ==
    /\ mgr[m].pc = "delData"
    /\ data' = Erase(data)
    /\ mgr' = [mgr EXCEPT ![m] = IdleMgr]
    /\ UNCHANGED <<study, fields, cold, cache, wrt, rdr, clock, nextVer, failed>>

-----------------------------------------------------------------------------
(* Fields and clips: dataCore.ts.  Every document is inserted unversioned.  *)

NewField(f, deleted) == [field |-> f, deleted |-> deleted, time |-> clock, ver |-> Null]

\* createField asks for a role on the field, and for nothing of the study.
CreateField(f) ==
    /\ clock <= MaxTime
    /\ fields' = fields \cup {NewField(f, FALSE)}
    /\ clock' = clock + 1
    /\ UNCHANGED <<study, data, cold, cache, mgr, wrt, rdr, nextVer, failed>>

\* editField looks for some document of the field that is not a deletion.
EditField(w, f) ==
    /\ wrt[w].pc = "idle"
    /\ \E d \in fields : d.field = f /\ ~d.deleted
    /\ wrt' = [wrt EXCEPT ![w] = [IdleWrt EXCEPT !.pc = "field", !.field = f]]
    /\ UNCHANGED <<study, data, fields, cold, cache, mgr, rdr, clock, nextVer, failed>>

\* deleteField looks at the latest document of the field.
DeleteField(w, f) ==
    /\ wrt[w].pc = "idle"
    /\ \E d \in LatestField(fields) : d.field = f /\ ~d.deleted
    /\ wrt' = [wrt EXCEPT ![w] = [IdleWrt EXCEPT !.pc = "field", !.field = f,
                                               !.deleted = TRUE]]
    /\ UNCHANGED <<study, data, fields, cold, cache, mgr, rdr, clock, nextVer, failed>>

InsertField(w) ==
    /\ wrt[w].pc = "field" /\ clock <= MaxTime
    /\ fields' = fields \cup {NewField(wrt[w].field, wrt[w].deleted)}
    /\ clock' = clock + 1
    /\ wrt' = [wrt EXCEPT ![w] = IdleWrt]
    /\ UNCHANGED <<study, data, cold, cache, mgr, rdr, nextVer, failed>>

\* uploadData: the study and its available fields are read, then the clip is
\* stamped and put into a bulk that is executed later.
UploadData(w, f, s) ==
    /\ wrt[w].pc = "idle" /\ ~study.deleted
    /\ f \in AvailableFields(DefaultVersions)
    /\ clock <= MaxTime
    /\ wrt' = [wrt EXCEPT ![w] = [pc |-> "upload", field |-> f, subject |-> s,
                                deleted |-> FALSE, time |-> clock]]
    /\ clock' = clock + 1
    /\ UNCHANGED <<study, data, fields, cold, cache, mgr, rdr, nextVer, failed>>

InsertClip(w) ==
    /\ wrt[w].pc = "upload"
    /\ data' = data \cup {[field |-> wrt[w].field, subject |-> wrt[w].subject,
                          marker |-> FALSE, deleted |-> FALSE,
                          time |-> wrt[w].time, ver |-> Null]}
    /\ wrt' = [wrt EXCEPT ![w] = IdleWrt]
    /\ UNCHANGED <<study, fields, cold, cache, mgr, rdr, clock, nextVer, failed>>

\* deleteData: the study is read; neither the field nor the clip has to exist.
DeleteData(w, f, s) ==
    /\ wrt[w].pc = "idle" /\ ~study.deleted
    /\ wrt' = [wrt EXCEPT ![w] = [IdleWrt EXCEPT !.pc = "erase", !.field = f,
                                               !.subject = s, !.deleted = TRUE]]
    /\ UNCHANGED <<study, data, fields, cold, cache, mgr, rdr, clock, nextVer, failed>>

InsertMarker(w) ==
    /\ wrt[w].pc = "erase" /\ clock <= MaxTime
    /\ data' = data \cup {[field |-> wrt[w].field, subject |-> wrt[w].subject,
                          marker |-> TRUE, deleted |-> TRUE,
                          time |-> clock, ver |-> Null]}
    /\ clock' = clock + 1
    /\ wrt' = [wrt EXCEPT ![w] = IdleWrt]
    /\ UNCHANGED <<study, fields, cold, cache, mgr, rdr, nextVer, failed>>

-----------------------------------------------------------------------------
(* getStudyData with useCache: the study is read, then the documents, then *)
(* the answer is stored under a hash in which the versions do not appear.  *)

ReadStudy(r) ==
    /\ rdr[r].pc = "idle" /\ ~study.deleted
    /\ rdr' = [rdr EXCEPT ![r] = [IdleRdr EXCEPT !.pc = "read", !.vers = DefaultVersions]]
    /\ UNCHANGED <<study, data, fields, cold, cache, mgr, wrt, clock, nextVer, failed>>

ReadData(r) ==
    /\ rdr[r].pc = "read"
    /\ rdr' = [rdr EXCEPT ![r] =
          [pc |-> "fill", vers |-> {},
           seen |-> {d.time : d \in {e \in data : e.ver \in rdr[r].vers}},
           had |-> {d.time : d \in data}]]
    /\ UNCHANGED <<study, data, fields, cold, cache, mgr, wrt, clock, nextVer, failed>>

FillCache(r) ==
    /\ rdr[r].pc = "fill"
    /\ Cardinality(cache) < MaxFills
    /\ cache' = cache \cup {[seen |-> rdr[r].seen, had |-> rdr[r].had,
                            born |-> nextVer, inuse |-> TRUE]}
    /\ rdr' = [rdr EXCEPT ![r] = IdleRdr]
    /\ UNCHANGED <<study, data, fields, cold, mgr, wrt, clock, nextVer, failed>>

-----------------------------------------------------------------------------

MgrStep(m) ==
    \/ StampData(m) \/ StampFields(m) \/ OutdateCache(m)
    \/ CopyBatch(m) \/ CopyDone(m) \/ PublishVersion(m)
    \/ SetCurrentWrite(m) \/ DeleteStudyFields(m) \/ DeleteStudyData(m)

MgrRequest(m) ==
    \/ \E name \in Names, sync \in BOOLEAN : CreateDataVersion(m, name, sync)
    \/ \E i \in 1..Len(study.versions) : SetCurrentRead(m, i)
    \/ DeleteStudy(m)
    \/ FailVersion(m)

WrtNext(w) ==
    \/ \E f \in Fields : EditField(w, f) \/ DeleteField(w, f)
    \/ \E f \in Fields, s \in Subjects : UploadData(w, f, s) \/ DeleteData(w, f, s)
    \/ InsertField(w) \/ InsertClip(w) \/ InsertMarker(w)

RdrNext(r) == ReadStudy(r) \/ ReadData(r) \/ FillCache(r)

Next ==
    \/ \E m \in Managers : MgrStep(m) \/ MgrRequest(m)
    \/ \E w \in Writers : WrtNext(w)
    \/ \E r \in Readers : RdrNext(r)
    \/ \E f \in Fields : CreateField(f)

Spec == Init /\ [][Next]_vars

\* A request that has begun is driven by the event loop: each database call of
\* it is answered, with a result or (FailVersion) a rejection.
FairSpec == Spec /\ \A m \in Managers : WF_vars(MgrStep(m))

-----------------------------------------------------------------------------
(* Type invariant.                                                         *)

\* Every collection holds documents of its shape, and the requests' progress
\* records are those of their handlers (studyCore.ts, dataCore.ts).
TypeOK ==
    /\ study \in StudyDoc
    /\ data \subseteq DataDoc /\ fields \subseteq FieldDoc
    /\ cold \subseteq ColdDoc /\ cache \subseteq CacheEntry
    /\ mgr \in [Managers -> MgrState]
    /\ wrt \in [Writers -> WrtState]
    /\ rdr \in [Readers -> RdrState]
    /\ clock \in Nat \ {0} /\ nextVer \in Nat \ {0} /\ failed \subseteq Nat

-----------------------------------------------------------------------------
(* Safety.                                                                 *)

\* dataVersions[currentDataVersion] is a version whenever one has been created
\* (types/study.ts), whichever of creation and selection comes last.
CurrentIsListed ==
    IF study.versions = <<>> THEN study.current = -1
                             ELSE study.current \in 0..(Len(study.versions) - 1)

\* A stamped document is not lost to readers: its version is listed, or is being
\* created by a request that will list it, or was given up by one that died.
NoOrphanVersion ==
    \A d \in data \cup fields :
        d.ver # Null => d.ver \in Listed \/ InFlight(d.ver) \/ d.ver \in failed

\* A clip never gets ahead of its field: once the stamping that took a clip is
\* over, some document of the clip's field is versioned as well.  This is why
\* createDataVersion stamps the clips before the fields.
FieldStampPending(v) ==
    \/ v \in failed
    \/ \E m \in Managers : mgr[m].ver = v /\ mgr[m].pc = "stampFields"

VersionedDataHasVersionedField ==
    \A d \in data : d.ver # Null /\ ~d.marker =>
        \/ \E f \in fields : f.field = d.field /\ f.ver # Null
        \/ FieldStampPending(d.ver)

\* The versions are an append-only log of frozen document sets: whatever other
\* requests do, no document enters or leaves a version once it is listed.
LogIds == [i \in 1..Len(study.versions) |-> study.versions[i].id]
LogContent == [v \in Listed |-> {d.time : d \in {e \in data \cup fields : e.ver = v}}]

Log == INSTANCE VersionLog WITH published <- LogIds, content <- LogContent

ImplementsVersionLog == Log!Spec

\* Cold storage misses no key: when the copy of a version is over, every clip of
\* it has a document of its key there, the last incomplete batch included.
ColdCovers ==
    \A m \in Managers : mgr[m].pc = "publish" /\ mgr[m].sync =>
        \A d \in data : d.ver = mgr[m].ver => \E c \in cold : Key(c) = Key(d)

\* Cold storage never makes up a value: each of its documents is the copy of a
\* clip stamped with the version it shows.
ColdIsCopy ==
    \A c \in cold : \E d \in data : d.ver # Null /\ ColdCopy(d, d.ver) = c

\* A cached answer in use is younger than every listed version: creating a
\* version outdates all entries stored before the creation began.
CacheOutdatedByVersion ==
    \A e \in cache : e.inuse => \A v \in Listed : v < e.born

-----------------------------------------------------------------------------
(* Liveness.                                                               *)

\* A stamped clip becomes readable: its version is eventually listed, unless the
\* creating request died on the way.
StampedIsPublished ==
    \A v \in 1..MaxVersion :
        (\E d \in data : d.ver = v) ~> (v \in Listed \/ v \in failed)
=============================================================================
