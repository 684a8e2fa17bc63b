------------------------------ MODULE FileStore ------------------------------
(***************************************************************************)
(* Files and the configuration they are stored by (fileCore.ts,            *)
(* configCore.ts, objStore.ts, the upload of the REST server in            *)
(* commonMiddleware.ts), and the studies whose profiles and data they are   *)
(* (studyCore.ts, dataCore.ts).                                            *)
(*                                                                         *)
(* An upload reads a configuration, receives a stream, finds or makes a    *)
(* bucket, puts the object there and inserts an entry for it, one call     *)
(* after another; a download reads the entry and goes to the bucket the    *)
(* default settings name.  Administrators edit configurations meanwhile.   *)
(*                                                                         *)
(* A file's id stands for its uri too; sizes are a few numbers.  Left out: *)
(* names, types, hashes and contents of files, names of studies, who may   *)
(* ask for what, documents of drives, and limits other than a file's size  *)
(* (the sum of a user's files is read from a cursor as 0, so that his       *)
(* second limit is one more limit on the size of a file).                  *)
(***************************************************************************)
EXTENDS Naturals

CONSTANTS
    Users, Bare,  \* users, and those for whom no configuration is inserted (seed users)
    Studies, Files,
    Elsewhere,    \* a bucket no default setting names
    MaxSize,      \* sizes of files are 1..MaxSize
    Default,      \* the limit of the default settings
    Requests,     \* requests under way at the API server
    MaxBegun,     \* bound on requests
    MaxFaults,    \* bound on failing calls and restarts
    Null

VARIABLES
    configs,  \* configs_collection, by type and key
    studies,  \* studies_collection
    files,    \* files_collection
    clips,    \* files that are values of clips of data_collection
    buckets, objects,  \* the object store
    req,      \* progress of each request
    begun, faults,
    lost      \* files whose request died (history variable)

storing == <<configs, studies, files, clips, buckets, objects, req, begun, faults, lost>>

-----------------------------------------------------------------------------

Shared == {"SYSTEMCONFIG", "DOCCONFIG", "CACHECONFIG", "DOMAINCONFIG"}
ConfigKeys == (Shared \X {Null}) \cup ({"USERCONFIG"} \X Users)
                  \cup ({"STUDYCONFIG"} \X (Studies \cup {Null}))

\* The bucket of the default settings; a configuration of a study names none.
DefaultBucket(type) ==
    CASE type = "SYSTEMCONFIG" -> "profile" [] type = "DOCCONFIG" -> "doc"
      [] type = "CACHECONFIG" -> "cache"    [] type = "DOMAINCONFIG" -> "domain"
      [] type = "USERCONFIG" -> "user"      [] type = "STUDYCONFIG" -> Null

Buckets == {"profile", "doc", "cache", "domain", "user", Elsewhere} \cup Studies
Config == [bucket : Buckets \cup {Null}, limit : 1..MaxSize, live : BOOLEAN]
DefaultSettings(type) == [bucket |-> DefaultBucket(type), limit |-> Default, live |-> TRUE]

Categories == {"STUDY_DATA_FILE", "USER_DRIVE_FILE", "DOC_FILE", "CACHE", "PROFILE_FILE",
               "DOMAIN_FILE"}
Owners == Studies \cup Users \cup {Null}
File == [category : Categories, owner : Owners, size : 1..MaxSize, live : BOOLEAN]

Study == [state : {"none", "live", "deleted"}, profile : Files \cup {Null}]

\* What a request does: `then` is what follows the upload.
Steps == {"idle", "study", "check", "config", "bucket", "make", "put", "entry", "then",
          "markfiles", "markconfigs"}
Sequels == {"done", "clip", "profile", "edit", "direct"}
Request == [pc : Steps, then : Sequels, file : Files \cup {Null}, category : Categories,
            owner : Owners, size : 0..MaxSize, limit : 0..MaxSize,
            bucket : Buckets \cup {Null}, old : Files \cup {Null}]

\* What the constants are meant to be.
ConstantsOK ==
    /\ Bare \subseteq Users /\ Default \in 1..MaxSize
    /\ MaxSize \in Nat /\ MaxBegun \in Nat /\ MaxFaults \in Nat
    /\ Null \notin Users \cup Files \cup Config \cup File

Idle == [pc |-> "idle", then |-> "done", file |-> Null, category |-> "CACHE", owner |-> Null,
         size |-> 0, limit |-> 0, bucket |-> Null, old |-> Null]

Init ==
    /\ configs = [k \in ConfigKeys |->
                    IF k[1] = "STUDYCONFIG" \/ k[2] \in Bare THEN Null
                    ELSE DefaultSettings(k[1])]
    /\ studies = [s \in Studies |-> [state |-> "none", profile |-> Null]]
    /\ files = [f \in Files |-> Null] /\ clips = {}
    /\ buckets = {} /\ objects = {}
    /\ req = [q \in Requests |-> Idle]
    /\ begun = 0 /\ faults = 0 /\ lost = {}

Store == <<files, clips, buckets, objects, lost>>

-----------------------------------------------------------------------------
(* Configurations.                                                         *)

\* A configuration is found whether or not it was deleted; the defaults stand in for a missing one.
Found(k) == IF configs[k] # Null THEN configs[k] ELSE DefaultSettings(k[1])

\* The configuration an upload looks for.  The direct upload asks before it knows the study.
KeyOf(r) ==
    CASE r.category = "STUDY_DATA_FILE" ->
            <<"STUDYCONFIG", IF r.then = "direct" THEN Null ELSE r.owner>>
      [] r.category = "USER_DRIVE_FILE" -> <<"USERCONFIG", r.owner>>
      [] r.category = "DOC_FILE" -> <<"DOCCONFIG", Null>>
      [] r.category = "CACHE" -> <<"CACHECONFIG", Null>>
      [] r.category = "PROFILE_FILE" -> <<"SYSTEMCONFIG", Null>>
      [] r.category = "DOMAIN_FILE" -> <<"DOMAINCONFIG", Null>>

\* Mutant of Matches: anything will do (and what is asked for at all).
MatchesAny(type, bucket) == (bucket = Null) = (type = "STUDYCONFIG")
\* Whether the properties given fit the type, as editConfig tells.
Matches(type, bucket) ==
    CASE type \in {"DOCCONFIG", "CACHECONFIG", "DOMAINCONFIG"} -> bucket = DefaultBucket(type)
      [] type = "STUDYCONFIG" -> bucket = Null
      [] OTHER -> bucket # Null

EditConfig(k, bucket, limit) ==
    /\ begun < MaxBegun /\ begun' = begun + 1
    /\ Matches(k[1], bucket)
    /\ configs[k] # Null /\ configs[k].live
    /\ configs' = [configs EXCEPT ![k].bucket = bucket, ![k].limit = limit]
    /\ UNCHANGED <<studies, Store, req, faults>>

\* Nothing is compared with the type here; the index on type and key refuses a second one.
CreateConfig(k, bucket, limit) ==
    /\ begun < MaxBegun /\ begun' = begun + 1
    /\ configs[k] = Null
    /\ configs' = [configs EXCEPT ![k] = [bucket |-> bucket, limit |-> limit, live |-> TRUE]]
    /\ UNCHANGED <<studies, Store, req, faults>>

-----------------------------------------------------------------------------
(* Requests.                                                               *)

Goto(q, step) == req' = [req EXCEPT ![q].pc = step]
End(q) == req' = [req EXCEPT ![q] = Idle]

Fresh(f) == files[f] = Null /\ f \notin lost /\ \A q \in Requests : req[q].file # f
                /\ \A b \in buckets : <<b, f>> \notin objects

MayBegin(q) == req[q].pc = "idle" /\ begun < MaxBegun
\* `r` begins in q: an upload of a new file.
Begin(q, step, then, f, category, owner, size, old) ==
    /\ MayBegin(q)
    /\ f # Null => Fresh(f)
    /\ LET r == [Idle EXCEPT !.pc = step, !.then = then, !.file = f, !.category = category,
                             !.owner = owner, !.size = size, !.old = old]
       IN  req' = [req EXCEPT ![q] = r]
    /\ begun' = begun + 1
    /\ UNCHANGED <<configs, studies, Store, faults>>

\* A file of a drive, a cached answer or the logo of a domain.
Upload(q, f, category, owner, size) ==
    /\ <<category, owner>> \in ({"USER_DRIVE_FILE", "PROFILE_FILE"} \X Users)
                                  \cup ({"CACHE", "DOMAIN_FILE"} \X {Null})
    /\ Begin(q, "check", "done", f, category, owner, size, Null)

\* uploadFileData: roles, the study and the type of the file are checked before.
UploadFileData(q, f, s, size) ==
    /\ studies[s].state = "live"
    /\ Begin(q, "check", "clip", f, "STUDY_DATA_FILE", s, size, Null)

\* The REST server checks neither roles nor the study before it stores the object.
UploadDirect(q, f, s, size) ==
    /\ Begin(q, "config", "direct", f, "STUDY_DATA_FILE", s, size, Null)

\* The configuration of a study is inserted before the study, and the profile comes last.
CreateStudy(q, f, s, size) ==
    /\ MayBegin(q)
    /\ studies[s].state = "none" /\ configs[<<"STUDYCONFIG", s>>] = Null
    /\ f # Null => Fresh(f)
    /\ configs' = [configs EXCEPT ![<<"STUDYCONFIG", s>>] = DefaultSettings("STUDYCONFIG")]
    /\ req' = [req EXCEPT ![q] = [Idle EXCEPT !.pc = "study", !.then = "profile", !.file = f,
                                          !.category = "PROFILE_FILE", !.owner = s, !.size = size]]
    /\ begun' = begun + 1
    /\ UNCHANGED <<studies, Store, faults>>

InsertStudy(q) ==
    /\ req[q].pc = "study"
    /\ studies' = [studies EXCEPT ![req[q].owner].state = "live"]
    /\ IF req[q].file = Null THEN End(q) ELSE Goto(q, "check")
    /\ UNCHANGED <<configs, Store, begun, faults>>

\* editStudy reads the study, whose profile it will set again if the upload fails.
EditStudy(q, f, s, size) ==
    /\ studies[s].state = "live"
    /\ Begin(q, "check", "edit", f, "PROFILE_FILE", s, size, studies[s].profile)

\* An upload that fails is the end of its request, except that editStudy catches it.
FailUpload(q) ==
    IF req[q].then = "edit"
    THEN req' = [req EXCEPT ![q].pc = "then", ![q].file = req[q].old]
    ELSE End(q)

CheckStudy(q) ==
    /\ req[q].pc = "check"
    /\ IF req[q].owner \in Studies => studies[req[q].owner].state = "live"
       THEN Goto(q, "config") ELSE FailUpload(q)
    /\ UNCHANGED <<configs, studies, Store, begun, faults>>

\* The limit is read once, before the stream; the bucket of a study's data is the study's.
ReadConfig(q) ==
    LET c == Found(KeyOf(req[q]))
    IN  /\ req[q].pc = "config"
        /\ req' = [req EXCEPT ![q].pc = "bucket", ![q].limit = c.limit,
                     ![q].bucket = IF req[q].category = "STUDY_DATA_FILE"
                                   THEN req[q].owner ELSE c.bucket]
        /\ UNCHANGED <<configs, studies, Store, begun, faults>>

\* The stream has ended, or is destroyed when it exceeds the limit.
FindBucket(q) ==
    /\ req[q].pc = "bucket"
    /\ IF req[q].size > req[q].limit THEN FailUpload(q)
       ELSE Goto(q, IF req[q].bucket \in buckets THEN "put" ELSE "make")
    /\ UNCHANGED <<configs, studies, Store, begun, faults>>

\* makeBucket refuses a bucket another request has made since.
MakeBucket(q) ==
    /\ req[q].pc = "make"
    /\ IF req[q].bucket \in buckets THEN FailUpload(q) ELSE Goto(q, "put")
    /\ buckets' = buckets \cup {req[q].bucket}
    /\ UNCHANGED <<configs, studies, files, clips, objects, begun, faults, lost>>

\* The direct upload turns to the data before it enters the file.
PutObject(q) ==
    /\ req[q].pc = "put"
    /\ objects' = objects \cup {<<req[q].bucket, req[q].file>>}
    /\ Goto(q, IF req[q].then = "direct" THEN "then" ELSE "entry")
    /\ UNCHANGED <<configs, studies, files, clips, buckets, begun, faults, lost>>

EntryOf(r) == [category |-> r.category, owner |-> r.owner, size |-> r.size, live |-> TRUE]
InsertFile(q) ==
    /\ req[q].pc = "entry"
    /\ files' = [files EXCEPT ![req[q].file] = EntryOf(req[q])]
    /\ IF req[q].then \in {"done", "direct"} THEN End(q) ELSE Goto(q, "then")
    /\ UNCHANGED <<configs, studies, clips, buckets, objects, begun, faults, lost>>

\* The clip of a file: the study must be live, and the clip may be refused.
InsertClip(q) ==
    /\ req[q].pc = "then" /\ req[q].then \in {"clip", "direct"}
    /\ \/ /\ studies[req[q].owner].state = "live"
          /\ clips' = clips \cup {req[q].file}
          /\ IF req[q].then = "direct" THEN Goto(q, "entry") ELSE End(q)
       \/ End(q) /\ UNCHANGED clips
    /\ UNCHANGED <<configs, studies, files, buckets, objects, begun, faults, lost>>

\* The study is not looked at again: a deleted one is given its profile too.
SetProfile(q) ==
    /\ req[q].pc = "then" /\ req[q].then \in {"profile", "edit"}
    /\ studies' = [studies EXCEPT ![req[q].owner].profile = req[q].file]
    /\ End(q)
    /\ UNCHANGED <<configs, Store, begun, faults>>

DeleteStudy(q, s) ==
    /\ MayBegin(q)
    /\ studies[s].state = "live"
    /\ studies' = [studies EXCEPT ![s].state = "deleted"]
    /\ req' = [req EXCEPT ![q].pc = "markfiles", ![q].owner = s]
    /\ begun' = begun + 1
    /\ UNCHANGED <<configs, Store, faults>>

\* Files of the study by studyId: data files and its profile.
MarkFiles(q) ==
    /\ req[q].pc = "markfiles"
    /\ files' = [f \in Files |-> IF files[f] # Null /\ files[f].owner = req[q].owner
                                 THEN [files[f] EXCEPT !.live = FALSE] ELSE files[f]]
    /\ Goto(q, "markconfigs")
    /\ UNCHANGED <<configs, studies, clips, buckets, objects, begun, faults, lost>>

MarkConfigs(q) ==
    LET k == <<"STUDYCONFIG", req[q].owner>>
        c == IF configs[k] = Null THEN configs ELSE [configs EXCEPT ![k].live = FALSE]
    IN  /\ req[q].pc = "markconfigs"
        /\ configs' = c /\ End(q)
        /\ UNCHANGED <<studies, Store, begun, faults>>

\* A call of a request fails, or the server restarts and all requests are gone.
Fail(q) ==
    /\ req[q].pc # "idle" /\ faults < MaxFaults
    /\ IF req[q].pc \in {"check", "config", "bucket", "make", "put", "entry"}
       THEN FailUpload(q) ELSE End(q)
    /\ lost' = lost \cup ({req[q].file} \ {Null}) /\ faults' = faults + 1
    /\ UNCHANGED <<configs, studies, files, clips, buckets, objects, begun>>
Restart ==
    /\ faults < MaxFaults /\ \E q \in Requests : req[q].pc # "idle"
    /\ req' = [q \in Requests |-> Idle]
    /\ lost' = lost \cup ({req[q].file : q \in Requests} \ {Null}) /\ faults' = faults + 1
    /\ UNCHANGED <<configs, studies, files, clips, buckets, objects, begun>>

-----------------------------------------------------------------------------

AskConfig ==
    \E k \in ConfigKeys, bucket \in Buckets \cup {Null}, limit \in 1..MaxSize :
       /\ k[2] \in Studies => studies[k[2]].state # "none"
       /\ MatchesAny(k[1], bucket) /\ (bucket \in {DefaultBucket(k[1]), Elsewhere})
       /\ EditConfig(k, bucket, limit) \/ CreateConfig(k, bucket, limit)

AskFile(q) ==
    \E f \in Files, size \in 1..MaxSize :
       \/ \E category \in Categories, o \in Users \cup {Null} : Upload(q, f, category, o, size)
       \/ \E s \in Studies : \/ UploadFileData(q, f, s, size) \/ UploadDirect(q, f, s, size)
                             \/ EditStudy(q, f, s, size)

AskStudy(q) ==
    \E s \in Studies : \/ CreateStudy(q, Null, s, 0) \/ DeleteStudy(q, s)
                       \/ \E f \in Files, size \in 1..MaxSize : CreateStudy(q, f, s, size)

Continue(q) ==
    \/ InsertStudy(q) \/ CheckStudy(q) \/ ReadConfig(q) \/ FindBucket(q) \/ MakeBucket(q)
    \/ PutObject(q) \/ InsertFile(q) \/ InsertClip(q) \/ SetProfile(q)
    \/ MarkFiles(q) \/ MarkConfigs(q) \/ Fail(q)

Next ==
    \/ begun < MaxBegun /\ AskConfig
    \/ \E q \in Requests : \/ MayBegin(q) /\ (AskFile(q) \/ AskStudy(q))
                           \/ Continue(q)
    \/ Restart

Spec == Init /\ [][Next]_storing

-----------------------------------------------------------------------------

TypeOK ==
    /\ configs \in [ConfigKeys -> Config \cup {Null}]
    /\ studies \in [Studies -> Study]
    /\ files \in [Files -> File \cup {Null}]
    /\ clips \subseteq Files /\ lost \subseteq Files
    /\ buckets \subseteq Buckets /\ objects \subseteq buckets \X Files
    /\ req \in [Requests -> Request]
    /\ begun \in 0..MaxBegun /\ faults \in 0..MaxFaults

\* Where fileDownload.ts looks for a file: the bucket of the default settings, not that of the
\* configuration the file was stored by.
DownloadBucket(f) ==
    IF files[f].category = "STUDY_DATA_FILE" THEN files[f].owner
    ELSE DefaultBucket(KeyOf([category |-> files[f].category, owner |-> files[f].owner])[1])
Retrieved(f) == files[f] # Null /\ <<DownloadBucket(f), f>> \in objects

\* Data files, cached answers and logos can be downloaded from the moment they are listed,
\* whatever configurations were created or edited: the download goes by the default
\* settings (fileDownload.ts:122-133, cache.ts) and the upload by the configuration
\* (fileCore.ts:62-97), which agree only because editConfig compares the bucket of such a
\* configuration (configCore.ts:93-98).  Files of drives and profiles have no such check.
Downloadable ==
    \A f \in Files :
       files[f] # Null /\ files[f].category \in {"STUDY_DATA_FILE", "CACHE", "DOMAIN_FILE"}
          => Retrieved(f)

\* A clip that names a file names one that can be downloaded, unless the direct upload that
\* entered the clip before the file (commonMiddleware.ts:135-145) still runs or has died.
ClipsReadable ==
    \A f \in clips :
       \/ Retrieved(f) \/ f \in lost
       \/ \E q \in Requests : req[q].then = "direct" /\ req[q].file = f

\* All of it: what is listed as a file can be read.
FilesReadable == Downloadable /\ ClipsReadable
=============================================================================
