-------------------------- MODULE ServerDataProofs --------------------------
(***************************************************************************)
(* What is proved of the parts of Server that keep data: files and their     *)
(* objects, the WebDAV drives, the summaries of the log, and the answers to  *)
(* questions about a study's data.                                           *)
(***************************************************************************)
EXTENDS ServerProofs, WellFoundedInduction

-----------------------------------------------------------------------------
(* FileStore: an upload that has got as far as its entry has put the object    *)
(* where a download will look, and no two of them are about one file.          *)

\* The categories that are downloaded by the default settings they are stored by.
Steady == {"STUDY_DATA_FILE", "CACHE", "DOMAIN_FILE"}

SettingsOK ==
    /\ settings \in [F!ConfigKeys -> F!Config \cup {Null}]
    /\ \A type \in {"CACHECONFIG", "DOMAINCONFIG"} :
          /\ settings[<<type, Null>>] \in F!Config
          /\ settings[<<type, Null>>].bucket = F!DefaultBucket(type)

\* Where the file of a request belongs.
Home(r) == CASE r.category = "STUDY_DATA_FILE" -> r.owner
             [] r.category = "CACHE" -> "cache"
             [] r.category = "DOMAIN_FILE" -> "domain"

\* The file of a request has no entry yet.
Uploading(r) ==
    /\ r.file # Null
    /\ \/ r.pc \in {"study", "check", "config", "bucket", "make", "put", "entry"}
       \/ (r.pc = "then" /\ r.then = "direct")

\* A request's record, whatever the store holds.
Formed(r) ==
    /\ r \in F!Request
    /\ r.pc = "idle" => r = F!Idle
    /\ r.category = "STUDY_DATA_FILE" <=> r.then \in {"clip", "direct"}
    /\ r.category = "USER_DRIVE_FILE" => r.owner \in Users
    /\ r.then \in {"clip", "direct", "profile", "edit"} => r.owner \in Studies
    /\ r.pc \in {"study", "markfiles", "markconfigs"} => r.owner \in Studies
    /\ r.pc \in {"markfiles", "markconfigs"} => r.then = "done"
    /\ r.pc \in {"check", "config", "bucket", "make", "put", "entry"} => r.file # Null
    /\ r.pc = "then" /\ r.then \in {"clip", "direct"} => r.file # Null
    /\ r.pc \in {"bucket", "make", "put"} /\ r.category \in Steady => r.bucket = Home(r)
    /\ Uploading(r) => r.size # 0

\* ... and what the store holds of it.
Placed(r) ==
    /\ r.category \in Steady /\ (r.pc = "entry" \/ (r.pc = "then" /\ r.then = "direct"))
         => <<Home(r), r.file>> \in objects
    /\ r.pc = "then" /\ r.then = "clip" => F!Retrieved(r.file)
    /\ Uploading(r) => files[r.file] = Null
    /\ r.then = "direct" /\ Uploading(r) /\ r.pc # "entry" => r.file \notin filed

StoreTyped ==
    /\ studies \in [Studies -> F!Study]
    /\ files \in [Files -> F!File \cup {Null}]
    /\ filed \subseteq Files
    /\ transfer \in [Requests -> F!Request]

FilesInv ==
    /\ SettingsOK /\ StoreTyped
    /\ \A q \in Requests : Formed(transfer[q]) /\ Placed(transfer[q])
    /\ \A p, q \in Requests :
          Uploading(transfer[p]) /\ Uploading(transfer[q]) /\ transfer[p].file = transfer[q].file
             => p = q
    /\ F!FilesReadable


\* A request does as it does and the others wait: what the store may do meanwhile.
Carries(q) ==
    /\ \A p \in Requests : p # q => transfer'[p] = transfer[p]
    /\ SettingsOK' /\ StoreTyped'
    /\ Formed(transfer[q])' /\ Placed(transfer[q])'
    /\ objects \subseteq objects' /\ lost \subseteq lost'
    /\ Uploading(transfer[q])'
         => \/ Uploading(transfer[q]) /\ transfer'[q].file = transfer[q].file
            \/ \A p \in Requests : transfer[p].file # transfer'[q].file

\* Entries stay, and one that is new is of the file of the request.
Enters(q) ==
    \A f \in Files :
       IF files[f] # Null
       THEN /\ files'[f] # Null /\ files'[f].category = files[f].category
            /\ files'[f].owner = files[f].owner
       ELSE files'[f] # Null =>
               /\ Uploading(transfer[q]) /\ transfer[q].file = f
               /\ files'[f].category \in Steady => F!Retrieved(f)'

\* Clips stay readable, and one that is new is of the file of the request.
Clips(q) ==
    /\ \A f \in filed' \ filed : (Uploading(transfer[q]) /\ transfer[q].file = f) \/ files[f] # Null
    /\ \A f \in filed' :
          \/ F!Retrieved(f)' \/ f \in lost'
          \/ /\ transfer'[q].then = "direct"
             /\ transfer'[q].file = f
          \/ (f \in filed /\ ~(transfer[q].then = "direct" /\ transfer[q].file = f))

\* What a request does to the store leaves the others as they were.
LEMMA StoreMoves ==
    ASSUME FilesInv, NEW q \in Requests, Carries(q), Enters(q), Clips(q)
    PROVE  FilesInv'
<1>1. ASSUME NEW f \in Files, F!Retrieved(f)
      PROVE  F!Retrieved(f)'
  <2>1. F!DownloadBucket(f)' = F!DownloadBucket(f)
    <3>1. files'[f].category = files[f].category /\ files'[f].owner = files[f].owner
      BY <1>1 DEF Enters, F!Retrieved
    <3>. QED
      BY <3>1, Zenon DEF F!DownloadBucket
  <2>. QED
    BY <1>1, <2>1 DEF Enters, Carries, F!Retrieved
<1>2. ASSUME NEW p \in Requests
      PROVE  Formed(transfer[p])' /\ Placed(transfer[p])'
  <2>1. CASE p = q
    BY <2>1 DEF Carries
  <2>2. CASE p # q
    <3>1. /\ transfer'[p] = transfer[p] /\ Formed(transfer[p]) /\ Placed(transfer[p])
          /\ transfer[p] \in F!Request
      BY <2>2 DEF Carries, FilesInv, Formed
    <3>2. Formed(transfer[p])'
      BY <3>1 DEF Formed, Uploading, Home
    <3>3. /\ Home(transfer[p])' = Home(transfer[p])
          /\ Uploading(transfer[p])' = Uploading(transfer[p])
      BY <3>1 DEF Home, Uploading
    <3>4. transfer[p].pc = "then" /\ transfer[p].then = "clip" => F!Retrieved(transfer[p].file)'
      <4>1. SUFFICES ASSUME transfer[p].pc = "then" /\ transfer[p].then = "clip"
                     PROVE  F!Retrieved(transfer[p].file)'
        OBVIOUS
      <4>2. transfer[p].file \in Files /\ F!Retrieved(transfer[p].file)
        BY <3>1, <4>1 DEF Formed, Placed, F!Request
      <4>3. F!Retrieved(transfer[p].file)
        BY <4>2
      <4>4. PICK f \in Files : f = transfer[p].file
        BY <4>2
      <4>5. F!Retrieved(f)'
        BY <1>1, <4>2, <4>4
      <4>6. f = transfer'[p].file
        BY <3>1, <4>4
      <4>. QED
        BY <4>5, <4>6
    <3>5. ASSUME Uploading(transfer[p])
          PROVE  /\ transfer[p].file \in Files /\ files'[transfer[p].file] = Null
                 /\ transfer[p].file \notin filed' \ filed
      <4>1. transfer[p].file \in Files /\ files[transfer[p].file] = Null
        BY <3>1, <3>5 DEF Uploading, Placed, F!Request
      <4>2. ~(Uploading(transfer[q]) /\ transfer[q].file = transfer[p].file)
        BY <2>2, <3>5 DEF FilesInv
      <4>. QED
        BY <4>1, <4>2 DEF Enters, Clips
    <3>6. Placed(transfer[p])'
      BY <3>1, <3>3, <3>4, <3>5 DEF Placed, Carries
    <3>. QED
      BY <3>2, <3>6
  <2>. QED
    BY <2>1, <2>2
<1>3. ASSUME NEW p \in Requests, NEW o \in Requests,
             Uploading(transfer[p])', Uploading(transfer[o])', transfer'[p].file = transfer'[o].file
      PROVE  p = o
  <2>1. ASSUME NEW x \in Requests, x # q
        PROVE  transfer'[x] = transfer[x] /\ Uploading(transfer[x])' = Uploading(transfer[x])
    BY <2>1 DEF Carries, Uploading
  <2>. QED
    BY <1>3, <2>1 DEF Carries, FilesInv
<1>4. F!Downloadable'
  <2>1. ASSUME NEW f \in Files, files'[f] # Null, files'[f].category \in Steady
        PROVE  F!Retrieved(f)'
    BY <1>1, <2>1 DEF Enters, FilesInv, F!FilesReadable, F!Downloadable, Steady
  <2>. QED
    BY <2>1 DEF F!Downloadable, Steady
<1>5. F!ClipsReadable'
  <2>1. ASSUME NEW f \in filed'
        PROVE  \/ F!Retrieved(f)' \/ f \in lost'
               \/ \E p \in Requests : transfer'[p].then = "direct" /\ transfer'[p].file = f
    <3>1. CASE f \in filed /\ ~(transfer[q].then = "direct" /\ transfer[q].file = f)
      <4>1. \/ F!Retrieved(f) \/ f \in lost
            \/ \E p \in Requests \ {q} : transfer[p].then = "direct" /\ transfer[p].file = f
        BY <3>1 DEF FilesInv, F!FilesReadable, F!ClipsReadable
      <4>2. f \in Files
        BY <2>1 DEF Carries, StoreTyped
      <4>. QED
        BY <1>1, <4>1, <4>2 DEF Carries
    <3>. QED
      BY <2>1, <3>1 DEF Clips
  <2>. QED
    BY <2>1 DEF F!ClipsReadable
<1>. QED
  BY <1>2, <1>3, <1>4, <1>5 DEF FilesInv, Carries, F!FilesReadable

\* ... when neither entries nor clips change.
LEMMA QuietMoves ==
    ASSUME FilesInv, NEW q \in Requests, Carries(q), UNCHANGED <<files, filed>>,
           transfer[q].then = "direct" /\ transfer[q].file \in filed
             => \/ transfer[q].file \in lost'
                \/ transfer'[q].then = "direct" /\ transfer'[q].file = transfer[q].file
    PROVE  FilesInv'
<1>1. Enters(q)
  BY DEF Enters
<1>2. Clips(q)
  BY DEF Clips
<1>. QED
  BY <1>1, <1>2, StoreMoves

\* An idle request uploads nothing, and has the fields of one.
LEMMA IdleForm ==
    /\ F!Idle \in F!Request /\ Formed(F!Idle)
    /\ F!Idle.pc = "idle" /\ F!Idle.then = "done" /\ F!Idle.category = "CACHE"
    /\ ~Uploading(F!Idle)
<1>1. F!Idle \in F!Request
  BY FilesAssumption DEF F!Idle, F!Request, F!Steps, F!Sequels, F!Categories, F!Owners, F!ConstantsOK
<1>2. F!Idle.pc = "idle" /\ F!Idle.then = "done" /\ F!Idle.category = "CACHE"
  BY DEF F!Idle
<1>. QED
  BY <1>1, <1>2 DEF Formed, Uploading

\* The end of a request.
LEMMA EndKeeps ==
    ASSUME FilesInv, NEW q \in Requests, transfer' = [transfer EXCEPT ![q] = F!Idle],
           SettingsOK', studies' \in [Studies -> F!Study], objects \subseteq objects',
           lost \subseteq lost', UNCHANGED <<files, filed>>,
           transfer[q].then = "direct" /\ transfer[q].file \in filed => transfer[q].file \in lost'
    PROVE  FilesInv'
<1>1. transfer'[q] = F!Idle /\ StoreTyped'
  BY IdleForm DEF FilesInv, StoreTyped
<1>2. Formed(transfer[q])'
  BY <1>1, IdleForm DEF Formed, Uploading, Home
<1>3. ~Uploading(transfer[q])'
  BY <1>1, IdleForm DEF Uploading
<1>4. Placed(transfer[q])'
  BY <1>1, <1>3, IdleForm DEF Placed
<1>5. Carries(q)
  BY <1>1, <1>2, <1>3, <1>4 DEF Carries
<1>. QED
  BY <1>5, QuietMoves

\* An upload fails: editStudy goes on with the profile it read.
LEMMA FailUploadKeeps ==
    ASSUME FilesInv, NEW q \in Requests, F!FailUpload(q),
           UNCHANGED <<settings, studies, files, filed, objects>>, lost \subseteq lost',
           transfer[q].then = "direct" /\ transfer[q].file \in filed => transfer[q].file \in lost'
    PROVE  FilesInv'
<1>. DEFINE r == transfer[q]
<1>1. /\ r \in F!Request /\ Formed(r) /\ transfer \in [Requests -> F!Request]
      /\ SettingsOK' /\ studies' \in [Studies -> F!Study]
  BY DEF FilesInv, StoreTyped, SettingsOK
<1>2. CASE r.then = "edit"
  <2>1. transfer'[q] = [r EXCEPT !.pc = "then", !.file = r.old]
    BY <1>1, <1>2 DEF F!FailUpload
  <2>2. /\ transfer'[q] \in F!Request /\ transfer'[q].pc = "then" /\ transfer'[q].then = "edit"
        /\ transfer'[q].owner = r.owner /\ transfer'[q].category = r.category
    BY <1>1, <1>2, <2>1 DEF F!Request, F!Steps
  <2>3. ~Uploading(transfer[q])'
    BY <2>2 DEF Uploading
  <2>4. Formed(transfer[q])'
    BY <1>1, <1>2, <2>2, <2>3 DEF Formed, Uploading
  <2>5. Placed(transfer[q])'
    BY <2>2, <2>3 DEF Placed
  <2>6. StoreTyped' /\ \A p \in Requests : p # q => transfer'[p] = transfer[p]
    <3>1. transfer' = [transfer EXCEPT ![q] = transfer'[q]]
      BY <1>1, <1>2, <2>1 DEF F!FailUpload
    <3>. QED
      BY <1>1, <2>2, <3>1 DEF FilesInv, StoreTyped
  <2>7. Carries(q)
    BY <1>1, <2>3, <2>4, <2>5, <2>6 DEF Carries
  <2>. QED
    BY <1>2, <2>7, QuietMoves
<1>3. CASE r.then # "edit"
  BY <1>1, <1>3, EndKeeps DEF F!FailUpload, F!End
<1>. QED
  BY <1>2, <1>3

\* A request goes on to another step, and its record stays the same but for that.
LEMMA GotoKeeps ==
    ASSUME FilesInv, NEW q \in Requests, NEW step \in F!Steps, F!Goto(q, step),
           SettingsOK', studies' \in [Studies -> F!Study], objects \subseteq objects',
           UNCHANGED <<files, filed, lost>>,
           Formed([transfer[q] EXCEPT !.pc = step]),
           transfer[q].category \in Steady
             /\ (step = "entry" \/ (step = "then" /\ transfer[q].then = "direct"))
             => <<Home(transfer[q]), transfer[q].file>> \in objects',
           step = "then" => transfer[q].then # "clip",
           Uploading([transfer[q] EXCEPT !.pc = step]) => Uploading(transfer[q]),
           transfer[q].then = "direct" /\ step # "entry" => transfer[q].pc # "entry"
    PROVE  FilesInv'
<1>. DEFINE r == transfer[q]
<1>1. r \in F!Request /\ Placed(r) /\ transfer \in [Requests -> F!Request]
  BY DEF FilesInv, StoreTyped
<1>2. transfer'[q] = [r EXCEPT !.pc = step] /\ transfer' = [transfer EXCEPT ![q] = transfer'[q]]
  BY <1>1 DEF F!Goto
<1>3. /\ transfer'[q] \in F!Request /\ transfer'[q].pc = step /\ transfer'[q].then = r.then
      /\ transfer'[q].file = r.file /\ transfer'[q].category = r.category
      /\ transfer'[q].owner = r.owner
  BY <1>1, <1>2 DEF F!Request
<1>4. StoreTyped' /\ \A p \in Requests : p # q => transfer'[p] = transfer[p]
  BY <1>1, <1>2, <1>3 DEF FilesInv, StoreTyped
<1>5. Home(transfer[q])' = Home(r) /\ (Uploading(transfer[q])' => Uploading(r))
  BY <1>2, <1>3 DEF Home, Uploading
<1>6. Formed(transfer[q])'
  BY <1>2 DEF Formed, Uploading, Home
<1>7. Placed(transfer[q])'
  BY <1>1, <1>3, <1>5 DEF Placed
<1>8. Carries(q)
  BY <1>3, <1>4, <1>5, <1>6, <1>7 DEF Carries
<1>. QED
  BY <1>3, <1>8, QuietMoves

\* A new file's request begins: nobody knows the file yet.
Begun(q, r) ==
    /\ transfer[q].pc = "idle" /\ transfer' = [transfer EXCEPT ![q] = r]
    /\ r \in F!Request /\ r.pc \in {"study", "check", "config"}
    /\ IF r.file = Null THEN r.pc = "study" /\ r.then = "profile"
       ELSE F!Fresh(r.file) /\ r.size # 0
    /\ r.category = "STUDY_DATA_FILE" <=> r.then \in {"clip", "direct"}
    /\ r.category = "USER_DRIVE_FILE" => r.owner \in Users
    /\ r.then \in {"clip", "direct", "profile", "edit"} \/ r.pc = "study" => r.owner \in Studies

\* Its record is one of a new upload.
LEMMA BeginUpload ==
    ASSUME FilesInv, NEW q \in Requests, NEW r, Begun(q, r),
           SettingsOK', UNCHANGED <<studies, files, filed, objects, lost>>
    PROVE  FilesInv'
<1>1. transfer \in [Requests -> F!Request] /\ transfer[q] = F!Idle
  BY DEF FilesInv, StoreTyped, Formed, Begun
<1>2. transfer'[q] = r /\ r \in F!Request
  BY <1>1 DEF Begun
<1>3. StoreTyped' /\ \A p \in Requests : p # q => transfer'[p] = transfer[p]
  BY <1>1, <1>2 DEF FilesInv, StoreTyped, Begun
<1>4. Formed(transfer[q])'
  BY <1>2 DEF Formed, Uploading, Begun, Home
<1>5. r.file # Null => /\ files[r.file] = Null /\ r.file \notin filed
                       /\ \A p \in Requests : transfer[p].file # r.file
  BY DEF F!Fresh, FilesInv, F!FilesReadable, F!ClipsReadable, F!Retrieved, Begun
<1>6. Placed(transfer[q])'
  BY <1>2, <1>5 DEF Placed, Uploading, Begun
<1>7. Carries(q)
  BY <1>2, <1>3, <1>4, <1>5, <1>6 DEF Carries, Uploading
<1>. QED
  BY <1>1, <1>7, IdleForm, QuietMoves

\* The record a request begins with.
Formal(step, then, f, category, owner, size, old) ==
    \E r \in F!Request :
       /\ r = [F!Idle EXCEPT !.pc = step, !.then = then, !.file = f, !.category = category,
                             !.owner = owner, !.size = size, !.old = old]
       /\ old = Null =>
             r = [F!Idle EXCEPT !.pc = step, !.then = then, !.file = f,
                                !.category = category, !.owner = owner, !.size = size]
       /\ r.pc = step /\ r.then = then /\ r.file = f /\ r.category = category
       /\ r.owner = owner /\ r.size = size

\* It has the fields that were asked for.
LEMMA BeginForm ==
    ASSUME NEW step \in F!Steps, NEW then \in F!Sequels, NEW f \in Files \cup {Null},
           NEW category \in F!Categories, NEW owner \in F!Owners, NEW size \in 0..MaxSize,
           NEW old \in Files \cup {Null}
    PROVE  Formal(step, then, f, category, owner, size, old)
<1>1. PICK c \in F!Request : c = F!Idle
  BY IdleForm
<1>2. c.old = Null
  BY <1>1 DEF F!Idle
<1>. DEFINE r == [c EXCEPT !.pc = step, !.then = then, !.file = f, !.category = category,
                           !.owner = owner, !.size = size, !.old = old]
            s == [c EXCEPT !.pc = step, !.then = then, !.file = f, !.category = category,
                           !.owner = owner, !.size = size]
<1>3. r \in F!Request
  BY <1>1 DEF F!Request
<1>4. /\ r.pc = step /\ r.then = then /\ r.file = f /\ r.category = category
      /\ r.owner = owner /\ r.size = size
  BY <1>1 DEF F!Request
<1>5. old = Null => r = s
  <2>1. s \in F!Request /\ s.old = c.old
    BY <1>1 DEF F!Request
  <2>. QED
    BY <1>1, <1>2, <2>1 DEF F!Request
<1>6. /\ r = [F!Idle EXCEPT !.pc = step, !.then = then, !.file = f, !.category = category,
                            !.owner = owner, !.size = size, !.old = old]
      /\ s = [F!Idle EXCEPT !.pc = step, !.then = then, !.file = f, !.category = category,
                            !.owner = owner, !.size = size]
  BY <1>1
<1>. HIDE DEF r, s
<1>. QED
  BY <1>3, <1>4, <1>5, <1>6 DEF Formal

\* What uploads, edits of a study's profile and new studies are asked for.
LEMMA AskFileKeeps ==
    ASSUME FilesInv, NEW q \in Requests, F!MayBegin(q), F!AskFile(q)
    PROVE  FilesInv'
<1>1. PICK f \in Files, size \in 1..MaxSize :
         \/ \E category \in F!Categories, o \in Users \cup {Null} :
               F!Upload(q, f, category, o, size)
         \/ \E s \in Studies : \/ F!UploadFileData(q, f, s, size) \/ F!UploadDirect(q, f, s, size)
                               \/ F!EditStudy(q, f, s, size)
  BY DEF F!AskFile
<1>2. /\ transfer[q].pc = "idle" /\ f # Null /\ f \in Files \cup {Null}
      /\ size \in 0..MaxSize /\ size # 0 /\ Null \in Files \cup {Null}
  BY FilesAssumption DEF F!MayBegin, F!ConstantsOK
<1>3. ASSUME NEW step \in {"check", "config"}, NEW then \in F!Sequels \ {"profile"},
             NEW category \in F!Categories, NEW owner \in F!Owners,
             NEW old \in Files \cup {Null},
             F!Begin(q, step, then, f, category, owner, size, old),
             category = "STUDY_DATA_FILE" <=> then \in {"clip", "direct"},
             category = "USER_DRIVE_FILE" => owner \in Users,
             then \in {"clip", "direct", "edit"} => owner \in Studies, UNCHANGED studies
      PROVE  FilesInv'
  <2>1. PICK r \in F!Request :
           /\ r = [F!Idle EXCEPT !.pc = step, !.then = then, !.file = f,
                       !.category = category, !.owner = owner, !.size = size, !.old = old]
           /\ r.pc = step /\ r.then = then /\ r.file = f /\ r.category = category
           /\ r.owner = owner /\ r.size = size
    <3>1. step \in F!Steps
      BY DEF F!Steps
    <3>2. Formal(step, then, f, category, owner, size, old)
      BY <1>2, <3>1, BeginForm
    <3>. QED
      BY <3>2 DEF Formal
  <2>2. /\ transfer' = [transfer EXCEPT ![q] = r]
        /\ F!Fresh(f) /\ UNCHANGED <<settings, files, filed, objects, lost>>
    BY <1>2, <1>3, <2>1 DEF F!Begin, F!Store
  <2>3. SettingsOK'
    BY <2>2 DEF FilesInv, SettingsOK
  <2>4. Begun(q, r)
    BY <1>2, <1>3, <2>1, <2>2 DEF Begun
  <2>. QED
    BY <1>3, <2>2, <2>3, <2>4, BeginUpload
<1>4. ASSUME NEW category \in F!Categories, NEW o \in Users \cup {Null},
             F!Upload(q, f, category, o, size)
      PROVE  FilesInv'
  <2>1. /\ F!Begin(q, "check", "done", f, category, o, size, Null)
        /\ category # "STUDY_DATA_FILE" /\ (category = "USER_DRIVE_FILE" => o \in Users)
    BY <1>4 DEF F!Upload
  <2>2. o \in F!Owners /\ "done" \in F!Sequels \ {"profile"} /\ UNCHANGED studies
    BY <2>1 DEF F!Owners, F!Sequels, F!Begin
  <2>. QED
    BY <1>2, <1>3, <2>1, <2>2
<1>5. ASSUME NEW s \in Studies,
             \/ F!UploadFileData(q, f, s, size) \/ F!UploadDirect(q, f, s, size)
             \/ F!EditStudy(q, f, s, size)
      PROVE  FilesInv'
  <2>1. /\ s \in F!Owners /\ {"clip", "direct", "edit"} \subseteq F!Sequels \ {"profile"}
        /\ {"STUDY_DATA_FILE", "PROFILE_FILE"} \subseteq F!Categories
        /\ studies[s].profile \in Files \cup {Null}
    BY DEF F!Owners, F!Sequels, F!Categories, FilesInv, StoreTyped, F!Study
  <2>2. CASE F!UploadFileData(q, f, s, size)
    <3>1. F!Begin(q, "check", "clip", f, "STUDY_DATA_FILE", s, size, Null) /\ UNCHANGED studies
      BY <2>2 DEF F!UploadFileData, F!Begin
    <3>. QED
      BY <1>2, <1>3, <2>1, <3>1
  <2>3. CASE F!UploadDirect(q, f, s, size)
    <3>1. F!Begin(q, "config", "direct", f, "STUDY_DATA_FILE", s, size, Null) /\ UNCHANGED studies
      BY <2>3 DEF F!UploadDirect, F!Begin
    <3>. QED
      BY <1>2, <1>3, <2>1, <3>1
  <2>4. CASE F!EditStudy(q, f, s, size)
    <3>1. /\ F!Begin(q, "check", "edit", f, "PROFILE_FILE", s, size, studies[s].profile)
          /\ UNCHANGED studies
      BY <2>4 DEF F!EditStudy, F!Begin
    <3>. QED
      BY <1>2, <1>3, <2>1, <3>1
  <2>. QED
    BY <1>5, <2>2, <2>3, <2>4
<1>. QED
  BY <1>1, <1>4, <1>5

\* What new studies and the deletion of one are asked for.
LEMMA AskStudyKeeps ==
    ASSUME FilesInv, NEW q \in Requests, F!MayBegin(q), F!AskStudy(q)
    PROVE  FilesInv'
<1>1. transfer[q] = F!Idle /\ transfer[q].pc = "idle" /\ transfer \in [Requests -> F!Request]
  BY DEF F!MayBegin, FilesInv, Formed, StoreTyped
<1>2. ASSUME NEW s \in Studies, NEW f \in Files \cup {Null}, NEW size \in 0..MaxSize,
             f # Null => size # 0, F!CreateStudy(q, f, s, size)
      PROVE  FilesInv'
  <2>1. /\ settings' = [settings EXCEPT ![<<"STUDYCONFIG", s>>] = F!DefaultSettings("STUDYCONFIG")]
        /\ transfer' = [transfer EXCEPT ![q] = [F!Idle EXCEPT !.pc = "study", !.then = "profile",
                            !.file = f, !.category = "PROFILE_FILE", !.owner = s, !.size = size]]
        /\ f # Null => F!Fresh(f)
        /\ UNCHANGED <<studies, files, filed, objects, lost>>
    BY <1>2 DEF F!CreateStudy, F!Store
  <2>2. SettingsOK'
    <3>1. F!DefaultSettings("STUDYCONFIG") \in F!Config
      BY FilesAssumption DEF F!DefaultSettings, F!DefaultBucket, F!Config, F!ConstantsOK
    <3>2. \A type \in {"CACHECONFIG", "DOMAINCONFIG"} :
             settings'[<<type, Null>>] = settings[<<type, Null>>]
      BY <2>1 DEF FilesInv, SettingsOK
    <3>. QED
      BY <2>1, <3>1, <3>2 DEF FilesInv, SettingsOK
  <2>3. /\ "profile" \in F!Sequels /\ "PROFILE_FILE" \in F!Categories /\ s \in F!Owners
        /\ Null \in Files \cup {Null} /\ "study" \in F!Steps
    BY DEF F!Sequels, F!Categories, F!Owners, F!Steps
  <2>4. PICK r \in F!Request :
           /\ r = [F!Idle EXCEPT !.pc = "study", !.then = "profile", !.file = f,
                       !.category = "PROFILE_FILE", !.owner = s, !.size = size]
           /\ r.pc = "study" /\ r.then = "profile" /\ r.file = f
           /\ r.category = "PROFILE_FILE" /\ r.owner = s /\ r.size = size
    <3>1. Formal("study", "profile", f, "PROFILE_FILE", s, size, Null)
      BY <2>3, BeginForm
    <3>. QED
      BY <3>1 DEF Formal
  <2>5. Begun(q, r)
    BY <1>1, <1>2, <2>1, <2>4 DEF Begun
  <2>. QED
    BY <2>1, <2>2, <2>5, BeginUpload
<1>3. ASSUME NEW s \in Studies, F!DeleteStudy(q, s)
      PROVE  FilesInv'
  <2>1. transfer'[q] = [F!Idle EXCEPT !.pc = "markfiles", !.owner = s]
    BY <1>1, <1>3 DEF F!DeleteStudy
  <2>2. transfer' = [transfer EXCEPT ![q] = transfer'[q]]
    BY <1>1, <1>3 DEF F!DeleteStudy
  <2>3. /\ transfer'[q] \in F!Request /\ transfer'[q].pc = "markfiles"
        /\ transfer'[q].then = "done" /\ transfer'[q].category = "CACHE"
        /\ transfer'[q].owner = s
    BY <2>1, IdleForm DEF F!Request, F!Steps, F!Owners
  <2>4. /\ StoreTyped' /\ \A p \in Requests : p # q => transfer'[p] = transfer[p]
        /\ SettingsOK' /\ UNCHANGED <<files, filed, objects, lost>>
    <3>1. studies' \in [Studies -> F!Study]
      BY <1>3 DEF F!DeleteStudy, FilesInv, StoreTyped, F!Study
    <3>2. UNCHANGED <<settings, files, filed, objects, lost>>
      BY <1>3 DEF F!DeleteStudy, F!Store
    <3>. QED
      BY <1>1, <2>2, <2>3, <3>1, <3>2 DEF FilesInv, StoreTyped, SettingsOK
  <2>5. ~Uploading(transfer[q])'
    BY <2>3 DEF Uploading
  <2>6. Formed(transfer[q])' /\ Placed(transfer[q])'
    BY <2>3, <2>5 DEF Formed, Placed, Uploading
  <2>7. Carries(q)
    BY <2>4, <2>5, <2>6 DEF Carries
  <2>. QED
    BY <1>1, <2>4, <2>7, IdleForm, QuietMoves
<1>. QED
  BY <1>2, <1>3, FilesAssumption DEF F!AskStudy, F!ConstantsOK

\* Nothing but configurations, studies and buckets changes.
LEMMA StoreSame ==
    ASSUME FilesInv, SettingsOK', studies' \in [Studies -> F!Study],
           UNCHANGED <<files, filed, objects, lost, transfer>>
    PROVE  FilesInv'
<1>1. \A f : F!Retrieved(f)' = F!Retrieved(f)
  BY Zenon DEF F!Retrieved, F!DownloadBucket
<1>2. F!FilesReadable'
  BY <1>1 DEF FilesInv, F!FilesReadable, F!Downloadable, F!ClipsReadable
<1>3. ASSUME NEW q \in Requests
      PROVE  Formed(transfer[q])' /\ Placed(transfer[q])'
  <2>1. /\ transfer'[q] = transfer[q] /\ Uploading(transfer[q])' = Uploading(transfer[q])
        /\ Home(transfer[q])' = Home(transfer[q])
    BY Zenon DEF Uploading, Home
  <2>2. F!Retrieved(transfer[q].file)' = F!Retrieved(transfer[q].file)
    BY Zenon DEF F!Retrieved, F!DownloadBucket
  <2>3. Formed(transfer[q])'
    BY <2>1 DEF FilesInv, Formed
  <2>4. Placed(transfer[q])'
    BY <2>1, <2>2 DEF FilesInv, Placed
  <2>. QED
    BY <2>3, <2>4
<1>4. \A p, q \in Requests :
         Uploading(transfer[p])' /\ Uploading(transfer[q])' /\ transfer'[p].file = transfer'[q].file
            => p = q
  BY DEF FilesInv, Uploading
<1>. QED
  BY <1>2, <1>3, <1>4 DEF FilesInv, StoreTyped

\* A configuration of a cached answer or of a domain keeps its bucket: an edit
\* compares it with the type, and a second one cannot be inserted.
LEMMA AskConfigKeeps ==
    ASSUME FilesInv, F!AskConfig
    PROVE  FilesInv'
<1>1. PICK k \in F!ConfigKeys, bucket \in F!Buckets \cup {Null}, limit \in 1..MaxSize :
         F!EditConfig(k, bucket, limit) \/ F!CreateConfig(k, bucket, limit)
  BY DEF F!AskConfig
<1>2. UNCHANGED <<studies, files, filed, objects, lost, transfer>>
  BY <1>1 DEF F!EditConfig, F!CreateConfig, F!Store
<1>3. SettingsOK'
  <2>1. CASE F!EditConfig(k, bucket, limit)
    <3>1. /\ settings[k] \in F!Config /\ F!Matches(k[1], bucket)
          /\ settings' = [settings EXCEPT ![k].bucket = bucket, ![k].limit = limit]
      BY <2>1 DEF F!EditConfig, FilesInv, SettingsOK
    <3>2. PICK c \in F!Config : c = [settings[k] EXCEPT !.bucket = bucket, !.limit = limit]
      BY <3>1 DEF F!Config
    <3>3. settings' = [settings EXCEPT ![k] = c] /\ c.bucket = bucket
      BY <3>1, <3>2 DEF F!Config, FilesInv, SettingsOK
    <3>4. \A type \in {"CACHECONFIG", "DOMAINCONFIG"} :
             k = <<type, Null>> => bucket = F!DefaultBucket(type)
      BY <3>1 DEF F!Matches
    <3>. QED
      BY <3>3, <3>4 DEF FilesInv, SettingsOK
  <2>2. CASE F!CreateConfig(k, bucket, limit)
    <3>1. /\ settings[k] = Null
          /\ settings' = [settings EXCEPT ![k] = [bucket |-> bucket, limit |-> limit, live |-> TRUE]]
      BY <2>2 DEF F!CreateConfig
    <3>2. [bucket |-> bucket, limit |-> limit, live |-> TRUE] \in F!Config
      BY DEF F!Config
    <3>3. \A type \in {"CACHECONFIG", "DOMAINCONFIG"} : k # <<type, Null>>
      BY <3>1, FilesAssumption DEF FilesInv, SettingsOK, F!ConstantsOK
    <3>. QED
      BY <3>1, <3>2, <3>3 DEF FilesInv, SettingsOK
  <2>. QED
    BY <1>1, <2>1, <2>2
<1>. QED
  BY <1>2, <1>3, StoreSame DEF FilesInv, StoreTyped

\* What is known of a request before a step of it.
LEMMA RequestKnown ==
    ASSUME FilesInv, NEW q \in Requests
    PROVE  /\ transfer[q] \in F!Request /\ transfer \in [Requests -> F!Request]
           /\ Formed(transfer[q]) /\ Placed(transfer[q])
           /\ SettingsOK /\ studies \in [Studies -> F!Study]
           /\ files \in [Files -> F!File \cup {Null}] /\ filed \subseteq Files /\ Null \notin filed
           /\ transfer[q].file \in Files \cup {Null} /\ transfer[q].category \in F!Categories
BY FilesAssumption DEF FilesInv, StoreTyped, F!Request, F!ConstantsOK

\* An upload on its way to the object store has a file, of which there is no clip.
LEMMA UploadKnown ==
    ASSUME FilesInv, NEW q \in Requests,
           transfer[q].pc \in {"check", "config", "bucket", "make", "put"}
    PROVE  /\ transfer[q].file # Null /\ Uploading(transfer[q])
           /\ transfer[q].then = "direct" => transfer[q].file \notin filed
<1>1. Formed(transfer[q]) /\ Placed(transfer[q])
  BY DEF FilesInv
<1>2. transfer[q].file # Null
  BY <1>1 DEF Formed
<1>3. Uploading(transfer[q])
  BY <1>2 DEF Uploading
<1>. QED
  BY <1>1, <1>2, <1>3 DEF Placed

\* The record of a request at another step.
LEMMA StepForm ==
    ASSUME NEW r \in F!Request, NEW step \in F!Steps
    PROVE  LET n == [r EXCEPT !.pc = step]
           IN  /\ n \in F!Request /\ n.pc = step /\ n.then = r.then
               /\ n.file = r.file /\ n.category = r.category
               /\ n.owner = r.owner /\ n.size = r.size /\ n.bucket = r.bucket
BY DEF F!Request

\* The steps up to the object: its study, its bucket.
LEMMA InsertStudyKeeps ==
    ASSUME FilesInv, NEW q \in Requests, F!InsertStudy(q)
    PROVE  FilesInv'
<1>. DEFINE r == transfer[q]
<1>1. /\ r.pc = "study" /\ UNCHANGED <<settings, files, filed, objects, lost>>
      /\ studies' = [studies EXCEPT ![r.owner].state = "live"]
      /\ IF r.file = Null THEN F!End(q) ELSE F!Goto(q, "check")
  BY DEF F!InsertStudy, F!Store
<1>2. SettingsOK'
  BY <1>1 DEF FilesInv, SettingsOK
<1>3. studies' \in [Studies -> F!Study]
  <2>1. studies \in [Studies -> F!Study] /\ r.owner \in Studies
    BY <1>1, RequestKnown DEF Formed
  <2>. QED
    BY <1>1, <2>1 DEF F!Study
<1>4. CASE r.file = Null
  BY <1>1, <1>2, <1>3, <1>4, RequestKnown, EndKeeps DEF F!End
<1>5. CASE r.file # Null
  <2>. DEFINE n == [r EXCEPT !.pc = "check"]
  <2>1. "check" \in F!Steps
    BY DEF F!Steps
  <2>2. Uploading(r)
    BY <1>1, <1>5 DEF Uploading
  <2>3. Formed(n)
    BY <1>1, <1>5, <2>1, <2>2, RequestKnown, StepForm DEF Formed, Uploading
  <2>. HIDE DEF n
  <2>. QED
    BY <1>1, <1>2, <1>3, <1>5, <2>1, <2>2, <2>3, GotoKeeps DEF n
<1>. QED
  BY <1>4, <1>5

\* The study of an upload must be live.
LEMMA CheckStudyKeeps ==
    ASSUME FilesInv, NEW q \in Requests, F!CheckStudy(q)
    PROVE  FilesInv'
<1>. DEFINE r == transfer[q]
<1>1. r.pc = "check" /\ UNCHANGED <<settings, studies, files, filed, objects, lost>>
  BY DEF F!CheckStudy, F!Store
<1>2. r.file # Null /\ Uploading(r) /\ (r.then = "direct" => r.file \notin filed)
  BY <1>1, UploadKnown
<1>3. SettingsOK' /\ studies' \in [Studies -> F!Study]
  BY <1>1, RequestKnown DEF SettingsOK
<1>4. CASE F!Goto(q, "config")
  <2>. DEFINE n == [r EXCEPT !.pc = "config"]
  <2>1. "config" \in F!Steps
    BY DEF F!Steps
  <2>2. Formed(n)
    BY <1>1, <1>2, <2>1, RequestKnown, StepForm DEF Formed, Uploading
  <2>. HIDE DEF n
  <2>. QED
    BY <1>1, <1>2, <1>3, <1>4, <2>1, <2>2, GotoKeeps DEF n
<1>5. CASE F!FailUpload(q)
  BY <1>1, <1>2, <1>5, FailUploadKeeps
<1>. QED
  BY <1>4, <1>5 DEF F!CheckStudy

\* The bucket of a configuration that matches its type is where a download looks.
LEMMA ReadConfigKeeps ==
    ASSUME FilesInv, NEW q \in Requests, F!ReadConfig(q)
    PROVE  FilesInv'
<1>. DEFINE r == transfer[q]
            k == F!KeyOf(r)
<1>1. r.pc = "config" /\ UNCHANGED <<settings, studies, files, filed, objects, lost>>
  BY DEF F!ReadConfig, F!Store
<1>2. r.file # Null /\ Uploading(r) /\ (r.then = "direct" => r.file \notin filed)
  BY <1>1, UploadKnown
<1>3. r \in F!Request /\ r.category \in F!Categories /\ Formed(r)
  BY RequestKnown
<1>4. k \in F!ConfigKeys /\ k[1] \in F!Shared \cup {"USERCONFIG", "STUDYCONFIG"}
  <2>1. CASE r.category = "STUDY_DATA_FILE"
    <3>1. r.owner \in Studies
      BY <1>3, <2>1 DEF Formed
    <3>2. k = <<"STUDYCONFIG", IF r.then = "direct" THEN Null ELSE r.owner>>
      BY <2>1 DEF F!KeyOf
    <3>. QED
      BY <3>1, <3>2 DEF F!ConfigKeys
  <2>2. CASE r.category = "USER_DRIVE_FILE"
    <3>1. r.owner \in Users /\ k = <<"USERCONFIG", r.owner>>
      BY <1>3, <2>2 DEF F!KeyOf, Formed
    <3>. QED
      BY <3>1 DEF F!ConfigKeys
  <2>3. CASE r.category \in {"DOC_FILE", "CACHE", "PROFILE_FILE", "DOMAIN_FILE"}
    <3>1. k \in F!Shared \X {Null} /\ k[1] \in F!Shared
      BY <2>3 DEF F!KeyOf, F!Shared
    <3>. QED
      BY <3>1 DEF F!ConfigKeys
  <2>. QED
    BY <1>3, <2>1, <2>2, <2>3 DEF F!Categories
<1>5. F!Found(k) \in F!Config
  <2>1. F!DefaultSettings(k[1]) \in F!Config
    BY <1>4, FilesAssumption
       DEF F!DefaultSettings, F!DefaultBucket, F!Config, F!ConstantsOK, F!Buckets, F!Shared
  <2>2. settings[k] \in F!Config \cup {Null}
    BY <1>4, RequestKnown DEF SettingsOK
  <2>. QED
    BY <2>1, <2>2 DEF F!Found
<1>6. PICK c \in F!Config : c = F!Found(k)
  BY <1>5
<1>. DEFINE bucket == IF r.category = "STUDY_DATA_FILE" THEN r.owner ELSE c.bucket
<1>7. r.category \in Steady => bucket = Home(r)
  <2>1. CASE r.category = "STUDY_DATA_FILE"
    BY <2>1 DEF Home
  <2>2. CASE r.category \in {"CACHE", "DOMAIN_FILE"}
    <3>1. \/ r.category = "CACHE" /\ k = <<"CACHECONFIG", Null>>
          \/ r.category = "DOMAIN_FILE" /\ k = <<"DOMAINCONFIG", Null>>
      BY <2>2 DEF F!KeyOf
    <3>2. settings[k] # Null /\ settings[k].bucket = F!DefaultBucket(k[1])
      BY <3>1, RequestKnown, FilesAssumption DEF SettingsOK, F!ConstantsOK
    <3>3. c.bucket = F!DefaultBucket(k[1])
      BY <1>6, <3>2 DEF F!Found
    <3>. QED
      BY <2>2, <3>1, <3>3 DEF Home, F!DefaultBucket
  <2>. QED
    BY <2>1, <2>2 DEF Steady
<1>8. bucket \in F!Buckets \cup {Null}
  <2>1. c.bucket \in F!Buckets \cup {Null}
    BY <1>6 DEF F!Config
  <2>2. r.category = "STUDY_DATA_FILE" => r.owner \in F!Buckets
    BY <1>3 DEF Formed, F!Buckets
  <2>. QED
    BY <2>1, <2>2
<1>9. c.limit \in 0..MaxSize
  BY <1>6 DEF F!Config
<1>10. transfer' = [transfer EXCEPT ![q].pc = "bucket", ![q].limit = c.limit, ![q].bucket = bucket]
  BY <1>6 DEF F!ReadConfig
<1>. HIDE DEF bucket, k
<1>11. PICK n \in F!Request :
          /\ n = [r EXCEPT !.pc = "bucket", !.limit = c.limit, !.bucket = bucket]
          /\ n.pc = "bucket" /\ n.then = r.then /\ n.file = r.file /\ n.category = r.category
          /\ n.owner = r.owner /\ n.size = r.size /\ n.bucket = bucket
  <2>1. "bucket" \in F!Steps
    BY DEF F!Steps
  <2>2. r \in F!Request
    BY <1>3
  <2>. DEFINE n == [r EXCEPT !.pc = "bucket", !.limit = c.limit, !.bucket = bucket]
  <2>3. n \in F!Request
    BY <1>8, <1>9, <2>1, <2>2 DEF F!Request
  <2>4. /\ n.pc = "bucket" /\ n.then = r.then /\ n.file = r.file /\ n.category = r.category
        /\ n.owner = r.owner /\ n.size = r.size /\ n.bucket = bucket
    BY <2>2 DEF F!Request
  <2>. HIDE DEF n
  <2>. QED
    BY <2>3, <2>4 DEF n
<1>12. transfer' = [transfer EXCEPT ![q] = n] /\ transfer'[q] = n
  BY <1>10, <1>11, RequestKnown
<1>13. SettingsOK' /\ StoreTyped' /\ \A p \in Requests : p # q => transfer'[p] = transfer[p]
  BY <1>1, <1>12, RequestKnown DEF SettingsOK, StoreTyped
<1>14. Formed(n) /\ Uploading(n) /\ Home(n) = Home(r)
  <2>1. Home(n) = Home(r) /\ Uploading(n)
    BY <1>2, <1>11 DEF Home, Uploading
  <2>2. n.size # 0 /\ n.file # Null /\ n.pc = "bucket" /\ n \in F!Request
    BY <1>2, <1>3, <1>11 DEF Formed
  <2>3. /\ n.category = "STUDY_DATA_FILE" <=> n.then \in {"clip", "direct"}
        /\ n.category = "USER_DRIVE_FILE" => n.owner \in Users
        /\ n.then \in {"clip", "direct", "profile", "edit"} => n.owner \in Studies
    BY <1>3, <1>11 DEF Formed
  <2>4. n.category \in Steady => n.bucket = Home(n)
    BY <1>7, <1>11, <2>1
  <2>5. Formed(n)
    BY <2>2, <2>3, <2>4 DEF Formed
  <2>. QED
    BY <2>1, <2>5
<1>15. Placed(transfer[q])'
  <2>1. /\ files'[n.file] = Null /\ (n.then = "direct" => n.file \notin filed')
        /\ n.pc = "bucket"
    <3>1. files[r.file] = Null
      BY <1>2, RequestKnown DEF Placed
    <3>. QED
      BY <1>1, <1>2, <1>11, <3>1
  <2>. QED
    BY <1>12, <2>1 DEF Placed
<1>16. Formed(transfer[q])'
  BY <1>12, <1>14 DEF Formed, Uploading, Home
<1>17. Carries(q)
  BY <1>1, <1>2, <1>11, <1>12, <1>13, <1>15, <1>16 DEF Carries
<1>. QED
  BY <1>1, <1>2, <1>17, QuietMoves

\* The bucket is found or made.
LEMMA BucketKeeps ==
    ASSUME FilesInv, NEW q \in Requests, F!FindBucket(q) \/ F!MakeBucket(q)
    PROVE  FilesInv'
<1>. DEFINE r == transfer[q]
<1>1. /\ r.pc \in {"bucket", "make"}
      /\ UNCHANGED <<settings, studies, files, filed, objects, lost>>
  BY DEF F!FindBucket, F!MakeBucket, F!Store
<1>2. r.file # Null /\ Uploading(r) /\ (r.then = "direct" => r.file \notin filed)
  BY <1>1, UploadKnown
<1>3. SettingsOK' /\ studies' \in [Studies -> F!Study]
  BY <1>1, RequestKnown DEF SettingsOK
<1>4. ASSUME NEW step \in {"put", "make"}, F!Goto(q, step)
      PROVE  FilesInv'
  <2>. DEFINE n == [r EXCEPT !.pc = step]
  <2>1. step \in F!Steps
    BY DEF F!Steps
  <2>2. Formed(n)
    <3>1. /\ n \in F!Request /\ n.pc = step /\ n.then = r.then /\ n.file = r.file
          /\ n.category = r.category /\ n.owner = r.owner /\ n.size = r.size
          /\ n.bucket = r.bucket
      BY <2>1, RequestKnown, StepForm
    <3>2. Formed(r)
      BY RequestKnown
    <3>. HIDE DEF n
    <3>3. Home(n) = Home(r)
      BY <3>1 DEF Home
    <3>4. r.category \in Steady => r.bucket = Home(r)
      BY <1>1, <3>2 DEF Formed
    <3>. QED
      BY <1>2, <3>1, <3>2, <3>3, <3>4 DEF Formed
  <2>. HIDE DEF n
  <2>. QED
    BY <1>1, <1>2, <1>3, <1>4, <2>1, <2>2, GotoKeeps DEF n
<1>5. CASE F!FailUpload(q)
  BY <1>1, <1>2, <1>5, FailUploadKeeps
<1>. QED
  BY <1>4, <1>5 DEF F!FindBucket, F!MakeBucket

\* The object is put into the bucket of its configuration.
LEMMA PutObjectKeeps ==
    ASSUME FilesInv, NEW q \in Requests, F!PutObject(q)
    PROVE  FilesInv'
<1>. DEFINE r == transfer[q]
            step == IF r.then = "direct" THEN "then" ELSE "entry"
            n == [r EXCEPT !.pc = step]
<1>1. /\ r.pc = "put" /\ UNCHANGED <<settings, studies, files, filed, lost>>
      /\ objects' = objects \cup {<<r.bucket, r.file>>} /\ F!Goto(q, step)
  BY DEF F!PutObject
<1>2. r.file # Null /\ Uploading(r) /\ (r.category \in Steady => r.bucket = Home(r))
  BY <1>1, UploadKnown, RequestKnown DEF Formed
<1>3. SettingsOK' /\ studies' \in [Studies -> F!Study] /\ step \in F!Steps
  BY <1>1, RequestKnown DEF SettingsOK, F!Steps
<1>4. Formed(n)
  BY <1>1, <1>2, <1>3, RequestKnown, StepForm DEF Formed, Uploading
<1>5. r.category \in Steady => <<Home(r), r.file>> \in objects'
  BY <1>1, <1>2
<1>6. step = "then" => r.then # "clip"
  OBVIOUS
<1>. HIDE DEF n, step
<1>. QED
  BY <1>1, <1>2, <1>3, <1>4, <1>5, <1>6, GotoKeeps DEF n

\* The entry of a file, whose object is there.
LEMMA InsertFileKeeps ==
    ASSUME FilesInv, NEW q \in Requests, F!InsertFile(q)
    PROVE  FilesInv'
<1>. DEFINE r == transfer[q]
<1>1. /\ r.pc = "entry" /\ UNCHANGED <<settings, studies, filed, objects, lost>>
      /\ files' = [files EXCEPT ![r.file] = F!EntryOf(r)]
  BY DEF F!InsertFile
<1>2. r.file # Null /\ Uploading(r) /\ r.file \in Files /\ Formed(r) /\ r \in F!Request
  BY <1>1, RequestKnown DEF Formed, Uploading
<1>3. files[r.file] = Null /\ (r.category \in Steady => <<Home(r), r.file>> \in objects)
  BY <1>1, <1>2, RequestKnown DEF Placed
<1>4. /\ F!EntryOf(r) \in F!File /\ F!EntryOf(r).category = r.category
      /\ F!EntryOf(r).owner = r.owner /\ F!EntryOf(r) # Null
  <2>1. r.size \in 1..MaxSize
    BY <1>2, FilesAssumption DEF Formed, F!Request, F!ConstantsOK
  <2>2. F!EntryOf(r) \in F!File
    BY <1>2, <2>1 DEF F!EntryOf, F!File, F!Request
  <2>. QED
    BY <2>2, FilesAssumption DEF F!EntryOf, F!ConstantsOK
<1>5. /\ files'[r.file] = F!EntryOf(r) /\ \A f \in Files : f # r.file => files'[f] = files[f]
      /\ files' \in [Files -> F!File \cup {Null}]
  BY <1>1, <1>2, <1>4, RequestKnown
<1>6. ASSUME NEW f \in Files, f = r.file, r.category \in Steady
      PROVE  F!Retrieved(f)'
  <2>1. /\ files'[f] # Null /\ files'[f].category = r.category /\ files'[f].owner = r.owner
        /\ <<Home(r), f>> \in objects'
    BY <1>1, <1>3, <1>4, <1>5, <1>6
  <2>2. F!DownloadBucket(f)' = Home(r)
    BY <1>6, <2>1 DEF F!DownloadBucket, Home, F!KeyOf, F!DefaultBucket, Steady
  <2>. QED
    BY <2>1, <2>2 DEF F!Retrieved
<1>7. Enters(q)
  <2>1. ASSUME NEW f \in Files, files[f] = Null, files'[f] # Null
        PROVE  /\ Uploading(transfer[q]) /\ transfer[q].file = f
               /\ files'[f].category \in Steady => F!Retrieved(f)'
    BY <1>2, <1>4, <1>5, <1>6, <2>1
  <2>2. ASSUME NEW f \in Files, files[f] # Null
        PROVE  files'[f] = files[f]
    BY <1>3, <1>5, <2>2
  <2>. QED
    BY <2>1, <2>2 DEF Enters
<1>8. SettingsOK'
  BY <1>1, RequestKnown DEF SettingsOK
<1>9. CASE r.then \in {"done", "direct"}
  <2>1. transfer' = [transfer EXCEPT ![q] = F!Idle] /\ transfer'[q] = F!Idle
    BY <1>9, RequestKnown DEF F!InsertFile, F!End
  <2>2. StoreTyped' /\ \A p \in Requests : p # q => transfer'[p] = transfer[p]
    BY <1>1, <1>5, <2>1, RequestKnown, IdleForm DEF StoreTyped
  <2>3. Formed(transfer[q])' /\ Placed(transfer[q])' /\ ~Uploading(transfer[q])'
    <3>1. Formed(transfer[q])'
      BY <2>1, IdleForm DEF Formed, Uploading, Home
    <3>2. ~Uploading(transfer[q])'
      BY <2>1, IdleForm DEF Uploading
    <3>. QED
      BY <2>1, <3>1, <3>2, IdleForm DEF Placed
  <2>4. Carries(q)
    BY <1>1, <1>8, <2>2, <2>3 DEF Carries
  <2>5. Clips(q)
    <3>1. r.then = "direct" => r.category \in Steady
      BY <1>2 DEF Formed, Steady
    <3>2. ASSUME NEW f \in filed, r.then = "direct", r.file = f
          PROVE  F!Retrieved(f)'
      BY <1>2, <1>6, <3>1, <3>2
    <3>. QED
      BY <1>1, <3>2 DEF Clips
  <2>. QED
    BY <1>7, <2>4, <2>5, StoreMoves
<1>10. CASE r.then \notin {"done", "direct"}
  <2>1. transfer' = [transfer EXCEPT ![q] = transfer'[q]] /\ transfer'[q] = [r EXCEPT !.pc = "then"]
    BY <1>10, RequestKnown DEF F!InsertFile, F!Goto
  <2>. DEFINE n == transfer'[q]
  <2>2. /\ n \in F!Request /\ n.pc = "then" /\ n.then = r.then /\ n.file = r.file
        /\ n.category = r.category /\ n.owner = r.owner /\ n.size = r.size
    BY <1>2, <2>1 DEF F!Steps, F!Request
  <2>3. StoreTyped' /\ \A p \in Requests : p # q => transfer'[p] = transfer[p]
    BY <1>1, <1>5, <2>1, <2>2, RequestKnown DEF StoreTyped
  <2>. HIDE DEF n
  <2>4. Formed(n)
    BY <1>2, <2>2 DEF Formed
  <2>5. Formed(transfer[q])'
    BY <2>4 DEF Formed, Uploading, Home, n
  <2>6. ~Uploading(transfer[q])'
    BY <1>10, <2>2 DEF Uploading, n
  <2>7. n.then = "clip" => F!Retrieved(transfer[q].file)'
    <3>1. PICK f \in Files : f = r.file
      BY <1>2
    <3>2. r.then = "clip" => F!Retrieved(f)'
      BY <1>2, <1>6, <3>1 DEF Formed, Steady
    <3>3. f = transfer'[q].file
      BY <2>2, <3>1 DEF n
    <3>. QED
      BY <2>2, <3>2, <3>3
  <2>8. Placed(transfer[q])'
    BY <1>10, <2>2, <2>6, <2>7 DEF Placed, n
  <2>9. Carries(q)
    BY <1>1, <1>8, <2>3, <2>5, <2>6, <2>8 DEF Carries
  <2>10. Clips(q)
    BY <1>1, <1>10 DEF Clips
  <2>. QED
    BY <1>7, <2>9, <2>10, StoreMoves
<1>. QED
  BY <1>9, <1>10

\* The clip of a file, which comes before the entry in a direct upload alone.
LEMMA InsertClipKeeps ==
    ASSUME FilesInv, NEW q \in Requests, F!InsertClip(q)
    PROVE  FilesInv'
<1>. DEFINE r == transfer[q]
<1>1. /\ r.pc = "then" /\ r.then \in {"clip", "direct"}
      /\ UNCHANGED <<settings, studies, files, objects, lost>>
  BY DEF F!InsertClip
<1>2. r.file # Null /\ r.file \in Files /\ Formed(r) /\ Placed(r) /\ r \in F!Request
  BY <1>1, RequestKnown DEF Formed
<1>3. r.then = "direct" => Uploading(r) /\ r.file \notin filed
  BY <1>1, <1>2 DEF Uploading, Placed
<1>4. SettingsOK' /\ studies' \in [Studies -> F!Study] /\ Enters(q)
  BY <1>1, RequestKnown DEF SettingsOK, Enters
<1>5. CASE F!End(q) /\ UNCHANGED filed
  BY <1>1, <1>3, <1>4, <1>5, EndKeeps DEF F!End
<1>6. CASE filed' = filed \cup {r.file} /\ r.then = "direct" /\ F!Goto(q, "entry")
  <2>1. transfer' = [transfer EXCEPT ![q] = transfer'[q]] /\ transfer'[q] = [r EXCEPT !.pc = "entry"]
    BY <1>6, RequestKnown DEF F!Goto
  <2>. DEFINE n == transfer'[q]
  <2>2. /\ n \in F!Request /\ n.pc = "entry" /\ n.then = r.then /\ n.file = r.file
        /\ n.category = r.category /\ n.owner = r.owner /\ n.size = r.size
    BY <1>2, <2>1 DEF F!Steps, F!Request
  <2>3. StoreTyped' /\ \A p \in Requests : p # q => transfer'[p] = transfer[p]
    BY <1>1, <1>2, <1>6, <2>1, <2>2, RequestKnown DEF StoreTyped
  <2>. HIDE DEF n
  <2>4. Formed(n)
    BY <1>2, <1>3, <1>6, <2>2 DEF Formed
  <2>5. Formed(transfer[q])'
    BY <2>4 DEF Formed, Uploading, Home, n
  <2>6. Home(transfer[q])' = Home(r)
    BY <2>2 DEF Home, n
  <2>7. Placed(transfer[q])'
    BY <1>1, <1>2, <1>3, <1>6, <2>2, <2>6 DEF Placed, n
  <2>8. Carries(q)
    BY <1>1, <1>3, <1>4, <1>6, <2>2, <2>3, <2>5, <2>7 DEF Carries, n
  <2>9. Clips(q)
    BY <1>3, <1>6, <2>2 DEF Clips, n
  <2>. QED
    BY <1>4, <2>8, <2>9, StoreMoves
<1>7. CASE filed' = filed \cup {r.file} /\ r.then # "direct" /\ F!End(q)
  <2>1. transfer' = [transfer EXCEPT ![q] = F!Idle] /\ transfer'[q] = F!Idle
    BY <1>7, RequestKnown DEF F!End
  <2>2. StoreTyped' /\ \A p \in Requests : p # q => transfer'[p] = transfer[p]
    BY <1>1, <1>2, <1>7, <2>1, RequestKnown, IdleForm DEF StoreTyped
  <2>3. Formed(transfer[q])'
    BY <2>1, IdleForm DEF Formed, Uploading, Home
  <2>4. ~Uploading(transfer[q])'
    BY <2>1, IdleForm DEF Uploading
  <2>5. Placed(transfer[q])'
    BY <2>1, <2>4, IdleForm DEF Placed
  <2>6. Carries(q)
    BY <1>1, <1>4, <2>2, <2>3, <2>4, <2>5 DEF Carries
  <2>7. PICK f \in Files : f = r.file
    BY <1>2
  <2>8. F!Retrieved(f)
    BY <1>1, <1>2, <1>7, <2>7 DEF Placed
  <2>9. F!Retrieved(f)' /\ files[f] # Null
    BY <1>1, <2>8 DEF F!Retrieved, F!DownloadBucket
  <2>10. Clips(q)
    BY <1>7, <2>7, <2>9 DEF Clips
  <2>. QED
    BY <1>4, <2>6, <2>10, StoreMoves
<1>. QED
  BY <1>5, <1>6, <1>7 DEF F!InsertClip

\* A study's profile, and the marks of a deleted study.
LEMMA SetProfileKeeps ==
    ASSUME FilesInv, NEW q \in Requests, F!SetProfile(q)
    PROVE  FilesInv'
<1>. DEFINE r == transfer[q]
<1>1. /\ UNCHANGED <<settings, files, filed, objects, lost>>
      /\ transfer' = [transfer EXCEPT ![q] = F!Idle] /\ r.then # "direct"
      /\ studies' = [studies EXCEPT ![r.owner].profile = r.file]
      /\ r.then \in {"profile", "edit"}
  BY DEF F!SetProfile, F!Store, F!End
<1>2. studies' \in [Studies -> F!Study]
  <2>1. r.owner \in Studies /\ r.file \in Files \cup {Null} /\ studies \in [Studies -> F!Study]
    BY <1>1, RequestKnown DEF Formed
  <2>. QED
    BY <1>1, <2>1 DEF F!Study
<1>3. SettingsOK'
  BY <1>1, RequestKnown DEF SettingsOK
<1>. QED
  BY <1>1, <1>2, <1>3, EndKeeps

\* A deleted study's configuration is marked.
LEMMA MarkConfigsKeeps ==
    ASSUME FilesInv, NEW q \in Requests, F!MarkConfigs(q)
    PROVE  FilesInv'
<1>. DEFINE k == <<"STUDYCONFIG", transfer[q].owner>>
<1>1. /\ UNCHANGED <<studies, files, filed, objects, lost>>
      /\ transfer' = [transfer EXCEPT ![q] = F!Idle] /\ transfer[q].pc = "markconfigs"
      /\ settings' = IF settings[k] = Null THEN settings ELSE [settings EXCEPT ![k].live = FALSE]
  BY DEF F!MarkConfigs, F!Store, F!End
<1>2. transfer[q].owner \in Studies /\ transfer[q].then = "done" /\ SettingsOK
  BY <1>1, RequestKnown DEF Formed
<1>3. k \in F!ConfigKeys
  BY <1>2 DEF F!ConfigKeys
<1>4. SettingsOK'
  <2>1. CASE settings[k] = Null
    BY <1>1, <1>2, <2>1 DEF SettingsOK
  <2>2. CASE settings[k] # Null
    <3>1. PICK c \in F!Config : c = [settings[k] EXCEPT !.live = FALSE]
      BY <1>2, <1>3, <2>2 DEF SettingsOK, F!Config
    <3>2. settings' = [settings EXCEPT ![k] = c]
      BY <1>1, <2>2, <3>1
    <3>3. \A type \in {"CACHECONFIG", "DOMAINCONFIG"} : k # <<type, Null>>
      OBVIOUS
    <3>. HIDE DEF k
    <3>. QED
      <4>1. settings' \in [F!ConfigKeys -> F!Config \cup {Null}]
        BY <1>2, <1>3, <3>2 DEF SettingsOK
      <4>2. ASSUME NEW type \in {"CACHECONFIG", "DOMAINCONFIG"}
            PROVE  settings'[<<type, Null>>] = settings[<<type, Null>>]
        <5>1. <<type, Null>> \in F!ConfigKeys /\ <<type, Null>> # k
          BY <3>3 DEF F!ConfigKeys, F!Shared
        <5>. QED
          BY <1>2, <3>2, <5>1 DEF SettingsOK
      <4>. QED
        BY <1>2, <4>1, <4>2 DEF SettingsOK
  <2>. QED
    BY <2>1, <2>2
<1>. QED
  BY <1>1, <1>2, <1>4, RequestKnown, EndKeeps

\* A deleted study's files are marked.
LEMMA MarkFilesKeeps ==
    ASSUME FilesInv, NEW q \in Requests, F!MarkFiles(q)
    PROVE  FilesInv'
<1>. DEFINE r == transfer[q]
<1>1. /\ UNCHANGED <<settings, studies, filed, objects, lost>>
      /\ files' = [f \in Files |-> IF files[f] # Null /\ files[f].owner = r.owner
                                   THEN [files[f] EXCEPT !.live = FALSE] ELSE files[f]]
      /\ transfer' = [transfer EXCEPT ![q].pc = "markconfigs"] /\ r.pc = "markfiles"
  BY DEF F!MarkFiles, F!Goto
<1>2. r \in F!Request /\ Formed(r)
  BY RequestKnown
<1>3. ASSUME NEW f \in Files
      PROVE  /\ files'[f] \in F!File \cup {Null} /\ (files'[f] = Null <=> files[f] = Null)
             /\ files[f] # Null => /\ files'[f].category = files[f].category
                                   /\ files'[f].owner = files[f].owner
  <2>1. CASE files[f] # Null /\ files[f].owner = r.owner
    <3>1. files[f] \in F!File /\ files'[f] = [files[f] EXCEPT !.live = FALSE]
      BY <1>1, <2>1, RequestKnown
    <3>2. /\ files'[f] \in F!File /\ files'[f].category = files[f].category
          /\ files'[f].owner = files[f].owner
      BY <3>1 DEF F!File
    <3>. QED
      BY <2>1, <3>2, FilesAssumption DEF F!ConstantsOK
  <2>2. CASE ~(files[f] # Null /\ files[f].owner = r.owner)
    BY <1>1, <2>2, RequestKnown
  <2>. QED
    BY <2>1, <2>2
<1>4. Enters(q)
  BY <1>3 DEF Enters
<1>5. transfer'[q] = [r EXCEPT !.pc = "markconfigs"] /\ transfer' = [transfer EXCEPT ![q] = transfer'[q]]
  BY <1>1, RequestKnown
<1>. DEFINE n == transfer'[q]
<1>6. /\ n \in F!Request /\ n.pc = "markconfigs" /\ n.then = r.then /\ n.file = r.file
      /\ n.category = r.category /\ n.owner = r.owner /\ n.size = r.size
  BY <1>2, <1>5 DEF F!Steps, F!Request
<1>7. StoreTyped' /\ \A p \in Requests : p # q => transfer'[p] = transfer[p]
  <2>1. files' \in [Files -> F!File \cup {Null}]
    BY <1>1, <1>3
  <2>. QED
    BY <1>1, <1>5, <1>6, <2>1, RequestKnown DEF StoreTyped
<1>. HIDE DEF n
<1>8. Formed(n) /\ n.then = "done"
  BY <1>1, <1>2, <1>6 DEF Formed, Uploading
<1>9. Formed(transfer[q])' /\ ~Uploading(transfer[q])'
  BY <1>6, <1>8 DEF Formed, Uploading, Home, n
<1>10. Placed(transfer[q])'
  BY <1>6, <1>8, <1>9 DEF Placed, n
<1>11. SettingsOK'
  BY <1>1, RequestKnown DEF SettingsOK
<1>12. Carries(q)
  BY <1>1, <1>7, <1>9, <1>10, <1>11 DEF Carries
<1>13. Clips(q)
  BY <1>1, <1>6, <1>8 DEF Clips
<1>. QED
  BY <1>4, <1>12, <1>13, StoreMoves

\* A call fails, or the server restarts.
LEMMA TransferFails ==
    ASSUME FilesInv, NEW q \in Requests, F!Fail(q)
    PROVE  FilesInv'
<1>1. /\ UNCHANGED <<settings, studies, files, filed, objects>>
      /\ lost' = lost \cup ({transfer[q].file} \ {Null})
      /\ F!FailUpload(q) \/ F!End(q)
  BY DEF F!Fail
<1>2. SettingsOK' /\ studies' \in [Studies -> F!Study]
  BY <1>1, RequestKnown DEF SettingsOK
<1>3. lost \subseteq lost' /\ (transfer[q].file \in filed => transfer[q].file \in lost')
  BY <1>1, RequestKnown
<1>4. CASE F!FailUpload(q)
  BY <1>1, <1>3, <1>4, FailUploadKeeps
<1>5. CASE F!End(q)
  BY <1>1, <1>2, <1>3, <1>5, EndKeeps DEF F!End
<1>. QED
  BY <1>1, <1>4, <1>5

\* The server restarts.
LEMMA RestartKeeps ==
    ASSUME FilesInv, F!Restart
    PROVE  FilesInv'
<1>1. /\ UNCHANGED <<settings, studies, files, filed, objects>>
      /\ lost' = lost \cup ({transfer[q].file : q \in Requests} \ {Null})
      /\ transfer' = [q \in Requests |-> F!Idle]
  BY DEF F!Restart
<1>2. SettingsOK' /\ StoreTyped'
  BY <1>1, IdleForm DEF FilesInv, SettingsOK, StoreTyped
<1>3. ASSUME NEW q \in Requests
      PROVE  Formed(transfer[q])' /\ Placed(transfer[q])' /\ ~Uploading(transfer[q])'
  <2>1. transfer'[q] = F!Idle
    BY <1>1
  <2>2. Formed(transfer[q])'
    BY <2>1, IdleForm DEF Formed, Uploading, Home
  <2>3. ~Uploading(transfer[q])'
    BY <2>1, IdleForm DEF Uploading
  <2>. QED
    BY <2>1, <2>2, <2>3, IdleForm DEF Placed
<1>4. \A f : F!Retrieved(f)' = F!Retrieved(f)
  BY <1>1, Zenon DEF F!Retrieved, F!DownloadBucket
<1>5. F!Downloadable'
  BY <1>1, <1>4 DEF FilesInv, F!FilesReadable, F!Downloadable
<1>6. F!ClipsReadable'
  <2>1. ASSUME NEW f \in filed
        PROVE  F!Retrieved(f)' \/ f \in lost'
    <3>1. f # Null
      BY FilesAssumption DEF FilesInv, StoreTyped, F!ConstantsOK
    <3>2. F!Retrieved(f) \/ f \in lost \/ \E q \in Requests : transfer[q].file = f
      BY DEF FilesInv, F!FilesReadable, F!ClipsReadable
    <3>. QED
      BY <1>1, <1>4, <3>1, <3>2
  <2>. QED
    BY <1>1, <2>1 DEF F!ClipsReadable
<1>. QED
  BY <1>2, <1>3, <1>5, <1>6 DEF FilesInv, F!FilesReadable

\* Every step keeps it.
LEMMA FilesStep == FilesInv /\ [F!Next]_(F!storing) => FilesInv'
<1>. SUFFICES ASSUME FilesInv, [F!Next]_(F!storing)
              PROVE  FilesInv'
  OBVIOUS
<1>1. CASE UNCHANGED F!storing
  BY <1>1, StoreSame DEF F!storing, FilesInv, StoreTyped, SettingsOK
<1>2. ASSUME NEW q \in Requests, F!Continue(q)
      PROVE  FilesInv'
  BY <1>2, InsertStudyKeeps, CheckStudyKeeps, ReadConfigKeeps, BucketKeeps, PutObjectKeeps,
     InsertFileKeeps, InsertClipKeeps, SetProfileKeeps, MarkFilesKeeps, MarkConfigsKeeps,
     TransferFails DEF F!Continue
<1>3. ASSUME NEW q \in Requests, F!MayBegin(q), F!AskFile(q) \/ F!AskStudy(q)
      PROVE  FilesInv'
  BY <1>3, AskFileKeeps, AskStudyKeeps
<1>. QED
  BY <1>1, <1>2, <1>3, AskConfigKeeps, RestartKeeps DEF F!Next

\* It holds at the start, with the configurations the setup inserts, and as long
\* as the store is used.
LEMMA FilesLast == PartsSpec => [](part = "files" => FilesInv)
<1>. DEFINE Inv == part = "files" => FilesInv
<1>1. PartsInit => Inv
  <2>. SUFFICES ASSUME PartsInit, part = "files"
                PROVE  FilesInv
    OBVIOUS
  <2>1. F!Init
    BY Zenon DEF PartsInit
  <2>2. ASSUME NEW k \in F!ConfigKeys
        PROVE  F!DefaultSettings(k[1]) \in F!Config
    <3>1. k[1] \in F!Shared \cup {"USERCONFIG", "STUDYCONFIG"}
      BY DEF F!ConfigKeys
    <3>. QED
      BY <3>1, FilesAssumption
         DEF F!DefaultSettings, F!DefaultBucket, F!Config, F!ConstantsOK, F!Buckets, F!Shared
  <2>3. settings \in [F!ConfigKeys -> F!Config \cup {Null}]
    BY <2>1, <2>2 DEF F!Init
  <2>4. ASSUME NEW type \in {"CACHECONFIG", "DOMAINCONFIG"}
        PROVE  /\ settings[<<type, Null>>] \in F!Config
               /\ settings[<<type, Null>>].bucket = F!DefaultBucket(type)
    <3>. DEFINE k == <<type, Null>>
    <3>1. k \in F!ConfigKeys /\ k[1] = type /\ k[2] = Null /\ Null \notin Bare
      BY FilesAssumption DEF F!ConfigKeys, F!Shared, F!ConstantsOK
    <3>. HIDE DEF k
    <3>2. settings[k] = F!DefaultSettings(type)
      BY <2>1, <3>1 DEF F!Init
    <3>3. settings[k] \in F!Config
      BY <2>2, <3>1, <3>2
    <3>. QED
      BY <3>2, <3>3 DEF k, F!DefaultSettings
  <2>5. SettingsOK
    BY <2>3, <2>4 DEF SettingsOK
  <2>6. StoreTyped
    BY <2>1, IdleForm DEF F!Init, StoreTyped, F!Study
  <2>7. \A q \in Requests : transfer[q] = F!Idle
    BY <2>1 DEF F!Init
  <2>8. ~Uploading(F!Idle) /\ Formed(F!Idle) /\ Placed(F!Idle)
    BY IdleForm DEF Placed
  <2>9. F!FilesReadable
    BY <2>1 DEF F!Init, F!FilesReadable, F!Downloadable, F!ClipsReadable
  <2>. QED
    BY <2>5, <2>6, <2>7, <2>8, <2>9 DEF FilesInv
<1>2. Inv /\ [PartsNext]_PartsVars => Inv'
  <2>1. part = "files" /\ [PartsNext]_PartsVars => [F!Next]_(F!storing)
    BY Zenon DEF PartsNext, PartsVars, F!storing, storing
  <2>. QED
    BY <2>1, PartKept, FilesStep
<1>. QED
  BY <1>1, <1>2, PTL DEF PartsSpec

\* What is listed as a file, or entered as a clip, can be read: the upload goes by
\* the configuration and the download by the default settings, which agree because
\* an edit compares the bucket with the type; only the clips of a direct upload that
\* still runs or has died come before their entries (fileCore.ts, configCore.ts,
\* commonMiddleware.ts, fileDownload.ts).
THEOREM FilesStayReadable == PartsSpec => []FilesReadable
<1>1. (part = "files" => FilesInv) => FilesReadable
  BY DEF FilesReadable, FilesInv
<1>. QED
  BY <1>1, FilesLast, PTL

-----------------------------------------------------------------------------
(* PathsAgree: in a tree of documents that keep a path of nodes each,        *)
(* whichever they are, what is listed is what is found.                      *)

DavInv ==
    /\ tree = [n \in Nodes |-> tree[n]]
    /\ \A n \in Nodes : tree[n] # Null => tree[n] \in Documents[n]

\* The names along a path are a sequence, whatever nodes are seen.
LEMMA NamesAreSequence ==
    ASSUME NEW seeing, NEW path \in Seq(Nodes)
    PROVE  \E m \in Nat : DOMAIN D!NamesOf(seeing, path) = 1..m /\ Len(D!NamesOf(seeing, path)) = m
<1>. DEFINE known == {k \in DOMAIN path : path[k] \in seeing}
<1>1. IsFiniteSet(known)
  <2>1. known \subseteq 1..Len(path) /\ Len(path) \in Nat
    OBVIOUS
  <2>. QED
    BY <2>1, FS_Interval, FS_Subset
<1>2. Cardinality(known) \in Nat
  BY <1>1, FS_CardinalityType
<1>3. D!NamesOf(seeing, path) =
        [j \in 1..Cardinality(known) |->
           tree[path[CHOOSE k \in known : Cardinality({i \in known : i <= k}) = j]].name]
  BY Zenon DEF D!NamesOf, D!Cardinality, Cardinality
<1>. HIDE DEF known
<1>. QED
  BY <1>2, <1>3

\* So is every path shown, and an owner with something to see has one.
LEMMA PathsAreSequences ==
    ASSUME DavInv, NEW u \in Everybody, NEW o \in Everybody
    PROVE  /\ \A q \in D!AllPaths(u, o) : \E m \in Nat : DOMAIN q = 1..m /\ Len(q) = m
           /\ o \in D!Owners(u) => D!AllPaths(u, o) # {}
<1>1. ASSUME NEW n \in D!Seen(u, o)
      PROVE  tree[n].path \in Seq(Nodes)
  BY DavAssumption DEF DavInv, D!Seen, D!Live, D!ConstantsOK
<1>2. \E m \in Nat : DOMAIN <<SharedRoot>> = 1..m /\ Len(<<SharedRoot>>) = m
  OBVIOUS
<1>3. ASSUME NEW q \in D!AllPaths(u, o)
      PROVE  \E m \in Nat : DOMAIN q = 1..m /\ Len(q) = m
  <2>1. CASE q = <<SharedRoot>>
    BY <1>2, <2>1
  <2>2. CASE \E n \in D!Seen(u, o) : q = D!NamesOf(D!Seen(u, o), tree[n].path)
    BY <1>1, <2>2, NamesAreSequence
  <2>. QED
    BY <2>1, <2>2 DEF D!AllPaths
<1>. QED
  BY <1>3 DEF D!AllPaths, D!Owners

\* A path is there as far as a longer one is.
LEMMA NextPartThere ==
    ASSUME NEW p \in Seq(Words), NEW q, NEW m \in Nat, DOMAIN q = 1..m, Len(q) = m,
           D!Prefix(p, q), Len(q) > Len(p)
    PROVE  D!Prefix(Append(p, q[Len(p) + 1]), q)
<1>1. p \in Seq(Words \cup {q[Len(p) + 1]})
  OBVIOUS
<1>. QED
  BY <1>1 DEF D!Prefix

\* The directory of what is there is there, and has it as a child.
LEMMA FrontThere ==
    ASSUME NEW p \in Seq(Words), NEW q, NEW m \in Nat, DOMAIN q = 1..m, Len(q) = m,
           D!Prefix(p, q), Len(p) > 1
    PROVE  /\ D!Front(p) \in Seq(Words) /\ Len(D!Front(p)) = Len(p) - 1
           /\ D!Front(p) # <<>> /\ D!Front(p)[1] = p[1]
           /\ D!Prefix(D!Front(p), q) /\ Len(q) > Len(D!Front(p))
           /\ q[Len(D!Front(p)) + 1] = p[Len(p)]
<1>1. /\ D!Front(p) \in Seq(Words) /\ Len(D!Front(p)) = Len(p) - 1
      /\ \A k \in 1..Len(p) - 1 : D!Front(p)[k] = p[k]
  BY DEF D!Front
<1>. QED
  BY <1>1 DEF D!Prefix

\* What a directory lists exists.
LEMMA ListedIsThere == DavInv => D!ListedExists
<1>. SUFFICES ASSUME DavInv, NEW u \in Everybody, NEW p \in Paths \ {<<>>},
                     NEW w \in D!ReadDir(u, p)
              PROVE  D!PathExists(u, Append(p, w))
  BY DEF D!ListedExists
<1>1. p \in Seq(Words) /\ p # <<>>
  BY DavAssumption DEF D!ConstantsOK
<1>2. /\ Append(p, w) # <<>> /\ Append(p, w)[1] = p[1] /\ Len(Append(p, w)) = Len(p) + 1
      /\ DOMAIN Append(p, w) = 1..Len(p) + 1
      /\ Append(p, w)[Len(p) + 1] = w
  <2>1. p \in Seq(Words \cup {w})
    BY <1>1
  <2>. QED
    BY <1>1, <2>1
<1>3. CASE p[1] = MyRoot
  <2>1. u \in D!Owners(u) /\ w \in D!DirectChildren(p, D!AllPaths(u, u))
    BY <1>1, <1>3 DEF D!ReadDir
  <2>2. PICK q \in D!AllPaths(u, u) : Len(q) > Len(p) /\ D!Prefix(p, q) /\ w = q[Len(p) + 1]
    BY <2>1 DEF D!DirectChildren
  <2>3. D!Prefix(Append(p, w), q)
    BY <1>1, <2>2, PathsAreSequences, NextPartThere
  <2>. QED
    BY <1>2, <1>3, <2>1, <2>2, <2>3 DEF D!PathExists, D!Included
<1>4. CASE p[1] # MyRoot /\ p = <<SharedRoot>>
  <2>1. PICK o \in D!Owners(u) \ {u} : w = FullName[o]
    BY <1>1, <1>4 DEF D!ReadDir
  <2>2. PICK q \in D!AllPaths(u, o) : TRUE
    BY <2>1, PathsAreSequences DEF D!Owners
  <2>3. PICK m \in Nat : DOMAIN q = 1..m /\ Len(q) = m
    BY <2>1, PathsAreSequences DEF D!Owners
  <2>. DEFINE long == <<SharedRoot, FullName[o]>> \o q
  <2>4. long \in D!SharedPaths(u)
    BY <2>1, <2>2 DEF D!SharedPaths
  <2>5. Len(long) = m + 2 /\ long[1] = SharedRoot /\ long[2] = FullName[o]
    BY <2>3
  <2>. HIDE DEF long
  <2>6. Len(p) = 1 /\ p[1] = SharedRoot
    BY <1>4
  <2>7. D!Prefix(Append(p, w), long)
    BY <1>2, <2>1, <2>5, <2>6 DEF D!Prefix
  <2>. QED
    BY <1>2, <2>4, <2>6, <2>7 DEF D!PathExists, D!Included
<1>5. CASE p[1] # MyRoot /\ p = <<StudyRoot>> /\ p # <<SharedRoot>>
  <2>1. Len(p) = 1 /\ p[1] = StudyRoot /\ w \in Titles /\ StudyRoot \notin {MyRoot, SharedRoot}
    BY <1>1, <1>5, DavAssumption DEF D!ReadDir, D!ConstantsOK
  <2>. QED
    BY <1>2, <2>1 DEF D!PathExists
<1>. QED
  BY <1>1, <1>3, <1>4, <1>5 DEF D!ReadDir

\* What exists in a drive is listed, unless a file is being copied.
LEMMA ThereIsListed == DavInv => D!ExistingListed
<1>. SUFFICES ASSUME DavInv, NEW u \in Everybody, NEW p \in Paths,
                     p # <<>>, p[1] = MyRoot, Len(p) > 1, ~isCopying, D!PathExists(u, p)
              PROVE  p[Len(p)] \in D!ReadDir(u, D!Front(p))
  BY DEF D!ExistingListed
<1>1. p \in Seq(Words) /\ MyRoot # SharedRoot
  BY DavAssumption DEF D!ConstantsOK
<1>2. u \in D!Owners(u) /\ D!Included(p, D!AllPaths(u, u))
  BY <1>1 DEF D!PathExists
<1>3. PICK q \in D!AllPaths(u, u) : D!Prefix(p, q)
  BY <1>2 DEF D!Included
<1>4. /\ D!Front(p) # <<>> /\ D!Front(p)[1] = MyRoot
      /\ D!Prefix(D!Front(p), q) /\ Len(q) > Len(D!Front(p))
      /\ q[Len(D!Front(p)) + 1] = p[Len(p)]
  BY <1>1, <1>3, PathsAreSequences, FrontThere
<1>. QED
  BY <1>2, <1>3, <1>4 DEF D!ReadDir, D!DirectChildren

\* Every operation, and every change of the drives.
LEMMA DavStep == DavInv /\ [D!Next]_(D!dav) => DavInv'
<1>. SUFFICES ASSUME DavInv, [D!Next]_(D!dav)
              PROVE  DavInv'
  OBVIOUS
<1>1. CASE UNCHANGED tree
  BY <1>1 DEF DavInv
<1>2. ASSUME NEW n \in Nodes, NEW d \in Documents[n] \cup {Null}, tree' = [tree EXCEPT ![n] = d]
      PROVE  DavInv'
  BY <1>2 DEF DavInv
<1>3. CASE D!CallDrive
  <2>1. CASE tree' = [n \in Nodes |->
                 IF tree[n] # Null /\ asking.node \in {tree[n].path[k] : k \in DOMAIN tree[n].path}
                 THEN Null ELSE tree[n]]
    BY <2>1 DEF DavInv
  <2>. QED
    BY <1>1, <1>2, <1>3, <2>1 DEF D!CallDrive
<1>4. CASE D!StreamFinal
  BY <1>1, <1>2, <1>4 DEF D!StreamFinal
<1>5. CASE D!DrivesChange
  BY <1>2, <1>5 DEF D!DrivesChange
<1>6. CASE \/ D!DeleteLookup \/ D!CreateFolderLookup \/ D!CreateFile \/ D!OpenWriteStream
           \/ D!CopyMove \/ D!OpenReadStream \/ (\E u \in Everybody : D!DeleteUser(u))
  BY <1>1, <1>6 DEF D!DeleteLookup, D!CreateFolderLookup, D!CreateFile, D!OpenWriteStream,
     D!CopyMove, D!OpenReadStream, D!DeleteUser
<1>7. CASE UNCHANGED D!dav
  BY <1>1, <1>7 DEF D!dav
<1>. QED
  BY <1>3, <1>4, <1>5, <1>6, <1>7 DEF D!Next

\* As long as the drives are served.
LEMMA DavLast == PartsSpec => [](part = "webdav" => DavInv)
<1>. DEFINE Inv == part = "webdav" => DavInv
<1>1. PartsInit => Inv
  <2>. SUFFICES ASSUME PartsInit, part = "webdav"
                PROVE  DavInv
    OBVIOUS
  <2>1. D!Init
    BY Zenon DEF PartsInit
  <2>. QED
    BY <2>1 DEF D!Init, DavInv
<1>2. Inv /\ [PartsNext]_PartsVars => Inv'
  <2>1. part = "webdav" /\ [PartsNext]_PartsVars => [D!Next]_(D!dav)
    BY Zenon DEF PartsNext, PartsVars, D!dav, dav
  <2>. QED
    BY <2>1, PartKept, DavStep
<1>. QED
  BY <1>1, <1>2, PTL DEF PartsSpec

\* What a directory of the WebDAV server lists exists, and what exists in a drive
\* is listed, whatever the drives are while users and requests change them
\* (_readDir, _fastExistCheck).
THEOREM PathsDoAgree == PartsSpec => []PathsAgree
<1>1. (part = "webdav" => DavInv) => PathsAgree
  BY ListedIsThere, ThereIsListed DEF PathsAgree, D!PathsAgree
<1>. QED
  BY <1>1, DavLast, PTL

-----------------------------------------------------------------------------
(* SummariesAddUp: each requester's days partition the calls logged before   *)
(* the summary was asked for, and those logged later fall beyond the last    *)
(* day.                                                                      *)

Calls(r) ==
    {l \in DOMAIN logs : /\ logs[l].requester = r /\ logs[l].timed
                         /\ logs[l].at >= Y!Start /\ logs[l].at < summary}

SummaryInv ==
    /\ logs \in Seq(Y!Log)
    /\ hour \in 0..MaxHours
    /\ summary # Null => summary \in Nat /\ summary <= hour
    /\ byEvent # Null =>
         summary # Null /\ Y!Counted(byEvent) \in Nat /\ Y!Counted(byEvent) <= Cardinality(Y!Matching)
    /\ byRequester # Null => byEvent # Null
    /\ byRequester # Null =>
         \A r \in DOMAIN byRequester : Y!Total(byRequester[r].daily) = Cardinality(Calls(r))
    /\ Y!SecondCountsMore

Class(M, f, v) == {m \in M : f[m] = v}

\* The classes of a finite set add up to it.
LEMMA ClassesAddUp ==
    ASSUME NEW M, IsFiniteSet(M), NEW V, NEW f \in [M -> V], NEW n, DOMAIN n = V,
           \A v \in V : n[v] = Cardinality(Class(M, f, v))
    PROVE  Y!Total(n) = Cardinality(M)
<1>. DEFINE Number(v) == CHOOSE g : g \in Bijection(Class(M, f, v), 1..n[v])
            number == [v \in V |-> Number(v)]
            under == UNION {{v} \X (1..n[v]) : v \in V}
            h == [m \in M |-> <<f[m], number[f[m]][m]>>]
<1>1. ASSUME NEW v \in V
      PROVE  number[v] \in Bijection(Class(M, f, v), 1..n[v])
  <2>1. IsFiniteSet(Class(M, f, v))
    BY FS_Subset DEF Class
  <2>2. n[v] \in Nat /\ n[v] = Cardinality(Class(M, f, v))
    BY <2>1, FS_CardinalityType
  <2>3. ExistsBijection(Class(M, f, v), 1..n[v])
    <3>1. IsFiniteSet(1..n[v]) /\ Cardinality(1..n[v]) = n[v]
      BY <2>2, FS_Interval
    <3>. QED
      BY <2>1, <2>2, <3>1, FS_SameCardinalityBij
  <2>4. \E g : g \in Bijection(Class(M, f, v), 1..n[v])
    BY <2>3 DEF ExistsBijection
  <2>5. Number(v) \in Bijection(Class(M, f, v), 1..n[v])
    BY Zenon, <2>4
  <2>. QED
    BY <2>5
<1>. HIDE DEF number
<1>2. ASSUME NEW m \in M
      PROVE  f[m] \in V /\ m \in Class(M, f, f[m]) /\ number[f[m]][m] \in 1..n[f[m]]
  <2>1. f[m] \in V /\ m \in Class(M, f, f[m])
    BY DEF Class
  <2>2. number[f[m]] \in [Class(M, f, f[m]) -> 1..n[f[m]]]
    BY <1>1, <2>1 DEF Bijection, Injection
  <2>. QED
    BY <2>1, <2>2
<1>3. h \in [M -> under]
  BY <1>2
<1>4. ASSUME NEW a \in M, NEW b \in M, h[a] = h[b]
      PROVE  a = b
  <2>1. f[a] = f[b] /\ number[f[a]][a] = number[f[a]][b]
    BY <1>4
  <2>2. number[f[a]] \in Injection(Class(M, f, f[a]), 1..n[f[a]])
    BY <1>1, <1>2 DEF Bijection
  <2>. QED
    BY <1>2, <2>1, <2>2 DEF Injection, IsInjective
<1>5. ASSUME NEW p \in under
      PROVE  \E m \in M : h[m] = p
  <2>1. PICK v \in V : p \in {v} \X (1..n[v])
    BY Zenon
  <2>2. number[v] \in Surjection(Class(M, f, v), 1..n[v])
    BY <1>1 DEF Bijection
  <2>3. p = <<v, p[2]>> /\ p[2] \in 1..n[v]
    BY <2>1
  <2>4. PICK m \in Class(M, f, v) : number[v][m] = p[2]
    BY <2>2, <2>3 DEF Surjection
  <2>. QED
    BY <2>3, <2>4 DEF Class
<1>. HIDE DEF under
<1>6. h \in Bijection(M, under)
  BY <1>3, <1>4, <1>5 DEF Bijection, Injection, Surjection, IsInjective
<1>7. Cardinality(under) = Cardinality(M)
  BY <1>6, FS_Bijection DEF ExistsBijection
<1>8. Y!Total(n) = Cardinality(under)
  BY Zenon DEF Y!Total, Y!Cardinality, Cardinality, under
<1>. QED
  BY <1>7, <1>8

\* A quotient is below a bound if and only if what is divided is below as many
\* times the divisor.
LEMMA Quotients ==
    ASSUME NEW day \in Nat \ {0}, NEW x \in Int, NEW n \in Nat
    PROVE  /\ x \div day \in Int
           /\ x >= 0 => x \div day >= 0
           /\ x < n * day => x \div day <= n - 1
           /\ x >= n * day => x \div day >= n
<1>. DEFINE k == x \div day
            r == x % day
<1>1. k \in Int /\ r \in Int /\ 0 <= r /\ r < day /\ x = day * k + r
  BY Z3
<1>. HIDE DEF k, r
<1>2. x >= 0 => k >= 0
  <2>1. ASSUME k <= -1, x >= 0 PROVE FALSE
    <3>1. day * k <= day * (-1)
      BY <1>1, <2>1
    <3>. QED
      BY <1>1, <2>1, <3>1
  <2>. QED
    BY <1>1, <2>1
<1>3. x < n * day => k <= n - 1
  <2>1. ASSUME k >= n, x < n * day PROVE FALSE
    <3>1. day * k >= day * n
      BY <1>1, <2>1
    <3>. QED
      BY <1>1, <2>1, <3>1
  <2>. QED
    BY <1>1, <2>1
<1>4. x >= n * day => k >= n
  <2>1. ASSUME k + 1 <= n, x >= n * day PROVE FALSE
    <3>1. day * (k + 1) <= day * n
      BY <1>1, <2>1
    <3>2. day * (k + 1) = day * k + day
      BY <1>1
    <3>. QED
      BY <1>1, <2>1, <3>1, <3>2
  <2>. QED
    BY <1>1, <2>1
<1>. QED
  BY <1>1, <1>2, <1>3, <1>4 DEF k

\* The classes of the calls that match add up to them, by event or requester.
LEMMA CountsAddUp ==
    ASSUME SummaryInv, NEW field \in {"event", "requester"}
    PROVE  Y!Counted(Y!Summary(field)) = Cardinality(Y!Matching)
<1>. DEFINE values == {logs[l][field] : l \in Y!Matching}
            by == [l \in Y!Matching |-> logs[l][field]]
            counts == [v \in values |-> Y!Cardinality({l \in Y!Matching : logs[l][field] = v})]
<1>1. IsFiniteSet(Y!Matching)
  BY FS_Interval, FS_Subset DEF SummaryInv, Y!Matching
<1>2. by \in [Y!Matching -> values]
  OBVIOUS
<1>3. \A v \in values : counts[v] = Cardinality(Class(Y!Matching, by, v))
  <2>. SUFFICES ASSUME NEW v \in values
                PROVE  counts[v] = Cardinality(Class(Y!Matching, by, v))
    OBVIOUS
  <2>1. Class(Y!Matching, by, v) = {l \in Y!Matching : logs[l][field] = v}
    BY DEF Class
  <2>. QED
    BY Zenon, <2>1 DEF Y!Cardinality, Cardinality
<1>4. Y!Total(counts) = Cardinality(Y!Matching)
  <2>1. DOMAIN counts = values
    OBVIOUS
  <2>. HIDE DEF counts, by, values
  <2>2. \A V : by \in [Y!Matching -> V] /\ DOMAIN counts = V
                 /\ (\A v \in V : counts[v] = Cardinality(Class(Y!Matching, by, v)))
          => Y!Total(counts) = Cardinality(Y!Matching)
    BY <1>1, ClassesAddUp
  <2>. QED
    BY <1>2, <1>3, <2>1, <2>2
<1>5. Y!Counted(Y!Summary(field)) = Y!Total(counts)
  <2>1. DOMAIN Y!Summary(field) = values
    BY Zenon DEF Y!Summary
  <2>2. [v \in DOMAIN Y!Summary(field) |-> Y!Summary(field)[v].count] = counts
    BY <2>1 DEF Y!Summary
  <2>. QED
    BY <2>2 DEF Y!Counted
<1>. QED
  BY <1>4, <1>5

\* The days of a requester, at the time they are counted.
LEMMA DaysCounted ==
    ASSUME SummaryInv, summary # Null, NEW v \in DOMAIN Y!Summary("requester")
    PROVE  Y!Total(Y!Summary("requester")[v].daily) = Cardinality(Calls(v))
<1>. DEFINE Of == {l \in Y!Matching : logs[l].requester = v}
            daily == [d \in 0..Days - 1 |-> Y!Cardinality({l \in Of : Y!DayIndex(l) = d})]
            dayOf == [l \in Calls(v) |-> Y!DayIndex(l)]
<1>1. Y!Summary("requester")[v].daily = daily
  BY DEF Y!Summary
<1>2. /\ Day \in Nat \ {0} /\ Days \in Nat \ {0}
      /\ Y!Start = summary - Days * Day /\ Days * Day \in Nat
      /\ summary \in Nat /\ Y!Start \in Int
  BY SummariesAssumption DEF Y!ConstantsOK, SummaryInv, Y!Start
<1>3. ASSUME NEW l \in DOMAIN logs
      PROVE  logs[l].at \in Nat
  <2>1. logs[l] \in Y!Log
    BY <1>3 DEF SummaryInv
  <2>2. logs[l].at \in 0..MaxHours
    BY <2>1 DEF Y!Log
  <2>. QED
    BY <2>2, SummariesAssumption DEF Y!ConstantsOK
<1>4. ASSUME NEW l \in DOMAIN logs, logs[l].at >= Y!Start
      PROVE  /\ Y!DayIndex(l) \in Int /\ Y!DayIndex(l) >= 0
             /\ logs[l].at < summary => Y!DayIndex(l) <= Days - 1
             /\ ~(logs[l].at < summary) => Y!DayIndex(l) >= Days
  <2>. DEFINE x == logs[l].at - Y!Start
  <2>1. x \in Int /\ x >= 0
    BY <1>2, <1>3, <1>4
  <2>2. x < Days * Day <=> logs[l].at < summary
    BY <1>2, <1>3
  <2>3. x >= Days * Day <=> ~(logs[l].at < summary)
    BY <1>2, <1>3
  <2>4. Y!DayIndex(l) = x \div Day
    BY DEF Y!DayIndex
  <2>. HIDE DEF x
  <2>. QED
    BY <1>2, <2>1, <2>2, <2>3, <2>4, Quotients
<1>5. IsFiniteSet(Calls(v))
  BY FS_Interval, FS_Subset DEF SummaryInv, Calls
<1>6. dayOf \in [Calls(v) -> 0..Days - 1]
  BY <1>2, <1>4 DEF Calls
<1>7. \A d \in 0..Days - 1 : daily[d] = Cardinality(Class(Calls(v), dayOf, d))
  <2>. SUFFICES ASSUME NEW d \in 0..Days - 1
                PROVE  daily[d] = Cardinality(Class(Calls(v), dayOf, d))
    OBVIOUS
  <2>1. Class(Calls(v), dayOf, d) = {l \in Of : Y!DayIndex(l) = d}
    BY <1>2, <1>4 DEF Class, Calls, Y!Matching
  <2>2. daily[d] = Y!Cardinality({l \in Of : Y!DayIndex(l) = d})
    OBVIOUS
  <2>. QED
    BY Zenon, <2>1, <2>2 DEF Y!Cardinality, Cardinality
<1>. HIDE DEF daily, dayOf
<1>8. DOMAIN daily = 0..Days - 1
  BY DEF daily
<1>9. Y!Total(daily) = Cardinality(Calls(v))
  <2>1. \A V : dayOf \in [Calls(v) -> V] /\ DOMAIN daily = V
                 /\ (\A d \in V : daily[d] = Cardinality(Class(Calls(v), dayOf, d)))
          => Y!Total(daily) = Cardinality(Calls(v))
    BY <1>5, ClassesAddUp
  <2>. QED
    BY <1>6, <1>7, <1>8, <2>1
<1>. QED
  BY <1>1, <1>9

\* Calls, time and the steps of a summary.
LEMMA SummaryStep == SummaryInv /\ [Y!Next]_(Y!summing) => SummaryInv'
<1>. SUFFICES ASSUME SummaryInv, [Y!Next]_(Y!summing)
              PROVE  SummaryInv'
  OBVIOUS
<1>1. ASSUME NEW e \in Events, NEW q \in Requesters, NEW timed \in BOOLEAN,
             logs' = Append(logs, [event |-> e, requester |-> q, at |-> hour, timed |-> timed]),
             UNCHANGED <<hour, summary, byEvent, byRequester>>
      PROVE  SummaryInv'
  <2>. DEFINE l == [event |-> e, requester |-> q, at |-> hour, timed |-> timed]
              n == Len(logs) + 1
  <2>1. l \in Y!Log
    BY <1>1 DEF Y!Log, SummaryInv
  <2>2. /\ logs' \in Seq(Y!Log) /\ DOMAIN logs' = DOMAIN logs \cup {n}
        /\ logs'[n].at = hour /\ \A k \in DOMAIN logs : logs'[k] = logs[k]
        /\ n \notin DOMAIN logs
    BY <1>1, <2>1 DEF SummaryInv
  <2>3. Y!Start' = Y!Start
    BY <1>1 DEF Y!Start
  <2>4. Y!Matching \subseteq Y!Matching' /\ IsFiniteSet(Y!Matching')
    <3>1. IsFiniteSet(Y!Matching')
      BY <2>2, FS_Interval, FS_Subset DEF Y!Matching
    <3>. QED
      BY <2>2, <2>3, <3>1 DEF Y!Matching
  <2>5. Cardinality(Y!Matching) \in Nat /\ Cardinality(Y!Matching') \in Nat
        /\ Cardinality(Y!Matching) <= Cardinality(Y!Matching')
    BY <2>4, FS_Subset, FS_CardinalityType
  <2>6. byRequester # Null => \A r : Calls(r)' = Calls(r)
    BY <1>1, <2>2, <2>3 DEF SummaryInv, Calls
  <2>7. Y!Counted(byEvent)' = Y!Counted(byEvent)
    BY <1>1 DEF Y!Counted, Y!Total, Y!Cardinality
  <2>8. Y!SecondCountsMore'
    BY <1>1 DEF SummaryInv, Y!SecondCountsMore, Y!Counted, Y!Total, Y!Cardinality
  <2>. QED
    BY <1>1, <2>2, <2>5, <2>6, <2>7, <2>8 DEF SummaryInv
<1>2. CASE Y!LogCall
  <2>1. PICK e \in Events, q \in Requesters, timed \in BOOLEAN :
          logs' = Append(logs, [event |-> e, requester |-> q, at |-> hour, timed |-> timed])
    BY <1>2 DEF Y!LogCall
  <2>. QED
    BY <1>1, <1>2, <2>1 DEF Y!LogCall
<1>3. CASE UNCHANGED <<logs, summary, byEvent, byRequester>> /\ hour' \in 0..MaxHours /\ hour <= hour'
  <2>1. /\ Y!Start' = Y!Start /\ Y!Matching' = Y!Matching
        /\ \A r : Calls(r)' = Calls(r)
    BY <1>3 DEF Y!Start, Y!Matching, Calls
  <2>2. /\ Y!Counted(byEvent)' = Y!Counted(byEvent)
        /\ Y!SecondCountsMore'
    BY <1>3 DEF SummaryInv, Y!SecondCountsMore, Y!Counted, Y!Total, Y!Cardinality
  <2>3. hour \in Nat /\ hour' \in Nat
    BY <1>3, SummariesAssumption DEF SummaryInv, Y!ConstantsOK
  <2>4. summary' # Null => summary' \in Nat /\ summary' <= hour'
    BY <1>3, <2>3 DEF SummaryInv
  <2>5. byEvent' # Null => /\ summary' # Null /\ Y!Counted(byEvent)' \in Nat
                           /\ Y!Counted(byEvent)' <= Cardinality(Y!Matching)'
    BY <1>3, <2>1, <2>2 DEF SummaryInv
  <2>6. byRequester' # Null =>
          \A r \in DOMAIN byRequester' :
             (Y!Total(byRequester[r].daily))' = Cardinality(Calls(r)')
    <3>. SUFFICES ASSUME byRequester' # Null, NEW r \in DOMAIN byRequester'
                  PROVE  (Y!Total(byRequester[r].daily))' = Cardinality(Calls(r)')
      OBVIOUS
    <3>1. (Y!Total(byRequester[r].daily))' = Y!Total(byRequester[r].daily)
      BY <1>3 DEF Y!Total, Y!Cardinality
    <3>2. Y!Total(byRequester[r].daily) = Cardinality(Calls(r))
      BY <1>3 DEF SummaryInv
    <3>. QED
      BY <2>1, <3>1, <3>2
  <2>. QED
    BY <1>3, <2>2, <2>4, <2>5, <2>6 DEF SummaryInv
<1>4. CASE Y!Tick
  BY <1>3, <1>4, SummariesAssumption DEF Y!Tick, SummaryInv, Y!ConstantsOK
<1>5. CASE Y!Ask
  <2>1. byEvent = Null /\ byRequester = Null
    BY <1>5 DEF Y!Ask, SummaryInv
  <2>2. summary' \in Nat /\ summary' <= hour'
    BY <1>5, SummariesAssumption DEF Y!Ask, SummaryInv, Y!ConstantsOK
  <2>. QED
    BY <1>5, <2>1, <2>2 DEF Y!Ask, SummaryInv, Y!SecondCountsMore
<1>6. CASE Y!EventStatistics
  <2>1. byRequester = Null
    BY <1>6 DEF Y!EventStatistics, SummaryInv
  <2>2. Y!Matching' = Y!Matching /\ IsFiniteSet(Y!Matching)
    <3>1. IsFiniteSet(Y!Matching)
      BY FS_Interval, FS_Subset DEF SummaryInv, Y!Matching
    <3>. QED
      BY <1>6, <3>1 DEF Y!EventStatistics, Y!Matching, Y!Start
  <2>3. Cardinality(Y!Matching) \in Nat
    BY <2>2, FS_CardinalityType
  <2>4. Y!Counted(byEvent)' = Cardinality(Y!Matching)
    <3>1. byEvent' = Y!Summary("event")
      BY <1>6 DEF Y!EventStatistics
    <3>2. Y!Counted(byEvent)' = Y!Counted(Y!Summary("event"))
      BY <3>1 DEF Y!Counted, Y!Total, Y!Cardinality
    <3>. QED
      BY <3>2, CountsAddUp
  <2>5. /\ logs' \in Seq(Y!Log) /\ hour' \in 0..MaxHours /\ byRequester' = Null
        /\ summary' # Null /\ summary' \in Nat /\ summary' <= hour'
    BY <1>6, <2>1 DEF Y!EventStatistics, SummaryInv
  <2>6. Y!Counted(byEvent)' \in Nat /\ Y!Counted(byEvent)' <= Cardinality(Y!Matching)'
    BY <2>2, <2>3, <2>4
  <2>7. Y!SecondCountsMore'
    BY <2>5 DEF Y!SecondCountsMore
  <2>. QED
    BY <2>5, <2>6, <2>7 DEF SummaryInv
<1>7. CASE Y!RequesterStatistics
  <2>1. /\ byRequester' = Y!Summary("requester") /\ byEvent # Null /\ summary # Null
        /\ UNCHANGED <<logs, hour, summary, byEvent>>
    BY <1>7 DEF Y!RequesterStatistics, SummaryInv
  <2>2. Y!Counted(byRequester)' = Cardinality(Y!Matching)
    <3>1. Y!Counted(byRequester)' = Y!Counted(Y!Summary("requester"))
      BY <2>1 DEF Y!Counted, Y!Total, Y!Cardinality
    <3>. QED
      BY <3>1, CountsAddUp
  <2>3. Y!Counted(byEvent)' = Y!Counted(byEvent) /\ Y!Matching' = Y!Matching
        /\ \A r : Calls(r)' = Calls(r)
    BY <2>1 DEF Y!Counted, Y!Total, Y!Cardinality, Y!Matching, Y!Start, Calls
  <2>4. ASSUME NEW r \in DOMAIN byRequester'
        PROVE  (Y!Total(byRequester[r].daily))' = Cardinality(Calls(r)')
    <3>1. Y!Total(Y!Summary("requester")[r].daily) = Cardinality(Calls(r))
      BY <2>1, <2>4, DaysCounted
    <3>2. (Y!Total(byRequester[r].daily))' = Y!Total(Y!Summary("requester")[r].daily)
      BY <2>1 DEF Y!Total, Y!Cardinality
    <3>. QED
      BY <2>3, <3>1, <3>2
  <2>5. Y!SecondCountsMore'
    <3>1. Y!Counted(byEvent) <= Cardinality(Y!Matching)
      BY <2>1 DEF SummaryInv
    <3>. QED
      BY <2>2, <2>3, <3>1 DEF Y!SecondCountsMore
  <2>. QED
    BY <2>1, <2>3, <2>4, <2>5 DEF SummaryInv
<1>8. CASE Y!Answer
  BY <1>8 DEF Y!Answer, SummaryInv, Y!SecondCountsMore
<1>9. CASE UNCHANGED Y!summing
  BY <1>3, <1>9, SummariesAssumption DEF Y!summing, SummaryInv, Y!ConstantsOK
<1>. QED
  BY <1>2, <1>4, <1>5, <1>6, <1>7, <1>8, <1>9 DEF Y!Next

\* As long as the log is counted.
LEMMA SummariesLast == PartsSpec => [](part = "summaries" => SummaryInv)
<1>. DEFINE Good == part = "summaries" => SummaryInv
<1>1. PartsInit => Good
  BY SummariesAssumption DEF PartsInit, Y!Init, SummaryInv, Y!SecondCountsMore, Y!ConstantsOK
<1>2. Good /\ [PartsNext]_PartsVars => Good'
  <2>1. [PartsNext]_PartsVars => part' = part
    BY PartKept
  <2>2. [PartsNext]_PartsVars /\ part = "summaries" => [Y!Next]_(Y!summing)
    BY Zenon DEF PartsNext, PartsVars, summing, Y!summing
  <2>. QED
    BY <2>1, <2>2, SummaryStep
<1>. QED
  BY <1>1, <1>2, PTL DEF PartsSpec

\* A summary made while calls are logged is off by those calls alone: the days of a
\* requester add up to the calls logged before it was asked for, and its second part
\* counts no fewer than the first (getLogsSummary).
THEOREM SummariesDoAddUp == PartsSpec => []SummariesAddUp
<1>1. (part = "summaries" => SummaryInv) => SummariesAddUp
  BY DEF SummaryInv, SummariesAddUp, Y!SummariesAddUp, Y!DaysAddUp, Calls, Y!Cardinality, Cardinality
<1>. QED
  BY <1>1, SummariesLast, PTL

-----------------------------------------------------------------------------
(* AnswersAgree: what roles and cold storage answer follows from the clips     *)
(* alone; lists and counts are kept as they are made, by an invariant of the   *)
(* requests under way.                                                         *)

AnswerKeys == {<<>>} \cup (UNION {[some -> Grants] : some \in SUBSET StudyRoles})

Inquiry ==
    [pc : {"idle", "fields", "files", "store", "insert", "outdate", "count"},
     user : Everybody \cup {Null}, field : Fields \cup {Null}, subject : Subjects \cup {Null},
     held : AnswerKeys, versions : SUBSET Nat, fields : SUBSET Fields, content : SUBSET Nat,
     counts : [A!Counters -> Int], from : Nat, raced : BOOLEAN]

CacheEntry ==
    [query : {"files", "summary"}, key : AnswerKeys, inuse : BOOLEAN, content : SUBSET Nat,
     versions : SUBSET Nat, counts : [A!Counters -> Int], from : Nat, to : Nat,
     raced : BOOLEAN]

AnswersTypes ==
    /\ archive \in Seq(A!Clip)
    /\ permissions \in [StudyRoles -> Grants]
    /\ cache \in Seq(CacheEntry)
    /\ inquiry \in [Requests -> Inquiry]

\* What is published has a field that is.
PublishedFields ==
    \A i \in 1..Len(archive) : archive[i].version # 0 => Defined[archive[i].field] # 0

\* A file that roles could see in some versions.
ForList(d, held, versions) ==
    /\ d.field \in FileFields \cap A!StudyFields(held, versions)
    /\ d.version \in versions /\ ~d.deleted
    /\ A!Covered(held, d) /\ ~A!Barred(held)

\* A list with every such file, but for those about to outdate it.
ListsFiles(content, held, versions) ==
    \A i \in 1..Len(archive) :
        ForList(archive[i], held, versions) =>
           \/ i \in content
           \/ \E j \in (i + 1)..Len(archive) : A!Key(archive[j]) = A!Key(archive[i])
           \/ \E q \in Requests : inquiry[q].pc = "outdate" /\ inquiry[q].field = archive[i].field

PublishedClips == {i \in 1..Len(archive) : archive[i].version # 0}

\* The clips that a counter of the summary is about.
ClipsOf(c) ==
    {i \in 1..Len(archive) :
        /\ c \in {"deletes", "versionedDeletes", "unversionedDeletes"} => archive[i].deleted
        /\ c = "versionedDeletes" => archive[i].version # 0
        /\ c \in {"unversioned", "unversionedDeletes"} => archive[i].version = 0}

\* An upload knows its clip.
UploadOK(r) ==
    r.pc = "insert" => r.user \in Everybody /\ r.field \in Fields /\ r.subject \in Subjects

\* A list is made for the permissions of the moment, unless they changed.
FileListOK(r) ==
    /\ r.pc \in {"fields", "files", "store"} =>
          r.user \in Everybody /\ (~r.raced => r.held = A!HeldBy(r.user))
    /\ r.pc = "files" /\ ~r.raced =>
          r.fields = A!StudyFields(A!Held(r.user), r.versions) \cap FileFields
    /\ r.pc = "store" /\ ~r.raced => ListsFiles(r.content, A!Held(r.user), r.versions)

\* A count that was made lacks at most the clips that came since the summary was begun;
\* of published clips none comes.
CountsOK(r) ==
    r.pc = "count" =>
       /\ r.from <= Len(archive)
       /\ \A c \in A!Counters : r.counts[c] # -1 =>
             /\ r.counts[c] <= Cardinality(ClipsOf(c))
             /\ Cardinality(ClipsOf(c)) <= r.counts[c] + (Len(archive) - r.from)
             /\ c = "versionedDeletes" => r.counts[c] = Cardinality(ClipsOf(c))

InquiryOK(r) == UploadOK(r) /\ FileListOK(r) /\ CountsOK(r)

EntryOK(e) ==
    /\ e.query = "files" /\ e.inuse /\ ~e.raced =>
          ListsFiles(e.content, {e.key[r] : r \in DOMAIN e.key}, e.versions)
    /\ e.query = "summary" =>
          LET late == e.to - e.from
              versioned == e.counts["records"] - e.counts["unversioned"]
          IN /\ versioned - Cardinality(PublishedClips) \in (0 - late)..late
             /\ e.counts["deletes"] - e.counts["versionedDeletes"] - e.counts["unversionedDeletes"]
                   \in (0 - late)..late

AnswersInv ==
    /\ AnswersTypes
    /\ PublishedFields
    /\ \A q \in Requests : InquiryOK(inquiry[q])
    /\ \A k \in 1..Len(cache) : EntryOK(cache[k])

\* Of some places in a sequence one is the last.
LEMMA LastOfPlaces ==
    ASSUME NEW n \in Nat, NEW places, places \subseteq 1..n, places # {}
    PROVE  \E i \in places : \A j \in places : j <= i
<1>. DEFINE back == {n - i : i \in places}
<1>1. \A i \in places : i \in Nat /\ i <= n
  OBVIOUS
<1>2. back \subseteq Nat /\ back # {}
  <2>1. \A i \in places : n - i \in Nat
    BY <1>1
  <2>. QED
    BY <2>1, Zenon
<1>3. PICK m \in back : \A k \in back : ~ (<<k, m>> \in OpToRel(<, Nat))
  BY <1>2, NatLessThanWellFounded, WFMin
<1>4. \A k \in back : ~ (k < m)
  BY <1>2, <1>3 DEF OpToRel
<1>5. PICK i \in places : m = n - i
  BY <1>3
<1>6. ASSUME NEW j \in places
      PROVE  j <= i
  <2>1. n - j \in back
    OBVIOUS
  <2>2. ~ (n - j < n - i)
    BY <1>4, <1>5, <2>1
  <2>3. i \in Int /\ j \in Int /\ n \in Int
    BY <1>1
  <2>. QED
    BY <2>2, <2>3
<1>. QED
  BY <1>6

\* Each clip seen is followed by the latest with its key.
LEMMA LatestThere ==
    ASSUME archive \in Seq(A!Clip), NEW seen, seen \subseteq 1..Len(archive), NEW i \in seen
    PROVE  \E j \in A!Latest(seen) : j >= i /\ A!Key(archive[j]) = A!Key(archive[i])
<1>. DEFINE same == {j \in seen : j >= i /\ A!Key(archive[j]) = A!Key(archive[i])}
<1>1. Len(archive) \in Nat /\ same \subseteq seen /\ same \subseteq 1..Len(archive)
  <2>1. Len(archive) \in Nat
    BY LenProperties
  <2>2. same \subseteq seen
    BY Zenon
  <2>. QED
    BY <2>1, <2>2, Zenon
<1>2. i \in same
  <2>1. i \in Int
    BY <1>1
  <2>. QED
    BY <2>1
<1>3. PICK j \in same : \A k \in same : k <= j
  BY <1>1, <1>2, LastOfPlaces
<1>4. ASSUME NEW k \in seen, A!Key(archive[k]) = A!Key(archive[j])
      PROVE  k <= j
  <2>1. k \in Int /\ i \in Int /\ j \in Int /\ j >= i
    BY <1>1
  <2>2. k \in same \/ k < i
    BY <1>4, <2>1
  <2>. QED
    BY <1>3, <2>1, <2>2
<1>. QED
  BY <1>1, <1>3, <1>4 DEF A!Latest

\* More roles never answer an older clip.
LEMMA MoreRoles == archive \in Seq(A!Clip) => A!MoreRolesNewer
<1>. SUFFICES ASSUME archive \in Seq(A!Clip), NEW u \in Everybody, NEW versions,
                     NEW held \in SUBSET A!Held(u), ~A!Barred(A!Held(u))
              PROVE  LET answer == A!DataByRoles(u, A!Held(u), versions, Fields)
                         seen == A!Latest(A!Visible(u, A!Held(u), versions))
                     IN /\ \A i \in A!DataByRoles(u, held, versions, Fields) :
                              \E j \in seen : /\ j >= i /\ A!Key(archive[j]) = A!Key(archive[i])
                                              /\ ~archive[j].deleted => j \in answer
                        /\ \A i \in 1..Len(archive) :
                              /\ archive[i].user = u /\ archive[i].version \in versions
                              /\ archive[i].field \in A!StudyFields(A!Held(u), versions)
                              => \E j \in seen : /\ j >= i /\ A!Key(archive[j]) = A!Key(archive[i])
                                                 /\ ~archive[j].deleted => j \in answer
  BY Zenon DEF A!MoreRolesNewer
<1>. DEFINE visible == A!Visible(u, A!Held(u), versions)
            shown == A!StudyFields(A!Held(u), versions)
            answer == A!DataByRoles(u, A!Held(u), versions, Fields)
<1>1. visible \subseteq 1..Len(archive)
  BY DEF A!Visible
<1>2. ASSUME NEW i \in visible, archive[i].field \in shown
      PROVE  \E j \in A!Latest(visible) : /\ j >= i /\ A!Key(archive[j]) = A!Key(archive[i])
                                          /\ ~archive[j].deleted => j \in answer
  <2>1. PICK j \in A!Latest(visible) : j >= i /\ A!Key(archive[j]) = A!Key(archive[i])
    BY <1>1, LatestThere
  <2>2. archive[j].field = archive[i].field /\ archive[i].field \in Fields
    BY <1>2, <2>1 DEF A!Key, A!StudyFields
  <2>3. ~archive[j].deleted => j \in answer
    BY <1>2, <2>1, <2>2 DEF A!DataByRoles
  <2>. QED
    BY <2>1, <2>3
<1>3. A!StudyFields(held, versions) \subseteq shown
  BY DEF A!StudyFields
<1>4. A!DataByRoles(u, held, versions, Fields) \subseteq
        {i \in A!Visible(u, held, versions) : archive[i].field \in A!StudyFields(held, versions)}
  BY DEF A!DataByRoles, A!Latest
<1>5. A!Visible(u, held, versions) \subseteq visible
  BY DEF A!Visible, A!Covered
<1>6. \A i \in 1..Len(archive) :
         archive[i].user = u /\ archive[i].version \in versions => i \in visible
  BY DEF A!Visible
<1>. HIDE DEF visible, shown, answer
<1>7. \A i \in A!DataByRoles(u, held, versions, Fields) : i \in visible /\ archive[i].field \in shown
  BY <1>3, <1>4, <1>5
<1>8. /\ \A i \in A!DataByRoles(u, held, versions, Fields) :
            \E j \in A!Latest(visible) : /\ j >= i /\ A!Key(archive[j]) = A!Key(archive[i])
                                         /\ ~archive[j].deleted => j \in answer
      /\ \A i \in 1..Len(archive) :
            /\ archive[i].user = u /\ archive[i].version \in versions
            /\ archive[i].field \in shown
            => \E j \in A!Latest(visible) : /\ j >= i /\ A!Key(archive[j]) = A!Key(archive[i])
                                            /\ ~archive[j].deleted => j \in answer
  BY <1>2, <1>6, <1>7
<1>. QED
  BY <1>8 DEF visible, shown, answer

\* Of two published clips with a key, roles cover both or none.
LEMMA CoveredAlike ==
    ASSUME NEW held, NEW d, NEW e, A!Key(d) = A!Key(e), d.version # 0, e.version # 0,
           A!Covered(held, d)
    PROVE  A!Covered(held, e)
  BY DEF A!Covered, A!Granted, A!Key

\* Cold storage answers what others published as the clips do.
LEMMA ColdAlike == archive \in Seq(A!Clip) /\ PublishedFields => A!ColdAnswersAlike
<1>. SUFFICES ASSUME archive \in Seq(A!Clip), PublishedFields, NEW u \in Everybody
              PROVE  {i \in A!DataLatest(A!Held(u), FALSE) : ~archive[i].deleted} =
                       {i \in A!DataByRoles(u, A!Held(u), A!Versions \ {0},
                                            A!StudyFields(A!Held(u), A!Versions)) :
                          A!Covered(A!Held(u), archive[i])}
  BY DEF A!ColdAnswersAlike
<1>. DEFINE H == A!Held(u)
            published == {i \in 1..Len(archive) : archive[i].version # 0}
            visible == A!Visible(u, H, A!Versions \ {0})
            shown == A!StudyFields(H, A!Versions)
<1>1. CASE A!Barred(H)
  BY <1>1 DEF A!DataLatest, A!DataByRoles
<1>2. CASE ~A!Barred(H)
  <2>1. {i \in A!DataLatest(H, FALSE) : ~archive[i].deleted} =
          {i \in A!Latest(published) : /\ A!Covered(H, archive[i])
                                       /\ archive[i].field \in shown /\ ~archive[i].deleted}
    BY <1>2 DEF A!DataLatest, A!Cold
  <2>2. A!DataByRoles(u, H, A!Versions \ {0}, shown) =
          {i \in A!Latest(visible) :
              /\ archive[i].field \in shown \cap A!StudyFields(H, A!Versions \ {0})
              /\ ~archive[i].deleted}
    BY <1>2 DEF A!DataByRoles
  <2>3. \A i \in published : archive[i].version \in A!Versions \ {0}
    BY DEF A!Versions
  <2>4. visible \subseteq published
    BY DEF A!Visible
  <2>5. \A i \in published : A!Covered(H, archive[i]) => i \in visible
    BY <2>3 DEF A!Visible
  <2>6. \A i \in published :
           archive[i].field \in shown => archive[i].field \in A!StudyFields(H, A!Versions \ {0})
    BY DEF PublishedFields, A!StudyFields
  <2>7. \A i, j \in published :
           A!Key(archive[i]) = A!Key(archive[j]) /\ A!Covered(H, archive[i])
              => A!Covered(H, archive[j])
    <3>1. ASSUME NEW i \in published, NEW j \in published,
                 A!Key(archive[i]) = A!Key(archive[j]), A!Covered(H, archive[i])
          PROVE  A!Covered(H, archive[j])
      <4>1. archive[i].version # 0 /\ archive[j].version # 0
        BY Zenon
      <4>. HIDE DEF published, H
      <4>. QED
        BY <3>1, <4>1, CoveredAlike
    <3>. QED
      BY <3>1, Zenon
  <2>. QED
    BY <2>1, <2>2, <2>4, <2>5, <2>6, <2>7 DEF A!Latest
<1>. QED
  BY <1>1, <1>2

\* What the roles of a user give, as a key and as a set.
LEMMA KeyOfUser ==
    ASSUME permissions \in [StudyRoles -> Grants], NEW u \in Everybody
    PROVE  /\ A!HeldBy(u) \in AnswerKeys
           /\ {A!HeldBy(u)[r] : r \in DOMAIN A!HeldBy(u)} = A!Held(u)
<1>1. A!RolesOf(u) \in SUBSET StudyRoles
  BY DEF A!RolesOf
<1>2. A!HeldBy(u) \in [A!RolesOf(u) -> Grants]
  BY <1>1 DEF A!HeldBy
<1>3. A!HeldBy(u) \in AnswerKeys
  BY <1>1, <1>2, Zenon DEF AnswerKeys
<1>4. {A!HeldBy(u)[r] : r \in DOMAIN A!HeldBy(u)} = A!Held(u)
  BY DEF A!HeldBy, A!Held
<1>. QED
  BY <1>3, <1>4

\* Versions are numbers, answers are places of clips.
LEMMA AnswerTypes ==
    ASSUME archive \in Seq(A!Clip)
    PROVE  /\ A!Versions \in SUBSET Nat /\ {0} \in SUBSET Nat
           /\ \A u, held, versions, some : A!DataByRoles(u, held, versions, some) \in SUBSET Nat
<1>1. \A i \in 1..Len(archive) : archive[i].version \in Nat
  <2>1. \A i \in 1..Len(archive) : archive[i] \in A!Clip
    BY ElementOfSeq
  <2>. QED
    BY <2>1 DEF A!Clip
<1>2. \A f \in Fields : Defined[f] \in Nat
  BY AnswersAssumption DEF A!ConstantsOK
<1>3. 1..Len(archive) \subseteq Nat
  OBVIOUS
<1>4. ASSUME NEW u, NEW held, NEW versions, NEW some
      PROVE  A!DataByRoles(u, held, versions, some) \subseteq 1..Len(archive)
  <2>1. A!Latest(A!Visible(u, held, versions)) \subseteq 1..Len(archive)
    BY DEF A!Latest, A!Visible
  <2>. QED
    BY <2>1 DEF A!DataByRoles
<1>. QED
  BY <1>1, <1>2, <1>3, <1>4 DEF A!Versions

\* Who is not asking is fine.
LEMMA IdleInquiry == A!Idle \in Inquiry /\ InquiryOK(A!Idle)
<1>1. A!NoCounts \in [A!Counters -> Int]
  BY DEF A!NoCounts
<1>2. <<>> \in AnswerKeys
  BY Zenon DEF AnswerKeys
<1>. QED
  BY <1>1, <1>2 DEF A!Idle, Inquiry, InquiryOK, UploadOK, FileListOK, CountsOK

\* How many clips there are for each counter.
LEMMA ClipsFinite ==
    ASSUME archive \in Seq(A!Clip)
    PROVE  /\ IsFiniteSet(PublishedClips) /\ Cardinality(PublishedClips) \in Nat
           /\ \A c : /\ IsFiniteSet(ClipsOf(c)) /\ Cardinality(ClipsOf(c)) \in Nat
                     /\ A!Counted(c) = Cardinality(ClipsOf(c))
<1>1. Len(archive) \in Nat
  BY LenProperties
<1>2. IsFiniteSet(1..Len(archive))
  BY <1>1, FS_Interval
<1>3. PublishedClips \in SUBSET (1..Len(archive))
      /\ \A c : ClipsOf(c) \in SUBSET (1..Len(archive))
  BY Zenon DEF PublishedClips, ClipsOf
<1>4. IsFiniteSet(PublishedClips) /\ \A c : IsFiniteSet(ClipsOf(c))
  BY <1>2, <1>3, FS_Subset
<1>5. ASSUME NEW places
      PROVE  A!Cardinality(places) = Cardinality(places)
  BY Zenon DEF A!Cardinality, Cardinality
<1>6. ASSUME NEW c
      PROVE  A!Counted(c) = Cardinality(ClipsOf(c))
  BY <1>5, Zenon DEF A!Counted, ClipsOf
<1>. QED
  BY <1>4, <1>6, FS_CardinalityType

\* How they add up.
LEMMA ClipsAddUp ==
    ASSUME archive \in Seq(A!Clip)
    PROVE  /\ Cardinality(ClipsOf("records")) = Len(archive)
           /\ Cardinality(ClipsOf("unversioned")) + Cardinality(PublishedClips) = Len(archive)
           /\ Cardinality(ClipsOf("deletes")) =
                Cardinality(ClipsOf("versionedDeletes")) + Cardinality(ClipsOf("unversionedDeletes"))
<1>1. Len(archive) \in Nat
  BY LenProperties
<1>2. Cardinality(1..Len(archive)) = Len(archive)
  <2>1. Cardinality(1..Len(archive)) =
             IF 1 > Len(archive) THEN 0 ELSE Len(archive) - 1 + 1
    BY <1>1, FS_Interval
  <2>. QED
    BY <1>1, <2>1
<1>3. Cardinality({}) = 0
  BY FS_EmptySet
<1>4. ClipsOf("records") = 1..Len(archive)
  BY DEF ClipsOf
<1>5. Cardinality(1..Len(archive)) =
        Cardinality(ClipsOf("unversioned")) + Cardinality(PublishedClips) - Cardinality({})
  <2>1. ClipsOf("unversioned") \cap PublishedClips = {}
        /\ ClipsOf("unversioned") \cup PublishedClips = 1..Len(archive)
    BY DEF PublishedClips, ClipsOf
  <2>2. IsFiniteSet(ClipsOf("unversioned")) /\ IsFiniteSet(PublishedClips)
    BY ClipsFinite
  <2>3. Cardinality(ClipsOf("unversioned") \cup PublishedClips) =
          Cardinality(ClipsOf("unversioned")) + Cardinality(PublishedClips)
            - Cardinality(ClipsOf("unversioned") \cap PublishedClips)
    BY <2>2, FS_Union
  <2>. QED
    BY <2>1, <2>3, Zenon
<1>6. Cardinality(ClipsOf("deletes")) =
        Cardinality(ClipsOf("versionedDeletes")) + Cardinality(ClipsOf("unversionedDeletes"))
          - Cardinality({})
  <2>1. ClipsOf("versionedDeletes") \cap ClipsOf("unversionedDeletes") = {}
        /\ ClipsOf("versionedDeletes") \cup ClipsOf("unversionedDeletes") = ClipsOf("deletes")
    <3>1. ClipsOf("deletes") = {i \in 1..Len(archive) : archive[i].deleted}
      BY DEF ClipsOf
    <3>2. ClipsOf("versionedDeletes") =
            {i \in 1..Len(archive) : archive[i].deleted /\ archive[i].version # 0}
      BY DEF ClipsOf
    <3>3. ClipsOf("unversionedDeletes") =
            {i \in 1..Len(archive) : archive[i].deleted /\ archive[i].version = 0}
      BY DEF ClipsOf
    <3>. QED
      BY <3>1, <3>2, <3>3, Zenon
  <2>2. IsFiniteSet(ClipsOf("versionedDeletes")) /\ IsFiniteSet(ClipsOf("unversionedDeletes"))
    BY ClipsFinite
  <2>3. Cardinality(ClipsOf("versionedDeletes") \cup ClipsOf("unversionedDeletes")) =
          Cardinality(ClipsOf("versionedDeletes")) + Cardinality(ClipsOf("unversionedDeletes"))
            - Cardinality(ClipsOf("versionedDeletes") \cap ClipsOf("unversionedDeletes"))
    BY <2>2, FS_Union
  <2>. QED
    BY <2>1, <2>3, Zenon
<1>. QED
  BY <1>2, <1>3, <1>4, <1>5, <1>6, ClipsFinite

\* A list stays one while requests begin to outdate it, and no clip comes.
LEMMA ListsStay ==
    ASSUME UNCHANGED archive,
           \A q \in Requests : inquiry[q].pc = "outdate" =>
              inquiry'[q].pc = "outdate" /\ inquiry'[q].field = inquiry[q].field
    PROVE  \A content, held, versions :
              ListsFiles(content, held, versions) => ListsFiles(content, held, versions)'
  BY DEF ListsFiles

\* So it is when a clip comes that need not be in it.
LEMMA ListsGrow ==
    ASSUME archive \in Seq(A!Clip), NEW d \in A!Clip, archive' = Append(archive, d),
           \A q \in Requests : inquiry[q].pc = "outdate" =>
              inquiry'[q].pc = "outdate" /\ inquiry'[q].field = inquiry[q].field,
           \/ d.deleted
           \/ d.field \notin FileFields
           \/ \E q \in Requests : inquiry'[q].pc = "outdate" /\ inquiry'[q].field = d.field
    PROVE  \A content, held, versions :
              ListsFiles(content, held, versions) => ListsFiles(content, held, versions)'
<1>1. /\ Len(archive) \in Nat /\ Len(archive') = Len(archive) + 1
      /\ archive'[Len(archive) + 1] = d
      /\ \A i \in 1..Len(archive) : archive'[i] = archive[i]
  OBVIOUS
<1>. SUFFICES ASSUME NEW content, NEW held, NEW versions, ListsFiles(content, held, versions),
                     NEW i \in 1..Len(archive'), ForList(archive'[i], held, versions)
              PROVE  \/ i \in content
                     \/ \E j \in (i + 1)..Len(archive') : A!Key(archive'[j]) = A!Key(archive'[i])
                     \/ \E q \in Requests : /\ inquiry'[q].pc = "outdate"
                                            /\ inquiry'[q].field = archive'[i].field
  BY DEF ListsFiles
<1>2. CASE i = Len(archive) + 1
  BY <1>1, <1>2 DEF ForList
<1>3. CASE i \in 1..Len(archive)
  <2>1. \/ i \in content
        \/ \E j \in (i + 1)..Len(archive) : A!Key(archive[j]) = A!Key(archive[i])
        \/ \E q \in Requests : inquiry[q].pc = "outdate" /\ inquiry[q].field = archive[i].field
    BY <1>1, <1>3, Zenon DEF ListsFiles
  <2>2. \A j \in (i + 1)..Len(archive) :
           /\ j \in (i + 1)..Len(archive')
           /\ A!Key(archive'[j]) = A!Key(archive[j]) /\ A!Key(archive'[i]) = A!Key(archive[i])
    BY <1>1, <1>3 DEF A!Key
  <2>. QED
    BY <1>1, <1>3, <2>1, <2>2, Zenon
<1>. QED
  BY <1>1, <1>2, <1>3

\* What a clip without a version adds to the counts.
LEMMA CountsGrow ==
    ASSUME archive \in Seq(A!Clip), NEW d \in A!Clip, d.version = 0, archive' = Append(archive, d)
    PROVE  /\ archive' \in Seq(A!Clip)
           /\ Len(archive) \in Nat /\ Len(archive') = Len(archive) + 1
           /\ PublishedFields => PublishedFields'
           /\ PublishedClips' = PublishedClips
           /\ \A c : /\ Cardinality(ClipsOf(c)) \in Nat
                     /\ \/ Cardinality(ClipsOf(c)') = Cardinality(ClipsOf(c))
                        \/ Cardinality(ClipsOf(c)') = Cardinality(ClipsOf(c)) + 1
           /\ ClipsOf("versionedDeletes")' = ClipsOf("versionedDeletes")
<1>1. /\ archive' \in Seq(A!Clip)
      /\ Len(archive) \in Nat /\ Len(archive') = Len(archive) + 1
      /\ archive'[Len(archive) + 1] = d
      /\ \A i \in 1..Len(archive) : archive'[i] = archive[i]
      /\ 1..Len(archive') = 1..Len(archive) \cup {Len(archive) + 1}
  OBVIOUS
<1>2. PublishedClips' = PublishedClips
  BY <1>1 DEF PublishedClips
<1>3. ClipsOf("versionedDeletes")' = ClipsOf("versionedDeletes")
  BY <1>1 DEF ClipsOf
<1>4. ASSUME NEW c
      PROVE  \/ ClipsOf(c)' = ClipsOf(c)
             \/ ClipsOf(c)' = ClipsOf(c) \cup {Len(archive) + 1}
  BY <1>1 DEF ClipsOf
<1>5. \A c : Len(archive) + 1 \notin ClipsOf(c)
  BY <1>1 DEF ClipsOf
<1>6. \A c : IsFiniteSet(ClipsOf(c)) /\ Cardinality(ClipsOf(c)) \in Nat
  BY ClipsFinite
<1>7. \A c : Cardinality(ClipsOf(c) \cup {Len(archive) + 1}) = Cardinality(ClipsOf(c)) + 1
  BY <1>5, <1>6, FS_AddElement
<1>8. PublishedFields => PublishedFields'
  BY <1>1 DEF PublishedFields
<1>. QED
  BY <1>1, <1>2, <1>3, <1>4, <1>6, <1>7, <1>8, Zenon

\* The counts of a summary under way, when a clip comes.
LEMMA CountsOKGrow ==
    ASSUME archive \in Seq(A!Clip), NEW d \in A!Clip, d.version = 0, archive' = Append(archive, d),
           NEW r \in Inquiry, CountsOK(r)
    PROVE  CountsOK(r)'
<1>. SUFFICES ASSUME r.pc = "count"
              PROVE  /\ r.from <= Len(archive')
                     /\ \A c \in A!Counters : r.counts[c] # -1 =>
                           /\ r.counts[c] <= Cardinality(ClipsOf(c)')
                           /\ Cardinality(ClipsOf(c)') <= r.counts[c] + (Len(archive') - r.from)
                           /\ c = "versionedDeletes" => r.counts[c] = Cardinality(ClipsOf(c)')
  BY DEF CountsOK
<1>1. /\ Len(archive) \in Nat /\ Len(archive') = Len(archive) + 1
      /\ r.from \in Nat /\ r.from <= Len(archive)
  BY CountsGrow DEF Inquiry, CountsOK
<1>2. ASSUME NEW c \in A!Counters, r.counts[c] # -1
      PROVE  /\ r.counts[c] <= Cardinality(ClipsOf(c)')
             /\ Cardinality(ClipsOf(c)') <= r.counts[c] + (Len(archive') - r.from)
             /\ c = "versionedDeletes" => r.counts[c] = Cardinality(ClipsOf(c)')
  <2>. DEFINE old == Cardinality(ClipsOf(c))
              new == Cardinality(ClipsOf(c)')
              n == r.counts[c]
  <2>1. /\ n \in Int /\ n <= old /\ old <= n + (Len(archive) - r.from)
        /\ c = "versionedDeletes" => n = old
    BY <1>2 DEF CountsOK, Inquiry
  <2>2. old \in Nat /\ (new = old \/ new = old + 1)
    BY CountsGrow
  <2>3. c = "versionedDeletes" => new = old
    BY CountsGrow, Zenon
  <2>. HIDE DEF old, new, n
  <2>4. n <= new /\ new <= n + (Len(archive') - r.from) /\ (c = "versionedDeletes" => n = new)
    BY <1>1, <2>1, <2>2, <2>3
  <2>. QED
    BY <2>4 DEF old, new, n
<1>. QED
  BY <1>1, <1>2

\* A request moves on; none ceases to be about to outdate the lists.
LEMMA InquiryMoves ==
    ASSUME AnswersInv, NEW q \in Requests, NEW r \in Inquiry, InquiryOK(r),
           inquiry' = [inquiry EXCEPT ![q] = r], inquiry[q].pc # "outdate",
           UNCHANGED <<archive, permissions, cache>>
    PROVE  AnswersInv'
<1>1. \A p \in Requests : inquiry'[p] = IF p = q THEN r ELSE inquiry[p]
  BY DEF AnswersInv, AnswersTypes
<1>2. \A content, held, versions :
         ListsFiles(content, held, versions) => ListsFiles(content, held, versions)'
  BY <1>1, ListsStay
<1>3. AnswersTypes'
  BY DEF AnswersInv, AnswersTypes
<1>4. PublishedFields'
  BY DEF AnswersInv, PublishedFields
<1>5. \A e : EntryOK(e) => EntryOK(e)'
  BY <1>2 DEF EntryOK, PublishedClips
<1>6. \A e : InquiryOK(e) => InquiryOK(e)'
  BY <1>2 DEF InquiryOK, UploadOK, FileListOK, CountsOK, ClipsOf, A!Held, A!HeldBy, A!RolesOf
<1>. QED
  BY <1>1, <1>3, <1>4, <1>5, <1>6 DEF AnswersInv

\* A list is asked for.
LEMMA GetStudyFilesKeeps ==
    ASSUME AnswersInv, NEW q \in Requests, NEW u \in Everybody,
           NEW versions \in {A!Versions, {0}}, NEW forceUpdate,
           A!GetStudyFiles(q, u, versions, forceUpdate)
    PROVE  AnswersInv'
<1>. DEFINE s == [A!Idle EXCEPT !.pc = "fields", !.user = u, !.held = A!HeldBy(u),
                                !.versions = versions]
<1>1. PICK r : r = s
  OBVIOUS
<1>2. /\ A!HeldBy(u) \in AnswerKeys /\ versions \in SUBSET Nat
  BY KeyOfUser, AnswerTypes DEF AnswersInv, AnswersTypes
<1>3. r \in Inquiry
  BY <1>1, <1>2, IdleInquiry DEF Inquiry
<1>4. InquiryOK(r)
  <2>1. r.pc = "fields" /\ r.user = u /\ r.held = A!HeldBy(u)
    BY <1>1, IdleInquiry DEF Inquiry
  <2>. QED
    BY <2>1 DEF InquiryOK, UploadOK, FileListOK, CountsOK
<1>5. /\ inquiry[q].pc = "idle" /\ inquiry' = [inquiry EXCEPT ![q] = r]
      /\ UNCHANGED <<archive, permissions, cache>>
  BY <1>1 DEF A!GetStudyFiles, A!Begin, A!MayBegin
<1>. QED
  BY <1>3, <1>4, <1>5, InquiryMoves

\* An upload is admitted.
LEMMA UploadDataKeeps ==
    ASSUME AnswersInv, NEW q \in Requests, NEW u \in Everybody, NEW f \in Fields,
           NEW s \in Subjects, A!UploadData(q, u, f, s)
    PROVE  AnswersInv'
<1>. DEFINE t == [A!Idle EXCEPT !.pc = "insert", !.user = u, !.field = f, !.subject = s]
<1>1. PICK r : r = t
  OBVIOUS
<1>2. r \in Inquiry
  BY <1>1, IdleInquiry DEF Inquiry
<1>3. InquiryOK(r)
  <2>1. r.pc = "insert" /\ r.user = u /\ r.field = f /\ r.subject = s
    BY <1>1, IdleInquiry DEF Inquiry
  <2>. QED
    BY <2>1 DEF InquiryOK, UploadOK, FileListOK, CountsOK
<1>4. /\ inquiry[q].pc = "idle" /\ inquiry' = [inquiry EXCEPT ![q] = r]
      /\ UNCHANGED <<archive, permissions, cache>>
  BY <1>1 DEF A!UploadData, A!Begin, A!MayBegin
<1>. QED
  BY <1>2, <1>3, <1>4, InquiryMoves

\* A summary is asked for.
LEMMA GetStudySummaryKeeps ==
    ASSUME AnswersInv, NEW q \in Requests, NEW u \in Everybody, NEW forceUpdate,
           A!GetStudySummary(q, u, forceUpdate)
    PROVE  AnswersInv'
<1>. DEFINE s == [A!Idle EXCEPT !.pc = "count", !.user = u, !.from = Len(archive)]
<1>1. PICK r : r = s
  OBVIOUS
<1>2. Len(archive) \in Nat
  BY LenProperties DEF AnswersInv, AnswersTypes
<1>3. r \in Inquiry
  BY <1>1, <1>2, IdleInquiry DEF Inquiry
<1>4. InquiryOK(r)
  <2>1. r.pc = "count" /\ r.from = Len(archive) /\ \A c \in A!Counters : r.counts[c] = -1
    <3>1. A!Idle.counts = A!NoCounts
      BY DEF A!Idle
    <3>2. r.pc = "count" /\ r.from = Len(archive) /\ r.counts = A!Idle.counts
      BY <1>1, IdleInquiry DEF Inquiry
    <3>. QED
      BY <3>1, <3>2 DEF A!NoCounts
  <2>. QED
    BY <1>2, <2>1 DEF InquiryOK, UploadOK, FileListOK, CountsOK
<1>5. /\ inquiry[q].pc = "idle" /\ inquiry' = [inquiry EXCEPT ![q] = r]
      /\ UNCHANGED <<archive, permissions, cache>>
  BY <1>1 DEF A!GetStudySummary, A!Begin, A!MayBegin
<1>. QED
  BY <1>3, <1>4, <1>5, InquiryMoves

\* The fields of a list are read.
LEMMA ReadFieldsKeeps ==
    ASSUME AnswersInv, NEW q \in Requests, A!ReadFields(q)
    PROVE  AnswersInv'
<1>. DEFINE s == inquiry[q]
            shown == A!StudyFields(A!Held(s.user), s.versions) \cap FileFields
            t == [s EXCEPT !.pc = "files", !.fields = shown]
<1>1. PICK r : r = t
  OBVIOUS
<1>2. s \in Inquiry /\ InquiryOK(s) /\ s.pc = "fields" /\ shown \in SUBSET Fields
  BY DEF AnswersInv, AnswersTypes, A!ReadFields, A!StudyFields
<1>3. /\ r.pc = "files" /\ r.user = s.user /\ r.held = s.held /\ r.versions = s.versions
      /\ r.raced = s.raced /\ r.fields = shown
  BY <1>1, <1>2 DEF Inquiry
<1>4. r \in Inquiry
  BY <1>1, <1>2 DEF Inquiry
<1>5. InquiryOK(r)
  BY <1>2, <1>3 DEF InquiryOK, UploadOK, FileListOK, CountsOK
<1>6. /\ inquiry' = [inquiry EXCEPT ![q] = r] /\ UNCHANGED <<archive, permissions, cache>>
  BY <1>1 DEF A!ReadFields
<1>. QED
  BY <1>2, <1>4, <1>5, <1>6, InquiryMoves

\* A list of files read for the permissions of the moment has every file they show.
LEMMA FilesRead ==
    ASSUME archive \in Seq(A!Clip), NEW u, NEW held, NEW versions
    PROVE  ListsFiles(A!DataByRoles(u, held, versions,
                                    A!StudyFields(held, versions) \cap FileFields),
                      held, versions)
<1>. DEFINE visible == A!Visible(u, held, versions)
            content == A!DataByRoles(u, held, versions,
                                     A!StudyFields(held, versions) \cap FileFields)
<1>. SUFFICES ASSUME NEW i \in 1..Len(archive), ForList(archive[i], held, versions)
              PROVE  \/ i \in content
                     \/ \E j \in (i + 1)..Len(archive) : A!Key(archive[j]) = A!Key(archive[i])
  BY DEF ListsFiles
<1>1. i \in visible /\ visible \subseteq 1..Len(archive)
  BY DEF A!Visible, ForList
<1>2. CASE i \in A!Latest(visible)
  BY <1>2 DEF A!DataByRoles, ForList
<1>3. CASE i \notin A!Latest(visible)
  <2>1. PICK j \in visible : A!Key(archive[j]) = A!Key(archive[i]) /\ ~(j <= i)
    BY <1>1, <1>3 DEF A!Latest
  <2>2. j \in 1..Len(archive) /\ i \in 1..Len(archive) /\ Len(archive) \in Nat
    BY <1>1, LenProperties
  <2>3. j \in (i + 1)..Len(archive)
    BY <2>1, <2>2
  <2>. QED
    BY <2>1, <2>3
<1>. QED
  BY <1>2, <1>3

\* The files of a list are read.
LEMMA ReadFilesKeeps ==
    ASSUME AnswersInv, NEW q \in Requests, A!ReadFiles(q)
    PROVE  AnswersInv'
<1>. DEFINE s == inquiry[q]
            read == A!DataByRoles(s.user, A!Held(s.user), s.versions, s.fields)
            t == [s EXCEPT !.pc = "store", !.content = read]
<1>1. PICK r : r = t
  OBVIOUS
<1>2. s \in Inquiry /\ InquiryOK(s) /\ s.pc = "files" /\ archive \in Seq(A!Clip)
  BY DEF AnswersInv, AnswersTypes, A!ReadFiles
<1>3. read \in SUBSET Nat
  BY <1>2, AnswerTypes
<1>4. /\ r.pc = "store" /\ r.user = s.user /\ r.held = s.held /\ r.versions = s.versions
      /\ r.raced = s.raced /\ r.content = read
  BY <1>1, <1>2 DEF Inquiry
<1>5. r \in Inquiry
  BY <1>1, <1>2, <1>3 DEF Inquiry
<1>6. ~s.raced => ListsFiles(read, A!Held(s.user), s.versions)
  BY <1>2, FilesRead DEF InquiryOK, FileListOK
<1>. HIDE DEF read
<1>7. InquiryOK(r)
  BY <1>2, <1>4, <1>6 DEF InquiryOK, UploadOK, FileListOK, CountsOK
<1>8. /\ inquiry' = [inquiry EXCEPT ![q] = r] /\ UNCHANGED <<archive, permissions, cache>>
  BY <1>1 DEF A!ReadFiles, read
<1>. QED
  BY <1>2, <1>5, <1>7, <1>8, InquiryMoves

\* A count of a summary comes.
LEMMA CountKeeps ==
    ASSUME AnswersInv, NEW q \in Requests, NEW c \in A!Counters, A!Count(q, c)
    PROVE  AnswersInv'
<1>. DEFINE s == inquiry[q]
            t == [s EXCEPT !.counts = [@ EXCEPT ![c] = A!Counted(c)]]
<1>1. PICK r : r = t
  OBVIOUS
<1>2. s \in Inquiry /\ InquiryOK(s) /\ s.pc = "count" /\ archive \in Seq(A!Clip)
  BY DEF AnswersInv, AnswersTypes, A!Count
<1>3. A!Counted(c) = Cardinality(ClipsOf(c)) /\ Cardinality(ClipsOf(c)) \in Nat
      /\ Len(archive) \in Nat
  BY <1>2, ClipsFinite, LenProperties
<1>4. /\ r.pc = "count" /\ r.from = s.from
      /\ r.counts[c] = Cardinality(ClipsOf(c))
      /\ \A d \in A!Counters : d # c => r.counts[d] = s.counts[d]
  BY <1>1, <1>2, <1>3 DEF Inquiry
<1>5. r \in Inquiry
  <2>1. s.counts \in [A!Counters -> Int]
    BY <1>2 DEF Inquiry
  <2>2. [s.counts EXCEPT ![c] = A!Counted(c)] \in [A!Counters -> Int]
    BY <1>3, <2>1
  <2>3. r = [s EXCEPT !.counts = [s.counts EXCEPT ![c] = A!Counted(c)]]
    BY <1>1
  <2>. QED
    BY <1>2, <2>2, <2>3 DEF Inquiry
<1>6. CountsOK(r)
  <2>1. s.from \in Nat /\ s.from <= Len(archive)
    BY <1>2 DEF Inquiry, InquiryOK, CountsOK
  <2>2. ASSUME NEW d \in A!Counters, r.counts[d] # -1
        PROVE  /\ r.counts[d] <= Cardinality(ClipsOf(d))
               /\ Cardinality(ClipsOf(d)) <= r.counts[d] + (Len(archive) - r.from)
               /\ d = "versionedDeletes" => r.counts[d] = Cardinality(ClipsOf(d))
    <3>1. CASE d = c
      BY <1>3, <1>4, <2>1, <3>1
    <3>2. CASE d # c
      BY <1>2, <1>4, <2>2, <3>2 DEF InquiryOK, CountsOK
    <3>. QED
      BY <3>1, <3>2
  <2>. QED
    BY <1>4, <2>1, <2>2 DEF CountsOK
<1>7. InquiryOK(r)
  BY <1>4, <1>6 DEF InquiryOK, UploadOK, FileListOK
<1>8. /\ inquiry' = [inquiry EXCEPT ![q] = r] /\ UNCHANGED <<archive, permissions, cache>>
  BY <1>1 DEF A!Count
<1>. QED
  BY <1>2, <1>5, <1>7, <1>8, InquiryMoves

\* An entry is stored, and its request is done.
LEMMA EntryStored ==
    ASSUME AnswersInv, NEW q \in Requests, NEW e \in CacheEntry, EntryOK(e),
           cache' = Append(cache, e), inquiry' = [inquiry EXCEPT ![q] = A!Idle],
           inquiry[q].pc # "outdate", UNCHANGED <<archive, permissions>>
    PROVE  AnswersInv'
<1>1. \A p \in Requests : inquiry'[p] = IF p = q THEN A!Idle ELSE inquiry[p]
  BY DEF AnswersInv, AnswersTypes
<1>2. \A content, held, versions :
         ListsFiles(content, held, versions) => ListsFiles(content, held, versions)'
  BY <1>1, ListsStay
<1>3. AnswersTypes'
  BY IdleInquiry DEF AnswersInv, AnswersTypes
<1>4. PublishedFields'
  BY DEF AnswersInv, PublishedFields
<1>5. \A d : EntryOK(d) => EntryOK(d)'
  BY <1>2 DEF EntryOK, PublishedClips
<1>6. \A r : InquiryOK(r) => InquiryOK(r)'
  BY <1>2 DEF InquiryOK, UploadOK, FileListOK, CountsOK, ClipsOf, A!Held, A!HeldBy, A!RolesOf
<1>7. \A k \in 1..Len(cache') : EntryOK(cache'[k])
  <2>1. cache \in Seq(CacheEntry) /\ \A k \in 1..Len(cache) : EntryOK(cache[k])
    BY DEF AnswersInv, AnswersTypes
  <2>2. \A k \in 1..Len(cache') :
           \/ k \in 1..Len(cache) /\ cache'[k] = cache[k]
           \/ cache'[k] = e
    BY <2>1
  <2>. QED
    BY <2>1, <2>2
<1>8. \A p \in Requests : InquiryOK(inquiry'[p])
  BY <1>1, IdleInquiry DEF AnswersInv
<1>. QED
  BY <1>3, <1>4, <1>5, <1>6, <1>7, <1>8, Zenon DEF AnswersInv

\* A list is stored.
LEMMA StoreFilesKeeps ==
    ASSUME AnswersInv, NEW q \in Requests, A!StoreFiles(q)
    PROVE  AnswersInv'
<1>. DEFINE s == inquiry[q]
            t == [query |-> "files", key |-> s.held, inuse |-> TRUE,
                  content |-> s.content, versions |-> s.versions,
                  counts |-> A!NoCounts, from |-> 0, to |-> 0, raced |-> s.raced]
<1>1. PICK e : e = t
  OBVIOUS
<1>2. s \in Inquiry /\ InquiryOK(s) /\ s.pc = "store" /\ permissions \in [StudyRoles -> Grants]
  BY DEF AnswersInv, AnswersTypes, A!StoreFiles
<1>3. A!NoCounts \in [A!Counters -> Int]
  BY DEF A!NoCounts
<1>4. e \in CacheEntry
  BY <1>1, <1>2, <1>3 DEF Inquiry, CacheEntry
<1>5. EntryOK(e)
  <2>1. /\ e.query = "files" /\ e.key = s.held /\ e.content = s.content
        /\ e.versions = s.versions /\ e.raced = s.raced
    BY <1>1
  <2>2. s.user \in Everybody
        /\ (~s.raced => s.held = A!HeldBy(s.user) /\ ListsFiles(s.content, A!Held(s.user), s.versions))
    BY <1>2 DEF InquiryOK, FileListOK
  <2>3. {A!HeldBy(s.user)[r] : r \in DOMAIN A!HeldBy(s.user)} = A!Held(s.user)
    BY <1>2, <2>2, KeyOfUser
  <2>4. ~e.raced => ListsFiles(e.content, {e.key[r] : r \in DOMAIN e.key}, e.versions)
    BY <2>1, <2>2, <2>3, Zenon
  <2>. QED
    BY <2>1, <2>4 DEF EntryOK
<1>6. /\ cache' = Append(cache, e) /\ inquiry' = [inquiry EXCEPT ![q] = A!Idle]
      /\ UNCHANGED <<archive, permissions>>
  BY <1>1 DEF A!StoreFiles
<1>. QED
  BY <1>2, <1>4, <1>5, <1>6, EntryStored

\* A summary is stored.
LEMMA StoreSummaryKeeps ==
    ASSUME AnswersInv, NEW q \in Requests, A!StoreSummary(q)
    PROVE  AnswersInv'
<1>. DEFINE s == inquiry[q]
            t == [query |-> "summary", key |-> <<>>, inuse |-> TRUE, content |-> {},
                  versions |-> {}, counts |-> s.counts, from |-> s.from,
                  to |-> Len(archive), raced |-> FALSE]
<1>1. PICK e : e = t
  OBVIOUS
<1>2. s \in Inquiry /\ InquiryOK(s) /\ s.pc = "count" /\ archive \in Seq(A!Clip)
      /\ \A c \in A!Counters : s.counts[c] # -1
  BY DEF AnswersInv, AnswersTypes, A!StoreSummary
<1>3. <<>> \in AnswerKeys
  BY Zenon DEF AnswerKeys
<1>4. s.counts \in [A!Counters -> Int] /\ s.from \in Nat /\ Len(archive) \in Nat
      /\ s.from <= Len(archive)
  BY <1>2, LenProperties DEF Inquiry, InquiryOK, CountsOK
<1>5. e \in CacheEntry
  BY <1>1, <1>3, <1>4 DEF CacheEntry
<1>6. EntryOK(e)
  <2>1. /\ e.query = "summary" /\ e.counts = s.counts /\ e.from = s.from /\ e.to = Len(archive)
    BY <1>1
  <2>. DEFINE n(c) == s.counts[c]
              m(c) == Cardinality(ClipsOf(c))
              late == Len(archive) - s.from
              published == Cardinality(PublishedClips)
  <2>2. \A c \in A!Counters : /\ n(c) \in Int /\ m(c) \in Nat
                              /\ n(c) <= m(c) /\ m(c) <= n(c) + late
                              /\ c = "versionedDeletes" => n(c) = m(c)
    BY <1>2, <1>4, ClipsFinite DEF InquiryOK, CountsOK
  <2>3. {"records", "deletes", "versionedDeletes", "unversioned", "unversionedDeletes"}
          \subseteq A!Counters
    BY DEF A!Counters
  <2>4. /\ m("records") = Len(archive)
        /\ m("unversioned") + published = Len(archive)
        /\ m("deletes") = m("versionedDeletes") + m("unversionedDeletes")
        /\ published \in Nat
    BY <1>2, ClipsAddUp, ClipsFinite
  <2>5. late \in Nat
    BY <1>4
  <2>. HIDE DEF n, m, late, published
  <2>6. n("records") - n("unversioned") - published \in (0 - late)..late
    <3>1. /\ n("records") \in Int /\ m("records") \in Nat
          /\ n("records") <= m("records") /\ m("records") <= n("records") + late
      BY <2>2, <2>3
    <3>2. /\ n("unversioned") \in Int /\ m("unversioned") \in Nat
          /\ n("unversioned") <= m("unversioned")
          /\ m("unversioned") <= n("unversioned") + late
      BY <2>2, <2>3
    <3>. QED
      BY <1>4, <2>4, <2>5, <3>1, <3>2
  <2>7. n("deletes") - n("versionedDeletes") - n("unversionedDeletes") \in (0 - late)..late
    <3>1. /\ n("deletes") \in Int /\ m("deletes") \in Nat
          /\ n("deletes") <= m("deletes") /\ m("deletes") <= n("deletes") + late
      BY <2>2, <2>3
    <3>2. /\ n("unversionedDeletes") \in Int /\ m("unversionedDeletes") \in Nat
          /\ n("unversionedDeletes") <= m("unversionedDeletes")
          /\ m("unversionedDeletes") <= n("unversionedDeletes") + late
      BY <2>2, <2>3
    <3>3. n("versionedDeletes") \in Int /\ n("versionedDeletes") = m("versionedDeletes")
      BY <2>2, <2>3
    <3>. QED
      BY <2>4, <2>5, <3>1, <3>2, <3>3
  <2>. QED
    BY <2>1, <2>6, <2>7 DEF EntryOK, n, late, published
<1>7. /\ cache' = Append(cache, e) /\ inquiry' = [inquiry EXCEPT ![q] = A!Idle]
      /\ UNCHANGED <<archive, permissions>>
  BY <1>1 DEF A!StoreSummary
<1>. QED
  BY <1>2, <1>5, <1>6, <1>7, EntryStored

\* A clip without a version comes; a file is outdated by its upload, or deleted.
LEMMA ClipComes ==
    ASSUME AnswersInv, NEW d \in A!Clip, d.version = 0, archive' = Append(archive, d),
           UNCHANGED <<permissions, cache>>, inquiry' \in [Requests -> Inquiry],
           \A q \in Requests :
              \/ inquiry'[q] = inquiry[q]
              \/ inquiry[q].pc # "outdate" /\ inquiry'[q].pc \in {"idle", "outdate"},
           \/ d.deleted
           \/ d.field \notin FileFields
           \/ \E q \in Requests : inquiry'[q].pc = "outdate" /\ inquiry'[q].field = d.field
    PROVE  AnswersInv'
<1>1. archive \in Seq(A!Clip)
  BY DEF AnswersInv, AnswersTypes
<1>2. \A content, held, versions :
         ListsFiles(content, held, versions) => ListsFiles(content, held, versions)'
  BY <1>1, ListsGrow
<1>3. AnswersTypes' /\ PublishedFields' /\ PublishedClips' = PublishedClips
  BY <1>1, CountsGrow DEF AnswersInv, AnswersTypes
<1>4. \A e : EntryOK(e) => EntryOK(e)'
  BY <1>2, <1>3 DEF EntryOK
<1>5. ASSUME NEW r \in Inquiry, InquiryOK(r)
      PROVE  InquiryOK(r)'
  <2>1. CountsOK(r)'
    BY <1>1, <1>5, CountsOKGrow DEF InquiryOK
  <2>2. UploadOK(r)'
    BY <1>5 DEF InquiryOK, UploadOK
  <2>3. FileListOK(r)'
    <3>1. \A u : A!Held(u)' = A!Held(u) /\ A!HeldBy(u)' = A!HeldBy(u)
      BY DEF A!Held, A!HeldBy, A!RolesOf
    <3>. QED
      BY <1>2, <1>5, <3>1 DEF InquiryOK, FileListOK, A!StudyFields
  <2>. QED
    BY <2>1, <2>2, <2>3 DEF InquiryOK
<1>6. ASSUME NEW q \in Requests
      PROVE  InquiryOK(inquiry[q])' 
  <2>1. CASE inquiry'[q] = inquiry[q]
    <3>1. PICK r : r = inquiry[q]
      OBVIOUS
    <3>2. r \in Inquiry /\ InquiryOK(r)
      BY <3>1 DEF AnswersInv, AnswersTypes
    <3>3. InquiryOK(r)'
      BY <1>5, <3>2
    <3>4. r = inquiry'[q]
      BY <2>1, <3>1
    <3>. QED
      BY <3>3, <3>4
  <2>2. CASE inquiry'[q].pc \in {"idle", "outdate"}
    BY <2>2 DEF InquiryOK, UploadOK, FileListOK, CountsOK
  <2>. QED
    BY <2>1, <2>2
<1>7. \A k \in 1..Len(cache') : EntryOK(cache[k])'
  BY <1>4 DEF AnswersInv
<1>. QED
  BY <1>3, <1>6, <1>7 DEF AnswersInv

\* An upload's clip is inserted.
LEMMA UploadedClipKeeps ==
    ASSUME AnswersInv, NEW q \in Requests, A!InsertClip(q)
    PROVE  AnswersInv'
<1>. DEFINE s == inquiry[q]
            t == IF s.field \in FileFields THEN [s EXCEPT !.pc = "outdate"] ELSE A!Idle
<1>1. s \in Inquiry /\ InquiryOK(s) /\ s.pc = "insert" /\ inquiry \in [Requests -> Inquiry]
  BY DEF AnswersInv, AnswersTypes, A!InsertClip
<1>2. PICK d : d = [field |-> s.field, subject |-> s.subject, version |-> 0, user |-> s.user,
                    deleted |-> FALSE]
  OBVIOUS
<1>3. d \in A!Clip /\ d.version = 0 /\ d.field = s.field
  BY <1>1, <1>2 DEF InquiryOK, UploadOK, A!Clip
<1>4. archive' = Append(archive, d) /\ UNCHANGED <<permissions, cache>>
  BY <1>2 DEF A!InsertClip, A!Insert
<1>5. inquiry' = [inquiry EXCEPT ![q] = t]
  BY DEF A!InsertClip
<1>6. /\ t \in Inquiry /\ t.pc \in {"idle", "outdate"}
      /\ s.field \in FileFields => t.pc = "outdate" /\ t.field = s.field
  <2>1. A!Idle \in Inquiry /\ A!Idle.pc = "idle"
    BY IdleInquiry DEF A!Idle
  <2>. QED
    BY <1>1, <2>1 DEF Inquiry
<1>. HIDE DEF t
<1>7. inquiry' \in [Requests -> Inquiry] /\ inquiry'[q] = t
      /\ \A p \in Requests : p # q => inquiry'[p] = inquiry[p]
  BY <1>1, <1>5, <1>6
<1>. QED
  BY <1>1, <1>3, <1>4, <1>6, <1>7, ClipComes

\* A deletion is inserted.
LEMMA DeleteDataKeeps ==
    ASSUME AnswersInv, NEW u \in Everybody, NEW f \in Fields, NEW s \in Subjects,
           A!DeleteData(u, f, s)
    PROVE  AnswersInv'
<1>1. PICK d : d = [field |-> f, subject |-> s, version |-> 0, user |-> u, deleted |-> TRUE]
  OBVIOUS
<1>2. d \in A!Clip /\ d.version = 0 /\ d.deleted
  BY <1>1 DEF A!Clip
<1>3. archive' = Append(archive, d) /\ UNCHANGED <<permissions, cache, inquiry>>
  BY <1>1 DEF A!DeleteData, A!Insert
<1>4. inquiry' \in [Requests -> Inquiry]
  BY <1>3 DEF AnswersInv, AnswersTypes
<1>. QED
  BY <1>2, <1>3, <1>4, ClipComes

\* Lists under way are marked, and nothing else of their requests changes.
LEMMA Marked ==
    ASSUME NEW r \in Inquiry
    PROVE  /\ [r EXCEPT !.raced = TRUE] \in Inquiry
           /\ InquiryOK(r) /\ r.pc \in {"fields", "files", "store"}
                 => InquiryOK([r EXCEPT !.raced = TRUE])
<1>. DEFINE t == [r EXCEPT !.raced = TRUE]
<1>1. t \in Inquiry /\ t.pc = r.pc /\ t.user = r.user /\ t.raced
  BY DEF Inquiry
<1>. HIDE DEF t
<1>2. ASSUME InquiryOK(r), r.pc \in {"fields", "files", "store"}
      PROVE  InquiryOK(t)
  BY <1>1, <1>2 DEF InquiryOK, UploadOK, FileListOK, CountsOK
<1>. QED
  BY <1>1, <1>2 DEF t

\* Any list under way is outdated, whatever it was made for.
LEMMA MarkedOK ==
    ASSUME NEW r \in Inquiry, r.raced, r.pc \in {"fields", "files", "store"}, r.user \in Everybody
    PROVE  InquiryOK(r)'
  BY DEF InquiryOK, UploadOK, FileListOK, CountsOK

\* The rest of the requests does not look at permissions or at entries.
LEMMA UnmarkedOK ==
    ASSUME NEW r, InquiryOK(r), r.pc \notin {"fields", "files", "store"}, UNCHANGED archive
    PROVE  InquiryOK(r)'
<1>1. UploadOK(r)'
  BY DEF InquiryOK, UploadOK
<1>2. FileListOK(r)'
  BY DEF FileListOK
<1>3. CountsOK(r)'
  BY DEF InquiryOK, CountsOK, ClipsOf
<1>. QED
  BY <1>1, <1>2, <1>3 DEF InquiryOK

\* All lists under way are marked, and one request may be done.
LEMMA ListingMarked ==
    ASSUME AnswersInv, UNCHANGED archive, inquiry' = [q \in Requests |-> inquiry'[q]],
           \A q \in Requests :
              \/ inquiry'[q] = A!Idle
              \/ inquiry[q].pc \in {"fields", "files", "store"}
                 /\ inquiry'[q] = [inquiry[q] EXCEPT !.raced = TRUE]
              \/ inquiry[q].pc \notin {"fields", "files", "store"} /\ inquiry'[q] = inquiry[q]
    PROVE  inquiry' \in [Requests -> Inquiry] /\ \A q \in Requests : InquiryOK(inquiry[q])'
<1>1. ASSUME NEW q \in Requests
      PROVE  inquiry'[q] \in Inquiry /\ InquiryOK(inquiry[q])'
  <2>1. inquiry[q] \in Inquiry /\ InquiryOK(inquiry[q])
    BY DEF AnswersInv, AnswersTypes
  <2>2. CASE inquiry'[q] = A!Idle
    <3>1. A!Idle \in Inquiry /\ A!Idle.pc = "idle"
      BY IdleInquiry DEF A!Idle
    <3>. QED
      BY <2>2, <3>1 DEF InquiryOK, UploadOK, FileListOK, CountsOK
  <2>3. CASE /\ inquiry[q].pc \in {"fields", "files", "store"}
             /\ inquiry'[q] = [inquiry[q] EXCEPT !.raced = TRUE]
    <3>1. PICK r : r = inquiry'[q]
      OBVIOUS
    <3>2. r \in Inquiry /\ r.raced /\ r.pc \in {"fields", "files", "store"} /\ r.user \in Everybody
      BY <2>1, <2>3, <3>1 DEF Inquiry, InquiryOK, FileListOK
    <3>3. InquiryOK(r)'
      BY <3>2, MarkedOK
    <3>. QED
      BY <3>1, <3>2, <3>3
  <2>4. CASE inquiry[q].pc \notin {"fields", "files", "store"} /\ inquiry'[q] = inquiry[q]
    <3>1. PICK r : r = inquiry[q]
      OBVIOUS
    <3>2. InquiryOK(r)'
      BY <2>1, <2>4, <3>1, UnmarkedOK
    <3>3. r = inquiry'[q]
      BY <2>4, <3>1
    <3>. QED
      BY <2>1, <2>4, <3>2, <3>3
  <2>. QED
    BY <2>2, <2>3, <2>4
<1>. QED
  BY <1>1

\* An upload outdates the lists.
LEMMA OutdateFilesKeeps ==
    ASSUME AnswersInv, NEW q \in Requests, A!OutdateFiles(q)
    PROVE  AnswersInv'
<1>1. /\ archive \in Seq(A!Clip) /\ permissions \in [StudyRoles -> Grants]
      /\ cache \in Seq(CacheEntry) /\ inquiry \in [Requests -> Inquiry] /\ Len(cache) \in Nat
  BY LenProperties DEF AnswersInv, AnswersTypes
<1>2. UNCHANGED <<archive, permissions>>
  BY DEF A!OutdateFiles
<1>3. cache' = [k \in 1..Len(cache) |->
                  IF cache[k].query = "files" THEN [cache[k] EXCEPT !.inuse = FALSE] ELSE cache[k]]
  BY DEF A!OutdateFiles
<1>4. \A k \in 1..Len(cache) : cache[k] \in CacheEntry /\ EntryOK(cache[k])
  BY <1>1 DEF AnswersInv
<1>5. ASSUME NEW k \in 1..Len(cache)
      PROVE  /\ cache'[k] \in CacheEntry
             /\ (cache'[k].query = "files" /\ ~cache'[k].inuse) \/ cache'[k] = cache[k]
             /\ cache[k].query = "files" => cache'[k].query = "files" /\ ~cache'[k].inuse
  BY <1>3, <1>4 DEF CacheEntry
<1>6. cache' \in Seq(CacheEntry) /\ Len(cache') = Len(cache)
  BY <1>1, <1>3, <1>5
<1>7. inquiry' \in [Requests -> Inquiry] /\ \A p \in Requests : InquiryOK(inquiry[p])'
  BY <1>2, ListingMarked DEF A!OutdateFiles, A!Listing
<1>8. ASSUME NEW k \in 1..Len(cache)
      PROVE  EntryOK(cache[k])'
  <2>1. CASE cache'[k].query = "files" /\ ~cache'[k].inuse
    BY <2>1 DEF EntryOK
  <2>2. CASE cache'[k] = cache[k] /\ cache[k].query # "files"
    BY <1>2, <1>4, <2>2 DEF EntryOK, PublishedClips
  <2>. QED
    BY <1>5, <2>1, <2>2
<1>9. PublishedFields'
  BY <1>2 DEF AnswersInv, PublishedFields
<1>. QED
  BY <1>1, <1>2, <1>6, <1>7, <1>8, <1>9 DEF AnswersInv, AnswersTypes

\* A role's permissions are edited.
LEMMA SetRoleKeeps ==
    ASSUME AnswersInv, NEW r \in StudyRoles, NEW g \in Grants, A!SetRole(r, g)
    PROVE  AnswersInv'
<1>1. UNCHANGED <<archive, cache>> /\ permissions' = [permissions EXCEPT ![r] = g]
  BY DEF A!SetRole
<1>2. permissions' \in [StudyRoles -> Grants]
  BY <1>1 DEF AnswersInv, AnswersTypes
<1>3. inquiry' \in [Requests -> Inquiry] /\ \A p \in Requests : InquiryOK(inquiry[p])'
  BY <1>1, ListingMarked DEF A!SetRole, A!Listing
<1>4. \A q \in Requests : inquiry[q].pc = "outdate" => inquiry'[q] = inquiry[q]
  BY DEF A!SetRole, A!Listing
<1>5. \A content, held, versions :
         ListsFiles(content, held, versions) => ListsFiles(content, held, versions)'
  BY <1>1, <1>4, ListsStay
<1>6. \A e : EntryOK(e) => EntryOK(e)'
  BY <1>1, <1>5 DEF EntryOK, PublishedClips
<1>7. PublishedFields'
  BY <1>1 DEF AnswersInv, PublishedFields
<1>. QED
  BY <1>1, <1>2, <1>3, <1>6, <1>7 DEF AnswersInv, AnswersTypes

\* Every step of a request, of a deletion, or of a role's edit.
LEMMA AnswersStep == AnswersInv /\ [A!Next]_(A!answering) => AnswersInv'
<1>. SUFFICES ASSUME AnswersInv, [A!Next]_(A!answering)
              PROVE  AnswersInv'
  OBVIOUS
<1>1. ASSUME NEW q \in Requests, NEW u \in Everybody, A!Ask(q, u)
      PROVE  AnswersInv'
  BY <1>1, GetStudySummaryKeeps, GetStudyFilesKeeps, UploadDataKeeps, Zenon DEF A!Ask
<1>2. ASSUME NEW q \in Requests,
             \/ A!ReadFields(q) \/ A!ReadFiles(q) \/ A!StoreFiles(q)
             \/ A!InsertClip(q) \/ A!OutdateFiles(q) \/ A!StoreSummary(q)
             \/ \E c \in A!Counters : A!Count(q, c)
      PROVE  AnswersInv'
  BY <1>2, ReadFieldsKeeps, ReadFilesKeeps, StoreFilesKeeps, UploadedClipKeeps, OutdateFilesKeeps,
     StoreSummaryKeeps, CountKeeps, Zenon
<1>3. CASE \E u \in Everybody, f \in Fields, s \in Subjects : A!DeleteData(u, f, s)
  BY <1>3, DeleteDataKeeps, Zenon
<1>4. CASE \E r \in StudyRoles, g \in Grants : A!SetRole(r, g)
  BY <1>4, SetRoleKeeps, Zenon
<1>5. CASE UNCHANGED A!answering
  <2>1. UNCHANGED <<archive, permissions, cache, inquiry>>
    BY <1>5 DEF A!answering
  <2>2. \A content, held, versions :
           ListsFiles(content, held, versions) => ListsFiles(content, held, versions)'
    BY <2>1, ListsStay
  <2>3. \A e : EntryOK(e) => EntryOK(e)'
    BY <2>1, <2>2 DEF EntryOK, PublishedClips
  <2>4. \A r : InquiryOK(r) => InquiryOK(r)'
    BY <2>1, <2>2 DEF InquiryOK, UploadOK, FileListOK, CountsOK, ClipsOf, A!Held, A!HeldBy,
       A!RolesOf
  <2>5. AnswersTypes' /\ PublishedFields'
    BY <2>1 DEF AnswersInv, AnswersTypes, PublishedFields
  <2>. QED
    BY <2>1, <2>3, <2>4, <2>5 DEF AnswersInv
<1>. QED
  BY <1>1, <1>2, <1>3, <1>4, <1>5, Zenon DEF A!Next

\* The four kinds of answers agree.
LEMMA AnswersFit == AnswersInv => A!AnswersAgree
<1>. SUFFICES ASSUME AnswersInv
              PROVE  A!AnswersAgree
  OBVIOUS
<1>1. archive \in Seq(A!Clip) /\ PublishedFields
  BY DEF AnswersInv, AnswersTypes
<1>2. A!FilesListed
  BY Zenon DEF AnswersInv, EntryOK, ListsFiles, ForList, A!FilesListed
<1>3. A!SummaryWithin
  <2>1. A!Cardinality({i \in 1..Len(archive) : archive[i].version # 0}) =
          Cardinality(PublishedClips)
    BY Zenon DEF A!Cardinality, Cardinality, PublishedClips
  <2>2. Cardinality(PublishedClips) \in Nat
    BY <1>1, ClipsFinite
  <2>. DEFINE published == Cardinality(PublishedClips)
  <2>3. ASSUME NEW k \in 1..Len(cache), cache[k].query = "summary"
        PROVE  /\ cache[k].counts["records"] - cache[k].counts["unversioned"]
                    \in (published - (cache[k].to - cache[k].from))
                         ..(published + (cache[k].to - cache[k].from))
               /\ cache[k].counts["deletes"] - cache[k].counts["versionedDeletes"]
                     - cache[k].counts["unversionedDeletes"]
                    \in (0 - (cache[k].to - cache[k].from))..(cache[k].to - cache[k].from)
    <3>. DEFINE e == cache[k]
                late == e.to - e.from
                versioned == e.counts["records"] - e.counts["unversioned"]
    <3>1. e \in CacheEntry /\ EntryOK(e)
      BY DEF AnswersInv, AnswersTypes
    <3>2. late \in Int /\ versioned \in Int
      BY <3>1 DEF CacheEntry, A!Counters
    <3>3. /\ versioned - published \in (0 - late)..late
          /\ e.counts["deletes"] - e.counts["versionedDeletes"] - e.counts["unversionedDeletes"]
               \in (0 - late)..late
      BY <2>3, <3>1 DEF EntryOK
    <3>. HIDE DEF published, late, versioned
    <3>4. versioned \in (published - late)..(published + late)
      BY <2>2, <3>2, <3>3 DEF published
    <3>. QED
      BY <3>3, <3>4 DEF late, versioned
  <2>. HIDE DEF published
  <2>. QED
    BY <2>1, <2>3, Zenon DEF A!SummaryWithin, published
<1>. QED
  BY <1>1, <1>2, <1>3, MoreRoles, ColdAlike DEF A!AnswersAgree

\* Whatever is asked, the answers stay fit.
LEMMA AnswersLast == PartsSpec => [](part = "answers" => AnswersInv)
<1>. DEFINE Inv == part = "answers" => AnswersInv
<1>1. PartsInit => Inv
  <2>. SUFFICES ASSUME PartsInit, part = "answers"
                PROVE  AnswersInv
    OBVIOUS
  <2>1. A!Init
    BY Zenon DEF PartsInit
  <2>2. /\ archive \in Seq(A!Clip) /\ PublishedFields
    BY <2>1, AnswersAssumption DEF A!Init, A!ConstantsOK, PublishedFields
  <2>3. /\ permissions \in [StudyRoles -> Grants] /\ cache \in Seq(CacheEntry) /\ Len(cache) = 0
        /\ inquiry = [q \in Requests |-> A!Idle]
    BY <2>1 DEF A!Init
  <2>. QED
    BY <2>2, <2>3, IdleInquiry DEF AnswersInv, AnswersTypes
<1>2. Inv /\ [PartsNext]_PartsVars => Inv'
  <2>. SUFFICES ASSUME Inv, [PartsNext]_PartsVars, part' = "answers"
                PROVE  AnswersInv'
    OBVIOUS
  <2>1. part = "answers"
    BY PartKept
  <2>2. [A!Next]_(A!answering)
    BY <2>1, Zenon DEF PartsNext, PartsVars, A!answering, answering
  <2>. QED
    BY <2>1, <2>2, AnswersStep
<1>. QED
  BY <1>1, <1>2, PTL DEF PartsSpec

\* For any clips, roles, permissions and requests: more roles never answer an older clip, cold
\* storage answers as the clips do, a cached list has every file it is for, and a summary is off
\* by no more than the clips that came while it counted (getStudyData, getStudyFiles,
\* getStudySummary, uploadData, deleteData, editStudyRole).
THEOREM AnswersDoAgree == PartsSpec => []AnswersAgree
<1>1. (part = "answers" => AnswersInv) => AnswersAgree
  BY AnswersFit DEF AnswersAgree
<1>. QED
  BY <1>1, AnswersLast, PTL

-----------------------------------------------------------------------------
(* PipelinesApart: a pipeline makes what it would make alone, as long as no  *)
(* other changes the objects of the answer.                                  *)

\* What a pipeline has made after its first n operations.
Started == T!Gives(T!Answered(Len(given)), FALSE, given)
After(made, pipeline, n) ==
    IF n = 0 THEN Started
    ELSE IF made[n - 1].fails THEN made[n - 1]
    ELSE T!TransformationRegistry(pipeline[n], made[n - 1].clips, made[n - 1].data)

\* There is a course of any length.
LEMMA CourseExists ==
    ASSUME NEW pipeline, NEW m \in Nat
    PROVE  \E made : made = [n \in 0..m |-> After(made, pipeline, n)]
<1>. DEFINE Long(k) == \E made : made = [n \in 0..k |-> After(made, pipeline, n)]
            short == {k \in Nat : ~Long(k)}
<1>1. Long(0)
  <2>. DEFINE made == [n \in 0..0 |-> Started]
  <2>1. made = [n \in 0..0 |-> After(made, pipeline, n)]
    BY DEF After
  <2>. QED
    BY <2>1
<1>2. ASSUME NEW k \in Nat, Long(k)
      PROVE  Long(k + 1)
  <2>1. PICK made : made = [n \in 0..k |-> After(made, pipeline, n)]
    BY <1>2
  <2>. DEFINE more == [n \in 0..k + 1 |->
                          IF n <= k THEN made[n] ELSE After(made, pipeline, n)]
  <2>2. ASSUME NEW n \in 0..k + 1
        PROVE  more[n] = After(more, pipeline, n)
    <3>1. n # 0 => n - 1 \in 0..k /\ more[n - 1] = made[n - 1]
      OBVIOUS
    <3>2. After(more, pipeline, n) = After(made, pipeline, n)
      BY <3>1 DEF After
    <3>3. n <= k => made[n] = After(made, pipeline, n)
      BY <2>1
    <3>. QED
      BY <3>2, <3>3
  <2>3. more = [n \in 0..k + 1 |-> After(more, pipeline, n)]
    BY <2>2
  <2>. QED
    BY <2>3
<1>. HIDE DEF Long
<1>3. short = {}
  <2>. SUFFICES ASSUME short # {}
                PROVE  FALSE
    OBVIOUS
  <2>1. PICK k \in short : \A j \in short : ~ (<<j, k>> \in OpToRel(<, Nat))
    BY NatLessThanWellFounded, WFMin
  <2>2. k \in Nat /\ ~Long(k) /\ \A j \in short : ~ (j < k)
    BY <2>1 DEF OpToRel
  <2>3. k # 0
    BY <1>1, <2>2
  <2>4. k - 1 \in Nat /\ Long(k - 1)
    BY <2>2, <2>3
  <2>5. Long((k - 1) + 1)
    BY <1>2, <2>4
  <2>. QED
    BY <2>2, <2>5
<1>4. Long(m)
  BY <1>3
<1>. QED
  BY <1>4 DEF Long

\* The course of a pipeline, operation by operation.
LEMMA CourseIs ==
    ASSUME NEW pipeline, Len(pipeline) \in Nat
    PROVE  \A n \in 0..Len(pipeline) :
              T!Course(pipeline)[n] = After(T!Course(pipeline), pipeline, n)
<1>1. PICK made : made = [n \in 0..Len(pipeline) |-> After(made, pipeline, n)]
  BY CourseExists
<1>2. T!Course(pipeline) = CHOOSE f : f = [n \in 0..Len(pipeline) |-> After(f, pipeline, n)]
  BY DEF T!Course, After, Started
<1>. QED
  BY <1>1, <1>2

\* Of the operations AFFINE alone changes the objects of the answer.
LEMMA OthersLeaveObjects ==
    ASSUME NEW op, NEW held, NEW data, op.name # "AFFINE",
           ~T!TransformationRegistry(op, held, data).fails
    PROVE  T!TransformationRegistry(op, held, data).clips = held
<1>1. T!Fails.fails /\ \A x, y : T!Gives(x, y, held).clips = held
  BY DEF T!Fails, T!Gives
<1>2. T!Grouping(held, data, op).fails \/ T!Grouping(held, data, op).clips = held
  BY <1>1, Zenon DEF T!Grouping
<1>3. T!LeaveOne(held, data, op).fails \/ T!LeaveOne(held, data, op).clips = held
  BY <1>1, Zenon DEF T!LeaveOne
<1>4. T!Concat(held, data, op).fails \/ T!Concat(held, data, op).clips = held
  BY <1>1, Zenon DEF T!Concat
<1>5. T!Deconcat(held, data, op).fails \/ T!Deconcat(held, data, op).clips = held
  BY <1>1, Zenon DEF T!Deconcat
<1>6. T!Join(held, data, op).fails \/ T!Join(held, data, op).clips = held
  BY <1>1, Zenon DEF T!Join
<1>7. T!Degroup(held, data, op).fails \/ T!Degroup(held, data, op).clips = held
  BY <1>1, Zenon DEF T!Degroup
<1>8. T!Filter(held, data, op).fails \/ T!Filter(held, data, op).clips = held
  BY <1>1, Zenon DEF T!Filter
<1>9. T!Flatten(held, data, op).fails \/ T!Flatten(held, data, op).clips = held
  BY <1>1, Zenon DEF T!Flatten
<1>10. T!Count(held, data, op).fails \/ T!Count(held, data, op).clips = held
  BY <1>1, Zenon DEF T!Count, T!Sized
<1>. QED
  BY <1>1, <1>2, <1>3, <1>4, <1>5, <1>6, <1>7, <1>8, <1>9, <1>10 DEF T!TransformationRegistry

Quiet(k) == \A j \in 1..k : ~T!Affects(plan[j])

\* Where the pipeline under way is, and what it made so far.
Halfway(n) ==
    LET k == Len(results) + 1 IN
    /\ todo = SubSeq(plan[k], n + 1, Len(plan[k]))
    /\ n = 0 => current = Started.data
    /\ Quiet(k) => clips = given
    /\ n = 0 /\ Quiet(Len(results)) => clips = given
    /\ n # 0 /\ T!Undisturbed(k) =>
         /\ ~T!Course(plan[k])[n].fails
         /\ T!Course(plan[k])[n].clips = clips /\ T!Course(plan[k])[n].data = current

PipelinesInv ==
    /\ plan \in Plans
    /\ \E kinds : results \in Seq(kinds)
    /\ Len(results) <= Len(plan)
    /\ Len(results) < Len(plan) => \E n \in 0..Len(plan[Len(results) + 1]) : Halfway(n)
    /\ Len(results) = Len(plan) => todo = <<>>
    /\ \A i \in 1..Len(results) : T!Undisturbed(i) =>
         /\ ~T!Alone(plan[i]).fails
         /\ clips = T!Alone(plan[i]).clips /\ results[i] = T!Alone(plan[i]).data

\* A plan is a sequence of sequences.
LEMMA PlanShape ==
    ASSUME plan \in Plans
    PROVE  /\ Len(plan) \in Nat
           /\ \A k \in 1..Len(plan) :
                Len(plan[k]) \in Nat /\ plan[k] \in Seq(UNION {T!ToSet(p) : p \in T!Pipelines})
<1>1. plan \in Seq(T!Pipelines) /\ T!Pipelines \subseteq Seq(UNION {T!ToSet(p) : p \in T!Pipelines})
  BY TransformationsAssumption, Zenon DEF T!ConstantsOK
<1>. QED
  BY <1>1

\* The state of the pipeline under way, in its course or before it.
LEMMA HalfwayIs ==
    ASSUME PipelinesInv, Len(results) < Len(plan), NEW n \in 0..Len(plan[Len(results) + 1]),
           Halfway(n), T!Undisturbed(Len(results) + 1)
    PROVE  /\ ~T!Course(plan[Len(results) + 1])[n].fails
           /\ T!Course(plan[Len(results) + 1])[n].clips = clips
           /\ T!Course(plan[Len(results) + 1])[n].data = current
<1>. DEFINE k == Len(results) + 1
<1>1. Len(results) \in Nat /\ k \in 1..Len(plan) /\ Len(plan[k]) \in Nat
  BY PlanShape DEF PipelinesInv
<1>2. CASE n # 0
  BY <1>2 DEF Halfway
<1>3. CASE n = 0
  <2>1. Quiet(Len(results))
    BY <1>1 DEF Quiet, T!Undisturbed
  <2>2. clips = given /\ current = Started.data
    BY <1>3, <2>1 DEF Halfway
  <2>3. T!Course(plan[k])[n] = Started
    BY <1>1, <1>3, CourseIs DEF After
  <2>. QED
    BY <2>2, <2>3 DEF Started, T!Gives
<1>. QED
  BY <1>2, <1>3

\* What is left of a pipeline after its next operation.
LEMMA RestOf ==
    ASSUME NEW kinds, NEW s \in Seq(kinds), NEW n \in 0..Len(s), SubSeq(s, n + 1, Len(s)) # <<>>
    PROVE  /\ n < Len(s) /\ SubSeq(s, n + 1, Len(s))[1] = s[n + 1]
           /\ Tail(SubSeq(s, n + 1, Len(s))) = SubSeq(s, n + 2, Len(s))
<1>1. n < Len(s)
  OBVIOUS
<1>. DEFINE rest == SubSeq(s, n + 1, Len(s))
<1>2. rest \in Seq(kinds) /\ Len(rest) = Len(s) - n /\ \A i \in 1..Len(s) - n : rest[i] = s[n + i]
  BY <1>1
<1>3. SubSeq(s, n + 2, Len(s)) \in Seq(kinds) /\ Len(SubSeq(s, n + 2, Len(s))) = Len(s) - n - 1
      /\ \A i \in 1..Len(s) - n - 1 : SubSeq(s, n + 2, Len(s))[i] = s[n + 1 + i]
  BY <1>1
<1>. HIDE DEF rest
<1>4. Tail(rest) \in Seq(kinds) /\ Len(Tail(rest)) = Len(s) - n - 1
      /\ \A i \in 1..Len(s) - n - 1 : Tail(rest)[i] = s[n + 1 + i]
  BY <1>1, <1>2
<1>5. Tail(rest) = SubSeq(s, n + 2, Len(s))
  BY <1>3, <1>4, SeqEqual
<1>. QED
  BY <1>1, <1>2, <1>5 DEF rest

\* Nothing is left of a pipeline at its end.
LEMMA NothingLeft ==
    ASSUME NEW kinds, NEW s \in Seq(kinds), NEW n \in 0..Len(s), SubSeq(s, n + 1, Len(s)) = <<>>
    PROVE  n = Len(s)
<1>1. Len(SubSeq(s, n + 1, Len(s))) = Len(s) - n
  OBVIOUS
<1>2. Len(<<>>) = Len(s) - n
  BY <1>1, Zenon
<1>. QED
  BY <1>2

\* The courses of pipelines are those of the request.
LEMMA CoursesKept ==
    ASSUME UNCHANGED <<plan, given>>
    PROVE  /\ \A j : T!Course(plan[j])' = T!Course(plan[j]) /\ T!Alone(plan[j])' = T!Alone(plan[j])
           /\ \A j : T!Undisturbed(j)' = T!Undisturbed(j) /\ Quiet(j)' = Quiet(j)
           /\ Started' = Started
  BY DEF T!Course, T!Alone, T!Answered, T!Undisturbed, T!Affects, Quiet, Started

\* The next operation.
LEMMA ComposeKeeps ==
    ASSUME PipelinesInv, T!TransformationCompose
    PROVE  PipelinesInv'
<1>. DEFINE k == Len(results) + 1
            r == T!TransformationRegistry(todo[1], clips, current)
<1>1. CASE UNCHANGED <<plan, given, results, clips, todo, current>>
  <2>1. \A n : Halfway(n)' = Halfway(n)
    BY <1>1, CoursesKept DEF Halfway
  <2>. QED
    BY <1>1, <2>1, CoursesKept DEF PipelinesInv
<1>2. CASE /\ current' = r.data /\ clips' = r.clips /\ todo' = Tail(todo) /\ ~r.fails
           /\ UNCHANGED <<plan, given, results>>
  <2>1. /\ Len(results) \in Nat /\ Len(results) < Len(plan) /\ k \in 1..Len(plan)
        /\ Len(plan) \in Nat
        /\ Len(plan[k]) \in Nat /\ plan[k] \in Seq(UNION {T!ToSet(p) : p \in T!Pipelines})
    BY PlanShape DEF PipelinesInv, T!TransformationCompose
  <2>2. PICK n \in 0..Len(plan[k]) : Halfway(n)
    BY <2>1 DEF PipelinesInv
  <2>3. todo = SubSeq(plan[k], n + 1, Len(plan[k])) /\ todo # <<>>
    BY <2>2 DEF Halfway, T!TransformationCompose
  <2>4. /\ n < Len(plan[k]) /\ todo[1] = plan[k][n + 1]
        /\ Tail(todo) = SubSeq(plan[k], n + 2, Len(plan[k]))
    BY <2>1, <2>3, RestOf
  <2>5. ~T!Affects(plan[k]) => clips' = clips
    BY <1>2, <2>1, <2>4, OthersLeaveObjects DEF T!Affects
  <2>6. T!Undisturbed(k) => T!Course(plan[k])[n + 1] = r
    <3>. SUFFICES ASSUME T!Undisturbed(k)
                  PROVE  T!Course(plan[k])[n + 1] = r
      OBVIOUS
    <3>1. /\ ~T!Course(plan[k])[n].fails
          /\ T!Course(plan[k])[n].clips = clips /\ T!Course(plan[k])[n].data = current
      BY <2>1, <2>2, HalfwayIs
    <3>2. T!Course(plan[k])[n + 1] = After(T!Course(plan[k]), plan[k], n + 1)
      BY <2>1, <2>4, CourseIs
    <3>3. n + 1 # 0 /\ (n + 1) - 1 = n
      BY <2>1
    <3>. QED
      BY <2>4, <3>1, <3>2, <3>3 DEF After
  <2>7. /\ \A j : T!Course(plan[j])' = T!Course(plan[j]) /\ T!Alone(plan[j])' = T!Alone(plan[j])
        /\ \A j : T!Undisturbed(j)' = T!Undisturbed(j) /\ Quiet(j)' = Quiet(j)
    BY <1>2, CoursesKept
  <2>8. Quiet(k) => clips' = given'
    <3>1. Quiet(k) => ~T!Affects(plan[k]) /\ clips = given
      BY <2>1, <2>2 DEF Quiet, Halfway
    <3>. QED
      BY <1>2, <2>5, <3>1
  <2>9. n + 1 \in 0..Len(plan[k]) /\ n + 1 # 0 /\ (n + 1) + 1 = n + 2
    <3>1. Len(plan[k]) \in Nat /\ n < Len(plan[k]) /\ n \in Nat
      BY <2>1, <2>4
    <3>. QED
      BY <3>1
  <2>10. T!Undisturbed(k) =>
           /\ ~T!Course(plan[k])[n + 1].fails
           /\ T!Course(plan[k])[n + 1].clips = clips' /\ T!Course(plan[k])[n + 1].data = current'
    BY <1>2, <2>6
  <2>11. Halfway(n + 1)'
    BY <1>2, <2>4, <2>7, <2>8, <2>9, <2>10 DEF Halfway
  <2>12. \A i \in 1..Len(results) : T!Undisturbed(i) =>
           /\ ~T!Alone(plan[i]).fails
           /\ clips' = T!Alone(plan[i]).clips /\ results[i] = T!Alone(plan[i]).data
    <3>. SUFFICES ASSUME NEW i \in 1..Len(results), T!Undisturbed(i)
                  PROVE  /\ ~T!Alone(plan[i]).fails
                         /\ clips' = T!Alone(plan[i]).clips /\ results[i] = T!Alone(plan[i]).data
      OBVIOUS
    <3>1. k # i
      BY <2>1
    <3>2. ~T!Affects(plan[k])
      BY <2>1, <3>1, Zenon DEF T!Undisturbed
    <3>3. /\ ~T!Alone(plan[i]).fails
          /\ clips = T!Alone(plan[i]).clips /\ results[i] = T!Alone(plan[i]).data
      BY DEF PipelinesInv
    <3>. QED
      BY <2>5, <3>2, <3>3
  <2>. QED
    BY <1>2, <2>1, <2>7, <2>9, <2>11, <2>12 DEF PipelinesInv
<1>. QED
  BY <1>1, <1>2 DEF T!TransformationCompose

\* A pipeline ends and the next one starts.
LEMMA AggregateKeeps ==
    ASSUME PipelinesInv, T!TransformationAggregate
    PROVE  PipelinesInv'
<1>. DEFINE k == Len(results) + 1
<1>1. /\ Len(results) \in Nat /\ Len(results) < Len(plan) /\ k \in 1..Len(plan)
      /\ Len(plan) \in Nat
      /\ Len(plan[k]) \in Nat /\ plan[k] \in Seq(UNION {T!ToSet(p) : p \in T!Pipelines})
  <2>1. /\ plan \in Plans /\ Len(results) < Len(plan)
        /\ \E kinds : results \in Seq(kinds)
    BY Zenon DEF PipelinesInv, T!TransformationAggregate
  <2>2. Len(results) \in Nat /\ Len(plan) \in Nat
    BY <2>1, PlanShape
  <2>3. k \in 1..Len(plan)
    BY <2>1, <2>2
  <2>. QED
    BY <2>1, <2>2, <2>3, PlanShape, Zenon
<1>2. PICK n \in 0..Len(plan[k]) : Halfway(n)
  BY <1>1 DEF PipelinesInv
<1>3. n = Len(plan[k])
  <2>1. SubSeq(plan[k], n + 1, Len(plan[k])) = <<>>
    BY <1>2 DEF Halfway, T!TransformationAggregate
  <2>. QED
    BY <1>1, <2>1, NothingLeft
<1>4. T!Undisturbed(k) =>
        /\ ~T!Alone(plan[k]).fails
        /\ clips = T!Alone(plan[k]).clips /\ current = T!Alone(plan[k]).data
  BY <1>1, <1>2, <1>3, HalfwayIs DEF T!Alone
<1>5. PICK kinds : results \in Seq(kinds)
  BY DEF PipelinesInv
<1>6. /\ results' \in Seq(kinds \cup {current}) /\ Len(results') = k /\ results'[k] = current
      /\ \A i \in 1..Len(results) : results'[i] = results[i]
  BY <1>1, <1>5 DEF T!TransformationAggregate
<1>7. UNCHANGED <<plan, given, clips>>
  BY DEF T!TransformationAggregate
<1>8. \A i \in 1..Len(results') : T!Undisturbed(i)' =>
        /\ ~T!Alone(plan[i])'.fails
        /\ clips' = T!Alone(plan[i])'.clips /\ results'[i] = T!Alone(plan[i])'.data
  <2>. SUFFICES ASSUME NEW i \in 1..k, T!Undisturbed(i)
                PROVE  /\ ~T!Alone(plan[i]).fails
                       /\ clips = T!Alone(plan[i]).clips /\ results'[i] = T!Alone(plan[i]).data
    BY <1>6, <1>7, CoursesKept
  <2>1. CASE i = k
    BY <1>4, <1>6, <2>1
  <2>2. CASE i # k
    BY <1>1, <1>6, <2>2 DEF PipelinesInv
  <2>. QED
    BY <2>1, <2>2
<1>9. CASE k < Len(plan)
  <2>1. Len(plan[k + 1]) \in Nat /\ plan[k + 1] \in Seq(UNION {T!ToSet(p) : p \in T!Pipelines})
    BY <1>1, <1>9, PlanShape DEF PipelinesInv
  <2>2. todo' = plan[k + 1] /\ current' = Started.data
    BY <1>6, <1>9 DEF T!TransformationAggregate, Started, T!Gives
  <2>3. plan[k + 1] = SubSeq(plan[k + 1], 1, Len(plan[k + 1]))
    BY <2>1
  <2>4. /\ Quiet(k) => clips = given
        /\ Quiet(k + 1) => Quiet(k)
    BY <1>1, <1>2 DEF Halfway, Quiet
  <2>5. Halfway(0)'
    BY <1>6, <1>7, <2>2, <2>3, <2>4, CoursesKept DEF Halfway
  <2>. QED
    BY <1>1, <1>6, <1>7, <1>8, <1>9, <2>1, <2>5 DEF PipelinesInv
<1>10. CASE k = Len(plan)
  <2>1. todo' = <<>>
    BY <1>6, <1>10 DEF T!TransformationAggregate
  <2>. QED
    BY <1>1, <1>6, <1>7, <1>8, <1>10, <2>1 DEF PipelinesInv
<1>. QED
  BY <1>1, <1>9, <1>10

\* As long as there are pipelines to run.
LEMMA PipelinesLast == PartsSpec => [](part = "transformations" => PipelinesInv)
<1>. DEFINE Inv == part = "transformations" => PipelinesInv
<1>1. PartsInit => Inv
  <2>. SUFFICES ASSUME PartsInit, part = "transformations"
                PROVE  PipelinesInv
    OBVIOUS
  <2>1. T!Init
    BY Zenon DEF PartsInit
  <2>2. plan \in Plans /\ results = <<>> /\ clips = given /\ current = Started.data
    BY <2>1 DEF T!Init, Started, T!Gives
  <2>3. Len(plan) \in Nat /\ (plan = <<>> <=> Len(plan) = 0)
    BY <2>2, PlanShape, TransformationsAssumption DEF T!ConstantsOK
  <2>4. Len(results) = 0
    BY <2>2
  <2>5. ASSUME Len(plan) # 0
        PROVE  Halfway(0) /\ Len(plan[1]) \in Nat
    <3>1. Len(plan[1]) \in Nat /\ plan[1] \in Seq(UNION {T!ToSet(p) : p \in T!Pipelines})
      BY <2>2, <2>3, <2>5, PlanShape
    <3>2. plan[1] = SubSeq(plan[1], 1, Len(plan[1])) /\ todo = plan[1]
      BY <2>1, <2>3, <2>5, <3>1 DEF T!Init
    <3>. QED
      BY <2>2, <2>4, <3>1, <3>2 DEF Halfway
  <2>6. Len(plan) = 0 => todo = <<>>
    BY <2>1, <2>3 DEF T!Init
  <2>7. \E kinds : results \in Seq(kinds)
    <3>1. results \in Seq({})
      BY <2>2
    <3>. QED
      BY <3>1
  <2>. QED
    BY <2>2, <2>3, <2>4, <2>5, <2>6, <2>7 DEF PipelinesInv
<1>2. Inv /\ [PartsNext]_PartsVars => Inv'
  <2>1. part = "transformations" /\ [PartsNext]_PartsVars => T!Next \/ UNCHANGED aggregation
    BY Zenon DEF PartsNext, PartsVars
  <2>2. PipelinesInv /\ UNCHANGED aggregation => PipelinesInv'
    <3>. SUFFICES ASSUME PipelinesInv, UNCHANGED aggregation
                  PROVE  PipelinesInv'
      OBVIOUS
    <3>1. \A n : Halfway(n)' = Halfway(n)
      BY CoursesKept DEF Halfway, aggregation
    <3>. QED
      BY <3>1, CoursesKept DEF PipelinesInv, aggregation
  <2>. QED
    BY <2>1, <2>2, PartKept, ComposeKeeps, AggregateKeeps DEF T!Next
<1>. QED
  BY <1>1, <1>2, PTL DEF PartsSpec

\* Pipelines share the objects of the answer, and yet each makes what it would make
\* alone, for any clips and operations, unless another has an AFFINE
\* (transformationAggregate, utilsCore.ts).
THEOREM PipelinesStayApart == PartsSpec => [](part = "transformations" => T!PipelinesApart)
<1>1. (part = "transformations" => PipelinesInv) => (part = "transformations" => T!PipelinesApart)
  BY DEF PipelinesInv, T!PipelinesApart, T!Content
<1>. QED
  BY <1>1, PipelinesLast, PTL

-----------------------------------------------------------------------------
(* Types: what the parts that keep data keep is of the types they declare.   *)

\* An upload goes to a bucket, and puts its object into one that is there.
Aimed(r) ==
    /\ r.pc \in {"bucket", "make", "put"} => r.bucket \in F!Buckets
    /\ r.pc = "put" => r.bucket \in buckets

\* Only configurations of studies name no bucket.
BucketsNamed ==
    \A k \in F!ConfigKeys :
       settings[k] # Null /\ k[1] # "STUDYCONFIG" => settings[k].bucket \in F!Buckets

TransfersAimed == \A q \in Requests : Aimed(transfer[q])

ObjectsTyped == lost \subseteq Files /\ buckets \subseteq F!Buckets /\ objects \subseteq buckets \X Files

TransfersTyped == transfers \in 0..MaxBegun /\ ffaults \in 0..MaxFaults

\* A step of one request, which aims elsewhere or where it may.
LEMMA AimedOn ==
    ASSUME FilesInv, TransfersAimed, NEW q \in Requests, NEW r,
           transfer' = [transfer EXCEPT ![q] = r], buckets \subseteq buckets',
           Aimed(r)'
    PROVE  TransfersAimed'
<1>1. transfer \in [Requests -> F!Request]
  BY DEF FilesInv, StoreTyped
<1>2. ASSUME NEW p \in Requests, p # q
      PROVE  Aimed(transfer[p])'
  <2>1. transfer'[p] = transfer[p] /\ Aimed(transfer[p])
    BY <1>1, <1>2 DEF TransfersAimed
  <2>. QED
    BY <2>1 DEF Aimed
<1>3. transfer'[q] = r
  BY <1>1
<1>. QED
  BY <1>2, <1>3 DEF TransfersAimed, Aimed

\* ... as one that is not on its way to the store.
LEMMA AimedNot ==
    ASSUME FilesInv, TransfersAimed, NEW q \in Requests, NEW r,
           transfer' = [transfer EXCEPT ![q] = r], buckets \subseteq buckets',
           r.pc \notin {"bucket", "make", "put"}
    PROVE  TransfersAimed'
BY AimedOn DEF Aimed

\* An upload goes on to a step that knows the bucket it is bound for.
LEMMA AimedGoto ==
    ASSUME FilesInv, TransfersAimed, NEW q \in Requests, NEW s \in F!Steps, F!Goto(q, s),
           buckets \subseteq buckets',
           s \in {"bucket", "make", "put"} => transfer[q].bucket \in F!Buckets,
           s = "put" => transfer[q].bucket \in buckets'
    PROVE  TransfersAimed'
<1>. PICK r : r = [transfer[q] EXCEPT !.pc = s]
  OBVIOUS
<1>1. r.pc = s /\ r.bucket = transfer[q].bucket
  BY RequestKnown, StepForm
<1>2. transfer' = [transfer EXCEPT ![q] = r]
  BY RequestKnown, Zenon DEF F!Goto
<1>3. Aimed(r)'
  BY <1>1 DEF Aimed
<1>. QED
  BY <1>2, <1>3, AimedOn

\* An upload ends or fails, and waits for no bucket.
LEMMA AimedEnds ==
    ASSUME FilesInv, TransfersAimed, NEW q \in Requests, buckets \subseteq buckets',
           F!End(q) \/ F!FailUpload(q)
    PROVE  TransfersAimed'
<1>1. CASE F!End(q)
  BY <1>1, AimedNot DEF F!End, F!Idle
<1>2. CASE F!FailUpload(q)
  <2>. DEFINE r == [transfer[q] EXCEPT !.pc = "then", !.file = transfer[q].old]
  <2>1. CASE transfer' = [transfer EXCEPT ![q] = r]
    <3>1. r.pc = "then"
      BY RequestKnown DEF F!Request
    <3>. HIDE DEF r
    <3>. QED
      BY <2>1, <3>1, AimedNot
  <2>2. transfer' = [transfer EXCEPT ![q].pc = "then", ![q].file = transfer[q].old]
           => transfer' = [transfer EXCEPT ![q] = r]
    BY RequestKnown, Zenon
  <2>. QED
    BY <1>1, <1>2, <2>1, <2>2, Zenon DEF F!FailUpload
<1>. QED
  BY <1>1, <1>2

\* A request begins with the check of its study, its configuration or its insertion.
LEMMA AimedBegins ==
    ASSUME FilesInv, TransfersAimed, NEW q \in Requests, F!AskFile(q) \/ F!AskStudy(q),
           buckets' = buckets
    PROVE  TransfersAimed'
<1>1. ASSUME NEW step \in {"check", "config", "study"}, NEW then, NEW f, NEW category,
             NEW owner, NEW size, NEW old, NEW r,
             r = [F!Idle EXCEPT !.pc = step, !.then = then, !.file = f, !.category = category,
                                !.owner = owner, !.size = size, !.old = old]
      PROVE  r.pc \notin {"bucket", "make", "put"}
  BY <1>1 DEF F!Idle
<1>2. ASSUME NEW step \in {"check", "config"}, NEW then, NEW f, NEW category,
             NEW owner, NEW size, NEW old, F!Begin(q, step, then, f, category, owner, size, old)
      PROVE  TransfersAimed'
  <2>1. PICK r : /\ transfer' = [transfer EXCEPT ![q] = r]
                 /\ r = [F!Idle EXCEPT !.pc = step, !.then = then, !.file = f, !.category = category,
                                !.owner = owner, !.size = size, !.old = old]
    BY <1>2, Zenon DEF F!Begin
  <2>2. r.pc \notin {"bucket", "make", "put"}
    BY <1>1, <2>1, Zenon
  <2>. QED
    BY <2>1, <2>2, AimedNot
<1>3. CASE F!AskFile(q)
  BY <1>2, <1>3, Zenon
     DEF F!AskFile, F!Upload, F!UploadFileData, F!UploadDirect, F!EditStudy
<1>4. ASSUME NEW f, NEW s, NEW size, F!CreateStudy(q, f, s, size)
      PROVE  TransfersAimed'
  <2>1. PICK r : /\ transfer' = [transfer EXCEPT ![q] = r]
                 /\ r = [F!Idle EXCEPT !.pc = "study", !.then = "profile", !.file = f,
                                       !.category = "PROFILE_FILE", !.owner = s, !.size = size]
    BY <1>4, Zenon DEF F!CreateStudy
  <2>2. r.pc = "study"
    BY <2>1 DEF F!Idle
  <2>. QED
    BY <2>1, <2>2, AimedNot
<1>5. ASSUME NEW s, F!DeleteStudy(q, s)
      PROVE  TransfersAimed'
  <2>. DEFINE r == [transfer[q] EXCEPT !.pc = "markfiles", !.owner = s]
  <2>1. r.pc = "markfiles"
    BY RequestKnown DEF F!Request
  <2>2. transfer' = [transfer EXCEPT ![q] = r]
    BY <1>5, RequestKnown, Zenon DEF F!DeleteStudy
  <2>. HIDE DEF r
  <2>. QED
    BY <2>1, <2>2, AimedNot
<1>. QED
  BY <1>3, <1>4, <1>5, Zenon DEF F!AskStudy

\* A request that reads its configuration gets a bucket from it.
LEMMA AimedReads ==
    ASSUME FilesInv, TransfersAimed, BucketsNamed, NEW q \in Requests, F!ReadConfig(q)
    PROVE  TransfersAimed'
<1>. DEFINE k == F!KeyOf(transfer[q])
            c == F!Found(k)
            b == IF transfer[q].category = "STUDY_DATA_FILE" THEN transfer[q].owner ELSE c.bucket
<1>1. transfer[q].pc = "config" /\ buckets' = buckets
  BY DEF F!ReadConfig, F!Store
<1>2. PICK r : /\ r = [transfer[q] EXCEPT !.pc = "bucket", !.limit = c.limit, !.bucket = b]
               /\ transfer' = [transfer EXCEPT ![q] = r]
  <2>1. transfer' = [transfer EXCEPT ![q].pc = "bucket", ![q].limit = c.limit, ![q].bucket = b]
    BY Zenon DEF F!ReadConfig
  <2>2. transfer \in [Requests -> F!Request]
    BY RequestKnown
  <2>. HIDE DEF c, b
  <2>. QED
    BY <2>1, <2>2, Zenon
<1>. HIDE DEF b
<1>3. r.pc = "bucket" /\ r.bucket = b
  <2>1. transfer[q] \in F!Request
    BY RequestKnown
  <2>. HIDE DEF c
  <2>. QED
    BY <1>2, <2>1 DEF F!Request
<1>4. b \in F!Buckets
  <2>1. CASE transfer[q].category = "STUDY_DATA_FILE"
    <3>1. transfer[q].owner \in Studies
      BY <2>1, RequestKnown DEF Formed
    <3>. QED
      BY <2>1, <3>1 DEF b, F!Buckets
  <2>2. CASE transfer[q].category # "STUDY_DATA_FILE"
    <3>1. k \in F!ConfigKeys /\ k[1] # "STUDYCONFIG"
      <4>1. /\ transfer[q].category \in F!Categories
            /\ transfer[q].category = "USER_DRIVE_FILE" => transfer[q].owner \in Users
        BY RequestKnown DEF Formed
      <4>. QED
        BY <2>2, <4>1 DEF F!KeyOf, F!ConfigKeys, F!Categories, F!Shared
    <3>2. k[1] \in F!Shared \cup {"USERCONFIG"}
      BY <3>1 DEF F!ConfigKeys
    <3>. HIDE DEF k
    <3>3. F!DefaultSettings(k[1]).bucket \in F!Buckets
      BY <3>2 DEF F!DefaultSettings, F!DefaultBucket, F!Buckets, F!Shared
    <3>4. settings[k] # Null => settings[k].bucket \in F!Buckets
      BY <3>1 DEF BucketsNamed
    <3>5. c.bucket \in F!Buckets
      BY <3>3, <3>4, Zenon DEF F!Found
    <3>. HIDE DEF c
    <3>. QED
      BY <2>2, <3>5 DEF b
  <2>. QED
    BY <2>1, <2>2
<1>5. Aimed(r)'
  BY <1>3, <1>4 DEF Aimed
<1>. QED
  BY <1>1, <1>2, <1>5, AimedOn

\* Every step of a request aims where it may, puts an object for a file into a bucket
\* that is there, and loses files alone.
LEMMA ObjectsStep ==
    ASSUME FilesInv, TransfersAimed, BucketsNamed, ObjectsTyped, [F!Next]_(F!storing)
    PROVE  TransfersAimed' /\ ObjectsTyped'
<1>1. CASE UNCHANGED <<transfer, buckets, objects, lost>>
  BY <1>1 DEF TransfersAimed, Aimed, ObjectsTyped
<1>2. ASSUME NEW q \in Requests, F!MayBegin(q), F!AskFile(q) \/ F!AskStudy(q)
      PROVE  TransfersAimed' /\ ObjectsTyped'
  <2>1. UNCHANGED <<buckets, objects, lost>>
    <3>1. ASSUME NEW pc, NEW then, NEW f, NEW c, NEW o, NEW size, NEW old,
                 F!Begin(q, pc, then, f, c, o, size, old)
          PROVE  UNCHANGED <<buckets, objects, lost>>
      BY <3>1, Zenon DEF F!Begin, F!Store
    <3>2. F!AskFile(q) => UNCHANGED <<buckets, objects, lost>>
      BY <3>1, Zenon DEF F!AskFile, F!Upload, F!UploadFileData, F!UploadDirect, F!EditStudy
    <3>3. F!AskStudy(q) => UNCHANGED <<buckets, objects, lost>>
      BY Zenon DEF F!AskStudy, F!CreateStudy, F!DeleteStudy, F!Store
    <3>. QED
      BY <1>2, <3>2, <3>3, Zenon
  <2>. QED
    BY <1>2, <2>1, AimedBegins DEF ObjectsTyped
<1>3. ASSUME NEW q \in Requests, NEW s \in F!Steps \ {"bucket", "make", "put"}, F!Goto(q, s),
             buckets' = buckets
      PROVE  TransfersAimed'
  BY <1>3, AimedGoto
<1>4. ASSUME NEW q \in Requests, F!End(q) \/ F!FailUpload(q), buckets' = buckets
      PROVE  TransfersAimed'
  BY <1>4, AimedEnds
<1>5. "check" \in F!Steps /\ "config" \in F!Steps /\ "then" \in F!Steps /\ "entry" \in F!Steps
      /\ "markconfigs" \in F!Steps /\ "put" \in F!Steps /\ "make" \in F!Steps
  BY DEF F!Steps
<1>6. ASSUME NEW q \in Requests,
             \/ F!InsertStudy(q) \/ F!CheckStudy(q) \/ F!InsertFile(q) \/ F!InsertClip(q)
             \/ F!SetProfile(q) \/ F!MarkFiles(q) \/ F!MarkConfigs(q)
      PROVE  TransfersAimed' /\ ObjectsTyped'
  <2>1. UNCHANGED <<buckets, objects, lost>>
    BY <1>6, Zenon
       DEF F!InsertStudy, F!CheckStudy, F!InsertFile, F!InsertClip, F!SetProfile, F!MarkFiles,
           F!MarkConfigs, F!Store
  <2>2. \/ F!Goto(q, "check") \/ F!Goto(q, "config") \/ F!Goto(q, "then") \/ F!Goto(q, "entry")
        \/ F!Goto(q, "markconfigs") \/ F!End(q) \/ F!FailUpload(q)
    BY <1>6, Zenon
       DEF F!InsertStudy, F!CheckStudy, F!InsertFile, F!InsertClip, F!SetProfile, F!MarkFiles,
           F!MarkConfigs
  <2>3. TransfersAimed'
    BY <1>3, <1>4, <1>5, <2>1, <2>2
  <2>. QED
    BY <2>1, <2>3 DEF ObjectsTyped
<1>7. ASSUME NEW q \in Requests, F!ReadConfig(q)
      PROVE  TransfersAimed' /\ ObjectsTyped'
  <2>1. UNCHANGED <<buckets, objects, lost>>
    BY <1>7 DEF F!ReadConfig, F!Store
  <2>. QED
    BY <1>7, <2>1, AimedReads DEF ObjectsTyped
<1>8. ASSUME NEW q \in Requests, F!FindBucket(q)
      PROVE  TransfersAimed' /\ ObjectsTyped'
  <2>1. UNCHANGED <<buckets, objects, lost>> /\ transfer[q].bucket \in F!Buckets
    BY <1>8 DEF F!FindBucket, F!Store, TransfersAimed, Aimed
  <2>2. \/ F!FailUpload(q)
        \/ F!Goto(q, "put") /\ transfer[q].bucket \in buckets
        \/ F!Goto(q, "make")
    BY <1>8, Zenon DEF F!FindBucket
  <2>3. TransfersAimed'
    BY <1>4, <1>5, <2>1, <2>2, AimedGoto
  <2>. QED
    BY <2>1, <2>3 DEF ObjectsTyped
<1>9. ASSUME NEW q \in Requests, F!MakeBucket(q)
      PROVE  TransfersAimed' /\ ObjectsTyped'
  <2>1. /\ UNCHANGED <<objects, lost>> /\ transfer[q].bucket \in F!Buckets
        /\ buckets' = buckets \cup {transfer[q].bucket}
        /\ F!FailUpload(q) \/ F!Goto(q, "put")
    BY <1>9 DEF F!MakeBucket, TransfersAimed, Aimed
  <2>2. TransfersAimed'
    BY <1>5, <2>1, AimedGoto, AimedEnds
  <2>. QED
    BY <2>1, <2>2 DEF ObjectsTyped
<1>10. ASSUME NEW q \in Requests, F!PutObject(q)
       PROVE  TransfersAimed' /\ ObjectsTyped'
  <2>1. /\ UNCHANGED <<buckets, lost>> /\ transfer[q].bucket \in buckets
        /\ objects' = objects \cup {<<transfer[q].bucket, transfer[q].file>>}
        /\ F!Goto(q, "then") \/ F!Goto(q, "entry")
    BY <1>10 DEF F!PutObject, TransfersAimed, Aimed
  <2>2. transfer[q].file \in Files
    BY <1>10, RequestKnown, UploadKnown DEF F!PutObject
  <2>3. TransfersAimed'
    BY <1>3, <1>5, <2>1
  <2>. QED
    BY <2>1, <2>2, <2>3 DEF ObjectsTyped
<1>11. ASSUME NEW q \in Requests, F!Fail(q)
       PROVE  TransfersAimed' /\ ObjectsTyped'
  <2>1. /\ UNCHANGED <<buckets, objects>> /\ lost' = lost \cup ({transfer[q].file} \ {Null})
        /\ F!FailUpload(q) \/ F!End(q)
    BY <1>11 DEF F!Fail
  <2>2. transfer[q].file \in Files \cup {Null}
    BY RequestKnown
  <2>. QED
    BY <1>4, <2>1, <2>2 DEF ObjectsTyped
<1>12. CASE F!Restart
  <2>1. /\ UNCHANGED <<buckets, objects>> /\ transfer' = [q \in Requests |-> F!Idle]
        /\ lost' = lost \cup ({transfer[q].file : q \in Requests} \ {Null})
    BY <1>12 DEF F!Restart
  <2>2. \A q \in Requests : transfer[q].file \in Files \cup {Null}
    BY RequestKnown
  <2>. QED
    BY <2>1, <2>2 DEF ObjectsTyped, TransfersAimed, Aimed, F!Idle
<1>13. F!AskConfig \/ UNCHANGED F!storing => UNCHANGED <<transfer, buckets, objects, lost>>
  BY Zenon DEF F!AskConfig, F!EditConfig, F!CreateConfig, F!Store, F!storing
<1>14. ASSUME NEW q \in Requests, F!Continue(q)
       PROVE  TransfersAimed' /\ ObjectsTyped'
  BY <1>6, <1>7, <1>8, <1>9, <1>10, <1>11, <1>14, Zenon DEF F!Continue
<1>. QED
  BY <1>1, <1>2, <1>12, <1>13, <1>14, Zenon DEF F!Next

\* Configurations are created and edited with the buckets their types have, and a
\* study's configuration is the only one inserted without.
LEMMA NamedStep ==
    ASSUME FilesInv, BucketsNamed, [F!Next]_(F!storing)
    PROVE  BucketsNamed'
<1>1. /\ settings \in [F!ConfigKeys -> F!Config \cup {Null}]
      /\ Null \notin F!Config
  BY FilesAssumption DEF FilesInv, SettingsOK, F!ConstantsOK
<1>2. ASSUME NEW k \in F!ConfigKeys, NEW c, settings' = [settings EXCEPT ![k] = c],
             k[1] = "STUDYCONFIG" \/ c.bucket \in F!Buckets
      PROVE  BucketsNamed'
  BY <1>1, <1>2 DEF BucketsNamed
<1>3. CASE F!AskConfig
  <2>1. PICK k \in F!ConfigKeys, bucket \in F!Buckets \cup {Null}, limit \in 1..MaxSize :
           /\ F!MatchesAny(k[1], bucket)
           /\ F!EditConfig(k, bucket, limit) \/ F!CreateConfig(k, bucket, limit)
    BY <1>3, Zenon DEF F!AskConfig
  <2>2. k[1] = "STUDYCONFIG" \/ bucket \in F!Buckets
    BY <2>1 DEF F!MatchesAny
  <2>3. CASE F!CreateConfig(k, bucket, limit)
    <3>1. PICK c : /\ c = [bucket |-> bucket, limit |-> limit, live |-> TRUE]
                   /\ settings' = [settings EXCEPT ![k] = c]
      BY <2>3, Zenon DEF F!CreateConfig
    <3>. QED
      BY <1>2, <2>2, <3>1
  <2>4. CASE F!EditConfig(k, bucket, limit)
    <3>1. /\ settings[k] # Null
          /\ settings' = [settings EXCEPT ![k].bucket = bucket, ![k].limit = limit]
      BY <2>4, Zenon DEF F!EditConfig
    <3>2. PICK c : /\ c = [settings[k] EXCEPT !.bucket = bucket, !.limit = limit]
                   /\ settings' = [settings EXCEPT ![k] = c]
      BY <1>1, <3>1, Zenon
    <3>3. c.bucket = bucket
      BY <1>1, <3>1, <3>2 DEF F!Config
    <3>. QED
      BY <1>2, <2>2, <3>2, <3>3
  <2>. QED
    BY <2>1, <2>3, <2>4
<1>4. ASSUME NEW s \in Studies, NEW d,
             settings' = [settings EXCEPT ![<<"STUDYCONFIG", s>>] = d]
      PROVE  BucketsNamed'
  <2>1. <<"STUDYCONFIG", s>> \in F!ConfigKeys /\ <<"STUDYCONFIG", s>>[1] = "STUDYCONFIG"
    BY DEF F!ConfigKeys
  <2>. QED
    BY <1>2, <1>4, <2>1
<1>5. ASSUME NEW q \in Requests, F!AskStudy(q)
      PROVE  BucketsNamed'
  <2>1. \/ settings' = settings
        \/ \E s \in Studies : settings' =
              [settings EXCEPT ![<<"STUDYCONFIG", s>>] = F!DefaultSettings("STUDYCONFIG")]
    BY <1>5, Zenon DEF F!AskStudy, F!CreateStudy, F!DeleteStudy
  <2>2. settings' = settings => BucketsNamed'
    BY DEF BucketsNamed
  <2>. QED
    BY <1>4, <2>1, <2>2, Zenon
<1>6. ASSUME NEW q \in Requests, F!MarkConfigs(q)
      PROVE  BucketsNamed'
  <2>. DEFINE k == <<"STUDYCONFIG", transfer[q].owner>>
  <2>1. transfer[q].owner \in Studies
    BY <1>6, RequestKnown DEF F!MarkConfigs, Formed
  <2>2. CASE settings' = settings
    BY <2>2 DEF BucketsNamed
  <2>3. CASE settings' = [settings EXCEPT ![k].live = FALSE]
    <3>1. PICK d : d = [settings[k] EXCEPT !.live = FALSE]
      OBVIOUS
    <3>2. settings' = [settings EXCEPT ![k] = d]
      BY <1>1, <2>3, <3>1, Zenon
    <3>. QED
      BY <1>4, <2>1, <3>2
  <2>. QED
    BY <1>6, <2>2, <2>3, Zenon DEF F!MarkConfigs
<1>7. CASE settings' = settings
  BY <1>7 DEF BucketsNamed
<1>8. ASSUME NEW q \in Requests,
             \/ F!InsertStudy(q) \/ F!CheckStudy(q) \/ F!ReadConfig(q) \/ F!FindBucket(q)
             \/ F!MakeBucket(q) \/ F!PutObject(q) \/ F!InsertFile(q) \/ F!InsertClip(q)
             \/ F!SetProfile(q) \/ F!MarkFiles(q) \/ F!Fail(q) \/ F!AskFile(q)
      PROVE  settings' = settings
  <2>1. F!AskFile(q) => settings' = settings
    BY Zenon
       DEF F!AskFile, F!Upload, F!UploadFileData, F!UploadDirect, F!EditStudy, F!Begin
  <2>. QED
    BY <1>8, <2>1, Zenon
       DEF F!InsertStudy, F!CheckStudy, F!ReadConfig, F!FindBucket, F!MakeBucket, F!PutObject,
           F!InsertFile, F!InsertClip, F!SetProfile, F!MarkFiles, F!Fail
<1>9. F!Restart \/ UNCHANGED F!storing => settings' = settings
  BY Zenon DEF F!Restart, F!storing
<1>10. ASSUME NEW q \in Requests, F!Continue(q)
       PROVE  BucketsNamed'
  BY <1>6, <1>7, <1>8, <1>10, Zenon DEF F!Continue
<1>. QED
  BY <1>3, <1>5, <1>7, <1>8, <1>9, <1>10, Zenon DEF F!Next

\* Every step counts within its bounds.
LEMMA TransfersStep == TransfersTyped /\ [F!Next]_(F!storing) => TransfersTyped'
<1>. SUFFICES ASSUME TransfersTyped, [F!Next]_(F!storing)
              PROVE  TransfersTyped'
  OBVIOUS
<1>1. MaxBegun \in Nat /\ MaxFaults \in Nat /\ transfers \in 0..MaxBegun /\ ffaults \in 0..MaxFaults
  BY FilesAssumption DEF F!ConstantsOK, TransfersTyped
<1>2. ASSUME \/ transfers' = transfers
             \/ transfers < MaxBegun /\ transfers' = transfers + 1,
             \/ ffaults' = ffaults
             \/ ffaults < MaxFaults /\ ffaults' = ffaults + 1
      PROVE  TransfersTyped'
  BY <1>1, <1>2 DEF TransfersTyped
<1>3. F!AskConfig => /\ transfers < MaxBegun /\ transfers' = transfers + 1
                     /\ ffaults' = ffaults
  BY Zenon DEF F!AskConfig, F!EditConfig, F!CreateConfig
<1>4. ASSUME NEW q \in Requests, F!AskFile(q) \/ F!AskStudy(q)
      PROVE  transfers < MaxBegun /\ transfers' = transfers + 1 /\ ffaults' = ffaults
  <2>1. F!AskFile(q) => transfers < MaxBegun /\ transfers' = transfers + 1 /\ ffaults' = ffaults
    <3>1. ASSUME NEW pc, NEW then, NEW f, NEW c, NEW o, NEW size, NEW old,
                 F!Begin(q, pc, then, f, c, o, size, old)
          PROVE  transfers < MaxBegun /\ transfers' = transfers + 1 /\ ffaults' = ffaults
      BY <3>1, Zenon DEF F!Begin, F!MayBegin
    <3>2. \A f, c, o, size : F!Upload(q, f, c, o, size) =>
             transfers < MaxBegun /\ transfers' = transfers + 1 /\ ffaults' = ffaults
      BY <3>1, Zenon DEF F!Upload
    <3>3. \A f, s, size :
             F!UploadFileData(q, f, s, size) \/ F!UploadDirect(q, f, s, size)
               \/ F!EditStudy(q, f, s, size) =>
             transfers < MaxBegun /\ transfers' = transfers + 1 /\ ffaults' = ffaults
      BY <3>1, Zenon DEF F!UploadFileData, F!UploadDirect, F!EditStudy
    <3>. QED
      BY <3>2, <3>3, Zenon DEF F!AskFile
  <2>2. F!AskStudy(q) => transfers < MaxBegun /\ transfers' = transfers + 1 /\ ffaults' = ffaults
    BY Zenon DEF F!AskStudy, F!CreateStudy, F!DeleteStudy, F!MayBegin
  <2>. QED
    BY <1>4, <2>1, <2>2
<1>5. ASSUME NEW q \in Requests,
             \/ F!InsertStudy(q) \/ F!CheckStudy(q) \/ F!ReadConfig(q) \/ F!FindBucket(q)
             \/ F!MakeBucket(q) \/ F!PutObject(q) \/ F!InsertFile(q) \/ F!InsertClip(q)
             \/ F!SetProfile(q) \/ F!MarkFiles(q) \/ F!MarkConfigs(q)
      PROVE  transfers' = transfers /\ ffaults' = ffaults
  BY <1>5, Zenon
     DEF F!InsertStudy, F!CheckStudy, F!ReadConfig, F!FindBucket, F!MakeBucket, F!PutObject,
         F!InsertFile, F!InsertClip, F!SetProfile, F!MarkFiles, F!MarkConfigs
<1>6. ASSUME F!Restart \/ \E q \in Requests : F!Fail(q)
      PROVE  transfers' = transfers /\ ffaults < MaxFaults /\ ffaults' = ffaults + 1
  BY <1>6, Zenon DEF F!Restart, F!Fail
<1>7. UNCHANGED F!storing => transfers' = transfers /\ ffaults' = ffaults
  BY Zenon DEF F!storing
<1>8. ASSUME NEW q \in Requests, F!Continue(q)
      PROVE  TransfersTyped'
  BY <1>2, <1>5, <1>6, <1>8, Zenon DEF F!Continue
<1>. QED
  BY <1>2, <1>3, <1>4, <1>6, <1>7, <1>8, Zenon DEF F!Next

\* Settings, studies, files, objects and requests are of their types.
LEMMA FileTypes == PartsSpec => [](part = "files" => F!TypeOK)
<1>. DEFINE Old == part = "files" => FilesInv
            Inv == part = "files"
                     => TransfersAimed /\ BucketsNamed /\ ObjectsTyped /\ TransfersTyped
<1>1. PartsInit => Inv
  <2>. SUFFICES ASSUME PartsInit, part = "files"
                PROVE  TransfersAimed /\ BucketsNamed /\ ObjectsTyped /\ TransfersTyped
    OBVIOUS
  <2>1. F!Init
    BY Zenon DEF PartsInit
  <2>2. TransfersAimed
    <3>1. F!Idle.pc \notin {"bucket", "make", "put"}
      BY DEF F!Idle
    <3>. QED
      BY <2>1, <3>1 DEF F!Init, TransfersAimed, Aimed
  <2>3. BucketsNamed
    <3>. SUFFICES ASSUME NEW k \in F!ConfigKeys, settings[k] # Null, k[1] # "STUDYCONFIG"
                  PROVE  settings[k].bucket \in F!Buckets
      BY DEF BucketsNamed
    <3>1. settings[k] = F!DefaultSettings(k[1])
      BY <2>1 DEF F!Init
    <3>2. k[1] \in F!Shared \cup {"USERCONFIG"}
      BY DEF F!ConfigKeys
    <3>. QED
      BY <3>1, <3>2 DEF F!DefaultSettings, F!DefaultBucket, F!Buckets, F!Shared
  <2>4. ObjectsTyped
    BY <2>1 DEF F!Init, ObjectsTyped
  <2>5. TransfersTyped
    <3>1. transfers = 0 /\ ffaults = 0
      BY <2>1, Zenon DEF F!Init
    <3>. QED
      BY <3>1, FilesAssumption DEF TransfersTyped, F!ConstantsOK
  <2>. QED
    BY <2>2, <2>3, <2>4, <2>5
<1>2. Old /\ Inv /\ [PartsNext]_PartsVars => Inv'
  <2>1. part = "files" /\ [PartsNext]_PartsVars => [F!Next]_(F!storing)
    BY Zenon DEF PartsNext, PartsVars, F!storing, storing
  <2>. QED
    BY <2>1, PartKept, ObjectsStep, NamedStep, TransfersStep
<1>3. Old /\ Inv => (part = "files" => F!TypeOK)
  <2>. SUFFICES ASSUME FilesInv, ObjectsTyped, TransfersTyped
                PROVE  F!TypeOK
    BY Zenon
  <2>. QED
    BY Zenon DEF FilesInv, SettingsOK, StoreTyped, ObjectsTyped, TransfersTyped, F!TypeOK
<1>. QED
  BY <1>1, <1>2, <1>3, FilesLast, PTL DEF PartsSpec

-----------------------------------------------------------------------------
\* What is asked of the answers is counted.
LEMMA InquiriesStep ==
    ASSUME inquiries \in 0..MaxFew, [A!Next]_(A!answering)
    PROVE  inquiries' \in 0..MaxFew
<1>1. inquiries' = inquiries \/ (inquiries < MaxFew /\ inquiries' = inquiries + 1)
  <2>1. ASSUME NEW q \in Requests, NEW r, A!Begin(q, r)
        PROVE  inquiries < MaxFew /\ inquiries' = inquiries + 1
    BY <2>1, Zenon DEF A!Begin, A!MayBegin
  <2>2. ASSUME NEW q \in Requests, NEW u, A!Ask(q, u)
        PROVE  inquiries < MaxFew /\ inquiries' = inquiries + 1
    BY <2>1, <2>2, Zenon DEF A!Ask, A!GetStudySummary, A!GetStudyFiles, A!UploadData
  <2>3. ASSUME NEW q \in Requests,
               \/ A!ReadFields(q) \/ A!ReadFiles(q) \/ A!StoreFiles(q)
               \/ A!InsertClip(q) \/ A!OutdateFiles(q) \/ A!StoreSummary(q)
               \/ \E c \in A!Counters : A!Count(q, c)
        PROVE  inquiries' = inquiries
    BY <2>3, Zenon
       DEF A!ReadFields, A!ReadFiles, A!StoreFiles, A!InsertClip, A!OutdateFiles, A!StoreSummary,
           A!Count
  <2>4. (\E u, f, s : A!DeleteData(u, f, s)) \/ (\E r, g : A!SetRole(r, g))
           => inquiries < MaxFew /\ inquiries' = inquiries + 1
    BY Zenon DEF A!DeleteData, A!SetRole
  <2>5. UNCHANGED A!answering => inquiries' = inquiries
    BY Zenon DEF A!answering
  <2>. QED
    BY <2>2, <2>3, <2>4, <2>5, Zenon DEF A!Next
<1>2. MaxFew \in Nat
  BY AnswersAssumption DEF A!ConstantsOK
<1>. QED
  BY <1>1, <1>2

\* Clips, permissions, cached answers and requests are of their types.
LEMMA AnsweringTypes == PartsSpec => [](part = "answers" => A!TypeOK)
<1>. DEFINE Old == part = "answers" => AnswersInv
            Inv == part = "answers" => inquiries \in 0..MaxFew
<1>1. PartsInit => Inv
  <2>1. PartsInit /\ part = "answers" => inquiries = 0
    BY Zenon DEF PartsInit, A!Init
  <2>2. MaxFew \in Nat
    BY AnswersAssumption DEF A!ConstantsOK
  <2>. QED
    BY <2>1, <2>2
<1>2. Inv /\ [PartsNext]_PartsVars => Inv'
  <2>1. part = "answers" /\ [PartsNext]_PartsVars => [A!Next]_(A!answering)
    BY Zenon DEF PartsNext, PartsVars, A!answering, answering
  <2>. QED
    BY <2>1, PartKept, InquiriesStep
<1>3. Old /\ Inv => (part = "answers" => A!TypeOK)
  <2>. SUFFICES ASSUME AnswersTypes, inquiries \in 0..MaxFew
                PROVE  A!TypeOK
    BY Zenon DEF AnswersInv
  <2>1. \A i \in 1..Len(cache) : cache[i].query \in {"files", "summary"}
    <3>1. \A i \in 1..Len(cache) : cache[i] \in CacheEntry
      BY DEF AnswersTypes
    <3>. QED
      BY <3>1 DEF CacheEntry
  <2>2. \A q \in Requests :
           inquiry[q].pc \in {"idle", "fields", "files", "store", "insert", "outdate", "count"}
    <3>1. \A q \in Requests : inquiry[q] \in Inquiry
      BY DEF AnswersTypes
    <3>. QED
      BY <3>1 DEF Inquiry
  <2>. QED
    BY <2>1, <2>2, Zenon DEF AnswersTypes, A!TypeOK
<1>. QED
  BY <1>1, <1>2, <1>3, AnswersLast, PTL DEF PartsSpec

-----------------------------------------------------------------------------
\* The parts of a summary are numbers of calls, by what was called and by whom.
StatisticsTyped ==
    /\ Len(logs) <= MaxLogs
    /\ Y!Parts(byEvent, Events) /\ Y!Parts(byRequester, Requesters)

\* A summary counts calls that are logged.
LEMMA SummaryTyped ==
    ASSUME SummaryInv, NEW field \in {"event", "requester"}, NEW values,
           \A l \in DOMAIN logs : logs[l][field] \in values
    PROVE  Y!Parts(Y!Summary(field), values)
<1>. DEFINE Of(v) == {l \in Y!Matching : logs[l][field] = v}
            OfDay(v, d) == {l \in Of(v) : Y!DayIndex(l) = d}
            statistic(v) == [count |-> Y!Cardinality(Of(v)),
                             daily |-> [d \in 0..Days - 1 |-> Y!Cardinality(OfDay(v, d))]]
<1>1. IsFiniteSet(Y!Matching)
  BY FS_Interval, FS_Subset DEF SummaryInv, Y!Matching
<1>2. \A some \in SUBSET Y!Matching : Y!Cardinality(some) \in Nat
  <2>1. \A some \in SUBSET Y!Matching : Cardinality(some) \in Nat
    BY <1>1, FS_Subset, FS_CardinalityType
  <2>2. \A some : Y!Cardinality(some) = Cardinality(some)
    BY Zenon DEF Y!Cardinality, Cardinality
  <2>. QED
    BY <2>1, <2>2
<1>3. ASSUME NEW v
      PROVE  statistic(v) \in Y!Statistic
  <2>1. Y!Cardinality(Of(v)) \in Nat /\ \A d : Y!Cardinality(OfDay(v, d)) \in Nat
    <3>1. Of(v) \in SUBSET Y!Matching /\ \A d : OfDay(v, d) \in SUBSET Y!Matching
      OBVIOUS
    <3>. QED
      BY <1>2, <3>1, Zenon
  <2>. HIDE DEF Of, OfDay
  <2>. QED
    BY <2>1 DEF Y!Statistic
<1>4. Y!Summary(field) = [v \in {logs[l][field] : l \in Y!Matching} |-> statistic(v)]
  BY Zenon DEF Y!Summary
<1>5. {logs[l][field] : l \in Y!Matching} \subseteq values
  BY DEF Y!Matching
<1>. HIDE DEF statistic
<1>6. DOMAIN Y!Summary(field) = {logs[l][field] : l \in Y!Matching}
  BY <1>4, Zenon
<1>7. \A v \in DOMAIN Y!Summary(field) : Y!Summary(field)[v] = statistic(v)
  BY <1>4, Zenon
<1>. QED
  BY <1>3, <1>5, <1>6, <1>7, Zenon DEF Y!Parts

\* Every call that is logged, and every part of a summary.
LEMMA StatisticsStep ==
    ASSUME SummaryInv, StatisticsTyped, [Y!Next]_(Y!summing)
    PROVE  StatisticsTyped'
<1>1. CASE UNCHANGED <<logs, byEvent, byRequester>>
  BY <1>1 DEF StatisticsTyped, Y!Parts, Y!Statistic
<1>2. CASE Y!LogCall
  <2>1. /\ Len(logs) < MaxLogs /\ byEvent' = byEvent /\ byRequester' = byRequester
        /\ \E l \in Y!Log : logs' = Append(logs, l)
    <3>1. hour \in 0..MaxHours
      BY DEF SummaryInv
    <3>. QED
      BY <1>2, <3>1 DEF Y!LogCall, Y!Log
  <2>2. Len(logs') <= MaxLogs
    BY <2>1, SummariesAssumption DEF SummaryInv, Y!ConstantsOK
  <2>. QED
    BY <2>1, <2>2 DEF StatisticsTyped, Y!Parts, Y!Statistic
<1>3. \A l \in DOMAIN logs : logs[l].event \in Events /\ logs[l].requester \in Requesters
  <2>1. \A l \in DOMAIN logs : logs[l] \in Y!Log
    BY DEF SummaryInv
  <2>. QED
    BY <2>1 DEF Y!Log
<1>4. CASE Y!EventStatistics
  <2>1. Y!Parts(Y!Summary("event"), Events)
    BY <1>3, SummaryTyped
  <2>2. byEvent' = Y!Summary("event") /\ logs' = logs /\ byRequester' = byRequester
    BY <1>4, Zenon DEF Y!EventStatistics
  <2>. QED
    BY <2>1, <2>2, Zenon DEF StatisticsTyped, Y!Parts, Y!Statistic
<1>5. CASE Y!RequesterStatistics
  <2>1. Y!Parts(Y!Summary("requester"), Requesters)
    BY <1>3, SummaryTyped
  <2>2. byRequester' = Y!Summary("requester") /\ logs' = logs /\ byEvent' = byEvent
    BY <1>5, Zenon DEF Y!RequesterStatistics
  <2>. QED
    BY <2>1, <2>2, Zenon DEF StatisticsTyped, Y!Parts, Y!Statistic
<1>6. CASE Y!Answer
  BY <1>6, Zenon DEF Y!Answer, StatisticsTyped, Y!Parts
<1>7. Y!Tick \/ Y!Ask \/ UNCHANGED Y!summing => UNCHANGED <<logs, byEvent, byRequester>>
  BY Zenon DEF Y!Tick, Y!Ask, Y!summing
<1>. QED
  BY <1>1, <1>2, <1>4, <1>5, <1>6, <1>7, Zenon DEF Y!Next

\* The log, the time and the summary are of their types.
LEMMA SummaryTypes == PartsSpec => [](part = "summaries" => Y!TypeOK)
<1>. DEFINE Old == part = "summaries" => SummaryInv
            Inv == part = "summaries" => StatisticsTyped
<1>1. PartsInit => Inv
  <2>1. PartsInit /\ part = "summaries" => logs = <<>> /\ byEvent = Null /\ byRequester = Null
    BY Zenon DEF PartsInit, Y!Init
  <2>2. Len(<<>>) <= MaxLogs
    BY SummariesAssumption DEF Y!ConstantsOK
  <2>. QED
    BY <2>1, <2>2, Zenon DEF StatisticsTyped, Y!Parts
<1>2. Old /\ Inv /\ [PartsNext]_PartsVars => Inv'
  <2>1. part = "summaries" /\ [PartsNext]_PartsVars => [Y!Next]_(Y!summing)
    BY Zenon DEF PartsNext, PartsVars, summing, Y!summing
  <2>. QED
    BY <2>1, PartKept, StatisticsStep
<1>3. Old /\ Inv => (part = "summaries" => Y!TypeOK)
  <2>. SUFFICES ASSUME SummaryInv, StatisticsTyped
                PROVE  Y!TypeOK
    BY Zenon
  <2>1. summary \in (0..MaxHours) \cup {Null}
    BY SummariesAssumption DEF SummaryInv, Y!ConstantsOK
  <2>. QED
    BY <2>1, Zenon DEF SummaryInv, StatisticsTyped, Y!TypeOK
<1>. QED
  BY <1>1, <1>2, <1>3, SummariesLast, PTL DEF PartsSpec

-----------------------------------------------------------------------------
\* Who is a user still, what is under way, and what is counted.
OperationsTyped ==
    /\ members \subseteq Everybody /\ isCopying \in BOOLEAN
    /\ asking = Null \/ asking \in [op : {"delete", "create"}, user : Everybody, node : Nodes]
    /\ stream \in Nodes \cup {Null}

CallsTyped == requested \in 0..MaxCalls /\ changed \in 0..MaxChanged

\* A caller is a user, and what is found are nodes.
LEMMA CallersAreUsers ==
    ASSUME OperationsTyped, NEW u \in D!Callers
    PROVE  u \in Everybody /\ \A p : D!Found(u, p) \subseteq Nodes
<1>1. PICK v \in Everybody \cup {Null} : u = D!GetUser(D!Proxied(v)) /\ u # Null
  BY Zenon DEF D!Callers
<1>2. D!Proxied(v) # Null /\ D!Proxied(v).id \in members /\ u = D!Proxied(v).id
  BY <1>1, Zenon DEF D!GetUser
<1>. QED
  BY <1>2, Zenon DEF OperationsTyped, D!Found, D!Seen, D!Live

\* Every operation, and every change of the drives.
LEMMA OperationsStep ==
    ASSUME OperationsTyped, [D!Next]_(D!dav)
    PROVE  OperationsTyped'
<1>1. ASSUME NEW op \in {"delete", "create"}, NEW u \in D!Callers, NEW p, D!Lookup(op, u, p),
             UNCHANGED <<members, isCopying, stream>>
      PROVE  OperationsTyped'
  <2>1. u \in Everybody /\ D!Found(u, p) \subseteq Nodes
    BY CallersAreUsers
  <2>2. PICK n \in D!Found(u, p) : asking' = [op |-> op, user |-> u, node |-> n]
    BY <1>1, Zenon DEF D!Lookup
  <2>. QED
    BY <1>1, <2>1, <2>2 DEF OperationsTyped
<1>2. CASE D!DeleteLookup
  BY <1>1, <1>2, Zenon DEF D!DeleteLookup
<1>3. CASE D!CreateFolderLookup
  BY <1>1, <1>3, Zenon DEF D!CreateFolderLookup
<1>4. CASE D!CallDrive
  BY <1>4, Zenon DEF D!CallDrive, OperationsTyped
<1>5. CASE D!CreateFile
  BY <1>5, Zenon DEF D!CreateFile, OperationsTyped
<1>6. CASE D!OpenWriteStream
  <2>1. PICK u \in D!Callers : \E p :
           stream' = stream \/ \E n \in D!Found(u, p) : stream' = n
    BY <1>6, Zenon DEF D!OpenWriteStream
  <2>2. stream' \in Nodes \cup {Null}
    BY <2>1, CallersAreUsers, Zenon DEF OperationsTyped
  <2>. QED
    BY <1>6, <2>2, Zenon DEF D!OpenWriteStream, OperationsTyped
<1>7. CASE D!StreamFinal
  <2>1. stream' \in Nodes \cup {Null} /\ UNCHANGED <<members, isCopying, asking>>
    BY <1>7 DEF D!StreamFinal
  <2>. QED
    BY <2>1, Zenon DEF OperationsTyped
<1>8. ASSUME NEW u, D!DeleteUser(u)
      PROVE  OperationsTyped'
  BY <1>8, Zenon DEF D!DeleteUser, OperationsTyped
<1>9. CASE UNCHANGED <<members, isCopying, asking, stream>>
  BY <1>9, Zenon DEF OperationsTyped
<1>10. D!CopyMove \/ D!OpenReadStream \/ D!DrivesChange \/ UNCHANGED D!dav
          => UNCHANGED <<members, isCopying, asking, stream>>
  BY Zenon DEF D!CopyMove, D!OpenReadStream, D!DrivesChange, D!dav
<1>. QED
  BY <1>2, <1>3, <1>4, <1>5, <1>6, <1>7, <1>8, <1>9, <1>10, Zenon DEF D!Next

\* Calls and changes are counted up to their bounds.
LEMMA DavCounted ==
    ASSUME CallsTyped, [D!Next]_(D!dav)
    PROVE  CallsTyped'
<1>1. \/ requested' = requested /\ changed' = changed
      \/ requested < MaxCalls /\ requested' = requested + 1 /\ changed' = changed
      \/ changed < MaxChanged /\ changed' = changed + 1 /\ requested' = requested
  <2>1. ASSUME \/ D!DeleteLookup \/ D!CreateFolderLookup \/ D!CreateFile \/ D!OpenWriteStream
               \/ D!CopyMove \/ D!OpenReadStream
        PROVE  requested < MaxCalls /\ requested' = requested + 1 /\ changed' = changed
    BY <2>1, Zenon
       DEF D!DeleteLookup, D!CreateFolderLookup, D!CreateFile, D!OpenWriteStream, D!CopyMove,
           D!OpenReadStream, D!Begins
  <2>2. D!CallDrive \/ D!StreamFinal \/ UNCHANGED D!dav
          => requested' = requested /\ changed' = changed
    BY Zenon DEF D!CallDrive, D!StreamFinal, D!dav
  <2>3. D!DrivesChange \/ (\E u \in Everybody : D!DeleteUser(u))
          => changed < MaxChanged /\ changed' = changed + 1 /\ requested' = requested
    BY Zenon DEF D!DrivesChange, D!DeleteUser
  <2>. QED
    BY <2>1, <2>2, <2>3, Zenon DEF D!Next
<1>2. MaxCalls \in Nat /\ MaxChanged \in Nat
  BY DavAssumption DEF D!ConstantsOK
<1>. QED
  BY <1>1, <1>2 DEF CallsTyped

\* Drives and operations are of their types.
LEMMA DavTypes == PartsSpec => [](part = "webdav" => D!TypeOK)
<1>. DEFINE Old == part = "webdav" => DavInv
            Inv == part = "webdav" => OperationsTyped /\ CallsTyped
<1>1. PartsInit => Inv
  <2>1. PartsInit /\ part = "webdav" =>
           /\ members = Everybody /\ isCopying = FALSE /\ asking = Null /\ stream = Null
           /\ requested = 0 /\ changed = 0
    BY Zenon DEF PartsInit, D!Init
  <2>2. 0 \in 0..MaxCalls /\ 0 \in 0..MaxChanged
    BY DavAssumption DEF D!ConstantsOK
  <2>. QED
    BY <2>1, <2>2, Zenon DEF OperationsTyped, CallsTyped
<1>2. Inv /\ [PartsNext]_PartsVars => Inv'
  <2>1. part = "webdav" /\ [PartsNext]_PartsVars => [D!Next]_(D!dav)
    BY Zenon DEF PartsNext, PartsVars, D!dav, dav
  <2>. QED
    BY <2>1, PartKept, OperationsStep, DavCounted
<1>3. Old /\ Inv => (part = "webdav" => D!TypeOK)
  <2>. SUFFICES ASSUME DavInv, OperationsTyped, CallsTyped
                PROVE  D!TypeOK
    BY Zenon
  <2>1. DOMAIN tree = Nodes
    BY DEF DavInv
  <2>2. \A n \in Nodes : tree[n] \in Documents[n] \cup {Null}
    BY DEF DavInv
  <2>. QED
    BY <2>1, <2>2, Zenon DEF OperationsTyped, CallsTyped, D!TypeOK
<1>. QED
  BY <1>1, <1>2, <1>3, DavLast, PTL DEF PartsSpec

-----------------------------------------------------------------------------
\* The answer has as many clips as were given, though AFFINE changes them.
ClipsTyped ==
    /\ given \in Inputs /\ Len(given) \in Nat /\ Len(clips) = Len(given)
    /\ refused \in BOOLEAN

\* AFFINE changes objects and adds or drops none.
LEMMA AffineKeepsNumber ==
    ASSUME NEW op, NEW held, Len(held) \in Nat, NEW data, ~T!Affine(held, data, op).fails
    PROVE  Len(T!Affine(held, data, op).clips) = Len(held)
<1>1. \A x, y, z : T!Gives(x, y, z).clips = z
  BY DEF T!Gives
<1>2. T!Fails.fails
  BY DEF T!Fails
<1>3. PICK after : T!Affine(held, data, op) = T!Affined(held, data, after)
  BY <1>2, Zenon DEF T!Affine
<1>4. \/ T!Affined(held, data, after) = T!Fails
      \/ \E items, more : T!Affined(held, data, after) =
            T!Gives(items, FALSE, [i \in 1..Len(held) |-> more[i]])
  <2>1. PICK more : more = [i \in 1..Len(held) |->
                              IF T!Contains(data.items, T!Shared(i)) THEN after[T!Shared(i)]
                              ELSE held[i]]
    OBVIOUS
  <2>2. \/ T!Affined(held, data, after) = T!Fails
        \/ \E items : T!Affined(held, data, after) = T!Gives(items, FALSE, more)
    BY <2>1, Zenon DEF T!Affined
  <2>3. more = [i \in 1..Len(held) |-> more[i]]
    BY <2>1
  <2>. QED
    BY <2>2, <2>3, Zenon
<1>5. \E more : T!Affined(held, data, after).clips = [i \in 1..Len(held) |-> more[i]]
  <2>1. T!Affined(held, data, after) # T!Fails
    BY <1>2, <1>3, Zenon
  <2>2. PICK items, more, left :
           /\ T!Affined(held, data, after) = T!Gives(items, FALSE, left)
           /\ left = [i \in 1..Len(held) |-> more[i]]
    BY <1>4, <2>1, Zenon
  <2>3. T!Gives(items, FALSE, left).clips = left
    BY <1>1, Zenon
  <2>4. T!Affined(held, data, after).clips = left
    BY <2>2, <2>3
  <2>. QED
    BY <2>2, <2>4, Zenon
<1>. QED
  BY <1>3, <1>5

\* Every operation and every end of a pipeline.
LEMMA ClipsKept ==
    ASSUME ClipsTyped, [T!Next]_aggregation
    PROVE  ClipsTyped'
<1>1. CASE T!TransformationCompose
  <2>. DEFINE r == T!TransformationRegistry(todo[1], clips, current)
  <2>1. given' = given
    BY <1>1, Zenon DEF T!TransformationCompose
  <2>2. \/ clips' = clips /\ refused' = TRUE
        \/ ~r.fails /\ clips' = r.clips /\ refused' = refused
    BY <1>1, Zenon DEF T!TransformationCompose
  <2>3. ~r.fails => Len(r.clips) = Len(clips)
    <3>1. CASE todo[1].name = "AFFINE"
      <4>1. r = T!Affine(clips, current, todo[1])
        BY <3>1 DEF T!TransformationRegistry
      <4>2. Len(clips) \in Nat
        BY DEF ClipsTyped
      <4>. HIDE DEF r
      <4>. QED
        BY <4>1, <4>2, AffineKeepsNumber, Zenon
    <3>2. CASE todo[1].name # "AFFINE"
      BY <3>2, OthersLeaveObjects, Zenon
    <3>. QED
      BY <3>1, <3>2
  <2>. HIDE DEF r
  <2>. QED
    BY <2>1, <2>2, <2>3, Zenon DEF ClipsTyped
<1>2. CASE T!TransformationAggregate
  BY <1>2, Zenon DEF T!TransformationAggregate, ClipsTyped
<1>3. CASE UNCHANGED aggregation
  BY <1>3, Zenon DEF aggregation, ClipsTyped
<1>. QED
  BY <1>1, <1>2, <1>3, Zenon DEF T!Next

\* The request and its answer are of their types.
LEMMA AggregationTypes == PartsSpec => [](part = "transformations" => T!TypeOK)
<1>. DEFINE Old == part = "transformations" => PipelinesInv
            Inv == part = "transformations" => ClipsTyped
<1>1. PartsInit => Inv
  <2>. SUFFICES ASSUME PartsInit, part = "transformations"
                PROVE  ClipsTyped
    OBVIOUS
  <2>1. given \in Inputs /\ clips = given /\ refused = FALSE
    BY Zenon DEF PartsInit, T!Init
  <2>2. Len(given) \in Nat
    BY <2>1, TransformationsAssumption DEF T!ConstantsOK
  <2>. QED
    BY <2>1, <2>2, Zenon DEF ClipsTyped
<1>2. Inv /\ [PartsNext]_PartsVars => Inv'
  <2>1. part = "transformations" /\ [PartsNext]_PartsVars => [T!Next]_aggregation
    BY Zenon DEF PartsNext, PartsVars
  <2>. QED
    BY <2>1, PartKept, ClipsKept
<1>3. Old /\ Inv => (part = "transformations" => T!TypeOK)
  BY Zenon DEF PipelinesInv, ClipsTyped, T!TypeOK
<1>. QED
  BY <1>1, <1>2, <1>3, PipelinesLast, PTL DEF PartsSpec

-----------------------------------------------------------------------------
\* One part runs, and it stays the one.
LEMMA OneOfTheParts == PartsSpec => [](part \in Parts)
<1>. DEFINE Inv == part \in Parts
<1>1. PartsInit => Inv
  BY Zenon DEF PartsInit
<1>2. Inv /\ [PartsNext]_PartsVars => Inv'
  BY PartKept
<1>. QED
  BY <1>1, <1>2, PTL DEF PartsSpec

\* Whatever part runs, what it keeps is of the types it declares: documents, settings,
\* requests on their way, caches and counts (the collections of the database and the
\* state of the handlers).
THEOREM PartsAreTyped == PartsSpec => []PartsTypeOK
<1>. DEFINE AccessTyped ==
               /\ part = "accounts" => U!TypeOK
               /\ part = "authenticators" => W!TypeOK
               /\ part = "sessions" => S!TypeOK
               /\ part = "enrolments" => B!TypeOK
            DataTyped ==
               /\ part = "transformations" => T!TypeOK
               /\ part = "answers" => A!TypeOK
               /\ part = "files" => F!TypeOK
               /\ part = "webdav" => D!TypeOK
            ForwardsTyped ==
               /\ part = "relays" => R!TypeOK
               /\ part = "proxies" => P!TypeOK
               /\ part = "leases" => L!TypeOK
            LogTyped ==
               /\ part = "throttler" => G!TypeOK
               /\ part = "summaries" => Y!TypeOK
<1>1. part \in Parts /\ AccessTyped /\ DataTyped /\ ForwardsTyped /\ LogTyped => PartsTypeOK
  <2>. SUFFICES ASSUME part \in Parts, AccessTyped, DataTyped, ForwardsTyped, LogTyped
                PROVE  PartsTypeOK
    OBVIOUS
  <2>1. part = "accounts" => PartsTypeOK
    BY DEF PartsTypeOK
  <2>2. part = "authenticators" => PartsTypeOK
    BY DEF PartsTypeOK
  <2>3. part = "sessions" => PartsTypeOK
    BY DEF PartsTypeOK
  <2>4. part = "enrolments" => PartsTypeOK
    BY DEF PartsTypeOK
  <2>5. part = "transformations" => PartsTypeOK
    BY DEF PartsTypeOK
  <2>6. part = "answers" => PartsTypeOK
    BY DEF PartsTypeOK
  <2>7. part = "files" => PartsTypeOK
    BY DEF PartsTypeOK
  <2>8. part = "webdav" => PartsTypeOK
    BY DEF PartsTypeOK
  <2>9. part = "relays" => PartsTypeOK
    BY DEF PartsTypeOK
  <2>10. part = "proxies" => PartsTypeOK
    BY DEF PartsTypeOK
  <2>11. part = "leases" => PartsTypeOK
    BY DEF PartsTypeOK
  <2>12. part = "throttler" => PartsTypeOK
    BY DEF PartsTypeOK
  <2>13. part = "summaries" => PartsTypeOK
    BY DEF PartsTypeOK
  <2>. QED
    BY <2>1, <2>2, <2>3, <2>4, <2>5, <2>6, <2>7, <2>8, <2>9, <2>10, <2>11, <2>12, <2>13
       DEF Parts
<1>2. PartsSpec => []AccessTyped
  BY AccountTypes, CeremonyTypes, CallTypes, EnrolmentTypes, PTL
<1>3. PartsSpec => []DataTyped
  BY AggregationTypes, AnsweringTypes, FileTypes, DavTypes, PTL
<1>4. PartsSpec => []ForwardsTyped
  BY RelayTypes, ProxyTypes, LeaseTypes, PTL
<1>5. PartsSpec => []LogTyped
  BY ThrottlerTypes, SummaryTypes, PTL
<1>. HIDE DEF AccessTyped, DataTyped, ForwardsTyped, LogTyped
<1>. QED
  BY <1>1, <1>2, <1>3, <1>4, <1>5, OneOfTheParts, PTL
=============================================================================
