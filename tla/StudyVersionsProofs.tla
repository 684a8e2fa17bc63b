------------------------ MODULE StudyVersionsProofs ------------------------
(***************************************************************************)
(* Theorems of StudyVersions, for all sets of managers, writers, readers,  *)
(* fields and subjects and for all bounds.                                 *)
(***************************************************************************)
EXTENDS StudyVersions, SequenceTheorems, TLAPS

-----------------------------------------------------------------------------
(* Type correctness.                                                       *)

LEMMA IdleTypes ==
    /\ IdleMgr \in MgrState /\ IdleMgr.pc = "idle" /\ IdleMgr.ver = 0
    /\ IdleWrt \in WrtState
    /\ IdleRdr \in RdrState
<1>1. NoName \in Names /\ NoField \in Fields /\ NoSubject \in Subjects
  BY InputsAssumption DEF NoName, NoField, NoSubject
<1>. QED
  BY <1>1 DEF IdleMgr, IdleWrt, IdleRdr, MgrState, WrtState, RdrState, Creating, Null, Versions

LEMMA InitType == Init => TypeOK
<1>. SUFFICES ASSUME Init PROVE TypeOK
  OBVIOUS
<1>1. study \in StudyDoc
  BY DEF Init, StudyDoc
<1>. QED
  BY <1>1, IdleTypes DEF Init, TypeOK

LEMMA EntryType ==
    ASSUME TypeOK
    PROVE  /\ study.versions \in Seq(VersionEntry)
           /\ study.current \in Int
           /\ \A i \in 1..Len(study.versions) : study.versions[i].id \in Nat
           /\ Listed \subseteq Nat
<1>1. study.versions \in Seq(VersionEntry) /\ study.current \in Int
  BY DEF TypeOK, StudyDoc
<1>2. \A i \in 1..Len(study.versions) : study.versions[i] \in VersionEntry
  BY <1>1
<1>3. \A i \in 1..Len(study.versions) : study.versions[i].id \in Nat
  BY <1>2 DEF VersionEntry
<1>. QED
  BY <1>1, <1>3 DEF Listed

LEMMA StampType ==
    ASSUME NEW v \in Nat
    PROVE  /\ \A docs \in SUBSET DataDoc : Stamp(docs, v) \subseteq DataDoc
           /\ \A docs \in SUBSET FieldDoc : Stamp(docs, v) \subseteq FieldDoc
  BY DEF Stamp, DataDoc, FieldDoc, Versions

LEMMA StudyType ==
    ASSUME NEW s \in StudyDoc
    PROVE  /\ s.current \in Int /\ s.versions \in Seq(VersionEntry)
           /\ \A c \in Int : [s EXCEPT !.current = c] \in StudyDoc
           /\ \A c \in Int, vs \in Seq(VersionEntry) :
                 [s EXCEPT !.versions = vs, !.current = c] \in StudyDoc
  BY DEF StudyDoc

LEMMA MgrStepType ==
    ASSUME TypeOK, NEW m \in Managers, MgrStep(m)
    PROVE  TypeOK'
<1>. USE DEF TypeOK
<1>0. mgr[m] \in MgrState /\ mgr[m].ver \in Nat /\ mgr[m].todo \subseteq DataDoc
  BY DEF MgrState, Versions
<1>1. CASE StampData(m)
  <2>1. data' \subseteq DataDoc
    BY <1>0, <1>1, StampType DEF StampData
  <2>2. mgr' \in [Managers -> MgrState]
    BY <1>1, <1>0 DEF StampData, MgrState, Creating
  <2>. QED
    BY <1>1, <2>1, <2>2 DEF StampData
<1>2. CASE StampFields(m)
  <2>1. fields' \subseteq FieldDoc
    BY <1>0, <1>2, StampType DEF StampFields
  <2>2. mgr' \in [Managers -> MgrState]
    BY <1>2, <1>0 DEF StampFields, MgrState, Creating
  <2>. QED
    BY <1>2, <2>1, <2>2 DEF StampFields
<1>3. CASE OutdateCache(m)
  <2>1. cache' \subseteq CacheEntry
    BY <1>3 DEF OutdateCache, CacheEntry
  <2>2. mgr' \in [Managers -> MgrState]
    BY <1>3, <1>0 DEF OutdateCache, MgrState, Creating
  <2>. QED
    BY <1>3, <2>1, <2>2 DEF OutdateCache
<1>4. CASE CopyBatch(m)
  <2>1. cold' \subseteq ColdDoc
    BY <1>4, <1>0 DEF CopyBatch, ColdCopy, ColdDoc, DataDoc, Versions
  <2>2. mgr' \in [Managers -> MgrState]
    BY <1>4, <1>0 DEF CopyBatch, MgrState, Creating
  <2>. QED
    BY <1>4, <2>1, <2>2 DEF CopyBatch
<1>5. CASE CopyDone(m)
  <2>1. mgr' \in [Managers -> MgrState]
    BY <1>5, <1>0 DEF CopyDone, MgrState, Creating
  <2>. QED
    BY <1>5, <2>1 DEF CopyDone
<1>6. CASE PublishVersion(m)
  <2>0. [id |-> mgr[m].ver, name |-> mgr[m].name] \in VersionEntry
    BY <1>0 DEF MgrState, VersionEntry
  <2>1. Append(study.versions, [id |-> mgr[m].ver, name |-> mgr[m].name]) \in Seq(VersionEntry)
    BY <2>0, EntryType
  <2>2. study' = [study EXCEPT
                    !.versions = Append(study.versions, [id |-> mgr[m].ver, name |-> mgr[m].name]),
                    !.current = study.current + 1]
    BY <1>6 DEF PublishVersion
  <2>3. study \in StudyDoc /\ study.current + 1 \in Int
    BY EntryType
  <2>4. study' \in StudyDoc
    BY <2>1, <2>2, <2>3, StudyType
  <2>. QED
    BY <1>6, <2>4, IdleTypes DEF PublishVersion
<1>7. CASE SetCurrentWrite(m)
  <2>1. study \in StudyDoc /\ mgr[m].index \in Int
    BY <1>0 DEF MgrState
  <2>2. study' = [study EXCEPT !.current = mgr[m].index]
    BY <1>7 DEF SetCurrentWrite
  <2>3. study' \in StudyDoc
    BY <2>1, <2>2, StudyType
  <2>. QED
    BY <1>7, <2>3, IdleTypes DEF SetCurrentWrite
<1>8. CASE DeleteStudyFields(m)
  <2>1. fields' \subseteq FieldDoc
    BY <1>8 DEF DeleteStudyFields, Erase, FieldDoc
  <2>2. mgr' \in [Managers -> MgrState]
    BY <1>8, <1>0 DEF DeleteStudyFields, MgrState, Creating
  <2>. QED
    BY <1>8, <2>1, <2>2 DEF DeleteStudyFields
<1>9. CASE DeleteStudyData(m)
  <2>1. data' \subseteq DataDoc
    BY <1>9 DEF DeleteStudyData, Erase, DataDoc
  <2>. QED
    BY <1>9, <2>1, IdleTypes DEF DeleteStudyData
<1>. QED
  BY <1>1, <1>2, <1>3, <1>4, <1>5, <1>6, <1>7, <1>8, <1>9 DEF MgrStep

LEMMA MgrRequestType ==
    ASSUME TypeOK, NEW m \in Managers, MgrRequest(m)
    PROVE  TypeOK'
<1>. USE DEF TypeOK
<1>0. mgr[m] \in MgrState /\ mgr[m].ver \in Nat
  BY DEF MgrState, Versions
<1>1. CASE \E name \in Names, sync \in BOOLEAN : CreateDataVersion(m, name, sync)
  <2>. PICK name \in Names, sync \in BOOLEAN : CreateDataVersion(m, name, sync)
    BY <1>1
  <2>1. [IdleMgr EXCEPT !.pc = "stampData", !.ver = nextVer, !.name = name, !.sync = sync]
            \in MgrState
    BY IdleTypes DEF MgrState, Creating, Versions
  <2>. QED
    BY <2>1 DEF CreateDataVersion
<1>2. CASE \E i \in 1..Len(study.versions) : SetCurrentRead(m, i)
  <2>. PICK i \in 1..Len(study.versions) : SetCurrentRead(m, i)
    BY <1>2
  <2>1. i - 1 \in Nat
    BY EntryType
  <2>2. mgr' \in [Managers -> MgrState]
    BY <1>0, <2>1 DEF SetCurrentRead, MgrState, Creating
  <2>. QED
    BY <2>2 DEF SetCurrentRead
<1>3. CASE DeleteStudy(m)
  <2>1. study' \in StudyDoc
    BY <1>3 DEF DeleteStudy, StudyDoc
  <2>2. mgr' \in [Managers -> MgrState]
    BY <1>3, <1>0 DEF DeleteStudy, MgrState, Creating
  <2>. QED
    BY <1>3, <2>1, <2>2 DEF DeleteStudy
<1>4. CASE FailVersion(m)
  BY <1>4, <1>0, IdleTypes DEF FailVersion
<1>. QED
  BY <1>1, <1>2, <1>3, <1>4 DEF MgrRequest

LEMMA CreateFieldType ==
    ASSUME TypeOK, NEW f \in Fields, CreateField(f)
    PROVE  TypeOK'
<1>1. NewField(f, FALSE) \in FieldDoc
  BY DEF TypeOK, NewField, FieldDoc, Null, Versions
<1>2. clock + 1 \in Nat \ {0}
  BY DEF TypeOK
<1>. QED
  BY <1>1, <1>2 DEF TypeOK, CreateField

LEMMA WrtType ==
    ASSUME TypeOK, NEW w \in Writers, WrtNext(w)
    PROVE  TypeOK'
<1>. USE DEF TypeOK
<1>0. wrt[w] \in WrtState
  OBVIOUS
<1>1. CASE \E f \in Fields : EditField(w, f) \/ DeleteField(w, f)
  <2>. PICK f \in Fields : EditField(w, f) \/ DeleteField(w, f)
    BY <1>1
  <2>1. /\ [IdleWrt EXCEPT !.pc = "field", !.field = f] \in WrtState
        /\ [IdleWrt EXCEPT !.pc = "field", !.field = f, !.deleted = TRUE] \in WrtState
    BY IdleTypes DEF WrtState
  <2>. QED
    BY <2>1 DEF EditField, DeleteField
<1>2. CASE \E f \in Fields, s \in Subjects : UploadData(w, f, s) \/ DeleteData(w, f, s)
  <2>. PICK f \in Fields, s \in Subjects : UploadData(w, f, s) \/ DeleteData(w, f, s)
    BY <1>2
  <2>1. /\ [pc |-> "upload", field |-> f, subject |-> s, deleted |-> FALSE, time |-> clock]
                \in WrtState
        /\ [IdleWrt EXCEPT !.pc = "erase", !.field = f, !.subject = s, !.deleted = TRUE]
                \in WrtState
    BY IdleTypes DEF WrtState
  <2>2. CASE UploadData(w, f, s)
    BY <2>1, <2>2 DEF UploadData
  <2>3. CASE DeleteData(w, f, s)
    BY <2>1, <2>3 DEF DeleteData
  <2>. QED
    BY <2>2, <2>3
<1>3. CASE InsertField(w)
  <2>1. NewField(wrt[w].field, wrt[w].deleted) \in FieldDoc
    BY <1>0 DEF NewField, FieldDoc, Null, Versions, WrtState
  <2>. QED
    BY <1>3, <2>1, IdleTypes DEF InsertField
<1>4. CASE InsertClip(w)
  <2>1. [field |-> wrt[w].field, subject |-> wrt[w].subject, marker |-> FALSE,
         deleted |-> FALSE, time |-> wrt[w].time, ver |-> Null] \in DataDoc
    BY <1>0 DEF DataDoc, Null, Versions, WrtState
  <2>. QED
    BY <1>4, <2>1, IdleTypes DEF InsertClip
<1>5. CASE InsertMarker(w)
  <2>1. [field |-> wrt[w].field, subject |-> wrt[w].subject, marker |-> TRUE,
         deleted |-> TRUE, time |-> clock, ver |-> Null] \in DataDoc
    BY <1>0 DEF DataDoc, Null, Versions, WrtState
  <2>2. clock + 1 \in Nat \ {0}
    OBVIOUS
  <2>. QED
    BY <1>5, <2>1, <2>2, IdleTypes DEF InsertMarker
<1>. QED
  BY <1>1, <1>2, <1>3, <1>4, <1>5 DEF WrtNext

LEMMA RdrType ==
    ASSUME TypeOK, NEW r \in Readers, RdrNext(r)
    PROVE  TypeOK'
<1>. USE DEF TypeOK
<1>0. rdr[r] \in RdrState
  OBVIOUS
<1>1. CASE ReadStudy(r)
  <2>1. DefaultVersions \subseteq Versions
    BY EntryType DEF DefaultVersions, Versions, Null
  <2>2. [IdleRdr EXCEPT !.pc = "read", !.vers = DefaultVersions] \in RdrState
    BY <2>1, IdleTypes DEF RdrState
  <2>. QED
    BY <1>1, <2>2 DEF ReadStudy
<1>2. CASE ReadData(r)
  <2>1. {d.time : d \in data} \subseteq Nat
        /\ {d.time : d \in {e \in data : e.ver \in rdr[r].vers}} \subseteq Nat
    BY DEF DataDoc
  <2>2. rdr'[r] \in RdrState
    BY <1>2, <2>1 DEF ReadData, RdrState
  <2>. QED
    BY <1>2, <2>2 DEF ReadData
<1>3. CASE FillCache(r)
  <2>1. [seen |-> rdr[r].seen, had |-> rdr[r].had, born |-> nextVer, inuse |-> TRUE]
            \in CacheEntry
    BY <1>0 DEF CacheEntry, RdrState
  <2>. QED
    BY <1>3, <2>1, IdleTypes DEF FillCache
<1>. QED
  BY <1>1, <1>2, <1>3 DEF RdrNext

LEMMA NextType == TypeOK /\ [Next]_vars => TypeOK'
<1>. SUFFICES ASSUME TypeOK, [Next]_vars PROVE TypeOK'
  OBVIOUS
<1>1. CASE UNCHANGED vars
  BY <1>1 DEF TypeOK, vars
<1>2. CASE Next
  BY <1>2, MgrStepType, MgrRequestType, WrtType, RdrType, CreateFieldType DEF Next
<1>. QED
  BY <1>1, <1>2

\* Every reachable state holds documents and requests of their types: the model's
\* handlers (studyCore.ts, dataCore.ts) store nothing of another shape.
THEOREM TypeCorrect == Spec => []TypeOK
  BY InitType, NextType, PTL DEF Spec

-----------------------------------------------------------------------------
(* What the operations do to the collections.                              *)

StampOf(d, v) == IF d.ver = Null THEN [d EXCEPT !.ver = v] ELSE d

LEMMA StampOfData ==
    ASSUME NEW d \in DataDoc, NEW v \in Nat
    PROVE  /\ StampOf(d, v).time = d.time /\ StampOf(d, v).field = d.field
           /\ StampOf(d, v).marker = d.marker
           /\ StampOf(d, v).ver = IF d.ver = Null THEN v ELSE d.ver
  BY DEF StampOf, DataDoc

LEMMA StampOfField ==
    ASSUME NEW d \in FieldDoc, NEW v \in Nat
    PROVE  /\ StampOf(d, v).time = d.time /\ StampOf(d, v).field = d.field
           /\ StampOf(d, v).ver = IF d.ver = Null THEN v ELSE d.ver
  BY DEF StampOf, FieldDoc

LEMMA StampSet ==
    ASSUME NEW docs, NEW v
    PROVE  Stamp(docs, v) = {StampOf(d, v) : d \in docs}
  BY DEF Stamp, StampOf

EraseOf(d) == [d EXCEPT !.deleted = TRUE]

LEMMA EraseOfData ==
    ASSUME NEW d \in DataDoc
    PROVE  /\ EraseOf(d).time = d.time /\ EraseOf(d).field = d.field
           /\ EraseOf(d).marker = d.marker /\ EraseOf(d).ver = d.ver
  BY DEF EraseOf, DataDoc

LEMMA EraseOfField ==
    ASSUME NEW d \in FieldDoc
    PROVE  /\ EraseOf(d).time = d.time /\ EraseOf(d).field = d.field
           /\ EraseOf(d).ver = d.ver
  BY DEF EraseOf, FieldDoc

LEMMA EraseSet ==
    ASSUME NEW docs
    PROVE  Erase(docs) = {EraseOf(d) : d \in docs}
  BY DEF Erase, EraseOf

\* A writer or a reader inserts at most unversioned documents.
Write == \/ \E w \in Writers : WrtNext(w)
         \/ \E r \in Readers : RdrNext(r)
         \/ \E f \in Fields : CreateField(f)

LEMMA WriteEffect ==
    ASSUME TypeOK, Write
    PROVE  /\ UNCHANGED <<study, mgr, nextVer, failed>>
           /\ data \subseteq data' /\ fields \subseteq fields'
           /\ \A d \in data' : d \notin data => d.ver = Null
           /\ \A d \in fields' : d \notin fields => d.ver = Null
<1>. DEFINE Goal == /\ UNCHANGED <<study, mgr, nextVer, failed>>
                    /\ data \subseteq data' /\ fields \subseteq fields'
                    /\ \A d \in data' : d \notin data => d.ver = Null
                    /\ \A d \in fields' : d \notin fields => d.ver = Null
<1>1. ASSUME NEW w \in Writers, NEW f \in Fields, EditField(w, f) \/ DeleteField(w, f)
      PROVE  Goal
  BY <1>1 DEF EditField, DeleteField
<1>2. ASSUME NEW w \in Writers, NEW f \in Fields, NEW s \in Subjects,
             UploadData(w, f, s) \/ DeleteData(w, f, s)
      PROVE  Goal
  BY <1>2 DEF UploadData, DeleteData
<1>3. ASSUME NEW w \in Writers, InsertField(w) PROVE Goal
  BY <1>3 DEF InsertField, NewField
<1>4. ASSUME NEW w \in Writers, InsertClip(w) PROVE Goal
  BY <1>4 DEF InsertClip
<1>5. ASSUME NEW w \in Writers, InsertMarker(w) PROVE Goal
  BY <1>5 DEF InsertMarker
<1>6. ASSUME NEW r \in Readers, RdrNext(r) PROVE Goal
  BY <1>6 DEF RdrNext, ReadStudy, ReadData, FillCache
<1>7. ASSUME NEW f \in Fields, CreateField(f) PROVE Goal
  BY <1>7 DEF CreateField, NewField
<1>. QED
  BY <1>1, <1>2, <1>3, <1>4, <1>5, <1>6, <1>7 DEF Write, WrtNext

LEMMA PublishEffect ==
    ASSUME TypeOK, NEW m \in Managers, PublishVersion(m)
    PROVE  /\ Listed' = Listed \cup {mgr[m].ver}
           /\ LogIds' = Append(LogIds, mgr[m].ver)
           /\ Len(study'.versions) = Len(study.versions) + 1
           /\ study'.current = study.current + 1
<1>. DEFINE e == [id |-> mgr[m].ver, name |-> mgr[m].name]
<1>1. study.versions \in Seq(VersionEntry) /\ study.current \in Int
  BY EntryType
<1>2. e \in VersionEntry
  BY DEF TypeOK, MgrState, VersionEntry, Versions
<1>3. study' = [study EXCEPT !.versions = Append(study.versions, e),
                              !.current = study.current + 1]
  BY DEF PublishVersion
<1>4. study'.versions = Append(study.versions, e) /\ study'.current = study.current + 1
  BY <1>3 DEF TypeOK, StudyDoc
<1>5. Len(study'.versions) = Len(study.versions) + 1
  BY <1>1, <1>2, <1>4
<1>6. \A i \in 1..Len(study.versions) : study'.versions[i] = study.versions[i]
  BY <1>1, <1>2, <1>4
<1>7. study'.versions[Len(study.versions) + 1].id = mgr[m].ver
  BY <1>1, <1>2, <1>4
<1>8. 1..Len(study'.versions) = 1..Len(study.versions) \cup {Len(study.versions) + 1}
  BY <1>1, <1>5
<1>9. Listed' = Listed \cup {mgr[m].ver}
  BY <1>6, <1>7, <1>8 DEF Listed
<1>10. LogIds' = Append(LogIds, mgr[m].ver)
  <2>0. TypeOK' /\ mgr[m].ver \in Nat
    BY NextType DEF TypeOK, MgrState, Versions, Next, MgrStep
  <2>1. LogIds \in Seq(Nat) /\ Len(LogIds) = Len(study.versions)
        /\ \A i \in 1..Len(LogIds) : LogIds[i] = study.versions[i].id
    BY <1>1, EntryType, IsASeq DEF LogIds
  <2>2. \A i \in 1..Len(study'.versions) : study'.versions[i].id \in Nat
    <3>1. \A i \in 1..Len(study.versions) : study'.versions[i].id \in Nat
      BY <1>6, EntryType
    <3>2. study'.versions[Len(study.versions) + 1].id \in Nat
      BY <2>0, <1>7
    <3>. QED
      BY <3>1, <3>2, <1>8
  <2>3. LogIds' \in Seq(Nat) /\ Len(LogIds') = Len(LogIds) + 1
        /\ \A i \in 1..Len(LogIds') : LogIds'[i] = study'.versions[i].id
    BY <1>1, <1>5, <2>1, <2>2, IsASeq DEF LogIds
  <2>4. Append(LogIds, mgr[m].ver) \in Seq(Nat)
        /\ Len(Append(LogIds, mgr[m].ver)) = Len(LogIds) + 1
        /\ \A i \in 1..Len(LogIds) : Append(LogIds, mgr[m].ver)[i] = LogIds[i]
        /\ Append(LogIds, mgr[m].ver)[Len(LogIds) + 1] = mgr[m].ver
    BY <2>0, <2>1, AppendProperties
  <2>5. ASSUME NEW i \in 1..Len(LogIds')
        PROVE  LogIds'[i] = Append(LogIds, mgr[m].ver)[i]
    <3>1. LogIds'[i] = study'.versions[i].id
      BY <2>3
    <3>2. Len(LogIds) \in Nat
      BY <2>1, LenProperties
    <3>3. i \in 1..Len(LogIds) \/ i = Len(LogIds) + 1
      BY <2>3, <3>2
    <3>4. CASE i \in 1..Len(LogIds)
      <4>1. i \in 1..Len(study.versions)
        BY <2>1, <3>4
      <4>2. study'.versions[i] = study.versions[i]
        BY <1>6, <4>1
      <4>3. LogIds[i] = study.versions[i].id /\ Append(LogIds, mgr[m].ver)[i] = LogIds[i]
        BY <2>1, <2>4, <3>4
      <4>. QED
        BY <3>1, <4>2, <4>3
    <3>5. CASE i = Len(LogIds) + 1
      <4>1. i = Len(study.versions) + 1
        BY <2>1, <3>5
      <4>2. study'.versions[i].id = mgr[m].ver
        BY <1>7, <4>1
      <4>3. Append(LogIds, mgr[m].ver)[i] = mgr[m].ver
        BY <2>4, <3>5
      <4>. QED
        BY <3>1, <4>2, <4>3
    <3>. QED
      BY <3>3, <3>4, <3>5
  <2>. QED
    BY <2>3, <2>4, <2>5, SeqEqual
<1>. QED
  BY <1>4, <1>5, <1>9, <1>10

-----------------------------------------------------------------------------
(* Versions: ids are handed out once, and each is listed, in flight, given  *)
(* up, or gone with no document stamped.                                    *)

VersionsInv ==
    /\ \A v \in Listed \cup failed : 0 < v /\ v < nextVer
    /\ Listed \cap failed = {}
    /\ \A m \in Managers : mgr[m].pc \in Creating =>
          /\ 0 < mgr[m].ver /\ mgr[m].ver < nextVer
          /\ mgr[m].ver \notin Listed \cup failed
    /\ \A m, n \in Managers : mgr[m].pc \in Creating /\ mgr[n].pc \in Creating
                             /\ mgr[m].ver = mgr[n].ver => m = n

\* A selected index stays within the list, which only grows.
IndexInv ==
    \A m \in Managers : mgr[m].pc = "setCurrent" => mgr[m].index < Len(study.versions)

\* A clip, and a clip about to be inserted, has a document of its field.
FieldSeen ==
    /\ \A d \in data : ~d.marker => \E f \in fields : f.field = d.field
    /\ \A w \in Writers : wrt[w].pc = "upload" => \E f \in fields : f.field = wrt[w].field

\* Creation times name documents: the clock has passed all of them, clips and
\* fields share none, and neither do two pending clips.
Pending == {w \in Writers : wrt[w].pc = "upload"}

TimesInv ==
    /\ \A d \in data \cup fields : d.time < clock
    /\ \A w \in Pending : wrt[w].time < clock
    /\ \A d \in data, f \in fields : d.time # f.time
    /\ \A d, e \in data : d.time = e.time => d.ver = e.ver
    /\ \A f, g \in fields : f.time = g.time => f.ver = g.ver
    /\ \A w \in Pending, d \in data \cup fields : d.time # wrt[w].time
    /\ \A w, x \in Pending : wrt[w].time = wrt[x].time => w = x

Others(m) == \A n \in Managers : n # m => mgr'[n] = mgr[n]

\* The creation of a version between its name check and its publication.
Progress(m) == \/ StampData(m) \/ StampFields(m) \/ OutdateCache(m)
               \/ CopyBatch(m) \/ CopyDone(m)

\* The operations that touch no version.
Aside(m) == \/ \E i \in 1..Len(study.versions) : SetCurrentRead(m, i)
            \/ SetCurrentWrite(m) \/ DeleteStudy(m)
            \/ DeleteStudyFields(m) \/ DeleteStudyData(m)

LEMMA Steps ==
    ASSUME Next
    PROVE  \/ Write
           \/ \E m \in Managers :
                 \/ Progress(m) \/ Aside(m) \/ PublishVersion(m) \/ FailVersion(m)
                 \/ \E name \in Names, sync \in BOOLEAN : CreateDataVersion(m, name, sync)
  BY DEF Next, Write, MgrStep, MgrRequest, Progress, Aside

LEMMA ProgressEffect ==
    ASSUME TypeOK, NEW m \in Managers, Progress(m)
    PROVE  /\ UNCHANGED <<study, nextVer, failed, wrt, clock>>
           /\ mgr[m].pc \in Creating /\ mgr'[m].pc \in Creating
           /\ mgr'[m].ver = mgr[m].ver /\ Others(m)
<1>1. mgr \in [Managers -> MgrState] /\ mgr[m] \in MgrState
  BY DEF TypeOK
<1>2. CASE StampData(m)
  BY <1>1, <1>2 DEF StampData, MgrState, Creating, Others
<1>3. CASE StampFields(m)
  BY <1>1, <1>3 DEF StampFields, MgrState, Creating, Others
<1>4. CASE OutdateCache(m)
  BY <1>1, <1>4 DEF OutdateCache, MgrState, Creating, Others
<1>5. CASE CopyBatch(m)
  BY <1>1, <1>5 DEF CopyBatch, MgrState, Creating, Others
<1>6. CASE CopyDone(m)
  BY <1>1, <1>6 DEF CopyDone, MgrState, Creating, Others
<1>. QED
  BY <1>2, <1>3, <1>4, <1>5, <1>6 DEF Progress

LEMMA AsideEffect ==
    ASSUME TypeOK, NEW m \in Managers, Aside(m)
    PROVE  /\ UNCHANGED <<nextVer, failed, wrt, clock>>
           /\ study'.versions = study.versions
           /\ mgr[m].pc \notin Creating /\ mgr'[m].pc \notin Creating /\ Others(m)
<1>1. mgr \in [Managers -> MgrState] /\ mgr[m] \in MgrState /\ study \in StudyDoc
  BY DEF TypeOK
<1>2. CASE \E i \in 1..Len(study.versions) : SetCurrentRead(m, i)
  BY <1>1, <1>2 DEF SetCurrentRead, MgrState, Creating, Others
<1>3. CASE SetCurrentWrite(m)
  BY <1>1, <1>3, IdleTypes DEF SetCurrentWrite, MgrState, StudyDoc, Creating, Others
<1>4. CASE DeleteStudy(m)
  BY <1>1, <1>4 DEF DeleteStudy, MgrState, StudyDoc, Creating, Others
<1>5. CASE DeleteStudyFields(m)
  BY <1>1, <1>5 DEF DeleteStudyFields, MgrState, Creating, Others
<1>6. CASE DeleteStudyData(m)
  BY <1>1, <1>6, IdleTypes DEF DeleteStudyData, MgrState, Creating, Others
<1>. QED
  BY <1>2, <1>3, <1>4, <1>5, <1>6 DEF Aside

LEMMA VersionsInvInit == Init => VersionsInv
  BY IdleTypes DEF Init, VersionsInv, Listed, Creating, IdleMgr

LEMMA VersionsInvNext == TypeOK /\ VersionsInv /\ [Next]_vars => VersionsInv'
<1>. SUFFICES ASSUME TypeOK, VersionsInv, [Next]_vars PROVE VersionsInv'
  OBVIOUS
<1>0. nextVer \in Nat /\ Listed \subseteq Nat /\ failed \subseteq Nat
  BY EntryType DEF TypeOK
<1>1. CASE UNCHANGED vars
  BY <1>1 DEF VersionsInv, Listed, vars
<1>2. CASE Write
  BY <1>2, WriteEffect DEF VersionsInv, Listed
<1>3. ASSUME NEW m \in Managers, Progress(m) PROVE VersionsInv'
  BY <1>3, ProgressEffect DEF VersionsInv, Listed, Others
<1>4. ASSUME NEW m \in Managers, Aside(m) PROVE VersionsInv'
  BY <1>4, AsideEffect DEF VersionsInv, Listed, Others
<1>5. ASSUME NEW m \in Managers, PublishVersion(m) PROVE VersionsInv'
  <2>1. /\ Listed' = Listed \cup {mgr[m].ver} /\ UNCHANGED <<failed, nextVer>>
        /\ mgr[m].pc = "publish" /\ mgr'[m].pc = "idle" /\ Others(m)
    BY <1>5, PublishEffect, IdleTypes DEF PublishVersion, TypeOK, Others
  <2>. QED
    BY <2>1 DEF VersionsInv, Others, Creating
<1>6. ASSUME NEW m \in Managers, FailVersion(m) PROVE VersionsInv'
  <2>1. /\ UNCHANGED <<study, nextVer>> /\ failed' = failed \cup {mgr[m].ver}
        /\ mgr[m].pc \in Creating /\ mgr'[m].pc = "idle" /\ Others(m)
    BY <1>6, IdleTypes DEF FailVersion, TypeOK, Others
  <2>. QED
    BY <2>1 DEF VersionsInv, Others, Listed, Creating
<1>7. ASSUME NEW m \in Managers, NEW name \in Names, NEW sync \in BOOLEAN,
             CreateDataVersion(m, name, sync)
      PROVE  VersionsInv'
  <2>1. /\ UNCHANGED <<study, failed>> /\ nextVer' = nextVer + 1
        /\ mgr'[m].pc = "stampData" /\ mgr'[m].ver = nextVer /\ Others(m)
    BY <1>7, IdleTypes DEF CreateDataVersion, TypeOK, MgrState, Others
  <2>2. Listed' = Listed /\ nextVer' = nextVer + 1 /\ failed' = failed /\ 0 < nextVer
    BY <2>1 DEF Listed, TypeOK
  <2>3. \A n \in Managers : mgr[n].pc \in Creating => mgr[n].ver \in Nat
    BY DEF TypeOK, MgrState, Versions
  <2>4. nextVer \notin Listed \cup failed
    BY <1>0 DEF VersionsInv
  <2>5. \A v \in Listed \cup failed : 0 < v /\ v < nextVer + 1
    BY <1>0 DEF VersionsInv
  <2>6. \A n \in Managers : n # m /\ mgr'[n].pc \in Creating =>
           /\ 0 < mgr'[n].ver /\ mgr'[n].ver < nextVer
           /\ mgr'[n].ver \notin Listed \cup failed /\ mgr'[n].ver \in Nat
    BY <2>1, <2>3 DEF VersionsInv, Others
  <2>7. \A n \in Managers : mgr'[n].pc \in Creating =>
           /\ 0 < mgr'[n].ver /\ mgr'[n].ver < nextVer + 1
           /\ mgr'[n].ver \notin Listed \cup failed
    BY <1>0, <2>1, <2>2, <2>4, <2>6
  <2>8. \A k, n \in Managers : mgr'[k].pc \in Creating /\ mgr'[n].pc \in Creating
                             /\ mgr'[k].ver = mgr'[n].ver => k = n
    BY <1>0, <2>1, <2>6 DEF VersionsInv, Others
  <2>. QED
    BY <2>2, <2>5, <2>7, <2>8 DEF VersionsInv
<1>. QED
  BY <1>1, <1>2, <1>3, <1>4, <1>5, <1>6, <1>7, Steps

-----------------------------------------------------------------------------
(* What the steps of a manager do to the documents.                        *)

\* Every document of the first set shows as one of the second.
Mirrors(docs, olds) == \A e \in docs : \E d \in olds :
    e.time = d.time /\ e.field = d.field /\ e.ver = d.ver

MirrorsClips(docs, olds) == \A e \in docs : \E d \in olds :
    e.time = d.time /\ e.field = d.field /\ e.ver = d.ver /\ e.marker = d.marker

LEMMA AsideDocs ==
    ASSUME TypeOK, NEW m \in Managers, Aside(m)
    PROVE  /\ MirrorsClips(data', data) /\ MirrorsClips(data, data')
           /\ Mirrors(fields', fields) /\ Mirrors(fields, fields')
<1>. DEFINE Goal == /\ MirrorsClips(data', data) /\ MirrorsClips(data, data')
                    /\ Mirrors(fields', fields) /\ Mirrors(fields, fields')
<1>1. data \in SUBSET DataDoc /\ fields \in SUBSET FieldDoc
  BY DEF TypeOK
<1>2. CASE UNCHANGED <<data, fields>>
  BY <1>2 DEF Mirrors, MirrorsClips
<1>3. CASE DeleteStudyFields(m)
  <2>1. fields' = {EraseOf(d) : d \in fields} /\ data' = data
    BY <1>3, EraseSet DEF DeleteStudyFields
  <2>. QED
    BY <1>1, <2>1, EraseOfField DEF Mirrors, MirrorsClips
<1>4. CASE DeleteStudyData(m)
  <2>1. data' = {EraseOf(d) : d \in data} /\ fields' = fields
    BY <1>4, EraseSet DEF DeleteStudyData
  <2>. QED
    BY <1>1, <2>1, EraseOfData DEF Mirrors, MirrorsClips
<1>. QED
  BY <1>2, <1>3, <1>4 DEF Aside, SetCurrentRead, SetCurrentWrite, DeleteStudy

LEMMA ProgressDocs ==
    ASSUME TypeOK, NEW m \in Managers, Progress(m)
    PROVE  \/ /\ mgr[m].pc = "stampData" /\ mgr'[m].pc = "stampFields"
              /\ data' = {StampOf(d, mgr[m].ver) : d \in data} /\ fields' = fields
           \/ /\ mgr[m].pc = "stampFields"
              /\ fields' = {StampOf(d, mgr[m].ver) : d \in fields} /\ data' = data
           \/ /\ mgr[m].pc \notin {"stampData", "stampFields"}
              /\ data' = data /\ fields' = fields
<1>1. mgr \in [Managers -> MgrState]
  BY DEF TypeOK
<1>2. CASE StampData(m)
  BY <1>1, <1>2, StampSet DEF StampData, MgrState
<1>3. CASE StampFields(m)
  BY <1>3, StampSet DEF StampFields
<1>4. CASE OutdateCache(m) \/ CopyBatch(m) \/ CopyDone(m)
  BY <1>4 DEF OutdateCache, CopyBatch, CopyDone
<1>. QED
  BY <1>2, <1>3, <1>4 DEF Progress

\* The other steps of a creation leave the documents alone.
LEMMA RestDocs ==
    ASSUME TypeOK, NEW m \in Managers,
           \/ PublishVersion(m) \/ FailVersion(m)
           \/ \E name \in Names, sync \in BOOLEAN : CreateDataVersion(m, name, sync)
    PROVE  UNCHANGED <<data, fields, wrt, clock>> /\ Others(m)
  BY DEF PublishVersion, FailVersion, CreateDataVersion, Others, TypeOK

-----------------------------------------------------------------------------
(* No stamped document is lost.                                            *)

\* A stamp gives way neither to another stamp nor to null.
LEMMA StampedStays ==
    ASSUME TypeOK, NEW m \in Managers, Progress(m), NEW e \in data' \cup fields'
    PROVE  \/ e.ver = mgr[m].ver
           \/ \E d \in data \cup fields : d.time = e.time /\ d.field = e.field /\ d.ver = e.ver
<1>1. data \in SUBSET DataDoc /\ fields \in SUBSET FieldDoc /\ mgr[m].ver \in Nat
  BY DEF TypeOK, MgrState, Versions
<1>. QED
  BY <1>1, ProgressDocs, StampOfData, StampOfField

LEMMA NoOrphanNext == TypeOK /\ NoOrphanVersion /\ [Next]_vars => NoOrphanVersion'
<1>. SUFFICES ASSUME TypeOK, NoOrphanVersion, [Next]_vars PROVE NoOrphanVersion'
  OBVIOUS
<1>1. CASE UNCHANGED vars
  BY <1>1 DEF NoOrphanVersion, InFlight, Listed, vars
<1>2. CASE Write
  BY <1>2, WriteEffect DEF NoOrphanVersion, InFlight, Listed
<1>3. ASSUME NEW m \in Managers, Progress(m) PROVE NoOrphanVersion'
  <2>1. Listed' = Listed /\ failed' = failed
    BY <1>3, ProgressEffect DEF Listed
  <2>2. \A v : InFlight(v) \/ v = mgr[m].ver => InFlight(v)'
    BY <1>3, ProgressEffect DEF InFlight, Others
  <2>3. \A e \in data' \cup fields' : e.ver # Null /\ e.ver # mgr[m].ver =>
           e.ver \in Listed \/ InFlight(e.ver) \/ e.ver \in failed
    BY <1>3, StampedStays DEF NoOrphanVersion
  <2>. QED
    BY <2>1, <2>2, <2>3 DEF NoOrphanVersion
<1>4. ASSUME NEW m \in Managers, Aside(m) PROVE NoOrphanVersion'
  <2>1. Listed' = Listed /\ failed' = failed
    BY <1>4, AsideEffect DEF Listed
  <2>2. \A v : InFlight(v) => InFlight(v)'
    BY <1>4, AsideEffect DEF InFlight, Others
  <2>. QED
    BY <1>4, <2>1, <2>2, AsideDocs DEF NoOrphanVersion, Mirrors, MirrorsClips
<1>5. ASSUME NEW m \in Managers, PublishVersion(m) PROVE NoOrphanVersion'
  <2>1. Listed' = Listed \cup {mgr[m].ver} /\ failed' = failed
    BY <1>5, PublishEffect DEF PublishVersion
  <2>2. \A v : InFlight(v) => InFlight(v)' \/ v = mgr[m].ver
    BY <1>5, RestDocs DEF InFlight, Others
  <2>. QED
    BY <1>5, <2>1, <2>2, RestDocs DEF NoOrphanVersion
<1>6. ASSUME NEW m \in Managers, FailVersion(m) PROVE NoOrphanVersion'
  <2>1. Listed' = Listed /\ failed' = failed \cup {mgr[m].ver}
    BY <1>6 DEF FailVersion, Listed
  <2>2. \A v : InFlight(v) => InFlight(v)' \/ v = mgr[m].ver
    BY <1>6, RestDocs DEF InFlight, Others
  <2>. QED
    BY <1>6, <2>1, <2>2, RestDocs DEF NoOrphanVersion
<1>7. ASSUME NEW m \in Managers, NEW name \in Names, NEW sync \in BOOLEAN,
             CreateDataVersion(m, name, sync)
      PROVE  NoOrphanVersion'
  <2>1. Listed' = Listed /\ failed' = failed /\ mgr[m].pc = "idle"
    BY <1>7 DEF CreateDataVersion, Listed
  <2>2. \A v : InFlight(v) => InFlight(v)'
    BY <1>7, <2>1, RestDocs DEF InFlight, Others, Creating
  <2>. QED
    BY <1>7, <2>1, <2>2, RestDocs DEF NoOrphanVersion
<1>. QED
  BY <1>1, <1>2, <1>3, <1>4, <1>5, <1>6, <1>7, Steps

\* A document that createDataVersion has stamped (studyCore.ts) is never lost: its
\* version is listed, or on its way, or was given up by a request that died.
THEOREM NoOrphanCorrect == Spec => []NoOrphanVersion
<1>1. Init => NoOrphanVersion
  BY DEF Init, NoOrphanVersion
<1>. QED
  BY <1>1, TypeCorrect, NoOrphanNext, PTL DEF Spec

-----------------------------------------------------------------------------
(* The current version is one of the list.                                 *)

CurrentInv == CurrentIsListed /\ IndexInv

LEMMA CurrentInvNext == TypeOK /\ CurrentInv /\ [Next]_vars => CurrentInv'
<1>. SUFFICES ASSUME TypeOK, CurrentInv, [Next]_vars PROVE CurrentInv'
  OBVIOUS
<1>. USE DEF CurrentInv, CurrentIsListed, IndexInv
<1>0. /\ study \in StudyDoc /\ mgr \in [Managers -> MgrState]
      /\ study.versions \in Seq(VersionEntry) /\ study.current \in Int
      /\ Len(study.versions) \in Nat
      /\ (Len(study.versions) = 0 <=> study.versions = <<>>)
  BY EntryType DEF TypeOK
<1>1. CASE UNCHANGED vars
  BY <1>1 DEF vars
<1>2. CASE Write
  BY <1>2, WriteEffect
<1>3. ASSUME NEW m \in Managers, Progress(m) PROVE CurrentInv'
  BY <1>3, ProgressEffect DEF Others, Creating
<1>4. ASSUME NEW m \in Managers, NEW i \in 1..Len(study.versions), SetCurrentRead(m, i)
      PROVE  CurrentInv'
  <2>1. study' = study /\ mgr'[m].index = i - 1 /\ \A n \in Managers : n # m => mgr'[n] = mgr[n]
    BY <1>0, <1>4 DEF SetCurrentRead, MgrState
  <2>. QED
    BY <1>0, <2>1
<1>5. ASSUME NEW m \in Managers, SetCurrentWrite(m) PROVE CurrentInv'
  <2>1. /\ study'.current = mgr[m].index /\ study'.versions = study.versions
        /\ mgr[m].pc = "setCurrent" /\ mgr[m].index \in Nat
        /\ mgr'[m].pc = "idle" /\ \A n \in Managers : n # m => mgr'[n] = mgr[n]
    BY <1>0, <1>5, IdleTypes DEF SetCurrentWrite, MgrState, StudyDoc
  <2>. QED
    BY <1>0, <2>1
<1>6. ASSUME NEW m \in Managers, DeleteStudy(m) PROVE CurrentInv'
  <2>1. /\ study'.current = study.current /\ study'.versions = study.versions
        /\ mgr'[m].pc = "delFields" /\ \A n \in Managers : n # m => mgr'[n] = mgr[n]
    BY <1>0, <1>6 DEF DeleteStudy, MgrState, StudyDoc
  <2>. QED
    BY <2>1
<1>7. ASSUME NEW m \in Managers, DeleteStudyFields(m) \/ DeleteStudyData(m) PROVE CurrentInv'
  <2>1. /\ study' = study
        /\ mgr'[m].pc \in {"delData", "idle"} /\ \A n \in Managers : n # m => mgr'[n] = mgr[n]
    BY <1>0, <1>7, IdleTypes DEF DeleteStudyFields, DeleteStudyData, MgrState
  <2>. QED
    BY <2>1
<1>8. ASSUME NEW m \in Managers, PublishVersion(m) PROVE CurrentInv'
  <2>1. /\ Len(study'.versions) = Len(study.versions) + 1 /\ study'.current = study.current + 1
        /\ mgr'[m].pc = "idle" /\ \A n \in Managers : n # m => mgr'[n] = mgr[n]
    BY <1>8, PublishEffect, IdleTypes DEF PublishVersion, TypeOK
  <2>2. study'.versions # <<>>
    BY <1>0, <2>1
  <2>3. study'.current \in 0..(Len(study'.versions) - 1)
    BY <1>0, <2>1
  <2>4. \A n \in Managers : mgr'[n].pc = "setCurrent" => mgr'[n].index < Len(study.versions)
    BY <2>1
  <2>5. \A n \in Managers : mgr'[n].pc = "setCurrent" => mgr'[n].index \in Nat
    BY <2>1 DEF TypeOK, MgrState
  <2>6. \A n \in Managers : mgr'[n].pc = "setCurrent" => mgr'[n].index < Len(study'.versions)
    BY <1>0, <2>1, <2>4, <2>5
  <2>. QED
    BY <2>2, <2>3, <2>6
<1>9. ASSUME NEW m \in Managers, FailVersion(m) PROVE CurrentInv'
  <2>1. study' = study /\ mgr'[m].pc = "idle" /\ \A n \in Managers : n # m => mgr'[n] = mgr[n]
    BY <1>0, <1>9, IdleTypes DEF FailVersion
  <2>. QED
    BY <2>1
<1>10. ASSUME NEW m \in Managers, NEW name \in Names, NEW sync \in BOOLEAN,
             CreateDataVersion(m, name, sync)
      PROVE  CurrentInv'
  <2>1. study' = study /\ mgr'[m].pc = "stampData"
        /\ \A n \in Managers : n # m => mgr'[n] = mgr[n]
    BY <1>0, <1>10, IdleTypes DEF CreateDataVersion, MgrState
  <2>. QED
    BY <2>1
<1>. QED
  BY <1>1, <1>2, <1>3, <1>4, <1>5, <1>6, <1>7, <1>8, <1>9, <1>10, Steps DEF Aside

\* Whichever of createDataVersion and setDataversionAsCurrent (studyCore.ts) writes
\* last, currentDataVersion is the index of a version once there is one.
THEOREM CurrentCorrect == Spec => []CurrentIsListed
<1>1. Init => CurrentInv
  BY IdleTypes DEF Init, CurrentInv, CurrentIsListed, IndexInv
<1>2. CurrentInv => CurrentIsListed
  BY DEF CurrentInv
<1>. QED
  BY <1>1, <1>2, TypeCorrect, CurrentInvNext, PTL DEF Spec

-----------------------------------------------------------------------------
(* A versioned clip has a versioned field.                                 *)

FieldInv == FieldSeen /\ VersionedDataHasVersionedField

LEMMA AvailableIsSeen ==
    ASSUME NEW vers, NEW f \in AvailableFields(vers)
    PROVE  \E d \in fields : d.field = f
  BY DEF AvailableFields, LatestField

LEMMA FieldSeenWrite == TypeOK /\ FieldSeen /\ Write => FieldSeen'
<1>. SUFFICES ASSUME TypeOK, FieldSeen, Write PROVE FieldSeen'
  OBVIOUS
<1>0. fields \subseteq fields' /\ wrt \in [Writers -> WrtState]
  BY WriteEffect DEF TypeOK
<1>. USE DEF FieldSeen
<1>1. ASSUME NEW w \in Writers, NEW f \in Fields, EditField(w, f) \/ DeleteField(w, f)
      PROVE  FieldSeen'
  <2>1. /\ data' = data /\ wrt'[w].pc = "field"
        /\ \A x \in Writers : x # w => wrt'[x] = wrt[x]
    <3>1. [IdleWrt EXCEPT !.pc = "field", !.field = f].pc = "field"
          /\ [IdleWrt EXCEPT !.pc = "field", !.field = f, !.deleted = TRUE].pc = "field"
      BY IdleTypes DEF WrtState
    <3>. QED
      BY <1>0, <1>1, <3>1 DEF EditField, DeleteField
  <2>. QED
    BY <1>0, <2>1
<1>2. ASSUME NEW w \in Writers, NEW f \in Fields, NEW s \in Subjects, UploadData(w, f, s)
      PROVE  FieldSeen'
  <2>1. \E d \in fields : d.field = f
    BY <1>2, AvailableIsSeen DEF UploadData
  <2>2. /\ data' = data /\ wrt'[w].field = f
        /\ \A x \in Writers : x # w => wrt'[x] = wrt[x]
    BY <1>0, <1>2 DEF UploadData
  <2>. QED
    BY <1>0, <2>1, <2>2
<1>3. ASSUME NEW w \in Writers, NEW f \in Fields, NEW s \in Subjects, DeleteData(w, f, s)
      PROVE  FieldSeen'
  <2>1. /\ data' = data /\ wrt'[w].pc = "erase"
        /\ \A x \in Writers : x # w => wrt'[x] = wrt[x]
    <3>1. [IdleWrt EXCEPT !.pc = "erase", !.field = f, !.subject = s, !.deleted = TRUE].pc
            = "erase"
      BY IdleTypes DEF WrtState
    <3>. QED
      BY <1>0, <1>3, <3>1 DEF DeleteData
  <2>. QED
    BY <1>0, <2>1
<1>8. IdleWrt.pc = "idle"
  BY DEF IdleWrt
<1>4. ASSUME NEW w \in Writers, InsertField(w) \/ InsertMarker(w) PROVE FieldSeen'
  <2>1. /\ \A d \in data' : d \in data \/ d.marker
        /\ wrt'[w].pc = "idle" /\ \A x \in Writers : x # w => wrt'[x] = wrt[x]
    BY <1>0, <1>4, <1>8 DEF InsertField, InsertMarker
  <2>. QED
    BY <1>0, <2>1
<1>5. ASSUME NEW w \in Writers, InsertClip(w) PROVE FieldSeen'
  <2>1. /\ \A d \in data' : d \in data \/ d.field = wrt[w].field
        /\ wrt[w].pc = "upload"
        /\ wrt'[w].pc = "idle" /\ \A x \in Writers : x # w => wrt'[x] = wrt[x]
    BY <1>0, <1>5, <1>8 DEF InsertClip
  <2>. QED
    BY <1>0, <2>1
<1>6. ASSUME NEW r \in Readers, RdrNext(r) PROVE FieldSeen'
  BY <1>0, <1>6 DEF RdrNext, ReadStudy, ReadData, FillCache
<1>7. ASSUME NEW f \in Fields, CreateField(f) PROVE FieldSeen'
  BY <1>0, <1>7 DEF CreateField
<1>. QED
  BY <1>1, <1>2, <1>3, <1>4, <1>5, <1>6, <1>7 DEF Write, WrtNext

LEMMA FieldSeenNext == TypeOK /\ FieldSeen /\ [Next]_vars => FieldSeen'
<1>. SUFFICES ASSUME TypeOK, FieldSeen, [Next]_vars PROVE FieldSeen'
  OBVIOUS
<1>0. data \in SUBSET DataDoc /\ fields \in SUBSET FieldDoc
  BY DEF TypeOK
<1>1. CASE UNCHANGED vars
  BY <1>1 DEF FieldSeen, vars
<1>2. ASSUME NEW m \in Managers, Progress(m) PROVE FieldSeen'
  <2>1. mgr[m].ver \in Nat /\ wrt' = wrt
    BY <1>2, ProgressEffect DEF TypeOK, MgrState, Versions
  <2>2. \A e \in data' : \E d \in data : e.field = d.field /\ e.marker = d.marker
    BY <1>0, <1>2, <2>1, ProgressDocs, StampOfData
  <2>3. \A d \in fields : \E e \in fields' : e.field = d.field
    BY <1>0, <1>2, <2>1, ProgressDocs, StampOfField
  <2>. QED
    BY <2>1, <2>2, <2>3 DEF FieldSeen
<1>3. ASSUME NEW m \in Managers, Aside(m) PROVE FieldSeen'
  BY <1>3, AsideEffect, AsideDocs DEF FieldSeen, Mirrors, MirrorsClips
<1>4. ASSUME NEW m \in Managers,
             \/ PublishVersion(m) \/ FailVersion(m)
             \/ \E name \in Names, sync \in BOOLEAN : CreateDataVersion(m, name, sync)
      PROVE  FieldSeen'
  BY <1>4, RestDocs DEF FieldSeen
<1>. QED
  BY <1>1, <1>2, <1>3, <1>4, FieldSeenWrite, Steps

LEMMA VersionedFieldNext ==
    TypeOK /\ FieldInv /\ [Next]_vars => VersionedDataHasVersionedField'
<1>. SUFFICES ASSUME TypeOK, FieldInv, [Next]_vars PROVE VersionedDataHasVersionedField'
  OBVIOUS
<1>. DEFINE Backed(f) == \E g \in fields : g.field = f /\ g.ver # Null
            BackedNext(f) == \E g \in fields' : g.field = f /\ g.ver # Null
            Open(v) == v \in failed \/ \E m \in Managers : mgr[m].ver = v /\ mgr[m].pc = "stampFields"
            OpenNext(v) == v \in failed' \/ \E m \in Managers : mgr'[m].ver = v /\ mgr'[m].pc = "stampFields"
<1>a. \A d \in data : d.ver # Null /\ ~d.marker => Backed(d.field) \/ Open(d.ver)
  BY DEF FieldInv, VersionedDataHasVersionedField, FieldStampPending
<1>b. SUFFICES \A d \in data' : d.ver # Null /\ ~d.marker => BackedNext(d.field) \/ OpenNext(d.ver)
  BY DEF VersionedDataHasVersionedField, FieldStampPending
<1>0. data \in SUBSET DataDoc /\ fields \in SUBSET FieldDoc /\ mgr \in [Managers -> MgrState]
  BY DEF TypeOK
<1>1. CASE UNCHANGED vars
  BY <1>1, <1>a DEF vars
<1>2. CASE Write
  BY <1>2, <1>a, WriteEffect
<1>3. ASSUME NEW m \in Managers, Progress(m)
      PROVE  \A d \in data' : d.ver # Null /\ ~d.marker => BackedNext(d.field) \/ OpenNext(d.ver)
  <2>1. mgr[m].ver \in Nat /\ failed' = failed /\ mgr'[m].ver = mgr[m].ver
        /\ \A n \in Managers : n # m => mgr'[n] = mgr[n]
    BY <1>0, <1>3, ProgressEffect DEF MgrState, Versions, Others
  <2>2. CASE /\ mgr[m].pc = "stampData" /\ mgr'[m].pc = "stampFields"
             /\ data' = {StampOf(d, mgr[m].ver) : d \in data} /\ fields' = fields
    <3>1. \A e \in data' : \E d \in data :
             e.field = d.field /\ e.marker = d.marker /\ (e.ver = d.ver \/ e.ver = mgr[m].ver)
      BY <1>0, <2>1, <2>2, StampOfData
    <3>2. \A v : Open(v) \/ v = mgr[m].ver => OpenNext(v)
      BY <2>1, <2>2
    <3>. QED
      BY <1>a, <2>2, <3>1, <3>2
  <2>3. CASE /\ mgr[m].pc = "stampFields" /\ data' = data
             /\ fields' = {StampOf(d, mgr[m].ver) : d \in fields}
    <3>1. mgr[m].ver # Null \/ \A d \in data : d.ver # mgr[m].ver \/ d.ver = Null
      OBVIOUS
    <3>2. \A d \in fields : \E e \in fields' :
             e.field = d.field /\ (d.ver # Null \/ mgr[m].ver # Null => e.ver # Null)
      BY <1>0, <2>1, <2>3, StampOfField
    <3>3. \A d \in data : d.ver = mgr[m].ver /\ d.ver # Null /\ ~d.marker => BackedNext(d.field)
      BY <3>2 DEF FieldInv, FieldSeen
    <3>4. \A f : Backed(f) => BackedNext(f)
      BY <3>2
    <3>5. \A v : Open(v) => OpenNext(v) \/ v = mgr[m].ver
      BY <2>1
    <3>6. SUFFICES ASSUME NEW d \in data, d.ver # Null, ~d.marker
                   PROVE  BackedNext(d.field) \/ OpenNext(d.ver)
      BY <2>3
    <3>7. CASE d.ver = mgr[m].ver
      BY <3>3, <3>6, <3>7
    <3>8. CASE d.ver # mgr[m].ver
      <4>1. Backed(d.field) \/ Open(d.ver)
        BY <1>a, <3>6
      <4>. QED
        BY <4>1, <3>4, <3>5, <3>8
    <3>. QED
      BY <3>7, <3>8
  <2>4. CASE /\ mgr[m].pc \notin {"stampData", "stampFields"}
             /\ data' = data /\ fields' = fields
    <3>1. \A v : Open(v) => OpenNext(v)
      BY <2>1, <2>4
    <3>. QED
      BY <1>a, <2>4, <3>1
  <2>. QED
    BY <1>3, <2>2, <2>3, <2>4, ProgressDocs
<1>4. ASSUME NEW m \in Managers, Aside(m)
      PROVE  \A d \in data' : d.ver # Null /\ ~d.marker => BackedNext(d.field) \/ OpenNext(d.ver)
  <2>1. \A f : Backed(f) => BackedNext(f)
    BY <1>4, AsideDocs DEF Mirrors
  <2>2. \A v : Open(v) => OpenNext(v)
    BY <1>4, AsideEffect DEF Others, Creating
  <2>3. SUFFICES ASSUME NEW e \in data', e.ver # Null, ~e.marker
                 PROVE  BackedNext(e.field) \/ OpenNext(e.ver)
    OBVIOUS
  <2>4. PICK d \in data : e.field = d.field /\ e.ver = d.ver /\ e.marker = d.marker
    BY <1>4, AsideDocs DEF MirrorsClips
  <2>5. Backed(d.field) \/ Open(d.ver)
    BY <1>a, <2>3, <2>4
  <2>6. BackedNext(d.field) \/ OpenNext(d.ver)
    BY <2>1, <2>2, <2>5
  <2>. QED
    BY <2>4, <2>6
<1>5. ASSUME NEW m \in Managers,
             \/ PublishVersion(m) \/ FailVersion(m)
             \/ \E name \in Names, sync \in BOOLEAN : CreateDataVersion(m, name, sync)
      PROVE  \A d \in data' : d.ver # Null /\ ~d.marker => BackedNext(d.field) \/ OpenNext(d.ver)
  <2>1. UNCHANGED <<data, fields>> /\ \A n \in Managers : n # m => mgr'[n] = mgr[n]
    BY <1>5, RestDocs DEF Others
  <2>2. failed \subseteq failed' /\ (mgr[m].pc = "stampFields" => mgr[m].ver \in failed')
    BY <1>5 DEF PublishVersion, FailVersion, CreateDataVersion
  <2>3. \A v : Open(v) => OpenNext(v)
    BY <2>1, <2>2
  <2>. QED
    BY <1>a, <2>1, <2>3
<1>. QED
  BY <1>1, <1>2, <1>3, <1>4, <1>5, Steps

\* Data that a version makes readable is never data of a field no version makes
\* readable, except while createDataVersion stands between its two updateMany
\* calls (studyCore.ts) or after it died there.
THEOREM VersionedFieldCorrect == Spec => []VersionedDataHasVersionedField
<1>1. Init => FieldInv
  BY IdleTypes DEF Init, FieldInv, FieldSeen, VersionedDataHasVersionedField, IdleWrt
<1>2. FieldInv => VersionedDataHasVersionedField
  BY DEF FieldInv
<1>3. TypeOK /\ FieldInv /\ [Next]_vars => FieldInv'
  BY FieldSeenNext, VersionedFieldNext DEF FieldInv
<1>. QED
  BY <1>1, <1>2, <1>3, TypeCorrect, PTL DEF Spec

-----------------------------------------------------------------------------
(* Creation times name documents.                                          *)

LEMMA TimeTypes ==
    ASSUME TypeOK
    PROVE  /\ clock \in Nat /\ clock + 1 \in Nat /\ wrt \in [Writers -> WrtState]
           /\ \A d \in data \cup fields : d.time \in Nat
           /\ \A w \in Writers : wrt[w].time \in Nat
  BY DEF TypeOK, DataDoc, FieldDoc, WrtState

\* A document that takes the current time is one no other has.
LEMMA TimesFresh ==
    ASSUME TypeOK, TimesInv, clock' = clock + 1,
           NEW w \in Writers, wrt'[w].pc # "upload",
           \A x \in Writers : x # w => wrt'[x] = wrt[x],
           NEW new, new.time = clock,
           \/ data' = data \cup {new} /\ fields' = fields
           \/ data' = data /\ fields' = fields \cup {new}
    PROVE  TimesInv'
<1>1. \A x \in Pending' : x \in Pending /\ wrt'[x].time = wrt[x].time
  BY DEF Pending
<1>2. \A d \in data \cup fields : d.time < clock /\ d.time < clock + 1 /\ d.time # clock
  BY TimeTypes DEF TimesInv
<1>3. \A x \in Pending : wrt[x].time < clock /\ wrt[x].time < clock + 1 /\ wrt[x].time # clock
  BY TimeTypes DEF TimesInv, Pending
<1>4. clock < clock + 1
  BY TimeTypes
<1>. QED
  BY <1>1, <1>2, <1>3, <1>4 DEF TimesInv

LEMMA TimesKept ==
    ASSUME TimesInv, UNCHANGED <<data, fields, clock>>,
           \A x \in Pending' : x \in Pending /\ wrt'[x].time = wrt[x].time
    PROVE  TimesInv'
  BY DEF TimesInv

LEMMA TimesWrite == TypeOK /\ TimesInv /\ Write => TimesInv'
<1>. SUFFICES ASSUME TypeOK, TimesInv, Write PROVE TimesInv'
  OBVIOUS
<1>0. wrt \in [Writers -> WrtState] /\ IdleWrt.pc = "idle"
  BY DEF TypeOK, IdleWrt
<1>1. ASSUME NEW w \in Writers, NEW f \in Fields, EditField(w, f) \/ DeleteField(w, f)
      PROVE  TimesInv'
  <2>1. [IdleWrt EXCEPT !.pc = "field", !.field = f].pc = "field"
        /\ [IdleWrt EXCEPT !.pc = "field", !.field = f, !.deleted = TRUE].pc = "field"
    BY IdleTypes DEF WrtState
  <2>2. wrt'[w].pc = "field" /\ \A x \in Writers : x # w => wrt'[x] = wrt[x]
    BY <1>0, <1>1, <2>1 DEF EditField, DeleteField
  <2>. QED
    BY <1>1, <2>2, TimesKept DEF EditField, DeleteField, Pending
<1>2. ASSUME NEW w \in Writers, NEW f \in Fields, NEW s \in Subjects, UploadData(w, f, s)
      PROVE  TimesInv'
  <2>1. /\ UNCHANGED <<data, fields>> /\ clock' = clock + 1 /\ wrt[w].pc = "idle"
        /\ wrt'[w].time = clock /\ \A x \in Writers : x # w => wrt'[x] = wrt[x]
    BY <1>0, <1>2 DEF UploadData
  <2>2. \A x \in Pending' : x # w => x \in Pending /\ wrt'[x].time = wrt[x].time
    BY <2>1 DEF Pending
  <2>3. \A d \in data \cup fields : d.time < clock /\ d.time < clock + 1 /\ d.time # clock
    BY TimeTypes DEF TimesInv
  <2>4. \A x \in Pending : wrt[x].time < clock /\ wrt[x].time < clock + 1 /\ wrt[x].time # clock
    BY TimeTypes DEF TimesInv, Pending
  <2>5. clock < clock + 1
    BY TimeTypes
  <2>. QED
    BY <2>1, <2>2, <2>3, <2>4, <2>5 DEF TimesInv
<1>3. ASSUME NEW w \in Writers, NEW f \in Fields, NEW s \in Subjects, DeleteData(w, f, s)
      PROVE  TimesInv'
  <2>1. [IdleWrt EXCEPT !.pc = "erase", !.field = f, !.subject = s, !.deleted = TRUE].pc = "erase"
    BY IdleTypes DEF WrtState
  <2>2. wrt'[w].pc = "erase" /\ \A x \in Writers : x # w => wrt'[x] = wrt[x]
    BY <1>0, <1>3, <2>1 DEF DeleteData
  <2>. QED
    BY <1>3, <2>2, TimesKept DEF DeleteData, Pending
<1>4. ASSUME NEW w \in Writers, InsertField(w) PROVE TimesInv'
  <2>1. NewField(wrt[w].field, wrt[w].deleted).time = clock
    BY DEF NewField
  <2>2. wrt'[w].pc # "upload" /\ \A x \in Writers : x # w => wrt'[x] = wrt[x]
    BY <1>0, <1>4 DEF InsertField
  <2>. QED
    BY <1>4, <2>1, <2>2, TimesFresh DEF InsertField
<1>5. ASSUME NEW w \in Writers, InsertMarker(w) PROVE TimesInv'
  <2>. DEFINE new == [field |-> wrt[w].field, subject |-> wrt[w].subject, marker |-> TRUE,
                      deleted |-> TRUE, time |-> clock, ver |-> Null]
  <2>1. new.time = clock /\ data' = data \cup {new} /\ fields' = fields /\ clock' = clock + 1
    BY <1>5 DEF InsertMarker
  <2>2. wrt'[w].pc # "upload" /\ \A x \in Writers : x # w => wrt'[x] = wrt[x]
    BY <1>0, <1>5 DEF InsertMarker
  <2>. HIDE DEF new
  <2>. QED
    BY <2>1, <2>2, TimesFresh
<1>6. ASSUME NEW w \in Writers, InsertClip(w) PROVE TimesInv'
  <2>. DEFINE new == [field |-> wrt[w].field, subject |-> wrt[w].subject, marker |-> FALSE,
                      deleted |-> FALSE, time |-> wrt[w].time, ver |-> Null]
  <2>1. new.time = wrt[w].time /\ data' = data \cup {new} /\ UNCHANGED <<fields, clock>>
        /\ w \in Pending
    BY <1>6 DEF InsertClip, Pending
  <2>2. wrt'[w].pc = "idle" /\ \A x \in Writers : x # w => wrt'[x] = wrt[x]
    BY <1>0, <1>6 DEF InsertClip
  <2>3. \A x \in Pending' : x # w /\ x \in Pending /\ wrt'[x].time = wrt[x].time
    BY <2>2 DEF Pending
  <2>. HIDE DEF new
  <2>. QED
    BY <2>1, <2>3 DEF TimesInv
<1>7. ASSUME NEW r \in Readers, RdrNext(r) PROVE TimesInv'
  BY <1>7 DEF RdrNext, ReadStudy, ReadData, FillCache, TimesInv, Pending
<1>8. ASSUME NEW f \in Fields, CreateField(f) PROVE TimesInv'
  <2>1. NewField(f, FALSE).time = clock
    BY DEF NewField
  <2>2. /\ data' = data /\ fields' = fields \cup {NewField(f, FALSE)}
        /\ clock' = clock + 1 /\ wrt' = wrt /\ Pending' = Pending
    BY <1>8 DEF CreateField, Pending
  <2>3. \A d \in data \cup fields : d.time < clock /\ d.time < clock + 1 /\ d.time # clock
    BY TimeTypes DEF TimesInv
  <2>4. \A x \in Pending : wrt[x].time < clock /\ wrt[x].time < clock + 1 /\ wrt[x].time # clock
    BY TimeTypes DEF TimesInv, Pending
  <2>5. clock < clock + 1
    BY TimeTypes
  <2>6. \A d \in data \cup fields' : d.time < clock'
    BY <2>1, <2>2, <2>3, <2>5 DEF TimesInv
  <2>7. \A x \in Pending : wrt[x].time < clock'
    BY <2>2, <2>4
  <2>8. \A d \in data, e \in fields' : d.time # e.time
    BY <2>1, <2>2, <2>3 DEF TimesInv
  <2>9. \A d, e \in fields' : d.time = e.time => d.ver = e.ver
    BY <2>1, <2>2, <2>3 DEF TimesInv
  <2>10. \A x \in Pending, d \in data \cup fields' : d.time # wrt[x].time
    BY <2>1, <2>2, <2>4 DEF TimesInv
  <2>11. /\ \A d, e \in data : d.time = e.time => d.ver = e.ver
         /\ \A x, y \in Pending : wrt[x].time = wrt[y].time => x = y
    BY DEF TimesInv
  <2>12. data' = data /\ wrt' = wrt /\ Pending' = Pending
    BY <2>2
  <2>. HIDE DEF Pending, NewField
  <2>. QED
    BY <2>6, <2>7, <2>8, <2>9, <2>10, <2>11, <2>12 DEF TimesInv
<1>. QED
  BY <1>1, <1>2, <1>3, <1>4, <1>5, <1>6, <1>7, <1>8 DEF Write, WrtNext

LEMMA TimesNext == TypeOK /\ TimesInv /\ [Next]_vars => TimesInv'
<1>. SUFFICES ASSUME TypeOK, TimesInv, [Next]_vars PROVE TimesInv'
  OBVIOUS
<1>0. data \in SUBSET DataDoc /\ fields \in SUBSET FieldDoc
  BY DEF TypeOK
<1>1. CASE UNCHANGED vars
  BY <1>1 DEF TimesInv, Pending, vars
<1>2. ASSUME NEW m \in Managers, Progress(m) PROVE TimesInv'
  <2>1. mgr[m].ver \in Nat /\ UNCHANGED <<wrt, clock>> /\ Pending' = Pending
    BY <1>2, ProgressEffect DEF TypeOK, MgrState, Versions, Pending
  <2>2. CASE data' = {StampOf(d, mgr[m].ver) : d \in data} /\ fields' = fields
    <3>1. \A e \in data' : \E d \in data :
             e.time = d.time /\ e.ver = IF d.ver = Null THEN mgr[m].ver ELSE d.ver
      BY <1>0, <2>1, <2>2, StampOfData
    <3>. QED
      BY <2>1, <2>2, <3>1 DEF TimesInv
  <2>3. CASE fields' = {StampOf(d, mgr[m].ver) : d \in fields} /\ data' = data
    <3>1. \A e \in fields' : \E d \in fields :
             e.time = d.time /\ e.ver = IF d.ver = Null THEN mgr[m].ver ELSE d.ver
      BY <1>0, <2>1, <2>3, StampOfField
    <3>. QED
      BY <2>1, <2>3, <3>1 DEF TimesInv
  <2>4. CASE UNCHANGED <<data, fields>>
    BY <2>1, <2>4 DEF TimesInv
  <2>. QED
    BY <1>2, <2>2, <2>3, <2>4, ProgressDocs
<1>3. ASSUME NEW m \in Managers, Aside(m) PROVE TimesInv'
  <2>1. UNCHANGED <<wrt, clock>> /\ Pending' = Pending
    BY <1>3, AsideEffect DEF Pending
  <2>. QED
    BY <1>3, <2>1, AsideDocs DEF TimesInv, Mirrors, MirrorsClips
<1>4. ASSUME NEW m \in Managers,
             \/ PublishVersion(m) \/ FailVersion(m)
             \/ \E name \in Names, sync \in BOOLEAN : CreateDataVersion(m, name, sync)
      PROVE  TimesInv'
  BY <1>4, RestDocs DEF TimesInv, Pending
<1>. QED
  BY <1>1, <1>2, <1>3, <1>4, TimesWrite, Steps

-----------------------------------------------------------------------------
(* The store implements the log of versions.                               *)

LogInv == TypeOK /\ VersionsInv /\ TimesInv

Docs == data \cup fields
TimesOf(v) == {d.time : d \in {e \in Docs : e.ver = v}}

LEMMA ContentIs ==
    /\ LogContent = [v \in Listed |-> TimesOf(v)]
    /\ LogContent' = [v \in Listed' |-> TimesOf(v)']
  BY DEF LogContent, TimesOf, Docs

\* A step after which the documents of the listed versions are the same ones
\* stutters on the log.
LEMMA Frozen ==
    ASSUME study'.versions = study.versions,
           \A v \in Listed : TimesOf(v)' = TimesOf(v)
    PROVE  LogIds' = LogIds /\ LogContent' = LogContent
<1>1. Listed' = Listed /\ LogIds' = LogIds
  BY DEF Listed, LogIds
<1>. QED
  BY <1>1, ContentIs

LEMMA FrozenByMatch ==
    ASSUME NEW v,
           \A e \in Docs' : e.ver = v => \E d \in Docs : d.ver = v /\ d.time = e.time,
           \A d \in Docs : d.ver = v => \E e \in Docs' : e.ver = v /\ e.time = d.time
    PROVE  TimesOf(v)' = TimesOf(v)
  BY DEF TimesOf

LEMMA LogStutters ==
    ASSUME LogInv, \/ Write
                   \/ \E m \in Managers :
                        \/ Progress(m) \/ Aside(m) \/ FailVersion(m)
                        \/ \E name \in Names, sync \in BOOLEAN : CreateDataVersion(m, name, sync)
    PROVE  LogIds' = LogIds /\ LogContent' = LogContent
<1>0. \A v \in Listed : v # Null
  BY DEF LogInv, VersionsInv, Null
<1>1. CASE Write
  <2>1. /\ study' = study /\ Docs \subseteq Docs'
        /\ \A d \in Docs' : d \notin Docs => d.ver = Null
    BY <1>1, WriteEffect DEF LogInv, Docs
  <2>2. \A v \in Listed : TimesOf(v)' = TimesOf(v)
    BY <1>0, <2>1, FrozenByMatch
  <2>. QED
    BY <2>1, <2>2, Frozen
<1>2. ASSUME NEW m \in Managers, Progress(m) PROVE LogIds' = LogIds /\ LogContent' = LogContent
  <2>1. /\ data \in SUBSET DataDoc /\ fields \in SUBSET FieldDoc /\ mgr[m].ver \in Nat
        /\ study' = study
    BY <1>2, ProgressEffect DEF LogInv, TypeOK, MgrState, Versions
  <2>2. \A v \in Listed : v # mgr[m].ver
    BY <1>2, ProgressEffect DEF LogInv, VersionsInv
  <2>3. /\ \A e \in Docs' : \E d \in Docs :
              (e.time = d.time /\ e.ver = d.ver) \/ e.ver = mgr[m].ver
        /\ \A d \in Docs : d.ver # Null => \E e \in Docs' : e.time = d.time /\ e.ver = d.ver
    BY <1>2, <2>1, ProgressDocs, StampOfData, StampOfField DEF LogInv, Docs
  <2>4. \A v \in Listed : TimesOf(v)' = TimesOf(v)
    BY <1>0, <2>2, <2>3, FrozenByMatch
  <2>. QED
    BY <2>1, <2>4, Frozen
<1>3. ASSUME NEW m \in Managers, Aside(m) PROVE LogIds' = LogIds /\ LogContent' = LogContent
  <2>1. /\ \A e \in Docs' : \E d \in Docs : e.time = d.time /\ e.ver = d.ver
        /\ \A d \in Docs : \E e \in Docs' : e.time = d.time /\ e.ver = d.ver
    BY <1>3, AsideDocs DEF LogInv, Docs, Mirrors, MirrorsClips
  <2>2. \A v \in Listed : TimesOf(v)' = TimesOf(v)
    BY <2>1, FrozenByMatch
  <2>. QED
    BY <1>3, <2>2, AsideEffect, Frozen DEF LogInv
<1>4. ASSUME NEW m \in Managers,
             \/ FailVersion(m)
             \/ \E name \in Names, sync \in BOOLEAN : CreateDataVersion(m, name, sync)
      PROVE  LogIds' = LogIds /\ LogContent' = LogContent
  <2>1. UNCHANGED <<data, fields, study>>
    BY <1>4 DEF FailVersion, CreateDataVersion
  <2>. QED
    BY <2>1 DEF LogIds, LogContent, Listed
<1>. QED
  BY <1>1, <1>2, <1>3, <1>4

LEMMA LogPublishes ==
    ASSUME LogInv, NEW m \in Managers, PublishVersion(m)
    PROVE  Log!Next
<1>. DEFINE v == mgr[m].ver
<1>0. mgr[m].pc \in Creating /\ UNCHANGED <<data, fields>>
  BY DEF PublishVersion, Creating
<1>1. v \notin Listed
  BY <1>0 DEF LogInv, VersionsInv
<1>2. Listed' = Listed \cup {v} /\ LogIds' = Append(LogIds, v)
  BY PublishEffect DEF LogInv
<1>3. \A u : TimesOf(u)' = TimesOf(u)
  BY <1>0 DEF TimesOf, Docs
<1>4. LogContent' = [u \in Listed \cup {v} |-> TimesOf(u)]
  <2>1. LogContent' = [u \in Listed' |-> TimesOf(u)']
    BY ContentIs
  <2>. QED
    BY <1>2, <1>3, <2>1
<1>5. DOMAIN LogContent = Listed /\ \A u \in Listed : LogContent[u] = TimesOf(u)
  BY ContentIs
<1>6. DOMAIN LogContent' = Listed \cup {v} /\ LogContent'[v] = TimesOf(v)
  BY <1>4
<1>7. \A u \in Listed : LogContent[u] \cap TimesOf(v) = {}
  <2>1. \A d, e \in Docs : d.time = e.time => d.ver = e.ver
    BY DEF LogInv, TimesInv, Docs
  <2>2. \A u \in Listed : TimesOf(u) \cap TimesOf(v) = {}
    BY <1>1, <2>1 DEF TimesOf
  <2>. QED
    BY <1>5, <2>2
<1>8. LogContent' = [u \in DOMAIN LogContent \cup {v} |->
                        IF u = v THEN LogContent'[v] ELSE LogContent[u]]
  BY <1>4, <1>5, <1>6
<1>9. Log!Publish(v, LogContent'[v])
  BY <1>1, <1>2, <1>5, <1>6, <1>7, <1>8 DEF Log!Publish
<1>. QED
  BY <1>6, <1>9 DEF Log!Next

LEMMA LogInit == Init => Log!Init
<1>. SUFFICES ASSUME Init PROVE Log!Init
  OBVIOUS
<1>1. Listed = {} /\ LogIds = <<>>
  BY DEF Init, Listed, LogIds
<1>2. LogContent = [v \in {} |-> {}]
  BY <1>1 DEF LogContent
<1>. QED
  BY <1>1, <1>2 DEF Log!Init

LEMMA LogNext == LogInv /\ [Next]_vars => [Log!Next]_(Log!vars)
<1>. SUFFICES ASSUME LogInv, [Next]_vars PROVE [Log!Next]_(Log!vars)
  OBVIOUS
<1>1. CASE UNCHANGED vars
  BY <1>1 DEF vars, Log!vars, LogIds, LogContent, Listed
<1>2. CASE Next
  BY <1>2, Steps, LogStutters, LogPublishes DEF Log!vars
<1>. QED
  BY <1>1, <1>2

LEMMA LogInvCorrect == Spec => []LogInv
<1>1. Init => TimesInv
  BY IdleTypes DEF Init, TimesInv, Pending, IdleWrt
<1>2. Init => LogInv
  BY <1>1, InitType, VersionsInvInit DEF LogInv
<1>3. LogInv /\ [Next]_vars => LogInv'
  BY NextType, VersionsInvNext, TimesNext DEF LogInv
<1>. QED
  BY <1>2, <1>3, PTL DEF Spec

\* The study's list of versions with the documents stamped for each
\* (studyCore.ts, dataCore.ts) implements an append-only log of frozen,
\* disjoint document sets, whatever requests run beside each other or die.
THEOREM LogImplemented == Spec => ImplementsVersionLog
  BY LogInit, LogNext, LogInvCorrect, PTL DEF Spec, ImplementsVersionLog, Log!Spec

-----------------------------------------------------------------------------
(* A cached answer in use is younger than the versions: those that were    *)
(* cached before a creation outdated the cache are not in use any more,    *)
(* and those cached since were born after its version had its id.          *)

CacheInv ==
    /\ CacheOutdatedByVersion
    /\ \A m \in Managers : mgr[m].pc \in {"copy", "publish"} =>
          \A e \in cache : e.inuse => mgr[m].ver < e.born

LEMMA CacheKept ==
    ASSUME CacheInv, cache' = cache, Listed' = Listed,
           \A m \in Managers : mgr'[m].pc \in {"copy", "publish"} =>
              mgr[m].pc \in {"copy", "publish"} /\ mgr'[m].ver = mgr[m].ver
    PROVE  CacheInv'
  BY DEF CacheInv, CacheOutdatedByVersion

LEMMA CacheInvNext == TypeOK /\ VersionsInv /\ CacheInv /\ [Next]_vars => CacheInv'
<1>. SUFFICES ASSUME TypeOK, VersionsInv, CacheInv, [Next]_vars PROVE CacheInv'
  OBVIOUS
<1>0. mgr \in [Managers -> MgrState]
  BY DEF TypeOK
<1>1. CASE UNCHANGED vars
  BY <1>1, CacheKept DEF vars, Listed
<1>2. CASE Write
  <2>1. Listed' = Listed /\ mgr' = mgr
    BY <1>2, WriteEffect DEF Listed
  <2>2. CASE cache' = cache
    BY <2>1, <2>2, CacheKept
  <2>3. CASE \E r \in Readers : FillCache(r)
    <3>1. PICK new : new.born = nextVer /\ cache' = cache \cup {new}
      BY <2>3 DEF FillCache
    <3>2. /\ \A v \in Listed : v < nextVer
          /\ \A m \in Managers : mgr[m].pc \in {"copy", "publish"} => mgr[m].ver < nextVer
      BY DEF VersionsInv, Creating
    <3>. QED
      BY <2>1, <3>1, <3>2 DEF CacheInv, CacheOutdatedByVersion
  <2>4. cache' = cache \/ \E r \in Readers : FillCache(r)
    BY <1>2 DEF Write, WrtNext, RdrNext, EditField, DeleteField, UploadData, DeleteData, InsertField,
                InsertClip, InsertMarker, ReadStudy, ReadData, CreateField
  <2>. QED
    BY <2>2, <2>3, <2>4
<1>3. ASSUME NEW m \in Managers, Progress(m) PROVE CacheInv'
  <2>1. Listed' = Listed /\ Others(m) /\ mgr'[m].ver = mgr[m].ver
    BY <1>3, ProgressEffect DEF Listed
  <2>2. CASE OutdateCache(m)
    <3>1. \A e \in cache' : ~e.inuse
      BY <2>2 DEF OutdateCache, TypeOK, CacheEntry
    <3>. QED
      BY <3>1 DEF CacheInv, CacheOutdatedByVersion
  <2>3. CASE StampData(m) \/ StampFields(m)
    <3>1. cache' = cache /\ mgr'[m].pc \in {"stampFields", "outdate"}
      BY <1>0, <2>3 DEF StampData, StampFields, MgrState
    <3>. QED
      BY <2>1, <3>1, CacheKept DEF Others
  <2>4. CASE CopyBatch(m) \/ CopyDone(m)
    <3>1. cache' = cache /\ mgr[m].pc = "copy"
      BY <2>4 DEF CopyBatch, CopyDone
    <3>. QED
      BY <2>1, <3>1, CacheKept DEF Others
  <2>. QED
    BY <1>3, <2>2, <2>3, <2>4 DEF Progress
<1>4. ASSUME NEW m \in Managers, Aside(m) PROVE CacheInv'
  <2>1. Listed' = Listed /\ Others(m) /\ mgr'[m].pc \notin {"copy", "publish"}
    BY <1>4, AsideEffect DEF Listed, Creating
  <2>2. cache' = cache
    BY <1>4 DEF Aside, SetCurrentRead, SetCurrentWrite, DeleteStudy, DeleteStudyFields, DeleteStudyData
  <2>. QED
    BY <2>1, <2>2, CacheKept DEF Others
<1>5. ASSUME NEW m \in Managers, PublishVersion(m) PROVE CacheInv'
  <2>1. Listed' = Listed \cup {mgr[m].ver} /\ cache' = cache /\ mgr[m].pc = "publish"
        /\ Others(m) /\ mgr'[m].pc = "idle"
    BY <1>0, <1>5, PublishEffect, RestDocs, IdleTypes DEF PublishVersion
  <2>. QED
    BY <2>1 DEF CacheInv, CacheOutdatedByVersion, Others
<1>6. ASSUME NEW m \in Managers,
             FailVersion(m) \/ \E name \in Names, sync \in BOOLEAN : CreateDataVersion(m, name, sync)
      PROVE  CacheInv'
  <2>1. Listed' = Listed /\ cache' = cache /\ Others(m)
    BY <1>6, RestDocs DEF FailVersion, CreateDataVersion, Listed
  <2>2. mgr'[m].pc \in {"idle", "stampData"}
    <3>1. CASE FailVersion(m)
      BY <1>0, <3>1, IdleTypes DEF FailVersion
    <3>2. ASSUME NEW name \in Names, NEW sync \in BOOLEAN, CreateDataVersion(m, name, sync)
          PROVE  mgr'[m].pc = "stampData"
      BY <3>2, IdleTypes DEF CreateDataVersion, TypeOK, MgrState, Others
    <3>. QED
      BY <1>6, <3>1, <3>2
  <2>. QED
    BY <2>1, <2>2, CacheKept DEF Others
<1>. QED
  BY <1>1, <1>2, <1>3, <1>4, <1>5, <1>6, Steps

\* A cached answer in use is younger than every listed version, however many versions
\* are created at once and however long a reader takes to store its answer
\* (createDataVersion in studyCore.ts, getStudyData in dataCore.ts).
THEOREM CacheCorrect == Spec => []CacheOutdatedByVersion
<1>1. Init => CacheInv
  BY IdleTypes DEF Init, CacheInv, CacheOutdatedByVersion
<1>2. LogInv => TypeOK /\ VersionsInv
  BY DEF LogInv
<1>3. CacheInv => CacheOutdatedByVersion
  BY DEF CacheInv
<1>. QED
  BY <1>1, <1>2, <1>3, LogInvCorrect, CacheInvNext, PTL DEF Spec

-----------------------------------------------------------------------------
(* Cold storage.  A batch is copied from the clips the cursor was opened   *)
(* on; those stay stamped as they are, and no later stamp adds to them.    *)

\* A cold document that shows one of the clips, a stamped one.
Shows(docs, c) == \E d \in docs : d.ver # Null /\ ColdCopy(d, d.ver) = c

ColdInv ==
    /\ \A c \in cold : Shows(data, c)
    /\ \A m \in Managers : \A d \in mgr[m].todo : Shows(data, ColdCopy(d, mgr[m].ver))

CoverInv ==
    \A m \in Managers :
        /\ mgr[m].pc = "publish" => mgr[m].todo = {}
        /\ mgr[m].pc \in {"copy", "publish"} /\ mgr[m].sync =>
              \A d \in data : d.ver = mgr[m].ver => Key(d) \in Keys(mgr[m].todo) \cup Keys(cold)

LEMMA StampOfClip ==
    ASSUME NEW d \in DataDoc, NEW v \in Nat
    PROVE  /\ Key(StampOf(d, v)) = Key(d)
           /\ d.ver # Null => StampOf(d, v) = d
           /\ d.ver = Null => StampOf(d, v).ver = v
           /\ Key(EraseOf(d)) = Key(d) /\ EraseOf(d).ver = d.ver
           /\ ColdCopy(EraseOf(d), d.ver) = ColdCopy(d, d.ver)
  BY DEF StampOf, EraseOf, DataDoc, Key, ColdCopy

\* A stamped clip keeps what cold storage shows of it, and only StampData adds to
\* the clips of a version.
LEMMA ClipsKept ==
    ASSUME TypeOK, [Next]_vars
    PROVE  /\ \A d \in data : d.ver # Null =>
                 \E e \in data' : e.ver = d.ver /\ ColdCopy(e, e.ver) = ColdCopy(d, d.ver)
           /\ \A e \in data' : e.ver # Null =>
                 \/ \E d \in data : d.ver = e.ver /\ Key(d) = Key(e)
                 \/ \E m \in Managers : StampData(m) /\ e.ver = mgr[m].ver
<1>. DEFINE Kept == \A d \in data : d.ver # Null =>
                 \E e \in data' : e.ver = d.ver /\ ColdCopy(e, e.ver) = ColdCopy(d, d.ver)
            Added == \A e \in data' : e.ver # Null =>
                 \/ \E d \in data : d.ver = e.ver /\ Key(d) = Key(e)
                 \/ \E m \in Managers : StampData(m) /\ e.ver = mgr[m].ver
<1>0. data \in SUBSET DataDoc /\ mgr \in [Managers -> MgrState]
  BY DEF TypeOK
<1>1. CASE data' = data
  BY <1>1
<1>2. CASE Write
  BY <1>2, WriteEffect
<1>3. ASSUME NEW m \in Managers, StampData(m) PROVE Kept /\ Added
  <2>1. data' = {StampOf(d, mgr[m].ver) : d \in data} /\ mgr[m].ver \in Nat
    BY <1>0, <1>3, StampSet DEF StampData, MgrState, Versions
  <2>2. Kept
    BY <1>0, <2>1, StampOfClip
  <2>3. ASSUME NEW e \in data', e.ver # Null
        PROVE  \/ \E d \in data : d.ver = e.ver /\ Key(d) = Key(e)
               \/ e.ver = mgr[m].ver
    BY <1>0, <2>1, <2>3, StampOfClip
  <2>. QED
    BY <1>3, <2>2, <2>3
<1>4. ASSUME NEW m \in Managers, DeleteStudyData(m) PROVE Kept /\ Added
  <2>1. data' = {EraseOf(d) : d \in data}
    BY <1>4, EraseSet DEF DeleteStudyData
  <2>. QED
    BY <1>0, <2>1, StampOfClip
<1>5. CASE Next
  <2>1. \/ Write \/ data' = data
        \/ \E m \in Managers : StampData(m) \/ DeleteStudyData(m)
    BY <1>5 DEF Next, Write, MgrStep, MgrRequest, StampFields, OutdateCache, CopyBatch, CopyDone,
                PublishVersion, SetCurrentWrite, DeleteStudyFields, CreateDataVersion,
                SetCurrentRead, DeleteStudy, FailVersion
  <2>. QED
    BY <1>1, <1>2, <1>3, <1>4, <2>1
<1>. QED
  BY <1>1, <1>5 DEF vars

LEMMA ShownKept ==
    ASSUME TypeOK, [Next]_vars, NEW CONSTANT c, Shows(data, c)
    PROVE  Shows(data', c)
  BY ClipsKept DEF Shows

\* What CopyBatch writes is a copy of the clips it takes, and no key goes away.
LEMMA BatchEffect ==
    ASSUME TypeOK, NEW m \in Managers, CopyBatch(m)
    PROVE  /\ \A c \in cold' : c \in cold \/ \E d \in mgr[m].todo : c = ColdCopy(d, mgr[m].ver)
           /\ Keys(cold) \subseteq Keys(cold')
           /\ Keys(mgr[m].todo) \subseteq Keys(mgr'[m].todo) \cup Keys(cold')
           /\ mgr'[m].todo \subseteq mgr[m].todo
           /\ mgr'[m].pc = "copy" /\ mgr'[m].ver = mgr[m].ver /\ mgr'[m].sync = mgr[m].sync
           /\ Others(m)
<1>0. mgr \in [Managers -> MgrState] /\ mgr[m] \in MgrState
  BY DEF TypeOK
<1>1. PICK batch, last :
         /\ batch \subseteq mgr[m].todo /\ last \subseteq batch
         /\ Keys(last) = Keys(batch)
         /\ cold' = {c \in cold : Key(c) \notin Keys(batch)}
                       \cup {ColdCopy(d, mgr[m].ver) : d \in last}
         /\ mgr' = [mgr EXCEPT ![m].todo = @ \ batch]
  BY DEF CopyBatch
<1>2. \A d : Key(ColdCopy(d, mgr[m].ver)) = Key(d)
  BY DEF Key, ColdCopy
<1>3. Keys(batch) \subseteq Keys(cold')
  BY <1>1, <1>2 DEF Keys
<1>4. /\ mgr'[m].todo = mgr[m].todo \ batch /\ mgr'[m].pc = mgr[m].pc
      /\ mgr'[m].ver = mgr[m].ver /\ mgr'[m].sync = mgr[m].sync /\ Others(m)
  BY <1>0, <1>1 DEF MgrState, Others
<1>5. Keys(cold) \subseteq Keys(cold')
  BY <1>1, <1>3 DEF Keys
<1>6. Keys(mgr[m].todo) \subseteq Keys(mgr'[m].todo) \cup Keys(cold')
  BY <1>3, <1>4 DEF Keys
<1>. QED
  BY <1>1, <1>4, <1>5, <1>6 DEF CopyBatch

LEMMA ColdKept ==
    ASSUME TypeOK, ColdInv, [Next]_vars, cold' = cold,
           \A m \in Managers : \A d \in mgr'[m].todo :
              d \in mgr[m].todo /\ mgr'[m].ver = mgr[m].ver
    PROVE  ColdInv'
<1>1. \A c \in cold' : Shows(data', c)
  BY ShownKept DEF ColdInv
<1>2. ASSUME NEW m \in Managers, NEW d \in mgr'[m].todo
      PROVE  Shows(data', ColdCopy(d, mgr'[m].ver))
  <2>1. PICK c : c = ColdCopy(d, mgr[m].ver)
    OBVIOUS
  <2>2. Shows(data, c)
    BY <1>2, <2>1 DEF ColdInv
  <2>3. Shows(data', c) /\ c = ColdCopy(d, mgr'[m].ver)
    BY <1>2, <2>1, <2>2, ShownKept
  <2>. QED
    BY <2>3 DEF Shows
<1>. QED
  BY <1>1, <1>2 DEF ColdInv

LEMMA ColdNext == TypeOK /\ VersionsInv /\ ColdInv /\ [Next]_vars => ColdInv'
<1>. SUFFICES ASSUME TypeOK, VersionsInv, ColdInv, [Next]_vars PROVE ColdInv'
  OBVIOUS
<1>0. mgr \in [Managers -> MgrState] /\ IdleMgr.todo = {}
  BY DEF TypeOK, IdleMgr
<1>1. CASE UNCHANGED vars
  BY <1>1, ColdKept DEF vars
<1>2. CASE Write
  <2>1. cold' = cold /\ mgr' = mgr
    BY <1>2 DEF Write, WrtNext, RdrNext, EditField, DeleteField, UploadData, DeleteData, InsertField,
                InsertClip, InsertMarker, ReadStudy, ReadData, FillCache, CreateField
  <2>. QED
    BY <2>1, ColdKept
<1>3. ASSUME NEW m \in Managers, OutdateCache(m) PROVE ColdInv'
  <2>1. /\ mgr'[m].todo \subseteq {d \in data : d.ver = mgr[m].ver} /\ mgr'[m].ver = mgr[m].ver
        /\ Others(m) /\ cold' = cold /\ data' = data /\ mgr[m].pc \in Creating
    BY <1>0, <1>3 DEF OutdateCache, MgrState, Others, Creating
  <2>2. mgr[m].ver # Null
    BY <2>1 DEF VersionsInv, Null
  <2>3. \A d \in mgr'[m].todo : Shows(data', ColdCopy(d, mgr'[m].ver))
    BY <2>1, <2>2 DEF Shows
  <2>4. \A n \in Managers : n # m =>
           \A d \in mgr'[n].todo : Shows(data', ColdCopy(d, mgr'[n].ver))
    BY <2>1 DEF Others, ColdInv, Shows
  <2>. QED
    BY <2>1, <2>3, <2>4 DEF ColdInv, Shows
<1>4. ASSUME NEW m \in Managers, CopyBatch(m) PROVE ColdInv'
  <2>1. data' = data
    BY <1>4 DEF CopyBatch
  <2>2. \A c \in cold' : Shows(data, c)
    BY <1>4, BatchEffect DEF ColdInv
  <2>3. \A n \in Managers : mgr'[n].todo \subseteq mgr[n].todo /\ mgr'[n].ver = mgr[n].ver
    BY <1>4, BatchEffect DEF Others
  <2>. QED
    BY <2>1, <2>2, <2>3 DEF ColdInv, Shows
<1>5. ASSUME NEW m \in Managers,
             \/ StampData(m) \/ StampFields(m) \/ CopyDone(m) \/ Aside(m)
             \/ PublishVersion(m) \/ FailVersion(m)
             \/ \E name \in Names, sync \in BOOLEAN : CreateDataVersion(m, name, sync)
      PROVE  ColdInv'
  <2>1. cold' = cold
    BY <1>5 DEF StampData, StampFields, CopyDone, Aside, SetCurrentRead, SetCurrentWrite, DeleteStudy,
                DeleteStudyFields, DeleteStudyData, PublishVersion, FailVersion, CreateDataVersion
  <2>2. Others(m)
    BY <1>5, ProgressEffect, AsideEffect, RestDocs DEF Progress
  <2>3. \A d \in mgr'[m].todo : d \in mgr[m].todo /\ mgr'[m].ver = mgr[m].ver
    <3>1. CASE StampData(m) \/ StampFields(m) \/ CopyDone(m)
      BY <1>0, <3>1 DEF StampData, StampFields, CopyDone, MgrState
    <3>2. CASE Aside(m)
      BY <1>0, <3>2 DEF Aside, SetCurrentRead, SetCurrentWrite, DeleteStudy, DeleteStudyFields,
                        DeleteStudyData, MgrState
    <3>3. CASE PublishVersion(m) \/ FailVersion(m)
      BY <1>0, <3>3 DEF PublishVersion, FailVersion
    <3>4. ASSUME NEW name \in Names, NEW sync \in BOOLEAN, CreateDataVersion(m, name, sync)
          PROVE  mgr'[m].todo = {}
      BY <1>0, <3>4 DEF CreateDataVersion, IdleMgr
    <3>. QED
      BY <1>5, <3>1, <3>2, <3>3, <3>4
  <2>. QED
    BY <2>1, <2>2, <2>3, ColdKept DEF Others
<1>. QED
  BY <1>1, <1>2, <1>3, <1>4, <1>5, Steps DEF Progress

\* Every document of cold storage is the copy of a clip stamped with the version it
\* shows, though batches of several creations and new stamps interleave
\* (createDataVersion in studyCore.ts).
THEOREM ColdCopied == Spec => []ColdIsCopy
<1>1. Init => ColdInv
  BY DEF Init, ColdInv, IdleMgr
<1>2. LogInv => TypeOK /\ VersionsInv
  BY DEF LogInv
<1>3. ColdInv => ColdIsCopy
  BY DEF ColdInv, ColdIsCopy, Shows
<1>. QED
  BY <1>1, <1>2, <1>3, LogInvCorrect, ColdNext, PTL DEF Spec

\* A step that adds no clip to the versions being copied, keeps the keys of cold
\* storage, and takes nothing from what is left to copy.
LEMMA CoverKept ==
    ASSUME CoverInv, Keys(cold) \subseteq Keys(cold'),
           \A e \in data' : e.ver # Null =>
              \/ \E d \in data : d.ver = e.ver /\ Key(d) = Key(e)
              \/ \A n \in Managers : mgr[n].pc \in {"copy", "publish"} => e.ver # mgr[n].ver,
           \A n \in Managers : mgr[n].pc \in {"copy", "publish"} => mgr[n].ver # Null,
           \A n \in Managers : mgr'[n].pc \in {"copy", "publish"} =>
              /\ mgr[n].pc \in {"copy", "publish"}
              /\ mgr'[n].ver = mgr[n].ver /\ mgr'[n].sync = mgr[n].sync
              /\ Keys(mgr[n].todo) \subseteq Keys(mgr'[n].todo) \cup Keys(cold')
              /\ mgr'[n].pc = "publish" => mgr'[n].todo = {}
    PROVE  CoverInv'
<1>1. ASSUME NEW n \in Managers, mgr'[n].pc \in {"copy", "publish"}, mgr'[n].sync,
             NEW e \in data', e.ver = mgr'[n].ver
      PROVE  Key(e) \in Keys(mgr'[n].todo) \cup Keys(cold')
  <2>1. mgr[n].pc \in {"copy", "publish"} /\ mgr[n].sync /\ e.ver = mgr[n].ver /\ e.ver # Null
    BY <1>1
  <2>2. PICK d \in data : d.ver = e.ver /\ Key(d) = Key(e)
    BY <2>1
  <2>3. Key(d) \in Keys(mgr[n].todo) \cup Keys(cold)
    BY <2>1, <2>2 DEF CoverInv
  <2>. QED
    BY <1>1, <2>2, <2>3
<1>. QED
  BY <1>1 DEF CoverInv

LEMMA CoverNext == TypeOK /\ VersionsInv /\ CoverInv /\ [Next]_vars => CoverInv'
<1>. SUFFICES ASSUME TypeOK, VersionsInv, CoverInv, [Next]_vars PROVE CoverInv'
  OBVIOUS
<1>. DEFINE Late == {"copy", "publish"}
<1>0. mgr \in [Managers -> MgrState]
  BY DEF TypeOK
<1>1. /\ \A n \in Managers : mgr[n].pc \in Late => mgr[n].ver # Null
      /\ \A n \in Managers : mgr[n].pc = "publish" => mgr[n].todo = {}
      /\ \A e \in data' : e.ver # Null =>
            \/ \E d \in data : d.ver = e.ver /\ Key(d) = Key(e)
            \/ \A n \in Managers : mgr[n].pc \in Late => e.ver # mgr[n].ver
  <2>1. \A n \in Managers : mgr[n].pc \in Late => mgr[n].ver # Null /\ mgr[n].pc \in Creating
    BY DEF VersionsInv, Creating, Null
  <2>2. ASSUME NEW m \in Managers, StampData(m), NEW n \in Managers, mgr[n].pc \in Late
        PROVE  mgr[n].ver # mgr[m].ver
    <3>1. mgr[m].pc = "stampData" /\ mgr[m].pc \in Creating
      BY <2>2 DEF StampData, Creating
    <3>. QED
      BY <2>1, <2>2, <3>1 DEF VersionsInv
  <2>. QED
    BY <2>1, <2>2, ClipsKept DEF CoverInv
<1>2. CASE UNCHANGED vars
  BY <1>1, <1>2, CoverKept DEF vars
<1>3. CASE Write
  <2>1. cold' = cold /\ mgr' = mgr
    BY <1>3 DEF Write, WrtNext, RdrNext, EditField, DeleteField, UploadData, DeleteData, InsertField,
                InsertClip, InsertMarker, ReadStudy, ReadData, FillCache, CreateField
  <2>. QED
    BY <1>1, <2>1, CoverKept
<1>4. ASSUME NEW m \in Managers, OutdateCache(m) PROVE CoverInv'
  <2>1. /\ mgr'[m].todo = IF mgr[m].sync THEN {d \in data : d.ver = mgr[m].ver} ELSE {}
        /\ mgr'[m].pc = IF mgr[m].sync THEN "copy" ELSE "publish"
        /\ mgr'[m].ver = mgr[m].ver /\ mgr'[m].sync = mgr[m].sync
        /\ Others(m) /\ cold' = cold /\ data' = data
    BY <1>0, <1>4 DEF OutdateCache, MgrState, Others
  <2>2. \A d \in data : d.ver = mgr[m].ver /\ mgr'[m].sync => Key(d) \in Keys(mgr'[m].todo)
    BY <2>1 DEF Keys
  <2>3. mgr'[m].pc = "publish" => mgr'[m].todo = {}
    BY <2>1
  <2>. QED
    BY <2>1, <2>2, <2>3 DEF CoverInv, Others
<1>5. ASSUME NEW m \in Managers, CopyBatch(m) PROVE CoverInv'
  <2>1. mgr[m].pc = "copy"
    BY <1>5 DEF CopyBatch
  <2>2. Keys(cold) \subseteq Keys(cold')
    BY <1>5, BatchEffect
  <2>3. \A n \in Managers : mgr'[n].pc \in Late =>
              /\ mgr[n].pc \in Late
              /\ mgr'[n].ver = mgr[n].ver /\ mgr'[n].sync = mgr[n].sync
              /\ Keys(mgr[n].todo) \subseteq Keys(mgr'[n].todo) \cup Keys(cold')
              /\ mgr'[n].pc = "publish" => mgr'[n].todo = {}
    BY <1>1, <1>5, <2>1, BatchEffect DEF Others
  <2>. QED
    BY <1>1, <2>2, <2>3, CoverKept
<1>6. ASSUME NEW m \in Managers, CopyDone(m) PROVE CoverInv'
  <2>1. /\ mgr[m].pc = "copy" /\ mgr[m].todo = {} /\ mgr'[m].todo = {} /\ cold' = cold
        /\ mgr'[m].ver = mgr[m].ver /\ mgr'[m].sync = mgr[m].sync /\ Others(m)
    BY <1>0, <1>6 DEF CopyDone, MgrState, Others
  <2>. QED
    BY <1>1, <2>1, CoverKept DEF Others
<1>7. ASSUME NEW m \in Managers,
             \/ StampData(m) \/ StampFields(m) \/ Aside(m)
             \/ PublishVersion(m) \/ FailVersion(m)
             \/ \E name \in Names, sync \in BOOLEAN : CreateDataVersion(m, name, sync)
      PROVE  CoverInv'
  <2>1. cold' = cold
    BY <1>7 DEF StampData, StampFields, Aside, SetCurrentRead, SetCurrentWrite, DeleteStudy,
                DeleteStudyFields, DeleteStudyData, PublishVersion, FailVersion, CreateDataVersion
  <2>2. Others(m)
    BY <1>7, ProgressEffect, AsideEffect, RestDocs DEF Progress
  <2>3. mgr'[m].pc \notin Late
    <3>1. CASE StampData(m) \/ StampFields(m)
      BY <1>0, <3>1 DEF StampData, StampFields, MgrState
    <3>2. CASE Aside(m)
      BY <3>2, AsideEffect DEF Creating
    <3>3. CASE PublishVersion(m) \/ FailVersion(m)
      BY <1>0, <3>3, IdleTypes DEF PublishVersion, FailVersion
    <3>4. ASSUME NEW name \in Names, NEW sync \in BOOLEAN, CreateDataVersion(m, name, sync)
          PROVE  mgr'[m].pc = "stampData"
      BY <3>4, IdleTypes DEF CreateDataVersion, TypeOK, MgrState, Others
    <3>. QED
      BY <1>7, <3>1, <3>2, <3>3, <3>4
  <2>. QED
    BY <1>1, <2>1, <2>2, <2>3, CoverKept DEF Others
<1>. QED
  BY <1>2, <1>3, <1>4, <1>5, <1>6, <1>7, Steps DEF Progress

\* Cold storage has a document of every key of a version whose copy is over, whatever
\* the size of a batch and whoever else copies (createDataVersion in studyCore.ts).
THEOREM ColdCovered == Spec => []ColdCovers
<1>1. Init => CoverInv
  BY IdleTypes DEF Init, CoverInv
<1>2. LogInv => TypeOK /\ VersionsInv
  BY DEF LogInv
<1>3. CoverInv => ColdCovers
  <2>. SUFFICES ASSUME CoverInv, NEW m \in Managers, mgr[m].pc = "publish", mgr[m].sync,
                       NEW d \in data, d.ver = mgr[m].ver
                PROVE  \E c \in cold : Key(c) = Key(d)
    BY DEF ColdCovers
  <2>1. Key(d) \in Keys(mgr[m].todo) \cup Keys(cold) /\ mgr[m].todo = {}
    BY DEF CoverInv
  <2>. QED
    BY <2>1 DEF Keys
<1>. QED
  BY <1>1, <1>2, <1>3, LogInvCorrect, CoverNext, PTL DEF Spec
=============================================================================
