----------------------------- MODULE DriveTree -----------------------------
(***************************************************************************)
(* The drives of users (driveCore.ts) with their files (fileCore.ts) and   *)
(* objects (objStore.ts): folders and files are made, uploaded with their  *)
(* folders, renamed, moved, handed over, shared, copied and deleted, from  *)
(* the web client and through WebDAV (dmpWebDAV.ts).                       *)
(*                                                                         *)
(* A drive keeps its place three times: `parent`, the `children` of its    *)
(* parent, and `path`.  They are written by different calls to the         *)
(* database, and deletion, copying and sharing follow `children` as they   *)
(* find them, one document at a time, while other requests are under way.  *)
(*                                                                         *)
(* Left out: descriptions, sizes and types of files (a size check is a     *)
(* request that may fail), times, the `delete` right, which nothing reads. *)
(***************************************************************************)
EXTENDS Naturals, Sequences

CONSTANTS
    Users,      \* live users; their deletion is not followed here
    Admins,     \* those of type ADMIN
    Drives,     \* ids of drives
    Owners,     \* those whose folder 'My Drive' was made: createUser makes it after the user
    Root,       \* its id
    Files,      \* ids of files, each with the uri of its object
    Names,      \* names of drives
    Rights,     \* lists of shared users: sets of pairs of a user and a right
    Edits,      \* what clients ask editDrive to set; `moves` goes with a folder
    Requests,   \* requests under way at the API server
    MaxBegun,   \* bound on the requests begun
    MaxFaults,  \* bound on failures and restarts
    Null

ASSUME PeopleAssumption == Users # {} /\ Admins \subseteq Users /\ Owners \subseteq Users
ASSUME RootAssumption ==
    /\ Root \in [Owners -> Drives]
    /\ \A u, v \in Owners : Root[u] = Root[v] => u = v
ASSUME RightsAssumption == Rights \subseteq SUBSET (Users \X {"read", "write"})
ASSUME EditsAssumption ==
    Edits \subseteq [manager : Users \cup {Null}, name : Names \cup {Null},
                    shared : Rights \cup {{}} \cup {Null}, moves : BOOLEAN]
ASSUME BoundAssumption == MaxBegun \in Nat /\ MaxFaults \in Nat
ASSUME NullAssumption == Null \notin Users \cup Drives \cup Files \cup Names \cup Rights

VARIABLES
    drives,    \* drives_collection
    files,     \* files_collection
    stored,    \* objects in the object store
    req,       \* progress of each request
    begun,     \* requests begun so far
    faults,    \* failures and restarts so far
    unlisted   \* drives that their request did not enter in their folder (history variable)

vars == <<drives, files, stored, req, begun, faults, unlisted>>

-----------------------------------------------------------------------------

Roots == {Root[u] : u \in Owners}
Maybe(S) == S \cup {Null}

\* `manager` is Null while it holds no user's id.
Drive == [kind : {"folder", "file"}, manager : Maybe(Users), name : Maybe(Names),
          parent : Maybe(Drives), children : SUBSET Drives, path : Seq(Maybe(Drives)),
          shared : Rights \cup {{}}, file : Maybe(Files), live : BOOLEAN]

\* No document is Null, which stands for its absence.
ASSUME DriveAssumption == Null \notin Drive

Ops == {"folder", "file", "upload", "edit", "share", "copy", "delete"}
Steps == {"idle", "part", "find", "put", "entry", "insert", "push", "set", "walk", "gather",
          "update", "link", "repath", "next", "paste", "mark", "files"}

\* What a handler has been asked and has read: the drive and the folder it works on, the
\* values it sets, the drives recursiveFindDrives has still to visit and has found, and the
\* parts of a path (upload) or the drives (share) it has still to deal with.
Request == [pc : Steps, op : Ops, user : Users, drive : Maybe(Drives), parent : Maybe(Drives),
            path : Seq(Maybe(Drives)), name : Maybe(Names), manager : Maybe(Users),
            shared : Maybe(Rights \cup {{}}), file : Maybe(Files), kind : {"folder", "file"},
            parts : Seq(Names), todo : SUBSET Drives, found : SUBSET Drives,
            rest : SUBSET Drives, alone : BOOLEAN]

SomeUser == CHOOSE u \in Users : TRUE
Idle == [pc |-> "idle", op |-> "folder", user |-> SomeUser, drive |-> Null, parent |-> Null,
         path |-> <<>>, name |-> Null, manager |-> Null, shared |-> Null, file |-> Null,
         kind |-> "folder", parts |-> <<>>, todo |-> {}, found |-> {},
         rest |-> {}, alone |-> FALSE]

Exists(d) == d # Null /\ drives[d] # Null
Live(d) == Exists(d) /\ drives[d].live
Folder(d) == Live(d) /\ drives[d].kind = "folder"
LiveDrives == {d \in Drives : Live(d)}
Below(p) == {d \in LiveDrives : drives[d].parent = p}

\* Fresh ids, which no document and no request holds.
FreshDrives == {d \in Drives : drives[d] = Null}
FreshFiles == Files \ stored

\* userCore.createUser makes each user's root: a restricted folder with no parent.
MyDrive(u) == [kind |-> "folder", manager |-> u, name |-> Null, parent |-> Null,
               children |-> {}, path |-> <<Root[u]>>, shared |-> {}, file |-> Null,
               live |-> TRUE]

Init ==
    /\ drives = [d \in Drives |-> IF d \in Roots
                                  THEN MyDrive(CHOOSE u \in Owners : Root[u] = d) ELSE Null]
    /\ files = [f \in Files |-> "none"]
    /\ stored = {}
    /\ req = [q \in Requests |-> Idle]
    /\ begun = 0 /\ faults = 0
    /\ unlisted = {}

-----------------------------------------------------------------------------
(* How requests begin, go on and end.                                      *)

MayBegin(q) == req[q].pc = "idle" /\ begun < MaxBegun

\* `alone` remembers that no other request has been under way since this one began.
Begin(q, r) ==
    /\ MayBegin(q)
    /\ begun' = begun + 1
    /\ req' = [p \in Requests |->
                IF p = q THEN [r EXCEPT !.alone = \A o \in Requests : req[o].pc = "idle"]
                ELSE [req[p] EXCEPT !.alone = FALSE]]

At(q, step) == req[q].pc = step
Goto(q, r) == req' = [req EXCEPT ![q] = r] /\ UNCHANGED begun
Then(q, step) == Goto(q, [req[q] EXCEPT !.pc = step])
End(q) == Goto(q, Idle)

May(u, d, right) == drives[d].manager = u \/ <<u, right>> \in drives[d].shared

\* A drive written and not yet entered in the folder it is in.
Pending(r) == r.op # "copy" /\ r.parent # Null /\ r.drive # Null
              /\ r.pc \in {"push", "walk", "update", "link"}
Dropped(r) == IF Pending(r) THEN {r.drive} ELSE {}

-----------------------------------------------------------------------------
(* createDriveFolder, createDriveFile and createRecursiveDrives.           *)

CreateDrive(q, u, p, n, kind) ==
    /\ Begin(q, [Idle EXCEPT !.pc = "find", !.op = kind, !.user = u, !.parent = p,
                              !.name = n, !.kind = kind])
    /\ UNCHANGED <<drives, files, stored, faults, unlisted>>

UploadTree(q, u, p, names, kind) ==
    /\ p # Null => Folder(p)
    /\ Begin(q, [Idle EXCEPT !.pc = "part", !.op = "upload", !.user = u, !.parent = p,
                              !.parts = names, !.kind = kind])
    /\ UNCHANGED <<drives, files, stored, faults, unlisted>>

\* One part of the path: what is there already is used, whatever it is, and what is not is
\* created.  A file that is there already is left alone.
NextPart(q) ==
    LET r == req[q]
        there == {d \in Below(r.parent) : drives[d].name = Head(r.parts)}
        last == Len(r.parts) = 1
    IN /\ At(q, "part")
       /\ \/ \E d \in there : IF last THEN End(q)
                              ELSE Goto(q, [r EXCEPT !.parent = d, !.parts = Tail(r.parts)])
          \/ /\ there = {}
             /\ Goto(q, [r EXCEPT !.pc = "find", !.name = Head(r.parts),
                                  !.parts = Tail(r.parts)])
       /\ UNCHANGED <<drives, files, stored, faults, unlisted>>

\* What the request makes next: folders up to the last part of its path.
MakesFile(r) == r.kind = "file" /\ r.parts = <<>>

\* Mutant of FindParent: what the folder is shared with is not taken over.
FindParentUnshared(q) ==
    LET r == req[q]
        accepted == {p \in {r.parent} \cap LiveDrives :
                       drives[p].kind = "folder" /\ drives[p].manager = r.user}
    IN /\ At(q, "find")
       /\ \/ accepted = {} /\ End(q)
          \/ \E p \in accepted :
               Goto(q, [r EXCEPT !.pc = IF MakesFile(r) THEN "put" ELSE "insert",
                                 !.parent = p, !.path = drives[p].path, !.shared = Null,
                                 !.manager = r.user])
       /\ UNCHANGED <<drives, files, stored, faults, unlisted>>

\* With no parent given the root of the user is used, even a deleted one.  Only the manager
\* may add a file; those the folder is shared with may add folders.  With no parent given
\* createDriveFile compares the name with the roots only.
FindParent(q) ==
    LET r == req[q]
        candidates == IF r.parent = Null
                      THEN {d \in Drives : Exists(d) /\ drives[d].parent = Null
                                           /\ drives[d].manager = r.user}
                      ELSE {r.parent} \cap LiveDrives
        twins == {d \in Below(IF MakesFile(r) THEN r.parent ELSE Null) :
                    drives[d].kind = "file" /\ drives[d].name = r.name}
        folders(p) == {d \in Below(p) : drives[d].kind = "folder" /\ drives[d].name = r.name}
        accepted == {p \in candidates :
            /\ drives[p].kind = "folder"
            /\ IF MakesFile(r) THEN drives[p].manager = r.user /\ twins = {}
               ELSE May(r.user, p, "write") /\ folders(p) = {}}
    IN /\ At(q, "find")
       /\ \/ accepted = {} /\ End(q)
          \/ \E p \in accepted :
               Goto(q, [r EXCEPT !.pc = IF MakesFile(r) THEN "put" ELSE "insert",
                                 !.parent = p, !.path = drives[p].path,
                                 !.shared = drives[p].shared,
                                 !.manager = IF MakesFile(r) THEN r.user
                                             ELSE drives[p].manager])
       /\ UNCHANGED <<drives, files, stored, faults, unlisted>>

\* uploadFile and handleFileUpload: the object first, then its entry.
PutObject(q) ==
    /\ At(q, "put")
    /\ \E f \in FreshFiles :
        /\ stored' = stored \cup {f}
        /\ Goto(q, [req[q] EXCEPT !.pc = "entry", !.file = f])
    /\ UNCHANGED <<drives, files, faults, unlisted>>

InsertEntry(q) ==
    /\ At(q, "entry")
    /\ files' = [files EXCEPT ![req[q].file] = "live"]
    /\ Then(q, "insert")
    /\ UNCHANGED <<drives, stored, faults, unlisted>>

InsertDrive(q) ==
    LET r == req[q] IN
    /\ At(q, "insert")
    /\ \E d \in FreshDrives :
        /\ drives' = [drives EXCEPT ![d] =
            [kind |-> IF MakesFile(r) THEN "file" ELSE "folder", manager |-> r.manager,
             name |-> r.name, parent |-> r.parent, children |-> {},
             path |-> Append(r.path, d), shared |-> r.shared, file |-> r.file, live |-> TRUE]]
        /\ Goto(q, [r EXCEPT !.pc = "push", !.drive = d])
    /\ UNCHANGED <<files, stored, faults, unlisted>>

PushChild(q) ==
    LET r == req[q] IN
    /\ At(q, "push")
    /\ drives' = [drives EXCEPT ![r.parent].children = @ \cup {r.drive}]
    /\ IF r.parts = <<>> THEN End(q)
       ELSE Goto(q, [r EXCEPT !.pc = "part", !.parent = r.drive, !.drive = Null])
    /\ UNCHANGED <<files, stored, faults, unlisted>>

-----------------------------------------------------------------------------
(* editDrive and shareDriveToUserViaEmail.                                 *)

\* recursiveFindDrives starts from the document its caller has read, however old.
Within(d) == IF drives[d].kind = "folder" THEN drives[d].children ELSE {}
From(r, d) == [r EXCEPT !.drive = d, !.todo = Within(d), !.found = {d}]

\* A new name must differ from those of the siblings in the old folder, a new folder must
\* be there.
EditAllowed(u, d, n, p) ==
    /\ Live(d)
    /\ u \in Admins \/ drives[d].manager = u
    /\ n # Null => \A e \in Below(drives[d].parent) : drives[e].name # n
    /\ p # Null => Live(p)

EditDrive(q, u, d, e, p) ==
    /\ EditAllowed(u, d, e.name, p)
    /\ Begin(q, From([Idle EXCEPT !.pc = "set", !.op = "edit", !.manager = e.manager,
                                   !.name = e.name, !.parent = p, !.shared = e.shared], d))
    /\ UNCHANGED <<drives, files, stored, faults, unlisted>>

ShareDrive(q, u, d, s) ==
    /\ Live(d) /\ drives[d].manager = u
    /\ Begin(q, From([Idle EXCEPT !.pc = "gather", !.op = "share", !.user = u,
                                   !.shared = s], d))
    /\ UNCHANGED <<drives, files, stored, faults, unlisted>>

\* The next drive of those found is edited in its turn; one that is no longer there is left
\* out, and one the user no longer manages ends the request.
NextShare(q) ==
    LET r == req[q] IN
    /\ At(q, "next")
    /\ IF r.rest = {} THEN End(q)
       ELSE \E d \in r.rest :
              IF ~Live(d) THEN Goto(q, [r EXCEPT !.rest = r.rest \ {d}])
              ELSE IF ~EditAllowed(r.user, d, Null, Null) THEN End(q)
              ELSE Goto(q, From([r EXCEPT !.pc = "set", !.rest = r.rest \ {d}], d))
    /\ UNCHANGED <<drives, files, stored, faults, unlisted>>

\* What is not given stays as it is.
Given(new, old) == IF new # Null THEN new ELSE old

\* The whole document of the new manager is stored in managerId here; its id follows below.
SetDrive(q) ==
    LET r == req[q]
        d == r.drive
        recursive == r.shared # Null \/ r.manager # Null
    IN /\ At(q, "set")
       /\ drives' = [drives EXCEPT ![d].manager = IF r.manager # Null THEN Null ELSE @,
                                   ![d].name = Given(r.name, @),
                                   ![d].parent = Given(r.parent, @),
                                   ![d].shared = Given(r.shared, @)]
       /\ IF recursive THEN Then(q, "walk")
          ELSE IF r.parent # Null THEN Goto(q, [r EXCEPT !.pc = "link", !.todo = {}])
          ELSE End(q)
       /\ UNCHANGED <<files, stored, faults, unlisted>>

\* Mutant of Visit: only what lies directly in the folder is found.
VisitOneLevel(q) ==
    LET r == req[q]
        after == CASE r.op = "edit" -> "update"
                   [] r.op = "share" -> "update"
                   [] r.op = "copy" -> "paste"
                   [] r.op = "delete" -> "mark"
    IN /\ r.pc \in {"walk", "gather"}
       /\ Goto(q, [r EXCEPT !.pc = IF r.pc = "gather" THEN "next" ELSE after, !.todo = {},
                            !.found = r.found \cup (r.todo \cap LiveDrives),
                            !.rest = r.found \cup (r.todo \cap LiveDrives)])
       /\ UNCHANGED <<drives, files, stored, faults, unlisted>>

\* recursiveFindDrives, one document at a time; the order is left open.
Visit(q) ==
    LET r == req[q]
        after == CASE r.op = "edit" -> "update"
                   [] r.op = "share" -> "update"
                   [] r.op = "copy" -> "paste"
                   [] r.op = "delete" -> "mark"
    IN /\ r.pc \in {"walk", "gather"}
       /\ \/ \E d \in r.todo :
               Goto(q, IF Live(d)
                       THEN [r EXCEPT !.todo = (r.todo \ {d}) \cup Within(d),
                                      !.found = r.found \cup {d}]
                       ELSE [r EXCEPT !.todo = r.todo \ {d}])
          \/ /\ r.todo = {}
             /\ IF r.pc = "gather" THEN Goto(q, [r EXCEPT !.pc = "next", !.rest = r.found])
                ELSE Then(q, after)
       /\ UNCHANGED <<drives, files, stored, faults, unlisted>>

UpdateFound(q) ==
    LET r == req[q] IN
    /\ At(q, "update")
    /\ drives' = [d \in Drives |->
         IF d \in r.found /\ Exists(d)
         THEN [drives[d] EXCEPT !.manager = Given(r.manager, @),
                                !.shared = Given(r.shared, @)]
         ELSE drives[d]]
    /\ CASE r.op = "share" -> Then(q, "next")
         [] r.parent # Null -> Then(q, "link")
         [] OTHER -> End(q)
    /\ UNCHANGED <<files, stored, faults, unlisted>>

\* Mutant of LinkParent: the new folder is not given the child.
LinkParentUnlisted(q) ==
    LET r == req[q] IN
    /\ At(q, "link")
    /\ IF Live(r.parent) THEN Goto(q, [r EXCEPT !.pc = "repath", !.path = drives[r.parent].path])
       ELSE End(q)
    /\ UNCHANGED <<drives, files, stored, faults, unlisted>>

\* A move: the new folder is read again and given the child; the old one keeps it.
LinkParent(q) ==
    LET r == req[q] IN
    /\ At(q, "link")
    /\ IF Live(r.parent)
       THEN /\ drives' = [drives EXCEPT ![r.parent].children = @ \cup {r.drive}]
            /\ Goto(q, [r EXCEPT !.pc = "repath", !.path = drives[r.parent].path])
       ELSE End(q) /\ UNCHANGED drives
    /\ UNCHANGED <<files, stored, faults, unlisted>>

Suffix(path, d) ==
    LET at == {i \in 1..Len(path) : path[i] = d}
    IN IF at = {} THEN <<>>
       ELSE SubSeq(path, CHOOSE i \in at : \A j \in at : i <= j, Len(path))

RepathFound(q) ==
    LET r == req[q] IN
    /\ At(q, "repath")
    /\ drives' = [d \in Drives |->
         IF d \in r.found /\ Exists(d)
         THEN [drives[d] EXCEPT !.path = r.path \o Suffix(drives[d].path, r.drive)]
         ELSE drives[d]]
    /\ End(q)
    /\ UNCHANGED <<files, stored, faults, unlisted>>

-----------------------------------------------------------------------------
(* copyDrive and deleteDrive.                                              *)

CopyDrive(q, u, d, p) ==
    /\ Live(d) /\ drives[d].parent # Null /\ May(u, d, "read")
    /\ Live(p) /\ May(u, p, "write")
    /\ Begin(q, From([Idle EXCEPT !.pc = "walk", !.op = "copy", !.user = u, !.parent = p,
                                   !.path = drives[p].path], d))
    /\ UNCHANGED <<drives, files, stored, faults, unlisted>>

\* Mutant of PasteCopies: a copied file keeps the id of the original's file.
PasteShared(q) ==
    LET r == req[q] IN
    /\ At(q, "paste")
    /\ \E id \in [r.found -> FreshDrives] :
        /\ \A c, d \in r.found : id[c] = id[d] => c = d
        /\ drives' = [e \in Drives |->
             IF \E d \in r.found : id[d] = e
             THEN [drives[CHOOSE d \in r.found : id[d] = e]
                     EXCEPT !.parent = r.parent, !.children = {}, !.manager = r.user]
             ELSE drives[e]]
        /\ unlisted' = unlisted \cup {id[d] : d \in r.found}
    /\ End(q)
    /\ UNCHANGED <<files, stored, faults>>

\* Drives are copied without their shares, each object under a new uri, which the copy holds
\* as its file's id; no entry is made for it.  A file without an entry is left out.  The
\* folder copied to is not told of its new child.
PasteCopies(q) ==
    LET r == req[q]
        hasFile == {d \in r.found : drives[d].file # Null}
        copied == {d \in r.found : drives[d].parent # Null
                                   /\ (d \in hasFile => files[drives[d].file] # "none")}
    IN /\ At(q, "paste")
       /\ \E id \in [copied -> FreshDrives], uri \in [copied \cap hasFile -> FreshFiles] :
            LET new(d) == IF d \in copied THEN id[d] ELSE Null
                tail(d) == LET t == Suffix(drives[d].path, r.drive)
                           IN IF t = <<>> THEN SubSeq(drives[d].path, Len(drives[d].path),
                                                      Len(drives[d].path))
                              ELSE t
                paste(d) ==
                  [kind |-> drives[d].kind, manager |-> r.user, name |-> drives[d].name,
                   parent |-> IF drives[d].parent \in copied THEN new(drives[d].parent)
                              ELSE r.parent,
                   children |-> {id[c] : c \in drives[d].children \cap copied},
                   path |-> r.path \o [i \in 1..Len(tail(d)) |-> new(tail(d)[i])],
                   shared |-> {},
                   file |-> IF d \in hasFile THEN uri[d] ELSE Null, live |-> TRUE]
                tops == {d \in copied : drives[d].parent \notin copied
                                        \/ d \notin drives[drives[d].parent].children}
            IN /\ \A c, d \in copied : id[c] = id[d] => c = d
               /\ \A c, d \in copied \cap hasFile : uri[c] = uri[d] => c = d
               /\ drives' = [e \in Drives |-> IF \E d \in copied : id[d] = e
                                              THEN paste(CHOOSE d \in copied : id[d] = e)
                                              ELSE drives[e]]
               /\ stored' = stored \cup {uri[d] : d \in copied \cap hasFile}
               /\ unlisted' = unlisted \cup {id[d] : d \in tops}
       /\ End(q)
       /\ UNCHANGED <<files, faults>>

\* Restricted drives, which the roots are, and drives in no folder are not deleted.
DeleteDrive(q, u, d) ==
    /\ Live(d) /\ d \notin Roots /\ drives[d].parent # Null
    /\ Begin(q, From([Idle EXCEPT !.pc = "walk", !.op = "delete"], d))
    /\ UNCHANGED <<drives, files, stored, faults, unlisted>>

MarkDrives(q) ==
    LET r == req[q] IN
    /\ At(q, "mark")
    /\ drives' = [d \in Drives |-> IF d \in r.found /\ Exists(d)
                                   THEN [drives[d] EXCEPT !.live = FALSE] ELSE drives[d]]
    /\ Then(q, "files")
    /\ UNCHANGED <<files, stored, faults, unlisted>>

\* The pull of the child from its folder is sent to files_collection, where it finds nothing.
MarkFiles(q) ==
    /\ At(q, "files")
    /\ files' = [f \in Files |->
                 IF files[f] # "none" /\ \E d \in req[q].found : drives[d].file = f
                 THEN "deleted" ELSE files[f]]
    /\ End(q)
    /\ UNCHANGED <<drives, stored, faults, unlisted>>

-----------------------------------------------------------------------------
(* WebDAV: paths are looked up among the drives the user manages, and the   *)
(* request goes to the core with the id found.                             *)

Own(u) == {d \in LiveDrives : drives[d].manager = u}
NameAt(d, i) == LET e == drives[d].path[i] IN IF Exists(e) THEN drives[e].name ELSE Null

\* Comparing a path that leads through a drive that is not the user's own ends in an error,
\* unless an earlier part differs.
Comparable(u, d, candidates) ==
    \A e \in candidates : \A i \in 1..Len(drives[e].path) :
        \/ drives[e].path[i] \in Own(u)
        \/ \E j \in 1..(i - 1) : j \in DOMAIN drives[d].path => NameAt(e, j) # NameAt(d, j)

Resolves(u, d) ==
    /\ d \in Own(u)
    /\ Comparable(u, d, {e \in Own(u) : Len(drives[e].path) = Len(drives[d].path)})

DavWrite(q, u, p, n) == Resolves(u, p) /\ CreateDrive(q, u, p, n, "file")
DavMkcol(q, u, p, n) ==
    Resolves(u, p) /\ Comparable(u, p, Own(u)) /\ CreateDrive(q, u, p, n, "folder")
DavDelete(q, u, d) == Resolves(u, d) /\ DeleteDrive(q, u, d)

-----------------------------------------------------------------------------

\* An error of the database or the object store, an exceeded size, or a refusal ends a
\* request wherever it is; a restart ends all.
Fail(q) ==
    /\ req[q].pc # "idle"
    /\ faults < MaxFaults /\ faults' = faults + 1
    /\ End(q)
    /\ unlisted' = unlisted \cup Dropped(req[q])
    /\ UNCHANGED <<drives, files, stored>>

Restart ==
    /\ \E q \in Requests : req[q].pc # "idle"
    /\ faults < MaxFaults /\ faults' = faults + 1
    /\ req' = [q \in Requests |-> Idle]
    /\ unlisted' = unlisted \cup UNION {Dropped(req[q]) : q \in Requests}
    /\ UNCHANGED <<drives, files, stored, begun>>

Step(q) ==
    \/ NextPart(q) \/ FindParent(q) \/ PutObject(q) \/ InsertEntry(q) \/ InsertDrive(q)
    \/ PushChild(q) \/ NextShare(q) \/ SetDrive(q) \/ Visit(q) \/ UpdateFound(q)
    \/ LinkParent(q) \/ RepathFound(q) \/ PasteCopies(q) \/ MarkDrives(q) \/ MarkFiles(q)

Ask(q, u) ==
    \/ \E p \in Maybe(Drives), n \in Names, k \in {"folder", "file"} : CreateDrive(q, u, p, n, k)
    \/ \E p \in Maybe(Drives), n, m \in Names, k \in {"folder", "file"} :
          UploadTree(q, u, p, <<n, m>>, k)
    \/ \E d \in Drives, e \in Edits, p \in Maybe(Drives) :
          (p # Null <=> e.moves) /\ EditDrive(q, u, d, e, p)
    \/ \E d \in Drives, s \in Rights : ShareDrive(q, u, d, s)
    \/ \E d, p \in Drives : CopyDrive(q, u, d, p)
    \/ \E d \in Drives : DeleteDrive(q, u, d)
    \/ \E p \in Drives, n \in Names : DavWrite(q, u, p, n) \/ DavMkcol(q, u, p, n)
    \/ \E d \in Drives : DavDelete(q, u, d)

Next ==
    \/ \E q \in Requests : Step(q) \/ Fail(q)
    \/ \E q \in Requests : MayBegin(q) /\ \E u \in Users : Ask(q, u)
    \/ Restart

Spec == Init /\ [][Next]_vars

-----------------------------------------------------------------------------

TypeOK ==
    /\ drives \in [Drives -> Drive \cup {Null}]
    /\ files \in [Files -> {"none", "live", "deleted"}]
    /\ stored \subseteq Files
    /\ req \in [Requests -> Request]
    /\ begun \in Nat /\ faults \in Nat
    /\ unlisted \subseteq Drives

\* deleteDrive marks the drives before their files, and a copy has an object of its own: a
\* drive that is shown never leads to a file that is marked as deleted, and every file a drive
\* or an entry names is in the object store, whatever requests overlap, fail or die.
FileKept ==
    /\ \A d \in LiveDrives : drives[d].file # Null => files[drives[d].file] # "deleted"
    /\ \A f \in Files : files[f] # "none" => f \in stored
    /\ \A d \in Drives : Exists(d) /\ drives[d].file # Null => drives[d].file \in stored

\* The three places agree as far as deletion, sharing and copying rely on them: a drive in a
\* folder that is still there is among the folder's children, unless the request that put it
\* there has yet to say so, died before it could, or was a copy.
ChildrenComplete ==
    \A d \in LiveDrives :
        Folder(drives[d].parent) /\ d \notin unlisted =>
            \/ d \in drives[drives[d].parent].children
            \/ \E q \in Requests : Pending(req[q]) /\ req[q].drive = d
                                   /\ req[q].parent = drives[d].parent

\* A deletion that no other request overlapped leaves no drive behind in a folder it removes:
\* what it finds is closed under the folders' contents.
DeletionComplete ==
    [][\A q \in Requests : MarkDrives(q) /\ req[q].alone =>
         \A d \in LiveDrives \ unlisted :
            Folder(drives[d].parent) /\ drives[d].parent \in req[q].found => d \in req[q].found]_vars

\* recursiveFindDrives says it finds "the files and file nodes that are in the same tree"
\* (driveCore.ts:761): what a deletion that no other request overlapped removes is the drive
\* it was asked for and drives whose folder is removed with them.  A drive that was moved out
\* of the folder is removed with it, because the folder still has it among its children.
RemovesOnlyWithin ==
    [][\A q \in Requests : MarkDrives(q) /\ req[q].alone =>
         \A d \in req[q].found : d = req[q].drive \/ drives[d].parent \in req[q].found]_vars

=============================================================================
