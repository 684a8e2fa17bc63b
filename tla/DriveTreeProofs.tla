--------------------------- MODULE DriveTreeProofs --------------------------
(***************************************************************************)
(* TypeOK, FileKept, ChildrenComplete and DeletionComplete of DriveTree,   *)
(* for all users, drives, files, requests and bounds.                      *)
(***************************************************************************)
EXTENDS DriveTree, SequenceTheorems, WellFoundedInduction, NaturalsInduction, TLAPS

-----------------------------------------------------------------------------
(* The inductive invariant: types first.                                   *)

\* What a request still knows of its own progress.  The drives it has read stay in the
\* collection, since a deletion only marks them.
Shape(r) ==
    /\ r \in Request
    /\ r.pc \in {"part", "find", "put", "entry", "insert", "push"}
         => r.op \in {"folder", "file", "upload"}
    /\ r.pc \in {"set", "update"} => r.op \in {"edit", "share"}
    /\ r.pc \in {"gather", "next"} => r.op = "share"
    /\ r.pc = "walk" => r.op \in {"edit", "share", "copy", "delete"}
    /\ r.pc = "paste" => r.op = "copy"
    /\ r.pc \in {"mark", "files"} => r.op = "delete"
    /\ r.op \in {"share", "delete"} => r.parent = Null
    /\ r.pc \in {"put", "entry", "insert", "push"} => Exists(r.parent)
    /\ r.pc \in {"push", "set", "walk", "update", "link", "repath"} => Exists(r.drive)
    /\ r.pc \in {"set", "walk", "update", "link", "repath", "paste"} /\ r.parent # Null
         => Exists(r.parent)
    /\ \A d \in r.found : Exists(d)
    /\ r.pc \in {"put", "entry", "insert"} => r.shared \in Rights \cup {{}}
    /\ r.pc = "part" => r.parts # <<>>
    /\ r.pc \in {"part", "find", "put"} => r.file = Null
    /\ r.pc = "entry" => r.file # Null
    /\ r.pc \in {"put", "entry"} => r.parts = <<>>
    /\ r.pc \in {"insert", "push"} /\ r.file # Null => r.parts = <<>>

ParentsExist == \A d \in Drives : Exists(d) /\ drives[d].parent # Null => Exists(drives[d].parent)

TypeInv == TypeOK /\ ParentsExist /\ \A q \in Requests : Shape(req[q])

\* What no step takes back.
Kept ==
    \A d \in Drives : Exists(d) =>
        /\ Exists(d)'
        /\ drives'[d].kind = drives[d].kind /\ drives'[d].file = drives[d].file
        /\ drives'[d].live => drives[d].live
        /\ drives[d].children \subseteq drives'[d].children

-----------------------------------------------------------------------------
(* Files and objects.                                                      *)

\* A request that is about to name a file in a drive.
Holds(r) == r.pc \in {"entry", "insert"} /\ r.file # Null

Free(f) == \A d \in Drives : Exists(d) => drives[d].file # f

\* Its object is there, no drive has it yet, so no deletion has reached its entry.
Holding(r) ==
    Holds(r) => r.file \in stored /\ Free(r.file) /\ files[r.file] # "deleted"

\* What deleteDrive has found is marked before the files are.
Marked(r) == r.pc = "files" => \A d \in r.found : ~Live(d)

\* No two drives have the same file, and no two requests are about to make one of it.
DrivesApart ==
    \A c, d \in Drives : Exists(c) /\ Exists(d) /\ drives[c].file = drives[d].file
        => c = d \/ drives[c].file = Null

HoldersApart ==
    \A p, q \in Requests : Holds(req[p]) /\ Holds(req[q]) /\ req[p].file = req[q].file => p = q

FileInv ==
    /\ FileKept /\ DrivesApart /\ HoldersApart
    /\ \A q \in Requests : Holding(req[q]) /\ Marked(req[q])

-----------------------------------------------------------------------------
(* Deletions that nothing overlaps.                                        *)

AloneMeansAlone ==
    \A p, q \in Requests : req[q].alone /\ req[p].pc # "idle" => p = q

\* The folders found have all their live children found or still to be visited.
Closed(r) ==
    r.alone /\ r.op = "delete" /\ r.pc \in {"walk", "mark"} =>
        /\ \A p \in r.found : Folder(p) =>
              \A d \in drives[p].children : Live(d) => d \in r.found \cup r.todo
        /\ r.pc = "mark" => r.todo = {}

AloneInv == AloneMeansAlone /\ \A q \in Requests : Closed(req[q])

-----------------------------------------------------------------------------
(* Documents, sequences and requests.                                      *)

LEMMA Document ==
    ASSUME TypeOK, NEW d \in Maybe(Drives), Exists(d)
    PROVE  d \in Drives /\ drives[d] \in Drive
  BY DEF TypeOK, Exists, Maybe

LEMMA LeastPlace ==
    ASSUME NEW T, T \subseteq Nat, T # {}
    PROVE  \E i \in T : \A j \in T : i <= j
<1>1. PICK i \in T : \A j \in T : ~ (<<j, i>> \in OpToRel(<, Nat))
  BY NatLessThanWellFounded, WFMin
<1>2. \A j \in T : ~ (j < i)
  BY <1>1 DEF OpToRel
<1> QED
  BY <1>2

LEMMA SuffixType ==
    ASSUME NEW S, NEW path \in Seq(S), NEW d
    PROVE  Suffix(path, d) \in Seq(S)
<1> DEFINE at == {i \in 1..Len(path) : path[i] = d}
<1>1. Len(path) \in Nat
  BY LenProperties
<1>2. CASE at = {}
  BY <1>2 DEF Suffix
<1>3. CASE at # {}
  <2> DEFINE k == CHOOSE i \in at : \A j \in at : i <= j
  <2>1. at \subseteq Nat
    BY <1>1
  <2>2. \E i \in at : \A j \in at : i <= j
    BY <1>3, <2>1, LeastPlace
  <2>3. k \in at
    BY <2>2
  <2>4. k \in 1..Len(path)
    BY <2>3
  <2> HIDE DEF k
  <2>5. k \in Int /\ \A i \in k..Len(path) : path[i] \in S
    BY <1>1, <2>4, ElementOfSeq
  <2>6. SubSeq(path, k, Len(path)) \in Seq(S)
    BY <1>1, <2>5, SubSeqProperties
  <2> QED
    BY <1>3, <2>6 DEF Suffix, k
<1> QED
  BY <1>2, <1>3

LEMMA IdleShape == Shape(Idle) /\ Shape(Idle)'
<1>1. SomeUser \in Users
  BY PeopleAssumption DEF SomeUser
<1>2. Idle \in Request
  BY <1>1 DEF Idle, Request, Steps, Ops, Maybe
<1> QED
  BY <1>2 DEF Shape, Idle

LEMMA ShapeKept ==
    ASSUME TypeOK, NEW r, Shape(r), Kept
    PROVE  Shape(r)'
<1>1. r.drive \in Maybe(Drives) /\ r.parent \in Maybe(Drives) /\ r.found \subseteq Drives
  BY DEF Shape, Request
<1>2. ASSUME NEW d \in Maybe(Drives), Exists(d) PROVE Exists(d)'
  BY <1>2, Document DEF Kept
<1>3. \A d \in r.found : d \in Maybe(Drives)
  BY <1>1 DEF Maybe
<1> QED
  BY <1>1, <1>2, <1>3 DEF Shape

LEMMA SameDrives == UNCHANGED drives => Kept
  BY DEF Kept, Exists

\* A step of one request keeps the types when it keeps those of what it writes.
LEMMA ShapedTypes ==
    ASSUME TypeInv, NEW q \in Requests, NEW r, Shape(r)', Kept, ParentsExist',
           req' = [req EXCEPT ![q] = r],
           drives' \in [Drives -> Drive \cup {Null}],
           files' \in [Files -> {"none", "live", "deleted"}], stored' \subseteq Files,
           begun' \in Nat, faults' \in Nat, unlisted' \subseteq Drives
    PROVE  TypeInv'
<1>1. r \in Request
  BY DEF Shape
<1>2. req \in [Requests -> Request] /\ TypeOK
  BY DEF TypeInv, TypeOK
<1>3. ASSUME NEW p \in Requests PROVE Shape(req[p])'
  <2>1. CASE p = q
    BY <1>2, <2>1
  <2>2. CASE p # q
    BY <1>2, <2>2, ShapeKept DEF TypeInv
  <2> QED
    BY <2>1, <2>2
<1> QED
  BY <1>1, <1>2, <1>3 DEF TypeInv, TypeOK

LEMMA StepTypes ==
    ASSUME TypeInv, NEW q \in Requests, NEW r, Shape(r), Kept, ParentsExist',
           req' = [req EXCEPT ![q] = r],
           drives' \in [Drives -> Drive \cup {Null}],
           files' \in [Files -> {"none", "live", "deleted"}], stored' \subseteq Files,
           begun' \in Nat, faults' \in Nat, unlisted' \subseteq Drives
    PROVE  TypeInv'
<1>1. Shape(r)'
  BY ShapeKept DEF TypeInv
<1> QED
  BY <1>1, ShapedTypes

\* One that writes no drive, file or object.
LEMMA QuietTypes ==
    ASSUME TypeInv, NEW q \in Requests, NEW r, Shape(r), req' = [req EXCEPT ![q] = r],
           UNCHANGED <<drives, files, stored, begun, faults, unlisted>>
    PROVE  TypeInv'
<1>1. Kept /\ ParentsExist'
  BY SameDrives DEF TypeInv, ParentsExist, Exists
<1> QED
  BY <1>1, StepTypes DEF TypeInv, TypeOK

-----------------------------------------------------------------------------
(* How requests begin.                                                     *)

\* What a request is when it begins: it holds nothing, and a deletion starts from one drive.
Fresh(r) ==
    /\ Shape(r) /\ r.file = Null
    /\ r.pc \in {"part", "find", "set", "gather", "walk"}
    /\ r.op = "delete" => r.drive \in Drives /\ r.found = {r.drive} /\ r.todo = Within(r.drive)

Asked(q, r) == Begin(q, r) /\ Fresh(r) /\ UNCHANGED <<drives, files, stored, faults, unlisted>>

LEMMA IdleRequest == Idle \in Request /\ Idle.file = Null /\ Idle.op # "delete"
  BY IdleShape DEF Shape, Idle

LEMMA FromDrive ==
    ASSUME TypeOK, NEW r \in Request, NEW d \in Drives, Exists(d)
    PROVE  /\ From(r, d) \in Request
           /\ From(r, d).drive = d /\ From(r, d).found = {d} /\ From(r, d).todo = Within(d)
           /\ Within(d) \subseteq Drives
<1>1. drives[d] \in Drive
  BY Document DEF Maybe
<1>2. Within(d) \subseteq Drives
  BY <1>1 DEF Within, Drive
<1> QED
  BY <1>2 DEF From, Request, Maybe

LEMMA CreateAsked ==
    ASSUME TypeInv, NEW q \in Requests, NEW u \in Users, NEW p \in Maybe(Drives), NEW n \in Names,
           NEW kind \in {"folder", "file"}, CreateDrive(q, u, p, n, kind)
    PROVE  \E r : Asked(q, r)
<1> DEFINE r == [Idle EXCEPT !.pc = "find", !.op = kind, !.user = u, !.parent = p,
                              !.name = n, !.kind = kind]
<1>1. n \in Maybe(Names) /\ kind \in Ops
  BY DEF Maybe, Ops
<1>2. r \in Request
  BY <1>1, IdleRequest DEF Request, Steps
<1>3. Fresh(r)
  BY <1>2, IdleRequest DEF Fresh, Shape, Request, Idle
<1> QED
  BY <1>3 DEF CreateDrive, Asked

LEMMA UploadAsked ==
    ASSUME TypeInv, NEW q \in Requests, NEW u \in Users, NEW p \in Maybe(Drives), NEW n \in Names,
           NEW m \in Names, NEW kind \in {"folder", "file"}, UploadTree(q, u, p, <<n, m>>, kind)
    PROVE  \E r : Asked(q, r)
<1> DEFINE r == [Idle EXCEPT !.pc = "part", !.op = "upload", !.user = u, !.parent = p,
                              !.parts = <<n, m>>, !.kind = kind]
<1>1. <<n, m>> \in Seq(Names) /\ <<n, m>> # <<>>
  OBVIOUS
<1>2. r \in Request
  BY <1>1, IdleRequest DEF Request, Steps, Ops
<1>3. Fresh(r)
  BY <1>1, <1>2, IdleRequest DEF Fresh, Shape, Request, Idle
<1> QED
  BY <1>3 DEF UploadTree, Asked

LEMMA EditAsked ==
    ASSUME TypeInv, NEW q \in Requests, NEW u \in Users, NEW d \in Drives, NEW e \in Edits,
           NEW p \in Maybe(Drives), EditDrive(q, u, d, e, p)
    PROVE  \E r : Asked(q, r)
<1> DEFINE s == [Idle EXCEPT !.pc = "set", !.op = "edit", !.manager = e.manager,
                              !.name = e.name, !.parent = p, !.shared = e.shared]
           r == From(s, d)
<1>1. Exists(d) /\ (p # Null => Exists(p))
  BY DEF EditDrive, EditAllowed, Live
<1>2. /\ e.manager \in Maybe(Users) /\ e.name \in Maybe(Names)
      /\ e.shared \in Maybe(Rights \cup {{}})
  BY EditsAssumption DEF Maybe
<1>3. s \in Request
  BY <1>2, IdleRequest DEF Request, Steps, Ops
<1>4. r \in Request /\ r.found = {d} /\ r.drive = d
  BY <1>1, <1>3, FromDrive DEF TypeInv
<1>5. r.pc = "set" /\ r.op = "edit" /\ r.parent = p /\ r.file = Null
  BY <1>3, IdleRequest DEF From, Request
<1>6. Fresh(r)
  BY <1>1, <1>4, <1>5 DEF Fresh, Shape
<1> QED
  BY <1>6 DEF EditDrive, Asked

LEMMA ShareAsked ==
    ASSUME TypeInv, NEW q \in Requests, NEW u \in Users, NEW d \in Drives, NEW rights \in Rights,
           ShareDrive(q, u, d, rights)
    PROVE  \E r : Asked(q, r)
<1> DEFINE s == [Idle EXCEPT !.pc = "gather", !.op = "share", !.user = u, !.shared = rights]
           r == From(s, d)
<1>1. Exists(d) /\ rights \in Maybe(Rights \cup {{}})
  BY DEF ShareDrive, Live, Maybe
<1>2. s \in Request
  BY <1>1, IdleRequest DEF Request, Steps, Ops
<1>3. r \in Request /\ r.found = {d} /\ r.drive = d
  BY <1>1, <1>2, FromDrive DEF TypeInv
<1>4. r.pc = "gather" /\ r.op = "share" /\ r.parent = Null /\ r.file = Null
  BY <1>2, IdleRequest DEF From, Request, Idle
<1>5. Fresh(r)
  BY <1>1, <1>3, <1>4 DEF Fresh, Shape
<1> QED
  BY <1>5 DEF ShareDrive, Asked

LEMMA CopyAsked ==
    ASSUME TypeInv, NEW q \in Requests, NEW u \in Users, NEW d \in Drives, NEW p \in Drives,
           CopyDrive(q, u, d, p)
    PROVE  \E r : Asked(q, r)
<1> DEFINE s == [Idle EXCEPT !.pc = "walk", !.op = "copy", !.user = u, !.parent = p,
                              !.path = drives[p].path]
           r == From(s, d)
<1>1. Exists(d) /\ Exists(p)
  BY DEF CopyDrive, Live
<1>2. drives[p].path \in Seq(Maybe(Drives)) /\ p \in Maybe(Drives)
  BY <1>1, Document DEF TypeInv, Maybe, Drive
<1>3. s \in Request
  BY <1>2, IdleRequest DEF Request, Steps, Ops
<1>4. r \in Request /\ r.found = {d} /\ r.drive = d
  BY <1>1, <1>3, FromDrive DEF TypeInv
<1>5. r.pc = "walk" /\ r.op = "copy" /\ r.parent = p /\ r.file = Null
  BY <1>3, IdleRequest DEF From, Request
<1>6. Fresh(r)
  BY <1>1, <1>4, <1>5 DEF Fresh, Shape
<1> QED
  BY <1>6 DEF CopyDrive, Asked

LEMMA DeleteAsked ==
    ASSUME TypeInv, NEW q \in Requests, NEW u \in Users, NEW d \in Drives, DeleteDrive(q, u, d)
    PROVE  \E r : Asked(q, r)
<1> DEFINE s == [Idle EXCEPT !.pc = "walk", !.op = "delete"]
           r == From(s, d)
<1>1. Exists(d)
  BY DEF DeleteDrive, Live
<1>2. s \in Request
  BY IdleRequest DEF Request, Steps, Ops
<1>3. r \in Request /\ r.found = {d} /\ r.drive = d /\ r.todo = Within(d)
  BY <1>1, <1>2, FromDrive DEF TypeInv
<1>4. r.pc = "walk" /\ r.op = "delete" /\ r.parent = Null /\ r.file = Null
  BY <1>2, IdleRequest DEF From, Request, Idle
<1>5. Fresh(r)
  BY <1>1, <1>3, <1>4 DEF Fresh, Shape
<1> QED
  BY <1>5 DEF DeleteDrive, Asked

LEMMA AskAsked ==
    ASSUME TypeInv, NEW q \in Requests, NEW u \in Users, Ask(q, u)
    PROVE  \E r : Asked(q, r)
  BY CreateAsked, UploadAsked, EditAsked, ShareAsked, CopyAsked, DeleteAsked
     DEF Ask, DavWrite, DavMkcol, DavDelete, Maybe

\* Beginning keeps the types; whoever was alone is no longer.
LEMMA AskedTypes ==
    ASSUME TypeInv, NEW q \in Requests, NEW r, Asked(q, r)
    PROVE  TypeInv' /\ Kept
<1>1. Kept /\ ParentsExist'
  BY SameDrives DEF Asked, TypeInv, ParentsExist, Exists
<1>2. \A p \in Requests : Shape(req[p])
  BY DEF TypeInv
<1>3. ASSUME NEW p \in Requests
      PROVE  \E s : /\ req'[p] = s /\ Shape(s)
  <2>1. CASE p = q
    <3> DEFINE s == [r EXCEPT !.alone = \A o \in Requests : req[o].pc = "idle"]
    <3>1. req'[p] = s
      BY <2>1 DEF Asked, Begin
    <3>2. Shape(s)
      BY DEF Asked, Fresh, Shape, Request
    <3> QED
      BY <3>1, <3>2
  <2>2. CASE p # q
    <3> DEFINE s == [req[p] EXCEPT !.alone = FALSE]
    <3>1. req'[p] = s
      BY <2>2 DEF Asked, Begin
    <3>2. Shape(s)
      <4>1. req[p] \in Request /\ Shape(req[p])
        BY <1>2 DEF Shape
      <4>2. /\ s \in Request /\ s.pc = req[p].pc /\ s.op = req[p].op /\ s.parent = req[p].parent
            /\ s.drive = req[p].drive /\ s.found = req[p].found /\ s.shared = req[p].shared
            /\ s.parts = req[p].parts /\ s.file = req[p].file
        BY <4>1 DEF Request
      <4> HIDE DEF s
      <4> QED
        BY <4>1, <4>2 DEF Shape
    <3> QED
      BY <3>1, <3>2
  <2> QED
    BY <2>1, <2>2
<1>4. \A p \in Requests : Shape(req[p])'
  <2> TAKE p \in Requests
  <2>1. PICK s : req'[p] = s /\ Shape(s)
    BY <1>3
  <2>2. Shape(s)'
    BY <1>1, <2>1, ShapeKept DEF TypeInv
  <2> QED
    BY <2>1, <2>2 DEF Shape
<1>5. req' \in [Requests -> Request]
  <2>1. \A p \in Requests : req'[p] \in Request
    BY <1>3 DEF Shape
  <2> QED
    BY <2>1 DEF Asked, Begin
<1> QED
  BY <1>1, <1>4, <1>5 DEF TypeInv, TypeOK, Asked, Begin

-----------------------------------------------------------------------------
(* How the steps that only read keep the types.                            *)

LEMMA AtRequest ==
    ASSUME TypeInv, NEW q \in Requests
    PROVE  Shape(req[q]) /\ req[q] \in Request
  BY DEF TypeInv, Shape

LEMMA EndTypes ==
    ASSUME TypeInv, NEW q \in Requests, End(q),
           UNCHANGED <<drives, files, stored, faults, unlisted>>
    PROVE  TypeInv'
  BY IdleShape, QuietTypes DEF End, Goto

LEMMA NextPartTypes == ASSUME TypeInv, NEW q \in Requests, NextPart(q) PROVE TypeInv'
<1> DEFINE r == req[q]
<1>1. Shape(r) /\ r \in Request /\ r.pc = "part"
  BY AtRequest DEF NextPart, At
<1>2. r.parts \in Seq(Names) /\ r.parts # <<>> /\ Len(r.parts) \in Nat
  BY <1>1, LenProperties DEF Shape, Request
<1>3. Head(r.parts) \in Names /\ Tail(r.parts) \in Seq(Names)
      /\ Len(Tail(r.parts)) = Len(r.parts) - 1
  BY <1>2, HeadTailProperties
<1>4. CASE End(q)
  BY <1>4, EndTypes DEF NextPart
<1>5. ASSUME NEW d \in Drives, Len(r.parts) # 1,
             Goto(q, [r EXCEPT !.parent = d, !.parts = Tail(r.parts)])
      PROVE  TypeInv'
  <2> DEFINE s == [r EXCEPT !.parent = d, !.parts = Tail(r.parts)]
  <2>1. Tail(r.parts) # <<>>
    <3>1. Len(<<>>) = 0
      OBVIOUS
    <3>2. Len(Tail(r.parts)) # 0
      BY <1>2, <1>3, <1>5
    <3> QED
      BY <3>1, <3>2
  <2>2. s \in Request
    BY <1>1, <1>3 DEF Request, Maybe
  <2>3. Shape(s)
    BY <1>1, <2>1, <2>2 DEF Shape, Request
  <2> QED
    BY <1>5, <2>3, QuietTypes DEF Goto, NextPart
<1>6. CASE Goto(q, [r EXCEPT !.pc = "find", !.name = Head(r.parts), !.parts = Tail(r.parts)])
  <2> DEFINE s == [r EXCEPT !.pc = "find", !.name = Head(r.parts), !.parts = Tail(r.parts)]
  <2>1. s \in Request
    BY <1>1, <1>3 DEF Request, Maybe, Steps
  <2>2. Shape(s)
    BY <1>1, <2>1 DEF Shape, Request
  <2> QED
    BY <1>6, <2>2, QuietTypes DEF Goto, NextPart
<1> QED
  BY <1>4, <1>5, <1>6 DEF NextPart, Below, LiveDrives

LEMMA FindParentTypes == ASSUME TypeInv, NEW q \in Requests, FindParent(q) PROVE TypeInv'
<1> DEFINE r == req[q]
           step == IF MakesFile(r) THEN "put" ELSE "insert"
           Found(p) == [r EXCEPT !.pc = step, !.parent = p, !.path = drives[p].path,
                                 !.shared = drives[p].shared,
                                 !.manager = IF MakesFile(r) THEN r.user
                                             ELSE drives[p].manager]
<1>1. Shape(r) /\ r \in Request /\ r.pc = "find"
  BY AtRequest DEF FindParent, At
<1>2. CASE End(q)
  BY <1>2, EndTypes DEF FindParent
<1>3. ASSUME NEW p \in Drives, Exists(p), Goto(q, Found(p))
      PROVE  TypeInv'
  <2>1. drives[p] \in Drive
    BY <1>3, Document DEF TypeInv, Maybe
  <2>2. /\ drives[p].path \in Seq(Maybe(Drives)) /\ drives[p].shared \in Rights \cup {{}}
        /\ drives[p].manager \in Maybe(Users)
    BY <2>1 DEF Drive
  <2>3. p \in Maybe(Drives) /\ drives[p].shared \in Maybe(Rights \cup {{}})
        /\ r.user \in Maybe(Users) /\ step \in Steps
    BY <1>1, <2>2 DEF Maybe, Request, Steps
  <2>4. Found(p) \in Request
    BY <1>1, <2>2, <2>3 DEF Request
  <2>5. /\ Found(p).pc = step /\ Found(p).parent = p /\ Found(p).op = r.op
        /\ Found(p).shared = drives[p].shared /\ Found(p).file = r.file
        /\ Found(p).parts = r.parts /\ Found(p).found = r.found
    BY <1>1 DEF Request
  <2>6. r.op \in {"folder", "file", "upload"} /\ r.file = Null /\ \A d \in r.found : Exists(d)
    BY <1>1 DEF Shape
  <2>7. step = "put" => r.parts = <<>>
    BY DEF MakesFile
  <2> HIDE DEF Found, step
  <2>8. step \in {"put", "insert"}
    BY DEF step
  <2>9. Shape(Found(p))
    BY <1>3, <2>2, <2>4, <2>5, <2>6, <2>7, <2>8 DEF Shape
  <2> QED
    BY <1>3, <2>9, QuietTypes DEF Goto, FindParent
<1>4. \/ End(q)
      \/ \E p \in Drives : Exists(p) /\ Goto(q, Found(p))
  BY DEF FindParent, LiveDrives, Live
<1> QED
  BY <1>2, <1>3, <1>4

LEMMA NextShareTypes == ASSUME TypeInv, NEW q \in Requests, NextShare(q) PROVE TypeInv'
<1> DEFINE r == req[q]
<1>1. Shape(r) /\ r \in Request /\ r.pc = "next" /\ r.op = "share" /\ r.parent = Null
  BY AtRequest DEF NextShare, At, Shape
<1>2. CASE End(q)
  BY <1>2, EndTypes DEF NextShare
<1>3. ASSUME NEW d \in r.rest, Goto(q, [r EXCEPT !.rest = r.rest \ {d}])
      PROVE  TypeInv'
  <2> DEFINE s == [r EXCEPT !.rest = r.rest \ {d}]
  <2>1. s \in Request
    BY <1>1 DEF Request
  <2>2. Shape(s)
    BY <1>1, <2>1 DEF Shape, Request
  <2> QED
    BY <1>3, <2>2, QuietTypes DEF Goto, NextShare
<1>4. ASSUME NEW d \in r.rest, Live(d),
             Goto(q, From([r EXCEPT !.pc = "set", !.rest = r.rest \ {d}], d))
      PROVE  TypeInv'
  <2> DEFINE s == [r EXCEPT !.pc = "set", !.rest = r.rest \ {d}]
             t == From(s, d)
  <2>1. s \in Request /\ d \in Drives
    BY <1>1 DEF Request, Steps
  <2>2. t \in Request /\ t.found = {d} /\ t.drive = d
    BY <1>4, <2>1, FromDrive DEF TypeInv, Live
  <2>3. t.pc = "set" /\ t.op = "share" /\ t.parent = Null
    BY <1>1, <2>1 DEF From, Request
  <2>4. Shape(t)
    BY <1>4, <2>2, <2>3 DEF Shape, Live
  <2> QED
    BY <1>4, <2>4, QuietTypes DEF Goto, NextShare
<1> QED
  BY <1>2, <1>3, <1>4 DEF NextShare

\* What recursiveFindDrives goes on to.
After(r) == IF r.op \in {"edit", "share"} THEN "update" ELSE IF r.op = "copy" THEN "paste" ELSE "mark"

\* A visit, by cases.
Visited(q, d) ==
    LET r == req[q] IN
    IF Live(d) THEN [r EXCEPT !.todo = (r.todo \ {d}) \cup Within(d), !.found = r.found \cup {d}]
    ELSE [r EXCEPT !.todo = r.todo \ {d}]

LEMMA VisitCases ==
    ASSUME TypeInv, NEW q \in Requests, Visit(q)
    PROVE  /\ req[q].pc \in {"walk", "gather"}
           /\ \/ \E d \in req[q].todo : Goto(q, Visited(q, d))
              \/ /\ req[q].todo = {} /\ req[q].pc = "gather"
                 /\ Goto(q, [req[q] EXCEPT !.pc = "next", !.rest = req[q].found])
              \/ /\ req[q].todo = {} /\ req[q].pc = "walk"
                 /\ Goto(q, [req[q] EXCEPT !.pc = After(req[q])])
<1>1. req[q].pc = "walk" => req[q].op \in {"edit", "share", "copy", "delete"}
  BY AtRequest DEF Shape
<1> QED
  BY <1>1 DEF Visit, Visited, After, Then

LEMMA VisitTypes == ASSUME TypeInv, NEW q \in Requests, Visit(q) PROVE TypeInv'
<1> DEFINE r == req[q]
<1>1. Shape(r) /\ r \in Request /\ r.pc \in {"walk", "gather"}
  BY AtRequest, VisitCases
<1>2. ASSUME NEW d \in r.todo, Goto(q, Visited(q, d)) PROVE TypeInv'
  <2>1. d \in Drives
    BY <1>1 DEF Request
  <2>2. CASE Live(d)
    <3> DEFINE s == [r EXCEPT !.todo = (r.todo \ {d}) \cup Within(d), !.found = r.found \cup {d}]
    <3>1. Exists(d)
      BY <2>2 DEF Live
    <3>2. Within(d) \subseteq Drives
      BY <1>1, <2>1, <3>1, FromDrive DEF TypeInv
    <3>3. s \in Request
      BY <1>1, <2>1, <3>2 DEF Request
    <3>4. Shape(s)
      BY <1>1, <3>1, <3>3 DEF Shape, Request
    <3> QED
      BY <1>2, <2>2, <3>4, QuietTypes DEF Goto, Visit, Visited
  <2>3. CASE ~Live(d)
    <3> DEFINE s == [r EXCEPT !.todo = r.todo \ {d}]
    <3>1. s \in Request
      BY <1>1 DEF Request
    <3>2. Shape(s)
      BY <1>1, <3>1 DEF Shape, Request
    <3> QED
      BY <1>2, <2>3, <3>2, QuietTypes DEF Goto, Visit, Visited
  <2> QED
    BY <2>2, <2>3
<1>3. CASE r.pc = "gather" /\ Goto(q, [r EXCEPT !.pc = "next", !.rest = r.found])
  <2> DEFINE s == [r EXCEPT !.pc = "next", !.rest = r.found]
  <2>1. s \in Request
    BY <1>1 DEF Request, Steps
  <2>2. Shape(s)
    BY <1>1, <1>3, <2>1 DEF Shape, Request
  <2> QED
    BY <1>3, <2>2, QuietTypes DEF Goto, Visit
<1>4. CASE r.pc = "walk" /\ Goto(q, [r EXCEPT !.pc = After(r)])
  <2> DEFINE s == [r EXCEPT !.pc = After(r)]
  <2>1. s \in Request
    BY <1>1 DEF Request, Steps, After
  <2>2. Shape(s)
    <3>1. /\ s.pc = After(r) /\ s.op = r.op /\ s.parent = r.parent /\ s.drive = r.drive
          /\ s.found = r.found /\ s.shared = r.shared /\ s.parts = r.parts /\ s.file = r.file
      BY <1>1 DEF Request
    <3> HIDE DEF s
    <3> QED
      BY <1>1, <1>4, <2>1, <3>1 DEF Shape, After
  <2> QED
    BY <1>4, <2>2, QuietTypes DEF Goto, Visit
<1> QED
  BY <1>2, <1>3, <1>4, VisitCases

-----------------------------------------------------------------------------
(* How the steps that write drives keep the types.                         *)

\* Documents that are there are written in place.
Edited ==
    /\ drives' = [d \in Drives |-> drives'[d]]
    /\ \A d \in Drives : ~Exists(d) => drives'[d] = drives[d]
    /\ \A d \in Drives : Exists(d) =>
        /\ drives'[d] \in Drive
        /\ drives'[d].kind = drives[d].kind /\ drives'[d].file = drives[d].file
        /\ drives'[d].live => drives[d].live
        /\ drives[d].children \subseteq drives'[d].children
        /\ drives'[d].parent = drives[d].parent \/ Exists(drives'[d].parent)

LEMMA EditedKept ==
    ASSUME TypeInv, Edited
    PROVE  Kept /\ ParentsExist' /\ drives' \in [Drives -> Drive \cup {Null}]
<1>1. \A d \in Drives : drives'[d] \in Drive \cup {Null}
  BY DEF Edited, TypeInv, TypeOK
<1>2. drives' \in [Drives -> Drive \cup {Null}]
  BY <1>1 DEF Edited
<1>3. ASSUME NEW d \in Maybe(Drives), Exists(d) PROVE Exists(d)'
  <2>1. d \in Drives /\ drives'[d] \in Drive
    BY <1>3, Document DEF Edited, TypeInv
  <2> QED
    BY <1>3, <2>1, DriveAssumption DEF Exists
<1>4. Kept
  BY <1>3 DEF Kept, Edited, Maybe
<1>5. ParentsExist'
  <2> SUFFICES ASSUME NEW d \in Drives, Exists(d)', drives'[d].parent # Null
               PROVE  Exists(drives[d].parent)'
    BY DEF ParentsExist
  <2>1. Exists(d)
    BY DEF Edited, Exists
  <2>2. drives[d] \in Drive /\ drives'[d] \in Drive
    BY <2>1, Document DEF TypeInv, Edited, Maybe
  <2>3. Exists(drives'[d].parent)
    BY <2>1 DEF Edited, TypeInv, ParentsExist
  <2>4. PICK e \in Maybe(Drives) : e = drives'[d].parent
    BY <2>2 DEF Drive
  <2>5. Exists(e)'
    BY <1>3, <2>3, <2>4
  <2> QED
    BY <2>4, <2>5 DEF Exists
<1> QED
  BY <1>2, <1>4, <1>5

LEMMA PushChildEdited ==
    ASSUME TypeInv, NEW q \in Requests, PushChild(q)
    PROVE  Edited /\ Exists(req[q].parent) /\ Exists(req[q].drive)
<1> DEFINE r == req[q]
           p == r.parent
<1>1. Shape(r) /\ r \in Request /\ r.pc = "push"
  BY AtRequest DEF PushChild, At
<1>2. Exists(p) /\ Exists(r.drive)
  BY <1>1 DEF Shape
<1>3. p \in Drives /\ r.drive \in Drives
  BY <1>1, <1>2, Document DEF Request, TypeInv
<1>4. drives' = [drives EXCEPT ![p] = [drives[p] EXCEPT !.children = @ \cup {r.drive}]]
  BY <1>3 DEF PushChild
<1>5. \A d \in Drives : Exists(d) => drives[d] \in Drive
  BY Document DEF TypeInv, Maybe
<1>6. [drives[p] EXCEPT !.children = @ \cup {r.drive}] \in Drive
  BY <1>2, <1>3, <1>5 DEF Drive
<1> QED
  BY <1>2, <1>3, <1>4, <1>5, <1>6 DEF Edited, TypeInv, TypeOK, Drive

LEMMA SetDriveEdited ==
    ASSUME TypeInv, NEW q \in Requests, SetDrive(q)
    PROVE  /\ Edited /\ Exists(req[q].drive)
           /\ req[q].parent # Null => drives'[req[q].drive].parent = req[q].parent
           /\ \A d \in Drives : Exists(d) =>
                 /\ drives'[d].live = drives[d].live
                 /\ drives'[d].children = drives[d].children
                 /\ drives'[d].parent # drives[d].parent
                      => d = req[q].drive /\ req[q].parent # Null
<1> DEFINE r == req[q]
           e == r.drive
           manager == IF r.manager # Null THEN Null ELSE drives[e].manager
           name == Given(r.name, drives[e].name)
           folder == Given(r.parent, drives[e].parent)
           shared == Given(r.shared, drives[e].shared)
           doc == [drives[e] EXCEPT !.manager = manager, !.name = name,
                                    !.parent = folder, !.shared = shared]
<1>1. Shape(r) /\ r \in Request /\ r.pc = "set"
  BY AtRequest DEF SetDrive, At
<1>2. Exists(e) /\ (r.parent # Null => Exists(r.parent))
  BY <1>1 DEF Shape
<1>3. e \in Drives
  BY <1>1, <1>2, Document DEF Request, TypeInv
<1>4. \A d \in Drives : Exists(d) => drives[d] \in Drive
  BY Document DEF TypeInv, Maybe
<1>5. drives' = [drives EXCEPT ![e] = doc]
  BY <1>2, <1>3, <1>4 DEF SetDrive, Drive, TypeInv, TypeOK
<1>6. /\ manager \in Maybe(Users) /\ name \in Maybe(Names)
      /\ folder \in Maybe(Drives) /\ shared \in Rights \cup {{}}
  BY <1>1, <1>2, <1>3, <1>4 DEF Given, Request, Drive, Maybe
<1> HIDE DEF manager, name, folder, shared
<1>7. /\ doc \in Drive
      /\ doc.kind = drives[e].kind /\ doc.file = drives[e].file /\ doc.live = drives[e].live
      /\ doc.children = drives[e].children /\ doc.parent = folder
  <2>1. drives[e] \in Drive
    BY <1>2, <1>3, <1>4
  <2>2. /\ doc.kind = drives[e].kind /\ doc.file = drives[e].file /\ doc.live = drives[e].live
        /\ doc.children = drives[e].children /\ doc.parent = folder
    BY <2>1 DEF Drive
  <2>3. doc \in Drive
    BY <2>1, <1>6 DEF Drive
  <2> QED
    BY <2>2, <2>3, Zenon
<1>8. r.parent # Null => doc.parent = r.parent
  BY <1>7 DEF Given, folder
<1>9. doc.parent # drives[e].parent => r.parent # Null /\ Exists(doc.parent)
  BY <1>2, <1>7 DEF Given, folder
<1> HIDE DEF doc
<1>10. Edited
  BY <1>2, <1>3, <1>4, <1>5, <1>7, <1>9 DEF Edited, TypeInv, TypeOK
<1> QED
  BY <1>2, <1>3, <1>5, <1>7, <1>8, <1>9, <1>10 DEF TypeInv, TypeOK

LEMMA UpdateFoundEdited ==
    ASSUME TypeInv, NEW q \in Requests, UpdateFound(q)
    PROVE  /\ Edited
           /\ \A d \in Drives : Exists(d) =>
                 /\ drives'[d].live = drives[d].live /\ drives'[d].parent = drives[d].parent
                 /\ drives'[d].children = drives[d].children
<1> DEFINE r == req[q]
           doc(d) == [drives[d] EXCEPT !.manager = Given(r.manager, @),
                                       !.shared = Given(r.shared, @)]
<1>1. r \in Request
  BY AtRequest
<1>2. \A d \in Drives : Exists(d) => drives[d] \in Drive
  BY Document DEF TypeInv, Maybe
<1>3. ASSUME NEW d \in Drives, Exists(d)
      PROVE  /\ doc(d) \in Drive
             /\ doc(d).kind = drives[d].kind /\ doc(d).file = drives[d].file
             /\ doc(d).live = drives[d].live /\ doc(d).children = drives[d].children
             /\ doc(d).parent = drives[d].parent
  <2>1. /\ Given(r.manager, drives[d].manager) \in Maybe(Users)
        /\ Given(r.shared, drives[d].shared) \in Rights \cup {{}}
    BY <1>1, <1>2, <1>3 DEF Given, Request, Drive, Maybe
  <2> QED
    BY <1>2, <1>3, <2>1 DEF Drive
<1>4. drives' = [d \in Drives |-> IF d \in r.found /\ Exists(d) THEN doc(d) ELSE drives[d]]
  BY DEF UpdateFound
<1> HIDE DEF doc
<1> QED
  BY <1>2, <1>3, <1>4 DEF Edited

LEMMA LinkParentEdited ==
    ASSUME TypeInv, NEW q \in Requests, LinkParent(q), Live(req[q].parent)
    PROVE  Edited /\ Exists(req[q].parent) /\ Exists(req[q].drive)
<1> DEFINE r == req[q]
           p == r.parent
<1>1. Shape(r) /\ r \in Request /\ r.pc = "link"
  BY AtRequest DEF LinkParent, At
<1>2. Exists(p) /\ Exists(r.drive)
  BY <1>1 DEF Shape, Live
<1>3. p \in Drives /\ r.drive \in Drives
  BY <1>1, <1>2, Document DEF Request, TypeInv
<1>4. drives' = [drives EXCEPT ![p] = [drives[p] EXCEPT !.children = @ \cup {r.drive}]]
  BY <1>3 DEF LinkParent
<1>5. \A d \in Drives : Exists(d) => drives[d] \in Drive
  BY Document DEF TypeInv, Maybe
<1>6. [drives[p] EXCEPT !.children = @ \cup {r.drive}] \in Drive
  BY <1>2, <1>3, <1>5 DEF Drive
<1> QED
  BY <1>2, <1>3, <1>4, <1>5, <1>6 DEF Edited, TypeInv, TypeOK, Drive

LEMMA RepathFoundEdited ==
    ASSUME TypeInv, NEW q \in Requests, RepathFound(q)
    PROVE  /\ Edited
           /\ \A d \in Drives : Exists(d) =>
                 /\ drives'[d].live = drives[d].live /\ drives'[d].parent = drives[d].parent
                 /\ drives'[d].children = drives[d].children
<1> DEFINE r == req[q]
           place(d) == r.path \o Suffix(drives[d].path, r.drive)
           doc(d) == [drives[d] EXCEPT !.path = place(d)]
<1>1. r \in Request
  BY AtRequest
<1>2. \A d \in Drives : Exists(d) => drives[d] \in Drive
  BY Document DEF TypeInv, Maybe
<1>3. ASSUME NEW d \in Drives, Exists(d)
      PROVE  /\ doc(d) \in Drive
             /\ doc(d).kind = drives[d].kind /\ doc(d).file = drives[d].file
             /\ doc(d).live = drives[d].live /\ doc(d).children = drives[d].children
             /\ doc(d).parent = drives[d].parent
  <2>1. r.path \in Seq(Maybe(Drives)) /\ drives[d].path \in Seq(Maybe(Drives))
    BY <1>1, <1>2, <1>3 DEF Request, Drive
  <2>2. place(d) \in Seq(Maybe(Drives))
    BY <2>1, SuffixType, ConcatProperties
  <2> HIDE DEF place
  <2> QED
    BY <1>2, <1>3, <2>2 DEF Drive
<1>4. drives' = [d \in Drives |-> IF d \in r.found /\ Exists(d) THEN doc(d) ELSE drives[d]]
  BY DEF RepathFound
<1> HIDE DEF doc
<1> QED
  BY <1>2, <1>3, <1>4 DEF Edited

LEMMA MarkDrivesEdited ==
    ASSUME TypeInv, NEW q \in Requests, MarkDrives(q)
    PROVE  /\ Edited
           /\ \A d \in Drives : Exists(d) =>
                 /\ drives'[d].parent = drives[d].parent
                 /\ drives'[d].children = drives[d].children
                 /\ d \in req[q].found => ~drives'[d].live
<1> DEFINE r == req[q]
           doc(d) == [drives[d] EXCEPT !.live = FALSE]
<1>1. r \in Request
  BY AtRequest
<1>2. \A d \in Drives : Exists(d) => drives[d] \in Drive
  BY Document DEF TypeInv, Maybe
<1>3. ASSUME NEW d \in Drives, Exists(d)
      PROVE  /\ doc(d) \in Drive
             /\ doc(d).kind = drives[d].kind /\ doc(d).file = drives[d].file
             /\ doc(d).live = FALSE /\ doc(d).children = drives[d].children
             /\ doc(d).parent = drives[d].parent
  BY <1>2, <1>3 DEF Drive
<1>4. drives' = [d \in Drives |-> IF d \in r.found /\ Exists(d) THEN doc(d) ELSE drives[d]]
  BY DEF MarkDrives
<1> HIDE DEF doc
<1> QED
  BY <1>2, <1>3, <1>4 DEF Edited

-----------------------------------------------------------------------------
(* The two steps that add drives.                                          *)

\* Documents that are there stay as they are; new ones are in a folder that is there.
Grown ==
    /\ drives' = [d \in Drives |-> drives'[d]]
    /\ \A d \in Drives : Exists(d) => drives'[d] = drives[d]
    /\ \A d \in Drives : ~Exists(d) => drives'[d] \in Drive \cup {Null}
    /\ \A d \in Drives : ~Exists(d) /\ drives'[d] # Null /\ drives'[d].parent # Null
         => drives'[drives'[d].parent] # Null

LEMMA GrownKept ==
    ASSUME TypeInv, Grown
    PROVE  Kept /\ ParentsExist' /\ drives' \in [Drives -> Drive \cup {Null}]
<1>1. \A d \in Drives : drives'[d] \in Drive \cup {Null}
  BY DEF Grown, TypeInv, TypeOK
<1>2. drives' \in [Drives -> Drive \cup {Null}]
  BY <1>1 DEF Grown
<1>3. Kept
  <2> SUFFICES ASSUME NEW d \in Drives, Exists(d)
               PROVE  Exists(d)' /\ drives'[d] = drives[d]
    BY DEF Kept
  <2> QED
    BY DEF Grown, Exists
<1>4. ParentsExist'
  <2> SUFFICES ASSUME NEW d \in Drives, Exists(d)', drives'[d].parent # Null
               PROVE  drives'[drives'[d].parent] # Null
    BY DEF ParentsExist, Exists
  <2>1. CASE Exists(d)
    <3>1. Exists(drives[d].parent) /\ drives'[d] = drives[d]
      BY <2>1 DEF TypeInv, ParentsExist, Grown
    <3>2. drives[d].parent \in Drives
      BY <2>1, <3>1, Document DEF TypeInv, Drive, Maybe
    <3> QED
      BY <3>1, <3>2 DEF Grown, Exists
  <2>2. CASE ~Exists(d)
    BY <2>2 DEF Grown, Exists
  <2> QED
    BY <2>1, <2>2
<1> QED
  BY <1>2, <1>3, <1>4

LEMMA InsertDriveEffect ==
    ASSUME TypeInv, NEW q \in Requests, InsertDrive(q)
    PROVE  \E d \in Drives :
             /\ ~Exists(d) /\ Exists(d)' /\ Grown
             /\ \A e \in Drives : e # d => drives'[e] = drives[e]
             /\ drives'[d].parent = req[q].parent /\ drives'[d].file = req[q].file
             /\ drives'[d].live
             /\ req' = [req EXCEPT ![q] = [req[q] EXCEPT !.pc = "push", !.drive = d]]
<1> DEFINE r == req[q]
<1>1. Shape(r) /\ r \in Request /\ r.pc = "insert"
  BY AtRequest DEF InsertDrive, At
<1>2. Exists(r.parent) /\ r.parent \in Drives /\ r.shared \in Rights \cup {{}}
  BY <1>1, Document DEF Shape, Request, TypeInv
<1>3. PICK d \in FreshDrives :
        /\ drives' = [drives EXCEPT ![d] =
             [kind |-> IF MakesFile(r) THEN "file" ELSE "folder", manager |-> r.manager,
              name |-> r.name, parent |-> r.parent, children |-> {},
              path |-> Append(r.path, d), shared |-> r.shared, file |-> r.file, live |-> TRUE]]
        /\ Goto(q, [r EXCEPT !.pc = "push", !.drive = d])
  BY DEF InsertDrive
<1> DEFINE kind == IF MakesFile(r) THEN "file" ELSE "folder"
           place == Append(r.path, d)
           doc == [kind |-> kind, manager |-> r.manager,
                   name |-> r.name, parent |-> r.parent, children |-> {},
                   path |-> place, shared |-> r.shared, file |-> r.file, live |-> TRUE]
<1>4. d \in Drives /\ drives[d] = Null /\ ~Exists(d) /\ d # Null
  BY <1>3, NullAssumption DEF FreshDrives, Exists
<1>5. r.path \in Seq(Maybe(Drives)) /\ d \in Maybe(Drives)
  BY <1>1, <1>4 DEF Request, Maybe
<1>6. place \in Seq(Maybe(Drives)) /\ kind \in {"folder", "file"}
  BY <1>5, AppendProperties
<1>7. drives' = [drives EXCEPT ![d] = doc]
  BY <1>3
<1> HIDE DEF place, kind
<1>8. doc \in Drive
  BY <1>1, <1>2, <1>6 DEF Drive, Request
<1>9. doc.parent = r.parent /\ doc.file = r.file /\ doc.live /\ doc # Null
  BY <1>8, DriveAssumption
<1> HIDE DEF doc
<1>10. drives' = [drives EXCEPT ![d] = doc] /\ drives \in [Drives -> Drive \cup {Null}]
  BY <1>7 DEF TypeInv, TypeOK
<1>11. drives'[d] = doc /\ \A e \in Drives : e # d => drives'[e] = drives[e]
  BY <1>4, <1>10
<1>12. drives' = [e \in Drives |-> drives'[e]]
  BY <1>10
<1>13. Grown
  <2>1. \A e \in Drives : Exists(e) => drives'[e] = drives[e]
    BY <1>4, <1>11
  <2>2. drives'[r.parent] # Null
    BY <1>2, <2>1 DEF Exists
  <2>3. \A e \in Drives : ~Exists(e) /\ e # d => drives'[e] = Null
    BY <1>11, NullAssumption DEF Exists
  <2> QED
    BY <1>8, <1>9, <1>11, <1>12, <2>1, <2>2, <2>3 DEF Grown
<1>14. req' = [req EXCEPT ![q] = [req[q] EXCEPT !.pc = "push", !.drive = d]]
  BY <1>3 DEF Goto
<1> QED
  BY <1>4, <1>9, <1>11, <1>13, <1>14 DEF Exists

\* What a request copies: drives whose files have an entry.
WithFile(r) == {d \in r.found : drives[d].file # Null}
Copied(r) == {d \in r.found : drives[d].parent # Null
                              /\ (d \in WithFile(r) => files[drives[d].file] # "none")}

\* What a paste with these ids and uris leaves.
Pasted(q, id, uri) ==
    LET r == req[q]
        C == Copied(r)
        F == C \cap WithFile(r)
    IN /\ id \in [C -> FreshDrives] /\ uri \in [F -> FreshFiles]
       /\ \A c, d \in C : id[c] = id[d] => c = d
       /\ \A c, d \in F : uri[c] = uri[d] => c = d
       /\ Grown
       /\ \A e \in Drives : ~(\E d \in C : id[d] = e) => drives'[e] = drives[e]
       /\ \A d \in C :
            /\ drives'[id[d]] \in Drive /\ Exists(id[d])'
            /\ drives'[id[d]].parent = IF drives[d].parent \in C THEN id[drives[d].parent]
                                       ELSE r.parent
            /\ drives'[id[d]].children = {id[c] : c \in drives[d].children \cap C}
            /\ drives'[id[d]].file = IF d \in WithFile(r) THEN uri[d] ELSE Null
       /\ stored' = stored \cup {uri[d] : d \in F}
       /\ unlisted' = unlisted \cup
            {id[d] : d \in {c \in C : drives[c].parent \notin C
                                      \/ c \notin drives[drives[c].parent].children}}

LEMMA PasteCopiesEffect ==
    ASSUME TypeInv, NEW q \in Requests, PasteCopies(q)
    PROVE  \E id, uri : Pasted(q, id, uri)
<1> DEFINE r == req[q]
           C == Copied(r)
           F == C \cap WithFile(r)
           tail(d) == LET t == Suffix(drives[d].path, r.drive)
                      IN IF t = <<>> THEN SubSeq(drives[d].path, Len(drives[d].path),
                                                 Len(drives[d].path))
                         ELSE t
<1>1. Shape(r) /\ r \in Request /\ r.pc = "paste"
  BY AtRequest DEF PasteCopies, At
<1>2. /\ \A d \in C : d \in Drives /\ Exists(d) /\ drives[d] \in Drive /\ drives[d].parent # Null
      /\ r.parent # Null => Exists(r.parent) /\ r.parent \in Drives
      /\ r.parent \in Maybe(Drives)
  BY <1>1, Document DEF Copied, Shape, Request, TypeInv, Maybe
<1>3. PICK id \in [C -> FreshDrives], uri \in [F -> FreshFiles] :
        LET new(d) == IF d \in C THEN id[d] ELSE Null
            paste(d) ==
              [kind |-> drives[d].kind, manager |-> r.user, name |-> drives[d].name,
               parent |-> IF drives[d].parent \in C THEN new(drives[d].parent) ELSE r.parent,
               children |-> {id[c] : c \in drives[d].children \cap C},
               path |-> r.path \o [i \in 1..Len(tail(d)) |-> new(tail(d)[i])],
               shared |-> {},
               file |-> IF d \in WithFile(r) THEN uri[d] ELSE Null, live |-> TRUE]
            tops == {d \in C : drives[d].parent \notin C
                               \/ d \notin drives[drives[d].parent].children}
        IN /\ \A c, d \in C : id[c] = id[d] => c = d
           /\ \A c, d \in F : uri[c] = uri[d] => c = d
           /\ drives' = [e \in Drives |-> IF \E d \in C : id[d] = e
                                          THEN paste(CHOOSE d \in C : id[d] = e)
                                          ELSE drives[e]]
           /\ stored' = stored \cup {uri[d] : d \in F}
           /\ unlisted' = unlisted \cup {id[d] : d \in tops}
  BY DEF PasteCopies, Copied, WithFile
<1> DEFINE new(d) == IF d \in C THEN id[d] ELSE Null
           folder(d) == IF drives[d].parent \in C THEN new(drives[d].parent) ELSE r.parent
           inside(d) == {id[c] : c \in drives[d].children \cap C}
           place(d) == r.path \o [i \in 1..Len(tail(d)) |-> new(tail(d)[i])]
           file(d) == IF d \in WithFile(r) THEN uri[d] ELSE Null
           paste(d) == [kind |-> drives[d].kind, manager |-> r.user, name |-> drives[d].name,
                        parent |-> folder(d), children |-> inside(d), path |-> place(d),
                        shared |-> {}, file |-> file(d), live |-> TRUE]
           of(e) == CHOOSE d \in C : id[d] = e
<1>4. \A d \in C : id[d] \in Drives /\ drives[id[d]] = Null /\ id[d] # Null /\ ~Exists(id[d])
  BY <1>3, NullAssumption DEF FreshDrives, Exists
<1>5. ASSUME NEW d \in C PROVE place(d) \in Seq(Maybe(Drives))
  <2> DEFINE t == Suffix(drives[d].path, r.drive)
             l == SubSeq(drives[d].path, Len(drives[d].path), Len(drives[d].path))
  <2>1. drives[d].path \in Seq(Maybe(Drives)) /\ Len(drives[d].path) \in Int
    BY <1>2, LenProperties DEF Drive
  <2>2. Len(t) \in Nat
    BY <2>1, SuffixType, LenProperties
  <2>3. Len(l) = 1
    <3>1. \A i \in Len(drives[d].path)..Len(drives[d].path) :
             drives[d].path[i] \in {drives[d].path[Len(drives[d].path)]}
      BY <2>1
    <3> HIDE DEF l
    <3>2. Len(SubSeq(drives[d].path, Len(drives[d].path), Len(drives[d].path))) = 1
      BY <2>1, <3>1, SubSeqProperties
    <3> QED
      BY <3>2 DEF l
  <2> HIDE DEF t, l
  <2>4. tail(d) = IF t = <<>> THEN l ELSE t
    BY DEF t, l
  <2>5. Len(tail(d)) \in Nat
    BY <2>2, <2>3, <2>4
  <2>6. \A i : new(tail(d)[i]) \in Maybe(Drives)
    BY <1>4 DEF Maybe
  <2> DEFINE n == Len(tail(d))
             names == [i \in 1..n |-> new(tail(d)[i])]
  <2> HIDE DEF tail, new
  <2>7. names \in [1..n -> Maybe(Drives)]
    BY <2>6
  <2>8. names \in Seq(Maybe(Drives))
    BY <2>5, <2>7, SeqDef
  <2>9. r.path \in Seq(Maybe(Drives))
    BY <1>1 DEF Request
  <2> HIDE DEF names
  <2>10. r.path \o names \in Seq(Maybe(Drives))
    BY <2>8, <2>9, ConcatProperties
  <2> QED
    BY <2>10 DEF names, tail, new
<1>6. ASSUME NEW d \in C PROVE /\ folder(d) \in Maybe(Drives) /\ inside(d) \subseteq Drives
                               /\ file(d) \in Maybe(Files)
  <2>1. folder(d) \in Maybe(Drives)
    BY <1>2, <1>4 DEF Maybe
  <2>2. inside(d) \subseteq Drives
    BY <1>4
  <2>3. d \in WithFile(r) => d \in F
    OBVIOUS
  <2>4. file(d) \in Maybe(Files)
    BY <1>3, <2>3 DEF Maybe, FreshFiles
  <2> QED
    BY <2>1, <2>2, <2>4
<1> DEFINE tops == {c \in C : drives[c].parent \notin C
                             \/ c \notin drives[drives[c].parent].children}
<1>7. /\ \A c, d \in C : id[c] = id[d] => c = d
      /\ \A c, d \in F : uri[c] = uri[d] => c = d
      /\ stored' = stored \cup {uri[d] : d \in F}
      /\ unlisted' = unlisted \cup {id[d] : d \in tops}
  BY <1>3
<1>8. drives' = [e \in Drives |-> IF \E d \in C : id[d] = e THEN paste(of(e)) ELSE drives[e]]
  BY <1>3, Zenon
<1> HIDE DEF place, folder, inside, file, C
<1>9. ASSUME NEW d \in C
      PROVE  /\ paste(d) \in Drive
             /\ paste(d).parent = folder(d) /\ paste(d).children = inside(d)
             /\ paste(d).file = file(d)
  <2>1. drives[d].kind \in {"folder", "file"} /\ drives[d].name \in Maybe(Names)
    BY <1>2 DEF Drive
  <2>2. r.user \in Maybe(Users)
    BY <1>1 DEF Request, Maybe
  <2> QED
    BY <1>5, <1>6, <2>1, <2>2 DEF Drive
<1> HIDE DEF paste
<1>10. \A d \in C : of(id[d]) = d
  BY <1>7
<1>11. \A d \in C : drives'[id[d]] = paste(d)
  BY <1>4, <1>8, <1>10
<1>12. \A e \in Drives : ~(\E d \in C : id[d] = e) => drives'[e] = drives[e]
  BY <1>8
<1>13. \A d \in C : drives'[id[d]] # Null
  BY <1>9, <1>11, DriveAssumption
<1>14. \A d \in Drives : Exists(d) => drives'[d] = drives[d]
  BY <1>4, <1>12
<1>15. \A d \in C : folder(d) # Null => drives'[folder(d)] # Null
  <2> TAKE d \in C
  <2>1. CASE drives[d].parent \in C
    BY <1>13, <2>1 DEF folder
  <2>2. CASE drives[d].parent \notin C /\ r.parent # Null
    BY <1>2, <1>14, <2>2 DEF folder, Exists
  <2> QED
    BY <2>1, <2>2 DEF folder
<1>16. Grown
  <2>1. drives' = [e \in Drives |-> drives'[e]]
    BY <1>8
  <2>2. ASSUME NEW e \in Drives, ~Exists(e)
        PROVE  /\ drives'[e] \in Drive \cup {Null}
               /\ drives'[e] # Null /\ drives'[e].parent # Null
                    => drives'[drives'[e].parent] # Null
    <3>1. CASE \E d \in C : id[d] = e
      BY <1>9, <1>11, <1>15, <3>1
    <3>2. CASE ~(\E d \in C : id[d] = e)
      BY <1>12, <2>2, <3>2, NullAssumption DEF Exists
    <3> QED
      BY <3>1, <3>2
  <2> QED
    BY <1>14, <2>1, <2>2 DEF Grown
<1>17. \A d \in C : /\ drives'[id[d]] \in Drive /\ Exists(id[d])'
                    /\ drives'[id[d]].parent = folder(d)
                    /\ drives'[id[d]].children = inside(d) /\ drives'[id[d]].file = file(d)
  BY <1>4, <1>9, <1>11, <1>13 DEF Exists
<1>18. \A d \in C :
         /\ drives'[id[d]] \in Drive /\ Exists(id[d])'
         /\ drives'[id[d]].parent = IF drives[d].parent \in C THEN id[drives[d].parent]
                                    ELSE r.parent
         /\ drives'[id[d]].children = {id[c] : c \in drives[d].children \cap C}
         /\ drives'[id[d]].file = IF d \in WithFile(r) THEN uri[d] ELSE Null
  BY <1>17 DEF folder, inside, file
<1>19. id \in [C -> FreshDrives] /\ uri \in [C \cap WithFile(r) -> FreshFiles]
  BY <1>3
<1>20. Pasted(q, id, uri)
  BY <1>7, <1>12, <1>16, <1>18, <1>19 DEF C, Pasted
<1> QED
  BY <1>20

-----------------------------------------------------------------------------
(* Every step keeps the types, and what Kept says.                         *)

\* Ending keeps them whatever the step writes, if that keeps them.
LEMMA EndsTypes ==
    ASSUME TypeInv, NEW q \in Requests, End(q), Kept, ParentsExist',
           drives' \in [Drives -> Drive \cup {Null}],
           files' \in [Files -> {"none", "live", "deleted"}], stored' \subseteq Files,
           faults' \in Nat, unlisted' \subseteq Drives
    PROVE  TypeInv'
<1>1. Shape(Idle) /\ req' = [req EXCEPT ![q] = Idle] /\ begun' \in Nat
  BY IdleShape DEF End, Goto, TypeInv, TypeOK
<1> QED
  BY <1>1, StepTypes

LEMMA PutObjectTypes == ASSUME TypeInv, NEW q \in Requests, PutObject(q) PROVE TypeInv'
<1> DEFINE r == req[q]
<1>1. Shape(r) /\ r \in Request /\ r.pc = "put"
  BY AtRequest DEF PutObject, At
<1>2. PICK f \in FreshFiles :
        stored' = stored \cup {f} /\ Goto(q, [r EXCEPT !.pc = "entry", !.file = f])
  BY DEF PutObject
<1> DEFINE s == [r EXCEPT !.pc = "entry", !.file = f]
<1>3. f \in Files /\ f # Null /\ f \in Maybe(Files)
  BY NullAssumption DEF FreshFiles, Maybe
<1>4. s \in Request
  BY <1>1, <1>3 DEF Request, Steps
<1>5. Shape(s)
  BY <1>1, <1>3, <1>4 DEF Shape, Request
<1>6. Kept /\ ParentsExist'
  BY SameDrives DEF PutObject, TypeInv, ParentsExist, Exists
<1> QED
  BY <1>2, <1>3, <1>5, <1>6, StepTypes DEF PutObject, Goto, TypeInv, TypeOK

LEMMA InsertEntryTypes == ASSUME TypeInv, NEW q \in Requests, InsertEntry(q) PROVE TypeInv'
<1> DEFINE r == req[q]
           s == [r EXCEPT !.pc = "insert"]
<1>1. Shape(r) /\ r \in Request /\ r.pc = "entry"
  BY AtRequest DEF InsertEntry, At
<1>2. s \in Request
  BY <1>1 DEF Request, Steps
<1>3. Shape(s)
  BY <1>1, <1>2 DEF Shape, Request
<1>4. Kept /\ ParentsExist'
  BY SameDrives DEF InsertEntry, TypeInv, ParentsExist, Exists
<1> QED
  BY <1>3, <1>4, StepTypes DEF InsertEntry, Then, Goto, TypeInv, TypeOK

LEMMA InsertDriveTypes ==
    ASSUME TypeInv, NEW q \in Requests, InsertDrive(q) PROVE TypeInv' /\ Kept
<1>1. Shape(req[q]) /\ req[q] \in Request /\ req[q].pc = "insert"
  BY AtRequest DEF InsertDrive, At
<1>2. PICK r : r = req[q]
  OBVIOUS
<1>3. PICK d \in Drives :
        /\ Exists(d)' /\ Grown
        /\ req' = [req EXCEPT ![q] = [r EXCEPT !.pc = "push", !.drive = d]]
  BY <1>2, InsertDriveEffect
<1> DEFINE s == [r EXCEPT !.pc = "push", !.drive = d]
<1>4. Kept /\ ParentsExist' /\ drives' \in [Drives -> Drive \cup {Null}]
  BY <1>3, GrownKept
<1>5. s \in Request
  <2>1. r \in Request /\ "push" \in Steps /\ d \in Maybe(Drives)
    BY <1>1, <1>2 DEF Steps, Maybe
  <2> QED
    BY <2>1 DEF Request
<1>6. Shape(r)'
  BY <1>1, <1>2, <1>4, ShapeKept DEF TypeInv
<1>7. Shape(s)'
  BY <1>1, <1>2, <1>3, <1>5, <1>6 DEF Shape, Request
<1> QED
  BY <1>3, <1>4, <1>7, ShapedTypes DEF InsertDrive, Goto, TypeInv, TypeOK

LEMMA PushChildTypes ==
    ASSUME TypeInv, NEW q \in Requests, PushChild(q) PROVE TypeInv' /\ Kept
<1> DEFINE r == req[q]
           s == [r EXCEPT !.pc = "part", !.parent = r.drive, !.drive = Null]
<1>1. Shape(r) /\ r \in Request /\ r.pc = "push"
  BY AtRequest DEF PushChild, At
<1>2. Kept /\ ParentsExist' /\ drives' \in [Drives -> Drive \cup {Null}]
  BY PushChildEdited, EditedKept
<1>3. CASE End(q)
  BY <1>2, <1>3, EndsTypes DEF PushChild, TypeInv, TypeOK
<1>4. CASE r.parts # <<>> /\ Goto(q, s)
  <2>1. s \in Request
    BY <1>1 DEF Request, Steps, Maybe
  <2>2. Shape(s)
    BY <1>1, <1>4, <2>1 DEF Shape, Request
  <2> QED
    BY <1>2, <1>4, <2>2, StepTypes DEF PushChild, Goto, TypeInv, TypeOK
<1> QED
  BY <1>2, <1>3, <1>4 DEF PushChild

LEMMA SetDriveTypes ==
    ASSUME TypeInv, NEW q \in Requests, SetDrive(q) PROVE TypeInv' /\ Kept
<1> DEFINE r == req[q]
           s == [r EXCEPT !.pc = "walk"]
           t == [r EXCEPT !.pc = "link", !.todo = {}]
<1>1. Shape(r) /\ r \in Request /\ r.pc = "set"
  BY AtRequest DEF SetDrive, At
<1>2. Kept /\ ParentsExist' /\ drives' \in [Drives -> Drive \cup {Null}]
  BY SetDriveEdited, EditedKept
<1>3. CASE End(q)
  BY <1>2, <1>3, EndsTypes DEF SetDrive, TypeInv, TypeOK
<1>4. Shape(s) /\ Shape(t)
  <2>1. s \in Request /\ t \in Request
    BY <1>1 DEF Request, Steps
  <2> QED
    BY <1>1, <2>1 DEF Shape, Request
<1>5. CASE Goto(q, s) \/ Goto(q, t)
  BY <1>2, <1>4, <1>5, StepTypes DEF SetDrive, Goto, TypeInv, TypeOK
<1> QED
  BY <1>2, <1>3, <1>5 DEF SetDrive, Then

LEMMA UpdateFoundTypes ==
    ASSUME TypeInv, NEW q \in Requests, UpdateFound(q) PROVE TypeInv' /\ Kept
<1> DEFINE r == req[q]
           s == [r EXCEPT !.pc = "next"]
           t == [r EXCEPT !.pc = "link"]
<1>1. Shape(r) /\ r \in Request /\ r.pc = "update"
  BY AtRequest DEF UpdateFound, At
<1>2. Kept /\ ParentsExist' /\ drives' \in [Drives -> Drive \cup {Null}]
  BY UpdateFoundEdited, EditedKept
<1>3. CASE End(q)
  BY <1>2, <1>3, EndsTypes DEF UpdateFound, TypeInv, TypeOK
<1>4. (r.op = "share" => Shape(s)) /\ Shape(t)
  <2>1. s \in Request /\ t \in Request
    BY <1>1 DEF Request, Steps
  <2> QED
    BY <1>1, <2>1 DEF Shape, Request
<1>5. CASE r.op = "share" /\ Goto(q, s)
  BY <1>2, <1>4, <1>5, StepTypes DEF UpdateFound, Goto, TypeInv, TypeOK
<1>6. CASE Goto(q, t)
  BY <1>2, <1>4, <1>6, StepTypes DEF UpdateFound, Goto, TypeInv, TypeOK
<1> QED
  BY <1>2, <1>3, <1>5, <1>6 DEF UpdateFound, Then

LEMMA LinkParentTypes ==
    ASSUME TypeInv, NEW q \in Requests, LinkParent(q) PROVE TypeInv' /\ Kept
<1> DEFINE r == req[q]
           s == [r EXCEPT !.pc = "repath", !.path = drives[r.parent].path]
<1>1. Shape(r) /\ r \in Request /\ r.pc = "link"
  BY AtRequest DEF LinkParent, At
<1>2. CASE Live(r.parent)
  <2>1. Edited /\ Exists(r.parent) /\ Exists(r.drive)
    BY <1>2, LinkParentEdited
  <2>2. Kept /\ ParentsExist' /\ drives' \in [Drives -> Drive \cup {Null}]
    BY <2>1, EditedKept
  <2>3. drives[r.parent].path \in Seq(Maybe(Drives))
    BY <1>1, <2>1, Document DEF Request, TypeInv, Drive
  <2>4. s \in Request
    BY <1>1, <2>3 DEF Request, Steps
  <2>5. Shape(s)
    BY <1>1, <2>1, <2>4 DEF Shape, Request
  <2> QED
    BY <1>2, <2>2, <2>5, StepTypes DEF LinkParent, Goto, TypeInv, TypeOK
<1>3. CASE ~Live(r.parent)
  BY <1>3, EndTypes, SameDrives DEF LinkParent
<1> QED
  BY <1>2, <1>3

LEMMA RepathFoundTypes ==
    ASSUME TypeInv, NEW q \in Requests, RepathFound(q) PROVE TypeInv' /\ Kept
<1>1. Kept /\ ParentsExist' /\ drives' \in [Drives -> Drive \cup {Null}]
  BY RepathFoundEdited, EditedKept
<1> QED
  BY <1>1, EndsTypes DEF RepathFound, TypeInv, TypeOK

LEMMA PasteCopiesTypes ==
    ASSUME TypeInv, NEW q \in Requests, PasteCopies(q) PROVE TypeInv' /\ Kept
<1> DEFINE C == Copied(req[q])
           F == C \cap WithFile(req[q])
<1>1. PICK id, uri : Pasted(q, id, uri)
  BY PasteCopiesEffect
<1>2. Kept /\ ParentsExist' /\ drives' \in [Drives -> Drive \cup {Null}]
  BY <1>1, GrownKept DEF Pasted
<1>3. /\ id \in [C -> FreshDrives] /\ uri \in [F -> FreshFiles]
      /\ stored' = stored \cup {uri[d] : d \in F}
      /\ unlisted' \subseteq unlisted \cup {id[d] : d \in C}
  BY <1>1 DEF Pasted
<1> HIDE DEF C, F
<1>4. stored' \subseteq Files /\ unlisted' \subseteq Drives
  BY <1>3 DEF FreshDrives, FreshFiles, TypeInv, TypeOK
<1> QED
  BY <1>2, <1>4, EndsTypes DEF PasteCopies, TypeInv, TypeOK

LEMMA MarkDrivesTypes ==
    ASSUME TypeInv, NEW q \in Requests, MarkDrives(q) PROVE TypeInv' /\ Kept
<1> DEFINE r == req[q]
           s == [r EXCEPT !.pc = "files"]
<1>1. Shape(r) /\ r \in Request /\ r.pc = "mark"
  BY AtRequest DEF MarkDrives, At
<1>2. Kept /\ ParentsExist' /\ drives' \in [Drives -> Drive \cup {Null}]
  BY MarkDrivesEdited, EditedKept
<1>3. s \in Request
  BY <1>1 DEF Request, Steps
<1>4. Shape(s)
  BY <1>1, <1>3 DEF Shape, Request
<1> QED
  BY <1>2, <1>4, StepTypes DEF MarkDrives, Then, Goto, TypeInv, TypeOK

LEMMA MarkFilesTypes == ASSUME TypeInv, NEW q \in Requests, MarkFiles(q) PROVE TypeInv'
<1>1. Kept /\ ParentsExist' /\ drives' \in [Drives -> Drive \cup {Null}]
  BY SameDrives DEF MarkFiles, TypeInv, TypeOK, ParentsExist, Exists
<1>2. files' \in [Files -> {"none", "live", "deleted"}]
  BY DEF MarkFiles, TypeInv, TypeOK
<1> QED
  BY <1>1, <1>2, EndsTypes DEF MarkFiles, TypeInv, TypeOK

LEMMA FailTypes == ASSUME TypeInv, NEW q \in Requests, Fail(q) PROVE TypeInv'
<1>1. Kept /\ ParentsExist'
  BY SameDrives DEF Fail, TypeInv, ParentsExist, Exists
<1>2. Dropped(req[q]) \subseteq Drives
  BY AtRequest DEF Dropped, Pending, Request, Maybe
<1> QED
  BY <1>1, <1>2, EndsTypes DEF Fail, TypeInv, TypeOK

LEMMA RestartTypes == ASSUME TypeInv, Restart PROVE TypeInv'
<1>1. \A q \in Requests : Dropped(req[q]) \subseteq Drives
  BY AtRequest DEF Dropped, Pending, Request, Maybe
<1>2. \A q \in Requests : Shape(req[q])'
  BY IdleShape DEF Restart
<1>3. ParentsExist'
  BY DEF Restart, TypeInv, ParentsExist, Exists
<1> QED
  BY <1>1, <1>2, <1>3, IdleRequest DEF Restart, TypeInv, TypeOK

\* Which step it is: the lemmas about a step begin from this.
LEMMA NextTypes ==
    ASSUME TypeInv, [Next]_vars
    PROVE  TypeInv' /\ Kept
<1>1. ASSUME NEW q \in Requests, Step(q) PROVE TypeInv' /\ Kept
  <2>1. CASE NextPart(q)
    BY <2>1, NextPartTypes, SameDrives DEF NextPart
  <2>2. CASE FindParent(q)
    BY <2>2, FindParentTypes, SameDrives DEF FindParent
  <2>3. CASE PutObject(q)
    BY <2>3, PutObjectTypes, SameDrives DEF PutObject
  <2>4. CASE InsertEntry(q)
    BY <2>4, InsertEntryTypes, SameDrives DEF InsertEntry
  <2>5. CASE NextShare(q)
    BY <2>5, NextShareTypes, SameDrives DEF NextShare
  <2>6. CASE Visit(q)
    BY <2>6, VisitTypes, SameDrives DEF Visit
  <2>7. CASE MarkFiles(q)
    BY <2>7, MarkFilesTypes, SameDrives DEF MarkFiles
  <2> QED
    BY <1>1, <2>1, <2>2, <2>3, <2>4, <2>5, <2>6, <2>7, InsertDriveTypes, PushChildTypes,
       SetDriveTypes, UpdateFoundTypes, LinkParentTypes, RepathFoundTypes, PasteCopiesTypes,
       MarkDrivesTypes DEF Step
<1>2. ASSUME NEW q \in Requests, Fail(q) PROVE TypeInv' /\ Kept
  BY <1>2, FailTypes, SameDrives DEF Fail
<1>3. ASSUME NEW q \in Requests, NEW u \in Users, Ask(q, u) PROVE TypeInv' /\ Kept
  BY <1>3, AskAsked, AskedTypes
<1>4. CASE Restart
  BY <1>4, RestartTypes, SameDrives DEF Restart
<1>5. CASE UNCHANGED vars
  <2>1. Kept /\ ParentsExist'
    BY <1>5, SameDrives DEF vars, TypeInv, ParentsExist, Exists
  <2>2. \A q \in Requests : Shape(req[q])'
    BY <1>5, <2>1, ShapeKept DEF vars, TypeInv
  <2> QED
    BY <1>5, <2>1, <2>2 DEF vars, TypeInv, TypeOK
<1> QED
  BY <1>1, <1>2, <1>3, <1>4, <1>5 DEF Next

LEMMA InitTypes == Init => TypeInv
<1> SUFFICES ASSUME Init PROVE TypeInv
  OBVIOUS
<1>1. ASSUME NEW u \in Owners PROVE MyDrive(u) \in Drive /\ MyDrive(u).parent = Null
  <2>1. Root[u] \in Maybe(Drives) /\ u \in Maybe(Users)
    BY RootAssumption, PeopleAssumption DEF Maybe
  <2>2. <<Root[u]>> \in Seq(Maybe(Drives))
    BY <2>1
  <2> QED
    BY <2>1, <2>2 DEF MyDrive, Drive, Maybe
<1>2. \A d \in Roots : (CHOOSE u \in Owners : Root[u] = d) \in Owners
  BY DEF Roots
<1>3. \A d \in Drives : /\ drives[d] \in Drive \cup {Null}
                        /\ drives[d] # Null => drives[d].parent = Null
  BY <1>1, <1>2 DEF Init
<1>4. drives \in [Drives -> Drive \cup {Null}] /\ ParentsExist
  BY <1>3 DEF Init, ParentsExist, Exists
<1>5. Shape(Idle) /\ Idle \in Request
  BY IdleShape DEF Shape
<1> QED
  BY <1>4, <1>5 DEF Init, TypeInv, TypeOK

\* Every variable, and all that a request holds of its progress, keeps its type.
THEOREM TypeCorrect == Spec => []TypeOK
<1>1. TypeInv /\ [Next]_vars => TypeInv'
  BY NextTypes
<1>2. TypeInv => TypeOK
  BY DEF TypeInv
<1> QED
  BY InitTypes, <1>1, <1>2, PTL DEF Spec

-----------------------------------------------------------------------------
(* FileKept.                                                               *)

HoldsLess ==
    \A p \in Requests : Holds(req[p])' => Holds(req[p]) /\ req'[p].file = req[p].file

MarksKept ==
    \A p \in Requests : req'[p].pc = "files" => req[p].pc = "files" /\ req'[p].found = req[p].found

NoneNew == \A d \in Drives : Exists(d)' => Exists(d)

LEMMA FoundThere ==
    ASSUME TypeInv, NEW q \in Requests
    PROVE  \A d \in req[q].found : d \in Drives /\ Exists(d)
  BY AtRequest DEF Shape, Request

\* No drive, no entry, no object is added, and nothing is deleted that was not.
LEMMA QuietFiles ==
    ASSUME TypeInv, FileInv, Kept, NoneNew, HoldsLess, MarksKept, UNCHANGED <<files, stored>>
    PROVE  FileInv'
<1>1. FileKept'
  BY DEF FileInv, FileKept, Kept, NoneNew, LiveDrives, Live
<1>2. DrivesApart'
  BY DEF FileInv, DrivesApart, Kept, NoneNew
<1>3. HoldersApart'
  BY DEF FileInv, HoldersApart, HoldsLess
<1>4. ASSUME NEW p \in Requests PROVE Holding(req[p])'
  <2> SUFFICES ASSUME Holds(req[p])'
               PROVE  req'[p].file \in stored /\ Free(req[p].file)' /\ files[req'[p].file] # "deleted"
    BY DEF Holding
  <2>1. Holding(req[p]) /\ Holds(req[p]) /\ req'[p].file = req[p].file
    BY DEF FileInv, HoldsLess
  <2> QED
    BY <2>1 DEF Holding, Free, Kept, NoneNew
<1>5. ASSUME NEW p \in Requests PROVE Marked(req[p])'
  BY FoundThere DEF FileInv, Marked, MarksKept, Kept, Live
<1> QED
  BY <1>1, <1>2, <1>3, <1>4, <1>5 DEF FileInv

LEMMA QuietRequest ==
    ASSUME TypeInv, NEW q \in Requests, NEW r, req' = [req EXCEPT ![q] = r],
           r.pc # "files", ~Holds(r)
    PROVE  HoldsLess /\ MarksKept
<1>1. req \in [Requests -> Request]
  BY DEF TypeInv, TypeOK
<1>2. ASSUME NEW p \in Requests
      PROVE  /\ Holds(req[p])' => Holds(req[p]) /\ req'[p].file = req[p].file
             /\ req'[p].pc = "files" => req[p].pc = "files" /\ req'[p].found = req[p].found
  <2>1. CASE p = q
    BY <1>1, <2>1 DEF Holds
  <2>2. CASE p # q
    BY <1>1, <2>2 DEF Holds
  <2> QED
    BY <2>1, <2>2
<1> QED
  BY <1>2 DEF HoldsLess, MarksKept

LEMMA EndQuiet ==
    ASSUME TypeInv, NEW q \in Requests, End(q) PROVE HoldsLess /\ MarksKept
<1>1. Idle.pc # "files" /\ ~Holds(Idle)
  BY DEF Idle, Holds
<1> QED
  BY <1>1, QuietRequest DEF End, Goto

LEMMA SameNone == UNCHANGED drives => NoneNew
  BY DEF NoneNew, Exists

LEMMA EditedNone == ASSUME TypeInv, Edited PROVE NoneNew
  BY DEF NoneNew, Edited, Exists, TypeInv, TypeOK

\* Most steps of a request make no file, entry or object and find nothing to delete.
LEMMA StepQuiet ==
    ASSUME TypeInv, NEW q \in Requests,
           \/ NextPart(q) \/ FindParent(q) \/ PushChild(q) \/ NextShare(q) \/ SetDrive(q)
           \/ Visit(q) \/ UpdateFound(q) \/ LinkParent(q) \/ RepathFound(q)
    PROVE  HoldsLess /\ MarksKept /\ NoneNew /\ UNCHANGED <<files, stored>>
<1> DEFINE r == req[q]
<1>1. Shape(r) /\ r \in Request
  BY AtRequest
<1>2. CASE NextPart(q)
  <2>1. HoldsLess /\ MarksKept
    <3>1. CASE End(q)
      BY <3>1, EndQuiet
    <3>2. ASSUME NEW d, Goto(q, [r EXCEPT !.parent = d, !.parts = Tail(r.parts)])
          PROVE  HoldsLess /\ MarksKept
      <4> DEFINE s == [r EXCEPT !.parent = d, !.parts = Tail(r.parts)]
      <4>1. s.pc # "files" /\ ~Holds(s)
        BY <1>1, <1>2 DEF NextPart, At, Holds, Request
      <4> QED
        BY <3>2, <4>1, QuietRequest DEF Goto
    <3>3. CASE Goto(q, [r EXCEPT !.pc = "find", !.name = Head(r.parts), !.parts = Tail(r.parts)])
      <4> DEFINE s == [r EXCEPT !.pc = "find", !.name = Head(r.parts), !.parts = Tail(r.parts)]
      <4>1. s.pc # "files" /\ ~Holds(s)
        BY <1>1 DEF Holds, Request
      <4> QED
        BY <3>3, <4>1, QuietRequest DEF Goto
    <3> QED
      BY <1>2, <3>1, <3>2, <3>3 DEF NextPart
  <2> QED
    BY <1>2, <2>1, SameNone DEF NextPart
<1>3. CASE FindParent(q)
  <2> DEFINE step == IF MakesFile(r) THEN "put" ELSE "insert"
             Found(p) == [r EXCEPT !.pc = step, !.parent = p, !.path = drives[p].path,
                                   !.shared = drives[p].shared,
                                   !.manager = IF MakesFile(r) THEN r.user
                                               ELSE drives[p].manager]
  <2>1. ASSUME NEW p, Goto(q, Found(p)) PROVE HoldsLess /\ MarksKept
    <3>1. r.file = Null
      BY <1>1, <1>3 DEF Shape, FindParent, At
    <3>2. Found(p).pc # "files" /\ ~Holds(Found(p))
      BY <1>1, <3>1 DEF Holds, Request
    <3> HIDE DEF Found
    <3> QED
      BY <2>1, <3>2, QuietRequest DEF Goto
  <2>2. End(q) \/ \E p : Goto(q, Found(p))
    BY <1>3 DEF FindParent
  <2> QED
    BY <1>3, <2>1, <2>2, EndQuiet, SameNone DEF FindParent
<1>4. CASE PushChild(q)
  <2> DEFINE s == [r EXCEPT !.pc = "part", !.parent = r.drive, !.drive = Null]
  <2>1. s.pc # "files" /\ ~Holds(s)
    BY <1>1 DEF Holds, Request
  <2>2. End(q) \/ Goto(q, s)
    BY <1>4 DEF PushChild
  <2>3. HoldsLess /\ MarksKept
    BY <2>1, <2>2, EndQuiet, QuietRequest DEF Goto
  <2> QED
    BY <1>4, <2>3, PushChildEdited, EditedNone DEF PushChild
<1>5. CASE NextShare(q)
  <2>1. ASSUME NEW d, Goto(q, [r EXCEPT !.rest = r.rest \ {d}])
        PROVE  HoldsLess /\ MarksKept
    <3> DEFINE s == [r EXCEPT !.rest = r.rest \ {d}]
    <3>1. s.pc # "files" /\ ~Holds(s)
      BY <1>1, <1>5 DEF Holds, Request, NextShare, At
    <3> QED
      BY <2>1, <3>1, QuietRequest DEF Goto
  <2>2. ASSUME NEW d, Goto(q, From([r EXCEPT !.pc = "set", !.rest = r.rest \ {d}], d))
        PROVE  HoldsLess /\ MarksKept
    <3> DEFINE s == From([r EXCEPT !.pc = "set", !.rest = r.rest \ {d}], d)
    <3>1. s.pc # "files" /\ ~Holds(s)
      BY <1>1 DEF Holds, Request, From
    <3> QED
      BY <2>2, <3>1, QuietRequest DEF Goto
  <2> QED
    BY <1>5, <2>1, <2>2, EndQuiet, SameNone DEF NextShare
<1>6. CASE SetDrive(q)
  <2> DEFINE s == [r EXCEPT !.pc = "walk"]
             t == [r EXCEPT !.pc = "link", !.todo = {}]
  <2>1. s.pc # "files" /\ ~Holds(s) /\ t.pc # "files" /\ ~Holds(t)
    BY <1>1 DEF Holds, Request
  <2>2. End(q) \/ Goto(q, s) \/ Goto(q, t)
    BY <1>6 DEF SetDrive, Then
  <2>3. HoldsLess /\ MarksKept
    BY <2>1, <2>2, EndQuiet, QuietRequest DEF Goto
  <2> QED
    BY <1>6, <2>3, SetDriveEdited, EditedNone DEF SetDrive
<1>7. CASE Visit(q)
  <2>1. ASSUME NEW d, Goto(q, Visited(q, d)) PROVE HoldsLess /\ MarksKept
    <3>1. Visited(q, d).pc # "files" /\ ~Holds(Visited(q, d))
      BY <1>1, <1>7, VisitCases DEF Visited, Holds, Request
    <3> QED
      BY <2>1, <3>1, QuietRequest DEF Goto
  <2>2. ASSUME Goto(q, [r EXCEPT !.pc = "next", !.rest = r.found])
        PROVE  HoldsLess /\ MarksKept
    <3> DEFINE s == [r EXCEPT !.pc = "next", !.rest = r.found]
    <3>1. s.pc # "files" /\ ~Holds(s)
      BY <1>1 DEF Holds, Request
    <3>2. req' = [req EXCEPT ![q] = s]
      BY <2>2 DEF Goto
    <3> HIDE DEF s
    <3> QED
      BY <3>1, <3>2, QuietRequest
  <2>3. ASSUME Goto(q, [r EXCEPT !.pc = After(r)])
        PROVE  HoldsLess /\ MarksKept
    <3> DEFINE s == [r EXCEPT !.pc = After(r)]
    <3>1. s.pc # "files" /\ ~Holds(s)
      BY <1>1 DEF Holds, Request, After
    <3>2. req' = [req EXCEPT ![q] = s]
      BY <2>3 DEF Goto
    <3> HIDE DEF s
    <3> QED
      BY <3>1, <3>2, QuietRequest
  <2>4. HoldsLess /\ MarksKept
    BY <1>7, <2>1, <2>2, <2>3, VisitCases
  <2> QED
    BY <1>7, <2>4, SameNone DEF Visit
<1>8. CASE UpdateFound(q)
  <2> DEFINE s == [r EXCEPT !.pc = "next"]
             t == [r EXCEPT !.pc = "link"]
  <2>1. s.pc # "files" /\ ~Holds(s) /\ t.pc # "files" /\ ~Holds(t)
    BY <1>1 DEF Holds, Request
  <2>2. End(q) \/ Goto(q, s) \/ Goto(q, t)
    BY <1>8 DEF UpdateFound, Then
  <2>3. HoldsLess /\ MarksKept
    BY <2>1, <2>2, EndQuiet, QuietRequest DEF Goto
  <2> QED
    BY <1>8, <2>3, UpdateFoundEdited, EditedNone DEF UpdateFound
<1>9. CASE LinkParent(q)
  <2> DEFINE s == [r EXCEPT !.pc = "repath", !.path = drives[r.parent].path]
  <2>1. s.pc # "files" /\ ~Holds(s)
    BY <1>1 DEF Holds, Request
  <2>2. End(q) \/ Goto(q, s)
    BY <1>9 DEF LinkParent
  <2>3. HoldsLess /\ MarksKept
    BY <2>1, <2>2, EndQuiet, QuietRequest DEF Goto
  <2>4. NoneNew
    BY <1>9, LinkParentEdited, EditedNone, SameNone DEF LinkParent
  <2> QED
    BY <1>9, <2>3, <2>4 DEF LinkParent
<1>10. CASE RepathFound(q)
  BY <1>10, EndQuiet, RepathFoundEdited, EditedNone DEF RepathFound
<1> QED
  BY <1>2, <1>3, <1>4, <1>5, <1>6, <1>7, <1>8, <1>9, <1>10

\* The steps that do, each.
LEMMA PutObjectFiles ==
    ASSUME TypeInv, FileInv, NEW q \in Requests, PutObject(q) PROVE FileInv'
<1> DEFINE r == req[q]
<1>1. Shape(r) /\ r \in Request /\ req \in [Requests -> Request]
  BY AtRequest DEF TypeInv, TypeOK
<1>2. PICK f \in FreshFiles :
        stored' = stored \cup {f} /\ req' = [req EXCEPT ![q] = [r EXCEPT !.pc = "entry", !.file = f]]
  BY DEF PutObject, Goto
<1>3. f \in Files /\ f \notin stored /\ f # Null
  BY <1>2, NullAssumption DEF FreshFiles
<1>4. files[f] # "deleted" /\ Free(f)
  BY <1>3 DEF FileInv, FileKept, Free
<1>5. UNCHANGED <<drives, files>>
  BY DEF PutObject
<1>6. req'[q].pc = "entry" /\ req'[q].file = f
  BY <1>1, <1>2 DEF Request
<1>7. \A p \in Requests : p # q => req'[p] = req[p]
  BY <1>1, <1>2
<1>8. FileKept' /\ DrivesApart'
  BY <1>2, <1>5 DEF FileInv, FileKept, DrivesApart, LiveDrives, Live, Exists
<1>9. ASSUME NEW p \in Requests PROVE Holding(req[p])' /\ Marked(req[p])'
  <2>1. CASE p = q
    BY <1>2, <1>4, <1>5, <1>6, <2>1 DEF Holding, Marked, Free, Exists
  <2>2. CASE p # q
    <3>1. Holding(req[p]) /\ Marked(req[p])
      BY DEF FileInv
    <3> QED
      BY <1>2, <1>5, <1>7, <2>2, <3>1 DEF Holding, Marked, Holds, Free, Live, Exists
  <2> QED
    BY <2>1, <2>2
<1>10. HoldersApart'
  <2>1. \A p \in Requests : Holds(req[p]) => req[p].file # f
    BY <1>3 DEF FileInv, Holding
  <2>2. \A p \in Requests : p # q => (Holds(req[p])' <=> Holds(req[p]))
    BY <1>7 DEF Holds
  <2> QED
    BY <1>6, <1>7, <2>1, <2>2 DEF HoldersApart, FileInv
<1> QED
  BY <1>8, <1>9, <1>10 DEF FileInv

LEMMA InsertEntryFiles ==
    ASSUME TypeInv, FileInv, NEW q \in Requests, InsertEntry(q) PROVE FileInv'
<1> DEFINE r == req[q]
           f == r.file
<1>1. Shape(r) /\ r \in Request /\ r.pc = "entry" /\ req \in [Requests -> Request]
      /\ files \in [Files -> {"none", "live", "deleted"}]
  BY AtRequest DEF TypeInv, TypeOK, InsertEntry, At
<1>2. f \in Files /\ Holds(r) /\ Holding(r)
  BY <1>1 DEF Shape, Request, Maybe, Holds, FileInv
<1>3. files' = [files EXCEPT ![f] = "live"] /\ UNCHANGED <<drives, stored>>
      /\ req' = [req EXCEPT ![q] = [r EXCEPT !.pc = "insert"]]
  BY DEF InsertEntry, Then, Goto
<1>4. /\ \A g \in Files : g # f => files'[g] = files[g]
      /\ files'[f] = "live"
  BY <1>1, <1>2, <1>3
<1>5. \A g : files'[g] = "deleted" => files[g] = "deleted" \/ g \notin Files
  BY <1>1, <1>4
<1>6. FileKept' /\ DrivesApart'
  <2>1. f \in stored
    BY <1>2 DEF Holding
  <2>2. \A d \in Drives : Exists(d) => drives[d].file = Null \/ drives[d].file \in Files
    BY Document DEF TypeInv, Maybe, Drive
  <2> QED
    BY <1>3, <1>4, <1>5, <2>1, <2>2 DEF FileInv, FileKept, DrivesApart, LiveDrives, Live, Exists
<1>7. req'[q].pc = "insert" /\ req'[q].file = f
  BY <1>1, <1>3 DEF Request
<1>8. \A p \in Requests : p # q => req'[p] = req[p]
  BY <1>1, <1>3
<1>9. ASSUME NEW p \in Requests PROVE Holding(req[p])' /\ Marked(req[p])'
  <2>1. CASE p = q
    BY <1>2, <1>3, <1>4, <1>7, <2>1 DEF Holding, Marked, Free, Exists
  <2>2. CASE p # q
    <3>1. Holding(req[p]) /\ Marked(req[p])
      BY DEF FileInv
    <3>2. Holds(req[p]) => req[p].file \in Files
      BY AtRequest DEF Holds, Request, Maybe
    <3> QED
      BY <1>3, <1>5, <1>8, <2>2, <3>1, <3>2 DEF Holding, Marked, Holds, Free, Live, Exists
  <2> QED
    BY <2>1, <2>2
<1>10. HoldersApart'
  <2>1. \A p \in Requests : Holds(req[p])' => Holds(req[p]) /\ req'[p].file = req[p].file
    BY <1>2, <1>7, <1>8 DEF Holds
  <2> QED
    BY <2>1 DEF HoldersApart, FileInv
<1> QED
  BY <1>6, <1>9, <1>10 DEF FileInv

LEMMA InsertDriveFiles ==
    ASSUME TypeInv, FileInv, NEW q \in Requests, InsertDrive(q) PROVE FileInv'
<1> DEFINE r == req[q]
<1>1. Shape(r) /\ r \in Request /\ r.pc = "insert" /\ req \in [Requests -> Request]
  BY AtRequest DEF TypeInv, TypeOK, InsertDrive, At
<1>2. PICK d \in Drives :
        /\ ~Exists(d)
        /\ \A e \in Drives : e # d => drives'[e] = drives[e]
        /\ drives'[d].file = r.file
        /\ req' = [req EXCEPT ![q] = [r EXCEPT !.pc = "push", !.drive = d]]
  BY InsertDriveEffect
<1>3. UNCHANGED <<files, stored>>
  BY DEF InsertDrive
<1>4. /\ req'[q].pc = "push"
      /\ \A p \in Requests : p # q => req'[p] = req[p]
  BY <1>1, <1>2 DEF Request
<1>5. Holds(r) <=> r.file # Null
  BY <1>1 DEF Holds
<1>6. Holding(r)
  BY DEF FileInv
<1>7. FileKept'
  <2>1. r.file # Null => r.file \in stored /\ files[r.file] # "deleted"
    BY <1>5, <1>6 DEF Holding
  <2> QED
    BY <1>2, <1>3, <2>1 DEF FileInv, FileKept, LiveDrives, Live, Exists
<1>8. DrivesApart'
  <2>1. r.file # Null => \A e \in Drives : Exists(e) => drives[e].file # r.file
    BY <1>5, <1>6 DEF Holding, Free
  <2> QED
    BY <1>2, <2>1 DEF FileInv, DrivesApart, Exists
<1>9. \A p \in Requests : Holds(req[p])' => p # q /\ Holds(req[p]) /\ req'[p] = req[p]
  BY <1>4 DEF Holds
<1>10. HoldersApart'
  BY <1>9 DEF HoldersApart, FileInv
<1>11. ASSUME NEW p \in Requests PROVE Holding(req[p])' /\ Marked(req[p])'
  <2>1. Holding(req[p]) /\ Marked(req[p])
    BY DEF FileInv
  <2>2. Holding(req[p])'
    <3> SUFFICES ASSUME Holds(req[p])'
                 PROVE  req'[p].file \in stored' /\ Free(req[p].file)' /\ files'[req'[p].file] # "deleted"
      BY DEF Holding
    <3>1. p # q /\ Holds(req[p]) /\ req'[p] = req[p]
      BY <1>9
    <3>2. req[p].file # r.file
      BY <1>5, <3>1 DEF FileInv, HoldersApart, Holds
    <3> QED
      BY <1>2, <1>3, <2>1, <3>1, <3>2 DEF Holding, Free, Exists
  <2>3. Marked(req[p])'
    <3>1. req'[p].pc = "files" => p # q /\ req'[p] = req[p]
      BY <1>4
    <3>2. \A e \in req[p].found : e \in Drives /\ e # d
      BY <1>2, FoundThere
    <3> QED
      BY <1>2, <2>1, <3>1, <3>2 DEF Marked, Live, Exists
  <2> QED
    BY <2>2, <2>3
<1> QED
  BY <1>7, <1>8, <1>10, <1>11 DEF FileInv

LEMMA PasteCopiesFiles ==
    ASSUME TypeInv, FileInv, NEW q \in Requests, PasteCopies(q) PROVE FileInv'
<1> DEFINE r == req[q]
           C == Copied(r)
           F == C \cap WithFile(r)
<1>0. PICK id, uri : Pasted(q, id, uri)
  BY PasteCopiesEffect
<1>1. /\ id \in [C -> FreshDrives] /\ uri \in [F -> FreshFiles]
      /\ \A c, d \in C : id[c] = id[d] => c = d
      /\ \A c, d \in F : uri[c] = uri[d] => c = d
      /\ Grown
      /\ \A e \in Drives : ~(\E d \in C : id[d] = e) => drives'[e] = drives[e]
      /\ \A d \in C : /\ drives'[id[d]] \in Drive
                      /\ drives'[id[d]].file = IF d \in WithFile(r) THEN uri[d] ELSE Null
      /\ stored' = stored \cup {uri[d] : d \in F}
  BY <1>0 DEF Pasted
<1>2. UNCHANGED files /\ End(q)
  BY DEF PasteCopies
<1>3. HoldsLess /\ MarksKept
  BY <1>2, EndQuiet
<1> HIDE DEF C
<1>4. \A d \in F : uri[d] \in Files /\ uri[d] \notin stored /\ uri[d] # Null
  BY <1>1, NullAssumption DEF FreshFiles
<1>5. \A d \in F : files[uri[d]] # "deleted"
  BY <1>4 DEF FileInv, FileKept
\* A drive that is there afterwards is one that was, or a copy.
<1>6. ASSUME NEW e \in Drives, Exists(e)'
      PROVE  \/ Exists(e) /\ drives'[e] = drives[e]
             \/ ~Exists(e) /\ \E d \in C : id[d] = e
                           /\ drives'[e].file = (IF d \in WithFile(r) THEN uri[d] ELSE Null)
  <2>1. CASE \E d \in C : id[d] = e
    <3>1. PICK d \in C : id[d] = e
      BY <2>1
    <3>2. ~Exists(e)
      BY <1>1, <3>1 DEF FreshDrives, Exists
    <3> QED
      BY <1>1, <3>1, <3>2
  <2>2. CASE ~(\E d \in C : id[d] = e)
    BY <1>1, <1>6, <2>2 DEF Exists
  <2> QED
    BY <2>1, <2>2
<1>7. FileKept'
  <2>1. \A d \in LiveDrives : drives[d].file # Null => files[drives[d].file] # "deleted"
    BY DEF FileInv, FileKept
  <2>2. \A d \in Drives : Exists(d) /\ drives[d].file # Null => drives[d].file \in stored
    BY DEF FileInv, FileKept
  <2>3. ASSUME NEW e \in Drives, Exists(e)', drives'[e].file # Null
        PROVE  drives'[e].file \in stored' /\ (drives'[e].live => files'[drives'[e].file] # "deleted")
    <3>1. CASE Exists(e) /\ drives'[e] = drives[e]
      BY <1>1, <1>2, <2>1, <2>2, <2>3, <3>1 DEF LiveDrives, Live
    <3>2. CASE \E d \in C : drives'[e].file = (IF d \in WithFile(r) THEN uri[d] ELSE Null)
      BY <1>1, <1>2, <1>5, <2>3, <3>2
    <3> QED
      BY <1>6, <2>3, <3>1, <3>2
  <2>4. \A f \in Files : files'[f] # "none" => f \in stored'
    BY <1>1, <1>2 DEF FileInv, FileKept
  <2> QED
    BY <2>3, <2>4 DEF FileKept, LiveDrives, Live
<1>8. DrivesApart'
  <2> SUFFICES ASSUME NEW c \in Drives, NEW d \in Drives, Exists(c)', Exists(d)',
                      drives'[c].file = drives'[d].file, drives'[c].file # Null
               PROVE  c = d
    BY DEF DrivesApart
  <2>1. \A e \in Drives : Exists(e) => drives[e].file = Null \/ drives[e].file \in stored
    BY DEF FileInv, FileKept
  <2>2. CASE Exists(c) /\ Exists(d)
    BY <1>6, <2>2 DEF FileInv, DrivesApart
  <2>3. CASE ~Exists(c) /\ ~Exists(d)
    <3>1. PICK a \in C : id[a] = c /\ drives'[c].file = (IF a \in WithFile(r) THEN uri[a] ELSE Null)
      BY <1>6, <2>3
    <3>2. PICK b \in C : id[b] = d /\ drives'[d].file = (IF b \in WithFile(r) THEN uri[b] ELSE Null)
      BY <1>6, <2>3
    <3>3. a \in F /\ b \in F /\ uri[a] = uri[b]
      BY <3>1, <3>2
    <3> QED
      BY <1>1, <3>1, <3>2, <3>3
  <2>4. CASE Exists(c) /\ ~Exists(d)
    <3>1. drives'[d].file \notin stored
      BY <1>4, <1>6, <2>4
    <3> QED
      BY <1>6, <2>1, <2>4, <3>1
  <2>5. CASE ~Exists(c) /\ Exists(d)
    <3>1. drives'[c].file \notin stored
      BY <1>4, <1>6, <2>5
    <3> QED
      BY <1>6, <2>1, <2>5, <3>1
  <2> QED
    BY <2>2, <2>3, <2>4, <2>5
<1>9. HoldersApart'
  BY <1>3 DEF FileInv, HoldersApart, HoldsLess
<1>10. ASSUME NEW p \in Requests PROVE Holding(req[p])'
  <2> SUFFICES ASSUME Holds(req[p])'
               PROVE  req'[p].file \in stored' /\ Free(req[p].file)' /\ files'[req'[p].file] # "deleted"
    BY DEF Holding
  <2>1. Holding(req[p]) /\ Holds(req[p]) /\ req'[p].file = req[p].file
    BY <1>3 DEF FileInv, HoldsLess
  <2>2. ASSUME NEW e \in Drives, Exists(e)' PROVE drives'[e].file # req[p].file
    <3>1. CASE Exists(e) /\ drives'[e] = drives[e]
      BY <2>1, <3>1 DEF Holding, Free
    <3>2. CASE \E d \in C : drives'[e].file = (IF d \in WithFile(r) THEN uri[d] ELSE Null)
      BY <1>4, <2>1, <3>2 DEF Holding, Holds
    <3> QED
      BY <1>6, <2>2, <3>1, <3>2
  <2> QED
    BY <1>1, <1>2, <2>1, <2>2 DEF Holding, Free
<1>11. ASSUME NEW p \in Requests PROVE Marked(req[p])'
  <2>1. \A d \in req[p].found : d \in Drives /\ Exists(d)
    BY FoundThere
  <2> QED
    BY <1>1, <1>3, <2>1 DEF FileInv, Marked, MarksKept, Grown, Live
<1> QED
  BY <1>7, <1>8, <1>9, <1>10, <1>11 DEF FileInv

LEMMA MarkDrivesFiles ==
    ASSUME TypeInv, FileInv, NEW q \in Requests, MarkDrives(q) PROVE FileInv'
<1> DEFINE r == req[q]
           s == [r EXCEPT !.pc = "files"]
<1>1. r \in Request /\ req \in [Requests -> Request]
  BY AtRequest DEF TypeInv, TypeOK
<1>2. req' = [req EXCEPT ![q] = s] /\ UNCHANGED <<files, stored>>
  BY DEF MarkDrives, Then, Goto
<1>3. Kept /\ NoneNew
  BY MarkDrivesEdited, EditedKept, EditedNone
<1>4. s.pc = "files" /\ s.found = r.found /\ ~Holds(s)
  BY <1>1 DEF Request, Holds
<1>5. /\ req'[q] = s
      /\ \A p \in Requests : p # q => req'[p] = req[p]
  BY <1>1, <1>2
<1> HIDE DEF s
<1>6. HoldsLess
  BY <1>4, <1>5 DEF HoldsLess, Holds
<1>7. FileKept' /\ DrivesApart' /\ HoldersApart'
  BY <1>2, <1>3, <1>6 DEF FileInv, FileKept, DrivesApart, HoldersApart, HoldsLess, Kept, NoneNew,
                         LiveDrives, Live
<1>8. ASSUME NEW p \in Requests PROVE Holding(req[p])'
  <2> SUFFICES ASSUME Holds(req[p])'
               PROVE  req'[p].file \in stored /\ Free(req[p].file)' /\ files[req'[p].file] # "deleted"
    BY <1>2 DEF Holding
  <2>1. Holding(req[p]) /\ Holds(req[p]) /\ req'[p].file = req[p].file
    BY <1>6 DEF FileInv, HoldsLess
  <2> QED
    BY <1>3, <2>1 DEF Holding, Free, Kept, NoneNew
<1>9. ASSUME NEW p \in Requests PROVE Marked(req[p])'
  <2>1. CASE p = q
    BY <1>4, <1>5, <2>1, FoundThere, MarkDrivesEdited DEF Marked, Live
  <2>2. CASE p # q
    <3>1. req'[p] = req[p] /\ Marked(req[p])
      BY <1>5, <2>2 DEF FileInv
    <3> QED
      BY <1>3, <3>1, FoundThere DEF Marked, Kept, Live
  <2> QED
    BY <2>1, <2>2
<1> QED
  BY <1>7, <1>8, <1>9 DEF FileInv

LEMMA MarkFilesFiles ==
    ASSUME TypeInv, FileInv, NEW q \in Requests, MarkFiles(q) PROVE FileInv'
<1> DEFINE r == req[q]
<1>1. r.pc = "files" /\ Marked(r) /\ UNCHANGED <<drives, stored>> /\ End(q)
  BY DEF MarkFiles, At, FileInv
<1>2. \A d \in r.found : d \in Drives /\ Exists(d) /\ ~Live(d)
  BY <1>1, FoundThere DEF Marked
<1>3. files' = [f \in Files |-> IF files[f] # "none" /\ \E d \in r.found : drives[d].file = f
                                THEN "deleted" ELSE files[f]]
  BY DEF MarkFiles
<1>4. \A f \in Files : /\ files'[f] # "none" => files[f] # "none"
                       /\ files'[f] = "deleted" =>
                            files[f] = "deleted" \/ \E d \in r.found : drives[d].file = f
  BY <1>3
<1>5. HoldsLess /\ MarksKept
  BY <1>1, EndQuiet
<1>6. \A d \in Drives : Exists(d) => drives[d].file = Null \/ drives[d].file \in Files
  BY Document DEF TypeInv, Maybe, Drive
<1>7. FileKept'
  <2>1. ASSUME NEW d \in LiveDrives, drives[d].file # Null
        PROVE  files'[drives[d].file] # "deleted"
    <3>1. d \in Drives /\ Live(d) /\ Exists(d)
      BY DEF LiveDrives, Live
    <3>2. files[drives[d].file] # "deleted" /\ drives[d].file \in Files
      BY <1>6, <2>1, <3>1 DEF FileInv, FileKept
    <3>3. ~(\E e \in r.found : drives[e].file = drives[d].file)
      BY <1>2, <2>1, <3>1 DEF FileInv, DrivesApart
    <3> QED
      BY <1>4, <3>2, <3>3
  <2> QED
    BY <1>1, <1>4, <2>1 DEF FileInv, FileKept, LiveDrives, Live, Exists
<1>8. DrivesApart' /\ HoldersApart'
  BY <1>1, <1>5 DEF FileInv, DrivesApart, HoldersApart, HoldsLess, Exists
<1>9. ASSUME NEW p \in Requests PROVE Holding(req[p])'
  <2> SUFFICES ASSUME Holds(req[p])'
               PROVE  req'[p].file \in stored /\ Free(req[p].file)' /\ files'[req'[p].file] # "deleted"
    BY <1>1 DEF Holding
  <2>1. Holding(req[p]) /\ Holds(req[p]) /\ req'[p].file = req[p].file
    BY <1>5 DEF FileInv, HoldsLess
  <2>2. req[p].file \in Files
    BY <2>1, AtRequest DEF Holds, Request, Maybe
  <2>3. ~(\E e \in r.found : drives[e].file = req[p].file)
    BY <1>2, <2>1 DEF Holding, Free
  <2> QED
    BY <1>1, <1>4, <2>1, <2>2, <2>3 DEF Holding, Free, Exists
<1>10. ASSUME NEW p \in Requests PROVE Marked(req[p])'
  BY <1>1, <1>5 DEF FileInv, Marked, MarksKept, Live, Exists
<1> QED
  BY <1>7, <1>8, <1>9, <1>10 DEF FileInv

\* Beginning a request leaves what the others are at.
LEMMA AskedOthers ==
    ASSUME TypeInv, NEW q \in Requests, NEW r, Asked(q, r)
    PROVE  /\ req'[q].pc = r.pc /\ req'[q].op = r.op /\ req'[q].file = r.file
           /\ req'[q].drive = r.drive /\ req'[q].found = r.found /\ req'[q].todo = r.todo
           /\ req'[q].alone => \A p \in Requests : req[p].pc = "idle"
           /\ req[q].pc = "idle"
           /\ \A p \in Requests : p # q =>
                 /\ req'[p].pc = req[p].pc /\ req'[p].op = req[p].op
                 /\ req'[p].drive = req[p].drive /\ req'[p].parent = req[p].parent
                 /\ req'[p].file = req[p].file /\ req'[p].found = req[p].found
                 /\ ~req'[p].alone
<1>1. r \in Request /\ \A p \in Requests : req[p] \in Request
  BY AtRequest DEF Asked, Fresh, Shape
<1>2. req[q].pc = "idle"
  BY DEF Asked, Begin, MayBegin
<1>3. req'[q] = [r EXCEPT !.alone = \A o \in Requests : req[o].pc = "idle"]
  BY DEF Asked, Begin
<1>4. \A p \in Requests : p # q => req'[p] = [req[p] EXCEPT !.alone = FALSE]
  BY DEF Asked, Begin
<1>5. /\ req'[q].pc = r.pc /\ req'[q].op = r.op /\ req'[q].file = r.file
      /\ req'[q].drive = r.drive /\ req'[q].found = r.found /\ req'[q].todo = r.todo
      /\ req'[q].alone => \A p \in Requests : req[p].pc = "idle"
  BY <1>1, <1>3 DEF Request
<1>6. ASSUME NEW p \in Requests, p # q
      PROVE  /\ req'[p].pc = req[p].pc /\ req'[p].op = req[p].op
             /\ req'[p].drive = req[p].drive /\ req'[p].parent = req[p].parent
             /\ req'[p].file = req[p].file /\ req'[p].found = req[p].found
             /\ ~req'[p].alone
  <2>1. req[p] \in Request /\ req'[p] = [req[p] EXCEPT !.alone = FALSE]
    BY <1>1, <1>4, <1>6
  <2> QED
    BY <2>1 DEF Request
<1> QED
  BY <1>2, <1>5, <1>6

LEMMA NextFiles ==
    ASSUME TypeInv, FileInv, [Next]_vars
    PROVE  FileInv'
<1>1. Kept
  BY NextTypes
<1>2. ASSUME NEW q \in Requests, Step(q) PROVE FileInv'
  BY <1>1, <1>2, StepQuiet, QuietFiles, PutObjectFiles, InsertEntryFiles, InsertDriveFiles,
     PasteCopiesFiles, MarkDrivesFiles, MarkFilesFiles DEF Step
<1>3. ASSUME NEW q \in Requests, Fail(q) PROVE FileInv'
  BY <1>1, <1>3, EndQuiet, SameNone, QuietFiles DEF Fail
<1>4. ASSUME NEW q \in Requests, NEW u \in Users, Ask(q, u) PROVE FileInv'
  <2>1. PICK r : Asked(q, r)
    BY <1>4, AskAsked
  <2>2. HoldsLess /\ MarksKept
    BY <2>1, AskedOthers DEF HoldsLess, MarksKept, Holds, Asked, Fresh
  <2> QED
    BY <1>1, <2>1, <2>2, SameNone, QuietFiles DEF Asked
<1>5. CASE Restart
  <2>1. HoldsLess /\ MarksKept
    BY <1>5 DEF Restart, HoldsLess, MarksKept, Holds, Idle
  <2> QED
    BY <1>1, <1>5, <2>1, SameNone, QuietFiles DEF Restart
<1>6. CASE UNCHANGED vars
  <2>1. HoldsLess /\ MarksKept
    BY <1>6 DEF vars, HoldsLess, MarksKept, Holds
  <2> QED
    BY <1>1, <1>6, <2>1, SameNone, QuietFiles DEF vars
<1> QED
  BY <1>2, <1>3, <1>4, <1>5, <1>6 DEF Next

LEMMA InitFiles == Init => FileInv
<1> SUFFICES ASSUME Init PROVE FileInv
  OBVIOUS
<1>1. \A d \in Drives : Exists(d) => drives[d].file = Null
  BY DEF Init, Exists, MyDrive
<1>2. \A q \in Requests : ~Holds(req[q]) /\ req[q].pc = "idle"
  BY DEF Init, Holds, Idle
<1> QED
  BY <1>1, <1>2 DEF Init, FileInv, FileKept, DrivesApart, HoldersApart, Holding, Marked,
                    LiveDrives, Live

\* A drive that is shown never leads to a file that is marked as deleted, and whatever a
\* drive or an entry names is in the object store, whatever requests overlap, fail or die.
THEOREM FilesKept == Spec => []FileKept
<1>1. TypeInv /\ FileInv /\ [Next]_vars => TypeInv' /\ FileInv'
  BY NextTypes, NextFiles
<1>2. FileInv => FileKept
  BY DEF FileInv
<1> QED
  BY InitTypes, InitFiles, <1>1, <1>2, PTL DEF Spec

-----------------------------------------------------------------------------
(* ChildrenComplete.                                                       *)

ParentsSame == \A d \in Drives : Exists(d) => drives'[d].parent = drives[d].parent

\* A request that has yet to enter a drive goes on, enters it, finds the folder gone or dies.
PendingDone ==
    \A p \in Requests : Pending(req[p]) =>
        \/ Pending(req[p])' /\ req'[p].drive = req[p].drive /\ req'[p].parent = req[p].parent
        \/ req[p].drive \in unlisted'
        \/ ~Live(req[p].parent)
        \/ req[p].drive \in drives'[req[p].parent].children

\* A drive that was there, is live, and is in the folder it was in.
LEMMA StaysListed ==
    ASSUME TypeInv, ChildrenComplete, Kept, PendingDone, unlisted \subseteq unlisted',
           NEW d \in Drives, Exists(d), drives'[d].parent = drives[d].parent,
           drives'[d].live, Folder(drives[d].parent)', d \notin unlisted'
    PROVE  \/ d \in drives'[drives[d].parent].children
           \/ \E q \in Requests : Pending(req[q])' /\ req'[q].drive = d
                                  /\ req'[q].parent = drives[d].parent
<1> DEFINE e == drives[d].parent
<1>1. drives[d] \in Drive
  BY Document DEF TypeInv, Maybe
<1>2. drives'[d].parent # Null
  BY DEF Folder, Live, Exists
<1>3. Exists(e) /\ e \in Drives
  BY <1>1, <1>2, Document DEF TypeInv, ParentsExist, Drive
<1>4. drives'[e].live /\ drives'[e].kind = "folder"
  BY DEF Folder, Live
<1>5. Folder(e)
  BY <1>3, <1>4 DEF Folder, Live, Kept
<1>6. d \in LiveDrives
  BY DEF LiveDrives, Live, Kept
<1>7. CASE d \in drives[e].children
  BY <1>3, <1>7 DEF Kept
<1>8. CASE \E q \in Requests : Pending(req[q]) /\ req[q].drive = d /\ req[q].parent = e
  <2>1. PICK q \in Requests : Pending(req[q]) /\ req[q].drive = d /\ req[q].parent = e
    BY <1>8
  <2>2. Live(req[q].parent)
    BY <1>5, <2>1 DEF Folder
  <2> QED
    BY <2>1, <2>2 DEF PendingDone
<1> QED
  BY <1>5, <1>6, <1>7, <1>8 DEF ChildrenComplete

\* No drive is added or put elsewhere.
LEMMA QuietChildren ==
    ASSUME TypeInv, ChildrenComplete, Kept, NoneNew, ParentsSame, PendingDone,
           unlisted \subseteq unlisted'
    PROVE  ChildrenComplete'
<1> SUFFICES ASSUME NEW d \in Drives, Exists(d)', drives'[d].live, d \notin unlisted',
                    Folder(drives[d].parent)'
             PROVE  \/ d \in drives'[drives'[d].parent].children
                    \/ \E q \in Requests : Pending(req[q])' /\ req'[q].drive = d
                                           /\ req'[q].parent = drives'[d].parent
  BY DEF ChildrenComplete, LiveDrives, Live
<1>1. Exists(d) /\ drives'[d].parent = drives[d].parent
  BY DEF NoneNew, ParentsSame
<1> QED
  BY <1>1, StaysListed DEF Folder, Live, Exists

\* One request steps.
LEMMA PendingSteps ==
    ASSUME TypeInv, NEW q \in Requests, NEW r, req' = [req EXCEPT ![q] = r],
           Pending(req[q]) =>
             \/ Pending(r) /\ r.drive = req[q].drive /\ r.parent = req[q].parent
             \/ req[q].drive \in unlisted'
             \/ ~Live(req[q].parent)
             \/ req[q].drive \in drives'[req[q].parent].children
    PROVE  PendingDone
<1>1. req \in [Requests -> Request]
  BY DEF TypeInv, TypeOK
<1>2. ASSUME NEW p \in Requests, Pending(req[p])
      PROVE  \/ Pending(req[p])' /\ req'[p].drive = req[p].drive /\ req'[p].parent = req[p].parent
             \/ req[p].drive \in unlisted'
             \/ ~Live(req[p].parent)
             \/ req[p].drive \in drives'[req[p].parent].children
  <2>1. CASE p = q
    BY <1>1, <1>2, <2>1 DEF Pending
  <2>2. CASE p # q
    BY <1>1, <1>2, <2>2 DEF Pending
  <2> QED
    BY <2>1, <2>2
<1> QED
  BY <1>2 DEF PendingDone

LEMMA EndPending ==
    ASSUME TypeInv, NEW q \in Requests, End(q),
           Pending(req[q]) =>
             \/ req[q].drive \in unlisted'
             \/ ~Live(req[q].parent)
             \/ req[q].drive \in drives'[req[q].parent].children
    PROVE  PendingDone
  BY PendingSteps DEF End, Goto

LEMMA SameParents == UNCHANGED drives => ParentsSame
  BY DEF ParentsSame

\* Steps that leave every drive in its folder, the folder knowing or about to know.
LEMMA StepPending ==
    ASSUME TypeInv, NEW q \in Requests,
           \/ NextPart(q) \/ FindParent(q) \/ PutObject(q) \/ InsertEntry(q) \/ PushChild(q)
           \/ NextShare(q) \/ Visit(q) \/ UpdateFound(q) \/ LinkParent(q) \/ RepathFound(q)
           \/ MarkDrives(q) \/ MarkFiles(q)
    PROVE  PendingDone /\ NoneNew /\ ParentsSame /\ unlisted \subseteq unlisted'
<1> DEFINE r == req[q]
<1>1. Shape(r) /\ r \in Request
  BY AtRequest
<1>2. ASSUME r.pc \notin {"push", "walk", "update", "link"}, NEW s, req' = [req EXCEPT ![q] = s]
      PROVE  PendingDone
  BY <1>2, PendingSteps DEF Pending
<1>3. CASE NextPart(q) \/ FindParent(q) \/ NextShare(q) \/ MarkFiles(q) \/ PutObject(q)
           \/ InsertEntry(q)
  <2>1. r.pc \notin {"push", "walk", "update", "link"} /\ \E s : req' = [req EXCEPT ![q] = s]
    BY <1>3 DEF NextPart, FindParent, NextShare, MarkFiles, PutObject, InsertEntry, At, Goto,
                Then, End
  <2>2. UNCHANGED <<drives, unlisted>>
    BY <1>3 DEF NextPart, FindParent, NextShare, MarkFiles, PutObject, InsertEntry
  <2> QED
    BY <1>2, <2>1, <2>2, SameNone, SameParents
<1>4. CASE PushChild(q)
  <2>1. Edited /\ Exists(r.parent) /\ r.parent \in Drives /\ drives \in [Drives -> Drive \cup {Null}]
    BY <1>1, <1>4, PushChildEdited, Document DEF Request, TypeInv, TypeOK
  <2>2. drives' = [drives EXCEPT ![r.parent].children = @ \cup {r.drive}]
    BY <1>4 DEF PushChild
  <2>3. drives[r.parent] \in Drive
    BY <2>1, Document DEF TypeInv, Maybe
  <2>4. r.drive \in drives'[r.parent].children
    BY <2>1, <2>2, <2>3 DEF Drive
  <2>5. \E s : req' = [req EXCEPT ![q] = s]
    BY <1>4 DEF PushChild, Goto, End
  <2>6. PendingDone
    BY <2>4, <2>5, PendingSteps
  <2>7. ParentsSame
    BY <2>1, <2>2, <2>3 DEF ParentsSame, Drive
  <2> QED
    BY <1>4, <2>1, <2>6, <2>7, EditedNone DEF PushChild
<1>5. CASE Visit(q)
  <2>1. \A s : /\ s.pc \in {"walk", "update"} \/ ~Pending(r)
               /\ s.op = r.op /\ s.drive = r.drive /\ s.parent = r.parent
               /\ req' = [req EXCEPT ![q] = s]
            => PendingDone
    BY PendingSteps DEF Pending
  <2>2. ASSUME NEW d, Goto(q, Visited(q, d)) PROVE PendingDone
    <3>1. /\ Visited(q, d).pc = r.pc /\ Visited(q, d).op = r.op
          /\ Visited(q, d).drive = r.drive /\ Visited(q, d).parent = r.parent
      BY <1>1 DEF Visited, Request
    <3> QED
      BY <1>5, <2>1, <2>2, <3>1, VisitCases DEF Goto, Pending
  <2>3. ASSUME r.pc = "gather", Goto(q, [r EXCEPT !.pc = "next", !.rest = r.found])
        PROVE  PendingDone
    BY <1>2, <2>3 DEF Goto
  <2>4. ASSUME r.pc = "walk", Goto(q, [r EXCEPT !.pc = After(r)]) PROVE PendingDone
    <3> DEFINE s == [r EXCEPT !.pc = After(r)]
    <3>1. s.op = r.op /\ s.drive = r.drive /\ s.parent = r.parent /\ s.pc = After(r)
      BY <1>1 DEF Request
    <3>2. Pending(r) => After(r) = "update"
      BY <1>1, <2>4 DEF Shape, Pending, After
    <3>3. req' = [req EXCEPT ![q] = s]
      BY <2>4 DEF Goto
    <3> HIDE DEF s
    <3> QED
      BY <2>1, <3>1, <3>2, <3>3
  <2> QED
    BY <1>5, <2>2, <2>3, <2>4, VisitCases, SameNone, SameParents DEF Visit
<1>6. CASE UpdateFound(q)
  <2>1. /\ Edited /\ ParentsSame
    BY <1>6, UpdateFoundEdited DEF ParentsSame
  <2>2. r.pc = "update"
    BY <1>6 DEF UpdateFound, At
  <2>3. ASSUME r.parent = Null, NEW s, req' = [req EXCEPT ![q] = s] PROVE PendingDone
    BY <2>3, PendingSteps DEF Pending
  <2>4. ASSUME Goto(q, [r EXCEPT !.pc = "link"]) PROVE PendingDone
    <3> DEFINE s == [r EXCEPT !.pc = "link"]
    <3>1. s.op = r.op /\ s.drive = r.drive /\ s.parent = r.parent /\ s.pc = "link"
      BY <1>1 DEF Request
    <3>2. req' = [req EXCEPT ![q] = s]
      BY <2>4 DEF Goto
    <3> HIDE DEF s
    <3>3. Pending(r) => Pending(s)
      BY <3>1 DEF Pending
    <3> QED
      BY <3>1, <3>2, <3>3, PendingSteps
  <2>5. \/ r.parent = Null /\ \E s : req' = [req EXCEPT ![q] = s]
        \/ Goto(q, [r EXCEPT !.pc = "link"])
    BY <1>1, <1>6 DEF UpdateFound, Then, Goto, End, Shape
  <2>6. PendingDone
    BY <2>3, <2>4, <2>5
  <2> QED
    BY <1>6, <2>1, <2>6, EditedNone DEF UpdateFound
<1>7. CASE LinkParent(q)
  <2>1. \E s : req' = [req EXCEPT ![q] = s]
    BY <1>7 DEF LinkParent, Goto, End
  <2>2. CASE Live(r.parent)
    <3>1. Edited /\ Exists(r.parent) /\ r.parent \in Drives /\ drives \in [Drives -> Drive \cup {Null}]
      BY <1>1, <1>7, <2>2, LinkParentEdited, Document DEF Request, TypeInv, TypeOK
    <3>2. drives' = [drives EXCEPT ![r.parent].children = @ \cup {r.drive}]
      BY <1>7, <2>2 DEF LinkParent
    <3>3. drives[r.parent] \in Drive
      BY <3>1, Document DEF TypeInv, Maybe
    <3>4. r.drive \in drives'[r.parent].children
      BY <3>1, <3>2, <3>3 DEF Drive
    <3>5. PendingDone
      BY <2>1, <3>4, PendingSteps
    <3>6. ParentsSame
      BY <3>1, <3>2, <3>3 DEF ParentsSame, Drive
    <3> QED
      BY <1>7, <3>1, <3>5, <3>6, EditedNone DEF LinkParent
  <2>3. CASE ~Live(r.parent)
    BY <1>7, <2>1, <2>3, PendingSteps, SameNone, SameParents DEF LinkParent
  <2> QED
    BY <2>2, <2>3
<1>8. CASE RepathFound(q)
  <2>1. Edited /\ ParentsSame
    BY <1>8, RepathFoundEdited DEF ParentsSame
  <2>2. r.pc = "repath"
    BY <1>8 DEF RepathFound, At
  <2> QED
    BY <1>2, <1>8, <2>1, <2>2, EditedNone DEF RepathFound, End, Goto
<1>9. CASE MarkDrives(q)
  <2>1. Edited /\ ParentsSame
    BY <1>9, MarkDrivesEdited DEF ParentsSame
  <2>2. r.pc = "mark"
    BY <1>9 DEF MarkDrives, At
  <2> QED
    BY <1>2, <1>9, <2>1, <2>2, EditedNone DEF MarkDrives, Then, Goto
<1> QED
  BY <1>3, <1>4, <1>5, <1>6, <1>7, <1>8, <1>9

\* The step that puts a drive elsewhere remembers to enter it there.
LEMMA SetDriveChildren ==
    ASSUME TypeInv, ChildrenComplete, NEW q \in Requests, SetDrive(q)
    PROVE  ChildrenComplete'
<1> DEFINE r == req[q]
<1>1. Shape(r) /\ r \in Request /\ r.pc = "set" /\ req \in [Requests -> Request]
  BY AtRequest DEF SetDrive, At, TypeInv, TypeOK
<1>2. Edited /\ Kept /\ NoneNew /\ UNCHANGED unlisted
  BY SetDriveEdited, EditedKept, EditedNone DEF SetDrive
<1>3. \E s : req' = [req EXCEPT ![q] = s]
  BY DEF SetDrive, Then, Goto, End
<1>4. PendingDone
  BY <1>1, <1>3, PendingSteps DEF Pending
<1>5. ASSUME r.parent # Null PROVE Pending(req[q])' /\ req'[q].drive = r.drive /\ req'[q].parent = r.parent
  <2>1. r.op \in {"edit", "share"} /\ r.op # "share" /\ r.drive # Null
    BY <1>1, <1>5 DEF Shape, Exists
  <2>2. \/ req' = [req EXCEPT ![q] = [r EXCEPT !.pc = "walk"]]
        \/ req' = [req EXCEPT ![q] = [r EXCEPT !.pc = "link", !.todo = {}]]
    BY <1>5 DEF SetDrive, Then, Goto
  <2> QED
    <3>1. PICK s \in {[r EXCEPT !.pc = "walk"], [r EXCEPT !.pc = "link", !.todo = {}]} :
             req' = [req EXCEPT ![q] = s]
      BY <2>2
    <3>2. /\ s.pc \in {"walk", "link"} /\ s.op = r.op /\ s.parent = r.parent
          /\ s.drive = r.drive
      BY <1>1 DEF Request
    <3>3. req'[q] = s
      BY <1>1, <3>1
    <3> QED
      BY <1>5, <2>1, <3>2, <3>3 DEF Pending
<1> SUFFICES ASSUME NEW d \in Drives, Exists(d)', drives'[d].live, d \notin unlisted',
                    Folder(drives[d].parent)'
             PROVE  \/ d \in drives'[drives'[d].parent].children
                    \/ \E p \in Requests : Pending(req[p])' /\ req'[p].drive = d
                                           /\ req'[p].parent = drives'[d].parent
  BY DEF ChildrenComplete, LiveDrives, Live
<1>6. Exists(d)
  BY <1>2 DEF NoneNew
<1>7. CASE drives'[d].parent = drives[d].parent
  BY <1>2, <1>4, <1>6, <1>7, StaysListed DEF Folder, Live, Exists
<1>8. CASE drives'[d].parent # drives[d].parent
  BY <1>5, <1>6, <1>8, SetDriveEdited
<1> QED
  BY <1>7, <1>8

LEMMA InsertDriveChildren ==
    ASSUME TypeInv, ChildrenComplete, NEW q \in Requests, InsertDrive(q)
    PROVE  ChildrenComplete'
<1> DEFINE r == req[q]
<1>1. Shape(r) /\ r \in Request /\ r.pc = "insert" /\ req \in [Requests -> Request]
  BY AtRequest DEF InsertDrive, At, TypeInv, TypeOK
<1>2. PICK d \in Drives :
        /\ ~Exists(d) /\ Exists(d)' /\ Grown
        /\ \A e \in Drives : e # d => drives'[e] = drives[e]
        /\ drives'[d].parent = r.parent
        /\ req' = [req EXCEPT ![q] = [r EXCEPT !.pc = "push", !.drive = d]]
  BY InsertDriveEffect
<1>3. Kept /\ UNCHANGED unlisted
  BY <1>2, GrownKept DEF InsertDrive
<1>4. PendingDone
  BY <1>1, <1>2, PendingSteps DEF Pending
<1>5. Pending(req[q])' /\ req'[q].drive = d /\ req'[q].parent = r.parent
  <2>1. r.op # "copy" /\ r.parent # Null /\ d # Null
    BY <1>1, <1>2 DEF Shape, Exists
  <2>2. req'[q] = [r EXCEPT !.pc = "push", !.drive = d]
    BY <1>1, <1>2
  <2> QED
    BY <1>1, <2>1, <2>2 DEF Pending, Request
<1> SUFFICES ASSUME NEW e \in Drives, Exists(e)', drives'[e].live, e \notin unlisted',
                    Folder(drives[e].parent)'
             PROVE  \/ e \in drives'[drives'[e].parent].children
                    \/ \E p \in Requests : Pending(req[p])' /\ req'[p].drive = e
                                           /\ req'[p].parent = drives'[e].parent
  BY DEF ChildrenComplete, LiveDrives, Live
<1>6. CASE e = d
  BY <1>2, <1>5, <1>6
<1>7. CASE e # d
  <2>1. Exists(e) /\ drives'[e] = drives[e]
    BY <1>2, <1>7 DEF Exists
  <2> QED
    BY <1>3, <1>4, <2>1, StaysListed DEF Folder, Live, Exists
<1> QED
  BY <1>6, <1>7

LEMMA PasteCopiesChildren ==
    ASSUME TypeInv, ChildrenComplete, NEW q \in Requests, PasteCopies(q)
    PROVE  ChildrenComplete'
<1> DEFINE r == req[q]
           C == Copied(r)
           tops == {c \in C : drives[c].parent \notin C
                              \/ c \notin drives[drives[c].parent].children}
<1>1. Shape(r) /\ r \in Request /\ r.pc = "paste"
  BY AtRequest DEF PasteCopies, At
<1>2. PICK id, uri : Pasted(q, id, uri)
  BY PasteCopiesEffect
<1>3. /\ id \in [C -> FreshDrives]
      /\ \A c, d \in C : id[c] = id[d] => c = d
      /\ Grown
      /\ \A e \in Drives : ~(\E d \in C : id[d] = e) => drives'[e] = drives[e]
      /\ \A d \in C :
           /\ drives'[id[d]].parent = IF drives[d].parent \in C THEN id[drives[d].parent]
                                      ELSE r.parent
           /\ drives'[id[d]].children = {id[c] : c \in drives[d].children \cap C}
      /\ unlisted' = unlisted \cup {id[d] : d \in tops}
  BY <1>2 DEF Pasted
<1> HIDE DEF C
<1>4. Kept
  BY <1>3, GrownKept
<1>5. PendingDone
  BY <1>1, PendingSteps DEF PasteCopies, End, Goto, Pending
<1> SUFFICES ASSUME NEW e \in Drives, Exists(e)', drives'[e].live, e \notin unlisted',
                    Folder(drives[e].parent)'
             PROVE  \/ e \in drives'[drives'[e].parent].children
                    \/ \E p \in Requests : Pending(req[p])' /\ req'[p].drive = e
                                           /\ req'[p].parent = drives'[e].parent
  BY DEF ChildrenComplete, LiveDrives, Live
<1>6. CASE \E d \in C : id[d] = e
  <2>1. PICK d \in C : id[d] = e
    BY <1>6
  <2>2. d \notin tops
    BY <1>3, <2>1
  <2>3. drives[d].parent \in C /\ d \in drives[drives[d].parent].children
    BY <2>2
  <2>4. drives'[e].parent = id[drives[d].parent]
    BY <1>3, <2>1, <2>3
  <2>5. id[d] \in drives'[id[drives[d].parent]].children
    BY <1>3, <2>3
  <2> QED
    BY <2>1, <2>4, <2>5
<1>7. CASE ~(\E d \in C : id[d] = e)
  <2>1. Exists(e) /\ drives'[e] = drives[e]
    BY <1>3, <1>7 DEF Exists
  <2>2. unlisted \subseteq unlisted'
    BY <1>3
  <2> QED
    BY <1>4, <1>5, <2>1, <2>2, StaysListed DEF Folder, Live, Exists
<1> QED
  BY <1>6, <1>7

LEMMA NextChildren ==
    ASSUME TypeInv, ChildrenComplete, [Next]_vars
    PROVE  ChildrenComplete'
<1>1. Kept
  BY NextTypes
<1>2. ASSUME NEW q \in Requests, Step(q) PROVE ChildrenComplete'
  BY <1>1, <1>2, StepPending, QuietChildren, SetDriveChildren, InsertDriveChildren,
     PasteCopiesChildren DEF Step
<1>3. ASSUME NEW q \in Requests, Fail(q) PROVE ChildrenComplete'
  <2>1. Pending(req[q]) => req[q].drive \in unlisted'
    BY <1>3 DEF Fail, Dropped
  <2>2. PendingDone
    BY <1>3, <2>1, EndPending DEF Fail
  <2> QED
    BY <1>1, <1>3, <2>2, SameNone, SameParents, QuietChildren DEF Fail
<1>4. ASSUME NEW q \in Requests, NEW u \in Users, Ask(q, u) PROVE ChildrenComplete'
  <2>1. PICK r : Asked(q, r)
    BY <1>4, AskAsked
  <2>2. PendingDone
    BY <2>1, AskedOthers DEF PendingDone, Pending
  <2> QED
    BY <1>1, <2>1, <2>2, SameNone, SameParents, QuietChildren DEF Asked
<1>5. CASE Restart
  <2>1. PendingDone
    BY <1>5 DEF Restart, PendingDone, Dropped
  <2> QED
    BY <1>1, <1>5, <2>1, SameNone, SameParents, QuietChildren DEF Restart
<1>6. CASE UNCHANGED vars
  <2>1. PendingDone
    BY <1>6 DEF vars, PendingDone, Pending
  <2> QED
    BY <1>1, <1>6, <2>1, SameNone, SameParents, QuietChildren DEF vars
<1> QED
  BY <1>2, <1>3, <1>4, <1>5, <1>6 DEF Next

LEMMA InitChildren == Init => ChildrenComplete
<1> SUFFICES ASSUME Init PROVE ChildrenComplete
  OBVIOUS
<1>1. \A d \in Drives : Exists(d) => drives[d].parent = Null
  BY DEF Init, Exists, MyDrive
<1> QED
  BY <1>1 DEF ChildrenComplete, LiveDrives, Live, Folder, Exists

\* A drive in a folder that is still there is among the folder's children, unless the request
\* that put it there has yet to say so, died before it could, or was a copy.
THEOREM ChildrenStayComplete == Spec => []ChildrenComplete
<1>1. TypeInv /\ ChildrenComplete /\ [Next]_vars => TypeInv' /\ ChildrenComplete'
  BY NextTypes, NextChildren
<1> QED
  BY InitTypes, InitChildren, <1>1, PTL DEF Spec

-----------------------------------------------------------------------------
(* DeletionComplete.                                                       *)

\* The only request under way steps; its walk, if it deletes, stays closed.
LEMMA AloneStep ==
    ASSUME TypeInv, AloneInv, NEW q \in Requests, NEW r, req[q].pc # "idle",
           req' = [req EXCEPT ![q] = r], r.alone => req[q].alone,
           \/ r.op # "delete" \/ r.pc \notin {"walk", "mark"}
           \/ Closed(r) /\ UNCHANGED drives
    PROVE  AloneInv'
<1>1. req \in [Requests -> Request]
  BY DEF TypeInv, TypeOK
<1>2. \A p \in Requests : p # q => ~req[p].alone /\ req'[p] = req[p]
  BY <1>1 DEF AloneInv, AloneMeansAlone
<1>3. req'[q] = r
  BY <1>1
<1>4. AloneMeansAlone'
  BY <1>2, <1>3 DEF AloneInv, AloneMeansAlone
<1>5. ASSUME NEW p \in Requests PROVE Closed(req[p])'
  <2>1. CASE p = q
    BY <1>3, <2>1 DEF Closed, Folder, Live, Exists
  <2>2. CASE p # q
    BY <1>2, <2>2 DEF Closed
  <2> QED
    BY <2>1, <2>2
<1> QED
  BY <1>4, <1>5 DEF AloneInv

LEMMA EndAlone ==
    ASSUME TypeInv, AloneInv, NEW q \in Requests, req[q].pc # "idle", End(q)
    PROVE  AloneInv'
<1>1. ~Idle.alone /\ Idle.op # "delete"
  BY DEF Idle
<1> QED
  BY <1>1, AloneStep DEF End, Goto

\* A request that goes on to something that is no part of a deletion.
LEMMA OnAlone ==
    ASSUME TypeInv, AloneInv, NEW q \in Requests, NEW r, req[q].pc # "idle", Goto(q, r),
           r.alone = req[q].alone, r.op = req[q].op,
           req[q].op # "delete" \/ r.pc \notin {"walk", "mark"}
    PROVE  AloneInv'
  BY AloneStep DEF Goto

LEMMA VisitAlone ==
    ASSUME TypeInv, AloneInv, NEW q \in Requests, Visit(q)
    PROVE  AloneInv'
<1> DEFINE r == req[q]
<1>1. Shape(r) /\ r \in Request /\ r.pc \in {"walk", "gather"} /\ Closed(r)
  BY AtRequest, VisitCases DEF AloneInv
<1>2. UNCHANGED drives
  BY DEF Visit
<1>3. ASSUME NEW d \in r.todo, Goto(q, Visited(q, d)) PROVE AloneInv'
  <2> DEFINE s == Visited(q, d)
  <2>1. s.pc = r.pc /\ s.op = r.op /\ s.alone = r.alone
    BY <1>1 DEF Visited, Request
  <2>2. CASE Live(d)
    <3>1. s.todo = (r.todo \ {d}) \cup Within(d) /\ s.found = r.found \cup {d}
      BY <1>1, <2>2 DEF Visited, Request
    <3>2. Folder(d) => Within(d) = drives[d].children
      BY DEF Folder, Within
    <3> HIDE DEF s
    <3>3. Closed(s)
      BY <1>1, <2>1, <3>1, <3>2 DEF Closed
    <3> QED
      BY <1>1, <1>2, <1>3, <2>1, <3>3, AloneStep DEF Goto, s
  <2>3. CASE ~Live(d)
    <3>1. s.todo = r.todo \ {d} /\ s.found = r.found
      BY <1>1, <2>3 DEF Visited, Request
    <3> HIDE DEF s
    <3>2. Closed(s)
      BY <1>1, <2>1, <2>3, <3>1 DEF Closed
    <3> QED
      BY <1>1, <1>2, <1>3, <2>1, <3>2, AloneStep DEF Goto, s
  <2> QED
    BY <2>2, <2>3
<1>4. ASSUME r.pc = "gather", Goto(q, [r EXCEPT !.pc = "next", !.rest = r.found])
      PROVE  AloneInv'
  <2> DEFINE s == [r EXCEPT !.pc = "next", !.rest = r.found]
  <2>1. s.alone = r.alone /\ s.op = r.op /\ s.pc = "next"
    BY <1>1 DEF Request
  <2>2. Goto(q, s)
    BY <1>4
  <2> HIDE DEF s
  <2> QED
    BY <1>1, <2>1, <2>2, OnAlone
<1>5. ASSUME r.todo = {}, r.pc = "walk", Goto(q, [r EXCEPT !.pc = After(r)])
      PROVE  AloneInv'
  <2> DEFINE s == [r EXCEPT !.pc = After(r)]
  <2>1. s.alone = r.alone /\ s.op = r.op /\ s.todo = {} /\ s.found = r.found
    BY <1>1, <1>5 DEF Request
  <2>2. req' = [req EXCEPT ![q] = s]
    BY <1>5 DEF Goto
  <2> HIDE DEF s
  <2>3. Closed(s)
    BY <1>1, <1>5, <2>1 DEF Closed
  <2> QED
    BY <1>1, <1>2, <2>1, <2>2, <2>3, AloneStep
<1> QED
  BY <1>3, <1>4, <1>5, VisitCases

LEMMA StepAlone ==
    ASSUME TypeInv, AloneInv, NEW q \in Requests, Step(q)
    PROVE  AloneInv'
<1> DEFINE r == req[q]
<1>1. Shape(r) /\ r \in Request
  BY AtRequest
<1>2. CASE NextPart(q)
  <2> DEFINE s == [r EXCEPT !.pc = "find", !.name = Head(r.parts), !.parts = Tail(r.parts)]
  <2>1. r.pc = "part" /\ r.op # "delete"
    BY <1>1, <1>2 DEF NextPart, At, Shape
  <2>2. ASSUME NEW d, Goto(q, [r EXCEPT !.parent = d, !.parts = Tail(r.parts)])
        PROVE  AloneInv'
    <3> DEFINE t == [r EXCEPT !.parent = d, !.parts = Tail(r.parts)]
    <3>1. t.alone = r.alone /\ t.op = r.op /\ Goto(q, t)
      BY <1>1, <2>2 DEF Request
    <3> HIDE DEF t
    <3> QED
      BY <2>1, <3>1, OnAlone
  <2>3. ASSUME Goto(q, s) PROVE AloneInv'
    <3>1. s.alone = r.alone /\ s.op = r.op
      BY <1>1 DEF Request
    <3> HIDE DEF s
    <3> QED
      BY <2>1, <2>3, <3>1, OnAlone
  <2> QED
    BY <1>2, <2>1, <2>2, <2>3, EndAlone DEF NextPart
<1>3. CASE FindParent(q)
  <2> DEFINE Found(p) == [r EXCEPT !.pc = IF MakesFile(r) THEN "put" ELSE "insert",
                                   !.parent = p, !.path = drives[p].path,
                                   !.shared = drives[p].shared,
                                   !.manager = IF MakesFile(r) THEN r.user
                                               ELSE drives[p].manager]
  <2>1. r.pc = "find" /\ r.op # "delete"
    BY <1>1, <1>3 DEF FindParent, At, Shape
  <2>2. ASSUME NEW p, Goto(q, Found(p)) PROVE AloneInv'
    <3>1. Found(p).alone = r.alone /\ Found(p).op = r.op
      BY <1>1 DEF Request
    <3> HIDE DEF Found
    <3> QED
      BY <2>1, <2>2, <3>1, OnAlone
  <2>3. End(q) \/ \E p : Goto(q, Found(p))
    BY <1>3 DEF FindParent
  <2> QED
    BY <2>1, <2>2, <2>3, EndAlone
<1>4. CASE PutObject(q)
  <2>1. PICK f : Goto(q, [r EXCEPT !.pc = "entry", !.file = f])
    BY <1>4 DEF PutObject
  <2> DEFINE s == [r EXCEPT !.pc = "entry", !.file = f]
  <2>2. s.alone = r.alone /\ s.op = r.op /\ s.pc = "entry" /\ Goto(q, s)
    BY <1>1, <2>1 DEF Request
  <2>3. r.pc # "idle"
    BY <1>4 DEF PutObject, At
  <2> HIDE DEF s
  <2> QED
    BY <2>2, <2>3, OnAlone
<1>5. CASE InsertEntry(q)
  <2> DEFINE s == [r EXCEPT !.pc = "insert"]
  <2>1. s.alone = r.alone /\ s.op = r.op /\ s.pc = "insert" /\ Goto(q, s) /\ r.pc # "idle"
    BY <1>1, <1>5 DEF Request, InsertEntry, At, Then
  <2> HIDE DEF s
  <2> QED
    BY <2>1, OnAlone
<1>6. CASE InsertDrive(q)
  <2>1. PICK d : Goto(q, [r EXCEPT !.pc = "push", !.drive = d])
    BY <1>6 DEF InsertDrive
  <2> DEFINE s == [r EXCEPT !.pc = "push", !.drive = d]
  <2>2. s.alone = r.alone /\ s.op = r.op /\ s.pc = "push" /\ Goto(q, s) /\ r.pc # "idle"
    BY <1>1, <1>6, <2>1 DEF Request, InsertDrive, At
  <2> HIDE DEF s
  <2> QED
    BY <2>2, OnAlone
<1>7. CASE PushChild(q)
  <2> DEFINE s == [r EXCEPT !.pc = "part", !.parent = r.drive, !.drive = Null]
  <2>1. s.alone = r.alone /\ s.op = r.op /\ s.pc = "part" /\ r.pc # "idle"
    BY <1>1, <1>7 DEF Request, PushChild, At
  <2>2. End(q) \/ Goto(q, s)
    BY <1>7 DEF PushChild
  <2> HIDE DEF s
  <2> QED
    BY <2>1, <2>2, OnAlone, EndAlone
<1>8. CASE NextShare(q)
  <2>1. r.pc = "next" /\ r.op = "share"
    BY <1>1, <1>8 DEF NextShare, At, Shape
  <2>2. ASSUME NEW d, Goto(q, [r EXCEPT !.rest = r.rest \ {d}]) PROVE AloneInv'
    <3> DEFINE s == [r EXCEPT !.rest = r.rest \ {d}]
    <3>1. s.alone = r.alone /\ s.op = r.op /\ Goto(q, s)
      BY <1>1, <2>2 DEF Request
    <3> HIDE DEF s
    <3> QED
      BY <2>1, <3>1, OnAlone
  <2>3. ASSUME NEW d, Goto(q, From([r EXCEPT !.pc = "set", !.rest = r.rest \ {d}], d))
        PROVE  AloneInv'
    <3> DEFINE s == From([r EXCEPT !.pc = "set", !.rest = r.rest \ {d}], d)
    <3>1. s.alone = r.alone /\ s.op = r.op /\ Goto(q, s)
      BY <1>1, <2>3 DEF Request, From
    <3> HIDE DEF s
    <3> QED
      BY <2>1, <3>1, OnAlone
  <2> QED
    BY <1>8, <2>1, <2>2, <2>3, EndAlone DEF NextShare
<1>9. CASE SetDrive(q)
  <2> DEFINE s == [r EXCEPT !.pc = "walk"]
             t == [r EXCEPT !.pc = "link", !.todo = {}]
  <2>1. r.pc = "set" /\ r.op # "delete"
    BY <1>1, <1>9 DEF SetDrive, At, Shape
  <2>2. s.alone = r.alone /\ s.op = r.op /\ t.alone = r.alone /\ t.op = r.op
    BY <1>1 DEF Request
  <2>3. End(q) \/ Goto(q, s) \/ Goto(q, t)
    BY <1>9 DEF SetDrive, Then
  <2> HIDE DEF s, t
  <2> QED
    BY <2>1, <2>2, <2>3, OnAlone, EndAlone
<1>10. CASE UpdateFound(q)
  <2> DEFINE s == [r EXCEPT !.pc = "next"]
             t == [r EXCEPT !.pc = "link"]
  <2>1. r.pc = "update" /\ r.op # "delete"
    BY <1>1, <1>10 DEF UpdateFound, At, Shape
  <2>2. s.alone = r.alone /\ s.op = r.op /\ t.alone = r.alone /\ t.op = r.op
    BY <1>1 DEF Request
  <2>3. End(q) \/ Goto(q, s) \/ Goto(q, t)
    BY <1>10 DEF UpdateFound, Then
  <2> HIDE DEF s, t
  <2> QED
    BY <2>1, <2>2, <2>3, OnAlone, EndAlone
<1>11. CASE LinkParent(q)
  <2> DEFINE s == [r EXCEPT !.pc = "repath", !.path = drives[r.parent].path]
  <2>1. s.alone = r.alone /\ s.op = r.op /\ s.pc = "repath" /\ r.pc # "idle"
    BY <1>1, <1>11 DEF Request, LinkParent, At
  <2>2. End(q) \/ Goto(q, s)
    BY <1>11 DEF LinkParent
  <2> HIDE DEF s
  <2> QED
    BY <2>1, <2>2, OnAlone, EndAlone
<1>12. CASE RepathFound(q) \/ PasteCopies(q) \/ MarkFiles(q)
  BY <1>12, EndAlone DEF RepathFound, PasteCopies, MarkFiles, At
<1>13. CASE MarkDrives(q)
  <2> DEFINE s == [r EXCEPT !.pc = "files"]
  <2>1. s.alone = r.alone /\ s.op = r.op /\ s.pc = "files" /\ Goto(q, s) /\ r.pc # "idle"
    BY <1>1, <1>13 DEF Request, MarkDrives, At, Then
  <2> HIDE DEF s
  <2> QED
    BY <2>1, OnAlone
<1> QED
  BY <1>2, <1>3, <1>4, <1>5, <1>6, <1>7, <1>8, <1>9, <1>10, <1>11, <1>12, <1>13, VisitAlone
     DEF Step

LEMMA AskedAlone ==
    ASSUME TypeInv, AloneInv, NEW q \in Requests, NEW r, Asked(q, r)
    PROVE  AloneInv'
<1>1. AloneMeansAlone'
  BY AskedOthers DEF AloneMeansAlone
<1>2. ASSUME NEW p \in Requests PROVE Closed(req[p])'
  <2>1. CASE p # q
    BY <2>1, AskedOthers DEF Closed
  <2>2. CASE p = q
    <3>1. UNCHANGED drives
      BY DEF Asked
    <3>2. /\ req'[p].op = r.op /\ req'[p].pc = r.pc
          /\ req'[p].found = r.found /\ req'[p].todo = r.todo
      BY <2>2, AskedOthers
    <3>3. r.pc # "mark" /\ (r.op = "delete" => r.found = {r.drive} /\ r.todo = Within(r.drive))
      BY DEF Asked, Fresh
    <3>4. Folder(r.drive) => Within(r.drive) = drives[r.drive].children
      BY DEF Folder, Within
    <3> QED
      BY <3>1, <3>2, <3>3, <3>4 DEF Closed, Folder, Live, Exists
  <2> QED
    BY <2>1, <2>2
<1> QED
  BY <1>1, <1>2 DEF AloneInv

LEMMA NextAlone ==
    ASSUME TypeInv, AloneInv, [Next]_vars
    PROVE  AloneInv'
<1>1. ASSUME NEW q \in Requests, Fail(q) PROVE AloneInv'
  BY <1>1, EndAlone DEF Fail
<1>2. ASSUME NEW q \in Requests, NEW u \in Users, Ask(q, u) PROVE AloneInv'
  BY <1>2, AskAsked, AskedAlone
<1>3. CASE Restart
  BY <1>3 DEF Restart, AloneInv, AloneMeansAlone, Closed, Idle
<1>4. CASE UNCHANGED vars
  BY <1>4 DEF vars, AloneInv, AloneMeansAlone, Closed, Folder, Live, Exists
<1> QED
  BY <1>1, <1>2, <1>3, <1>4, StepAlone DEF Next

LEMMA InitAlone == Init => AloneInv
  BY DEF Init, AloneInv, AloneMeansAlone, Closed, Idle

\* A deletion that no other request overlapped leaves no drive behind in a folder it removes.
THEOREM DeletionsComplete == Spec => DeletionComplete
<1> DEFINE Clean ==
      \A q \in Requests : MarkDrives(q) /\ req[q].alone =>
         \A d \in LiveDrives \ unlisted :
            Folder(drives[d].parent) /\ drives[d].parent \in req[q].found => d \in req[q].found
<1>1. ASSUME TypeInv, ChildrenComplete, AloneInv PROVE Clean
  <2> SUFFICES ASSUME NEW q \in Requests, MarkDrives(q), req[q].alone,
                      NEW d \in LiveDrives \ unlisted,
                      Folder(drives[d].parent), drives[d].parent \in req[q].found
               PROVE  d \in req[q].found
    OBVIOUS
  <2>1. req[q].pc = "mark" /\ req[q].op = "delete" /\ Closed(req[q])
    BY <1>1, AtRequest DEF MarkDrives, At, Shape, AloneInv
  <2>2. \A p \in Requests : ~Pending(req[p])
    BY <1>1, <2>1 DEF AloneInv, AloneMeansAlone, Pending
  <2>3. d \in drives[drives[d].parent].children /\ Live(d)
    BY <1>1, <2>2 DEF ChildrenComplete, LiveDrives
  <2> QED
    BY <2>1, <2>3 DEF Closed
<1>2. TypeInv /\ ChildrenComplete /\ AloneInv /\ [Next]_vars
        => TypeInv' /\ ChildrenComplete' /\ AloneInv'
  BY NextTypes, NextChildren, NextAlone
<1>3. TypeInv /\ ChildrenComplete /\ AloneInv /\ [Next]_vars => [Clean]_vars
  BY <1>1
<1>4. DeletionComplete <=> [][Clean]_vars
  BY DEF DeletionComplete
<1> HIDE DEF Clean
<1> QED
  BY InitTypes, InitChildren, InitAlone, <1>2, <1>3, <1>4, PTL DEF Spec

=============================================================================
