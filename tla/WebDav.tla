------------------------------- MODULE WebDav -------------------------------
(***************************************************************************)
(* The file system that the WebDAV server shows of drives and studies      *)
(* (dmpWebDAV.ts), over getDrives of driveCore.ts: which paths exist, what *)
(* a directory lists, and which node an operation on a path is about.      *)
(*                                                                         *)
(* The operations are calls of the drive's handlers, which module DriveTree*)
(* takes apart; here the drives change in any way between the look-up of a *)
(* path and the call.  A path of the tree may be out of date, as a move    *)
(* leaves those below it, and may name nodes the user does not see.        *)
(*                                                                         *)
(* Where the code throws outside of its handlers of errors, or returns     *)
(* without a word, nothing is done and the request gets no answer.         *)
(***************************************************************************)
EXTENDS Integers, Sequences, FiniteSets

CONSTANTS
    Users,
    Nodes,
    Words,       \* names, and parts of paths
    MyDrive, Shared, Study,  \* the reserved ones
    FullName,    \* the name of each user
    Titles,      \* the names of the studies, visible to all
    Paths,       \* the paths asked about
    Drives,      \* the documents a node may have
    IsFile,      \* the words that end like a file's name
    MaxAsked,    \* bound on the operations asked for
    MaxChanged,  \* bound on the changes of the drives
    Null

\* What the constants are meant to be.
ConstantsOK ==
    /\ {MyDrive, Shared, Study} \subseteq Words /\ IsFile \subseteq Words
    /\ FullName \in [Users -> Words]
    /\ Titles \subseteq Words
    /\ MyDrive # Shared /\ MyDrive # Study /\ Shared # Study
    /\ Paths \subseteq Seq(Words)
    /\ Drives \in [Nodes -> SUBSET [name : Words, path : Seq(Nodes), owner : Users,
                                    shared : SUBSET Users]]
    /\ \A n \in Nodes : \A d \in Drives[n] :
           d.path # <<>> /\ d.path[Len(d.path)] = n /\ d.owner \notin d.shared
    /\ MaxAsked \in Nat /\ MaxChanged \in Nat
    /\ Null \notin Nodes \cup Words

VARIABLES
    drives,    \* drives_collection
    members,   \* the users who are not deleted
    isCopying, \* shared by all requests
    asking,    \* the operation under way, its user and the node it found
    stream,    \* the node a finished upload will go to
    asked, changed

dav == <<drives, members, isCopying, asking, stream, asked, changed>>

-----------------------------------------------------------------------------
(* getDrives                                                               *)

Live == {n \in Nodes : drives[n] # Null}

\* The drives of an owner that a user may see; an owner of none is left out.
Seen(u, o) == {n \in Live : /\ drives[n].owner = o
                            /\ u = o \/ u \in drives[n].shared}
Owners(u) == {o \in Users : Seen(u, o) # {}}

\* Without a root among them, one is made up, which is called "Shared".
MadeUp(u, o) == \A n \in Seen(u, o) : Len(drives[n].path) > 1

\* The names along a path, without those of nodes not seen.
NamesOf(S, path) ==
    LET known == {k \in DOMAIN path : path[k] \in S}
        nth(j) == CHOOSE k \in known : Cardinality({i \in known : i <= k}) = j
    IN  [j \in 1..Cardinality(known) |-> drives[path[nth(j)]].name]

AllPaths(u, o) ==
    {NamesOf(Seen(u, o), drives[n].path) : n \in Seen(u, o)}
        \cup (IF MadeUp(u, o) THEN {<<Shared>>} ELSE {})

Prefix(p, q) == Len(p) <= Len(q) /\ \A k \in DOMAIN p : p[k] = q[k]

\* isPathIncluded
Included(p, S) == \E q \in S : Prefix(p, q)

\* Mutant of DirectChildren: one part too early.
DirectChildrenOff(p, S) == {q[Len(p)] : q \in {q \in S : Len(q) > Len(p) /\ Prefix(p, q)}}
\* getDirectChildren
DirectChildren(p, S) == {q[Len(p) + 1] : q \in {q \in S : Len(q) > Len(p) /\ Prefix(p, q)}}

SharedPaths(u) ==
    UNION {{<<Shared, FullName[o]>> \o q : q \in AllPaths(u, o)} : o \in Owners(u) \ {u}}

-----------------------------------------------------------------------------
(* What is read.                                                           *)

\* _fastExistCheck
PathExists(u, p) ==
    \/ p = <<>>
    \/ /\ p # <<>> /\ p[1] = MyDrive
       /\ isCopying \/ (u \in Owners(u) /\ Included(p, AllPaths(u, u)))
    \/ /\ p # <<>> /\ p[1] = Shared
       /\ Len(p) = 1 \/ Included(p, SharedPaths(u))
    \/ /\ p # <<>> /\ p[1] \notin {MyDrive, Shared}
       /\ IF Len(p) = 1 THEN p[1] = Study ELSE p[2] \in Titles

\* _readDir: what is listed; a shared directory is never answered for, nor is
\* the drive of a user who has none, and the files of a study are not listed
\* here.
ReadDir(u, p) ==
    IF p = <<>> THEN {MyDrive, Shared, Study}
    ELSE IF p[1] = MyDrive
    THEN IF u \in Owners(u) THEN DirectChildren(p, AllPaths(u, u)) ELSE {}
    ELSE IF p = <<Shared>> THEN {FullName[o] : o \in Owners(u) \ {u}}
    ELSE IF p = <<Study>> THEN Titles
    ELSE {}

-----------------------------------------------------------------------------
(* What is done.                                                           *)

Front(p) == SubSeq(p, 1, Len(p) - 1)

Init ==
    /\ drives \in {f \in [Nodes -> UNION {Drives[n] : n \in Nodes} \cup {Null}] :
                      \A n \in Nodes : f[n] \in Drives[n] \cup {Null}}
    /\ members = Users
    /\ isCopying = FALSE
    /\ asking = Null
    /\ stream = Null
    /\ asked = 0 /\ changed = 0

\* The nodes of the user at a path, looked up by the ids of their own paths.
\* The look-up throws when it meets one of a node not seen.
Found(u, p) ==
    {n \in Seen(u, u) : /\ Len(drives[n].path) = Len(p)
                        /\ NamesOf(Seen(u, u), drives[n].path) = p}
Throws(u, p) ==
    \/ u \notin Owners(u)
    \/ \E n \in Seen(u, u) : LET path == drives[n].path IN
           /\ Len(path) = Len(p)
           /\ \E k \in DOMAIN p : /\ path[k] \notin Seen(u, u)
                                 /\ \A i \in 1..(k - 1) : /\ path[i] \in Seen(u, u)
                                                         /\ drives[path[i]].name = p[i]

\* What the proxy of the API server hands on: the user of the session, named
\* in a header; without one the request ends there.
Proxied(u) == IF u = Null THEN Null ELSE [id |-> u, password |-> "token"]

\* getUser: the user of the header, if there is such a one.
GetUser(header) == IF header # Null /\ header.id \in members THEN header.id ELSE Null
Callers == {GetUser(Proxied(u)) : u \in Users \cup {Null}} \ {Null}

\* No operation on the reserved directories (the second part is compared).
Allowed(p) == Len(p) > 1 /\ p[2] # Study

Begins == asking = Null /\ asked < MaxAsked /\ asked' = asked + 1

\* _delete, and _create of a folder: the node is looked up ...
Lookup(op, u, p) ==
    /\ ~Throws(u, p)
    /\ \E n \in Found(u, p) : asking' = [op |-> op, user |-> u, node |-> n]

DeleteLookup ==
    /\ Begins
    /\ \E u \in Callers, p \in {p \in Paths : Allowed(p)} : Lookup("delete", u, p)
    /\ UNCHANGED <<members, drives, isCopying, stream, changed>>

CreateFolderLookup ==
    /\ Begins
    /\ \E u \in Callers, p \in {p \in Paths : Allowed(p)} : Lookup("create", u, Front(p))
    /\ UNCHANGED <<members, drives, isCopying, stream, changed>>

\* ... and the drive's handler called, which may refuse.
CallDrive ==
    /\ asking # Null
    /\ asking' = Null
    /\ \/ UNCHANGED <<drives, changed>>
       \/ /\ asking.op = "delete"
          /\ drives' = [n \in Nodes |->
                 IF drives[n] # Null /\ asking.node \in {drives[n].path[k] : k \in DOMAIN drives[n].path}
                 THEN Null ELSE drives[n]]
          /\ UNCHANGED changed
       \/ /\ asking.op = "create"
          /\ \E n \in Nodes \ Live : \E d \in Drives[n] :
                 drives' = [drives EXCEPT ![n] = d]
          /\ UNCHANGED changed
    /\ UNCHANGED <<members, isCopying, stream, asked>>

\* _create of a file only notes that one is being copied.
CreateFile ==
    /\ Begins
    /\ \E p \in Paths : p # <<>> /\ p[Len(p)] \in IsFile
    /\ isCopying' = TRUE
    /\ UNCHANGED <<members, drives, asking, stream, changed>>

\* _openWriteStream, to a parent found or not; the file is made at the end of
\* the stream.
OpenWriteStream ==
    /\ Begins
    /\ stream = Null
    /\ isCopying' = FALSE
    /\ \E u \in Callers, p \in Paths :
         /\ Allowed(p) /\ p[1] = MyDrive
         /\ ~Throws(u, Front(p))
         /\ IF Found(u, Front(p)) = {} THEN UNCHANGED stream
            ELSE \E n \in Found(u, Front(p)) : stream' = n
    /\ UNCHANGED <<members, drives, asking, changed>>

StreamFinal ==
    /\ stream # Null
    /\ stream' = Null
    /\ \/ UNCHANGED drives
       \/ \E n \in Nodes \ Live : \E d \in Drives[n] : drives' = [drives EXCEPT ![n] = d]
    /\ UNCHANGED <<members, isCopying, asking, asked, changed>>

\* _copy and _move compare the parts of a path with the first characters of
\* ids, and call the handler with the second one of an id, of which there is
\* no node: they throw, or are refused.
CopyMove ==
    /\ Begins
    /\ UNCHANGED <<members, drives, isCopying, asking, stream, changed>>

\* _openReadStream asks for the file by an address that is none, and fails.
OpenReadStream ==
    /\ Begins
    /\ \E u \in Callers, p \in Paths : Allowed(p) /\ p[1] = MyDrive /\ ~Throws(u, p)
    /\ UNCHANGED <<drives, members, isCopying, asking, stream, changed>>

\* A user is deleted.
DeleteUser(u) ==
    /\ changed < MaxChanged
    /\ changed' = changed + 1
    /\ members' = members \ {u}
    /\ UNCHANGED <<drives, isCopying, asking, stream, asked>>

\* The drives change by other calls.
DrivesChange ==
    /\ changed < MaxChanged
    /\ changed' = changed + 1
    /\ \E n \in Nodes, d \in UNION {Drives[m] : m \in Nodes} \cup {Null} :
         d \in Drives[n] \cup {Null} /\ drives' = [drives EXCEPT ![n] = d]
    /\ UNCHANGED <<members, isCopying, asking, stream, asked>>

Next ==
    \/ DeleteLookup \/ CreateFolderLookup \/ CallDrive
    \/ CreateFile \/ OpenWriteStream \/ StreamFinal \/ CopyMove
    \/ OpenReadStream \/ DrivesChange
    \/ \E u \in Users : DeleteUser(u)

Spec == Init /\ [][Next]_dav

-----------------------------------------------------------------------------
(* Properties.                                                             *)

\* Type invariant.
TypeOK ==
    /\ DOMAIN drives = Nodes
    /\ \A n \in Nodes : drives[n] \in Drives[n] \cup {Null}
    /\ members \subseteq Users
    /\ isCopying \in BOOLEAN
    /\ asking = Null \/ asking \in [op : {"delete", "create"}, user : Users, node : Nodes]
    /\ stream \in Nodes \cup {Null}
    /\ asked \in 0..MaxAsked /\ changed \in 0..MaxChanged

\* Whatever a directory lists exists, although the two answers are computed
\* from the drives each in its own way, whether paths are out of date, nodes
\* not seen or names repeated (_readDir, _fastExistCheck) ...
ListedExists ==
    \A u \in Users, p \in Paths \ {<<>>} :
        \A w \in ReadDir(u, p) : PathExists(u, Append(p, w))

\* ... and what exists in a drive is listed, except while a file is copied.
ExistingListed ==
    \A u \in Users, p \in Paths :
        p # <<>> /\ p[1] = MyDrive /\ Len(p) > 1 /\ ~isCopying /\ PathExists(u, p) =>
            p[Len(p)] \in ReadDir(u, Front(p))

\* All of it: listings and look-ups agree.
PathsAgree == ListedExists /\ ExistingListed
=============================================================================
