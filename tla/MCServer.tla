----------------------------- MODULE MCServer -----------------------------
(***************************************************************************)
(* Server on small instances.  e1 and e2 are whatever comes in             *)
(* interchangeable pairs: registered entries, files, cookies, leased       *)
(* instances, browser tabs.                                                *)
(***************************************************************************)
EXTENDS Server, TLC

CONSTANTS s, ann, bob, n1, n2, m1, m2, thing, e1, e2, l1, l2, q1, q2, d1, d2,
          f, g, one, two, r1, r2, box, home, my, sh, st

\* The setup inserts s, and ann can be created.
MCSeedName == s :> n1
MCSeedMail == s :> m1

MCMaxSigned == d1 :> 1 @@ d2 :> 0

Given == INSTANCE MCTransformations WITH Inputs <- {}, Plans <- {}
SomeInputs == Given!MCInputs
SomePlans == Given!MCPlans

\* Ann manages the study and is a reader as well, bob is a reader; g is a field of files.
Of(fields, subjects, unversioned, level) ==
    [fields |-> fields, subjects |-> subjects, unversioned |-> unversioned, level |-> level]
SomeGrants == {{Of({f, g}, Null, TRUE, 7)}, {Of({g}, {one}, FALSE, 4), Of({f}, Null, TRUE, 6)},
             {Of({}, Null, TRUE, 7)}}
Clip(field, subject, version, user, deleted) ==
    [field |-> field, subject |-> subject, version |-> version, user |-> user, deleted |-> deleted]
SomeArchives ==
    {<<>>, <<Clip(g, one, 1, ann, FALSE)>>,
     <<Clip(g, one, 1, ann, FALSE), Clip(g, one, 1, ann, TRUE), Clip(f, two, 0, bob, FALSE)>>}
MCDefined == f :> 1 @@ g :> 1
MCMembers == r1 :> {ann} @@ r2 :> {ann, bob}

MCNameOf == ann :> n1
MCHolderOf == thing :> ann
MCOwnerOf == box :> ann

Options(initial, subsequent, max, summarize) ==
    [initial |-> initial, subsequent |-> subsequent, max |-> max, summarize |-> summarize]
MCUsual == Options(1, 2, 2, 4)
MCPatient == Options(1, 3, 2, 4)
MCLocation == Options(1, 2, 1, 2)
MCAggregate == Options(2, 3, 1, 3)

\* home is ann's drive; one may be below home or two, and two below one, or a directory bob shares.
SomePaths == {<<>>, <<my>>, <<my, thing>>, <<my, thing, thing>>, <<sh>>, <<sh, n1>>, <<sh, n1, thing>>, <<st>>, <<st, thing>>}
Doc(name, path, owner, shared) ==
    [name |-> name, path |-> path, owner |-> owner, shared |-> shared]
SomeDocuments ==
    home :> {Doc(my, <<home>>, ann, {})}
    @@ one :> {Doc(thing, path, ann, {}) : path \in {<<home, one>>, <<home, two, one>>}}
    @@ two :> {Doc(thing, path, o, {}) : path \in {<<home, two>>, <<home, one, two>>, <<two>>}, o \in {ann, bob}}
                \cup {Doc(thing, <<two>>, bob, {ann})}
MCFullName == ann :> n1 @@ bob :> n1

Interchangeable == Permutations({e1, e2}) \cup Permutations(Requests)
=============================================================================
