----------------------------- MODULE VersionLog -----------------------------
(***************************************************************************)
(* What the versioned store of a study promises its users: a log of        *)
(* published versions, each with the set of documents it was published     *)
(* with.  The log only grows at its end, a published version never gains   *)
(* or loses a document, and no document belongs to two versions.           *)
(***************************************************************************)
EXTENDS Naturals, Sequences

VARIABLES
    published,  \* the ids of the published versions, oldest first
    content     \* for each published id, its documents

vars == <<published, content>>

Init == published = <<>> /\ content = [v \in {} |-> {}]

Publish(v, docs) ==
    /\ v \notin DOMAIN content
    /\ \A u \in DOMAIN content : content[u] \cap docs = {}
    /\ published' = Append(published, v)
    /\ content' = [u \in DOMAIN content \cup {v} |->
                      IF u = v THEN docs ELSE content[u]]

\* The id and the documents of a publication are read off the next state.
Next == \E v \in DOMAIN content' : Publish(v, content'[v])

Spec == Init /\ [][Next]_vars
=============================================================================
