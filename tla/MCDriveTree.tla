---------------------------- MODULE MCDriveTree ----------------------------
(* A small instance of DriveTree for TLC, and what the code departs from. *)
EXTENDS DriveTree, TLC

CONSTANTS u1, u2, r1, n1

RootOf == u1 :> r1

SomeRights == {{<<u2, "read">>, <<u2, "write">>}}

\* Renaming, moving, and handing over what is no longer shared.
SomeEdits ==
    {[manager |-> Null, name |-> n1, shared |-> Null, moves |-> FALSE],
     [manager |-> Null, name |-> Null, shared |-> Null, moves |-> TRUE],
     [manager |-> u2, name |-> Null, shared |-> {}, moves |-> FALSE]}

Symmetry == Permutations(Drives \ {r1}) \cup Permutations(Files) \cup Permutations(Requests)
=============================================================================
