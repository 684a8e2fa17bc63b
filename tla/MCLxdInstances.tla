--------------------------- MODULE MCLxdInstances ---------------------------
(* A small instance of LxdInstances for TLC, and what the code departs from. *)
EXTENDS LxdInstances, TLC

CONSTANTS i1, n1

OneName == i1 :> n1

\* lxdJobHandler.ts:279, "once the instance is deleted, remove the instance from the
\* database": when a document is removed, its container is gone.
RemovedMeansDestroyed ==
    [][\A i \in Instances : Exists(i) /\ doc'[i].status = "REMOVED" => Box(i) = "none"]_vars
=============================================================================
