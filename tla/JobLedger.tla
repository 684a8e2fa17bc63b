------------------------------ MODULE JobLedger ------------------------------
(***************************************************************************)
(* What the scheduler promises about one-off jobs: executions begin only   *)
(* while a job is open, a job is opened once, and once it is closed - by a *)
(* result or by a cancellation - it stays closed, however many executions  *)
(* of it are still running.                                                *)
(***************************************************************************)
CONSTANTS Jobs, Workers

VARIABLES
    phase,  \* of each job: new, open or closed
    live    \* the workers executing each job

vars == <<phase, live>>

Init ==
    /\ phase = [j \in Jobs |-> "new"]
    /\ live = [j \in Jobs |-> {}]

Open(j) == phase[j] = "new" /\ phase' = [phase EXCEPT ![j] = "open"] /\ live' = live

Close(j) == phase[j] = "open" /\ phase' = [phase EXCEPT ![j] = "closed"] /\ live' = live

Begin(j, w) ==
    /\ phase[j] = "open" /\ \A k \in Jobs : w \notin live[k]
    /\ live' = [live EXCEPT ![j] = @ \cup {w}]
    /\ phase' = phase

\* An execution ends; it may leave the job open only if it was still open.
End(j, w) ==
    /\ w \in live[j]
    /\ live' = [live EXCEPT ![j] = @ \ {w}]
    /\ phase' \in {phase, [phase EXCEPT ![j] = "closed"]}

Crash == live' = [j \in Jobs |-> {}] /\ phase' = phase

Next ==
    \/ \E j \in Jobs : Open(j) \/ Close(j) \/ \E w \in Workers : Begin(j, w) \/ End(j, w)
    \/ Crash

Spec == Init /\ [][Next]_vars
=============================================================================
