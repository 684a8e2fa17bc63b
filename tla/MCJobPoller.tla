----------------------------- MODULE MCJobPoller -----------------------------
(* Small instances of JobPoller for TLC, and what the code departs from. *)
EXTENDS JobPoller, TLC

\* The jobs of the executor as they are created: one-off jobs above recurring ones.
Ranked == [j \in Jobs |-> IF j \in Recurring THEN 1 ELSE 2]

Symmetry == Permutations(Slots)

\* types/job.ts:78, reExecuteFailedJobs is "for errored jobs": a one-off job in error
\* that has attempts left is taken up again.
ErroredJobRetried ==
    \A j \in OneOff :
        jobs[j].status = "ERROR" /\ jobs[j].history.failed < MaxAttempts
            ~> \E s \in Slots : slot[s].pc = "run" /\ slot[s].job = j
=============================================================================
