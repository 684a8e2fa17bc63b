------------------------------ MODULE JobPoller ------------------------------
(***************************************************************************)
(* The job scheduler of the job executor: JobPoller and JobScheduler       *)
(* (poller.ts) over the jobs_collection, with createJob (jobCore.ts), the  *)
(* dispatcher, and the cancellation of an instance's jobs                  *)
(* (instanceCore.ts).                                                      *)
(*                                                                         *)
(* A timer calls checkForJobs without waiting for the call before it, and  *)
(* a job that is being executed keeps the status PENDING: a later call may *)
(* pick it again.  Each call works on the job as it was when picked.       *)
(* Counters saturate at MaxCount.                                          *)
(***************************************************************************)
EXTENDS Naturals, FiniteSets

CONSTANTS
    OneOff,      \* jobs whose period is null
    Recurring,   \* jobs with a period
    Unhandled,   \* jobs of a type no handler is registered for (AE, SYSTEMPROCESS)
    Slots,       \* calls of checkForJobs that may be under way at once
    Priority,    \* of each job
    Period, Delay,   \* of recurring jobs; failedJobDelayTime
    MaxAttempts, \* attempts recorded before a failing job is left out
    MaxCount,    \* bound on counters
    MaxNow,      \* bound on the clock
    MaxFaults    \* bound on rejected database calls and executor crashes

Jobs == OneOff \cup Recurring

ASSUME KindAssumption == /\ Jobs # {} /\ OneOff \cap Recurring = {}
                         /\ Unhandled \subseteq Jobs
ASSUME PriorityAssumption == Priority \in [Jobs -> Nat]
ASSUME NumberAssumption ==
    /\ Period \in Nat /\ Delay \in Nat /\ MaxAttempts \in Nat
    /\ MaxCount \in Nat /\ MaxAttempts < MaxCount
    /\ MaxNow \in Nat /\ MaxFaults \in Nat

VARIABLES
    jobs,    \* jobs_collection
    slot,    \* progress of each call of checkForJobs
    now,     \* Date.now()
    faults,  \* faults so far
    settled  \* results written for each job (history variable)

vars == <<jobs, slot, now, faults, settled>>

-----------------------------------------------------------------------------

Status == {"ABSENT", "PENDING", "CANCELLED", "FINISHED", "ERROR"}
History == [ok : 0..MaxCount, failed : 0..MaxCount]
Job == [status : Status, next : Nat, counter : 0..MaxCount, history : History]

Up(n) == IF n < MaxCount THEN n + 1 ELSE n
NoHistory == [ok |-> 0, failed |-> 0]
Append(h, ok) == IF ok THEN [h EXCEPT !.ok = Up(@)] ELSE [h EXCEPT !.failed = Up(@)]

\* `old` and `counter` are those of the job as picked, `read` the history found
\* after the action, `at` the time the action returned.
Slot == [pc : {"idle", "claim", "run", "read", "write", "catch"}, job : Jobs,
         old : History, read : History, counter : 0..MaxCount,
         result : {"none", "ok", "failed"}, at : Nat]

SomeJob == CHOOSE j \in Jobs : TRUE
Idle == [pc |-> "idle", job |-> SomeJob, old |-> NoHistory, read |-> NoHistory,
         counter |-> 0, result |-> "none", at |-> 0]

Busy(s, j) == slot[s].pc # "idle" /\ slot[s].job = j

Init ==
    /\ jobs = [j \in Jobs |-> [status |-> "ABSENT", next |-> 0, counter |-> 0,
                              history |-> NoHistory]]
    /\ slot = [s \in Slots |-> Idle]
    /\ now = 0 /\ faults = 0
    /\ settled = [j \in Jobs |-> 0]

-----------------------------------------------------------------------------
(* The requests of the API server, and time.                               *)

CreateJob(j) ==
    /\ jobs[j].status = "ABSENT"
    /\ jobs' = [jobs EXCEPT ![j].status = "PENDING", ![j].next = now]
    /\ UNCHANGED <<slot, now, faults, settled>>

\* deleteInstance cancels the pending jobs of the instance.
CancelJob(j) ==
    /\ jobs[j].status = "PENDING"
    /\ jobs' = [jobs EXCEPT ![j].status = "CANCELLED"]
    /\ UNCHANGED <<slot, now, faults, settled>>

Tick ==
    /\ now < MaxNow
    /\ now' = now + 1
    /\ UNCHANGED <<jobs, slot, faults, settled>>

-----------------------------------------------------------------------------
(* findNextJob.                                                            *)

\* Mutant of Available: the attempts are not limited.
AvailableAlways(j) ==
    /\ jobs[j].status = "PENDING"
    /\ j \in Recurring \/ jobs[j].next <= now

\* A recurring job is always included, whatever its next execution time.
Available(j) ==
    /\ jobs[j].status = "PENDING"
    /\ \/ j \in Recurring
       \/ jobs[j].history.failed <= MaxAttempts /\ jobs[j].next <= now

\* Mutant of Precedes: lower priority first.
PrecedesReversed(j, k) ==
    \/ Priority[j] < Priority[k]
    \/ Priority[j] = Priority[k] /\ jobs[j].next <= jobs[k].next

\* Higher priority first, then earlier execution time; ties in any order.
Precedes(j, k) ==
    \/ Priority[j] > Priority[k]
    \/ Priority[j] = Priority[k] /\ jobs[j].next <= jobs[k].next

Picked(s, j, pc) ==
    slot' = [slot EXCEPT ![s] = [Idle EXCEPT !.pc = pc, !.job = j,
                                           !.old = jobs[j].history, !.counter = jobs[j].counter]]

\* A one-off job is handed to the dispatcher as it is: nothing marks it as taken.
FindNextJob(s, j) ==
    /\ slot[s].pc = "idle"
    /\ Available(j) /\ \A k \in Jobs : Available(k) => Precedes(j, k)
    /\ Picked(s, j, IF j \in Recurring THEN "claim" ELSE "run")
    /\ UNCHANGED <<jobs, now, faults, settled>>

\* A recurring job's next execution time is moved, and its status set.
ClaimJob(s) ==
    /\ slot[s].pc = "claim"
    /\ jobs' = [jobs EXCEPT ![slot[s].job].next = now + Period,
                            ![slot[s].job].status = "PENDING"]
    /\ slot' = [slot EXCEPT ![s].pc = "run"]
    /\ UNCHANGED <<now, faults, settled>>

-----------------------------------------------------------------------------
(* checkForJobs.                                                           *)

\* dispatch answers with a result, whether or not the handler throws; only a job
\* without a handler makes it throw, and checkForJobs then enters its catch.
ActionReturns(s, ok) ==
    /\ slot[s].pc = "run" /\ slot[s].job \notin Unhandled
    /\ slot' = [slot EXCEPT ![s].pc = "read", ![s].result = IF ok THEN "ok" ELSE "failed",
                            ![s].at = now]
    /\ UNCHANGED <<jobs, now, faults, settled>>

ActionThrows(s) ==
    /\ slot[s].pc = "run" /\ slot[s].job \in Unhandled
    /\ slot' = [slot EXCEPT ![s].pc = "catch"]
    /\ UNCHANGED <<jobs, now, faults, settled>>

ReadHistory(s) ==
    /\ slot[s].pc = "read"
    /\ slot' = [slot EXCEPT ![s].pc = "write", ![s].read = jobs[slot[s].job].history]
    /\ UNCHANGED <<jobs, now, faults, settled>>

\* Mutants of Updated: a failed one-off job stays PENDING, to be tried again; the
\* action's result is stored as the status.
UpdatedRetry(c, history) ==
    [status |-> IF c.job \in Recurring \/ c.result = "failed" THEN "PENDING" ELSE "FINISHED",
     next |-> IF c.job \in Recurring THEN c.at + Period ELSE c.at + Delay,
     counter |-> Up(c.counter), history |-> history]

UpdatedRaw(c, history) ==
    [status |-> c.result, next |-> c.at, counter |-> Up(c.counter), history |-> history]

\* The job after the $set of a result: a recurring job is pending again, a one-off
\* job finished or in error, with a next execution time nothing looks at.
Updated(c, history) ==
    [status |-> IF c.job \in Recurring THEN "PENDING"
                ELSE IF c.result = "ok" THEN "FINISHED" ELSE "ERROR",
     next |-> IF c.job \in Recurring THEN c.at + Period
              ELSE IF c.result = "failed" /\ c.counter < MaxAttempts THEN c.at + Delay
              ELSE jobs[c.job].next,
     counter |-> Up(c.counter), history |-> history]

\* Mutant of WriteResult: the counter in the database is incremented.
WriteResultInc(s) ==
    /\ slot[s].pc = "write"
    /\ jobs' = [jobs EXCEPT ![slot[s].job] =
          [Updated(slot[s], Append(slot[s].read, slot[s].result = "ok"))
              EXCEPT !.counter = Up(Up(jobs[slot[s].job].counter))]]
    /\ slot' = [slot EXCEPT ![s] = Idle]
    /\ settled' = [settled EXCEPT ![slot[s].job] = Up(@)]
    /\ UNCHANGED <<now, faults>>

WriteResult(s) ==
    /\ slot[s].pc = "write"
    /\ jobs' = [jobs EXCEPT ![slot[s].job] =
          Updated(slot[s], Append(slot[s].read, slot[s].result = "ok"))]
    /\ slot' = [slot EXCEPT ![s] = Idle]
    /\ settled' = [settled EXCEPT ![slot[s].job] = Up(@)]
    /\ UNCHANGED <<now, faults>>

\* The catch of checkForJobs appends a failure to the history of the job as picked,
\* and keeps the fields that were to be set when a database call rejected.
WriteFailure(s) ==
    /\ slot[s].pc = "catch"
    /\ LET history == Append(slot[s].old, FALSE)
       IN jobs' = IF slot[s].result = "none"
                  THEN [jobs EXCEPT ![slot[s].job].history = history]
                  ELSE [jobs EXCEPT ![slot[s].job] = Updated(slot[s], history)]
    /\ slot' = [slot EXCEPT ![s] = Idle]
    /\ settled' = [settled EXCEPT ![slot[s].job] = Up(@)]
    /\ UNCHANGED <<now, faults>>

\* A database call rejects: claiming gives up, reading or writing the result goes to
\* the catch, and the catch's own write is not caught.
CallRejects(s) ==
    /\ faults < MaxFaults
    /\ \/ /\ slot[s].pc \in {"claim", "catch"}
          /\ slot' = [slot EXCEPT ![s] = Idle]
       \/ /\ slot[s].pc \in {"read", "write"}
          /\ slot' = [slot EXCEPT ![s].pc = "catch"]
    /\ faults' = faults + 1
    /\ UNCHANGED <<jobs, now, settled>>

\* The executor stops and starts again: its calls are gone, the jobs still pending.
Crash ==
    /\ faults < MaxFaults
    /\ faults' = faults + 1
    /\ slot' = [s \in Slots |-> Idle]
    /\ UNCHANGED <<jobs, now, settled>>

-----------------------------------------------------------------------------

SlotStep(s) ==
    \/ ClaimJob(s) \/ ReadHistory(s) \/ WriteResult(s) \/ WriteFailure(s)
    \/ ActionThrows(s) \/ \E ok \in BOOLEAN : ActionReturns(s, ok)

Poll(s) == \E j \in Jobs : FindNextJob(s, j)

Next ==
    \/ \E j \in Jobs : CreateJob(j) \/ CancelJob(j)
    \/ Tick
    \/ \E s \in Slots : SlotStep(s) \/ Poll(s) \/ CallRejects(s)
    \/ Crash

Spec == Init /\ [][Next]_vars

\* The timer keeps calling checkForJobs, and every call that is under way is
\* answered: its database calls by the driver, its action because each handler
\* bounds its waiting (lxdPollOperation.ts gives up after 50 tries).
FairSpec ==
    /\ Spec
    /\ \A s \in Slots : WF_vars(SlotStep(s)) /\ WF_vars(Poll(s))

-----------------------------------------------------------------------------
(* Type invariant.                                                         *)

\* The jobs and the calls of checkForJobs (poller.ts) hold values of their types.
TypeOK ==
    /\ jobs \in [Jobs -> Job]
    /\ slot \in [Slots -> Slot]
    /\ now \in Nat /\ faults \in Nat
    /\ settled \in [Jobs -> 0..MaxCount]

-----------------------------------------------------------------------------
(* Safety.                                                                 *)

\* A one-off job is opened once and, once it has a result or is cancelled, never
\* picked again: the results that executions already running write later may
\* change its status, but do not make it pending (findNextJob, checkForJobs).
Phase == [j \in OneOff |-> IF jobs[j].status = "ABSENT" THEN "new"
                           ELSE IF jobs[j].status = "PENDING" THEN "open" ELSE "closed"]
Live == [j \in OneOff |-> {s \in Slots : Busy(s, j)}]

Ledger == INSTANCE JobLedger WITH Jobs <- OneOff, Workers <- Slots,
                                  phase <- Phase, live <- Live
ImplementsLedger == Ledger!Spec

\* A one-off job whose action throws is tried until its history holds MaxAttempts + 1
\* failures and no more, also when its executions overlap and each rewrites the
\* history from the copy it was picked with.
AttemptsBounded ==
    \A j \in OneOff \cap Unhandled : jobs[j].history.failed <= MaxAttempts + 1

\* counter and history fall behind when executions overlap, for both are computed
\* from copies; they never count an execution that wrote no result.
NeverOvercounts ==
    \A j \in Jobs : /\ jobs[j].counter <= settled[j]
                    /\ settled[j] < MaxCount =>
                         jobs[j].history.ok + jobs[j].history.failed <= settled[j]

-----------------------------------------------------------------------------
(* Liveness.                                                               *)

\* A one-off job that ranks above every recurring job - as all jobs created by
\* instanceCore.ts do - leaves PENDING or uses up its attempts.
UrgentSettles ==
    \A j \in OneOff : (\A k \in Recurring : Priority[k] < Priority[j]) =>
        (jobs[j].status = "PENDING" ~>
            jobs[j].status # "PENDING" \/ jobs[j].history.failed > MaxAttempts)
=============================================================================
