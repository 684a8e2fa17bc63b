--------------------------- MODULE JobPollerProofs ---------------------------
(***************************************************************************)
(* Theorems of JobPoller, for all jobs and slots, priorities and bounds.   *)
(***************************************************************************)
EXTENDS JobPoller, TLAPS

-----------------------------------------------------------------------------
(* The operators: histories, and the job that a result makes.              *)

Sum(h) == h.ok + h.failed

LEMMA UpFacts ==
    ASSUME NEW n \in 0..MaxCount
    PROVE  /\ Up(n) \in 0..MaxCount /\ n <= Up(n) /\ Up(n) <= n + 1
           /\ Up(n) < MaxCount => Up(n) = n + 1 /\ n < MaxCount
           /\ \A k \in 0..n : Up(k) <= Up(n)
  BY NumberAssumption DEF Up

\* Appending adds one entry at most.
LEMMA AppendFacts ==
    ASSUME NEW h \in History, NEW ok \in BOOLEAN
    PROVE  /\ Append(h, ok) \in History
           /\ Sum(h) \in Nat /\ Sum(Append(h, ok)) \in Nat
           /\ Sum(Append(h, ok)) <= Sum(h) + 1
           /\ Append(h, ok).failed <= h.failed + 1
<1>1. h.ok \in 0..MaxCount /\ h.failed \in 0..MaxCount /\ h = [ok |-> h.ok, failed |-> h.failed]
  BY DEF History
<1>2. Up(h.ok) \in 0..MaxCount /\ Up(h.failed) \in 0..MaxCount
      /\ Up(h.ok) <= h.ok + 1 /\ Up(h.failed) <= h.failed + 1
  BY <1>1, UpFacts
<1>3. CASE ok
  <2>1. Append(h, ok) = [ok |-> Up(h.ok), failed |-> h.failed]
    BY <1>1, <1>3 DEF Append
  <2>. QED
    BY <1>1, <1>2, <2>1, NumberAssumption DEF History, Sum
<1>4. CASE ~ok
  <2>1. Append(h, ok) = [ok |-> h.ok, failed |-> Up(h.failed)]
    BY <1>1, <1>4 DEF Append
  <2>. QED
    BY <1>1, <1>2, <2>1, NumberAssumption DEF History, Sum
<1>. QED
  BY <1>3, <1>4

LEMMA IdleFacts ==
    /\ NoHistory \in History /\ Sum(NoHistory) = 0
    /\ Idle \in Slot /\ Idle.pc = "idle" /\ Idle.job \in Jobs /\ Idle.counter = 0
    /\ Idle.old = NoHistory /\ Idle.read = NoHistory /\ Idle.result = "none"
<1>1. SomeJob \in Jobs
  BY KindAssumption DEF SomeJob
<1>2. NoHistory \in History /\ Sum(NoHistory) = 0
  BY NumberAssumption DEF NoHistory, History, Sum
<1>. QED
  BY <1>1, <1>2, NumberAssumption DEF Idle, Slot

LEMMA SlotFacts ==
    ASSUME TypeOK, NEW s \in Slots
    PROVE  /\ slot[s] \in Slot /\ slot[s].job \in Jobs
           /\ slot[s].old \in History /\ slot[s].read \in History
           /\ slot[s].counter \in 0..MaxCount /\ slot[s].at \in Nat
           /\ jobs[slot[s].job] \in Job
  BY DEF TypeOK, Slot

LEMMA JobFacts ==
    ASSUME TypeOK, NEW j \in Jobs
    PROVE  /\ jobs[j] \in Job /\ jobs[j].status \in Status /\ jobs[j].next \in Nat
           /\ jobs[j].counter \in 0..MaxCount /\ jobs[j].history \in History
           /\ settled[j] \in 0..MaxCount
  BY DEF TypeOK, Job

LEMMA PickedFacts ==
    ASSUME TypeOK, NEW j \in Jobs, NEW pc \in {"claim", "run"}, NEW s \in Slots, Picked(s, j, pc)
    PROVE  /\ slot' \in [Slots -> Slot]
           /\ \A t \in Slots : t # s => slot'[t] = slot[t]
           /\ slot'[s].pc = pc /\ slot'[s].job = j /\ slot'[s].old = jobs[j].history
           /\ slot'[s].counter = jobs[j].counter
           /\ slot'[s].read = NoHistory /\ slot'[s].result = "none"
<1>. DEFINE p == [Idle EXCEPT !.pc = pc, !.job = j, !.old = jobs[j].history,
                              !.counter = jobs[j].counter]
<1>1. p \in Slot /\ p.pc = pc /\ p.job = j /\ p.old = jobs[j].history
      /\ p.counter = jobs[j].counter /\ p.read = NoHistory /\ p.result = "none"
  BY IdleFacts, JobFacts DEF Slot
<1>2. slot' = [slot EXCEPT ![s] = p] /\ slot \in [Slots -> Slot]
  BY DEF Picked, TypeOK
<1>. HIDE DEF p
<1>3. \A t \in Slots : slot'[t] = IF t = s THEN p ELSE slot[t]
  BY <1>2
<1>. QED
  BY <1>1, <1>2, <1>3

LEMMA UpdatedFacts ==
    ASSUME TypeOK, NEW s \in Slots, NEW h \in History
    PROVE  /\ Updated(slot[s], h) \in Job
           /\ Updated(slot[s], h).history = h
           /\ Updated(slot[s], h).counter = Up(slot[s].counter)
           /\ slot[s].job \notin Recurring =>
                 Updated(slot[s], h).status \in {"FINISHED", "ERROR"}
<1>. DEFINE st == IF slot[s].job \in Recurring THEN "PENDING"
                  ELSE IF slot[s].result = "ok" THEN "FINISHED" ELSE "ERROR"
            nx == IF slot[s].job \in Recurring THEN slot[s].at + Period
                  ELSE IF slot[s].result = "failed" /\ slot[s].counter < MaxAttempts
                       THEN slot[s].at + Delay ELSE jobs[slot[s].job].next
<1>1. st \in Status /\ (slot[s].job \notin Recurring => st \in {"FINISHED", "ERROR"})
  BY DEF Status
<1>2. nx \in Nat
  BY SlotFacts, JobFacts, NumberAssumption
<1>3. Up(slot[s].counter) \in 0..MaxCount
  BY SlotFacts, UpFacts
<1>4. Updated(slot[s], h) = [status |-> st, next |-> nx, counter |-> Up(slot[s].counter),
                             history |-> h]
  BY DEF Updated
<1>. HIDE DEF st, nx
<1>. QED
  BY <1>1, <1>2, <1>3, <1>4 DEF Job

-----------------------------------------------------------------------------
(* Type correctness.                                                       *)

LEMMA InitType == Init => TypeOK
<1>. SUFFICES ASSUME Init PROVE TypeOK
  OBVIOUS
<1>1. jobs \in [Jobs -> Job]
  BY IdleFacts, NumberAssumption DEF Init, Job, Status
<1>2. slot \in [Slots -> Slot]
  BY IdleFacts DEF Init
<1>. QED
  BY <1>1, <1>2, NumberAssumption DEF Init, TypeOK

LEMMA SlotStepType ==
    ASSUME TypeOK, NEW s \in Slots, SlotStep(s)
    PROVE  TypeOK'
<1>. USE DEF TypeOK
<1>0. slot[s] \in Slot /\ slot[s].job \in Jobs
  BY SlotFacts
<1>5. settled' = [settled EXCEPT ![slot[s].job] = Up(@)] => settled' \in [Jobs -> 0..MaxCount]
  BY <1>0, JobFacts, UpFacts
<1>6. slot' = [slot EXCEPT ![s] = Idle] => slot' \in [Slots -> Slot]
  BY IdleFacts
<1>1. CASE ClaimJob(s)
  <2>1. now + Period \in Nat
    BY NumberAssumption
  <2>2. jobs' \in [Jobs -> Job]
    <3>. DEFINE j == slot[s].job
                claimed == [jobs[j] EXCEPT !.next = now + Period, !.status = "PENDING"]
    <3>1. claimed \in Job
      BY <1>0, <2>1, JobFacts DEF Job, Status
    <3>2. jobs' = [jobs EXCEPT ![j] = claimed]
      BY <1>0, <1>1 DEF ClaimJob
    <3>. HIDE DEF claimed
    <3>. QED
      BY <1>0, <3>1, <3>2
  <2>3. slot' \in [Slots -> Slot]
    BY <1>1 DEF ClaimJob, Slot
  <2>. QED
    BY <1>1, <2>2, <2>3 DEF ClaimJob
<1>2. CASE ReadHistory(s)
  <2>1. slot' \in [Slots -> Slot]
    BY <1>2, <1>0, JobFacts DEF ReadHistory, Slot
  <2>. QED
    BY <1>2, <2>1 DEF ReadHistory
<1>3. CASE WriteResult(s)
  <2>1. Append(slot[s].read, slot[s].result = "ok") \in History
    BY SlotFacts, AppendFacts
  <2>2. Updated(slot[s], Append(slot[s].read, slot[s].result = "ok")) \in Job
    BY <2>1, UpdatedFacts
  <2>3. jobs' \in [Jobs -> Job]
    BY <1>3, <2>2 DEF WriteResult
  <2>. QED
    BY <1>3, <1>5, <1>6, <2>3 DEF WriteResult
<1>4. CASE WriteFailure(s)
  <2>. DEFINE h == Append(slot[s].old, FALSE)
  <2>1. h \in History
    BY SlotFacts, AppendFacts
  <2>2. Updated(slot[s], h) \in Job
    BY <2>1, UpdatedFacts
  <2>3. jobs' = IF slot[s].result = "none" THEN [jobs EXCEPT ![slot[s].job].history = h]
                ELSE [jobs EXCEPT ![slot[s].job] = Updated(slot[s], h)]
    BY <1>4 DEF WriteFailure
  <2>. HIDE DEF h
  <2>4. [jobs EXCEPT ![slot[s].job].history = h] \in [Jobs -> Job]
    BY <2>1 DEF Job
  <2>5. jobs' \in [Jobs -> Job]
    BY <2>2, <2>3, <2>4
  <2>. QED
    BY <1>4, <1>5, <1>6, <2>5 DEF WriteFailure
<1>7. CASE ActionThrows(s)
  <2>1. slot' \in [Slots -> Slot]
    BY <1>7 DEF ActionThrows, Slot
  <2>. QED
    BY <1>7, <2>1 DEF ActionThrows
<1>8. CASE \E ok \in BOOLEAN : ActionReturns(s, ok)
  <2>. PICK ok \in BOOLEAN : ActionReturns(s, ok)
    BY <1>8
  <2>. DEFINE r == IF ok THEN "ok" ELSE "failed"
  <2>1. r \in {"none", "ok", "failed"}
    OBVIOUS
  <2>2. slot' = [slot EXCEPT ![s] = [slot[s] EXCEPT !.pc = "read", !.result = r, !.at = now]]
    BY DEF ActionReturns
  <2>. HIDE DEF r
  <2>4. [slot[s] EXCEPT !.pc = "read", !.result = r, !.at = now] \in Slot
    BY <1>0, <2>1 DEF Slot
  <2>3. slot' \in [Slots -> Slot]
    BY <2>2, <2>4
  <2>. QED
    BY <2>3 DEF ActionReturns
<1>. QED
  BY <1>1, <1>2, <1>3, <1>4, <1>7, <1>8 DEF SlotStep

LEMMA NextType == TypeOK /\ [Next]_vars => TypeOK'
<1>. SUFFICES ASSUME TypeOK, [Next]_vars PROVE TypeOK'
  OBVIOUS
<1>. USE DEF TypeOK
<1>1. CASE \E j \in Jobs : CreateJob(j)
  <2>. PICK j \in Jobs : CreateJob(j)
    BY <1>1
  <2>1. [jobs[j] EXCEPT !.status = "PENDING", !.next = now] \in Job
    BY DEF Job, Status
  <2>2. jobs' = [jobs EXCEPT ![j] = [jobs[j] EXCEPT !.status = "PENDING", !.next = now]]
    BY DEF CreateJob
  <2>3. jobs' \in [Jobs -> Job]
    BY <2>1, <2>2
  <2>. QED
    BY <2>3 DEF CreateJob
<1>2. CASE \E j \in Jobs : CancelJob(j)
  <2>1. jobs' \in [Jobs -> Job]
    BY <1>2 DEF CancelJob, Job, Status
  <2>. QED
    BY <1>2, <2>1 DEF CancelJob
<1>3. CASE Tick
  BY <1>3 DEF Tick
<1>4. CASE \E s \in Slots : SlotStep(s)
  BY <1>4, SlotStepType
<1>5. CASE \E s \in Slots : Poll(s)
  <2>1. slot' \in [Slots -> Slot]
    BY <1>5, PickedFacts DEF Poll, FindNextJob
  <2>. QED
    BY <1>5, <2>1 DEF Poll, FindNextJob
<1>6. CASE \E s \in Slots : CallRejects(s)
  <2>1. slot' \in [Slots -> Slot]
    BY <1>6, IdleFacts DEF CallRejects, Slot
  <2>. QED
    BY <1>6, <2>1 DEF CallRejects
<1>7. CASE Crash
  BY <1>7, IdleFacts DEF Crash
<1>8. CASE UNCHANGED vars
  BY <1>8 DEF vars
<1>. QED
  BY <1>1, <1>2, <1>3, <1>4, <1>5, <1>6, <1>7, <1>8 DEF Next

\* Jobs and calls of checkForJobs hold values of their types, for any jobs and slots.
THEOREM TypeCorrect == Spec => []TypeOK
<1>1. Init => TypeOK
  BY InitType
<1>2. TypeOK /\ [Next]_vars => TypeOK'
  BY NextType
<1>. QED
  BY <1>1, <1>2, PTL DEF Spec

-----------------------------------------------------------------------------
(* The attempts' limit.  It is inductive together with the fact that a job *)
(* without a handler is executed from a copy picked below the limit, and   *)
(* that such an execution can only throw.                                  *)

Endless == OneOff \cap Unhandled

PickedBelow ==
    \A s \in Slots : slot[s].pc # "idle" /\ slot[s].job \in Endless =>
        /\ slot[s].pc \in {"run", "catch"} /\ slot[s].result = "none"
        /\ slot[s].old.failed <= MaxAttempts

AttemptsInv == TypeOK /\ AttemptsBounded /\ PickedBelow

LEMMA SlotStepAttempts ==
    ASSUME AttemptsInv, NEW s \in Slots, SlotStep(s)
    PROVE  AttemptsBounded' /\ PickedBelow'
<1>. USE DEF AttemptsInv
<1>0. slot \in [Slots -> Slot] /\ slot[s].job \in Jobs /\ jobs \in [Jobs -> Job]
      /\ Endless \subseteq Jobs
  BY SlotFacts DEF TypeOK, Endless, Jobs
<1>1. CASE ClaimJob(s)
  <2>1. slot[s].job \notin Endless
    BY <1>1 DEF ClaimJob, PickedBelow
  <2>2. \A j \in Jobs : jobs'[j].history = jobs[j].history
    BY <1>0, <1>1 DEF ClaimJob, Job
  <2>3. PickedBelow'
    BY <1>0, <1>1, <2>1 DEF ClaimJob, PickedBelow, Slot
  <2>. QED
    BY <1>0, <2>2, <2>3 DEF AttemptsBounded, Endless
<1>2. CASE ReadHistory(s)
  <2>1. slot[s].job \notin Endless
    BY <1>2 DEF ReadHistory, PickedBelow
  <2>2. PickedBelow'
    BY <1>0, <1>2, <2>1 DEF ReadHistory, PickedBelow, Slot
  <2>. QED
    BY <1>2, <2>2 DEF ReadHistory, AttemptsBounded
<1>3. CASE WriteResult(s)
  <2>1. slot[s].job \notin Endless
    BY <1>3 DEF WriteResult, PickedBelow
  <2>2. \A j \in Endless : jobs'[j] = jobs[j]
    BY <1>0, <1>3, <2>1 DEF WriteResult
  <2>3. PickedBelow'
    BY <1>0, <1>3, IdleFacts DEF WriteResult, PickedBelow
  <2>. QED
    BY <2>2, <2>3 DEF AttemptsBounded, Endless
<1>4. CASE WriteFailure(s)
  <2>. DEFINE h == Append(slot[s].old, FALSE)
  <2>1. PickedBelow'
    BY <1>0, <1>4, IdleFacts DEF WriteFailure, PickedBelow
  <2>2. h \in History /\ h.failed <= slot[s].old.failed + 1
    BY SlotFacts, AppendFacts
  <2>5. slot[s].old.failed \in Nat /\ h.failed \in Nat
    <3>1. \A k \in History : k.failed \in Nat
      BY NumberAssumption DEF History
    <3>. HIDE DEF h
    <3>. QED
      BY <2>2, <3>1, SlotFacts
  <2>3. CASE slot[s].job \in Endless
    <3>1. slot[s].result = "none" /\ slot[s].old.failed <= MaxAttempts
      BY <1>4, <2>3 DEF WriteFailure, PickedBelow
    <3>2. jobs' = [jobs EXCEPT ![slot[s].job].history = h]
      BY <1>4, <3>1 DEF WriteFailure
    <3>. HIDE DEF h
    <3>3. h.failed <= MaxAttempts + 1
      BY <2>2, <2>5, <3>1, NumberAssumption
    <3>4. \A j \in Jobs : jobs'[j].history = IF j = slot[s].job THEN h ELSE jobs[j].history
      BY <1>0, <3>2 DEF Job
    <3>. QED
      BY <1>0, <2>1, <3>3, <3>4 DEF AttemptsBounded, Endless
  <2>4. CASE slot[s].job \notin Endless
    <3>1. \A j \in Endless : jobs'[j] = jobs[j]
      BY <1>0, <1>4, <2>4 DEF WriteFailure
    <3>. QED
      BY <2>1, <3>1 DEF AttemptsBounded, Endless
  <2>. QED
    BY <2>3, <2>4
<1>5. CASE ActionThrows(s)
  <2>1. PickedBelow'
    BY <1>0, <1>5 DEF ActionThrows, PickedBelow, Slot
  <2>. QED
    BY <1>5, <2>1 DEF ActionThrows, AttemptsBounded
<1>6. CASE \E ok \in BOOLEAN : ActionReturns(s, ok)
  <2>1. slot[s].job \notin Endless
    BY <1>6 DEF ActionReturns, Endless
  <2>2. slot'[s].job = slot[s].job /\ \A t \in Slots : t # s => slot'[t] = slot[t]
    BY <1>0, <1>6 DEF ActionReturns, Slot
  <2>3. PickedBelow'
    BY <2>1, <2>2 DEF PickedBelow
  <2>. QED
    BY <1>6, <2>3 DEF ActionReturns, AttemptsBounded
<1>. QED
  BY <1>1, <1>2, <1>3, <1>4, <1>5, <1>6 DEF SlotStep

LEMMA NextAttempts == AttemptsInv /\ [Next]_vars => AttemptsInv'
<1>. SUFFICES ASSUME AttemptsInv, [Next]_vars PROVE AttemptsBounded' /\ PickedBelow'
  BY NextType DEF AttemptsInv
<1>. USE DEF AttemptsInv
<1>0. slot \in [Slots -> Slot] /\ jobs \in [Jobs -> Job] /\ Endless \subseteq Jobs
  BY DEF TypeOK, Endless, Jobs
<1>1. CASE \E j \in Jobs : CreateJob(j) \/ CancelJob(j)
  <2>1. \A j \in Jobs : jobs'[j].history = jobs[j].history
    BY <1>0, <1>1 DEF CreateJob, CancelJob, Job
  <2>2. slot' = slot
    BY <1>1 DEF CreateJob, CancelJob
  <2>. QED
    BY <1>0, <2>1, <2>2 DEF AttemptsBounded, PickedBelow, Endless
<1>2. CASE Tick \/ UNCHANGED vars
  BY <1>2 DEF Tick, vars, AttemptsBounded, PickedBelow
<1>3. CASE \E s \in Slots : SlotStep(s)
  BY <1>3, SlotStepAttempts
<1>4. CASE \E s \in Slots : Poll(s)
  <2>. PICK s \in Slots, j \in Jobs : FindNextJob(s, j)
    BY <1>4 DEF Poll
  <2>. DEFINE pc == IF j \in Recurring THEN "claim" ELSE "run"
  <2>1. Picked(s, j, pc) /\ pc \in {"claim", "run"} /\ jobs' = jobs
    BY DEF FindNextJob
  <2>2. j \in Endless => pc = "run" /\ jobs[j].history.failed <= MaxAttempts
    BY KindAssumption DEF Endless, FindNextJob, Available
  <2>. HIDE DEF pc
  <2>3. /\ \A t \in Slots : t # s => slot'[t] = slot[t]
        /\ slot'[s].pc = pc /\ slot'[s].job = j /\ slot'[s].old = jobs[j].history
        /\ slot'[s].result = "none"
    BY <2>1, PickedFacts
  <2>4. PickedBelow'
    BY <2>2, <2>3 DEF PickedBelow
  <2>. QED
    BY <2>1, <2>4 DEF AttemptsBounded
<1>5. CASE \E s \in Slots : CallRejects(s)
  <2>. PICK s \in Slots : CallRejects(s)
    BY <1>5
  <2>1. CASE slot[s].pc \in {"claim", "catch"}
    <3>1. slot' = [slot EXCEPT ![s] = Idle]
      BY <2>1 DEF CallRejects
    <3>. QED
      BY <1>0, <3>1, IdleFacts DEF CallRejects, AttemptsBounded, PickedBelow
  <2>2. CASE slot[s].pc \in {"read", "write"}
    <3>1. slot[s].job \notin Endless
      BY <2>2 DEF PickedBelow
    <3>2. slot' = [slot EXCEPT ![s].pc = "catch"]
      BY <2>2 DEF CallRejects
    <3>3. slot'[s].job = slot[s].job /\ \A t \in Slots : t # s => slot'[t] = slot[t]
      BY <1>0, <3>2 DEF Slot
    <3>. QED
      BY <3>1, <3>3 DEF CallRejects, AttemptsBounded, PickedBelow
  <2>. QED
    BY <2>1, <2>2 DEF CallRejects
<1>6. CASE Crash
  BY <1>6, IdleFacts DEF Crash, AttemptsBounded, PickedBelow
<1>. QED
  BY <1>1, <1>2, <1>3, <1>4, <1>5, <1>6 DEF Next

\* A one-off job without a handler is tried until MaxAttempts + 1 failures are in its
\* history and no more, however many calls of checkForJobs execute it at once.
THEOREM AttemptsCorrect == Spec => []AttemptsBounded
<1>1. Init => AttemptsInv
  <2>. SUFFICES ASSUME Init PROVE AttemptsBounded /\ PickedBelow
    BY InitType DEF AttemptsInv
  <2>. QED
    BY IdleFacts, NumberAssumption DEF Init, AttemptsBounded, PickedBelow, Jobs, NoHistory
<1>2. AttemptsInv => AttemptsBounded
  BY DEF AttemptsInv
<1>. QED
  BY <1>1, <1>2, NextAttempts, PTL DEF Spec

-----------------------------------------------------------------------------
(* The counts.  They are inductive together with the same bounds on every  *)
(* copy that a call of checkForJobs works on: what was settled only grows.  *)

Bounded(n, h, j) ==
    /\ n <= settled[j]
    /\ settled[j] < MaxCount => Sum(h) <= settled[j]

CountsBounded == \A j \in Jobs : Bounded(jobs[j].counter, jobs[j].history, j)

CopiesBounded ==
    \A s \in Slots : /\ Bounded(slot[s].counter, slot[s].old, slot[s].job)
                     /\ Bounded(slot[s].counter, slot[s].read, slot[s].job)

CountsInv == TypeOK /\ CountsBounded /\ CopiesBounded

\* A result adds one to what is settled, and at most one to the counts of its copy.
LEMMA SettledGrows ==
    ASSUME TypeOK, NEW j \in Jobs, settled' = [settled EXCEPT ![j] = Up(@)]
    PROVE  /\ \A k \in Jobs : \A n \in 0..MaxCount, h \in History :
                 Bounded(n, h, k) => n <= settled'[k] /\ (settled'[k] < MaxCount => Sum(h) <= settled'[k])
           /\ \A n \in 0..MaxCount, h \in History, ok \in BOOLEAN : Bounded(n, h, j) =>
                 /\ Up(n) <= settled'[j]
                 /\ settled'[j] < MaxCount => Sum(Append(h, ok)) <= settled'[j]
<1>1. \A k \in Jobs : settled[k] \in 0..MaxCount
                      /\ settled'[k] = IF k = j THEN Up(settled[k]) ELSE settled[k]
  BY DEF TypeOK
<1>2. \A h \in History, ok \in BOOLEAN :
          Sum(h) \in Nat /\ Sum(Append(h, ok)) \in Nat /\ Sum(Append(h, ok)) <= Sum(h) + 1
  BY AppendFacts
<1>3. settled[j] <= Up(settled[j]) /\ Up(settled[j]) \in 0..MaxCount
      /\ (Up(settled[j]) < MaxCount => Up(settled[j]) = settled[j] + 1 /\ settled[j] < MaxCount)
      /\ \A n \in 0..settled[j] : Up(n) <= Up(settled[j])
  BY <1>1, UpFacts
<1>4. ASSUME NEW k \in Jobs, NEW n \in 0..MaxCount, NEW h \in History, Bounded(n, h, k)
      PROVE  n <= settled'[k] /\ (settled'[k] < MaxCount => Sum(h) <= settled'[k])
  <2>1. Sum(h) \in Nat /\ settled[k] \in 0..MaxCount /\ settled[j] \in 0..MaxCount
    BY <1>1, <1>2
  <2>2. n <= settled[k] /\ (settled[k] < MaxCount => Sum(h) <= settled[k])
    BY <1>4 DEF Bounded
  <2>3. CASE k = j
    <3>1. settled'[k] = Up(settled[j])
      BY <1>1, <2>3
    <3>. QED
      BY <1>3, <2>1, <2>2, <2>3, <3>1, NumberAssumption
  <2>4. CASE k # j
    <3>1. settled'[k] = settled[k]
      BY <1>1, <2>4
    <3>. QED
      BY <2>2, <3>1
  <2>. QED
    BY <2>3, <2>4
<1>5. ASSUME NEW n \in 0..MaxCount, NEW h \in History, NEW ok \in BOOLEAN, Bounded(n, h, j)
      PROVE  /\ Up(n) <= settled'[j]
             /\ settled'[j] < MaxCount => Sum(Append(h, ok)) <= settled'[j]
  <2>1. n \in 0..settled[j]
    BY <1>1, <1>5, NumberAssumption DEF Bounded
  <2>2. Sum(h) \in Nat /\ Sum(Append(h, ok)) \in Nat /\ Sum(Append(h, ok)) <= Sum(h) + 1
    BY <1>2
  <2>. QED
    BY <1>1, <1>3, <1>5, <2>1, <2>2, NumberAssumption DEF Bounded
<1>. QED
  BY <1>4, <1>5

\* The two actions that write a result.
LEMMA WriteCounts ==
    ASSUME CountsInv, NEW s \in Slots, WriteResult(s) \/ WriteFailure(s)
    PROVE  CountsBounded' /\ CopiesBounded'
<1>. DEFINE k == slot[s].job
            h == IF slot[s].pc = "write" THEN Append(slot[s].read, slot[s].result = "ok")
                                         ELSE Append(slot[s].old, FALSE)
<1>0. TypeOK /\ slot \in [Slots -> Slot] /\ jobs \in [Jobs -> Job] /\ k \in Jobs
      /\ slot[s].counter \in 0..MaxCount /\ slot[s].old \in History /\ slot[s].read \in History
  BY SlotFacts DEF CountsInv, TypeOK
<1>1. settled' = [settled EXCEPT ![k] = Up(@)] /\ slot' = [slot EXCEPT ![s] = Idle]
  BY DEF WriteResult, WriteFailure
<1>2. h \in History
  BY <1>0, AppendFacts
<1>3. Up(slot[s].counter) <= settled'[k] /\ (settled'[k] < MaxCount => Sum(h) <= settled'[k])
  BY <1>0, <1>1, SettledGrows DEF CountsInv, CopiesBounded
<1>4. \/ jobs' = [jobs EXCEPT ![k] = Updated(slot[s], h)]
      \/ jobs' = [jobs EXCEPT ![k].history = h]
  BY DEF WriteResult, WriteFailure
<1>5. Updated(slot[s], h).counter = Up(slot[s].counter) /\ Updated(slot[s], h).history = h
  BY <1>0, <1>2, UpdatedFacts
<1>6. \A j \in Jobs : jobs[j].counter \in 0..MaxCount /\ jobs[j].history \in History
  BY <1>0, JobFacts
<1>7. \A j \in Jobs : jobs[j].counter <= settled'[j]
          /\ (settled'[j] < MaxCount => Sum(jobs[j].history) <= settled'[j])
  BY <1>0, <1>1, <1>6, SettledGrows DEF CountsInv, CountsBounded
<1>. HIDE DEF k, h
<1>8. \A j \in Jobs : j # k => jobs'[j] = jobs[j]
  BY <1>0, <1>4
<1>9. jobs'[k].history = h /\ jobs'[k].counter \in {jobs[k].counter, Up(slot[s].counter)}
  <2>1. CASE jobs' = [jobs EXCEPT ![k] = Updated(slot[s], h)]
    BY <1>0, <1>5, <2>1
  <2>2. CASE jobs' = [jobs EXCEPT ![k].history = h]
    BY <1>0, <2>2 DEF Job
  <2>. QED
    BY <1>4, <2>1, <2>2
<1>10. CountsBounded'
  BY <1>0, <1>3, <1>7, <1>8, <1>9 DEF CountsBounded, Bounded
<1>11. CopiesBounded'
  <2>. SUFFICES ASSUME NEW t \in Slots
                PROVE  /\ Bounded(slot[t].counter, slot[t].old, slot[t].job)'
                       /\ Bounded(slot[t].counter, slot[t].read, slot[t].job)'
    BY DEF CopiesBounded
  <2>1. settled' \in [Jobs -> 0..MaxCount]
    <3>1. Up(settled[k]) \in 0..MaxCount
      BY <1>0, JobFacts, UpFacts
    <3>. QED
      BY <1>0, <1>1, <3>1 DEF TypeOK
  <2>2. CASE t = s
    <3>1. slot'[t] = Idle
      BY <1>0, <1>1, <2>2
    <3>. QED
      BY <2>1, <3>1, IdleFacts, NumberAssumption DEF Bounded
  <2>3. CASE t # s
    <3>1. slot'[t] = slot[t]
      BY <1>0, <1>1, <2>3
    <3>2. slot[t].job \in Jobs /\ slot[t].counter \in 0..MaxCount
          /\ slot[t].old \in History /\ slot[t].read \in History
      BY <1>0, SlotFacts
    <3>3. /\ Bounded(slot[t].counter, slot[t].old, slot[t].job)
          /\ Bounded(slot[t].counter, slot[t].read, slot[t].job)
      BY DEF CountsInv, CopiesBounded
    <3>. QED
      BY <1>0, <1>1, <3>1, <3>2, <3>3, SettledGrows DEF Bounded
  <2>. QED
    BY <2>2, <2>3
<1>. QED
  BY <1>10, <1>11

\* The other actions write no result: every copy they make is of a job.
LEMMA OtherCounts ==
    ASSUME CountsInv, settled' = settled,
           \A j \in Jobs : jobs'[j].counter = jobs[j].counter /\ jobs'[j].history = jobs[j].history,
           \A s \in Slots :
              \/ slot'[s] = Idle
              \/ /\ slot'[s].job \in Jobs
                 /\ slot'[s].counter = jobs[slot'[s].job].counter
                 /\ slot'[s].old = jobs[slot'[s].job].history /\ slot'[s].read = NoHistory
              \/ /\ slot'[s].job = slot[s].job /\ slot'[s].counter = slot[s].counter
                 /\ slot'[s].old = slot[s].old
                 /\ slot'[s].read \in {slot[s].read, jobs[slot[s].job].history}
    PROVE  CountsBounded' /\ CopiesBounded'
<1>1. CountsBounded'
  BY DEF CountsInv, CountsBounded, Bounded
<1>2. ASSUME NEW s \in Slots
      PROVE  /\ Bounded(slot[s].counter, slot[s].old, slot[s].job)'
             /\ Bounded(slot[s].counter, slot[s].read, slot[s].job)'
  <2>0. \A j \in Jobs : settled[j] \in 0..MaxCount
    BY DEF CountsInv, TypeOK
  <2>1. CASE slot'[s] = Idle
    BY <2>0, <2>1, IdleFacts, NumberAssumption DEF Bounded
  <2>2. CASE /\ slot'[s].job \in Jobs
             /\ slot'[s].counter = jobs[slot'[s].job].counter
             /\ slot'[s].old = jobs[slot'[s].job].history /\ slot'[s].read = NoHistory
    <3>1. Bounded(jobs[slot'[s].job].counter, jobs[slot'[s].job].history, slot'[s].job)
      BY <2>2 DEF CountsInv, CountsBounded
    <3>. QED
      BY <2>0, <2>2, <3>1, IdleFacts, NumberAssumption DEF Bounded
  <2>3. CASE /\ slot'[s].job = slot[s].job /\ slot'[s].counter = slot[s].counter
             /\ slot'[s].old = slot[s].old
             /\ slot'[s].read \in {slot[s].read, jobs[slot[s].job].history}
    <3>1. /\ Bounded(slot[s].counter, slot[s].old, slot[s].job)
          /\ Bounded(slot[s].counter, slot[s].read, slot[s].job)
      BY DEF CountsInv, CopiesBounded
    <3>2. Bounded(jobs[slot[s].job].counter, jobs[slot[s].job].history, slot[s].job)
      BY SlotFacts DEF CountsInv, CountsBounded
    <3>. QED
      BY <2>3, <3>1, <3>2 DEF Bounded
  <2>. QED
    BY <2>1, <2>2, <2>3
<1>. QED
  BY <1>1, <1>2 DEF CopiesBounded

LEMMA NextCounts == CountsInv /\ [Next]_vars => CountsInv'
<1>. SUFFICES ASSUME CountsInv, [Next]_vars PROVE CountsBounded' /\ CopiesBounded'
  BY NextType DEF CountsInv
<1>0. TypeOK /\ slot \in [Slots -> Slot] /\ jobs \in [Jobs -> Job]
      /\ \A s \in Slots : slot[s].job \in Jobs
  BY SlotFacts DEF CountsInv, TypeOK
<1>1. CASE \E j \in Jobs : CreateJob(j) \/ CancelJob(j)
  <2>1. \A j \in Jobs : jobs'[j].counter = jobs[j].counter /\ jobs'[j].history = jobs[j].history
    BY <1>0, <1>1 DEF CreateJob, CancelJob, Job
  <2>. QED
    BY <1>1, <2>1, OtherCounts DEF CreateJob, CancelJob
<1>2. CASE Tick \/ Crash \/ UNCHANGED vars
  BY <1>2, OtherCounts DEF Tick, Crash, vars
<1>3. CASE \E s \in Slots : SlotStep(s)
  <2>. PICK s \in Slots : SlotStep(s)
    BY <1>3
  <2>1. CASE ClaimJob(s)
    <3>1. \A j \in Jobs : jobs'[j].counter = jobs[j].counter /\ jobs'[j].history = jobs[j].history
      BY <1>0, <2>1 DEF ClaimJob, Job
    <3>2. \A t \in Slots : slot'[t].job = slot[t].job /\ slot'[t].counter = slot[t].counter
                           /\ slot'[t].old = slot[t].old /\ slot'[t].read = slot[t].read
      BY <1>0, <2>1 DEF ClaimJob, Slot
    <3>. QED
      BY <2>1, <3>1, <3>2, OtherCounts DEF ClaimJob
  <2>2. CASE ReadHistory(s)
    <3>1. \A t \in Slots : slot'[t].job = slot[t].job /\ slot'[t].counter = slot[t].counter
                           /\ slot'[t].old = slot[t].old
                           /\ slot'[t].read \in {slot[t].read, jobs[slot[t].job].history}
      BY <1>0, <2>2 DEF ReadHistory, Slot
    <3>. QED
      BY <2>2, <3>1, OtherCounts DEF ReadHistory
  <2>3. CASE ActionThrows(s)
    <3>1. \A t \in Slots : slot'[t].job = slot[t].job /\ slot'[t].counter = slot[t].counter
                           /\ slot'[t].old = slot[t].old /\ slot'[t].read = slot[t].read
      BY <1>0, <2>3 DEF ActionThrows, Slot
    <3>. QED
      BY <2>3, <3>1, OtherCounts DEF ActionThrows
  <2>4. CASE \E ok \in BOOLEAN : ActionReturns(s, ok)
    <3>. PICK ok \in BOOLEAN : ActionReturns(s, ok)
      BY <2>4
    <3>1. \A t \in Slots : slot'[t].job = slot[t].job /\ slot'[t].counter = slot[t].counter
                           /\ slot'[t].old = slot[t].old /\ slot'[t].read = slot[t].read
      <4>. DEFINE r == IF ok THEN "ok" ELSE "failed"
      <4>1. slot' = [slot EXCEPT ![s].pc = "read", ![s].result = r, ![s].at = now]
        BY DEF ActionReturns
      <4>. HIDE DEF r
      <4>. QED
        BY <1>0, <4>1 DEF Slot
    <3>. QED
      BY <3>1, OtherCounts DEF ActionReturns
  <2>. QED
    BY <2>1, <2>2, <2>3, <2>4, WriteCounts DEF SlotStep
<1>4. CASE \E s \in Slots : Poll(s)
  <2>. PICK s \in Slots, j \in Jobs : FindNextJob(s, j)
    BY <1>4 DEF Poll
  <2>. DEFINE pc == IF j \in Recurring THEN "claim" ELSE "run"
  <2>1. Picked(s, j, pc) /\ pc \in {"claim", "run"} /\ jobs' = jobs /\ settled' = settled
    BY DEF FindNextJob
  <2>. HIDE DEF pc
  <2>2. /\ \A t \in Slots : t # s => slot'[t] = slot[t]
        /\ slot'[s].job = j /\ slot'[s].old = jobs[j].history
        /\ slot'[s].counter = jobs[j].counter /\ slot'[s].read = NoHistory
    BY <1>0, <2>1, PickedFacts
  <2>. QED
    BY <2>1, <2>2, OtherCounts
<1>5. CASE \E s \in Slots : CallRejects(s)
  <2>. PICK s \in Slots : CallRejects(s)
    BY <1>5
  <2>1. \A t \in Slots : \/ slot'[t] = Idle
                         \/ /\ slot'[t].job = slot[t].job /\ slot'[t].counter = slot[t].counter
                            /\ slot'[t].old = slot[t].old /\ slot'[t].read = slot[t].read
    BY <1>0 DEF CallRejects, Slot
  <2>. QED
    BY <2>1, OtherCounts DEF CallRejects
<1>. QED
  BY <1>1, <1>2, <1>3, <1>4, <1>5 DEF Next

\* counter and history count no execution that wrote no result, although both are
\* computed from copies (checkForJobs).
THEOREM CountsCorrect == Spec => []NeverOvercounts
<1>1. Init => CountsInv
  <2>. SUFFICES ASSUME Init PROVE CountsBounded /\ CopiesBounded
    BY InitType DEF CountsInv
  <2>. QED
    BY IdleFacts, NumberAssumption DEF Init, CountsBounded, CopiesBounded, Bounded
<1>2. CountsInv => NeverOvercounts
  BY DEF CountsInv, CountsBounded, Bounded, NeverOvercounts, Sum
<1>. QED
  BY <1>1, <1>2, NextCounts, PTL DEF Spec

-----------------------------------------------------------------------------
(* The scheduler implements JobLedger.  One invariant is needed: only the  *)
(* execution of a recurring job writes PENDING when it claims its job.     *)

ClaimsRecurring == \A s \in Slots : slot[s].pc = "claim" => slot[s].job \in Recurring

LedgerInv == TypeOK /\ ClaimsRecurring

\* The steps of a call that goes on.
LEMMA StepKeeps ==
    ASSUME TypeOK, NEW s \in Slots,
           ReadHistory(s) \/ ActionThrows(s) \/ \E ok \in BOOLEAN : ActionReturns(s, ok)
    PROVE  /\ jobs' = jobs
           /\ slot[s].pc # "idle" /\ slot'[s].pc \in {"write", "catch", "read"}
           /\ slot'[s].job = slot[s].job
           /\ \A t \in Slots : t # s => slot'[t] = slot[t]
<1>0. slot \in [Slots -> Slot]
  BY DEF TypeOK
<1>1. CASE ReadHistory(s)
  BY <1>0, <1>1 DEF ReadHistory, Slot
<1>2. CASE ActionThrows(s)
  BY <1>0, <1>2 DEF ActionThrows, Slot
<1>3. CASE \E ok \in BOOLEAN : ActionReturns(s, ok)
  <2>. PICK ok \in BOOLEAN : ActionReturns(s, ok)
    BY <1>3
  <2>. DEFINE r == IF ok THEN "ok" ELSE "failed"
  <2>1. slot' = [slot EXCEPT ![s].pc = "read", ![s].result = r, ![s].at = now]
        /\ slot[s].pc = "run" /\ jobs' = jobs
    BY DEF ActionReturns
  <2>. HIDE DEF r
  <2>. QED
    BY <1>0, <2>1 DEF Slot
<1>. QED
  BY <1>1, <1>2, <1>3

LEMMA NextLedgerInv == LedgerInv /\ [Next]_vars => LedgerInv'
<1>. SUFFICES ASSUME LedgerInv, [Next]_vars PROVE ClaimsRecurring'
  BY NextType DEF LedgerInv
<1>0. TypeOK /\ slot \in [Slots -> Slot]
  BY DEF LedgerInv, TypeOK
<1>. USE DEF LedgerInv
<1>1. CASE \E s \in Slots : SlotStep(s)
  <2>. PICK s \in Slots : SlotStep(s)
    BY <1>1
  <2>1. slot'[s].pc # "claim" /\ \A t \in Slots : t # s => slot'[t] = slot[t]
    <3>1. CASE ClaimJob(s)
      BY <1>0, <3>1 DEF ClaimJob, Slot
    <3>2. CASE WriteResult(s) \/ WriteFailure(s)
      BY <1>0, <3>2, IdleFacts DEF WriteResult, WriteFailure
    <3>. QED
      BY <1>0, <3>1, <3>2, StepKeeps DEF SlotStep
  <2>. QED
    BY <2>1 DEF ClaimsRecurring
<1>2. CASE \E s \in Slots : Poll(s)
  <2>. PICK s \in Slots, j \in Jobs : FindNextJob(s, j)
    BY <1>2 DEF Poll
  <2>. DEFINE pc == IF j \in Recurring THEN "claim" ELSE "run"
  <2>1. Picked(s, j, pc) /\ pc \in {"claim", "run"} /\ (pc = "claim" => j \in Recurring)
    BY DEF FindNextJob
  <2>. HIDE DEF pc
  <2>2. /\ \A t \in Slots : t # s => slot'[t] = slot[t]
        /\ slot'[s].pc = pc /\ slot'[s].job = j
    BY <1>0, <2>1, PickedFacts
  <2>. QED
    BY <2>1, <2>2 DEF ClaimsRecurring
<1>3. CASE \E s \in Slots : CallRejects(s)
  <2>1. \A t \in Slots : slot'[t] = slot[t] \/ slot'[t].pc # "claim"
    BY <1>0, <1>3, IdleFacts DEF CallRejects, Slot
  <2>. QED
    BY <2>1 DEF ClaimsRecurring
<1>4. CASE Tick \/ Crash \/ UNCHANGED vars \/ \E j \in Jobs : CreateJob(j) \/ CancelJob(j)
  BY <1>4, IdleFacts DEF Tick, Crash, vars, CreateJob, CancelJob, ClaimsRecurring
<1>. QED
  BY <1>1, <1>2, <1>3, <1>4 DEF Next

PhaseOf(status) == IF status = "ABSENT" THEN "new"
                   ELSE IF status = "PENDING" THEN "open" ELSE "closed"

LEMMA PhaseIs ==
    /\ Phase = [j \in OneOff |-> PhaseOf(jobs[j].status)]
    /\ Phase' = [j \in OneOff |-> PhaseOf(jobs'[j].status)]
  BY DEF Phase, PhaseOf

LEMMA PhaseSame ==
    ASSUME \A j \in OneOff : jobs'[j].status = jobs[j].status
    PROVE  Phase' = Phase
  BY PhaseIs

LEMMA PhaseClosed ==
    ASSUME NEW j \in OneOff, jobs'[j].status \in {"CANCELLED", "FINISHED", "ERROR"},
           \A k \in OneOff : k # j => jobs'[k].status = jobs[k].status
    PROVE  Phase' = [Phase EXCEPT ![j] = "closed"]
  BY PhaseIs DEF PhaseOf

LEMMA LiveIs ==
    /\ Live = [j \in OneOff |-> {s \in Slots : slot[s].pc # "idle" /\ slot[s].job = j}]
    /\ Live' = [j \in OneOff |-> {s \in Slots : slot'[s].pc # "idle" /\ slot'[s].job = j}]
  BY DEF Live, Busy

LEMMA LiveSame ==
    ASSUME \A s \in Slots : \/ slot'[s] = slot[s]
                            \/ /\ slot[s].pc # "idle" /\ slot'[s].pc # "idle"
                               /\ slot'[s].job = slot[s].job
    PROVE  Live' = Live
<1>1. \A j \in OneOff : Live'[j] = Live[j]
  BY LiveIs
<1>. QED
  BY <1>1, LiveIs

\* A call that ends leaves the slots that execute its job, a call that picks joins them.
LEMMA LiveFreed ==
    ASSUME slot \in [Slots -> Slot], NEW s \in Slots, slot[s].pc # "idle",
           slot' = [slot EXCEPT ![s] = Idle]
    PROVE  IF slot[s].job \in OneOff
           THEN s \in Live[slot[s].job]
                /\ Live' = [Live EXCEPT ![slot[s].job] = @ \ {s}]
           ELSE Live' = Live
<1>1. slot'[s].pc = "idle" /\ \A t \in Slots : t # s => slot'[t] = slot[t]
  BY IdleFacts
<1>2. \A j \in OneOff : Live'[j] = IF j = slot[s].job THEN Live[j] \ {s} ELSE Live[j]
  BY <1>1, LiveIs
<1>3. slot[s].job \in OneOff => s \in Live[slot[s].job]
  BY LiveIs
<1>4. DOMAIN Live = OneOff /\ DOMAIN Live' = OneOff /\ Live = [j \in OneOff |-> Live[j]]
      /\ Live' = [j \in OneOff |-> Live'[j]]
  BY LiveIs
<1>5. CASE slot[s].job \in OneOff
  BY <1>2, <1>3, <1>4, <1>5
<1>6. CASE slot[s].job \notin OneOff
  <2>1. \A j \in OneOff : Live'[j] = Live[j]
    BY <1>2, <1>6
  <2>. QED
    BY <1>4, <1>6, <2>1
<1>. QED
  BY <1>5, <1>6

LEMMA LiveJoined ==
    ASSUME NEW s \in Slots, NEW j \in Jobs, slot[s].pc = "idle",
           slot'[s].pc # "idle", slot'[s].job = j,
           \A t \in Slots : t # s => slot'[t] = slot[t]
    PROVE  IF j \in OneOff
           THEN (\A k \in OneOff : s \notin Live[k])
                /\ Live' = [Live EXCEPT ![j] = @ \cup {s}]
           ELSE Live' = Live
<1>1. \A k \in OneOff : Live'[k] = IF k = j THEN Live[k] \cup {s} ELSE Live[k]
  BY LiveIs
<1>2. \A k \in OneOff : s \notin Live[k]
  BY LiveIs
<1>3. DOMAIN Live = OneOff /\ DOMAIN Live' = OneOff /\ Live = [k \in OneOff |-> Live[k]]
      /\ Live' = [k \in OneOff |-> Live'[k]]
  BY LiveIs
<1>4. CASE j \in OneOff
  BY <1>1, <1>2, <1>3, <1>4
<1>5. CASE j \notin OneOff
  <2>1. \A k \in OneOff : Live'[k] = Live[k]
    BY <1>1, <1>5
  <2>. QED
    BY <1>3, <1>5, <2>1
<1>. QED
  BY <1>4, <1>5

LEMMA LedgerSlotStep ==
    ASSUME LedgerInv, NEW s \in Slots, SlotStep(s)
    PROVE  Ledger!Next \/ UNCHANGED <<Phase, Live>>
<1>0. TypeOK /\ slot \in [Slots -> Slot] /\ jobs \in [Jobs -> Job] /\ slot[s].job \in Jobs
      /\ OneOff \subseteq Jobs
  BY SlotFacts DEF LedgerInv, TypeOK, Jobs
<1>1. CASE ClaimJob(s)
  <2>1. slot[s].job \notin OneOff
    BY <1>1, KindAssumption DEF LedgerInv, ClaimsRecurring, ClaimJob
  <2>2. \A j \in OneOff : jobs'[j] = jobs[j]
    BY <1>0, <1>1, <2>1 DEF ClaimJob
  <2>3. \A t \in Slots : slot'[t] = slot[t] \/ (slot[t].pc # "idle" /\ slot'[t].pc # "idle"
                                               /\ slot'[t].job = slot[t].job)
    BY <1>0, <1>1 DEF ClaimJob, Slot
  <2>. QED
    BY <2>2, <2>3, PhaseSame, LiveSame
<1>2. CASE ReadHistory(s) \/ ActionThrows(s) \/ \E ok \in BOOLEAN : ActionReturns(s, ok)
  BY <1>0, <1>2, StepKeeps, PhaseSame, LiveSame
<1>3. CASE WriteResult(s) \/ WriteFailure(s)
  <2>. DEFINE j == slot[s].job
              h == IF slot[s].pc = "write" THEN Append(slot[s].read, slot[s].result = "ok")
                                           ELSE Append(slot[s].old, FALSE)
  <2>1. slot' = [slot EXCEPT ![s] = Idle] /\ slot[s].pc # "idle"
    BY <1>3 DEF WriteResult, WriteFailure
  <2>2. h \in History
    BY <1>0, SlotFacts, AppendFacts
  <2>3. \/ jobs' = [jobs EXCEPT ![j] = Updated(slot[s], h)]
        \/ jobs' = [jobs EXCEPT ![j].history = h]
    BY <1>3 DEF WriteResult, WriteFailure
  <2>4. j \in OneOff => Updated(slot[s], h).status \in {"FINISHED", "ERROR"}
    BY <1>0, <2>2, UpdatedFacts, KindAssumption
  <2>5. IF j \in OneOff THEN s \in Live[j] /\ Live' = [Live EXCEPT ![j] = @ \ {s}]
                        ELSE Live' = Live
    BY <1>0, <2>1, LiveFreed
  <2>. HIDE DEF j, h
  <2>6. \A k \in Jobs : k # j => jobs'[k] = jobs[k]
    BY <1>0, <2>3
  <2>7. j \in Jobs
    BY <1>0 DEF j
  <2>8. CASE j \notin OneOff
    <3>1. Phase' = Phase
      BY <1>0, <2>6, <2>8, PhaseSame
    <3>. QED
      BY <2>5, <2>8, <3>1
  <2>9. CASE j \in OneOff
    <3>1. jobs'[j].status \in {jobs[j].status, "FINISHED", "ERROR"}
      BY <1>0, <2>3, <2>4, <2>7, <2>9 DEF Job
    <3>2. Phase' \in {Phase, [Phase EXCEPT ![j] = "closed"]}
      <4>1. CASE jobs'[j].status = jobs[j].status
        BY <1>0, <2>6, <4>1, PhaseSame
      <4>2. CASE jobs'[j].status \in {"FINISHED", "ERROR"}
        BY <1>0, <2>6, <2>9, <4>2, PhaseClosed
      <4>. QED
        BY <3>1, <4>1, <4>2
    <3>3. Ledger!End(j, s)
      BY <2>5, <2>9, <3>2 DEF Ledger!End
    <3>. QED
      BY <2>9, <3>3 DEF Ledger!Next
  <2>. QED
    BY <2>8, <2>9
<1>. QED
  BY <1>1, <1>2, <1>3 DEF SlotStep

LEMMA LedgerStep == LedgerInv /\ [Next]_vars => [Ledger!Next]_<<Phase, Live>>
<1>. SUFFICES ASSUME LedgerInv, [Next]_vars PROVE Ledger!Next \/ UNCHANGED <<Phase, Live>>
  OBVIOUS
<1>0. TypeOK /\ slot \in [Slots -> Slot] /\ jobs \in [Jobs -> Job] /\ OneOff \subseteq Jobs
  BY DEF LedgerInv, TypeOK, Jobs
<1>1. CASE \E j \in Jobs : CreateJob(j)
  <2>. PICK j \in Jobs : CreateJob(j)
    BY <1>1
  <2>1. jobs[j].status = "ABSENT" /\ jobs'[j].status = "PENDING"
        /\ (\A k \in Jobs : k # j => jobs'[k] = jobs[k]) /\ slot' = slot
    BY <1>0 DEF CreateJob, Job
  <2>2. Live' = Live
    BY <2>1, LiveSame
  <2>3. CASE j \in OneOff
    <3>1. Phase[j] = "new" /\ Phase' = [Phase EXCEPT ![j] = "open"]
      BY <1>0, <2>1, <2>3, PhaseIs DEF PhaseOf
    <3>2. Ledger!Open(j)
      BY <2>2, <3>1 DEF Ledger!Open
    <3>. QED
      BY <2>3, <3>2 DEF Ledger!Next
  <2>4. CASE j \notin OneOff
    BY <1>0, <2>1, <2>2, <2>4, PhaseSame
  <2>. QED
    BY <2>3, <2>4
<1>2. CASE \E j \in Jobs : CancelJob(j)
  <2>. PICK j \in Jobs : CancelJob(j)
    BY <1>2
  <2>1. jobs[j].status = "PENDING" /\ jobs'[j].status = "CANCELLED"
        /\ (\A k \in Jobs : k # j => jobs'[k] = jobs[k]) /\ slot' = slot
    BY <1>0 DEF CancelJob, Job
  <2>2. Live' = Live
    BY <2>1, LiveSame
  <2>3. CASE j \in OneOff
    <3>1. Phase[j] = "open" /\ Phase' = [Phase EXCEPT ![j] = "closed"]
      BY <1>0, <2>1, <2>3, PhaseIs, PhaseClosed DEF PhaseOf
    <3>2. Ledger!Close(j)
      BY <2>2, <3>1 DEF Ledger!Close
    <3>. QED
      BY <2>3, <3>2 DEF Ledger!Next
  <2>4. CASE j \notin OneOff
    BY <1>0, <2>1, <2>2, <2>4, PhaseSame
  <2>. QED
    BY <2>3, <2>4
<1>3. CASE \E s \in Slots : SlotStep(s)
  BY <1>3, LedgerSlotStep
<1>4. CASE \E s \in Slots : Poll(s)
  <2>. PICK s \in Slots, j \in Jobs : FindNextJob(s, j)
    BY <1>4 DEF Poll
  <2>. DEFINE pc == IF j \in Recurring THEN "claim" ELSE "run"
  <2>1. Picked(s, j, pc) /\ pc \in {"claim", "run"} /\ jobs' = jobs
        /\ slot[s].pc = "idle" /\ jobs[j].status = "PENDING"
    BY DEF FindNextJob, Available
  <2>. HIDE DEF pc
  <2>2. /\ \A t \in Slots : t # s => slot'[t] = slot[t]
        /\ slot'[s].pc # "idle" /\ slot'[s].job = j
    BY <1>0, <2>1, PickedFacts
  <2>3. Phase' = Phase /\ (j \in OneOff => Phase[j] = "open")
    BY <2>1, PhaseSame, PhaseIs DEF PhaseOf
  <2>4. IF j \in OneOff
        THEN (\A k \in OneOff : s \notin Live[k]) /\ Live' = [Live EXCEPT ![j] = @ \cup {s}]
        ELSE Live' = Live
    BY <2>1, <2>2, LiveJoined
  <2>5. j \in OneOff => Ledger!Begin(j, s)
    BY <2>3, <2>4 DEF Ledger!Begin
  <2>. QED
    BY <2>3, <2>4, <2>5 DEF Ledger!Next
<1>5. CASE \E s \in Slots : CallRejects(s)
  <2>. PICK s \in Slots : CallRejects(s)
    BY <1>5
  <2>1. jobs' = jobs /\ Phase' = Phase
    BY PhaseSame DEF CallRejects
  <2>2. CASE slot[s].pc \in {"claim", "catch"}
    <3>1. slot' = [slot EXCEPT ![s] = Idle] /\ slot[s].pc # "idle"
      BY <2>2 DEF CallRejects
    <3>2. IF slot[s].job \in OneOff
          THEN s \in Live[slot[s].job] /\ Live' = [Live EXCEPT ![slot[s].job] = @ \ {s}]
          ELSE Live' = Live
      BY <1>0, <3>1, LiveFreed
    <3>3. slot[s].job \in OneOff => Ledger!End(slot[s].job, s)
      BY <2>1, <3>2 DEF Ledger!End
    <3>. QED
      BY <2>1, <3>2, <3>3 DEF Ledger!Next
  <2>3. CASE slot[s].pc \in {"read", "write"}
    <3>1. \A t \in Slots : slot'[t] = slot[t] \/ (slot[t].pc # "idle" /\ slot'[t].pc # "idle"
                                                 /\ slot'[t].job = slot[t].job)
      BY <1>0, <2>3 DEF CallRejects, Slot
    <3>. QED
      BY <2>1, <3>1, LiveSame
  <2>. QED
    BY <2>2, <2>3 DEF CallRejects
<1>6. CASE Crash
  <2>1. Phase' = Phase
    BY <1>6, PhaseSame DEF Crash
  <2>2. Live' = [j \in OneOff |-> {}]
    BY <1>6, LiveIs, IdleFacts DEF Crash
  <2>. QED
    BY <2>1, <2>2 DEF Ledger!Next, Ledger!Crash
<1>7. CASE Tick \/ UNCHANGED vars
  <2>1. jobs' = jobs /\ slot' = slot
    BY <1>7 DEF Tick, vars
  <2>. QED
    BY <2>1, PhaseSame, LiveSame
<1>. QED
  BY <1>1, <1>2, <1>3, <1>4, <1>5, <1>6, <1>7 DEF Next

\* The scheduler implements the ledger for its one-off jobs: none is executed anew once
\* it has a result or is cancelled, and no late result opens it again.
THEOREM LedgerImplemented == Spec => ImplementsLedger
<1>1. Init => LedgerInv /\ Ledger!Init
  <2>. SUFFICES ASSUME Init PROVE ClaimsRecurring /\ Ledger!Init
    BY InitType DEF LedgerInv
  <2>1. Phase = [j \in OneOff |-> "new"] /\ Live = [j \in OneOff |-> {}]
    BY PhaseIs, LiveIs, IdleFacts DEF Init, PhaseOf, Jobs
  <2>. QED
    BY <2>1, IdleFacts DEF Init, ClaimsRecurring, Ledger!Init
<1>2. LedgerInv /\ [Next]_vars => [Ledger!Next]_Ledger!vars
  BY LedgerStep DEF Ledger!vars
<1>. QED
  BY <1>1, <1>2, NextLedgerInv, PTL DEF Spec, ImplementsLedger, Ledger!Spec
=============================================================================
