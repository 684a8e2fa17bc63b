---------------------------- MODULE LogThrottler ----------------------------
(***************************************************************************)
(* Repeated errors of the monitor of instances, logged now and then        *)
(* (logThrottler.ts, lxdMonitorHandler.ts).                                *)
(*                                                                         *)
(* What the monitor finds of an instance is chosen here; what it writes to *)
(* the instance's document is in module LxdInstances.                      *)
(***************************************************************************)
EXTENDS Integers

CONSTANTS
    Instances,
    Usual,      \* the options by default
    Patient,    \* those for an instance LXD does not know
    Location,   \* those for a location that could not be determined
    Aggregate,  \* ... because every attempt to connect failed
    MaxNow,     \* bound on the time that passes
    MaxOccurred,\* bound on the occurrences of errors
    Null

Options == [initial : Nat, subsequent : Nat, max : Nat, summarize : Nat]

\* What the constants are meant to be: errors of long standing are logged
\* less often.
ConstantsOK ==
    /\ \A o \in {Usual, Patient, Location, Aggregate} :
         o \in Options /\ o.initial <= o.subsequent
    /\ MaxNow \in Nat /\ MaxOccurred \in Nat

VARIABLES
    records, \* errorRecords
    minute,  \* the time
    occurred,
    told,    \* was the last occurrence of each error logged, and by which options?
    since    \* when each instance was last found well, or the start

throttling == <<records, minute, occurred, told, since>>

-----------------------------------------------------------------------------

\* Errors with a key of their own for each instance.
Errors == {"instance-not-found", "location-error", "host-ip-error", "state-not-found",
           "state-error", "instance-state-null", "unexpected-error"}
Keys == Errors \X Instances
Record == [count : 1..MaxOccurred, lastLogged : 0..MaxNow, firstSeen : 0..MaxNow]

Init ==
    /\ records = [k \in Keys |-> Null]
    /\ minute = 0 /\ occurred = 0
    /\ told = [k \in Keys |-> Null]
    /\ since = [i \in Instances |-> 0]

\* throttledLog: when an occurrence that is not the first is logged.
\* Mutant of ShouldLog: once it is too often, only a summary.
ShouldLogSummary(r, o) ==
    \/ r.count <= o.max /\ minute - r.lastLogged >= o.initial
    \/ /\ minute - r.firstSeen >= o.summarize
       /\ minute - r.lastLogged >= o.summarize
ShouldLog(r, o) ==
    \/ minute - r.lastLogged >= (IF r.count <= o.max THEN o.initial ELSE o.subsequent)
    \/ /\ minute - r.firstSeen >= o.summarize
       /\ minute - r.lastLogged >= o.summarize

\* The record after one more occurrence.
Counted(r) == IF r = Null THEN [count |-> 1, lastLogged |-> 0, firstSeen |-> minute]
              ELSE [r EXCEPT !.count = @ + 1]

ThrottledLog(k, o) ==
    LET r == Counted(records[k])
        logs == r.count = 1 \/ ShouldLog(r, o)
    IN  /\ occurred < MaxOccurred
        /\ occurred' = occurred + 1
        /\ records' = [records EXCEPT ![k] = IF logs THEN [r EXCEPT !.lastLogged = minute] ELSE r]
        /\ told' = [told EXCEPT ![k] = [at |-> minute, by |-> o]]
        /\ UNCHANGED <<minute, since>>

-----------------------------------------------------------------------------
(* The monitor looks after one instance (updateInstanceState).             *)

\* LXD does not say where the instance is (getInstanceLocationWithErrorHandling).
NoLocation(i) ==
    \E o \in {Location, Aggregate}, e \in {"instance-not-found", "location-error"} :
        ThrottledLog(<<e, i>>, o)

\* It does not say the address of that host (getInstanceHostIpWithErrorHandling).
NoHostIp(i) == ThrottledLog(<<"host-ip-error", i>>, Usual)

\* It does not tell the state (getInstanceStateWithErrorHandling).
NoState(i) ==
    \/ ThrottledLog(<<"state-not-found", i>>, Patient)
    \/ ThrottledLog(<<"state-error", i>>, Usual)

\* There is no state in its answer, or it cannot be written.
NoData(i) ==
    \E e \in {"instance-state-null", "unexpected-error"} : ThrottledLog(<<e, i>>, Usual)

\* All went well (resetErrorCounts): what was counted is forgotten, but for
\* the answers without a state.
ResetErrors == Errors \ {"instance-state-null"}
FoundWell(i) ==
    LET forgotten == ResetErrors \X {i}
    IN  /\ records' = [k \in Keys |-> IF k \in forgotten THEN Null ELSE records[k]]
        /\ told' = [k \in Keys |-> IF k \in forgotten THEN Null ELSE told[k]]
        /\ since' = [since EXCEPT ![i] = minute]
        /\ UNCHANGED <<minute, occurred>>

Tick ==
    /\ minute < MaxNow
    /\ minute' = minute + 1
    /\ UNCHANGED <<records, occurred, told, since>>

Next ==
    \/ \E i \in Instances :
         NoLocation(i) \/ NoHostIp(i) \/ NoState(i) \/ NoData(i) \/ FoundWell(i)
    \/ Tick

Spec == Init /\ [][Next]_throttling

-----------------------------------------------------------------------------
(* Properties.                                                             *)

\* Type invariant.
TypeOK ==
    /\ records \in [Keys -> Record \cup {Null}]
    /\ minute \in 0..MaxNow /\ occurred \in 0..MaxOccurred
    /\ told \in [Keys -> [at : 0..MaxNow, by : {Usual, Patient, Location, Aggregate}] \cup {Null}]
    /\ since \in [Instances -> 0..MaxNow]

\* An error that goes on is never silent for long: whenever it occurs, it is
\* logged or was less than the longer of the two intervals ago, though the
\* intervals of one error change with its cause and the record of the first
\* occurrence starts with no time of a log (throttledLog).
NeverSilentLong ==
    \A k \in Keys : told[k] # Null =>
        told[k].at - records[k].lastLogged < told[k].by.subsequent \/ records[k].lastLogged = told[k].at

\* What a line says of the times an error occurred is about the time since
\* the instance was last found well (resetErrorCounts), except for answers
\* without a state, which are counted from the first one ever.
CountedSinceWell ==
    \A k \in ResetErrors \X Instances :
        records[k] # Null => records[k].firstSeen >= since[k[2]]

\* All of it: an error that lasts is told of, and counted from where it began.
ErrorsTold == NeverSilentLong /\ CountedSinceWell
=============================================================================
