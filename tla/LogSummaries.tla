---------------------------- MODULE LogSummaries ----------------------------
(***************************************************************************)
(* The statistics of the log of calls (getLogsSummary in logCore.ts): two  *)
(* aggregations of one call, one by event and one by requester, while      *)
(* calls go on being logged.  Means and deviations of the times calls took *)
(* are left out.                                                           *)
(***************************************************************************)
EXTENDS Integers, Sequences, FiniteSets

CONSTANTS
    Events, Requesters,
    Day,      \* the length of a day
    Days,     \* the days a summary is about, thirty
    MaxLogs,  \* bound on the calls logged
    MaxHours, \* bound on the time that passes
    Null

\* What the constants are meant to be.
ConstantsOK ==
    /\ Day \in Nat \ {0} /\ Days \in Nat \ {0}
    /\ MaxLogs \in Nat /\ MaxHours \in Nat

VARIABLES
    logs,       \* log_collection
    hour,       \* the time
    asked,      \* when the summary was asked for, or Null
    byEvent, byRequester  \* its two parts, as far as it has come

summing == <<logs, hour, asked, byEvent, byRequester>>

-----------------------------------------------------------------------------

\* A failure has no timeConsumed.
Log == [event : Events, requester : Requesters, at : 0..MaxHours, timed : BOOLEAN]

Init ==
    /\ logs = <<>>
    /\ hour = 0
    /\ asked = Null /\ byEvent = Null /\ byRequester = Null

\* A call is logged.
LogCall ==
    /\ Len(logs) < MaxLogs
    /\ \E e \in Events, r \in Requesters, timed \in BOOLEAN :
         logs' = Append(logs, [event |-> e, requester |-> r, at |-> hour, timed |-> timed])
    /\ UNCHANGED <<hour, asked, byEvent, byRequester>>

Tick ==
    /\ hour < MaxHours
    /\ hour' = hour + 1
    /\ UNCHANGED <<logs, asked, byEvent, byRequester>>

\* $match
Start == asked - Days * Day
Matching == {l \in DOMAIN logs : logs[l].timed /\ logs[l].at >= Start}

\* $addFields: `dayIndex`.
\* Mutant of DayIndex: rounded to the nearest.
DayIndexRound(l) == (logs[l].at - Start + Day \div 2) \div Day
DayIndex(l) == (logs[l].at - Start) \div Day

\* $group by the field and the day, $group by the field, $project: the days
\* from 0 to Days - 1 with their numbers of calls.
Summary(field) ==
    LET Of(v) == {l \in Matching : logs[l][field] = v}
    IN  [v \in {logs[l][field] : l \in Matching} |->
            [count |-> Cardinality(Of(v)),
             daily |-> [d \in 0..Days - 1 |-> Cardinality({l \in Of(v) : DayIndex(l) = d})]]]

Ask ==
    /\ asked = Null
    /\ asked' = hour
    /\ UNCHANGED <<logs, hour, byEvent, byRequester>>

EventStatistics ==
    /\ asked # Null /\ byEvent = Null
    /\ byEvent' = Summary("event")
    /\ UNCHANGED <<logs, hour, asked, byRequester>>

RequesterStatistics ==
    /\ byEvent # Null /\ byRequester = Null
    /\ byRequester' = Summary("requester")
    /\ UNCHANGED <<logs, hour, asked, byEvent>>

\* The summary is answered.
Answer ==
    /\ byRequester # Null
    /\ asked' = Null /\ byEvent' = Null /\ byRequester' = Null
    /\ UNCHANGED <<logs, hour>>

Next == LogCall \/ Tick \/ Ask \/ EventStatistics \/ RequesterStatistics \/ Answer

Spec == Init /\ [][Next]_summing

-----------------------------------------------------------------------------
(* Properties.                                                             *)

Statistic == [count : Nat, daily : [0..Days - 1 -> Nat]]
Parts(summary, values) ==
    \/ summary = Null
    \/ /\ DOMAIN summary \subseteq values
       /\ \A v \in DOMAIN summary : summary[v] \in Statistic

\* Type invariant.
TypeOK ==
    /\ logs \in Seq(Log) /\ Len(logs) <= MaxLogs
    /\ hour \in 0..MaxHours
    /\ asked \in (0..MaxHours) \cup {Null}
    /\ Parts(byEvent, Events) /\ Parts(byRequester, Requesters)

\* The sum of a function to the naturals: what lies under its graph.
Total(f) == Cardinality(UNION {{x} \X (1..f[x]) : x \in DOMAIN f})

\* The days of a requester add up to the calls logged before the summary was
\* asked for; those logged since, while it was being made, count in the total
\* but belong to no day (dayIndex, $range).
DaysAddUp ==
    byRequester # Null =>
        \A r \in DOMAIN byRequester :
            Total(byRequester[r].daily) =
                Cardinality({l \in DOMAIN logs : /\ logs[l].requester = r /\ logs[l].timed
                                                 /\ logs[l].at >= Start /\ logs[l].at < asked})

Counted(statistics) == Total([v \in DOMAIN statistics |-> statistics[v].count])

\* The second part was made after the first, so that it counts no fewer calls.
SecondCountsMore ==
    byRequester # Null => Counted(byEvent) <= Counted(byRequester)

\* All of it: a summary made while calls are logged is off by those calls alone.
SummariesAddUp == DaysAddUp /\ SecondCountsMore
=============================================================================
