--------------------------- MODULE Authenticators ---------------------------
(***************************************************************************)
(* The authenticators of users (webauthnCore.ts).  A user's devices are a   *)
(* list inside one document of webauthn_collection, found by user and not   *)
(* by a unique index.  Options are asked for, the browser has a device sign *)
(* the challenge, and the answer comes back some time later, or never, in   *)
(* any order; the handlers read the document, verify, and write the whole   *)
(* list back.                                                               *)
(*                                                                         *)
(* Left out: origins and transports, the time of a challenge (never read),  *)
(* the session that a login opens.  A device is the pair of its credential  *)
(* and the id it is given; the browser sends an answer once.                *)
(***************************************************************************)
EXTENDS Naturals, Sequences

CONSTANTS
    Users, Devices,
    Counting,   \* devices that count their signatures; others always sign with 0
    Requests,   \* requests under way at the API server
    MaxAsked,   \* bound on challenges made
    MaxSigned,  \* bounds on the signatures of each device
    MaxFaults,  \* bound on failures
    Null

\* What the constants are meant to be.
ConstantsOK ==
    /\ Counting \subseteq Devices
    /\ MaxAsked \in Nat /\ MaxSigned \in [Devices -> Nat] /\ MaxFaults \in Nat
    /\ Null \notin Users \cup Devices /\ Null \notin [counter : Nat, named : BOOLEAN]

VARIABLES
    webauthn,  \* webauthn_collection: the documents of each user, oldest first
    asked,     \* challenges made so far
    signed,    \* signatures made by each device
    answers,   \* signed answers on their way from browsers
    req,       \* progress of each request
    faults,    \* failures so far
    expected,  \* each user's devices had every request run alone (history variable)
    clash      \* users two requests of whom overlapped (history variable)

vars == <<webauthn, asked, signed, answers, req, faults, expected, clash>>

-----------------------------------------------------------------------------

Maybe(S) == S \cup {Null}

Device == [counter : Nat, named : BOOLEAN]
List == [Devices -> Maybe(Device)]
Doc == [devices : List, challenge : Nat]
Answer == [user : Users, device : Devices, challenge : Nat, counter : Nat, new : BOOLEAN]

Steps == {"idle", "insert", "challenge", "register", "authenticate", "remove"}
Request == [pc : Steps, user : Maybe(Users), doc : Nat, list : List,
            device : Maybe(Devices), counter : Nat]

NoDevices == [d \in Devices |-> Null]
Idle == [pc |-> "idle", user |-> Null, doc |-> 0, list |-> NoDevices, device |-> Null,
         counter |-> 0]

Known(u) == webauthn[u] # <<>>
\* findOne({ userId }) and updateOne({ userId }) both meet the oldest document.
Found(u) == webauthn[u][1]
Listed(u, d) == Known(u) /\ Found(u).devices[d] # Null
Fresh(d) ==
    /\ \A a \in answers : a.device # d
    /\ \A q \in Requests : req[q].device # d
    /\ \A u \in Users : \A i \in 1..Len(webauthn[u]) : webauthn[u][i].devices[d] = Null

Init ==
    /\ webauthn = [u \in Users |-> <<>>]
    /\ asked = 0
    /\ signed = [d \in Devices |-> 0]
    /\ answers = {}
    /\ req = [q \in Requests |-> Idle]
    /\ faults = 0
    /\ expected = [u \in Users |-> NoDevices]
    /\ clash = {}

Overlap(u) == clash' = IF \E q \in Requests : req[q].user = u THEN clash \cup {u} ELSE clash

Begin(q, step, u, device, counter) ==
    /\ req[q].pc = "idle"
    /\ req' = [req EXCEPT ![q] = [pc |-> step, user |-> u, doc |-> 1,
                                  list |-> IF Known(u) THEN Found(u).devices ELSE NoDevices,
                                  device |-> device, counter |-> counter]]
    /\ Overlap(u)
    /\ UNCHANGED <<webauthn, asked, signed, faults, expected>>

At(q, step) == req[q].pc = step
Done(q) == req' = [req EXCEPT ![q] = Idle] /\ UNCHANGED <<signed, faults, clash>>

-----------------------------------------------------------------------------
(* Options.                                                                *)

RegistrationOptions(q, u) ==
    /\ asked < MaxAsked
    /\ Begin(q, IF Known(u) THEN "challenge" ELSE "insert", u, Null, 0)
    /\ UNCHANGED answers

\* The browser lets a device sign that is not registered yet, or nobody answers.
SignNew(u) ==
    \/ UNCHANGED answers
    \/ \E d \in Devices : Fresh(d) /\ answers' = answers \cup
         {[user |-> u, device |-> d, challenge |-> asked', counter |-> 0, new |-> TRUE]}

InsertDoc(q) ==
    LET u == req[q].user IN
    /\ At(q, "insert")
    /\ asked' = asked + 1
    /\ webauthn' = [webauthn EXCEPT ![u] = Append(@, [devices |-> NoDevices,
                                                       challenge |-> asked'])]
    /\ SignNew(u)
    /\ Done(q)
    /\ UNCHANGED expected

SetChallenge(q) ==
    LET u == req[q].user IN
    /\ At(q, "challenge")
    /\ asked' = asked + 1
    /\ webauthn' = [webauthn EXCEPT ![u][1].challenge = asked']
    /\ SignNew(u)
    /\ Done(q)
    /\ UNCHANGED expected

\* Handled by one read: the challenge is the one made for the last registration.
AuthenticationOptions(u, d) ==
    /\ Listed(u, d)
    /\ signed[d] < MaxSigned[d]
    /\ signed' = [signed EXCEPT ![d] = @ + 1]
    /\ answers' = answers \cup {[user |-> u, device |-> d, challenge |-> Found(u).challenge,
                                 counter |-> IF d \in Counting THEN signed'[d] ELSE 0,
                                 new |-> FALSE]}
    /\ UNCHANGED <<webauthn, asked, req, faults, expected, clash>>

-----------------------------------------------------------------------------
(* Answers.                                                                *)

\* An answer that does not verify is dropped.
Refuse(a) ==
    /\ answers' = answers \ {a}
    /\ UNCHANGED <<webauthn, asked, signed, req, faults, expected, clash>>

HandleRegistrationVerify(q, a) ==
    /\ a \in answers /\ a.new
    /\ IF Known(a.user) /\ Found(a.user).challenge = a.challenge
       THEN Begin(q, "register", a.user, a.device, a.counter) /\ answers' = answers \ {a}
       ELSE Refuse(a)

\* Mutant of AddDevice: the list is not the one that was read.
AddDeviceAlone(q) ==
    LET r == req[q]
        new == [counter |-> r.counter, named |-> FALSE]
    IN /\ At(q, "register")
       /\ webauthn' = [webauthn EXCEPT ![r.user][r.doc].devices =
                          [NoDevices EXCEPT ![r.device] = new]]
       /\ expected' = [expected EXCEPT ![r.user][r.device] = new]
       /\ Done(q)
       /\ UNCHANGED <<asked, answers>>

AddDevice(q) ==
    LET r == req[q]
        new == [counter |-> r.counter, named |-> FALSE]
    IN /\ At(q, "register")
       /\ webauthn' = [webauthn EXCEPT ![r.user][r.doc].devices =
                          [r.list EXCEPT ![r.device] = new]]
       /\ expected' = [expected EXCEPT ![r.user][r.device] = new]
       /\ Done(q)
       /\ UNCHANGED <<asked, answers>>

\* verifyAuthenticationResponse: devices that do not count are let through.
CounterFits(counter, stored) == counter > stored \/ (counter = 0 /\ stored = 0)

HandleAuthenticationVerify(q, a) ==
    /\ a \in answers /\ ~a.new
    /\ IF /\ Listed(a.user, a.device)
          /\ Found(a.user).challenge = a.challenge
          /\ CounterFits(a.counter, Found(a.user).devices[a.device].counter)
       THEN Begin(q, "authenticate", a.user, a.device, a.counter) /\ answers' = answers \ {a}
       ELSE Refuse(a)

SetCounter(q) ==
    LET r == req[q] IN
    /\ At(q, "authenticate")
    /\ webauthn' = [webauthn EXCEPT ![r.user][r.doc].devices =
                       [r.list EXCEPT ![r.device].counter = r.counter]]
    /\ expected' = IF expected[r.user][r.device] = Null THEN expected
                   ELSE [expected EXCEPT ![r.user][r.device].counter = r.counter]
    /\ Done(q)
    /\ UNCHANGED <<asked, answers>>

-----------------------------------------------------------------------------
(* Names and removal.                                                      *)

DeleteWebauthnDevices(q, u, d) ==
    /\ Listed(u, d)
    /\ Begin(q, "remove", u, d, 0)
    /\ UNCHANGED answers

RemoveDevice(q) ==
    LET r == req[q] IN
    /\ At(q, "remove")
    /\ webauthn' = [webauthn EXCEPT ![r.user][1].devices = [r.list EXCEPT ![r.device] = Null]]
    /\ expected' = [expected EXCEPT ![r.user][r.device] = Null]
    /\ Done(q)
    /\ UNCHANGED <<asked, answers>>

\* One update: the document that has the device, whichever it is.
UpdateWebauthnDeviceName(u, d) ==
    /\ \E i \in 1..Len(webauthn[u]) :
          /\ webauthn[u][i].devices[d] # Null
          /\ webauthn' = [webauthn EXCEPT ![u][i].devices[d].named = TRUE]
    /\ expected' = IF expected[u][d] = Null THEN expected
                   ELSE [expected EXCEPT ![u][d].named = TRUE]
    /\ Overlap(u)
    /\ UNCHANGED <<asked, signed, answers, req, faults>>

\* An error of the database or a restart ends a request before its write.
Fail(q) ==
    /\ ~At(q, "idle")
    /\ faults < MaxFaults /\ faults' = faults + 1
    /\ req' = [req EXCEPT ![q] = Idle]
    /\ UNCHANGED <<webauthn, asked, signed, answers, expected, clash>>

Next ==
    \/ \E q \in Requests :
        \/ InsertDoc(q) \/ SetChallenge(q) \/ AddDevice(q) \/ SetCounter(q) \/ RemoveDevice(q)
        \/ Fail(q)
        \/ \E a \in answers : HandleRegistrationVerify(q, a) \/ HandleAuthenticationVerify(q, a)
        \/ \E u \in Users :
            \/ RegistrationOptions(q, u)
            \/ \E d \in Devices : DeleteWebauthnDevices(q, u, d)
    \/ \E u \in Users, d \in Devices : AuthenticationOptions(u, d) \/ UpdateWebauthnDeviceName(u, d)

Spec == Init /\ [][Next]_vars

-----------------------------------------------------------------------------

TypeOK ==
    /\ webauthn \in [Users -> Seq(Doc)]
    /\ asked \in Nat /\ faults \in Nat
    /\ signed \in [Devices -> Nat]
    /\ answers \subseteq Answer
    /\ req \in [Requests -> Request]
    /\ expected \in [Users -> List]
    /\ clash \subseteq Users

\* getWebauthnRegistrationOptions looks for the document and inserts one in another call, and
\* userId has no unique index: a user has two only when requests overlapped.
OneDocument == \A u \in Users : Len(webauthn[u]) > 1 => u \in clash

\* Every handler writes the whole list it has read: unless two requests of the user overlapped,
\* the list holds what registrations, removals, names and logins have made of it.
ListKept == \A u \in Users \ clash :
    (IF Known(u) THEN Found(u).devices ELSE NoDevices) = expected[u]

\* All of it: devices are lost and documents doubled by overlapping requests alone.
DevicesKept == OneDocument /\ ListKept
=============================================================================
