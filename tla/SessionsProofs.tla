--------------------------- MODULE SessionsProofs --------------------------
(***************************************************************************)
(* LogoutIsFinal and CallsAccounted of Sessions, for all users, keys,      *)
(* cookies, requests and bounds.                                           *)
(***************************************************************************)
EXTENDS Sessions, TLAPS

-----------------------------------------------------------------------------
(* The inductive invariant.                                                *)

Asking == {"session", "token", "owner", "handle", "login", "key", "use"}

\* What holds of one request.  Until its handler is through, whoever is live
\* was live when it arrived; what it holds of accounts is of then.
Fine(r) ==
    /\ r \in Request
    /\ r.cookie # Null => r.cookie \in opened
    /\ {r.user, r.found, r.by} \subseteq Maybe(r.known)
    /\ r.pc \in Asking => LiveUsers \cup LiveKeys \subseteq r.known
    /\ r.pc = "owner" => /\ r.token # Null
                         /\ r.token.key # Null => r.token.key \in r.known
                         /\ r.token.key # Null \/ r.token.user \in Users
    /\ r.pc = "use" => r.key \in Keys
    /\ r.pc = "answered" /\ r.outcome = "ok" => r.logged = "ok"

Types ==
    /\ users \in [Users -> User] /\ keys \in [Keys -> Key]
    /\ tokens \subseteq Token /\ \A t \in tokens : t.key # Null \/ t.user \in Users
    /\ sessions \in [Cookies -> Maybe(Names)]
    /\ req \in [Requests -> Request]

\* A session is only under a cookie that was handed out, and none is logged out of before.
Opened ==
    /\ opened \subseteq Cookies /\ closed \subseteq opened
    /\ \A c \in Cookies : sessions[c] # Null => c \in opened

IInv == Types /\ Opened /\ LogoutIsFinal /\ \A q \in Requests : Fine(req[q])

-----------------------------------------------------------------------------
(* How a step keeps it.                                                    *)

\* Accounts and keys are never brought back.
LiveShrinks == LiveUsers' \subseteq LiveUsers /\ LiveKeys' \subseteq LiveKeys

LEMMA FineKept ==
    ASSUME NEW r, Fine(r), LiveShrinks, opened \subseteq opened'
    PROVE  Fine(r)'
  BY DEF Fine, LiveShrinks

\* Two actions hand out cookies or empty sessions: the requests, apart.
LEMMA RequestsKept ==
    ASSUME IInv, NEW q \in Requests, NEW r, Fine(r)', req' = [req EXCEPT ![q] = r],
           LiveShrinks, opened \subseteq opened'
    PROVE  req' \in [Requests -> Request] /\ \A p \in Requests : Fine(req[p])'
<1>1. r \in Request
  BY DEF Fine
<1>2. req \in [Requests -> Request] /\ \A p \in Requests : Fine(req[p])
  BY DEF IInv, Types
<1>3. ASSUME NEW p \in Requests PROVE Fine(req[p])'
  <2>1. CASE p = q
    BY <1>2, <2>1 
  <2>2. CASE p # q
    <3>1. PICK s : s = req[p] /\ s = req'[p]
      BY <1>2, <2>2
    <3>2. Fine(s)'
      BY <1>2, <3>1, FineKept
    <3>. QED
      BY <3>1, <3>2
  <2>. QED
    BY <2>1, <2>2
<1>. QED
  BY <1>1, <1>2, <1>3

\* Most actions change one request and nothing else.
LEMMA RequestStep ==
    ASSUME IInv, NEW q \in Requests, NEW r, Fine(r), Goto(q, r), UNCHANGED docs
    PROVE  IInv'
<1>1. users' = users /\ keys' = keys /\ tokens' = tokens /\ sessions' = sessions
      /\ opened' = opened /\ closed' = closed
  BY DEF docs
<1>2. LiveShrinks
  BY <1>1 DEF LiveShrinks, LiveUsers, LiveKeys
<1>3. Fine(r)'
  BY <1>1, <1>2, FineKept
<1>4. req' \in [Requests -> Request] /\ \A p \in Requests : Fine(req[p])'
  BY <1>1, <1>2, <1>3, RequestsKept DEF Goto
<1>. QED
  BY <1>1, <1>4 DEF IInv, Types, Opened, LogoutIsFinal

LEMMA IdleIn ==
    /\ Idle \in Request /\ Idle.pc = "idle" /\ Idle.cookie = Null /\ Idle.user = Null
    /\ Idle.found = Null /\ Idle.by = Null /\ Idle.known = {} /\ Idle.name = Null
  BY DEF Idle, Request, Maybe, Steps, Outcomes, Calls

\* What is left of a request once its handler, or its log, is through.
LEMMA LeftFine ==
    ASSUME NEW r, Fine(r), NEW step \in Steps \ Asking, NEW outcome \in Outcomes,
           step = "answered" => outcome # "ok"
    PROVE  Fine(Left(r, step, outcome)) /\ Left(r, step, outcome).pc = step
<1>. DEFINE l == Left(r, step, outcome)
<1>1. Idle \in Request
  BY IdleIn
<1>2. r.cookie \in Maybe(Cookies) /\ r.name \in Maybe(Names)
  BY DEF Fine, Request
<1>3. l = [Idle EXCEPT !.pc = step, !.cookie = r.cookie, !.name = r.name, !.outcome = outcome]
  BY DEF Left
<1>4. l \in Request
  BY <1>1, <1>2, <1>3 DEF Request
<1>5. l.pc = step /\ l.cookie = r.cookie /\ l.outcome = outcome /\ l.known = Idle.known
      /\ l.user = Idle.user /\ l.found = Idle.found /\ l.by = Idle.by
  BY <1>1, <1>3 DEF Request
<1>. HIDE DEF l
<1>6. l.pc \notin Asking /\ l.pc # "owner" /\ l.pc # "use"
  BY <1>5 DEF Asking
<1>7. {l.user, l.found, l.by} \subseteq Maybe(l.known)
  BY <1>5, IdleIn DEF Maybe
<1>8. l.cookie # Null => l.cookie \in opened
  BY <1>5 DEF Fine
<1>. QED
  BY <1>4, <1>5, <1>6, <1>7, <1>8 DEF Fine, l

\* A handler is through (Finish), or the request is never answered (Hang).
LEMMA FinishStep ==
    ASSUME IInv, NEW q \in Requests, NEW outcome \in Outcomes, Finish(q, outcome), UNCHANGED docs
    PROVE  IInv'
<1>1. Fine(req[q]) /\ "log" \in Steps \ Asking
  BY DEF IInv, Steps, Asking
<1>2. Fine(Left(req[q], "log", outcome))
  BY <1>1, LeftFine
<1>3. PICK r : r = Left(req[q], "log", outcome) /\ Goto(q, r)
  BY DEF Finish
<1>. QED
  BY <1>2, <1>3, RequestStep

LEMMA ThenStep ==
    ASSUME IInv, NEW q \in Requests, NEW step \in Steps \ {"owner", "use", "answered"},
           step \in Asking => req[q].pc \in Asking, Then(q, step), UNCHANGED docs
    PROVE  IInv'
<1>1. Fine(req[q])
  BY DEF IInv
<1>2. PICK r : r = [req[q] EXCEPT !.pc = step] /\ Goto(q, r)
  BY DEF Then
<1>3. r \in Request
  BY <1>1, <1>2 DEF Fine, Request
<1>4. r.pc = step /\ r.cookie = req[q].cookie /\ r.user = req[q].user /\ r.found = req[q].found
      /\ r.by = req[q].by /\ r.known = req[q].known
  BY <1>1, <1>2 DEF Fine, Request
<1>5. Fine(r)
  BY <1>1, <1>3, <1>4 DEF Fine
<1>. QED
  BY <1>2, <1>5, RequestStep

LEMMA IdleFine == Fine([Idle EXCEPT !.pc = "hung"]) /\ Fine(Idle)
<1>. DEFINE h == [Idle EXCEPT !.pc = "hung"]
<1>1. h \in Request /\ "hung" \in Steps
  BY IdleIn DEF Request, Steps
<1>2. h.pc = "hung" /\ h.cookie = Null /\ h.user = Null /\ h.found = Null /\ h.by = Null
  BY IdleIn DEF Request
<1>. HIDE DEF h
<1>3. Fine(Idle)
  BY IdleIn DEF Fine, Asking, Maybe
<1>4. Fine(h)
  BY <1>1, <1>2 DEF Fine, Asking, Maybe
<1>. QED
  BY <1>3, <1>4 DEF h

LEMMA HangStep ==
    ASSUME IInv, NEW q \in Requests, Hang(q), UNCHANGED docs
    PROVE  IInv'
<1>1. PICK r : r = [Idle EXCEPT !.pc = "hung"] /\ Goto(q, r)
  BY DEF Hang
<1>. QED
  BY <1>1, IdleFine, RequestStep

-----------------------------------------------------------------------------
(* Who asks.                                                               *)

LEMMA ArriveStep ==
    ASSUME IInv, NEW q \in Requests, NEW cookie \in Maybe(Cookies), Arrive(q, cookie)
    PROVE  IInv'
<1>. DEFINE name == IF cookie = Null THEN Null ELSE sessions[cookie]
            known == LiveUsers \cup LiveKeys
            a == [Idle EXCEPT !.pc = "session", !.cookie = cookie, !.name = name, !.known = known]
<1>1. name \in Maybe(Names)
  BY DEF Maybe, IInv, Types
<1>2. known \in SUBSET (Users \cup Keys) /\ "session" \in Steps
  BY DEF LiveUsers, LiveKeys, Steps
<1>3. cookie # Null => cookie \in opened
  BY DEF Arrive, IInv, Opened, Maybe
<1>4. Goto(q, a) /\ UNCHANGED docs
  BY DEF Arrive
<1>. HIDE DEF name, known
<1>5. a \in Request /\ a.pc = "session" /\ a.cookie = cookie /\ a.known = known
      /\ a.user = Null /\ a.found = Null /\ a.by = Null
  BY <1>1, <1>2, IdleIn DEF Request
<1>6. PICK r : r = a
  OBVIOUS
<1>. HIDE DEF a
<1>7. Fine(r)
  BY <1>3, <1>5, <1>6 DEF Fine, Asking, Maybe, known
<1>. QED
  BY <1>4, <1>6, <1>7, RequestStep

LEMMA DeserialiseStep ==
    ASSUME IInv, NEW q \in Requests, DeserialiseUser(q)
    PROVE  IInv'
<1>. DEFINE old == req[q]
<1>1. Fine(old) /\ old \in Request /\ old.pc = "session" /\ UNCHANGED docs
  BY DEF IInv, Fine, DeserialiseUser, At
<1>2. CASE Then(q, "token")
  BY <1>1, <1>2, ThenStep DEF Steps, Asking
<1>3. ASSUME NEW u \in LiveUsers, Goto(q, [old EXCEPT !.pc = "token", !.user = u])  PROVE IInv'
  <2>1. PICK r : r = [old EXCEPT !.pc = "token", !.user = u] /\ Goto(q, r)
    BY <1>3
  <2>2. u \in Users /\ u \in Maybe(Users) /\ u \in old.known
    BY <1>1 DEF LiveUsers, Maybe, Fine, Asking
  <2>3. r \in Request /\ r.pc = "token" /\ r.cookie = old.cookie /\ r.known = old.known
        /\ r.user = u /\ r.found = old.found /\ r.by = old.by
    BY <1>1, <2>1, <2>2 DEF Request, Steps
  <2>. HIDE DEF old
  <2>4. Fine(r)
    BY <1>1, <2>2, <2>3 DEF Fine, Asking, Maybe
  <2>. QED
    BY <1>1, <2>1, <2>4, RequestStep
<1>4. CASE Goto(q, [old EXCEPT !.pc = "token", !.name = Null])
  <2>1. PICK r : r = [old EXCEPT !.pc = "token", !.name = Null] /\ Goto(q, r)
    BY <1>4
  <2>2. r \in Request /\ r.pc = "token" /\ r.cookie = old.cookie /\ r.known = old.known
        /\ r.user = old.user /\ r.found = old.found /\ r.by = old.by
    BY <1>1, <2>1 DEF Request, Steps, Maybe
  <2>. HIDE DEF old
  <2>3. Fine(r)
    BY <1>1, <2>2 DEF Fine, Asking
  <2>. QED
    BY <1>1, <2>1, <2>3, RequestStep
<1>. QED
  BY <1>2, <1>3, <1>4 DEF DeserialiseUser, Deserialised, Named

LEMMA TokenStep ==
    ASSUME IInv, NEW q \in Requests, NEW t \in Maybe(tokens), TokenAuthentication(q, t)
    PROVE  IInv'
<1>. DEFINE old == req[q]
<1>1. Fine(old) /\ old \in Request /\ old.pc = "token" /\ UNCHANGED docs
  BY DEF IInv, Fine, TokenAuthentication, At
<1>2. CASE Then(q, "handle")
  BY <1>1, <1>2, ThenStep DEF Steps, Asking
<1>3. CASE /\ t # Null /\ (t.key # Null => KeyFound(t.key))
           /\ Goto(q, [old EXCEPT !.pc = "owner", !.token = t])
  <2>1. PICK r : r = [old EXCEPT !.pc = "owner", !.token = t] /\ Goto(q, r)
    BY <1>3
  <2>2. t \in Token /\ t \in Maybe(Token) /\ (t.key # Null \/ t.user \in Users)
    BY <1>3 DEF Maybe, IInv, Types
  <2>3. t.key # Null => t.key \in LiveKeys
    BY <1>3 DEF KeyFound, LiveKeys
  <2>4. r \in Request /\ r.pc = "owner" /\ r.cookie = old.cookie /\ r.known = old.known
        /\ r.user = old.user /\ r.found = old.found /\ r.by = old.by /\ r.token = t
    BY <1>1, <2>1, <2>2 DEF Request, Steps
  <2>. HIDE DEF old
  <2>5. Fine(r)
    BY <1>1, <1>3, <2>2, <2>3, <2>4 DEF Fine, Asking
  <2>. QED
    BY <1>1, <2>1, <2>5, RequestStep
<1>. QED
  BY <1>2, <1>3 DEF TokenAuthentication

LEMMA UserRetrievalStep ==
    ASSUME ConstantsOK, IInv, NEW q \in Requests, UserRetrieval(q)
    PROVE  IInv'
<1>. DEFINE old == req[q]
            u == IF old.token.key # Null THEN OwnerOf[old.token.key] ELSE old.token.user
<1>1. Fine(old) /\ old \in Request /\ old.pc = "owner" /\ UNCHANGED docs
  BY DEF IInv, Fine, UserRetrieval, At
<1>2. old.token \in Token /\ old.token.key \in Maybe(Keys)
  BY <1>1 DEF Fine, Request, Maybe, Token
<1>3. u \in Users
  BY <1>1, <1>2, ConstantsOK DEF Fine, Maybe, ConstantsOK
<1>4. PICK r : Goto(q, r) /\ r = IF users[u].live
               THEN [old EXCEPT !.pc = "handle", !.token = Null, !.user = u, !.by = old.token.key]
               ELSE [old EXCEPT !.pc = "handle", !.token = Null]
  BY DEF UserRetrieval
<1>5. users[u].live => u \in old.known
  BY <1>1, <1>3 DEF Fine, Asking, LiveUsers
<1>. HIDE DEF u
<1>6. r \in Request
  <2>1. "handle" \in Steps /\ Null \in Maybe(Token) /\ u \in Maybe(Users)
    BY <1>3 DEF Steps, Maybe
  <2>2. CASE users[u].live
    BY <1>1, <1>2, <1>4, <2>1, <2>2 DEF Request
  <2>3. CASE ~users[u].live
    BY <1>1, <1>4, <2>1, <2>3 DEF Request
  <2>. QED
    BY <2>2, <2>3
<1>7. /\ r.pc = "handle" /\ r.cookie = old.cookie /\ r.known = old.known /\ r.found = old.found
      /\ r.user \in {old.user, u} /\ (r.user = u => r.user = old.user \/ users[u].live)
      /\ r.by \in {old.by, old.token.key}
  BY <1>1, <1>4 DEF Request
<1>. HIDE DEF old
<1>8. r.user \in Maybe(r.known) /\ r.found \in Maybe(r.known) /\ r.by \in Maybe(r.known)
  BY <1>1, <1>5, <1>7 DEF Fine, Maybe
<1>9. Fine(r)
  BY <1>1, <1>6, <1>7, <1>8 DEF Fine, Asking
<1>. QED
  BY <1>1, <1>4, <1>9, RequestStep

LEMMA TurnedAwayStep ==
    ASSUME IInv, NEW q \in Requests,
           TokenFails(q) \/ DeserialiseFails(q) \/ SessionStoreFails(q) \/ GuestProtection(q)
    PROVE  IInv'
<1>1. UNCHANGED docs
  BY DEF TokenFails, DeserialiseFails, SessionStoreFails, GuestProtection
<1>2. CASE TokenFails(q)
  BY <1>1, <1>2, ThenStep DEF TokenFails, At, Steps, Asking
<1>3. CASE DeserialiseFails(q) \/ SessionStoreFails(q)
  BY <1>1, <1>3, HangStep DEF DeserialiseFails, SessionStoreFails
<1>4. CASE GuestProtection(q)
  <2>1. Fine(req[q]) /\ "answered" \in Steps \ Asking /\ "fail" \in Outcomes
    BY DEF IInv, Steps, Asking, Outcomes
  <2>2. PICK r : r = Left(req[q], "answered", "fail") /\ Goto(q, r)
    BY <1>4 DEF GuestProtection
  <2>3. Fine(r)
    BY <2>1, <2>2, LeftFine
  <2>. QED
    BY <1>1, <2>2, <2>3, RequestStep
<1>. QED
  BY <1>2, <1>3, <1>4

-----------------------------------------------------------------------------
(* Login and logout.                                                       *)

LEMMA LoginStep ==
    ASSUME IInv, NEW q \in Requests, NEW n \in Names, Login(q, n)
    PROVE  IInv'
<1>. DEFINE old == req[q]
<1>1. Fine(old) /\ old \in Request /\ old.pc = "handle" /\ UNCHANGED docs
  BY DEF IInv, Fine, Login, At
<1>2. CASE Finish(q, "fail")
  BY <1>1, <1>2, FinishStep DEF Outcomes
<1>3. ASSUME NEW u \in Candidates(n), users[u].live,
             Goto(q, [old EXCEPT !.pc = "login", !.found = u, !.as = users[u].name])
      PROVE  IInv'
  <2>1. u \in Users /\ u \in Maybe(Users) /\ u \in LiveUsers
    BY <1>3 DEF Candidates, Named, LiveUsers, Maybe
  <2>2. users[u].name \in Maybe(Names) /\ "login" \in Steps
    BY <2>1 DEF IInv, Types, User, Maybe, Steps
  <2>3. PICK r : r = [old EXCEPT !.pc = "login", !.found = u, !.as = users[u].name] /\ Goto(q, r)
    BY <1>3
  <2>4. r \in Request /\ r.pc = "login" /\ r.cookie = old.cookie /\ r.known = old.known
        /\ r.user = old.user /\ r.found = u /\ r.by = old.by
    BY <1>1, <2>1, <2>2, <2>3 DEF Request
  <2>. HIDE DEF old
  <2>5. Fine(r)
    BY <1>1, <2>1, <2>4 DEF Fine, Asking, Maybe
  <2>. QED
    BY <1>1, <2>3, <2>5, RequestStep
<1>. QED
  BY <1>2, <1>3 DEF Login

\* The accounts stay as they are, the sessions do not.
LEMMA SessionsStep ==
    ASSUME IInv, NEW q \in Requests, NEW r, Fine(r)', Goto(q, r),
           users' = users, keys' = keys, tokens' = tokens, opened \subseteq opened',
           sessions' \in [Cookies -> Maybe(Names)], Opened', LogoutIsFinal'
    PROVE  IInv'
<1>1. LiveShrinks
  BY DEF LiveShrinks, LiveUsers, LiveKeys
<1>2. req' \in [Requests -> Request] /\ \A p \in Requests : Fine(req[p])'
  BY <1>1, RequestsKept DEF Goto
<1>. QED
  BY <1>2 DEF IInv, Types

LEMMA OpenSessionStep ==
    ASSUME IInv, NEW q \in Requests, OpenSession(q)
    PROVE  IInv'
<1>. DEFINE old == req[q]
<1>1. Fine(old) /\ old \in Request /\ old.pc = "login"
  BY DEF IInv, Fine, OpenSession, At
<1>a. PICK c \in Cookies \ opened :
         /\ opened' = opened \cup {c}
         /\ sessions' = [d \in Cookies |-> IF d = c THEN old.as
                                           ELSE IF d = old.cookie THEN Null ELSE sessions[d]]
         /\ Goto(q, [Left(old, "log", "ok") EXCEPT !.cookie = c, !.name = old.as])
  BY Zenon DEF OpenSession
<1>b. users' = users /\ keys' = keys /\ tokens' = tokens /\ closed' = closed
  BY DEF OpenSession
<1>2. PICK r : /\ r = [Left(old, "log", "ok") EXCEPT !.cookie = c, !.name = old.as]
               /\ Goto(q, r)
  BY <1>a
<1>3. old.as \in Maybe(Names) /\ c \in Maybe(Cookies)
  BY <1>1, <1>a DEF Request, Maybe
<1>4. Fine(Left(old, "log", "ok")) /\ Left(old, "log", "ok").pc = "log"
  BY <1>1, LeftFine DEF Steps, Asking, Outcomes
<1>5. PICK l : l = Left(old, "log", "ok") /\ Fine(l) /\ l.pc = "log" /\ l \in Request
               /\ r = [l EXCEPT !.cookie = c, !.name = old.as]
  BY <1>2, <1>4 DEF Fine
<1>6. r \in Request /\ r.pc = "log" /\ r.cookie = c /\ r.user = l.user /\ r.found = l.found
      /\ r.by = l.by /\ r.known = l.known
  BY <1>3, <1>5 DEF Request
<1>7. Fine(r)'
  BY <1>2, <1>a, <1>b, <1>5, <1>6 DEF Fine, Asking
<1>8. sessions' \in [Cookies -> Maybe(Names)]
  BY <1>a, <1>3 DEF IInv, Types, Maybe
<1>9. Opened' /\ LogoutIsFinal'
  BY <1>a, <1>b DEF IInv, Opened, LogoutIsFinal
<1>. QED
  BY <1>2, <1>a, <1>b, <1>7, <1>8, <1>9, SessionsStep

LEMMA LogoutStep ==
    ASSUME IInv, NEW q \in Requests, Logout(q)
    PROVE  IInv'
<1>. DEFINE old == req[q]
<1>1. Fine(old) /\ old \in Request
  BY DEF IInv, Fine
<1>2. CASE old.user = Null
  BY <1>2, FinishStep DEF Logout, Outcomes, docs
<1>3. CASE old.user # Null
  <2>1. PICK r : r = Left(Idle, "log", "ok") /\ Goto(q, r)
    BY <1>3 DEF Logout
  <2>2. /\ sessions' = [c \in Cookies |-> IF c = old.cookie THEN Null ELSE sessions[c]]
        /\ closed' = IF old.cookie = Null THEN closed ELSE closed \cup {old.cookie}
        /\ users' = users /\ keys' = keys /\ tokens' = tokens /\ opened' = opened
    BY <1>3 DEF Logout
  <2>3. Fine(r)
    BY <2>1, IdleFine, LeftFine DEF Steps, Asking, Outcomes
  <2>4. Fine(r)'
    BY <2>2, <2>3, FineKept DEF LiveShrinks, LiveUsers, LiveKeys
  <2>5. sessions' \in [Cookies -> Maybe(Names)]
    BY <2>2 DEF IInv, Types, Maybe
  <2>6. Opened' /\ LogoutIsFinal'
    BY <1>1, <2>2 DEF IInv, Opened, LogoutIsFinal, Fine
  <2>. QED
    BY <2>1, <2>2, <2>4, <2>5, <2>6, SessionsStep
<1>. QED
  BY <1>2, <1>3

LEMMA AnswerStep ==
    ASSUME IInv, NEW q \in Requests, Answer(q)
    PROVE  IInv'
<1>. DEFINE old == req[q]
<1>1. PICK r : r = Idle /\ Goto(q, r)
  BY DEF Answer
<1>2. /\ sessions' = Stored(old)
      /\ users' = users /\ keys' = keys /\ tokens' = tokens /\ opened' = opened /\ closed' = closed
  BY DEF Answer
<1>3. \/ sessions' = sessions
      \/ sessions' = [sessions EXCEPT ![old.cookie] = Null]
  BY <1>2 DEF Stored
<1>4. Fine(r)'
  BY <1>1, <1>2, IdleFine, FineKept DEF LiveShrinks, LiveUsers, LiveKeys
<1>5. sessions' \in [Cookies -> Maybe(Names)]
  BY <1>3 DEF IInv, Types, Maybe
<1>6. Opened' /\ LogoutIsFinal'
  BY <1>2, <1>3 DEF IInv, Types, Opened, LogoutIsFinal
<1>. QED
  BY <1>1, <1>2, <1>4, <1>5, <1>6, SessionsStep

-----------------------------------------------------------------------------
(* Access tokens.                                                          *)

LEMMA FindUserStep ==
    ASSUME IInv, NEW q \in Requests, NEW n \in Names, NEW call \in Calls, FindUser(q, call, n)
    PROVE  IInv'
<1>. DEFINE old == req[q]
<1>1. Fine(old) /\ old \in Request /\ old.pc = "handle" /\ UNCHANGED docs
  BY DEF IInv, Fine, FindUser, At
<1>2. CASE Finish(q, "fail")
  BY <1>1, <1>2, FinishStep DEF Outcomes
<1>3. ASSUME NEW u \in LiveUsers, Goto(q, [old EXCEPT !.pc = "key", !.call = call, !.found = u])
      PROVE  IInv'
  <2>1. u \in Maybe(Users) /\ "key" \in Steps
    BY DEF LiveUsers, Maybe, Steps
  <2>2. PICK r : r = [old EXCEPT !.pc = "key", !.call = call, !.found = u] /\ Goto(q, r)
    BY <1>3
  <2>3. r \in Request /\ r.pc = "key" /\ r.cookie = old.cookie /\ r.known = old.known
        /\ r.user = old.user /\ r.found = u /\ r.by = old.by
    BY <1>1, <2>1, <2>2 DEF Request
  <2>. HIDE DEF old
  <2>4. Fine(r)
    BY <1>1, <2>3 DEF Fine, Asking, Maybe
  <2>. QED
    BY <1>1, <2>2, <2>4, RequestStep
<1>. QED
  BY <1>2, <1>3 DEF FindUser, Named

\* The key that will be used is one of the keys.
LEMMA UseStep ==
    ASSUME IInv, NEW q \in Requests, NEW r, NEW call \in Calls, NEW k \in Keys,
           req[q].pc \in Asking, r = [req[q] EXCEPT !.pc = "use", !.call = call, !.key = k],
           Goto(q, r), UNCHANGED docs
    PROVE  IInv'
<1>. DEFINE old == req[q]
<1>1. Fine(old) /\ old \in Request
  BY DEF IInv, Fine
<1>2. k \in Maybe(Keys) /\ "use" \in Steps
  BY DEF Maybe, Steps
<1>3. r \in Request /\ r.pc = "use" /\ r.cookie = old.cookie /\ r.known = old.known
      /\ r.user = old.user /\ r.found = old.found /\ r.by = old.by /\ r.key = k
  BY <1>1, <1>2 DEF Request
<1>. HIDE DEF old
<1>4. Fine(r)
  BY <1>1, <1>3 DEF Fine, Asking, old
<1>. QED
  BY <1>4, RequestStep

LEMMA FindKeyStep ==
    ASSUME IInv, NEW q \in Requests, NEW k \in Keys, FindKey(q, k) \/ IssueAccessToken(q, k)
    PROVE  IInv'
<1>. DEFINE old == req[q]
<1>1. old \in Request /\ old.pc \in Asking /\ UNCHANGED docs
  BY DEF IInv, Fine, FindKey, IssueAccessToken, At, Asking
<1>2. CASE Finish(q, "fail")
  BY <1>1, <1>2, FinishStep DEF Outcomes
<1>3. CASE Goto(q, [old EXCEPT !.pc = "use", !.key = k])
  <2>1. old.call \in Calls
    BY <1>1 DEF Request
  <2>2. [old EXCEPT !.pc = "use", !.key = k] = [old EXCEPT !.pc = "use", !.call = old.call, !.key = k]
    BY <1>1 DEF Request
  <2>. QED
    BY <1>1, <1>3, <2>1, <2>2, UseStep
<1>4. CASE Goto(q, [old EXCEPT !.pc = "use", !.call = "issue", !.key = k])
  BY <1>1, <1>4, UseStep DEF Calls
<1>. QED
  BY <1>2, <1>3, <1>4 DEF FindKey, IssueAccessToken

LEMMA SetChallengeStep ==
    ASSUME IInv, NEW q \in Requests, SetChallenge(q)
    PROVE  IInv'
<1>1. Fine(req[q]) /\ "log" \in Steps \ Asking /\ "ok" \in Outcomes
  BY DEF IInv, Steps, Asking, Outcomes
<1>2. PICK r : r = Left(req[q], "log", "ok") /\ req' = [req EXCEPT ![q] = r]
  BY DEF SetChallenge, Finish, Goto
<1>3. PICK k : keys' = [keys EXCEPT ![k].challenge = TRUE]
  BY DEF SetChallenge
<1>4. keys \in [Keys -> Key] /\ users' = users /\ tokens' = tokens /\ sessions' = sessions
      /\ opened' = opened /\ closed' = closed
  BY DEF IInv, Types, SetChallenge
<1>5. keys' \in [Keys -> Key] /\ \A j \in Keys : keys'[j].live = keys[j].live
  BY <1>3, <1>4 DEF Key
<1>6. LiveShrinks
  BY <1>4, <1>5 DEF LiveShrinks, LiveUsers, LiveKeys
<1>7. Fine(r)'
  BY <1>1, <1>2, <1>4, <1>6, LeftFine, FineKept
<1>8. req' \in [Requests -> Request] /\ \A p \in Requests : Fine(req[p])'
  BY <1>2, <1>4, <1>6, <1>7, RequestsKept
<1>. QED
  BY <1>4, <1>5, <1>8 DEF IInv, Types, Opened, LogoutIsFinal

LEMMA GiveTokenStep ==
    ASSUME ConstantsOK, IInv, NEW q \in Requests, GiveToken(q)
    PROVE  IInv'
<1>1. Fine(req[q]) /\ "log" \in Steps \ Asking /\ "ok" \in Outcomes
  BY DEF IInv, Steps, Asking, Outcomes
<1>2. PICK r : r = Left(req[q], "log", "ok") /\ req' = [req EXCEPT ![q] = r]
  BY DEF GiveToken, Finish, Goto
<1>3. PICK k : k \in Keys /\ tokens' = tokens \cup {[key |-> k, user |-> Null]}
  BY <1>1 DEF GiveToken, At, Fine
<1>4. users' = users /\ keys' = keys /\ sessions' = sessions /\ opened' = opened /\ closed' = closed
  BY DEF GiveToken
<1>5. LiveShrinks
  BY <1>4 DEF LiveShrinks, LiveUsers, LiveKeys
<1>6. Fine(r)'
  BY <1>1, <1>2, <1>4, <1>5, LeftFine, FineKept
<1>7. req' \in [Requests -> Request] /\ \A p \in Requests : Fine(req[p])'
  BY <1>2, <1>4, <1>5, <1>6, RequestsKept
<1>8. tokens' \subseteq Token /\ \A t \in tokens' : t.key # Null \/ t.user \in Users
  BY <1>3, ConstantsOK DEF IInv, Types, Token, Maybe, ConstantsOK
<1>. QED
  BY <1>4, <1>7, <1>8 DEF IInv, Types, Opened, LogoutIsFinal

-----------------------------------------------------------------------------
(* Other calls, the log and the answer.                                    *)

LEMMA CallStep ==
    ASSUME IInv, NEW q \in Requests,
           \/ \E u \in Users : GetUser(q, u) \/ GetUserKeys(q, u)
           \/ GetUsers(q) \/ ValidateResetPassword(q) \/ GetLogs(q)
           \/ \E named \in BOOLEAN : RequestExpiryDate(q, named)
           \/ \E call \in {"open", "barred"} : OtherCall(q, call)
    PROVE  IInv'
<1>1. PICK ok : Reply(q, ok)
  BY DEF GetUser, GetUserKeys, GetUsers, ValidateResetPassword, GetLogs, RequestExpiryDate, OtherCall
<1>2. UNCHANGED docs /\ "ok" \in Outcomes /\ "fail" \in Outcomes
      /\ (Finish(q, "ok") \/ Finish(q, "fail"))
  BY <1>1 DEF Reply, Outcomes
<1>. QED
  BY <1>2, FinishStep

\* A step of the log or of a download: what it leaves is an end of the request.
LEMMA EndedFine ==
    ASSUME NEW r, Fine(r), NEW outcome \in Outcomes, NEW logged \in Outcomes,
           outcome = "ok" => logged = "ok"
    PROVE  Fine(Ended(r, outcome, logged))
<1>. DEFINE l == [Left(r, "answered", "fail") EXCEPT !.outcome = outcome]
            e == Ended(r, outcome, logged)
<1>1. Fine(Left(r, "answered", "fail")) /\ Left(r, "answered", "fail").pc = "answered"
  BY LeftFine DEF Steps, Asking, Outcomes
<1>2. Left(r, "answered", outcome) = l
  BY IdleIn DEF Left, Request
<1>3. PICK f : f = Left(r, "answered", "fail") /\ Fine(f) /\ f \in Request /\ f.pc = "answered"
  BY <1>1 DEF Fine
<1>4. e = [f EXCEPT !.outcome = outcome, !.logged = logged]
  BY <1>2, <1>3 DEF Ended, Request
<1>5. e \in Request /\ e.pc = "answered" /\ e.cookie = f.cookie /\ e.known = f.known
      /\ e.user = f.user /\ e.found = f.found /\ e.by = f.by
      /\ e.outcome = outcome /\ e.logged = logged
  BY <1>3, <1>4 DEF Request
<1>. HIDE DEF e
<1>6. Fine(e)
  BY <1>3, <1>5 DEF Fine, Asking
<1>. QED
  BY <1>6 DEF e

LEMMA FileDownloadStep ==
    ASSUME IInv, NEW q \in Requests, FileDownload(q)
    PROVE  IInv'
<1>1. Fine(req[q])
  BY DEF IInv
<1>2. PICK o, r :
         /\ o \in {"ok", "fail"} /\ r = [Left(req[q], "log", o) EXCEPT !.call = "file"]
         /\ Goto(q, r) /\ UNCHANGED docs
  BY DEF FileDownload
<1>3. PICK l : l = Left(req[q], "log", o) /\ Fine(l) /\ l \in Request /\ l.pc = "log"
  BY <1>1, <1>2, LeftFine DEF Fine, Steps, Asking, Outcomes
<1>4. r \in Request /\ r.pc = "log" /\ r.cookie = l.cookie /\ r.known = l.known
      /\ r.user = l.user /\ r.found = l.found /\ r.by = l.by
  BY <1>2, <1>3 DEF Request, Calls
<1>5. Fine(r)
  BY <1>3, <1>4 DEF Fine, Asking
<1>. QED
  BY <1>2, <1>5, RequestStep

LEMMA LogStep ==
    ASSUME IInv, NEW q \in Requests, Log(q) \/ LogAgain(q) \/ LogFails(q)
    PROVE  IInv'
<1>. DEFINE old == req[q]
<1>1. Fine(old) /\ old.outcome \in Outcomes /\ UNCHANGED docs
      /\ "fail" \in Outcomes /\ "none" \in Outcomes
  BY DEF IInv, Fine, Request, Log, LogAgain, LogFails, Outcomes
<1>2. ASSUME NEW o \in Outcomes, NEW l \in Outcomes, o = "ok" => l = "ok", Goto(q, Ended(old, o, l))
      PROVE  IInv'
  <2>1. PICK r : r = Ended(old, o, l) /\ Goto(q, r)
    BY <1>2
  <2>2. Fine(r)
    BY <1>1, <1>2, <2>1, EndedFine
  <2>. QED
    BY <1>1, <2>1, <2>2, RequestStep
<1>3. CASE Then(q, "relog")
  BY <1>1, <1>3, ThenStep DEF Steps, Asking
<1>4. CASE Hang(q)
  BY <1>1, <1>4, HangStep
<1>. QED
  BY <1>1, <1>2, <1>3, <1>4 DEF Log, Logged, LogAgain, LogFails, Then

-----------------------------------------------------------------------------
(* What happens to accounts, keys, sessions and tokens meanwhile.          *)

LEMMA ChangeStep ==
    ASSUME IInv, req' = req, LiveShrinks, Types', opened' = opened, closed' = closed,
           \A c \in Cookies : sessions'[c] \in {sessions[c], Null}
    PROVE  IInv'
<1>1. ASSUME NEW q \in Requests PROVE Fine(req[q])'
  <2>1. PICK r : r = req[q] /\ r = req'[q] /\ Fine(r)
    BY DEF IInv
  <2>2. Fine(r)'
    BY <2>1, FineKept
  <2>. QED
    BY <2>1, <2>2
<1>. QED
  BY <1>1 DEF IInv, Opened, LogoutIsFinal

LEMMA UsersStep ==
    ASSUME ConstantsOK, IInv, NEW u \in Users,
           DeleteUser(u) \/ IssueSystemAccessToken(u) \/ \E n \in Names : Rename(u, n)
    PROVE  IInv'
<1>1. req' = req /\ keys' = keys /\ sessions' = sessions /\ opened' = opened /\ closed' = closed
  BY DEF DeleteUser, IssueSystemAccessToken, Rename, Change
<1>2. CASE DeleteUser(u)
  <2>1. tokens' = tokens /\ users' = [users EXCEPT ![u].live = FALSE]
    BY <1>2 DEF DeleteUser
  <2>2. Types'
    BY <1>1, <2>1 DEF IInv, Types, User
  <2>3. LiveShrinks
    BY <1>1, <2>1 DEF LiveShrinks, LiveUsers, LiveKeys, IInv, Types, User
  <2>. QED
    BY <1>1, <2>2, <2>3, ChangeStep
<1>3. CASE IssueSystemAccessToken(u)
  <2>1. users' = users /\ tokens' = tokens \cup {[key |-> Null, user |-> u]}
    BY <1>3 DEF IssueSystemAccessToken
  <2>2. Types'
    BY <1>1, <2>1 DEF IInv, Types, Token, Maybe
  <2>3. LiveShrinks
    BY <1>1, <2>1 DEF LiveShrinks, LiveUsers, LiveKeys
  <2>. QED
    BY <1>1, <2>2, <2>3, ChangeStep
<1>4. ASSUME NEW n \in Names, Rename(u, n)  PROVE IInv'
  <2>1. tokens' = tokens /\ users' = [users EXCEPT ![u].name = n]
    BY <1>4 DEF Rename
  <2>2. Types'
    BY <1>1, <2>1 DEF IInv, Types, User
  <2>3. LiveShrinks
    BY <1>1, <2>1 DEF LiveShrinks, LiveUsers, LiveKeys, IInv, Types, User
  <2>. QED
    BY <1>1, <2>2, <2>3, ChangeStep
<1>. QED
  BY <1>2, <1>3, <1>4

LEMMA DeletePubkeyStep ==
    ASSUME IInv, NEW k \in Keys, DeletePubkey(k)
    PROVE  IInv'
<1>1. /\ req' = req /\ users' = users /\ tokens' = tokens /\ sessions' = sessions
      /\ opened' = opened /\ closed' = closed /\ keys' = [keys EXCEPT ![k].live = FALSE]
  BY DEF DeletePubkey, Change
<1>2. Types'
  BY <1>1 DEF IInv, Types, Key
<1>3. LiveShrinks
  BY <1>1 DEF LiveShrinks, LiveUsers, LiveKeys, IInv, Types, Key
<1>. QED
  BY <1>1, <1>2, <1>3, ChangeStep

LEMMA LapseStep ==
    ASSUME IInv, Lapse
    PROVE  IInv'
<1>1. /\ req' = req /\ users' = users /\ keys' = keys /\ opened' = opened /\ closed' = closed
      /\ tokens' \subseteq tokens
      /\ sessions' = sessions \/ \E c \in Cookies : sessions' = [sessions EXCEPT ![c] = Null]
  BY DEF Lapse, Change
<1>2. sessions' \in [Cookies -> Maybe(Names)] /\ \A c \in Cookies : sessions'[c] \in {sessions[c], Null}
  BY <1>1 DEF IInv, Types, Maybe
<1>3. Types'
  BY <1>1, <1>2 DEF IInv, Types
<1>4. LiveShrinks
  BY <1>1 DEF LiveShrinks, LiveUsers, LiveKeys
<1>. QED
  BY <1>1, <1>2, <1>3, <1>4, ChangeStep

-----------------------------------------------------------------------------
(* The theorems.                                                           *)

LEMMA InitIInv == ConstantsOK /\ Init => IInv
<1>. SUFFICES ASSUME ConstantsOK, Init PROVE IInv
  OBVIOUS
<1>1. users = [u \in Users |-> [name |-> NameOf[u], live |-> TRUE]]
      /\ keys = [k \in Keys |-> [live |-> TRUE, challenge |-> FALSE]]
      /\ tokens \in SUBSET [key : Keys, user : {Null}]
      /\ req = [q \in Requests |-> Idle] /\ closed = {}
  BY DEF Init
<1>2. opened \subseteq Cookies /\ sessions \in [Cookies -> Maybe({NameOf[u] : u \in Users})]
      /\ \A c \in Cookies : sessions[c] # Null => c \in opened
  BY DEF Init
<1>3. {NameOf[u] : u \in Users} \subseteq Names
  BY DEF ConstantsOK
<1>4. sessions \in [Cookies -> Maybe(Names)]
  BY <1>2, <1>3 DEF Maybe
<1>5. users \in [Users -> User] /\ keys \in [Keys -> Key]
  BY <1>1 DEF User, Key, ConstantsOK
<1>6. tokens \subseteq Token /\ \A t \in tokens : t.key # Null \/ t.user \in Users
  BY <1>1 DEF Token, Maybe, ConstantsOK
<1>7. req \in [Requests -> Request] /\ \A q \in Requests : Fine(req[q])
  BY <1>1, IdleIn, IdleFine
<1>. QED
  BY <1>1, <1>2, <1>4, <1>5, <1>6, <1>7 DEF IInv, Types, Opened, LogoutIsFinal

LEMMA NextIInv == ConstantsOK /\ IInv /\ [Next]_vars => IInv'
<1>. SUFFICES ASSUME ConstantsOK, IInv, [Next]_vars PROVE IInv'
  OBVIOUS
<1>1. ASSUME NEW q \in Requests,
             \/ \E c \in Maybe(Cookies) : Arrive(q, c)
             \/ DeserialiseUser(q) \/ DeserialiseFails(q)
             \/ \E t \in Maybe(tokens) : TokenAuthentication(q, t)
             \/ TokenFails(q) \/ UserRetrieval(q) \/ GuestProtection(q)
      PROVE  IInv'
  BY <1>1, ArriveStep, DeserialiseStep, TurnedAwayStep, TokenStep, UserRetrievalStep
<1>2. ASSUME NEW q \in Requests, Handle(q)  PROVE IInv'
  <2>1. "challenge" \in Calls /\ "get" \in Calls
    BY DEF Calls
  <2>. QED
    BY <1>2, <2>1, LoginStep, FindUserStep, FindKeyStep, OpenSessionStep, LogoutStep, TurnedAwayStep,
       SetChallengeStep, GiveTokenStep, CallStep, FileDownloadStep DEF Handle
<1>3. ASSUME NEW q \in Requests, Log(q) \/ LogAgain(q) \/ LogFails(q) \/ Answer(q)
      PROVE  IInv'
  BY <1>3, LogStep, AnswerStep
<1>4. CASE UNCHANGED vars
  <2>1. LiveShrinks /\ Types'
    BY <1>4 DEF LiveShrinks, LiveUsers, LiveKeys, IInv, Types, vars
  <2>. QED
    BY <1>4, <2>1, ChangeStep DEF vars
<1>. QED
  BY <1>1, <1>2, <1>3, <1>4, UsersStep, DeletePubkeyStep, LapseStep DEF Next

\* A session that was logged out of stays empty, whatever other requests of it
\* are under way (router.ts session, resave: false).
THEOREM LogoutStaysFinal ==
    ASSUME ConstantsOK
    PROVE  Spec => []LogoutIsFinal
<1>1. IInv => LogoutIsFinal
  BY DEF IInv
<1>. QED
  BY <1>1, InitIInv, NextIInv, PTL DEF Spec

\* The window of a one-time code, by the step its delay falls into.
LEMMA CodesHold == CodeHolds
<1>1. ASSUME NEW at \in 0..5, NEW made \in 0..at, at - made <= 2
      PROVE  \E w \in -1..1 : at \div 2 + w = made \div 2
  <2>1. made \div 2 - at \div 2 \in -1..1
    BY <1>1, Z3
  <2>. QED
    BY <2>1
<1>2. ASSUME NEW at \in 0..5, NEW made \in 0..at, at - made >= 4, NEW w \in -1..1
      PROVE  at \div 2 + w # made \div 2
  BY <1>2
<1>. QED
  BY <1>1, <1>2 DEF CodeHolds, VerifyTOTP, Counter, Horizon

\* Whoever a request acts as was live when it arrived, one-time codes hold, and
\* an answer of success is in the log.
THEOREM CallsAreAccounted ==
    ASSUME ConstantsOK
    PROVE  Spec => []CallsAccounted
<1>1. IInv => CallsAccounted
  BY CodesHold DEF IInv, Fine, CallsAccounted, ActsAsLive, SuccessIsLogged
<1>. QED
  BY <1>1, InitIInv, NextIInv, PTL DEF Spec

-----------------------------------------------------------------------------
(* The rest of the types: what is counted.                                 *)

CountsTyped == begun \in 0..MaxBegun /\ changes \in 0..MaxChanges /\ faults \in 0..MaxFaults

\* A request or a failure is counted as long as there may be one more.
LEMMA CountsStep ==
    ASSUME ConstantsOK, CountsTyped, [Next]_vars
    PROVE  CountsTyped'
<1>. DEFINE Begins == begun < MaxBegun /\ begun' = begun + 1
            Changes == changes < MaxChanges /\ changes' = changes + 1
<1>1. /\ MaxBegun \in Nat /\ MaxChanges \in Nat /\ MaxFaults \in Nat
      /\ begun \in 0..MaxBegun /\ changes \in 0..MaxChanges /\ faults \in 0..MaxFaults
  BY DEF ConstantsOK, CountsTyped
<1>2. ASSUME begun' = begun \/ Begins, changes' = changes \/ Changes, faults' = faults \/ Fault
      PROVE  CountsTyped'
  BY <1>1, <1>2 DEF CountsTyped, Fault
<1>3. ASSUME NEW q \in Requests,
             \/ \E c \in Maybe(Cookies) : Arrive(q, c)
             \/ DeserialiseUser(q) \/ DeserialiseFails(q)
             \/ \E t \in Maybe(tokens) : TokenAuthentication(q, t)
             \/ TokenFails(q) \/ UserRetrieval(q) \/ GuestProtection(q)
             \/ Log(q) \/ LogAgain(q) \/ LogFails(q) \/ Answer(q)
      PROVE  CountsTyped'
  <2>1. (begun' = begun \/ Begins) /\ changes' = changes /\ (faults' = faults \/ Fault)
    BY <1>3, Zenon
       DEF Arrive, DeserialiseUser, DeserialiseFails, TokenAuthentication, TokenFails,
           UserRetrieval, GuestProtection, Log, LogAgain, LogFails, Answer, rest
  <2>. QED
    BY <1>2, <2>1
<1>4. ASSUME NEW q \in Requests, Handle(q)
      PROVE  CountsTyped'
  <2>1. begun' = begun /\ changes' = changes /\ (faults' = faults \/ Fault)
    BY <1>4, Zenon
       DEF Handle, Login, FindUser, FindKey, IssueAccessToken, OpenSession, Logout,
           SessionStoreFails, SetChallenge, GiveToken, GetUser, GetUserKeys, GetUsers,
           ValidateResetPassword, GetLogs, RequestExpiryDate, OtherCall, Reply, FileDownload, rest
  <2>. QED
    BY <1>2, <2>1
<1>5. ASSUME Change
      PROVE  CountsTyped'
  BY <1>2, <1>5 DEF Change
<1>6. CASE UNCHANGED vars
  BY <1>2, <1>6 DEF vars
<1>. QED
  BY <1>3, <1>4, <1>5, <1>6, Zenon
     DEF Next, Rename, DeleteUser, IssueSystemAccessToken, DeletePubkey, Lapse

\* Accounts, keys, tokens, sessions and requests are of their types.
THEOREM CallsAreTyped ==
    ASSUME ConstantsOK
    PROVE  Spec => []TypeOK
<1>1. Init => CountsTyped
  <2>1. Init => begun = 0 /\ changes = 0 /\ faults = 0
    BY Zenon DEF Init
  <2>2. MaxBegun \in Nat /\ MaxChanges \in Nat /\ MaxFaults \in Nat
    BY DEF ConstantsOK
  <2>. QED
    BY <2>1, <2>2 DEF CountsTyped
<1>2. CountsTyped /\ [Next]_vars => CountsTyped'
  BY CountsStep
<1>3. IInv /\ CountsTyped => TypeOK
  <2>1. Opened => closed \subseteq Cookies
    BY DEF Opened
  <2>. QED
    BY <2>1, Zenon DEF IInv, Types, Opened, CountsTyped, TypeOK
<1>. QED
  BY <1>1, <1>2, <1>3, InitIInv, NextIInv, PTL DEF Spec
=============================================================================
