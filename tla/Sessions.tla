------------------------------ MODULE Sessions ------------------------------
(***************************************************************************)
(* From the arrival of a request to its answer: the session store, the     *)
(* user behind the session or the access token, the refusal of guests, the *)
(* handler, the log (router.ts, userLoginUtils.ts, commonMiddleware.ts,    *)
(* pubkeyAuthentication.ts, guestProtection.ts, middleware.ts), with login,*)
(* logout and the access tokens (userCore.ts, mfa.ts) as handlers.         *)
(*                                                                         *)
(* A session holds the name of its user.  Every look-up of a user or a key *)
(* is a step of its own, so that accounts change between them; the changes *)
(* of accounts, which module Accounts takes apart, are one step here.      *)
(*                                                                         *)
(* What a request brings (a token, a name, a password) is chosen where the *)
(* code first looks at it, and a password, a signature or an expiry date   *)
(* may always turn out wrong; that of a deleted user never turns out right.*)
(*                                                                         *)
(* Left out: the prefix of the domain and the limit of the rate in front   *)
(* of the handlers, the query string of a call that the log cannot parse,  *)
(* and the handlers other modules are about, which succeed or fail.        *)
(***************************************************************************)
EXTENDS Integers

CONSTANTS
    Users,
    Guests, Admins,  \* users of these types
    Names,
    NameOf,    \* the name of each user at first
    Keys,      \* public keys
    OwnerOf,   \* the user of each key
    Cookies,   \* ids of sessions
    Requests,
    MaxBegun,  \* bound on the requests begun
    MaxChanges,\* bound on the changes of accounts, keys, sessions and tokens
    MaxFaults, \* bound on failures
    Null

\* What the constants are meant to be.
ConstantsOK ==
    /\ Guests \subseteq Users /\ Admins \subseteq Users \ Guests
    /\ NameOf \in [Users -> Names]
    /\ \A u, v \in Users : NameOf[u] = NameOf[v] => u = v
    /\ OwnerOf \in [Keys -> Users]
    /\ MaxBegun \in Nat /\ MaxChanges \in Nat /\ MaxFaults \in Nat
    /\ Null \notin Users \cup Names \cup Keys \cup Cookies

VARIABLES
    users,     \* users_collection
    keys,      \* pubkeys_collection
    tokens,    \* access tokens that would pass jwt.verify
    sessions,  \* SESSIONS_COLLECTION: the name in each session
    req,       \* progress of each request
    begun, changes, faults,
    opened,    \* cookies handed out so far
    closed     \* cookies whose session was logged out of (history variable)

vars == <<users, keys, tokens, sessions, req, begun, changes, faults, opened, closed>>

-----------------------------------------------------------------------------

Maybe(S) == S \cup {Null}

User == [name : Names, live : BOOLEAN]
\* `challenge` tells whether one was ever asked for.
Key == [live : BOOLEAN, challenge : BOOLEAN]
\* A token names its key, or, made by the system for an instance, its user.
Token == [key : Maybe(Keys), user : Maybe(Users)]

\* Calls of the API: "open" ones are for guests too, "barred" ones are not.
Calls == {"challenge", "get", "issue", "open", "barred", "file"}

Steps == {"idle", "session", "token", "owner", "handle", "login", "key", "use", "log",
          "relog", "answered", "hung"}
Outcomes == {"none", "ok", "fail"}

Request == [pc : Steps, call : Calls, cookie : Maybe(Cookies), name : Maybe(Names),
            token : Maybe(Token), user : Maybe(Users), found : Maybe(Users),
            as : Maybe(Names),
            key : Maybe(Keys), outcome : Outcomes, logged : Outcomes, by : Maybe(Keys), known : SUBSET (Users \cup Keys)]

Idle == [pc |-> "idle", call |-> "open", cookie |-> Null, name |-> Null, token |-> Null,
         user |-> Null, found |-> Null, as |-> Null, key |-> Null,
         outcome |-> "none", logged |-> "none", by |-> Null, known |-> {}]

LiveUsers == {u \in Users : users[u].live}
LiveKeys == {k \in Keys : keys[k].live}
\* The live user of a name; the index of users_collection keeps them apart.
Named(n) == {u \in LiveUsers : users[u].name = n}

\* The server starts on the sessions and tokens that the database holds.
Init ==
    /\ users = [u \in Users |-> [name |-> NameOf[u], live |-> TRUE]]
    /\ keys = [k \in Keys |-> [live |-> TRUE, challenge |-> FALSE]]
    /\ tokens \in SUBSET [key : Keys, user : {Null}]
    /\ \E S \in SUBSET Cookies :
        /\ opened = S
        /\ sessions \in {f \in [Cookies -> Maybe({NameOf[u] : u \in Users})] :
                            \A c \in Cookies : f[c] # Null <=> c \in S}
    /\ req = [q \in Requests |-> Idle]
    /\ begun = 0 /\ changes = 0 /\ faults = 0
    /\ closed = {}

At(q, step) == req[q].pc = step
Goto(q, r) == req' = [req EXCEPT ![q] = r]
Then(q, step) == Goto(q, [req[q] EXCEPT !.pc = step])
\* What is left to do once a handler is through, and once the log is told.
Left(r, step, outcome) ==
    [Idle EXCEPT !.pc = step, !.cookie = r.cookie, !.name = r.name, !.outcome = outcome]
\* A handler that throws gives a result as well, which the log is told.
Finish(q, outcome) == Goto(q, Left(req[q], "log", outcome))

Hang(q) == Goto(q, [Idle EXCEPT !.pc = "hung"])

Fault == faults < MaxFaults /\ faults' = faults + 1

docs == <<users, keys, tokens, sessions, opened, closed>>
rest == <<begun, changes, faults>>

-----------------------------------------------------------------------------
(* Who asks.                                                               *)

\* The session is read from the store with the request; the cookie of one that is gone
\* counts for nothing.
Arrive(q, cookie) ==
    /\ At(q, "idle") /\ begun < MaxBegun /\ begun' = begun + 1
    /\ cookie # Null => sessions[cookie] # Null
    /\ Goto(q, [Idle EXCEPT !.pc = "session", !.cookie = cookie,
                            !.name = IF cookie = Null THEN Null ELSE sessions[cookie],
                            !.known = LiveUsers \cup LiveKeys])
    /\ UNCHANGED <<docs, changes, faults>>

Deserialised(n) == Named(n)

\* A session whose name is nobody's is emptied.
DeserialiseUser(q) ==
    LET r == req[q] IN
    /\ At(q, "session")
    /\ \/ r.name = Null /\ Then(q, "token")
       \/ \E u \in Deserialised(r.name) :
            Goto(q, [r EXCEPT !.pc = "token", !.user = u])
       \/ r.name # Null /\ Deserialised(r.name) = {}
            /\ Goto(q, [r EXCEPT !.pc = "token", !.name = Null])
    /\ UNCHANGED <<docs, rest>>

\* `.catch(() => { return; })`: nobody calls done.
DeserialiseFails(q) ==
    /\ At(q, "session") /\ req[q].name # Null
    /\ Fault /\ Hang(q)
    /\ UNCHANGED <<docs, begun, changes>>

\* Mutant of KeyFound: a deleted key will do.
KeyFoundAny(k) == k \in Keys

KeyFound(k) == k \in Keys /\ keys[k].live

\* A token that does not stand leaves the user of the session.
TokenAuthentication(q, t) ==
    /\ At(q, "token")
    /\ t # Null => t \in tokens
    /\ IF t # Null /\ (t.key # Null => KeyFound(t.key))
       THEN Goto(q, [req[q] EXCEPT !.pc = "owner", !.token = t])
       ELSE Then(q, "handle")
    /\ UNCHANGED <<docs, rest>>

TokenFails(q) ==
    /\ At(q, "token") \/ At(q, "owner")
    /\ Fault /\ Then(q, "handle")
    /\ UNCHANGED <<docs, begun, changes>>

\* userRetrieval: the owner of the key or the user the system named.
UserRetrieval(q) ==
    LET r == req[q]
        u == IF r.token.key # Null THEN OwnerOf[r.token.key] ELSE r.token.user IN
    /\ At(q, "owner")
    /\ Goto(q, IF users[u].live
               THEN [r EXCEPT !.pc = "handle", !.token = Null, !.user = u, !.by = r.token.key]
               ELSE [r EXCEPT !.pc = "handle", !.token = Null])
    /\ UNCHANGED <<docs, rest>>

\* Downloads do not come this way.
Barred(r, call) == r.user \in Guests /\ call = "barred"

\* Guests are turned away before the log is told.
GuestProtection(q) ==
    /\ At(q, "handle") /\ Barred(req[q], "barred")
    /\ Goto(q, Left(req[q], "answered", "fail"))
    /\ UNCHANGED <<docs, rest>>

-----------------------------------------------------------------------------
(* Login and logout.                                                       *)

\* findOne({ username }): the index of the names lists the live user before deleted ones.
Candidates(n) ==
    IF Named(n) # {} THEN Named(n) ELSE {u \in Users : users[u].name = n}

\* Time in steps of fifteen seconds: a code is good for two of them.
Counter(t) == t \div 2
Horizon == 5

VerifyTOTP(made, at) == \E w \in -1..1 : Counter(at) + w = Counter(made)

\* The document is read once, and what follows looks at what it held: the password, the
\* code, the expiry date of a standard user.  The code was made on the user's device, whose
\* clock may be a step ahead.
Login(q, n) ==
    LET r == req[q] IN
    /\ At(q, "handle")
    /\ \/ Finish(q, "fail")
       \/ \E u \in Candidates(n), at \in 0..Horizon : \E made \in 0..at + 1 :
            /\ users[u].live /\ VerifyTOTP(made, at)
            /\ Goto(q, [r EXCEPT !.pc = "login", !.found = u, !.as = users[u].name])
    /\ UNCHANGED <<docs, rest>>

\* req.login: a session under a new cookie instead of the old one.
OpenSession(q) ==
    LET r == req[q] IN
    /\ At(q, "login")
    /\ \E c \in Cookies \ opened :
        /\ opened' = opened \cup {c}
        /\ sessions' = [d \in Cookies |-> IF d = c THEN r.as
                                          ELSE IF d = r.cookie THEN Null ELSE sessions[d]]
        /\ Goto(q, [Left(r, "log", "ok") EXCEPT !.cookie = c, !.name = r.as])
    /\ UNCHANGED <<users, keys, tokens, closed, rest>>

\* Without a requester the answer says so, and the session is left.
Logout(q) ==
    LET r == req[q] IN
    /\ At(q, "handle")
    /\ IF r.user = Null
       THEN Finish(q, "ok") /\ UNCHANGED <<sessions, closed>>
       ELSE /\ Goto(q, Left(Idle, "log", "ok"))
            /\ sessions' = [c \in Cookies |-> IF c = r.cookie THEN Null ELSE sessions[c]]
            /\ closed' = IF r.cookie = Null THEN closed ELSE closed \cup {r.cookie}
    /\ UNCHANGED <<users, keys, tokens, opened, rest>>

\* The callbacks of req.login and req.logout throw where nobody catches: no answer comes.
SessionStoreFails(q) ==
    /\ At(q, "login") \/ (At(q, "handle") /\ req[q].user # Null)
    /\ Fault /\ Hang(q)
    /\ UNCHANGED <<docs, begun, changes>>

-----------------------------------------------------------------------------
(* Access tokens.                                                          *)

\* requestAccessToken and getAccessToken find the user by name, then the key.
FindUser(q, call, n) ==
    LET r == req[q] IN
    /\ At(q, "handle")
    /\ \/ Named(n) = {} /\ Finish(q, "fail")
       \/ \E u \in Named(n) : Goto(q, [r EXCEPT !.pc = "key", !.call = call, !.found = u])
    /\ UNCHANGED <<docs, rest>>

\* For a token the answer carries a signature of the challenge.
FindKey(q, k) ==
    LET r == req[q] IN
    /\ At(q, "key")
    /\ \/ /\ KeyFound(k) /\ OwnerOf[k] = r.found
          /\ r.call = "get" => keys[k].challenge
          /\ Goto(q, [r EXCEPT !.pc = "use", !.key = k])
       \/ /\ KeyFound(k) /\ OwnerOf[k] = r.found => r.call = "get"
          /\ Finish(q, "fail")
    /\ UNCHANGED <<docs, rest>>

\* The key is found by its id whatever became of it.
SetChallenge(q) ==
    LET r == req[q] IN
    /\ At(q, "use") /\ r.call = "challenge"
    /\ keys' = [keys EXCEPT ![r.key].challenge = TRUE]
    /\ Finish(q, "ok")
    /\ UNCHANGED <<users, tokens, sessions, opened, closed, rest>>

GiveToken(q) ==
    LET r == req[q] IN
    /\ At(q, "use") /\ r.call \in {"get", "issue"}
    /\ tokens' = tokens \cup {[key |-> r.key, user |-> Null]}
    /\ Finish(q, "ok")
    /\ UNCHANGED <<users, keys, sessions, opened, closed, rest>>

\* issueAccessToken asks for `deleted: null`, a field no key has: any key is found.
IssueAccessToken(q, k) ==
    LET r == req[q] IN
    /\ At(q, "handle")
    /\ \/ Goto(q, [r EXCEPT !.pc = "use", !.call = "issue", !.key = k])
       \/ Finish(q, "fail")
    /\ UNCHANGED <<docs, rest>>

-----------------------------------------------------------------------------
(* Other calls, the log and the answer.                                    *)

Reply(q, ok) ==
    /\ At(q, "handle")
    /\ Finish(q, IF ok THEN "ok" ELSE "fail")
    /\ UNCHANGED <<docs, rest>>

MayAskAbout(q, u) == req[q].user # Null /\ (req[q].user \in Admins \/ req[q].user = u)

GetUser(q, u) == Reply(q, MayAskAbout(q, u) /\ users[u].live)

\* Admins are given all users, others those who share files with them.
GetUsers(q) == Reply(q, req[q].user # Null)

GetUserKeys(q, u) == Reply(q, MayAskAbout(q, u))

\* The token of a mail either is one of a live user or is not.
ValidateResetPassword(q) == \E ok \in BOOLEAN : Reply(q, ok)

\* Either a name or an address has to be given; a user who is not found is no failure.
RequestExpiryDate(q, named) == Reply(q, named)

GetLogs(q) == ~Barred(req[q], "barred") /\ Reply(q, req[q].user \in Admins)

\* The handlers of the other modules.
OtherCall(q, call) == ~Barred(req[q], call) /\ \E ok \in BOOLEAN : Reply(q, ok)

\* fileDownloadController finds the file and its bucket, or refuses.
FileDownload(q) ==
    /\ At(q, "handle")
    /\ \E o \in {"ok", "fail"} : Goto(q, [Left(req[q], "log", o) EXCEPT !.call = "file"])
    /\ UNCHANGED <<docs, rest>>

\* The outcome that the answer and the log tell.
Ended(r, outcome, logged) == [Left(r, "answered", outcome) EXCEPT !.logged = logged]

\* A file that was found is logged before its object is asked for, which may fail.
Logged(q) ==
    LET r == req[q] IN
    \/ Goto(q, Ended(r, r.outcome, r.outcome))
    \/ r.call = "file" /\ r.outcome = "ok" /\ Goto(q, [r EXCEPT !.pc = "relog"])

\* tRPCBaseProcedureMilldeware and fileDownloadController.
Log(q) ==
    /\ At(q, "log") /\ Logged(q)
    /\ UNCHANGED <<docs, rest>>

\* The log of the failed download comes after the log of its success.
LogAgain(q) ==
    /\ At(q, "relog")
    /\ Goto(q, Ended(req[q], "fail", "fail"))
    /\ UNCHANGED <<docs, rest>>

\* The result is lost with the log, not what the handler did.  A download tries the log once
\* more, and is never answered if that fails too.
LogFails(q) ==
    LET r == req[q] IN
    /\ At(q, "log") \/ At(q, "relog")
    /\ Fault
    /\ IF r.call # "file" THEN Goto(q, Ended(r, "fail", "none"))
       ELSE IF At(q, "log") THEN Then(q, "relog") ELSE Hang(q)
    /\ UNCHANGED <<docs, begun, changes>>

\* Mutant of Stored: the session is saved whether it changed or not (resave: true).
StoredAgain(r) ==
    IF r.cookie = Null THEN sessions ELSE [sessions EXCEPT ![r.cookie] = r.name]

\* express-session at the end of a request: only what the request changed is saved.
Stored(r) ==
    IF r.cookie # Null /\ r.name = Null THEN [sessions EXCEPT ![r.cookie] = Null] ELSE sessions

Answer(q) ==
    /\ At(q, "answered")
    /\ sessions' = Stored(req[q])
    /\ Goto(q, Idle)
    /\ UNCHANGED <<users, keys, tokens, opened, closed, rest>>

-----------------------------------------------------------------------------
(* What happens to accounts, keys, sessions and tokens meanwhile.          *)

Change == changes < MaxChanges /\ changes' = changes + 1 /\ UNCHANGED <<req, begun, faults>>

\* editUser; no two live users share a name.
Rename(u, n) ==
    /\ users[u].live /\ Named(n) = {} /\ Change
    /\ users' = [users EXCEPT ![u].name = n]
    /\ UNCHANGED <<keys, tokens, sessions, opened, closed>>

DeleteUser(u) ==
    /\ users[u].live /\ Change
    /\ users' = [users EXCEPT ![u].live = FALSE]
    /\ UNCHANGED <<keys, tokens, sessions, opened, closed>>

DeletePubkey(k) ==
    /\ keys[k].live /\ Change
    /\ keys' = [keys EXCEPT ![k].live = FALSE]
    /\ UNCHANGED <<users, tokens, sessions, opened, closed>>

\* createContainer asks for a token for the user's instance.
IssueSystemAccessToken(u) ==
    /\ users[u].live /\ [key |-> Null, user |-> u] \notin tokens /\ Change
    /\ tokens' = tokens \cup {[key |-> Null, user |-> u]}
    /\ UNCHANGED <<users, keys, sessions, opened, closed>>

\* The life of a token or a session runs out.
Lapse ==
    /\ \/ \E t \in tokens : tokens' = tokens \ {t} /\ UNCHANGED sessions
       \/ \E c \in Cookies : sessions[c] # Null /\ sessions' = [sessions EXCEPT ![c] = Null]
                             /\ UNCHANGED tokens
    /\ Change
    /\ UNCHANGED <<users, keys, opened, closed>>

-----------------------------------------------------------------------------

\* The routers of the API see the user who asks.
Handle(q) ==
    \/ \E n \in Names : Login(q, n) \/ FindUser(q, "challenge", n) \/ FindUser(q, "get", n)
    \/ \E k \in Keys : FindKey(q, k) \/ IssueAccessToken(q, k)
    \/ OpenSession(q) \/ Logout(q) \/ SessionStoreFails(q)
    \/ SetChallenge(q) \/ GiveToken(q)
    \/ \E u \in Users : GetUser(q, u) \/ GetUserKeys(q, u)
    \/ GetUsers(q) \/ ValidateResetPassword(q) \/ GetLogs(q)
    \/ \E named \in BOOLEAN : RequestExpiryDate(q, named)
    \/ \E call \in {"open", "barred"} : OtherCall(q, call)
    \/ FileDownload(q)

Next ==
    \/ \E q \in Requests :
        \/ \E c \in Maybe(Cookies) : Arrive(q, c)
        \/ DeserialiseUser(q) \/ DeserialiseFails(q)
        \/ \E t \in Maybe(tokens) : TokenAuthentication(q, t)
        \/ TokenFails(q) \/ UserRetrieval(q)
        \/ GuestProtection(q)
        \/ Handle(q) \/ Log(q) \/ LogAgain(q) \/ LogFails(q) \/ Answer(q)
    \/ \E u \in Users :
        \/ \E n \in Names : Rename(u, n)
        \/ DeleteUser(u) \/ IssueSystemAccessToken(u)
    \/ \E k \in Keys : DeletePubkey(k)
    \/ Lapse

Spec == Init /\ [][Next]_vars

-----------------------------------------------------------------------------

TypeOK ==
    /\ users \in [Users -> User]
    /\ keys \in [Keys -> Key]
    /\ tokens \subseteq Token
    /\ sessions \in [Cookies -> Maybe(Names)]
    /\ req \in [Requests -> Request]
    /\ begun \in 0..MaxBegun /\ changes \in 0..MaxChanges /\ faults \in 0..MaxFaults
    /\ opened \subseteq Cookies /\ closed \subseteq Cookies

\* Whoever a request acts as was a live user when it arrived, as was the key it acts by: neither
\* a session that outlives its user nor the token of a deleted key lets anybody act
\* (userLoginUtils.ts _getUser, pubkeyAuthentication.ts userRetrieval).
ActsAsLive == \A q \in Requests :
    {req[q].user, req[q].found, req[q].by} \subseteq Maybe(req[q].known)

\* A session that was logged out of stays empty: a request of the same session that was under
\* way at the time does not bring it back (router.ts session, resave: false).
LogoutIsFinal == \A c \in closed : sessions[c] = Null

\* A one-time code is refused for no delay up to thirty seconds and accepted after none of a
\* minute or more, wherever in its step it was made (mfa.ts verifyTOTP).
CodeHolds ==
    \A at \in 0..Horizon : \A made \in 0..at :
        /\ at - made <= 2 => VerifyTOTP(made, at)
        /\ at - made >= 4 => ~VerifyTOTP(made, at)

\* An answer of success has its entry in the log, also when the handler, the log and the answer
\* are interleaved with failures (middleware.ts, fileDownload.ts).
SuccessIsLogged ==
    \A q \in Requests : req[q].pc = "answered" /\ req[q].outcome = "ok" => req[q].logged = "ok"

\* All of it: who acts is who was let in, by a code that holds, and success leaves a trace.
CallsAccounted == ActsAsLive /\ CodeHolds /\ SuccessIsLogged
=============================================================================
