----------------------------- MODULE Enrolments -----------------------------
(***************************************************************************)
(* Authenticators as the browser sees them (dmpWebauthn of the web         *)
(* interface): the list of users who may log in with an authenticator of   *)
(* this machine, kept in the browser's storage for all its tabs, against   *)
(* the documents of those users at the server.                             *)
(*                                                                         *)
(* A tab reads the list once, when it is loaded, and from then on writes   *)
(* its own; answers are cached by the list they were asked for; a handler  *)
(* keeps the list of the moment its button was pressed.  The storage may   *)
(* refuse a write, and the tab goes on with the list it meant to write.    *)
(* Module Authenticators has the server's side, where each call here is    *)
(* several steps.  Left out: names of devices, and the time a write of the *)
(* storage takes.                                                          *)
(***************************************************************************)
EXTENDS Naturals

CONSTANTS
    Users,
    Tabs,
    MaxClicks,  \* bound on what the user does
    MaxFaults,  \* bound on calls, readings and writes that fail
    Null

Machines == {"here", "away"}

\* What the constants are meant to be.
ConstantsOK ==
    /\ Null \notin Users
    /\ (\A s \in SUBSET Machines : s # Null) /\ (\A s \in SUBSET Users : s # Null)
    /\ MaxClicks \in Nat /\ MaxFaults \in Nat

VARIABLES
    docs,     \* the machines each user has a device on, or Null without a document
    session,  \* the user of the cookie, which the tabs share
    stored,   \* `enrolledCredentials` in the browser's storage
    tabs,
    enrolled, \* users a handler has put on the list, whose device is still there (history)
    missed,   \* users off the list by what had not heard of them, or was out of date (history)
    unsaved,  \* users off the list because the write that had them was refused (history)
    clicks, faults

enrolment == <<docs, session, stored, tabs, enrolled, missed, unsaved, clicks, faults>>

-----------------------------------------------------------------------------

Pages == {"main", "profile", "register", "authenticate", "nickname"}
Maybe(S) == S \cup {Null}
DevicesOf(u) == IF docs[u] = Null THEN {} ELSE docs[u]

\* The answer of getWebauthn about a list: who of them has a device.
WithDevices(list) == {u \in list : DevicesOf(u) # {}}

\* What a tab has in mind: the list, the user it takes for logged in, the
\* cached answers, the users shown, whether an answer is yet to be acted on,
\* the registration and the profile's question under way.
NoRegistration == [step |-> "none", user |-> Null, held |-> {}, known |-> FALSE]
NoQuestion == [step |-> "none", user |-> Null, has |-> FALSE]
Tab == [page : Pages, credentials : SUBSET Users, login : Maybe(Users),
        cache : [SUBSET Users -> Maybe(SUBSET Users)], shown : SUBSET Users, due : BOOLEAN,
        registration : [step : {"none", "prompt", "known", "verified"}, user : Maybe(Users),
                        held : SUBSET Users, known : BOOLEAN],
        question : [step : {"none", "asked", "answered"}, user : Maybe(Users), has : BOOLEAN]]

\* A tab just loaded (AuthProvider, useLocalForage); a list that cannot be
\* read is taken for empty.
Loaded(page, list, login) ==
    [page |-> page, credentials |-> list, login |-> login,
     cache |-> [l \in SUBSET Users |-> Null], shown |-> {}, due |-> FALSE,
     registration |-> NoRegistration, question |-> NoQuestion]

Init ==
    /\ docs = [u \in Users |-> Null]
    /\ session = Null
    /\ stored = {}
    /\ tabs = [t \in Tabs |-> Loaded("main", {}, Null)]
    /\ enrolled = {}
    /\ missed = {} /\ unsaved = {}
    /\ clicks = 0 /\ faults = 0

Becomes(t, tab) == tabs' = [tabs EXCEPT ![t] = tab]
Click == clicks < MaxClicks /\ clicks' = clicks + 1
Fault == faults < MaxFaults /\ faults' = faults + 1

\* setCredentials: the tab has the list before the storage does, which may refuse it, and
\* the lists of the other tabs are none the wiser.  To the page to authenticate with
\* another list is another question, whose answer it may have.
SetCredentials(t, tab, list) ==
    /\ Becomes(t, [tab EXCEPT !.credentials = list,
                              !.due = IF list = tab.credentials THEN @
                                      ELSE tab.page = "authenticate" /\ tab.cache[list] # Null])
    /\ \/ stored' = list /\ UNCHANGED faults
       \/ UNCHANGED stored /\ Fault
    /\ unsaved' = (unsaved \cup list) \ stored'

\* Users who belong on the list are off it, and whoever wrote it did not know of them.
Misses(due, known) == missed' = (missed \cup (due \ known)) \ stored'

-----------------------------------------------------------------------------
(* Pages, and who is logged in (Fence, MainMenuBar, LoginBox).             *)

\* A page is opened or loaded again.
Open(t, page) ==
    /\ Click
    /\ \/ Becomes(t, Loaded(page, stored, session)) /\ UNCHANGED faults
       \/ Becomes(t, Loaded(page, {}, session)) /\ Fault
    /\ UNCHANGED <<docs, session, stored, enrolled, missed, unsaved>>

\* Pages that show a login form while nobody is logged in.
Restricted(page) == page \in {"main", "profile"}

\* Links and buttons.
Leads(tab) ==
    CASE Restricted(tab.page) /\ tab.login = Null ->
            IF tab.credentials # {} THEN {"authenticate"} ELSE {}
      [] tab.page = "main" /\ tab.login # Null -> {"profile"}
      [] tab.page = "profile" /\ tab.login # Null -> {"register", "main"}
      [] tab.page \in {"register", "authenticate"} -> {"main"}
      [] tab.page = "nickname" -> {"profile", "main"}

\* A page that is left asks no more, and a cached answer is acted on at once.
Moved(tab, page) ==
    [tab EXCEPT !.page = page, !.shown = {}, !.question = NoQuestion,
                !.due = page = "authenticate" /\ tab.cache[tab.credentials] # Null]

Go(t) ==
    /\ Click
    /\ \E page \in Leads(tabs[t]) : Becomes(t, Moved(tabs[t], page))
    /\ UNCHANGED <<docs, session, stored, enrolled, missed, unsaved, faults>>

\* The question who is logged in is asked again.
WhoAmI(t) ==
    /\ tabs[t].login # session
    /\ Becomes(t, [tabs[t] EXCEPT !.login = session])
    /\ UNCHANGED <<docs, session, stored, enrolled, missed, unsaved, clicks, faults>>

\* Both end with the page loaded again.
LogIn(t, u) ==
    /\ Click
    /\ Restricted(tabs[t].page) /\ tabs[t].login = Null
    /\ session' = u
    /\ Becomes(t, Loaded(tabs[t].page, stored, u))
    /\ UNCHANGED <<docs, stored, enrolled, missed, unsaved, faults>>
LogOut(t) ==
    /\ Click
    /\ Restricted(tabs[t].page) /\ tabs[t].login # Null
    /\ session' = Null
    /\ Becomes(t, Loaded("main", stored, Null))
    /\ UNCHANGED <<docs, stored, enrolled, missed, unsaved, faults>>

-----------------------------------------------------------------------------
(* The page to authenticate with (WebAuthnAuthenticationComponent).        *)

\* The answer about the list; one that is news is acted on.
AskWebauthn(t) ==
    LET list == tabs[t].credentials
        answer == WithDevices(list)
    IN  /\ tabs[t].page = "authenticate" /\ ~tabs[t].due
        /\ tabs[t].cache[list] # answer
        /\ Becomes(t, [tabs[t] EXCEPT !.cache[list] = answer, !.due = TRUE])
        /\ UNCHANGED <<docs, session, stored, enrolled, missed, unsaved, clicks, faults>>

\* With nobody to show, the list is given up; otherwise it is set again as it
\* is, when the users shown change.
ActOnAnswer(t) ==
    LET tab == [tabs[t] EXCEPT !.due = FALSE]
        answer == tab.cache[tab.credentials]
        list == IF answer = {} THEN {} ELSE tab.credentials
    IN  /\ tabs[t].page = "authenticate" /\ tabs[t].due
        /\ IF answer # {} /\ answer = tab.shown
           THEN Becomes(t, tab) /\ UNCHANGED <<stored, missed, unsaved, faults>>
           ELSE /\ SetCredentials(t, IF answer = {} THEN Moved(tab, "main")
                                     ELSE [tab EXCEPT !.shown = answer], list)
                /\ Misses(stored, tab.credentials \ (WithDevices(tab.credentials) \ answer))
        /\ UNCHANGED <<docs, session, enrolled, clicks>>

\* A user who is logged in has no business here.
Leave(t) ==
    /\ tabs[t].page = "authenticate" /\ tabs[t].login # Null /\ ~tabs[t].due
    /\ Becomes(t, Moved(tabs[t], "main"))
    /\ UNCHANGED <<docs, session, stored, enrolled, missed, unsaved, clicks, faults>>

\* The users to choose from.
Offered(tab) == IF tab.credentials = {} THEN {} ELSE tab.shown

\* webauthnLogin, of an account that has not expired.
WebauthnLogin(u) == session' = u

\* handleWebAuthnAuthentication, to the end: a device of this machine signs,
\* and the login is followed by a page loaded anew.
Authenticate(t, u) ==
    /\ Click
    /\ tabs[t].page = "authenticate"
    /\ u \in Offered(tabs[t]) /\ "here" \in DevicesOf(u)
    /\ WebauthnLogin(u)
    /\ Becomes(t, Loaded("main", stored, u))
    /\ UNCHANGED <<docs, stored, enrolled, missed, unsaved, faults>>

-----------------------------------------------------------------------------
(* Registration (WebAuthnRegistrationComponent).                           *)

\* handleWebAuthnRegistration as far as the browser's prompt.
Register(t) ==
    LET u == session IN
    /\ Click
    /\ tabs[t].page = "register" /\ tabs[t].login # Null
    /\ tabs[t].registration.step = "none"
    /\ u # Null
    /\ docs' = [docs EXCEPT ![u] = DevicesOf(u)]
    /\ Becomes(t, [tabs[t] EXCEPT !.registration =
                      [step |-> "prompt", user |-> u, held |-> tabs[t].credentials,
                       known |-> "here" \in DevicesOf(u)]])
    /\ UNCHANGED <<session, stored, enrolled, missed, unsaved, faults>>

\* The device is known already; or it is new, and verified if the user of the
\* session is still the same; or nothing comes of it.  The verification's
\* answer may get lost.
Prompted(t) ==
    LET r == tabs[t].registration
        tab(step) == [tabs[t] EXCEPT !.registration.step = step]
        ended == [tabs[t] EXCEPT !.registration = NoRegistration]
    IN  /\ r.step = "prompt"
        /\ \/ r.known /\ Becomes(t, tab("known")) /\ UNCHANGED <<docs, faults>>
           \/ /\ ~r.known /\ session = r.user /\ docs[r.user] # Null
              /\ docs' = [docs EXCEPT ![r.user] = @ \cup {"here"}]
              /\ \/ Becomes(t, tab("verified")) /\ UNCHANGED faults
                 \/ Becomes(t, ended) /\ Fault
           \/ Becomes(t, ended) /\ UNCHANGED <<docs, faults>>
        /\ UNCHANGED <<session, stored, enrolled, missed, unsaved, clicks>>

\* The list held since the button was pressed, with the user on it; nothing is written for
\* one who was on it then.
Enrol(t, r, page) ==
    LET tab == [tabs[t] EXCEPT !.registration = NoRegistration]
    IN  IF r.user \notin r.held
        THEN /\ SetCredentials(t, IF page = tab.page THEN tab ELSE Moved(tab, page),
                               r.held \cup {r.user})
             /\ Misses(stored, r.held)
        ELSE /\ Becomes(t, tab)
             /\ UNCHANGED <<stored, unsaved, faults>>
             /\ Misses({r.user}, {})

\* Verified: the user is put on the list and asked for a name of the device;
\* for one who was on it there is an error message instead.
Verified(t) ==
    LET r == tabs[t].registration
    IN  /\ r.step = "verified"
        /\ Enrol(t, r, "nickname")
        /\ enrolled' = IF "here" \in DevicesOf(r.user) THEN enrolled \cup {r.user} ELSE enrolled
        /\ UNCHANGED <<docs, session, clicks>>

\* The device was registered before (InvalidStateError): the user is put on
\* the list as well, first by an answer about the user of the session, if the
\* page is still there.
Known(t) ==
    LET r == tabs[t].registration
        tab == [tabs[t] EXCEPT !.registration = NoRegistration]
    IN  /\ r.step = "known"
        /\ IF r.user \in r.held /\ tab.page = "register" /\ session # Null
              /\ DevicesOf(session) # {} /\ session \notin tab.credentials
           THEN /\ SetCredentials(t, tab, tab.credentials \cup {session})
                /\ Misses(stored \cup {r.user}, tab.credentials)
           ELSE Enrol(t, r, tab.page)
        /\ enrolled' = IF "here" \in DevicesOf(r.user) THEN enrolled \cup {r.user} ELSE enrolled
        /\ UNCHANGED <<docs, session, clicks>>

-----------------------------------------------------------------------------
(* The profile (MyWebauthn), and other browsers.                           *)

\* A user without a device, by an answer that may be a cached one: the
\* document is asked for ...
FetchWebAuthnID(t) ==
    /\ tabs[t].page = "profile" /\ tabs[t].login # Null /\ session # Null
    /\ \/ tabs[t].question.step = "none"
          /\ Becomes(t, [tabs[t] EXCEPT !.question.step = "asked"])
       \/ tabs[t].question.step = "asked"
          /\ Becomes(t, [tabs[t] EXCEPT !.question =
                            [step |-> "answered", user |-> IF docs[session] = Null THEN Null ELSE session,
                             has |-> DevicesOf(session) # {}]])
    /\ UNCHANGED <<docs, session, stored, enrolled, missed, unsaved, clicks, faults>>

\* Mutant of Listed: whoever asked is taken off the list.
ListedNot(list, u, has) == list \ {u}

\* ... and the user taken off the list, or put on it if there is a device now.
Listed(list, u, has) == IF has THEN list \cup {u} ELSE list \ {u}
FetchedWebAuthnID(t) ==
    LET tab == [tabs[t] EXCEPT !.question = NoQuestion]
        q == tabs[t].question
        list == Listed(tab.credentials, q.user, q.has)
    IN  /\ q.step = "answered"
        /\ IF q.user = Null \/ list = tab.credentials
           THEN Becomes(t, tab) /\ UNCHANGED <<stored, missed, unsaved, faults>>
           ELSE /\ SetCredentials(t, tab, list)
                /\ Misses(stored, IF q.has = (DevicesOf(q.user) # {}) THEN tab.credentials
                                  ELSE tab.credentials \ {q.user})
        /\ UNCHANGED <<docs, session, enrolled, clicks>>

Deleted(u, m) ==
    /\ m \in DevicesOf(u)
    /\ docs' = [docs EXCEPT ![u] = @ \ {m}]
    /\ enrolled' = IF m = "here" THEN enrolled \ {u} ELSE enrolled

HandleDeleteDevice(t) ==
    /\ Click
    /\ tabs[t].page = "profile" /\ tabs[t].login # Null /\ session # Null
    /\ \E m \in Machines : Deleted(session, m)
    /\ UNCHANGED <<session, stored, tabs, missed, unsaved, faults>>

\* A user registers or deletes a device in another browser.
Elsewhere(u) ==
    /\ Click
    /\ \/ /\ docs' = [docs EXCEPT ![u] = DevicesOf(u) \cup {"away"}]
          /\ docs' # docs
          /\ UNCHANGED enrolled
       \/ \E m \in Machines : Deleted(u, m)
    /\ UNCHANGED <<session, stored, tabs, missed, unsaved, faults>>

Next ==
    \/ \E t \in Tabs :
         \/ \E page \in Pages : Open(t, page)
         \/ Go(t) \/ WhoAmI(t) \/ LogOut(t)
         \/ \E u \in Users : LogIn(t, u) \/ Authenticate(t, u)
         \/ AskWebauthn(t) \/ ActOnAnswer(t) \/ Leave(t)
         \/ Register(t) \/ Prompted(t) \/ Verified(t) \/ Known(t)
         \/ FetchWebAuthnID(t) \/ FetchedWebAuthnID(t) \/ HandleDeleteDevice(t)
    \/ \E u \in Users : Elsewhere(u)

Spec == Init /\ [][Next]_enrolment

-----------------------------------------------------------------------------
(* Properties.                                                             *)

\* Type invariant.
TypeOK ==
    /\ docs \in [Users -> Maybe(SUBSET Machines)]
    /\ session \in Maybe(Users)
    /\ stored \subseteq Users
    /\ tabs \in [Tabs -> Tab]
    /\ enrolled \subseteq Users /\ missed \subseteq Users /\ unsaved \subseteq Users
    /\ clicks \in 0..MaxClicks /\ faults \in 0..MaxFaults

\* A user who has registered a device of this machine is offered to log in with it, as
\* long as it is registered, whatever the other users do and whichever write fails: who is
\* off the browser's list was on a list whose write was refused, or is someone that the tab
\* which wrote it, or the answer or the handler it went by, had not heard of.
StaysOffered == enrolled \subseteq stored \cup missed \cup unsaved
=============================================================================
