------------------------------ MODULE Accounts ------------------------------
(***************************************************************************)
(* User accounts (userCore.ts) with the study roles that list users        *)
(* (permissionCore.ts) and the registers of organisations, domains and     *)
(* public keys (organisationCore.ts, domainCore.ts, userCore.ts).          *)
(*                                                                         *)
(* An account is made, edited, deleted and has its password reset by       *)
(* handlers that read, compare and write in separate calls.  Nothing locks *)
(* a document; the unique indexes of the database                          *)
(* (collectionsAndIndexes.ts) refuse a write that repeats a name.          *)
(*                                                                         *)
(* Left out: profiles, pictures, logos and other fields of no consequence  *)
(* here, the form of names and passwords, sessions and access tokens, who  *)
(* may ask for what (a refusal is a request that never begins), and the    *)
(* kinds of users save for guests.  The users a role is given are ids that *)
(* nobody looks up: those of deleted users, and of nobody yet, among them. *)
(***************************************************************************)
EXTENDS Naturals

CONSTANTS
    Users,     \* ids of users
    Seeds,     \* users the setup inserts: they have neither drive nor config
    SeedName,  \* their names
    SeedMail,  \* and their email addresses
    Names, Mails,
    Tokens,    \* ids of requests to reset a password
    Roles,     \* ids of study roles
    Entries,   \* ids of organisations, domains and public keys
    Labels,    \* names of organisations, paths of domains, public keys themselves
    Requests,  \* requests under way at the API server
    MaxBegun,  \* bound on the requests begun
    MaxFaults, \* bound on failures and restarts
    Null

Maybe(S) == S \cup {Null}

Kinds == {"none", "organisation", "domain", "pubkey"}

\* `secret` stands for the password together with the secret of one-time passwords; 0 is
\* the dummy of a deleted user.
User == [name : Names, mail : Mails, guest : BOOLEAN, live : BOOLEAN, secret : Nat]
Token == [user : Users, mail : Mails, used : BOOLEAN, old : BOOLEAN]
Role == [users : SUBSET Users, guest : BOOLEAN, live : BOOLEAN]
Entry == [kind : Kinds, label : Labels, live : BOOLEAN]

ConstantsOK ==
    /\ Seeds \subseteq Users
    /\ SeedName \in [Seeds -> Names] /\ SeedMail \in [Seeds -> Mails]
    /\ \A u, v \in Seeds : SeedName[u] = SeedName[v] \/ SeedMail[u] = SeedMail[v] => u = v
    /\ MaxBegun \in Nat /\ MaxFaults \in Nat
    /\ Null \notin Users \cup Names \cup Mails \cup Tokens \cup Roles \cup Entries \cup Labels
    /\ Null \notin User \cup Token \cup Role \cup Entry

VARIABLES
    users,     \* users_collection
    tokens,    \* resetPasswordRequests of the users
    drives,    \* users with a folder 'My Drive'
    configs,   \* users with a config
    roles,     \* roles_collection
    entries,   \* organisations_collection, domains_collection and pubkeys_collection
    mailed,    \* the secret last mailed to each user
    secrets,   \* secrets made so far
    req,       \* progress of each request
    begun,     \* requests begun so far
    faults,    \* failures and restarts so far
    resets,    \* how often each token changed a password (history variable)
    unpulled,  \* users whose deletion died before their roles were told (history variable)
    mixed,     \* roles written by a request that another one overlapped (history variable)
    strangers  \* roles with the users they were given by id who were not live when the
               \* request began (history variable)

docs == <<users, tokens, drives, configs, roles, entries, mailed, secrets>>
vars == <<docs, req, begun, faults, resets, unpulled, mixed, strangers>>

-----------------------------------------------------------------------------

Steps == {"idle", "user", "drive", "config", "welcome", "set", "mark", "pull", "invalidate",
          "push", "reset", "send", "addrole", "setrole", "droprole", "join",
          "enter", "relabel", "unlist"}

Request == [pc : Steps, user : Maybe(Users), name : Maybe(Names), mail : Maybe(Mails),
            secret : Nat, guest : BOOLEAN, token : Maybe(Tokens), role : Maybe(Roles),
            list : SUBSET Users, strange : SUBSET Users,
            todo : SUBSET Roles, entry : Maybe(Entries),
            kind : Kinds, label : Maybe(Labels), alone : BOOLEAN]

Idle == [pc |-> "idle", user |-> Null, name |-> Null, mail |-> Null, secret |-> 0,
         guest |-> FALSE, token |-> Null, role |-> Null, list |-> {}, strange |-> {}, todo |-> {},
         entry |-> Null, kind |-> "none", label |-> Null, alone |-> FALSE]

Live(u) == users[u] # Null /\ users[u].live
LiveUsers == {u \in Users : Live(u)}
Guest(u) == users[u] # Null /\ users[u].guest
LiveRole(x) == roles[x] # Null /\ roles[x].live
LiveEntry(e) == entries[e] # Null /\ entries[e].live
Open(t) == tokens[t] # Null /\ ~tokens[t].used
FreshUsers == {u \in Users : users[u] = Null}
FreshTokens == {t \in Tokens : tokens[t] = Null}
FreshRoles == {x \in Roles : roles[x] = Null}
FreshEntries == {e \in Entries : entries[e] = Null}

Init ==
    /\ users = [u \in Users |-> IF u \in Seeds
                                THEN [name |-> SeedName[u], mail |-> SeedMail[u],
                                      guest |-> FALSE, live |-> TRUE, secret |-> 1]
                                ELSE Null]
    /\ tokens = [t \in Tokens |-> Null]
    /\ drives = {} /\ configs = {}
    /\ roles = [x \in Roles |-> Null]
    /\ entries = [e \in Entries |-> Null]
    /\ mailed = [u \in Users |-> 0]
    /\ secrets = 1
    /\ req = [q \in Requests |-> Idle]
    /\ begun = 0 /\ faults = 0
    /\ resets = [t \in Tokens |-> 0]
    /\ unpulled = {} /\ mixed = {} /\ strangers = {}

-----------------------------------------------------------------------------
(* How requests begin, go on and end.                                      *)

\* `alone` remembers that no other request has been under way since this one began.
MayBegin(q) == req[q].pc = "idle" /\ begun < MaxBegun
Begin(q, r) ==
    /\ MayBegin(q) /\ begun' = begun + 1
    /\ req' = [p \in Requests |->
                IF p = q THEN [r EXCEPT !.alone = \A o \in Requests : req[o].pc = "idle"]
                ELSE [req[p] EXCEPT !.alone = FALSE]]
    /\ UNCHANGED <<docs, faults, resets, unpulled, mixed, strangers>>

At(q, step) == req[q].pc = step
Goto(q, r) == req' = [req EXCEPT ![q] = r] /\ UNCHANGED <<begun, faults, unpulled>>
Then(q, step) == Goto(q, [req[q] EXCEPT !.pc = step])
End(q) == Goto(q, Idle)

\* What becomes of the roles written: `strange` are those of the list who were not live.
Note(q, written) ==
    /\ mixed' = IF req[q].alone THEN mixed ELSE mixed \cup written
    /\ strangers' = strangers \cup (written \X req[q].strange)

\* The unique indexes of users_collection: name and address with the time of deletion.
Taken(u, name, mail) ==
    \E v \in LiveUsers \ {u} : users[v].name = name \/ users[v].mail = mail

-----------------------------------------------------------------------------
(* createUser: the user, the drive, the config, the mail.                  *)

\* Deleted users are compared with as well.
CreateUser(q, name, mail, guest) ==
    /\ \A u \in Users : users[u] # Null => users[u].name # name /\ users[u].mail # mail
    /\ Begin(q, [Idle EXCEPT !.pc = "user", !.name = name, !.mail = mail, !.guest = guest])

InsertUser(q) ==
    LET r == req[q] IN
    /\ At(q, "user")
    /\ \/ /\ Taken(Null, r.name, r.mail)
          /\ End(q) /\ UNCHANGED <<users, secrets>>
       \/ \E u \in FreshUsers :
            /\ ~Taken(u, r.name, r.mail)
            /\ secrets' = secrets + 1
            /\ users' = [users EXCEPT ![u] = [name |-> r.name, mail |-> r.mail,
                                               guest |-> r.guest, live |-> TRUE,
                                               secret |-> secrets']]
            /\ Goto(q, [r EXCEPT !.pc = "drive", !.user = u, !.secret = secrets'])
    /\ UNCHANGED <<tokens, drives, configs, roles, entries, mailed, resets, mixed, strangers>>

InsertDrive(q) ==
    /\ At(q, "drive")
    /\ drives' = drives \cup {req[q].user}
    /\ Then(q, "config")
    /\ UNCHANGED <<users, tokens, configs, roles, entries, mailed, secrets, resets,
                   mixed, strangers>>

InsertConfig(q) ==
    /\ At(q, "config")
    /\ configs' = configs \cup {req[q].user}
    /\ Then(q, "welcome")
    /\ UNCHANGED <<users, tokens, drives, roles, entries, mailed, secrets, resets,
                   mixed, strangers>>

MailWelcome(q) ==
    /\ At(q, "welcome")
    /\ mailed' = [mailed EXCEPT ![req[q].user] = req[q].secret]
    /\ End(q)
    /\ UNCHANGED <<users, tokens, drives, configs, roles, entries, secrets, resets,
                   mixed, strangers>>

-----------------------------------------------------------------------------
(* editUser and deleteUser.                                                *)

\* Names are compared with those of live users only; `renew` is a new password or secret.
EditUser(q, u, name, mail, renew) ==
    /\ Live(u)
    /\ name \notin {Null, users[u].name} => \A v \in LiveUsers : users[v].name # name
    /\ mail \notin {Null, users[u].mail} => \A v \in LiveUsers : users[v].mail # mail
    /\ Begin(q, [Idle EXCEPT !.pc = "set", !.user = u, !.name = name, !.mail = mail,
                              !.secret = IF renew THEN 1 ELSE 0])

Given(new, old) == IF new # Null THEN new ELSE old

\* Mutant of SetUser: what is not given is written all the same.
SetUserRaw(q) ==
    LET r == req[q] IN
    /\ At(q, "set")
    /\ users' = [users EXCEPT ![r.user].name = r.name, ![r.user].mail = r.mail]
    /\ End(q)
    /\ UNCHANGED <<tokens, drives, configs, roles, entries, mailed, secrets, resets,
                   mixed, strangers>>

\* The update names the user by id alone: it reaches one deleted meanwhile.
SetUser(q) ==
    LET r == req[q]
        u == r.user
        name == Given(r.name, users[u].name)
        mail == Given(r.mail, users[u].mail)
    IN /\ At(q, "set")
       /\ IF Live(u) /\ Taken(u, name, mail)
          THEN UNCHANGED <<users, secrets>>
          ELSE /\ secrets' = secrets + r.secret
               /\ users' = [users EXCEPT ![u].name = name, ![u].mail = mail,
                                         ![u].secret = IF r.secret = 0 THEN @ ELSE secrets']
       /\ End(q)
       /\ UNCHANGED <<tokens, drives, configs, roles, entries, mailed, resets, mixed, strangers>>

DeleteUser(q, u) ==
    /\ Live(u)
    /\ Begin(q, [Idle EXCEPT !.pc = "mark", !.user = u])

MarkUser(q) ==
    LET u == req[q].user IN
    /\ At(q, "mark")
    /\ users' = IF Live(u) THEN [users EXCEPT ![u].live = FALSE, ![u].secret = 0] ELSE users
    /\ Then(q, "pull")
    /\ UNCHANGED <<tokens, drives, configs, roles, entries, mailed, secrets, resets,
                   mixed, strangers>>

\* Mutant of PullRoles: the roles of guests are forgotten.
PullRolesOfMembers(q) ==
    /\ At(q, "pull")
    /\ roles' = [x \in Roles |-> IF LiveRole(x) /\ ~roles[x].guest
                                 THEN [roles[x] EXCEPT !.users = @ \ {req[q].user}]
                                 ELSE roles[x]]
    /\ End(q)
    /\ UNCHANGED <<users, tokens, drives, configs, entries, mailed, secrets, resets,
                   mixed, strangers>>

\* Outside the transaction, as all of deleteUser: its abort undoes nothing (see Fail).
PullRoles(q) ==
    /\ At(q, "pull")
    /\ roles' = [x \in Roles |-> IF LiveRole(x)
                                 THEN [roles[x] EXCEPT !.users = @ \ {req[q].user}]
                                 ELSE roles[x]]
    /\ Note(q, {x \in Roles : LiveRole(x)})
    /\ End(q)
    /\ UNCHANGED <<users, tokens, drives, configs, entries, mailed, secrets, resets>>

-----------------------------------------------------------------------------
(* requestUsernameOrResetPassword, addResetPasswordRequest, resetPassword.  *)

RequestReset(q, u) ==
    /\ Live(u)
    /\ Begin(q, [Idle EXCEPT !.pc = "invalidate", !.user = u, !.mail = users[u].mail])

Invalidate(q) ==
    /\ At(q, "invalidate")
    /\ tokens' = [t \in Tokens |-> IF tokens[t] # Null /\ tokens[t].user = req[q].user
                                   THEN [tokens[t] EXCEPT !.used = TRUE] ELSE tokens[t]]
    /\ Then(q, "push")
    /\ UNCHANGED <<users, drives, configs, roles, entries, mailed, secrets, resets,
                   mixed, strangers>>

\* The link that is mailed carries the address the user had when it was asked for.
PushToken(q) ==
    /\ At(q, "push")
    /\ \E t \in FreshTokens :
        tokens' = [tokens EXCEPT ![t] = [user |-> req[q].user, mail |-> req[q].mail,
                                          used |-> FALSE, old |-> FALSE]]
    /\ End(q)
    /\ UNCHANGED <<users, drives, configs, roles, entries, mailed, secrets, resets,
                   mixed, strangers>>

\* An hour passes.
Age(t) ==
    /\ tokens[t] # Null /\ ~tokens[t].old
    /\ tokens' = [tokens EXCEPT ![t].old = TRUE]
    /\ UNCHANGED <<users, drives, configs, roles, entries, mailed, secrets, req, begun, faults,
                   resets, unpulled, mixed, strangers>>

UseLink(q, t) ==
    /\ Open(t) /\ ~tokens[t].old
    /\ Live(tokens[t].user) /\ users[tokens[t].user].mail = tokens[t].mail
    /\ Begin(q, [Idle EXCEPT !.pc = "reset", !.user = tokens[t].user, !.token = t])

\* Mutant of ResetSecret: the update names the user alone.
ResetByUser(q) ==
    LET r == req[q] IN
    /\ At(q, "reset")
    /\ secrets' = secrets + 1
    /\ users' = [users EXCEPT ![r.user].secret = secrets']
    /\ tokens' = [tokens EXCEPT ![r.token].used = TRUE]
    /\ resets' = [resets EXCEPT ![r.token] = @ + 1]
    /\ Goto(q, [r EXCEPT !.pc = "send", !.secret = users[r.user].secret])
    /\ UNCHANGED <<drives, configs, roles, entries, mailed, mixed, strangers>>

\* The token is looked for again, the age compared with the time the handler began.  The
\* update answers with the document as it was before.
ResetSecret(q) ==
    LET r == req[q] IN
    /\ At(q, "reset")
    /\ IF Open(r.token)
       THEN /\ secrets' = secrets + 1
            /\ users' = [users EXCEPT ![r.user].secret = secrets']
            /\ tokens' = [tokens EXCEPT ![r.token].used = TRUE]
            /\ resets' = [resets EXCEPT ![r.token] = @ + 1]
            /\ Goto(q, [r EXCEPT !.pc = "send", !.secret = users[r.user].secret])
       ELSE End(q) /\ UNCHANGED <<users, tokens, secrets, resets>>
    /\ UNCHANGED <<drives, configs, roles, entries, mailed, mixed, strangers>>

MailSecret(q) ==
    /\ At(q, "send")
    /\ mailed' = [mailed EXCEPT ![req[q].user] = req[q].secret]
    /\ End(q)
    /\ UNCHANGED <<users, tokens, drives, configs, roles, entries, secrets, resets,
                   mixed, strangers>>

-----------------------------------------------------------------------------
(* Study roles.                                                            *)

CreateRole(q, list, guest) ==
    Begin(q, [Idle EXCEPT !.pc = "addrole", !.list = list, !.strange = list \ LiveUsers,
                          !.guest = guest])

AddRole(q) ==
    /\ At(q, "addrole")
    /\ \E x \in FreshRoles :
        /\ roles' = [roles EXCEPT ![x] = [users |-> req[q].list, guest |-> req[q].guest,
                                           live |-> TRUE]]
        /\ Note(q, {x})
    /\ End(q)
    /\ UNCHANGED <<users, tokens, drives, configs, entries, mailed, secrets, resets>>

\* With no users given those the role was read with are written back.
EditRole(q, x, list) ==
    /\ LiveRole(x)
    /\ Begin(q, [Idle EXCEPT !.pc = "setrole", !.role = x,
                              !.list = IF list = Null THEN roles[x].users ELSE list,
                              !.strange = IF list = Null THEN {} ELSE list \ LiveUsers])

SetRole(q) ==
    LET x == req[q].role IN
    /\ At(q, "setrole")
    /\ roles' = [roles EXCEPT ![x].users = req[q].list]
    /\ Note(q, {x})
    /\ End(q)
    /\ UNCHANGED <<users, tokens, drives, configs, entries, mailed, secrets, resets>>

DeleteRole(q, x) ==
    /\ LiveRole(x)
    /\ Begin(q, [Idle EXCEPT !.pc = "droprole", !.role = x])

DropRole(q) ==
    LET x == req[q].role IN
    /\ At(q, "droprole")
    /\ roles' = [roles EXCEPT ![x].live = FALSE]
    /\ Note(q, {x})
    /\ End(q)
    /\ UNCHANGED <<users, tokens, drives, configs, entries, mailed, secrets, resets>>

\* The user is looked up by name, a deleted one too, and joins the guest roles one by one.
AddGuestUser(q, u) ==
    /\ Guest(u)
    /\ \E x \in Roles : LiveRole(x) /\ roles[x].guest
    /\ Begin(q, [Idle EXCEPT !.pc = "join", !.user = u,
                              !.todo = {x \in Roles : LiveRole(x) /\ roles[x].guest}])

JoinRole(q) ==
    LET r == req[q] IN
    /\ At(q, "join")
    /\ \E x \in r.todo :
        /\ roles' = [roles EXCEPT ![x].users = @ \cup {r.user}]
        /\ Note(q, {x})
        /\ IF r.todo = {x} THEN End(q) ELSE Goto(q, [r EXCEPT !.todo = @ \ {x}])
    /\ UNCHANGED <<users, tokens, drives, configs, entries, mailed, secrets, resets>>

-----------------------------------------------------------------------------
(* Organisations, domains and public keys.                                 *)

\* What the handlers compare with is live; the unique index counts deleted entries too.
Used(e, kind, label) ==
    \E o \in Entries \ {e} : entries[o] # Null /\ entries[o].kind = kind /\ entries[o].label = label

Known(e, kind, label) ==
    LiveEntry(e) /\ entries[e].kind = kind /\ entries[e].label = label

CreateEntry(q, kind, label) ==
    /\ ~\E e \in Entries : Known(e, kind, label)
    /\ Begin(q, [Idle EXCEPT !.pc = "enter", !.kind = kind, !.label = label])

CreateOrganisation(q, name) == CreateEntry(q, "organisation", name)
CreateDomain(q, path) == CreateEntry(q, "domain", path)
RegisterPubkey(q, key) == CreateEntry(q, "pubkey", key)

EnterEntry(q) ==
    LET r == req[q] IN
    /\ At(q, "enter")
    /\ \/ Used(Null, r.kind, r.label) /\ UNCHANGED entries
       \/ \E e \in FreshEntries :
            /\ ~Used(e, r.kind, r.label)
            /\ entries' = [entries EXCEPT ![e] = [kind |-> r.kind, label |-> r.label,
                                                   live |-> TRUE]]
    /\ End(q)
    /\ UNCHANGED <<users, tokens, drives, configs, roles, mailed, secrets, resets,
                   mixed, strangers>>

EditEntry(q, e, kind, label) ==
    /\ LiveEntry(e) /\ entries[e].kind = kind
    /\ ~\E o \in Entries \ {e} : Known(o, kind, label)
    /\ Begin(q, [Idle EXCEPT !.pc = "relabel", !.entry = e, !.label = label])

EditOrganisation(q, e, name) == EditEntry(q, e, "organisation", name)
EditDomain(q, e, path) == EditEntry(q, e, "domain", path)

Relabel(q) ==
    LET r == req[q] IN
    /\ At(q, "relabel")
    /\ entries' = IF Used(r.entry, entries[r.entry].kind, r.label) THEN entries
                  ELSE [entries EXCEPT ![r.entry].label = r.label]
    /\ End(q)
    /\ UNCHANGED <<users, tokens, drives, configs, roles, mailed, secrets, resets,
                   mixed, strangers>>

DeleteEntry(q, e, kind) ==
    /\ LiveEntry(e) /\ entries[e].kind = kind
    /\ Begin(q, [Idle EXCEPT !.pc = "unlist", !.entry = e])

DeleteOrganisation(q, e) == DeleteEntry(q, e, "organisation")
DeleteDomain(q, e) == DeleteEntry(q, e, "domain")
DeletePubkey(q, e) == DeleteEntry(q, e, "pubkey")

Unlist(q) ==
    /\ At(q, "unlist")
    /\ entries' = [entries EXCEPT ![req[q].entry].live = FALSE]
    /\ End(q)
    /\ UNCHANGED <<users, tokens, drives, configs, roles, mailed, secrets, resets,
                   mixed, strangers>>

-----------------------------------------------------------------------------

\* An error of the database or the mail server, or a refusal, ends a request wherever it
\* is; a restart ends all.
Deleting(r) == IF r.pc = "pull" THEN {r.user} ELSE {}

Fail(q) ==
    /\ req[q].pc # "idle"
    /\ faults < MaxFaults /\ faults' = faults + 1
    /\ req' = [req EXCEPT ![q] = Idle]
    /\ unpulled' = unpulled \cup Deleting(req[q])
    /\ UNCHANGED <<docs, begun, resets, mixed, strangers>>

Restart ==
    /\ faults < MaxFaults /\ faults' = faults + 1
    /\ req' = [q \in Requests |-> Idle]
    /\ unpulled' = unpulled \cup UNION {Deleting(req[q]) : q \in Requests}
    /\ UNCHANGED <<docs, begun, resets, mixed, strangers>>

Step(q) ==
    \/ InsertUser(q) \/ InsertDrive(q) \/ InsertConfig(q) \/ MailWelcome(q)
    \/ SetUser(q) \/ MarkUser(q) \/ PullRoles(q)
    \/ Invalidate(q) \/ PushToken(q) \/ ResetSecret(q) \/ MailSecret(q)
    \/ AddRole(q) \/ SetRole(q) \/ DropRole(q) \/ JoinRole(q)
    \/ EnterEntry(q) \/ Relabel(q) \/ Unlist(q)

AskUser(q) ==
    \/ \E n \in Names, m \in Mails, g \in BOOLEAN : CreateUser(q, n, m, g)
    \/ \E u \in Users :
        \/ \E n \in Maybe(Names), m \in Maybe(Mails), b \in BOOLEAN : EditUser(q, u, n, m, b)
        \/ DeleteUser(q, u) \/ RequestReset(q, u)
    \/ \E t \in Tokens : UseLink(q, t)

AskRole(q) ==
    \/ \E list \in SUBSET Users, g \in BOOLEAN : CreateRole(q, list, g)
    \/ \E x \in Roles : \/ \E list \in Maybe(SUBSET Users) : EditRole(q, x, list)
                        \/ DeleteRole(q, x)
    \/ \E u \in Users : AddGuestUser(q, u)

AskOrganisation(q) ==
    \E l \in Labels : \/ CreateOrganisation(q, l)
                     \/ \E e \in Entries : EditOrganisation(q, e, l) \/ DeleteOrganisation(q, e)

AskDomain(q) ==
    \E l \in Labels : \/ CreateDomain(q, l)
                     \/ \E e \in Entries : EditDomain(q, e, l) \/ DeleteDomain(q, e)

AskPubkey(q) ==
    (\E l \in Labels : RegisterPubkey(q, l)) \/ \E e \in Entries : DeletePubkey(q, e)

Next ==
    \/ \E q \in Requests :
        \/ MayBegin(q) /\ (\/ AskUser(q) \/ AskRole(q) \/ AskOrganisation(q)
                           \/ AskDomain(q) \/ AskPubkey(q))
        \/ Step(q) \/ Fail(q)
    \/ \E t \in Tokens : Age(t)
    \/ Restart

Spec == Init /\ [][Next]_vars

-----------------------------------------------------------------------------

TypeOK ==
    /\ users \in [Users -> User \cup {Null}]
    /\ tokens \in [Tokens -> Token \cup {Null}]
    /\ drives \subseteq Users /\ configs \subseteq Users
    /\ roles \in [Roles -> Role \cup {Null}]
    /\ entries \in [Entries -> Entry \cup {Null}]
    /\ mailed \in [Users -> Nat] /\ secrets \in Nat
    /\ req \in [Requests -> Request]
    /\ begun \in Nat /\ faults \in Nat
    /\ resets \in [Tokens -> Nat]
    /\ unpulled \subseteq Users
    /\ mixed \subseteq Roles
    /\ strangers \subseteq Roles \X Users

\* A link resets a password once, although it is looked up by one call and marked by another:
\* two requests with the same link, or a newer link asked for in between.
ResetsOnce == \A t \in Tokens : resets[t] <= 1

\* deleteUser takes the user out of the roles after it marked the user, role edits write
\* whole lists, and no list is compared with the users there are: a role lists who is not
\* live only while the deletion is under way, after it died, when requests overlapped, for
\* a guest, whom addGuestUser finds again, or when it was given an id that was not live.
RolesListLive ==
    \A x \in Roles : LiveRole(x) => \A u \in roles[x].users \ LiveUsers :
        \/ u \in unpulled \/ x \in mixed \/ Guest(u) \/ <<x, u>> \in strangers
        \/ \E q \in Requests : At(q, "pull") /\ req[q].user = u

\* The mail after a reset tells the user to update the authenticator app with the code in it
\* (userCore.ts, resetPassword: "You will need to update your MFA application for one-time
\* passcode"): it is the secret the account has.  The update answers with the document as it
\* was before, so the old one is mailed.
MailedSecretIsCurrent ==
    [][\A q \in Requests : MailSecret(q) /\ req[q].alone =>
         mailed'[req[q].user] = users[req[q].user].secret]_vars

=============================================================================
