------------------------------ MODULE Accounts ------------------------------
(***************************************************************************)
(* The accounts of the panel: the users table, the sessions and API tokens *)
(* that stand for an account, and the handlers that work on them.  SQLite  *)
(* runs every statement atomically, but a handler is several statements on *)
(* pooled connections: each action below is one statement of one request,  *)
(* and what a request read earlier travels in its record.  A handler uses  *)
(* the context of its request, so a client that hangs up (Aborts) ends it  *)
(* between any two statements.  Second factors are module SecondFactor's.  *)
(***************************************************************************)
EXTENDS Integers, FiniteSets

CONSTANTS Request,       \* requests the server works on at the same time
          Session,       \* session tokens a browser may hold
          Token,         \* API tokens
          Email,         \* addresses an account may have
          Subject,       \* identities at the OpenID provider
          Nobody,        \* no subject, no session: NULL or an empty string
          MaxId,         \* bound: accounts ever created
          MaxPassword,   \* bound: different passwords
          Ops,           \* the operations the clients of this instance use
          AutoProvision, \* oidc.auto_provision
          PasswordLogin, \* oidc.allow_password_login
          DefaultRole,   \* oidc.default_role
          Aborts         \* clients may hang up

AccountBounds == /\ Request # {} /\ MaxId \in Nat /\ MaxPassword \in Nat \ {0}
                 /\ DefaultRole \in {"admin", "operator", "viewer"}

VARIABLES users,   \* rows of the users table by id
          nextId,  \* AUTOINCREMENT: an id is never given out twice
          sess,    \* whom a session stands for, and the password it rests on
          tok,     \* rows of api_tokens
          req,     \* requests in progress
          first    \* history: the ids CreateFirstUser inserted

vars == <<users, nextId, sess, tok, req, first>>

Role == {"admin", "operator", "viewer"}
Ids == 1..MaxId
AllOps == {"setup", "login", "logout", "password", "create", "update", "delete", "oidc", "token"}

NoUser == [role |-> "none"]
UserRow == [email : Email, role : Role, pwd : 0..MaxPassword, subj : Subject \union {Nobody}]

\* user = 0: no such session, or one past its expires_at
NoSession == [user |-> 0, pwd |-> 0]
NoToken == [by |-> 0, role |-> "viewer"]

\* at is the next statement; tgt, email, role, subj and pwd are what was read
\* or asked; via the session the request came with, me the account it acts as.
Idle == [at |-> "idle", op |-> "none", me |-> 0, via |-> Nobody, tgt |-> 0,
         role |-> "viewer", email |-> Nobody, subj |-> Nobody, pwd |-> 0, sync |-> FALSE]

Live == {u \in DOMAIN users : users[u] # NoUser}
CountAdminUsers == Cardinality({u \in Live : users[u].role = "admin"})
UserByEmail(e) == {u \in Live : users[u].email = e}
UserByOIDC(s) == {u \in Live : users[u].subj = s}

AccountsInit ==
    /\ users = [u \in Ids |-> NoUser]
    /\ nextId = 1
    /\ sess = [s \in Session |-> NoSession]
    /\ tok = [t \in Token |-> NoToken]
    /\ req = [r \in Request |-> Idle]
    /\ first = {}

-----------------------------------------------------------------------------
(* Steps of a request.                                                     *)

To(op, at) == [Idle EXCEPT !.op = op, !.at = at]
Begin(r, q) == q.op \in Ops /\ req[r] = Idle /\ req' = [req EXCEPT ![r] = q]
Goto(r, at) == req' = [req EXCEPT ![r].at = at]
Finish(r) == req' = [req EXCEPT ![r] = Idle]

\* A handler the client no longer waits for: its next statement fails.
Abort(r) ==
    /\ Aborts /\ req[r] # Idle /\ Finish(r)
    /\ UNCHANGED <<users, nextId, sess, tok, first>>

\* What authed and principalForToken put in the request: an account as it is
\* now, through a token with the narrower of the two roles.
NarrowerRole(a, b) == IF a = "admin" /\ b = "admin" THEN "admin" ELSE "viewer"
BySession == {[me |-> sess[s].user, role |-> users[sess[s].user].role, via |-> s] :
                 s \in {s \in Session : sess[s].user # 0}}
ByToken == {[me |-> tok[t].by, role |-> NarrowerRole(users[tok[t].by].role, tok[t].role), via |-> Nobody] :
                 t \in {t \in Token : tok[t].by # 0}}
Administrator(p) == p \in BySession \union ByToken /\ p.role = "admin"

\* An INSERT into users: the id is new, address and subject are UNIQUE.
MayInsert(row) == UserByEmail(row.email) = {} /\ (row.subj = Nobody \/ UserByOIDC(row.subj) = {})

\* Mutant: an id without AUTOINCREMENT
ReusedIdInsert(row) ==
    LET id == CHOOSE i \in 1..MaxId + 1 : (\A j \in Live : j < i) /\ (i = 1 \/ i - 1 \in Live)
    IN users' = [users EXCEPT ![id] = row] /\ nextId' = nextId + 1

Insert(row) ==
    /\ users' = [users EXCEPT ![nextId] = row]
    /\ nextId' = nextId + 1

-----------------------------------------------------------------------------
(* Signing in: the setup wizard, the password form, the provider.          *)

\* handleSetup counts the accounts first, and inserts if there still are none.
BeginSetup(r, e) ==
    /\ Live = {} /\ nextId <= MaxId
    /\ Begin(r, [To("setup", "create") EXCEPT !.email = e])
    /\ UNCHANGED <<users, nextId, sess, tok, first>>

CreateFirstUser(r) ==
    /\ req[r].op = "setup" /\ req[r].at = "create" /\ nextId <= MaxId
    /\ \/ /\ Live = {}
          /\ Insert([email |-> req[r].email, role |-> "admin", pwd |-> 1, subj |-> Nobody])
          /\ first' = first \union {nextId}
          /\ req' = [req EXCEPT ![r].at = "session", ![r].tgt = nextId, ![r].pwd = 1]
       \/ Live # {} /\ Finish(r) /\ UNCHANGED <<users, nextId, first>>
    /\ UNCHANGED <<sess, tok>>

\* handleLogin: the row of the address is read once, then the session is made.
Login(r, u) ==
    /\ PasswordLogin /\ u \in Live /\ users[u].pwd # 0
    /\ Begin(r, [To("login", "session") EXCEPT !.tgt = u, !.email = users[u].email, !.pwd = users[u].pwd])
    /\ UNCHANGED <<users, nextId, sess, tok, first>>

\* startSession: a random token, a row that must have its user.
StartSession(r) ==
    /\ req[r].at = "session" /\ Finish(r)
    /\ \/ /\ req[r].tgt \in Live
          /\ \E s \in Session :
                /\ sess[s] = NoSession /\ \A q \in Request : req[q].via # s
                /\ sess' = [sess EXCEPT ![s] = [user |-> req[r].tgt, pwd |-> req[r].pwd]]
       \/ req[r].tgt \notin Live /\ UNCHANGED sess
    /\ UNCHANGED <<users, nextId, tok, first>>

\* What Exchange vouches for: a subject, its present address, and which of the
\* configured groups its claims match; the broadest match decides the role.
Identity == [subj : Subject, email : Email, matched : SUBSET Role]
RoleFromClaims(matched) ==
    IF "admin" \in matched THEN "admin"
    ELSE IF "operator" \in matched THEN "operator"
    ELSE IF "viewer" \in matched THEN "viewer" ELSE DefaultRole

\* oidc.allowed_domains left empty: any address the provider vouches for
MayProvision(e) == AutoProvision /\ e \in Email

\* resolveIdentity: by subject, or else by address.
OIDCCallback(r, id) ==
    LET role == RoleFromClaims(id.matched)
        found == UserByOIDC(id.subj)
    IN /\ \/ \E u \in found :
               Begin(r, [To("oidc", IF users[u].role # role THEN "scope" ELSE "session") EXCEPT
                           !.tgt = u, !.role = role, !.email = users[u].email])
          \/ found = {} /\ Begin(r, [To("oidc", "lookup") EXCEPT !.subj = id.subj, !.email = id.email, !.role = role])
       /\ UNCHANGED <<users, nextId, sess, tok, first>>

LookupAddress(r) ==
    LET q == req[r]
        found == UserByEmail(q.email)
    IN /\ q.op = "oidc" /\ q.at = "lookup"
       /\ \/ \E u \in found :
               IF users[u].subj \in {Nobody, q.subj}
               THEN req' = [req EXCEPT ![r].at = "link", ![r].tgt = u, ![r].sync = users[u].role # q.role]
               ELSE Finish(r)
          \/ found = {} /\ IF MayProvision(q.email) THEN Goto(r, "create") ELSE Finish(r)
       /\ UNCHANGED <<users, nextId, sess, tok, first>>

\* The UPDATE names the account only; the unique index may refuse it.
LinkOIDC(r) ==
    LET q == req[r]
        ok == q.tgt \in Live /\ UserByOIDC(q.subj) \subseteq {q.tgt}
    IN /\ q.at = "link"
       /\ \/ ok /\ users' = [users EXCEPT ![q.tgt].subj = q.subj] /\ Goto(r, IF q.sync THEN "scope" ELSE "session")
          \/ ~ok /\ Finish(r) /\ UNCHANGED users
       /\ UNCHANGED <<nextId, sess, tok, first>>

CreateOIDCUser(r) ==
    LET row == [email |-> req[r].email, role |-> req[r].role, pwd |-> 0, subj |-> req[r].subj]
    IN /\ req[r].op = "oidc" /\ req[r].at = "create" /\ nextId <= MaxId
       /\ \/ MayInsert(row) /\ Insert(row) /\ req' = [req EXCEPT ![r].at = "session", ![r].tgt = nextId]
          \/ ~MayInsert(row) /\ Finish(r) /\ UNCHANGED <<users, nextId>>
       /\ UNCHANGED <<sess, tok, first>>

-----------------------------------------------------------------------------
(* The signed-in account: its session and its password.                    *)

Logout(s) ==
    /\ "logout" \in Ops /\ sess[s].user # 0
    /\ sess' = [sess EXCEPT ![s] = NoSession]
    /\ UNCHANGED <<users, nextId, tok, req, first>>

\* expires_at passes
SessionExpires(s) ==
    /\ sess[s].user # 0
    /\ sess' = [sess EXCEPT ![s] = NoSession]
    /\ UNCHANGED <<users, nextId, tok, req, first>>

\* handleChangePassword: the current password is checked against the row that
\* came with the session.
BeginChangePassword(r, p, new) ==
    /\ p \in BySession /\ users[p.me].pwd \notin {0, new}
    /\ Begin(r, [To("password", "password") EXCEPT !.me = p.me, !.via = p.via, !.tgt = p.me,
                                                    !.email = users[p.me].email, !.pwd = new])
    /\ UNCHANGED <<users, nextId, sess, tok, first>>

\* The session the request came with goes on, on the new password.
UpdatePassword(r) ==
    LET q == req[r]
    IN /\ q.at = "password"
       /\ \/ /\ q.tgt \in Live
             /\ users' = [users EXCEPT ![q.tgt].pwd = q.pwd]
             /\ sess' = [s \in Session |-> IF s = q.via /\ sess[s].user = q.me
                                           THEN [sess[s] EXCEPT !.pwd = q.pwd] ELSE sess[s]]
             /\ Goto(r, "revoke")
          \/ q.tgt \notin Live /\ Finish(r) /\ UNCHANGED <<users, sess>>
       /\ UNCHANGED <<nextId, tok, first>>

\* Mutant: the other sessions stay
RevokeNothing(r) ==
    /\ req[r].at = "revoke" /\ Finish(r)
    /\ UNCHANGED <<users, nextId, sess, tok, first>>

DeleteOtherSessions(r) ==
    /\ req[r].at = "revoke" /\ Finish(r)
    /\ sess' = [s \in Session |-> IF sess[s].user = req[r].me /\ s # req[r].via THEN NoSession ELSE sess[s]]
    /\ UNCHANGED <<users, nextId, tok, first>>

-----------------------------------------------------------------------------
(* Administrators: accounts and tokens.                                    *)

BeginCreateUser(r, p, e, role, pwd) ==
    /\ Administrator(p) /\ UserByEmail(e) = {} /\ nextId <= MaxId
    /\ Begin(r, [To("create", "create") EXCEPT !.me = p.me, !.email = e, !.role = role, !.pwd = pwd])
    /\ UNCHANGED <<users, nextId, sess, tok, first>>

CreateUser(r) ==
    LET row == [email |-> req[r].email, role |-> req[r].role, pwd |-> req[r].pwd, subj |-> Nobody]
    IN /\ req[r].op = "create" /\ req[r].at = "create" /\ nextId <= MaxId
       /\ Finish(r)
       /\ IF MayInsert(row) THEN Insert(row) ELSE UNCHANGED <<users, nextId>>
       /\ UNCHANGED <<sess, tok, first>>

\* handleUpdateUser: the role asked for, or the role the target has now.
BeginUpdateUser(r, p, u, role) ==
    /\ Administrator(p) /\ u \in Live
    /\ u = p.me => role = "admin"
    /\ Begin(r, [To("update", "scope") EXCEPT !.me = p.me, !.tgt = u, !.role = role, !.email = users[u].email])
    /\ UNCHANGED <<users, nextId, sess, tok, first>>

\* Where a request goes after UpdateUserScope: a sign-in ignores its errors.
AfterScope(r) == IF req[r].op = "oidc" THEN Goto(r, "session") ELSE Finish(r)

\* UpdateUserScope, and UpdateUserRole before it: the row is read, ...
ReadScope(r) ==
    LET q == req[r]
    IN /\ q.at = "scope"
       /\ IF q.tgt \notin Live THEN AfterScope(r)
          ELSE Goto(r, IF users[q.tgt].role = "admin" /\ q.role # "admin" THEN "admins" ELSE "write")
       /\ UNCHANGED <<users, nextId, sess, tok, first>>

\* Mutant: nobody counts the administrators
CountSkipped(r) ==
    /\ req[r].at = "admins"
    /\ Goto(r, IF req[r].op = "delete" THEN "sessions" ELSE "write")
    /\ UNCHANGED <<users, nextId, sess, tok, first>>

\* ... the administrators are counted if one is about to go, ...
CountAdmins(r) ==
    /\ req[r].at = "admins"
    /\ IF CountAdminUsers <= 1 THEN AfterScope(r)
       ELSE Goto(r, IF req[r].op = "delete" THEN "sessions" ELSE "write")
    /\ UNCHANGED <<users, nextId, sess, tok, first>>

\* ... and the row is written.
WriteScope(r) ==
    LET q == req[r]
    IN /\ q.at = "write"
       /\ IF q.tgt \in Live THEN users' = [users EXCEPT ![q.tgt].role = q.role] ELSE UNCHANGED users
       /\ AfterScope(r)
       /\ UNCHANGED <<nextId, sess, tok, first>>

BeginDeleteUser(r, p, u) ==
    /\ Administrator(p) /\ u \in Live /\ u # p.me
    /\ Begin(r, [To("delete", "remove") EXCEPT !.me = p.me, !.tgt = u, !.email = users[u].email])
    /\ UNCHANGED <<users, nextId, sess, tok, first>>

\* DeleteUser: the row, the count, the sessions, and the row again.
ReadTarget(r) ==
    LET q == req[r]
    IN /\ q.at = "remove"
       /\ IF q.tgt \notin Live THEN Finish(r)
          ELSE Goto(r, IF users[q.tgt].role = "admin" THEN "admins" ELSE "sessions")
       /\ UNCHANGED <<users, nextId, sess, tok, first>>

Unseated(u) == [s \in Session |-> IF sess[s].user = u THEN NoSession ELSE sess[s]]

DeleteUserSessions(r) ==
    /\ req[r].at = "sessions" /\ Goto(r, "erase")
    /\ sess' = Unseated(req[r].tgt)
    /\ UNCHANGED <<users, nextId, tok, first>>

\* Sessions go with the row (CASCADE), tokens lose their owner (SET NULL).
DeleteUser(r) ==
    LET u == req[r].tgt
    IN /\ req[r].at = "erase" /\ Finish(r)
       /\ users' = [users EXCEPT ![u] = NoUser]
       /\ sess' = Unseated(u)
       /\ tok' = [t \in Token |-> IF tok[t].by = u THEN NoToken ELSE tok[t]]
       /\ UNCHANGED <<nextId, first>>

BeginCreateToken(r, p, role) ==
    /\ Administrator(p) /\ role # "operator"
    /\ Begin(r, [To("token", "token") EXCEPT !.me = p.me, !.tgt = p.me,
                                              !.email = users[p.me].email, !.role = role])
    /\ UNCHANGED <<users, nextId, sess, tok, first>>

CreateToken(r) ==
    /\ req[r].at = "token" /\ Finish(r)
    /\ \/ /\ req[r].me \in Live
          /\ \E t \in Token : tok[t] = NoToken /\ tok' = [tok EXCEPT ![t] = [by |-> req[r].me, role |-> req[r].role]]
       \/ req[r].me \notin Live /\ UNCHANGED tok
    /\ UNCHANGED <<users, nextId, sess, first>>

\* handleDeleteToken by an administrator, or expires_at passes.
DeleteToken(t) ==
    /\ "token" \in Ops /\ tok[t] # NoToken
    /\ tok' = [tok EXCEPT ![t] = NoToken]
    /\ UNCHANGED <<users, nextId, sess, req, first>>

-----------------------------------------------------------------------------
SignIn(r) ==
    \/ \E e \in Email : BeginSetup(r, e)
    \/ CreateFirstUser(r)
    \/ \E u \in Ids : Login(r, u)
    \/ \E id \in Identity : OIDCCallback(r, id)
    \/ LookupAddress(r) \/ LinkOIDC(r) \/ CreateOIDCUser(r)
    \/ StartSession(r)

Manage(r) ==
    \/ \E p \in BySession, new \in 1..MaxPassword : BeginChangePassword(r, p, new)
    \/ UpdatePassword(r) \/ DeleteOtherSessions(r)
    \/ \E p \in BySession \union ByToken :
         \/ \E e \in Email, role \in Role, pwd \in {0, 1} : BeginCreateUser(r, p, e, role, pwd)
         \/ \E u \in Ids, role \in Role : BeginUpdateUser(r, p, u, role)
         \/ \E u \in Ids : BeginDeleteUser(r, p, u)
         \/ \E role \in Role : BeginCreateToken(r, p, role)
    \/ CreateUser(r) \/ ReadScope(r) \/ CountAdmins(r) \/ WriteScope(r)
    \/ ReadTarget(r) \/ DeleteUserSessions(r) \/ DeleteUser(r) \/ CreateToken(r)

AccountsNext ==
    \/ \E r \in Request : SignIn(r) \/ Manage(r) \/ Abort(r)
    \/ \E s \in Session : Logout(s) \/ SessionExpires(s)
    \/ \E t \in Token : DeleteToken(t)

AccountsSpec == AccountsInit /\ [][AccountsNext]_vars

-----------------------------------------------------------------------------
(* Properties.                                                             *)

\* No session and no API token stands for an account that was deleted.
OwnersExist ==
    /\ \A s \in DOMAIN sess : sess[s] = NoSession \/ sess[s].user \in Live
    /\ \A t \in DOMAIN tok : tok[t] = NoToken \/ tok[t].by \in Live

\* Once an account exists there is an administrator: setup starts with one,
\* and "the last remaining administrator can be neither deleted nor demoted"
\* (CHANGELOG.md), whether by a handler of users.go or by the roles a sign-in
\* through the provider brings along.
AdministratorRemains == nextId > 1 => CountAdminUsers > 0

\* The setup wizard makes one administrator and never another one ...
SetupOnce == Cardinality(first) <= 1

\* ... and however many requests counted zero accounts before the first INSERT, and
\* whoever made that one: as long as it exists the wizard has made no other.
SetupIsAlone == 1 \in Live => first \subseteq {1}

\* An account that is bound to a subject of the provider stays bound to that
\* subject: whoever gets its address later is refused (resolveIdentity).
KeepsSubjects ==
    \A u \in Live : u \in Live' /\ users[u].subj # Nobody => users'[u].subj = users[u].subj

\* A password change ends the other sessions of the account: once it is over,
\* no session rests on a password that is no longer the account's.
ChangeEndsSessions ==
    \A s \in DOMAIN sess :
        sess[s].user # 0 /\ sess[s].pwd # 0 =>
            \/ sess[s].pwd = users[sess[s].user].pwd
            \/ \E r \in DOMAIN req : req[r].at = "revoke" /\ req[r].tgt = sess[s].user

\* The id a request carries from one statement to the next is, as long as its
\* row exists, the account the request was about: not another account that
\* was made after a deletion, even one with the same address.
TargetsStay ==
    \A r \in DOMAIN req :
        req[r].tgt \in Live /\ req[r].op \in {"update", "delete", "password", "login"} =>
            users[req[r].tgt].email = req[r].email

-----------------------------------------------------------------------------
(* The inductive invariants: whoever runs at the same time (RowsInv), and   *)
(* with requests one after the other (SerialInv).                          *)

\* The statements a request goes through
Statement == {"idle", "create", "session", "lookup", "link", "scope", "admins", "write", "password", "revoke",
              "remove", "sessions", "erase", "token"}
RequestRow == [at : Statement, op : AllOps \union {"none"}, me : 0..MaxId, via : Session \union {Nobody}, tgt : 0..MaxId,
               role : Role, email : Email \union {Nobody}, subj : Subject \union {Nobody},
               pwd : 0..MaxPassword, sync : BOOLEAN]

AccountTypes ==
    /\ users \in [Ids -> UserRow \union {NoUser}]
    /\ nextId \in 1..MaxId + 1
    /\ sess \in [Session -> [user : 0..MaxId, pwd : 0..MaxPassword]]
    /\ tok \in [Token -> [by : 0..MaxId, role : Role]]
    /\ req \in [Request -> RequestRow]
    /\ first \subseteq Ids

\* What a request must bring along for its next statement
Asks(q) == (q.at \in {"lookup", "create"} => q.email \in Email) /\ (q.at = "password" => q.me # 0)

\* Ids are given out in order and only once; sessions and tokens have their account.
RowsInv ==
    /\ \A u \in Ids : u >= nextId => users[u] = NoUser
    /\ \A r \in Request : req[r].tgt < nextId /\ Asks(req[r])
    /\ \A s \in Session : sess[s] = NoSession \/ sess[s].user \in Live
    /\ \A t \in Token : tok[t] = NoToken \/ tok[t].by \in Live
    /\ TargetsStay

\* The server works on one request at a time
OneAtATime == \A r, q \in DOMAIN req : r = q

Admins == {u \in Live : users[u].role = "admin"}

\* The row a request has read is still what it read.
ReadInv(q) ==
    /\ q.at \in {"admins", "write", "sessions", "erase", "link", "password", "revoke"} => q.tgt \in Live
    /\ q.op = "oidc" => q.pwd = 0
    /\ q.at = "link" => q.op = "oidc"
    /\ q.at = "session" /\ q.pwd # 0 => q.tgt \in Live /\ users[q.tgt].pwd = q.pwd
    /\ q.at \in {"password", "revoke"} => q.me = q.tgt

\* Whoever takes an administrator away has counted another one, and an account
\* that is made is the first one, an administrator, or the work of one.
SeatInv(q) ==
    /\ q.at = "write" => q.role = "admin" \/ Admins \ {q.tgt} # {}
    /\ q.at \in {"sessions", "erase"} => Admins \ {q.tgt} # {}
    /\ q.op = "create" => nextId > 1
    /\ q.op = "oidc" => q.at # "create"

SeatsInv ==
    /\ first \subseteq {1} /\ (first # {} => nextId > 1)
    /\ nextId > 1 => Admins # {}
    /\ \A r \in Request : SeatInv(req[r])

\* Only the session a password change came with, or one it is about to end,
\* outlives the change.
ChangeInv(q) ==
    \A s \in Session :
        sess[s].user # 0 /\ sess[s].pwd # 0 =>
            \/ sess[s].pwd = users[sess[s].user].pwd
            \/ q.at = "revoke" /\ sess[s].user = q.tgt /\ s # q.via

\* The provider makes no accounts: the first one it makes may be a viewer's.
\* No client hangs up: one that does leaves the sessions of its change behind.
SerialInv ==
    /\ \A r \in Request : ReadInv(req[r])
    /\ ~AutoProvision => SeatsInv
    /\ ~Aborts => \A r \in Request : ChangeInv(req[r])

AccountInv == AccountTypes /\ RowsInv /\ (OneAtATime => SerialInv)
=============================================================================
