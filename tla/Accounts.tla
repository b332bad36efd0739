------------------------------ MODULE Accounts ------------------------------
(***************************************************************************)
(* The HTTP API's accounts: login and registration, the authentication     *)
(* middleware with its three kinds of credentials, the handlers behind it, *)
(* and the task that deletes old sessions.  Requests run concurrently and  *)
(* take one step for each statement they send to the database; no handler  *)
(* uses a transaction.  Cookies reach the browser with the answer.         *)
(***************************************************************************)
EXTENDS EntStore

CONSTANTS
    Requests,     \* requests that may be under way at once
    Uids,         \* Firebase accounts; each has its own email
    MaxUsers,     \* bound: rows ever inserted into users
    MaxSessions,  \* bound: rows ever inserted into sessions
    MaxTokens,    \* bound: rows ever inserted into tokens
    MaxArrivals,  \* bound: requests that ever arrive
    NoUid         \* no cookie

ASSUME AccountsAssumption ==
    /\ NoUid \notin Uids
    /\ MaxUsers \in Nat \ {0}      \* the administrator
    /\ MaxSessions \in Nat /\ MaxTokens \in Nat /\ MaxArrivals \in Nat

UserIds == 1..MaxUsers
SessionIds == 1..MaxSessions
TokenIds == 1..MaxTokens

VARIABLES
    users, sessions, tokens,    \* the tables
    given,      \* ids handed out: users, sessions, tokens
    req,        \* the requests
    cookies,    \* the browser's session and auth_token cookies
    arrivals,   \* requests so far
    cleanup,    \* the session cleanup task
    loggedOut,  \* history: sessions whose logout was answered and logged no error
    mixed       \* history: an answer changed one of two cookies and left the other

db == <<users, sessions, tokens, given>>
vars == <<users, sessions, tokens, given, req, cookies, arrivals, cleanup, loggedOut, mixed>>

NoCookies == [session |-> NoUid, auth |-> 0]
Idle == [op |-> "none", pc |-> "idle", uid |-> NoUid, ck |-> NoCookies, bearer |-> 0,
         user |-> 0, via |-> "none", arg |-> 0, live |-> FALSE]

\* Which handler a protected request is for does not matter before it is let
\* in: "user" and "admin" stand for the handlers of the two groups of routes.
ForAccount == {"login", "register", "verify"}
OnCookies == {"logout", "session"}
Protected == {"user", "admin"}

Usable(s) == s \in DOMAIN sessions /\ sessions[s].active /\ ~sessions[s].expired

\* The database starts with an administrator.
Init ==
    /\ \E u \in Uids : users = [i \in {1} |-> [uid |-> u, email |-> u, role |-> "admin", active |-> TRUE, plan |-> ""]]
    /\ sessions = [s \in {} |-> s]
    /\ tokens = [k \in {} |-> k]
    /\ given = [user |-> 1, session |-> 0, token |-> 0]
    /\ req = [r \in Requests |-> Idle]
    /\ cookies = NoCookies
    /\ arrivals = 0
    /\ cleanup = "waiting"
    /\ loggedOut = {}
    /\ mixed = FALSE

-----------------------------------------------------------------------------
(* Steps and answers.                                                      *)

At(r, pc) == req[r].pc = pc
Goto(r, pc) == req' = [req EXCEPT ![r].pc = pc]
WithUser(r, pc, u) == req' = [req EXCEPT ![r].pc = pc, ![r].user = u]
WithArg(r, pc, a) == req' = [req EXCEPT ![r].pc = pc, ![r].arg = a]

Unanswered == UNCHANGED <<cookies, loggedOut, mixed>>
Quiet == UNCHANGED <<arrivals, cleanup>>

\* The request is over; its answer sets the cookies ck.
Ends(r, ck) ==
    /\ req' = [req EXCEPT ![r] = Idle]
    /\ cookies' = ck
    /\ mixed' = (mixed \/ /\ ck.session # NoUid /\ ck.auth # 0
                            /\ (ck.session = cookies.session) # (ck.auth = cookies.auth))

Answer(r, ck) ==
    /\ Ends(r, ck)
    /\ loggedOut' = IF req[r].pc \in {"logout_find", "logout_revoke"}
                    THEN loggedOut \cup ({req[r].ck.auth} \ {0}) ELSE loggedOut

Error(r) == Answer(r, cookies)

-----------------------------------------------------------------------------
(* The repositories: one statement each.                                   *)

\* The bug: the middleware looks for the token only.
GetByToken(s) == SessionOnly(sessions, <<>>, s)
GetActiveByToken(s) == SessionOnly(sessions, [active |-> TRUE, expired |-> FALSE], s)
GetUserByEmail(e) == UserOnly(users, [email |-> e])
GetUserByFirebaseUID(u) == UserOnly(users, [uid |-> u])
CreateUser(uid) == UserCreate(users, given.user + 1, UserNew(uid, uid))
\* The time and the address of a login, and of the last activity, are columns
\* that no model tells apart.
UpdateUserLastLogin(u) == UserUpdateOne(users, u, <<>>)
UpdateUserLastActivity(u) == UserUpdateOne(users, u, <<>>)
CreateForUser(u) == SessionCreate(sessions, given.session + 1, SessionNew(u), users)

\* The bug: using a session makes it active.
LastUsedActive == [idle |-> FALSE, active |-> TRUE]
LastUsed == [idle |-> FALSE]
UpdateLastUsed(s) == SessionUpdateOne(sessions, s, LastUsed)
GetSessionOwner(s) == QueryOwner(sessions, s)
GetUserSession(s, owner) == SessionOnly(sessions, [owner |-> owner], s)
Revoke(s) == SessionUpdateOne(sessions, s, [active |-> FALSE])
RevokeAllUserSessions(u) == SessionUpdate(sessions, SessionWhere(sessions, [owner |-> u]), [active |-> FALSE])

GetTokenByHash(k) == TokenOnly(tokens, [revoked |-> FALSE], k)
CreateTokenFor(u) == TokenCreate(tokens, given.token + 1, TokenNew(u), users)
TokenUpdateLastUsed(k) == TokenUpdateOne(tokens, k, <<>>)
RevokeTokenById(k) == TokenUpdateOne(tokens, k, [revoked |-> TRUE])

Get(u) == UserGet(users, u)
Update(u, m) == UserUpdateOne(users, u, m)
\* A user may also have tunnels, whose table is not part of this model.
Delete(u, hasTunnels) ==
    UserDelete(users, u, sessions, tokens, [x \in {"tunnel"} |-> [owner |-> IF hasTunnels THEN u ELSE 0]])

-----------------------------------------------------------------------------

\* Arrival: the cookies the browser has now, or an API token.
Arrive(r) ==
    /\ At(r, "idle") /\ arrivals < MaxArrivals
    /\ arrivals' = arrivals + 1
    /\ \E op \in ForAccount \cup OnCookies \cup Protected, u \in Uids \cup {NoUid}, k \in TokenIds \cup {0} :
          /\ (u # NoUid) = (op \in ForAccount)
          /\ k # 0 => op \in Protected
          /\ req' = [req EXCEPT ![r] =
                [Idle EXCEPT !.op = op, !.uid = u, !.ck = cookies, !.bearer = k,
                    !.pc = IF op \in Protected THEN "auth" ELSE op,
                    !.live = Usable(cookies.auth)]]
    /\ UNCHANGED <<db, cleanup>> /\ Unanswered

-----------------------------------------------------------------------------
(* Login: the session cookie is set before the user is looked up, so every *)
(* later answer carries it.                                                *)

SessionSet(r) == [cookies EXCEPT !.session = req[r].uid]

LoginLookup(r) ==
    /\ At(r, "login")
    /\ \/ Error(r)                       \* the ID token is refused
       \/ /\ LET u == GetUserByFirebaseUID(req[r].uid) IN
                IF u # 0 THEN WithUser(r, "login_stamp", u) ELSE Goto(r, "login_create")
          /\ Unanswered
    /\ UNCHANGED db /\ Quiet

LoginCreate(r) ==
    /\ At(r, "login_create") /\ given.user < MaxUsers
    /\ users' = CreateUser(req[r].uid).table
    /\ given' = [given EXCEPT !.user = @ + 1]    \* a failed insert uses an id up too
    /\ IF CreateUser(req[r].uid).err = "none"
       THEN WithUser(r, "login_stamp", given.user + 1) /\ Unanswered
       ELSE Answer(r, SessionSet(r))
    /\ UNCHANGED <<sessions, tokens>> /\ Quiet

\* UpdateUserLastLogin.  Without a row the handler's own error path
\* dereferences nil, and gin.Recovery answers with the headers set so far.
LoginStamp(r) ==
    /\ At(r, "login_stamp")
    /\ IF UpdateUserLastLogin(req[r].user).err = "none"
       THEN Goto(r, "login_session") /\ Unanswered
       ELSE Answer(r, SessionSet(r))
    /\ UNCHANGED db /\ Quiet

LoginSession(r) ==
    /\ At(r, "login_session") /\ given.session < MaxSessions
    /\ sessions' = CreateForUser(req[r].user).table
    /\ given' = [given EXCEPT !.session = @ + 1]
    /\ IF CreateForUser(req[r].user).err = "none"
       THEN WithArg(r, "login_load", given.session + 1) /\ Unanswered
       ELSE Answer(r, SessionSet(r))
    /\ UNCHANGED <<users, tokens>> /\ Quiet

LoginLoad(r) ==
    /\ At(r, "login_load")
    /\ IF GetActiveByToken(req[r].arg) # 0
       THEN Answer(r, [session |-> req[r].uid, auth |-> req[r].arg])
       ELSE Answer(r, SessionSet(r))
    /\ UNCHANGED db /\ Quiet

\* Registration: no cookie; the front end sends the Firebase uid as its token.
RegisterLookup(r) ==
    /\ At(r, "register")
    /\ IF GetUserByFirebaseUID(req[r].uid) # 0
       THEN Error(r)
       ELSE Goto(r, "register_email") /\ Unanswered
    /\ UNCHANGED db /\ Quiet

RegisterEmail(r) ==
    /\ At(r, "register_email")
    /\ IF GetUserByEmail(req[r].uid) # 0
       THEN Error(r)
       ELSE Goto(r, "register_create") /\ Unanswered
    /\ UNCHANGED db /\ Quiet

RegisterCreate(r) ==
    /\ At(r, "register_create") /\ given.user < MaxUsers
    /\ users' = CreateUser(req[r].uid).table
    /\ given' = [given EXCEPT !.user = @ + 1]
    /\ Error(r)
    /\ UNCHANGED <<sessions, tokens>> /\ Quiet

\* VerifyToken sets the session cookie whether it finds the user or not.
VerifyToken(r) ==
    /\ At(r, "verify")
    /\ \/ Error(r)
       \/ IF GetUserByFirebaseUID(req[r].uid) # 0
          THEN WithUser(r, "verify_stamp", GetUserByFirebaseUID(req[r].uid)) /\ Unanswered
          ELSE Answer(r, SessionSet(r))
    /\ UNCHANGED db /\ Quiet

VerifyStamp(r) ==
    /\ At(r, "verify_stamp")
    /\ users' = UpdateUserLastActivity(req[r].user).table
    /\ Answer(r, SessionSet(r))
    /\ UNCHANGED <<sessions, tokens, given>> /\ Quiet

-----------------------------------------------------------------------------
(* Logout and GetSession are public: they look at the cookies themselves.   *)

\* RevokeByToken looks the session up, then revokes what it found; an error
\* is only logged.  The same lookup was made before for the audit log.
Logout(r) ==
    /\ At(r, "logout")
    /\ \/ Error(r)                       \* CSRF
       \/ Goto(r, "logout_find") /\ Unanswered
    /\ UNCHANGED db /\ Quiet

LogoutFind(r) ==
    /\ At(r, "logout_find")
    /\ IF GetActiveByToken(req[r].ck.auth) # 0
       THEN Goto(r, "logout_revoke") /\ Unanswered
       ELSE Answer(r, NoCookies)
    /\ UNCHANGED db /\ Quiet

\* The bug: the cookies are cleared and the session is not.
LogoutForgets(r) ==
    /\ At(r, "logout_revoke")
    /\ Answer(r, NoCookies)
    /\ UNCHANGED db /\ Quiet

LogoutRevoke(r) ==
    /\ At(r, "logout_revoke")
    /\ sessions' = Revoke(req[r].ck.auth).table
    /\ Answer(r, NoCookies)
    /\ UNCHANGED <<users, tokens, given>> /\ Quiet

\* Either statement may fail: the error is logged, the cookies are cleared and
\* the logout is answered as successful, but the session is as it was.
LogoutFails(r) ==
    /\ At(r, "logout_find") \/ At(r, "logout_revoke")
    /\ Ends(r, NoCookies) /\ UNCHANGED loggedOut
    /\ UNCHANGED db /\ Quiet

GetSession(r) ==
    /\ At(r, "session")
    /\ LET u == GetUserByFirebaseUID(req[r].ck.session) IN
       \/ /\ u # 0
          /\ WithUser(r, "session_stamp", u) /\ Unanswered
       \/ /\ Goto(r, "session_token") /\ Unanswered    \* also when Firebase refuses
    /\ UNCHANGED db /\ Quiet

\* UpdateUserLastActivity, then the answer: it sets no cookie.
SessionStamp(r) ==
    /\ At(r, "session_stamp")
    /\ users' = UpdateUserLastActivity(req[r].user).table
    /\ Error(r)
    /\ UNCHANGED <<sessions, tokens, given>> /\ Quiet

SessionToken(r) ==
    /\ At(r, "session_token")
    /\ IF GetActiveByToken(req[r].ck.auth) # 0
       THEN Goto(r, "session_used") /\ Unanswered
       ELSE Answer(r, IF req[r].ck = NoCookies THEN cookies ELSE NoCookies)
    /\ UNCHANGED db /\ Quiet

SessionUsed(r) ==
    /\ At(r, "session_used")
    /\ sessions' = UpdateLastUsed(req[r].ck.auth).table
    /\ IF UpdateLastUsed(req[r].ck.auth).err = "none"
       THEN Goto(r, "session_owner") /\ Unanswered
       ELSE Error(r)
    /\ UNCHANGED <<users, tokens, given>> /\ Quiet

SessionOwner(r) ==
    /\ At(r, "session_owner")
    /\ Answer(r, IF GetSessionOwner(req[r].ck.auth) # 0
                 THEN [cookies EXCEPT !.auth = req[r].ck.auth]
                 ELSE NoCookies)
    /\ UNCHANGED db /\ Quiet

-----------------------------------------------------------------------------
(* RequireAuth: the session cookie, else the auth_token cookie, else an API *)
(* token; then UpdateUserLastLogin, whose row is the handler's user.        *)

Authenticated(r, u, how) ==
    /\ req' = [req EXCEPT ![r].pc = "stamp", ![r].user = u, ![r].via = how]
    /\ Unanswered

AuthCookie(r) ==
    /\ At(r, "auth")
    /\ LET u == GetUserByFirebaseUID(req[r].ck.session) IN
       \/ u # 0 /\ Authenticated(r, u, "cookie")
       \/ Goto(r, "auth_token") /\ Unanswered           \* also when Firebase refuses
    /\ UNCHANGED db /\ Quiet

AuthToken(r) ==
    /\ At(r, "auth_token")
    /\ Goto(r, IF GetActiveByToken(req[r].ck.auth) # 0 THEN "auth_used" ELSE "auth_bearer")
    /\ UNCHANGED db /\ Unanswered /\ Quiet

\* Here the error is only logged.
AuthUsed(r) ==
    /\ At(r, "auth_used")
    /\ sessions' = UpdateLastUsed(req[r].ck.auth).table
    /\ Goto(r, "auth_owner")
    /\ UNCHANGED <<users, tokens, given>> /\ Unanswered /\ Quiet

AuthOwner(r) ==
    /\ At(r, "auth_owner")
    /\ LET u == GetSessionOwner(req[r].ck.auth) IN
       IF u # 0 THEN Authenticated(r, u, "session") ELSE Goto(r, "auth_bearer") /\ Unanswered
    /\ UNCHANGED db /\ Quiet

Refuse(r) == Answer(r, NoCookies)

\* ValidateToken: the query excludes revoked tokens, the clock expired ones.
AuthBearer(r) ==
    /\ At(r, "auth_bearer")
    /\ IF GetTokenByHash(req[r].bearer) # 0 /\ ~tokens[req[r].bearer].expired
       THEN Goto(r, "auth_bearer_used") /\ Unanswered
       ELSE Refuse(r)
    /\ UNCHANGED db /\ Quiet

AuthBearerUsed(r) ==
    /\ At(r, "auth_bearer_used")
    /\ IF TokenUpdateLastUsed(req[r].bearer).err = "none"
       THEN Goto(r, "auth_bearer_user") /\ Unanswered
       ELSE Refuse(r)
    /\ UNCHANGED db /\ Quiet

AuthBearerUser(r) ==
    /\ At(r, "auth_bearer_user")
    /\ LET u == Get(TokenRow(tokens, req[r].bearer).owner) IN
       IF u # 0 THEN Authenticated(r, u, "token") ELSE Refuse(r)
    /\ UNCHANGED db /\ Quiet

\* UpdateUserLastLogin, then the CSRF check and the check for an administrator.
AuthStamp(r) ==
    /\ At(r, "stamp")
    /\ \/ Error(r)                      \* no such row any more, or CSRF
       \/ /\ UpdateUserLastLogin(req[r].user).err = "none"
          /\ IF req[r].op = "admin" /\ UserRow(users, req[r].user).role # "admin"
             THEN Error(r)
             ELSE Goto(r, "handler") /\ Unanswered
    /\ UNCHANGED db /\ Quiet

-----------------------------------------------------------------------------
(* The handlers.                                                           *)

Handles(r, op) == At(r, "handler") /\ req[r].op = op

\* c.GetUint does not convert the uint32 the middleware stored: it yields 0.
GetUint(r) == 0

\* GetProfile, ListUsers, GetUser, GetSessions and ListTokens only read.
Read(r) ==
    /\ Handles(r, "user")
    /\ Error(r)
    /\ UNCHANGED db /\ Quiet

UpdateProfile(r) ==
    /\ Handles(r, "user")
    /\ IF Get(req[r].user) # 0 THEN Goto(r, "profile_write") /\ Unanswered ELSE Error(r)
    /\ UNCHANGED db /\ Quiet

\* Only the name is set, which is not modelled.
ProfileWrite(r) ==
    /\ At(r, "profile_write")
    /\ users' = Update(req[r].user, <<>>).table
    /\ Error(r)
    /\ UNCHANGED <<sessions, tokens, given>> /\ Quiet

DeleteProfile(r) ==
    /\ Handles(r, "user")
    /\ users' = Delete(GetUint(r), FALSE).table
    /\ Error(r)
    /\ UNCHANGED <<sessions, tokens, given>> /\ Quiet

\* GetUserSession, then Revoke: user 0 owns nothing, so nothing is found and
\* the write that would follow is never reached.
RevokeSession(r) ==
    /\ Handles(r, "user")
    /\ \E s \in SessionIds :
          sessions' = Revoke(GetUserSession(s, GetUint(r))).table
    /\ Error(r)
    /\ UNCHANGED <<users, tokens, given>> /\ Quiet

\* The cookies are cleared for another domain in production, the auth_token
\* cookie for another path.
RevokeAllSessions(r) ==
    /\ Handles(r, "user")
    /\ sessions' = RevokeAllUserSessions(GetUint(r)).table
    /\ Error(r) \/ Answer(r, [cookies EXCEPT !.session = NoUid])
    /\ UNCHANGED <<users, tokens, given>> /\ Quiet

CreateToken(r) ==
    /\ Handles(r, "user") /\ given.token < MaxTokens
    /\ tokens' = CreateTokenFor(req[r].user).table
    /\ given' = [given EXCEPT !.token = @ + 1]
    /\ Error(r)
    /\ UNCHANGED <<users, sessions>> /\ Quiet

RevokeToken(r) ==
    /\ Handles(r, "user")
    /\ \E k \in TokenIds : tokens' = RevokeTokenById(k).table
    /\ Error(r)
    /\ UNCHANGED <<users, sessions, given>> /\ Quiet

UpdateUser(r) ==
    /\ Handles(r, "admin")
    /\ \E i \in UserIds :
          IF Get(i) # 0
          THEN WithArg(r, "user_write", i) /\ Unanswered
          ELSE Error(r)
    /\ UNCHANGED db /\ Quiet

\* is_active is always set; the email when one was given.
UserWrite(r) ==
    /\ At(r, "user_write")
    /\ \E a \in BOOLEAN, e \in Uids :
          \/ users' = Update(req[r].arg, [active |-> a]).table
          \/ users' = Update(req[r].arg, [active |-> a, email |-> e]).table
    /\ Error(r)
    /\ UNCHANGED <<sessions, tokens, given>> /\ Quiet

DeleteUser(r) ==
    /\ Handles(r, "admin")
    /\ \E i \in UserIds, hasTunnels \in BOOLEAN : users' = Delete(i, hasTunnels).table
    /\ Error(r)
    /\ UNCHANGED <<sessions, tokens, given>> /\ Quiet

-----------------------------------------------------------------------------
(* Time, and the session cleanup: two statements, twice a day.             *)

Expire ==
    /\ \/ \E s \in DOMAIN sessions :
             /\ ~sessions[s].expired
             /\ sessions' = [sessions EXCEPT ![s].expired = TRUE]
             /\ UNCHANGED tokens
       \/ \E s \in DOMAIN sessions :
             /\ ~sessions[s].idle /\ sessions[s].expired    \* thirty days from its last use
             /\ sessions' = [sessions EXCEPT ![s].idle = TRUE]
             /\ UNCHANGED tokens
       \/ \E k \in DOMAIN tokens :
             /\ ~tokens[k].expired
             /\ tokens' = [tokens EXCEPT ![k].expired = TRUE]
             /\ UNCHANGED sessions
    /\ UNCHANGED <<users, given, req>> /\ Unanswered /\ Quiet

CleanupExpired ==
    /\ cleanup = "waiting"
    /\ sessions' = SessionDelete(sessions, {s \in DOMAIN sessions : sessions[s].expired}).table
    /\ cleanup' = "inactive"
    /\ UNCHANGED <<users, tokens, given, req, arrivals>> /\ Unanswered

CleanupInactive ==
    /\ cleanup = "inactive"
    /\ sessions' = SessionDelete(sessions, {s \in DOMAIN sessions :
                        ~sessions[s].active /\ sessions[s].idle}).table
    /\ cleanup' = "waiting"
    /\ UNCHANGED <<users, tokens, given, req, arrivals>> /\ Unanswered

-----------------------------------------------------------------------------
LoginStep(r) == LoginLookup(r) \/ LoginCreate(r) \/ LoginStamp(r) \/ LoginSession(r) \/ LoginLoad(r)
RegisterStep(r) == RegisterLookup(r) \/ RegisterEmail(r) \/ RegisterCreate(r)
CookieStep(r) ==
    \/ VerifyToken(r) \/ VerifyStamp(r)
    \/ Logout(r) \/ LogoutFind(r) \/ LogoutRevoke(r) \/ LogoutFails(r)
    \/ GetSession(r) \/ SessionStamp(r) \/ SessionToken(r) \/ SessionUsed(r) \/ SessionOwner(r)
RequireAuth(r) ==
    \/ AuthCookie(r) \/ AuthToken(r) \/ AuthUsed(r) \/ AuthOwner(r)
    \/ AuthBearer(r) \/ AuthBearerUsed(r) \/ AuthBearerUser(r) \/ AuthStamp(r)
Handler(r) ==
    \/ Read(r) \/ UpdateProfile(r) \/ ProfileWrite(r) \/ DeleteProfile(r)
    \/ RevokeSession(r) \/ RevokeAllSessions(r) \/ CreateToken(r) \/ RevokeToken(r)
    \/ UpdateUser(r) \/ UserWrite(r) \/ DeleteUser(r)

Next ==
    \/ \E r \in Requests :
          Arrive(r) \/ LoginStep(r) \/ RegisterStep(r) \/ CookieStep(r) \/ RequireAuth(r) \/ Handler(r)
    \/ Expire \/ CleanupExpired \/ CleanupInactive

Spec == Init /\ [][Next]_vars

-----------------------------------------------------------------------------
Cookies == [session : Uids \cup {NoUid}, auth : SessionIds \cup {0}]

UserRows == [uid : Uids, email : Uids, role : {"admin", "user"}, active : BOOLEAN, plan : {""}]
SessionRows == [owner : UserIds, active : BOOLEAN, expired : BOOLEAN, idle : BOOLEAN]
TokenRows == [owner : UserIds, revoked : BOOLEAN, expired : BOOLEAN]

LoginPCs == {"login", "login_create", "login_stamp", "login_session", "login_load"}
RegisterPCs == {"register", "register_email", "register_create"}
VerifyPCs == {"verify", "verify_stamp"}
CookiePCs == {"logout", "logout_find", "logout_revoke", "session", "session_stamp", "session_token",
              "session_used", "session_owner"}
AuthPCs == {"auth", "auth_token", "auth_used", "auth_owner", "auth_bearer", "auth_bearer_used",
            "auth_bearer_user", "stamp"}
HandlerPCs == {"handler", "profile_write", "user_write"}
PCs == {"idle"} \cup LoginPCs \cup RegisterPCs \cup VerifyPCs \cup CookiePCs \cup AuthPCs \cup HandlerPCs

RequestStates ==
    [op : {"none"} \cup ForAccount \cup OnCookies \cup Protected, pc : PCs, uid : Uids \cup {NoUid},
     ck : Cookies, bearer : TokenIds \cup {0}, user : UserIds \cup {0},
     via : {"none", "cookie", "session", "token"}, arg : UserIds \cup SessionIds \cup {0}, live : BOOLEAN]

TypeOK ==
    /\ users \in [DOMAIN users -> UserRows] /\ DOMAIN users \subseteq UserIds
    /\ sessions \in [DOMAIN sessions -> SessionRows] /\ DOMAIN sessions \subseteq SessionIds
    /\ tokens \in [DOMAIN tokens -> TokenRows] /\ DOMAIN tokens \subseteq TokenIds
    /\ given \in [user : 0..MaxUsers, session : 0..MaxSessions, token : 0..MaxTokens]
    /\ cookies \in Cookies
    /\ req \in [Requests -> RequestStates]
    /\ arrivals \in 0..MaxArrivals
    /\ cleanup \in {"waiting", "inactive"}
    /\ mixed \in BOOLEAN

\* The browser's two cookies speak for the same account, unless an answer
\* replaced only one of them: a failed login or a verified ID token sets the
\* session cookie alone, a slow session query brings an old auth_token back.
OneIdentity ==
    /\ ~mixed /\ cookies.session # NoUid /\ cookies.auth \in DOMAIN sessions
    => users[sessions[cookies.auth].owner].uid = cookies.session

\* Whatever logins, registrations and administrators do at once: one row for
\* a Firebase account and for an email, no session or token without its user,
\* a row is never given an id that was used before, and the cookies agree.
AccountsInv ==
    /\ TypeOK
    /\ \A i, j \in DOMAIN users : i # j => users[i].uid # users[j].uid /\ users[i].email # users[j].email
    /\ \A s \in DOMAIN sessions : sessions[s].owner \in DOMAIN users
    /\ \A k \in DOMAIN tokens : tokens[k].owner \in DOMAIN users
    /\ DOMAIN users \subseteq 1..given.user
    /\ OneIdentity

\* A request that the auth_token cookie let in was sent while that session
\* was usable: one revoked, expired or deleted before is not an entry.
OnlyLiveSessions ==
    \A r \in Requests : req[r].via = "session" => req[r].live

\* The session of a logout that was answered and whose two statements did not
\* fail is never usable again, whatever the other requests of the browser were
\* doing with it.  (After a failed one it stays active, and the answer is the
\* same: the handler only logs the error.)
LoggedOutIsDead == \A s \in loggedOut : ~Usable(s)

\* What a request q under way knows: nobody else's session, none that is
\* younger than the request, and an account that is the one of its ID token.
RequestInv(q) ==
    /\ q.ck.auth <= given.session
    /\ Usable(q.ck.auth) => q.live
    /\ q.pc \in {"auth_used", "auth_owner"} => q.live
    /\ q.pc \in LoginPCs \cup RegisterPCs \cup VerifyPCs => q.uid \in Uids
    /\ q.pc \in {"login_stamp", "login_session"} =>
          /\ q.user \in 1..given.user
          /\ q.user \in DOMAIN users => users[q.user].uid = q.uid
    /\ q.pc = "login_load" =>
          /\ q.arg \in 1..given.session
          /\ q.arg \in DOMAIN sessions => users[sessions[q.arg].owner].uid = q.uid

\* No id of a session is used twice, nor known before it is given.
SessionsGiven ==
    /\ DOMAIN sessions \subseteq 1..given.session
    /\ cookies.auth <= given.session
    /\ loggedOut \subseteq 1..given.session

\* What makes them inductive, together.
AccountsInd ==
    /\ AccountsInv /\ OnlyLiveSessions /\ LoggedOutIsDead
    /\ SessionsGiven /\ \A r \in Requests : RequestInv(req[r])

\* A revoked session stays inactive and a revoked token revoked, though other
\* requests write to the same rows at the same time.
RevokedStaysRevoked ==
    [][/\ \A s \in DOMAIN sessions \cap DOMAIN sessions' : ~sessions[s].active => ~sessions'[s].active
       /\ \A k \in DOMAIN tokens : k \in DOMAIN tokens' /\ (tokens[k].revoked => tokens'[k].revoked)]_vars
=============================================================================
