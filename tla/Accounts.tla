------------------------------ MODULE Accounts ------------------------------
(* Users, their external identities, sessions and sign-in: what the handlers *)
(* of routes/auth-local.ts, auth-external.ts, admin-users.ts and            *)
(* admin-auth-locks.ts do to the rows of database/src/users.ts,             *)
(* identities.ts and auth-throttle.ts.                                      *)
(*                                                                          *)
(* A statement reads what is committed when it starts; a transaction of     *)
(* which others can see the middle, by waiting for its locks or by not      *)
(* seeing its rows, is split there.  A request ends "cutting" when it still  *)
(* has connections to close, which is WorkspaceAccess'.                      *)
EXTENDS LoginThrottle, FiniteSets

CONSTANTS
  Users, Sessions, Identities,
  Requests,       \* HTTP requests being served
  Handles,        \* OIDC and OAuth2 login transactions, at most so many at a time
  InitialUsers,   \* users there are at the start, with role, status and password
  InitialBound,   \* identities bound at the start
  InitialLogins,  \* sessions open at the start
  AutoProvision,  \* OIDC_AUTO_PROVISION, OAUTH2_AUTO_PROVISION
  SessionTtl, HandleTtl,
  Workloads,      \* bound: how many ticks and requests of each kind there are
  NoUser, NoSession

UserRecord == [role : {"user", "admin"}, status : {"active", "disabled"}, local : BOOLEAN]
SessionRecord == [user : Users, revoked : BOOLEAN, expires : Nat]

\* The setup has left an active Local Admin and everybody with a way to sign in.
ASSUME AccountsAssumption ==
  /\ NoUser \notin Users \cup UserRecord /\ NoSession \notin SessionRecord
  /\ InitialUsers \in [DOMAIN InitialUsers -> UserRecord] /\ DOMAIN InitialUsers \subseteq Users
  /\ InitialBound \in [DOMAIN InitialBound -> DOMAIN InitialUsers] /\ DOMAIN InitialBound \subseteq Identities
  /\ InitialLogins \in [DOMAIN InitialLogins -> Users] /\ DOMAIN InitialLogins \subseteq Sessions
  /\ \E u \in DOMAIN InitialUsers : InitialUsers[u] = [role |-> "admin", status |-> "active", local |-> TRUE]
  /\ \A u \in DOMAIN InitialUsers :
       InitialUsers[u].local \/ \E i \in DOMAIN InitialBound : InitialBound[i] = u
  /\ SessionTtl \in Nat
  /\ IsFiniteSet(Requests) /\ Requests # {}

VARIABLES
  now,
  user,      \* users: role, status, whether there is a password
  identity,  \* user_identities: whose each one is
  session,   \* user_sessions: whose, revoked_at, expires_at
  throttle,  \* auth_throttle
  handle,    \* the transaction stores: until when a handle is good
  request,   \* per request: where its handler is and what it holds
  guesses,   \* per counter: the failures of the last window, when and which of then
  left       \* what is left of the workload

accountVars == <<user, identity, session, throttle, handle, request, guesses>>

Idle == [at |-> "idle"]
Becomes(r, state) == request' = [request EXCEPT ![r] = state]
At(r, where) == request[r].at = where
Spend(kind) == left[kind] > 0 /\ left' = [left EXCEPT ![kind] = @ - 1]

-----------------------------------------------------------------------------
(* What is read *)

ActiveUser(u) == user[u] # NoUser /\ user[u].status = "active"

\* findActiveSession
ActiveSession(s, t) ==
  /\ session[s] # NoSession
  /\ ~session[s].revoked
  /\ session[s].expires > t
  /\ ActiveUser(session[s].user)

Unused == {s \in Sessions : session[s] = NoSession /\ \A r \in Requests :
                              request[r].at = "inserted" => request[r].session # s}

\* findUserByLogin, and what resetLocalPassword updates: there is a password.
findUserByLogin(l) == {u \in Users : u = l /\ user[u] # NoUser /\ user[u].local}

activeLocalAdmins == {u \in Users : ActiveUser(u) /\ user[u].role = "admin" /\ user[u].local}
identitiesOf(u) == {i \in Identities : identity[i] = u}

\* The locks a transaction in progress holds: on the row of a user (for update),
\* and one advisory lock per kind of change.
Holds(r) == At(r, "updating") \/ At(r, "unbinding")
RowFree(u) == \A r \in Requests : Holds(r) => request[r].op.user # u
\* A bug would be to count the administrators that remain without that lock.
lockedByNobody == TRUE
adminLockFree == \A r \in Requests : ~At(r, "updating")
identityLockFree == \A r \in Requests : ~At(r, "unbinding")

-----------------------------------------------------------------------------
(* Failures and what they add up to *)

\* A failure is when it was, and a number that tells it from the others of then.
oneMore(failures) ==
  failures \cup {<<now, CHOOSE n \in 0..Cardinality(failures) : <<now, n>> \notin failures>>}

countFailures(keys) ==
  /\ throttle' = recordAuthThrottleHits(throttle, keys, now)
  /\ guesses' = [k \in Keys |-> IF k \in keys THEN oneMore(guesses[k]) ELSE guesses[k]]

forget(keys) ==
  /\ throttle' = clearAuthThrottle(throttle, keys)
  /\ guesses' = [k \in Keys |-> IF k \in keys THEN {} ELSE guesses[k]]

\* Time passes; failures older than their window are no longer of interest.
Tick ==
  /\ Spend("tick") /\ now' = now + 1
  /\ guesses' = [k \in Keys |-> {g \in guesses[k] : g[1] > now' - Policy[k[1]].window}]
  /\ UNCHANGED <<user, identity, session, throttle, handle, request>>

\* The cleanup timer.
CleanUp ==
  /\ throttle' = deleteExpiredAuthThrottle(throttle, now) /\ throttle' # throttle
  /\ UNCHANGED <<now, user, identity, session, handle, request, guesses, left>>

-----------------------------------------------------------------------------
(* POST /api/auth/login *)

\* The user is looked up and its locks are consulted; a locked attempt ends
\* here, before any password work, and is not counted.  What is no login
\* consults the address only, and is a failure of the address.
StartLogin(r, l, a) ==
  /\ At(r, "idle") /\ Spend("login")
  /\ l \in Users => findUserByLogin(l) # {}
  /\ ~findAuthLock(throttle, localLoginKeys(l, a), now)
  /\ Becomes(r, [at |-> "verifying", login |-> l, address |-> a, active |-> l \in Users /\ ActiveUser(l)])
  /\ UNCHANGED <<now, user, identity, session, throttle, handle, guesses>>

InvalidLogin(r, a) ==
  /\ At(r, "idle") /\ Spend("login")
  /\ ~findAuthLock(throttle, addressKeys(a), now)
  /\ Becomes(r, [at |-> "failing", hits |-> addressFailureHit(a)])
  /\ UNCHANGED <<now, user, identity, session, throttle, handle, guesses>>

RefuseLogin(r) ==
  /\ At(r, "verifying")
  /\ countFailures(localLoginFailureHits(request[r].login, request[r].address))
  /\ Becomes(r, Idle)
  /\ UNCHANGED <<now, user, identity, session, handle, left>>

\* The end of a request that was admitted and fails.
CountFailure(r) ==
  /\ At(r, "failing")
  /\ countFailures(request[r].hits)
  /\ Becomes(r, Idle)
  /\ UNCHANGED <<now, user, identity, session, handle, left>>

\* createSession inserts for a user that is active as the statement begins, and
\* waits for the row at the foreign key; nobody sees the session meanwhile.
InsertSession(r) ==
  /\ At(r, "verifying") /\ request[r].active
  /\ IF ActiveUser(request[r].login)
     THEN \E s \in Unused :
            Becomes(r, [at |-> "inserted", login |-> request[r].login, address |-> request[r].address,
                        session |-> s, expires |-> now + SessionTtl])
     ELSE Becomes(r, Idle)
  /\ UNCHANGED <<now, user, identity, session, throttle, handle, guesses, left>>

CommitSession(r) ==
  /\ At(r, "inserted") /\ RowFree(request[r].login)
  /\ session' = [session EXCEPT ![request[r].session] =
                   [user |-> request[r].login, revoked |-> FALSE, expires |-> request[r].expires]]
  /\ Becomes(r, [at |-> "forgiving", keys |-> {loginIpKey(request[r].login, request[r].address)}])
  /\ UNCHANGED <<now, user, identity, throttle, handle, guesses, left>>

\* One success forgives this account at this address only; a new password
\* forgives the user.
Forgive(r) ==
  /\ At(r, "forgiving")
  /\ forget(request[r].keys)
  /\ Becomes(r, Idle)
  /\ UNCHANGED <<now, user, identity, session, handle, left>>

-----------------------------------------------------------------------------
(* GET /auth/oidc|oauth2/login and /callback *)

live(h) == handle[h] > now

\* Starts are counted per address, before the provider is asked for anything.
AdmitSsoStart(r, a) ==
  /\ At(r, "idle") /\ Spend("sso")
  /\ ~findAuthLock(throttle, ssoStartKeys(a), now)
  /\ Becomes(r, [at |-> "starting", address |-> a])
  /\ UNCHANGED <<now, user, identity, session, throttle, handle, guesses>>

CountSsoStart(r) ==
  /\ At(r, "starting")
  /\ countFailures(ssoStartHit(request[r].address))
  /\ Becomes(r, [at |-> "authorizing"])
  /\ UNCHANGED <<now, user, identity, session, handle, left>>

\* The store drops what has expired, and refuses when it is full.
createTransaction ==
  \E free \in Handles :
    /\ ~live(free)
    /\ handle' = [h \in Handles |-> IF h = free THEN now + HandleTtl
                                    ELSE IF live(h) THEN handle[h] ELSE Null]

\* OIDC and OAuth2 alike; the provider may not answer.
CreateTransaction(r) ==
  /\ At(r, "authorizing")
  /\ createTransaction \/ UNCHANGED handle
  /\ Becomes(r, Idle)
  /\ UNCHANGED <<now, user, identity, session, throttle, guesses, left>>

AdmitCallback(r, a) ==
  /\ At(r, "idle") /\ Spend("callback")
  /\ ~findAuthLock(throttle, addressKeys(a), now)
  /\ Becomes(r, [at |-> "called", address |-> a])
  /\ UNCHANGED <<now, user, identity, session, throttle, handle, guesses>>

\* A handle is good once; a missing or expired one counts against the address.
ConsumeTransaction(r, h) ==
  /\ At(r, "called")
  /\ handle' = [handle EXCEPT ![h] = Null]
  /\ Becomes(r, IF live(h) THEN [at |-> "exchanging", address |-> request[r].address]
                ELSE [at |-> "failing", hits |-> addressFailureHit(request[r].address)])
  /\ UNCHANGED <<now, user, identity, session, throttle, guesses, left>>

FailExchange(r) ==
  /\ At(r, "exchanging")
  /\ Becomes(r, [at |-> "failing", hits |-> addressFailureHit(request[r].address)])
  /\ UNCHANGED <<now, user, identity, session, throttle, handle, guesses, left>>

openSession(u) ==
  \E s \in Unused :
    session' = [session EXCEPT ![s] = [user |-> u, revoked |-> FALSE, expires |-> now + SessionTtl]]

\* The identity and its user are locked: a change of either is waited for and seen.
signInKnown(u) ==
  /\ RowFree(u)
  /\ IF ActiveUser(u) THEN openSession(u) ELSE UNCHANGED session
  /\ UNCHANGED <<user, identity>>

\* Whoever is new gets an account without a password.
provision(i, u) ==
  /\ user[u] = NoUser
  /\ user' = [user EXCEPT ![u] = [role |-> "user", status |-> "active", local |-> FALSE]]
  /\ identity' = [identity EXCEPT ![i] = u]
  /\ openSession(u)

\* Nobody is provisioned unless that is on and the domain is allowed.
completeExternalLogin(i) ==
  IF identity[i] # NoUser THEN signInKnown(identity[i])
  ELSE \/ AutoProvision /\ \E u \in Users : provision(i, u)
       \/ UNCHANGED <<user, identity, session>>

CompleteExternalLogin(r, i) ==
  /\ At(r, "exchanging") /\ identityLockFree
  /\ completeExternalLogin(i)
  /\ Becomes(r, Idle)
  /\ UNCHANGED <<now, throttle, handle, guesses, left>>

-----------------------------------------------------------------------------
(* Requests that need a session *)

\* An administrator is one when the request comes; what it asks for is done
\* later, whatever has become of it since.
AuthenticateAdmin(r, s, op) ==
  /\ At(r, "idle") /\ Spend(op.kind)
  /\ ActiveSession(s, now) /\ user[session[s].user].role = "admin"
  /\ Becomes(r, [at |-> "admitted", op |-> op])
  /\ UNCHANGED <<now, user, identity, session, throttle, handle, guesses>>

Authenticate(r, s) ==
  /\ At(r, "idle") /\ Spend("logout")
  /\ ActiveSession(s, now)
  /\ Becomes(r, [at |-> "admitted", op |-> [kind |-> "logout", user |-> session[s].user, session |-> s]])
  /\ UNCHANGED <<now, user, identity, session, throttle, handle, guesses>>

Asked(r, kind) == At(r, "admitted") /\ request[r].op.kind = kind
revokeSessions(which) ==
  session' = [s \in Sessions |->
                IF session[s] # NoSession /\ s \in which THEN [session[s] EXCEPT !.revoked = TRUE]
                ELSE session[s]]
sessionsOf(u) == {s \in Sessions : session[s] # NoSession /\ session[s].user = u}

Changed(u, op) ==
  [user[u] EXCEPT !.role = IF op.role = "same" THEN @ ELSE op.role,
                  !.status = IF op.status = "same" THEN @ ELSE op.status]
removesActiveAdmin(u, op) ==
  /\ user[u].role = "admin" /\ user[u].status = "active"
  /\ Changed(u, op).role # "admin" \/ Changed(u, op).status # "active"

\* updateManagedUser: under the advisory lock and the lock of the row, the last
\* active Local Admin is kept.
LockUser(r) ==
  /\ Asked(r, "patch") /\ adminLockFree /\ RowFree(request[r].op.user)
  /\ LET op == request[r].op
         u  == op.user
     IN  IF user[u] = NoUser \/ (removesActiveAdmin(u, op) /\ activeLocalAdmins \ {u} = {})
         THEN Becomes(r, Idle)
         ELSE Becomes(r, [at |-> "updating", op |-> op])
  /\ UNCHANGED <<now, user, identity, session, throttle, handle, guesses, left>>

\* Disabling revokes the sessions that are committed.
UpdateManagedUser(r) ==
  /\ At(r, "updating")
  /\ LET op == request[r].op
         u  == op.user
         disabled == Changed(u, op).status = "disabled"
     IN  /\ user' = [user EXCEPT ![u] = Changed(u, op)]
         /\ IF disabled THEN revokeSessions(sessionsOf(u)) ELSE UNCHANGED session
         /\ Becomes(r, IF disabled THEN [at |-> "cutting", op |-> op] ELSE Idle)
  /\ UNCHANGED <<now, identity, throttle, handle, guesses, left>>

revokeUserSessions(u) ==
  IF user[u] = NoUser THEN UNCHANGED session ELSE revokeSessions(sessionsOf(u))

RevokeUserSessions(r) ==
  /\ Asked(r, "revoke")
  /\ LET op == request[r].op
     IN  /\ revokeUserSessions(op.user)
         /\ Becomes(r, IF user[op.user] = NoUser THEN Idle ELSE [at |-> "cutting", op |-> op])
  /\ UNCHANGED <<now, user, identity, throttle, handle, guesses, left>>

RevokeSession(r) ==
  /\ Asked(r, "logout")
  /\ revokeSessions({request[r].op.session})
  /\ Becomes(r, [at |-> "cutting", op |-> request[r].op])
  /\ UNCHANGED <<now, user, identity, throttle, handle, guesses, left>>

\* An administrator creates users, and the CLI administrators.
CreateUser(r) ==
  /\ Asked(r, "create")
  /\ IF user[request[r].op.user] = NoUser
     THEN user' = [user EXCEPT ![request[r].op.user] =
                     [role |-> "user", status |-> "active", local |-> TRUE]]
     ELSE UNCHANGED user
  /\ Becomes(r, Idle)
  /\ UNCHANGED <<now, identity, session, throttle, handle, guesses, left>>

resetLocalPassword(u) == findUserByLogin(u) # {}

\* Waits for the row.
ResetLocalPassword(r) ==
  /\ Asked(r, "reset") /\ RowFree(request[r].op.user)
  /\ LET u == request[r].op.user
     IN  Becomes(r, IF resetLocalPassword(u) THEN [at |-> "forgiving", keys |-> userKeys(u)] ELSE Idle)
  /\ UNCHANGED <<now, user, identity, session, throttle, handle, guesses, left>>

\* DELETE /api/admin/auth/locks/:id; the CLI takes more of them at a time.
ClearAuthLocks(r) ==
  /\ Asked(r, "clear")
  /\ forget({request[r].op.key})
  /\ Becomes(r, Idle)
  /\ UNCHANGED <<now, user, identity, session, handle, left>>

\* An identity is of one user at most.
bindExternalIdentity(i, u) ==
  IF user[u] # NoUser /\ identity[i] = NoUser THEN identity' = [identity EXCEPT ![i] = u]
  ELSE UNCHANGED identity

BindExternalIdentity(r) ==
  /\ Asked(r, "bind") /\ identityLockFree /\ RowFree(request[r].op.user)
  /\ bindExternalIdentity(request[r].op.identity, request[r].op.user)
  /\ Becomes(r, Idle)
  /\ UNCHANGED <<now, user, session, throttle, handle, guesses, left>>

\* unbindExternalIdentity: the last way to sign in stays.
LockIdentities(r) ==
  /\ Asked(r, "unbind") /\ identityLockFree /\ RowFree(request[r].op.user)
  /\ LET u == request[r].op.user
     IN  IF user[u] = NoUser \/ identity[request[r].op.identity] # u
            \/ (~user[u].local /\ Cardinality(identitiesOf(u)) = 1)
         THEN Becomes(r, Idle)
         ELSE Becomes(r, [at |-> "unbinding", op |-> request[r].op])
  /\ UNCHANGED <<now, user, identity, session, throttle, handle, guesses, left>>

UnbindExternalIdentity(r) ==
  /\ At(r, "unbinding")
  /\ identity' = [identity EXCEPT ![request[r].op.identity] = NoUser]
  /\ Becomes(r, Idle)
  /\ UNCHANGED <<now, user, session, throttle, handle, guesses, left>>

-----------------------------------------------------------------------------
AdminOps ==
  {[kind |-> "patch", user |-> u, role |-> c[1], status |-> c[2]] : u \in Users,
      c \in ({"admin", "user", "same"} \X {"active", "disabled", "same"}) \ {<<"same", "same">>}}
    \cup [kind : {"revoke", "create", "reset"}, user : Users]
    \cup [kind : {"bind", "unbind"}, user : Users, identity : Identities]
    \cup [kind : {"clear"}, user : {NoUser}, key : Keys]

Kinds == {"tick", "login", "sso", "callback", "logout", "patch", "revoke", "create", "reset", "bind", "unbind", "clear"}

AccountsInit ==
  /\ now = 0
  /\ user = [u \in Users |-> IF u \in DOMAIN InitialUsers THEN InitialUsers[u] ELSE NoUser]
  /\ identity = [i \in Identities |-> IF i \in DOMAIN InitialBound THEN InitialBound[i] ELSE NoUser]
  /\ session = [s \in Sessions |->
       IF s \in DOMAIN InitialLogins
       THEN [user |-> InitialLogins[s], revoked |-> FALSE, expires |-> SessionTtl] ELSE NoSession]
  /\ throttle = NoCounters
  /\ handle = [h \in Handles |-> Null]
  /\ request = [r \in Requests |-> Idle]
  /\ guesses = [k \in Keys |-> {}]
  /\ left \in Workloads

SignIn(r) ==
  \/ \E l \in Logins, a \in Addresses : StartLogin(r, l, a)
  \/ \E a \in Addresses : InvalidLogin(r, a) \/ AdmitSsoStart(r, a) \/ AdmitCallback(r, a)
  \/ RefuseLogin(r) \/ CountFailure(r) \/ InsertSession(r) \/ CommitSession(r) \/ Forgive(r)
  \/ CountSsoStart(r) \/ CreateTransaction(r) \/ FailExchange(r)
  \/ \E h \in Handles : ConsumeTransaction(r, h)
  \/ \E i \in Identities : CompleteExternalLogin(r, i)

Administer(r) ==
  \/ \E s \in Sessions : (\E op \in AdminOps : AuthenticateAdmin(r, s, op)) \/ Authenticate(r, s)
  \/ LockUser(r) \/ UpdateManagedUser(r) \/ RevokeUserSessions(r) \/ RevokeSession(r)
  \/ CreateUser(r) \/ ResetLocalPassword(r) \/ ClearAuthLocks(r)
  \/ BindExternalIdentity(r) \/ LockIdentities(r) \/ UnbindExternalIdentity(r)

\* The Control Plane dies: open transactions are rolled back and the login
\* transactions, which only it knows, are gone.
AccountsRestart ==
  /\ request' = [r \in Requests |-> Idle]
  /\ handle' = [h \in Handles |-> Null]
  /\ UNCHANGED <<now, user, identity, session, throttle, guesses>>

AccountsNext == (\E r \in Requests : SignIn(r) \/ Administer(r)) \/ CleanUp

-----------------------------------------------------------------------------
\* Whatever administrators do to each other and to themselves at the same
\* time, an active Local Admin is left, and every user has a way to sign in
\* (LAST_ACTIVE_LOCAL_ADMIN, LAST_LOGIN_METHOD).
AccountsStayUsable ==
  /\ activeLocalAdmins # {}
  /\ \A u \in Users : user[u] # NoUser => user[u].local \/ identitiesOf(u) # {}

\* What the thresholds promise: within one window's length a counter admits at
\* most two windows' worth of failures, less the two that would have locked,
\* and those that were under way when the lock was taken; whatever windows, locks,
\* cleanups and concurrent failures do at their boundaries.  Trusted addresses
\* are not held to the counter of the account.
GuessesAreBounded ==
  \A k \in Keys : (k[1] = "login" => Trusted = {}) =>
    Cardinality(guesses[k]) <= 2 * (Policy[k[1]].threshold - 1) + 2 * (Cardinality(Requests) - 1)
=============================================================================
