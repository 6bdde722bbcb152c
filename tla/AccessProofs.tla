----------------------------- MODULE AccessProofs -----------------------------
(* Proofs about Accounts and WorkspaceAccess, for any sets of users,        *)
(* sessions, requests, connections and codes and any workload: accounts     *)
(* stay usable, a code grants once, what is connected is so by right,       *)
(* accesses are recorded, guesses are bounded and idle stops spare use.    *)
(*                                                                          *)
(* Each has an inductive invariant of its own (Usable, CodesInv, Fresh with *)
(* ConnInv, RecordsInv, GuessesInv, IdleInv) over the types of the rows it   *)
(* reads, and lemmas that say what the steps of everything else are to it    *)
(* (OtherSteps, Steps, CodeSteps, ConnSteps, CounterSteps, MeterSteps,       *)
(* UseSteps, SweepSteps).                                                   *)
EXTENDS WorkspaceAccess, FiniteSetTheorems, TLAPS

USE DEF Idle, Becomes, At, Spend

\* What the steps are sorted by: the rows of accounts, and the codes.
accountRows == <<user, identity, session>>
gates == <<code, post, issued>>

-----------------------------------------------------------------------------
(* Types.                                                                  *)

\* What an operation names, as far as it names anything.
OpTyped(op) ==
  /\ op.kind \in {"patch", "revoke", "create", "reset", "bind", "unbind"} => op.user \in Users
  /\ op.kind \in {"bind", "unbind"} => op.identity \in Identities
  /\ op.kind = "patch" => op.role \in {"admin", "user", "same"} /\ op.status \in {"active", "disabled", "same"}

Opening == [at : {"opening", "opened"}, session : Sessions, user : Users, workspace : Workspaces]

StateTyped(q) ==
  /\ q.at = "verifying" /\ q.active => q.login \in Users
  /\ q.at = "inserted" => q.login \in Users /\ q.session \in Sessions /\ q.expires \in Nat
  /\ q.at \in {"admitted", "updating", "unbinding", "cutting"} => OpTyped(q.op)
  /\ q.at = "updating" => q.op.kind = "patch"
  /\ q.at = "unbinding" => q.op.kind = "unbind"
  /\ q.at \in {"opening", "opened"} => q \in Opening

RowsTyped ==
  /\ now \in Nat
  /\ user \in [Users -> UserRecord \cup {NoUser}]
  /\ identity \in [Identities -> Users \cup {NoUser}]
  /\ session \in [Sessions -> SessionRecord \cup {NoSession}]

Types ==
  /\ RowsTyped
  /\ request = [r \in Requests |-> request[r]]
  /\ \A r \in Requests : StateTyped(request[r])

\* What an administrator may ask for is well typed.
LEMMA OpsAreTyped == ASSUME NEW op \in AdminOps PROVE OpTyped(op)
  <1>1. CASE op \in [kind : {"clear"}, user : {NoUser}, key : Keys]
    BY <1>1 DEF OpTyped
  <1>2. CASE op \in [kind : {"bind", "unbind"}, user : Users, identity : Identities]
    BY <1>2 DEF OpTyped
  <1>3. CASE op \in [kind : {"revoke", "create", "reset"}, user : Users]
    BY <1>3 DEF OpTyped
  <1>4. CASE \E u \in Users, c \in {"admin", "user", "same"} \X {"active", "disabled", "same"} :
               op = [kind |-> "patch", user |-> u, role |-> c[1], status |-> c[2]]
    BY <1>4 DEF OpTyped
  <1>. QED BY <1>1, <1>2, <1>3, <1>4 DEF AdminOps

\* The steps of requests that are about accounts, with what they leave alone.
LEMMA AccountSteps ==
  ASSUME AccountsNext
  PROVE  /\ UNCHANGED now
         /\ \/ UNCHANGED <<accountRows, request>>
            \/ \E r \in Requests : SignIn(r) \/ Administer(r)
  <1>1. ASSUME NEW r \in Requests, SignIn(r) PROVE UNCHANGED now
    <2>1. CASE \E l \in Logins, a \in Addresses : StartLogin(r, l, a)
      BY <2>1 DEF StartLogin
    <2>2. CASE \E a \in Addresses : InvalidLogin(r, a) \/ AdmitSsoStart(r, a) \/ AdmitCallback(r, a)
      BY <2>2 DEF InvalidLogin, AdmitSsoStart, AdmitCallback
    <2>3. CASE \/ RefuseLogin(r) \/ CountFailure(r) \/ InsertSession(r) \/ CommitSession(r) \/ Forgive(r)
               \/ CountSsoStart(r) \/ CreateTransaction(r) \/ FailExchange(r)
      BY <2>3 DEF RefuseLogin, CountFailure, InsertSession, CommitSession, Forgive, CountSsoStart,
        CreateTransaction, FailExchange
    <2>4. CASE (\E h \in Handles : ConsumeTransaction(r, h)) \/ \E i \in Identities : CompleteExternalLogin(r, i)
      BY <2>4 DEF ConsumeTransaction, CompleteExternalLogin
    <2>. QED BY <1>1, <2>1, <2>2, <2>3, <2>4 DEF SignIn
  <1>2. ASSUME NEW r \in Requests, Administer(r) PROVE UNCHANGED now
    <2>1. CASE \E s \in Sessions : (\E op \in AdminOps : AuthenticateAdmin(r, s, op)) \/ Authenticate(r, s)
      BY <2>1 DEF AuthenticateAdmin, Authenticate
    <2>2. CASE \/ LockUser(r) \/ UpdateManagedUser(r) \/ RevokeUserSessions(r) \/ RevokeSession(r) \/ CreateUser(r)
      BY <2>2 DEF LockUser, UpdateManagedUser, RevokeUserSessions, RevokeSession, CreateUser
    <2>3. CASE \/ ResetLocalPassword(r) \/ ClearAuthLocks(r)
               \/ BindExternalIdentity(r) \/ LockIdentities(r) \/ UnbindExternalIdentity(r)
      BY <2>3 DEF ResetLocalPassword, ClearAuthLocks, BindExternalIdentity, LockIdentities, UnbindExternalIdentity
    <2>. QED BY <1>2, <2>1, <2>2, <2>3 DEF Administer
  <1>3. CASE CleanUp
    BY <1>3 DEF CleanUp, accountRows
  <1>. QED BY <1>1, <1>2, <1>3 DEF AccountsNext

\* The steps of sign-in and administration that touch neither users, identities
\* nor sessions, nor take up what an operation asks for.
Elsewhere(r) ==
  /\ ~At(r, "cutting") /\ UNCHANGED <<accountRows, now>>
  /\ \E state : Becomes(r, state) /\ state.at \in {"idle", "failing", "forgiving", "starting", "authorizing", "called", "exchanging"}

LEMMA SignInSteps ==
  ASSUME NEW r \in Requests, SignIn(r)
  PROVE  \/ Elsewhere(r)
         \/ \E l \in Logins, a \in Addresses : StartLogin(r, l, a)
         \/ InsertSession(r) \/ CommitSession(r)
         \/ \E i \in Identities : CompleteExternalLogin(r, i)
  <1>1. CASE \E a \in Addresses : InvalidLogin(r, a) \/ AdmitSsoStart(r, a) \/ AdmitCallback(r, a)
    BY <1>1 DEF Elsewhere, InvalidLogin, AdmitSsoStart, AdmitCallback, accountRows
  <1>2. CASE RefuseLogin(r) \/ CountFailure(r) \/ Forgive(r)
    BY <1>2 DEF Elsewhere, RefuseLogin, CountFailure, Forgive, accountRows
  <1>3. CASE CountSsoStart(r) \/ CreateTransaction(r)
    BY <1>3 DEF Elsewhere, CountSsoStart, CreateTransaction, accountRows
  <1>4. CASE FailExchange(r)
    <2>. DEFINE state == [at |-> "failing", hits |-> addressFailureHit(request[r].address)]
    <2>1. Becomes(r, state) /\ ~At(r, "cutting") /\ UNCHANGED <<accountRows, now>>
      BY <1>4 DEF FailExchange, accountRows
    <2>2. state.at = "failing"
      OBVIOUS
    <2>. QED BY <2>1, <2>2 DEF Elsewhere
  <1>5. CASE \E h \in Handles : ConsumeTransaction(r, h)
    <2>1. PICK h \in Handles : ConsumeTransaction(r, h)
      BY <1>5
    <2>. DEFINE exchanging == [at |-> "exchanging", address |-> request[r].address]
                failing == [at |-> "failing", hits |-> addressFailureHit(request[r].address)]
    <2>2. Becomes(r, exchanging) \/ Becomes(r, failing)
      BY <2>1 DEF ConsumeTransaction
    <2>3. ~At(r, "cutting") /\ UNCHANGED <<accountRows, now>>
      BY <2>1 DEF ConsumeTransaction, accountRows
    <2>4. exchanging.at = "exchanging" /\ failing.at = "failing"
      OBVIOUS
    <2>. HIDE DEF exchanging, failing
    <2>. QED BY <2>2, <2>3, <2>4 DEF Elsewhere
  <1>. QED BY <1>1, <1>2, <1>3, <1>4, <1>5 DEF SignIn

\* Most steps are about something else than accounts.
LEMMA OtherSteps ==
  ASSUME [Next]_vars
  PROVE  \/ UNCHANGED <<now, accountVars>>
         \/ AccountsNext \/ Tick
         \/ \E r \in Requests : Cut(r) \/ FindOwned(r)
         \/ \E r \in Requests, s \in Sessions, w \in Workspaces : AskToOpen(r, s, w)
         \/ \E r \in Requests, c \in Codes : IssueCode(r, c)
         \/ Restart
  <1>1. CASE UNCHANGED vars
    BY <1>1 DEF vars
  <1>2. CASE \E f \in Flushes : StartFlush(f) \/ FinishFlush(f) \/ FailFlush(f)
    BY <1>2 DEF StartFlush, FinishFlush, FailFlush
  <1>3. CASE (\E p \in Posts, c \in Codes, w \in Workspaces : PostCode(p, c, w))
             \/ \E p \in Posts : CheckSession(p) \/ FinishExchange(p)
    BY <1>3 DEF PostCode, CheckSession, FinishExchange
  <1>4. CASE \/ \E c \in Connections, s \in Sessions, w \in Workspaces, kind \in {"http", "ws"} : FindSession(c, s, w, kind)
             \/ \E c \in Connections : FindWorkspace(c) \/ FindRoute(c)
                  \/ ProxyHttpRequest(c) \/ ProxyWebSocketUpgrade(c) \/ HandleUpgrade(c) \/ Upgraded(c) \/ UpgradeFails(c)
                  \/ Recheck(c) \/ EndHttp(c) \/ EndWebSocket(c) \/ BrowserLeaves(c)
    BY <1>4 DEF FindSession, FindWorkspace, FindRoute, ProxyHttpRequest, ProxyWebSocketUpgrade, HandleUpgrade,
      Upgraded, UpgradeFails, Recheck, EndHttp, EndWebSocket, BrowserLeaves
  <1>5. CASE DisableWorker \/ EnforceWorkerRevocations \/ LoseChannel \/ ConnectChannel \/ SampleUsage \/ ReportUsage
    BY <1>5 DEF DisableWorker, EnforceWorkerRevocations, LoseChannel, ConnectChannel, SampleUsage, ReportUsage
  <1>6. CASE \E w \in Workspaces : Compute(w) \/ StopWorkspace(w) \/ StartWorkspace(w)
    BY <1>6 DEF Compute, StopWorkspace, StartWorkspace
  <1>7. CASE \E s \in Sweeps : StartSweep(s) \/ CheckCandidate(s) \/ BeginIdleStop(s) \/ FinishIdleStop(s)
    BY <1>7 DEF StartSweep, CheckCandidate, BeginIdleStop, FinishIdleStop
  <1>. QED BY <1>1, <1>2, <1>3, <1>4, <1>5, <1>6, <1>7 DEF Next

\* What becomes of the requests in a step: one of them changes at most, and the
\* account rows only by its hand.
LEMMA Steps ==
  ASSUME [Next]_vars
  PROVE  \/ UNCHANGED <<accountRows, request>> /\ now' \in {now, now + 1}
         \/ UNCHANGED now /\ \E r \in Requests : SignIn(r) \/ Administer(r)
         \/ \E r \in Requests : Cut(r) \/ FindOwned(r)
         \/ \E r \in Requests, s \in Sessions, w \in Workspaces : AskToOpen(r, s, w)
         \/ \E r \in Requests, c \in Codes : IssueCode(r, c)
         \/ Restart
  <1>1. CASE UNCHANGED <<now, accountVars>>
    BY <1>1 DEF accountVars, accountRows
  <1>2. CASE AccountsNext
    BY <1>2, AccountSteps
  <1>3. CASE Tick
    BY <1>3 DEF Tick, accountRows
  <1>. QED BY <1>1, <1>2, <1>3, OtherSteps

LEMMA Parameters == SessionTtl \in Nat /\ NoSession \notin SessionRecord /\ NoUser \notin Users /\ NoUser \notin UserRecord
  BY AccountsAssumption

\* One request at a time.
LEMMA OneRequestMoves ==
  ASSUME Types, NEW r \in Requests, NEW state, Becomes(r, state), StateTyped(state), RowsTyped'
  PROVE  Types'
  <1>1. request' = [q \in Requests |-> request'[q]]
    BY DEF Types
  <1>2. ASSUME NEW q \in Requests PROVE StateTyped(request'[q])
    BY DEF Types
  <1>. QED BY <1>1, <1>2 DEF Types, StateTyped, OpTyped

\* Rows that are not written keep their types.
LEMMA RowsUnchanged == ASSUME RowsTyped, UNCHANGED accountRows, now' \in {now, now + 1} PROVE RowsTyped'
  BY DEF RowsTyped, accountRows

LEMMA SignInKeepsTypes == ASSUME Types, NEW r \in Requests, SignIn(r), UNCHANGED now PROVE Types'
  <1>. USE DEF Types
  <1>1. CASE Elsewhere(r)
    <2>1. PICK state : Becomes(r, state) /\ state.at \in {"idle", "failing", "forgiving", "starting", "authorizing", "called", "exchanging"}
      BY <1>1 DEF Elsewhere
    <2>2. StateTyped(state)
      BY <2>1 DEF StateTyped
    <2>. QED BY <1>1, <2>1, <2>2, OneRequestMoves, RowsUnchanged DEF Elsewhere
  <1>2. CASE \E l \in Logins, a \in Addresses : StartLogin(r, l, a)
    <2>1. PICK l \in Logins, a \in Addresses : StartLogin(r, l, a)
      BY <1>2
    <2>. DEFINE state == [at |-> "verifying", login |-> l, address |-> a, active |-> l \in Users /\ ActiveUser(l)]
    <2>2. Becomes(r, state) /\ UNCHANGED accountRows
      BY <2>1 DEF StartLogin, accountRows
    <2>3. StateTyped(state)
      BY DEF StateTyped
    <2>. QED BY <2>2, <2>3, OneRequestMoves, RowsUnchanged
  <1>3. CASE InsertSession(r)
    <2>1. ASSUME NEW s \in Sessions,
                 NEW state, state = [at |-> "inserted", login |-> request[r].login, address |-> request[r].address,
                                     session |-> s, expires |-> now + SessionTtl]
          PROVE  StateTyped(state)
      <3>1. request[r].login \in Users
        BY <1>3 DEF InsertSession, StateTyped
      <3>2. now + SessionTtl \in Nat
        BY Parameters DEF RowsTyped
      <3>. QED BY <2>1, <3>1, <3>2 DEF StateTyped
    <2>2. StateTyped(Idle)
      BY DEF StateTyped
    <2>3. \E state : Becomes(r, state) /\ StateTyped(state)
      BY <1>3, <2>1, <2>2 DEF InsertSession, Unused
    <2>. QED BY <1>3, <2>3, OneRequestMoves, RowsUnchanged DEF InsertSession, accountRows
  <1>4. CASE CommitSession(r)
    <2>. DEFINE state == [at |-> "forgiving", keys |-> {loginIpKey(request[r].login, request[r].address)}]
    <2>1. Becomes(r, state) /\ StateTyped(state)
      BY <1>4 DEF CommitSession, StateTyped
    <2>2. RowsTyped'
      BY <1>4 DEF CommitSession, RowsTyped, StateTyped, SessionRecord
    <2>. QED BY <2>1, <2>2, OneRequestMoves
  <1>5. CASE \E i \in Identities : CompleteExternalLogin(r, i)
    <2>1. PICK i \in Identities : CompleteExternalLogin(r, i)
      BY <1>5
    <2>2. Becomes(r, Idle) /\ StateTyped(Idle)
      BY <2>1 DEF CompleteExternalLogin, StateTyped
    <2>3. ASSUME NEW u \in Users, openSession(u) PROVE session' \in [Sessions -> SessionRecord \cup {NoSession}]
      <3>1. PICK s \in Unused : session' = [session EXCEPT ![s] = [user |-> u, revoked |-> FALSE, expires |-> now + SessionTtl]]
        BY <2>3 DEF openSession
      <3>2. now + SessionTtl \in Nat
        BY Parameters DEF RowsTyped
      <3>3. [user |-> u, revoked |-> FALSE, expires |-> now + SessionTtl] \in SessionRecord
        BY <3>2 DEF SessionRecord
      <3>. QED BY <3>1, <3>3 DEF RowsTyped
    <2>4. CASE UNCHANGED accountRows
      BY <2>2, <2>4, OneRequestMoves, RowsUnchanged
    <2>5. CASE identity[i] # NoUser /\ signInKnown(identity[i])
      BY <2>2, <2>3, <2>5, OneRequestMoves DEF signInKnown, RowsTyped
    <2>6. CASE \E u \in Users : provision(i, u)
      BY <2>2, <2>3, <2>6, OneRequestMoves DEF provision, RowsTyped, UserRecord
    <2>. QED BY <2>1, <2>4, <2>5, <2>6 DEF CompleteExternalLogin, completeExternalLogin, accountRows
  <1>. QED BY <1>1, <1>2, <1>3, <1>4, <1>5, SignInSteps

\* A row that is being updated is there.
Present == \A r \in Requests : At(r, "updating") => user[request[r].op.user] # NoUser

LEMMA AdministrationKeepsTypes ==
  ASSUME Types, Present, NEW r \in Requests, Administer(r), UNCHANGED now
  PROVE  Types'
  <1>. USE DEF Types
  <1>a. StateTyped(Idle)
    BY DEF StateTyped
  <1>b. ASSUME NEW which, revokeSessions(which) PROVE session' \in [Sessions -> SessionRecord \cup {NoSession}]
    BY <1>b DEF revokeSessions, RowsTyped, SessionRecord
  <1>c. ASSUME NEW kind, Asked(r, kind) PROVE OpTyped(request[r].op) /\ request[r].op.kind = kind
    BY <1>c DEF Asked, StateTyped
  <1>d. ASSUME At(r, "updating") \/ At(r, "unbinding") PROVE OpTyped(request[r].op)
    BY <1>d DEF StateTyped
  <1>1. CASE \E s \in Sessions, op \in AdminOps : AuthenticateAdmin(r, s, op)
    <2>1. PICK op \in AdminOps : \E s \in Sessions : AuthenticateAdmin(r, s, op)
      BY <1>1
    <2>. DEFINE state == [at |-> "admitted", op |-> op]
    <2>2. Becomes(r, state) /\ UNCHANGED accountRows
      BY <2>1 DEF AuthenticateAdmin, accountRows
    <2>3. StateTyped(state)
      BY OpsAreTyped DEF StateTyped
    <2>. QED BY <2>2, <2>3, OneRequestMoves, RowsUnchanged
  <1>2. CASE \E s \in Sessions : Authenticate(r, s)
    <2>1. PICK s \in Sessions : Authenticate(r, s)
      BY <1>2
    <2>. DEFINE state == [at |-> "admitted", op |-> [kind |-> "logout", user |-> session[s].user, session |-> s]]
    <2>2. Becomes(r, state) /\ UNCHANGED accountRows
      BY <2>1 DEF Authenticate, accountRows
    <2>3. StateTyped(state)
      BY DEF StateTyped, OpTyped
    <2>. QED BY <2>2, <2>3, OneRequestMoves, RowsUnchanged
  <1>3. CASE LockUser(r)
    <2>. DEFINE state == [at |-> "updating", op |-> request[r].op]
    <2>1. StateTyped(state)
      BY <1>3, <1>c DEF LockUser, StateTyped
    <2>2. UNCHANGED accountRows /\ (Becomes(r, Idle) \/ Becomes(r, state))
      BY <1>3 DEF LockUser, accountRows
    <2>. QED BY <1>a, <2>1, <2>2, OneRequestMoves, RowsUnchanged
  <1>4. CASE UpdateManagedUser(r)
    <2>. DEFINE state == [at |-> "cutting", op |-> request[r].op]
    <2>1. StateTyped(state)
      BY <1>4, <1>d DEF UpdateManagedUser, StateTyped
    <2>2. Becomes(r, Idle) \/ Becomes(r, state)
      BY <1>4 DEF UpdateManagedUser
    <2>3. request[r].op.kind = "patch" /\ OpTyped(request[r].op)
      BY <1>4, <1>d DEF UpdateManagedUser, StateTyped
    <2>4. user' \in [Users -> UserRecord \cup {NoUser}]
      <3>. DEFINE u == request[r].op.user
      <3>1. u \in Users /\ user[u] \in UserRecord
        BY <1>4, <2>3 DEF UpdateManagedUser, Present, RowsTyped, OpTyped
      <3>2. Changed(u, request[r].op) \in UserRecord
        BY <2>3, <3>1 DEF Changed, OpTyped, UserRecord
      <3>3. user' = [user EXCEPT ![u] = Changed(u, request[r].op)]
        BY <1>4 DEF UpdateManagedUser
      <3>. QED BY <3>1, <3>2, <3>3 DEF RowsTyped
    <2>5. session' \in [Sessions -> SessionRecord \cup {NoSession}]
      BY <1>4, <1>b DEF UpdateManagedUser, RowsTyped
    <2>6. RowsTyped'
      BY <1>4, <2>4, <2>5 DEF UpdateManagedUser, RowsTyped
    <2>. QED BY <1>a, <2>1, <2>2, <2>6, OneRequestMoves
  <1>5. CASE RevokeUserSessions(r) \/ RevokeSession(r)
    <2>. DEFINE state == [at |-> "cutting", op |-> request[r].op]
    <2>1. StateTyped(state)
      BY <1>5, <1>c DEF RevokeUserSessions, RevokeSession, StateTyped
    <2>2. Becomes(r, Idle) \/ Becomes(r, state)
      BY <1>5 DEF RevokeUserSessions, RevokeSession
    <2>3. session' \in [Sessions -> SessionRecord \cup {NoSession}]
      BY <1>5, <1>b DEF RevokeUserSessions, RevokeSession, revokeUserSessions, RowsTyped
    <2>4. RowsTyped'
      BY <1>5, <2>3 DEF RevokeUserSessions, RevokeSession, RowsTyped
    <2>. QED BY <1>a, <2>1, <2>2, <2>4, OneRequestMoves
  <1>6. CASE CreateUser(r)
    <2>1. user' \in [Users -> UserRecord \cup {NoUser}]
      <3>1. [role |-> "user", status |-> "active", local |-> TRUE] \in UserRecord
        BY DEF UserRecord
      <3>. QED BY <1>6, <3>1 DEF CreateUser, RowsTyped
    <2>2. RowsTyped' /\ Becomes(r, Idle)
      BY <1>6, <2>1 DEF CreateUser, RowsTyped
    <2>. QED BY <1>a, <2>2, OneRequestMoves
  <1>7. CASE ResetLocalPassword(r)
    <2>. DEFINE state == [at |-> "forgiving", keys |-> userKeys(request[r].op.user)]
    <2>1. StateTyped(state)
      BY DEF StateTyped
    <2>2. UNCHANGED accountRows /\ (Becomes(r, Idle) \/ Becomes(r, state))
      BY <1>7 DEF ResetLocalPassword, accountRows
    <2>. QED BY <1>a, <2>1, <2>2, OneRequestMoves, RowsUnchanged
  <1>8. CASE ClearAuthLocks(r)
    <2>1. UNCHANGED accountRows /\ Becomes(r, Idle)
      BY <1>8 DEF ClearAuthLocks, accountRows
    <2>. QED BY <1>a, <2>1, OneRequestMoves, RowsUnchanged
  <1>9. CASE BindExternalIdentity(r) \/ UnbindExternalIdentity(r)
    <2>1. identity' \in [Identities -> Users \cup {NoUser}]
      BY <1>9, <1>c, <1>d
      DEF BindExternalIdentity, bindExternalIdentity, UnbindExternalIdentity, RowsTyped, OpTyped
    <2>2. RowsTyped' /\ Becomes(r, Idle)
      BY <1>9, <2>1 DEF BindExternalIdentity, UnbindExternalIdentity, RowsTyped
    <2>. QED BY <1>a, <2>2, OneRequestMoves
  <1>10. CASE LockIdentities(r)
    <2>. DEFINE state == [at |-> "unbinding", op |-> request[r].op]
    <2>1. StateTyped(state)
      BY <1>10, <1>c DEF LockIdentities, StateTyped
    <2>2. UNCHANGED accountRows /\ (Becomes(r, Idle) \/ Becomes(r, state))
      BY <1>10 DEF LockIdentities, accountRows
    <2>. QED BY <1>a, <2>1, <2>2, OneRequestMoves, RowsUnchanged
  <1>. QED BY <1>1, <1>2, <1>3, <1>4, <1>5, <1>6, <1>7, <1>8, <1>9, <1>10 DEF Administer

LEMMA TypesKept == ASSUME Types, Present, [Next]_vars PROVE Types'
  <1>a. RowsTyped /\ StateTyped(Idle)
    BY DEF Types, StateTyped
  <1>1. CASE UNCHANGED <<accountRows, request>> /\ now' \in {now, now + 1}
    BY <1>1, RowsUnchanged DEF Types
  <1>2. CASE UNCHANGED now /\ \E r \in Requests : SignIn(r) \/ Administer(r)
    BY <1>2, SignInKeepsTypes, AdministrationKeepsTypes
  <1>3. CASE \E r \in Requests : Cut(r)
    BY <1>3, <1>a, OneRequestMoves, RowsUnchanged DEF Cut, accountRows
  <1>4. CASE \E r \in Requests : FindOwned(r)
    <2>1. PICK r \in Requests : FindOwned(r)
      BY <1>4
    <2>. DEFINE state == [request[r] EXCEPT !.at = "opened"]
    <2>2. UNCHANGED <<accountRows, now>> /\ (Becomes(r, Idle) \/ Becomes(r, state))
      BY <2>1 DEF FindOwned, accountRows
    <2>3. StateTyped(state)
      BY <2>1 DEF FindOwned, Types, StateTyped, Opening
    <2>. QED BY <1>a, <2>2, <2>3, OneRequestMoves, RowsUnchanged
  <1>5. CASE \E r \in Requests, s \in Sessions, w \in Workspaces : AskToOpen(r, s, w)
    <2>1. PICK r \in Requests, s \in Sessions, w \in Workspaces : AskToOpen(r, s, w)
      BY <1>5
    <2>. DEFINE state == [at |-> "opening", session |-> s, user |-> session[s].user, workspace |-> w]
    <2>2. UNCHANGED <<accountRows, now>> /\ Becomes(r, state)
      BY <2>1 DEF AskToOpen, accountRows
    <2>3. StateTyped(state)
      BY <2>1, <1>a DEF AskToOpen, ActiveSession, RowsTyped, SessionRecord, StateTyped, Opening
    <2>. QED BY <1>a, <2>2, <2>3, OneRequestMoves, RowsUnchanged
  <1>6. CASE \E r \in Requests, c \in Codes : IssueCode(r, c)
    BY <1>6, <1>a, OneRequestMoves, RowsUnchanged DEF IssueCode, accountRows
  <1>7. CASE Restart
    BY <1>7, <1>a DEF Restart, AccountsRestart, Types, RowsTyped, StateTyped
  <1>. QED BY <1>1, <1>2, <1>3, <1>4, <1>5, <1>6, <1>7, Steps

-----------------------------------------------------------------------------
(* Accounts stay usable.  The count of what remains is taken in one        *)
(* statement and the change made in a later one: what was counted must     *)
(* still be there, because nobody else is past the count (OneUpdate,       *)
(* OneUnbind) and whatever else happens to users only adds to them.        *)

LocalAdmin(v) == user[v] # NoUser /\ user[v].status = "active" /\ user[v].role = "admin" /\ user[v].local
WayIn(u) == user[u].local \/ \E i \in Identities : identity[i] = u

OneUpdate == \A r, q \in Requests : At(r, "updating") /\ At(q, "updating") => r = q
OneUnbind == \A r, q \in Requests : At(r, "unbinding") /\ At(q, "unbinding") => r = q

UpdatesSpareAnAdmin ==
  \A r \in Requests : At(r, "updating") /\ removesActiveAdmin(request[r].op.user, request[r].op) =>
    \E v \in Users \ {request[r].op.user} : LocalAdmin(v)
UnbindsSpareAWayIn ==
  \A r \in Requests : At(r, "unbinding") =>
    /\ user[request[r].op.user] # NoUser
    /\ \/ user[request[r].op.user].local
       \/ \E j \in Identities \ {request[r].op.identity} : identity[j] = request[r].op.user
    /\ identity[request[r].op.identity] = request[r].op.user

Usable ==
  /\ Present /\ OneUpdate /\ OneUnbind
  /\ UpdatesSpareAnAdmin /\ UnbindsSpareAWayIn
  /\ \E v \in Users : LocalAdmin(v)
  /\ \A u \in Users : user[u] # NoUser => WayIn(u)

LEMMA UsableSuffices == Usable => AccountsStayUsable
  BY DEF Usable, AccountsStayUsable, WayIn, LocalAdmin, activeLocalAdmins, ActiveUser, identitiesOf

\* No transaction begins that counts, and users and identities are only added.
OnlyAdds ==
  /\ \A q \in Requests : request'[q].at \in {"updating", "unbinding"} => request'[q] = request[q]
  /\ \A u \in Users : user[u] # NoUser => user'[u] = user[u]
  /\ \A i \in Identities : identity[i] # NoUser => identity'[i] = identity[i]
  /\ \A u \in Users : user[u] = NoUser /\ user'[u] # NoUser => WayIn(u)'

LEMMA AdditionsKeepUsable == ASSUME Types, Usable, OnlyAdds PROVE Usable'
  <1>a. \A v \in Users : LocalAdmin(v) => LocalAdmin(v)'
    BY DEF OnlyAdds, LocalAdmin
  <1>b. ASSUME NEW q \in Requests, (At(q, "updating") \/ At(q, "unbinding"))'
        PROVE  /\ request'[q] = request[q] /\ OpTyped(request[q].op) /\ request[q].op.user \in Users
               /\ At(q, "unbinding") => request[q].op.identity \in Identities
    BY <1>b DEF OnlyAdds, Types, StateTyped, OpTyped
  <1>1. Present' /\ OneUpdate' /\ OneUnbind'
    BY <1>b DEF Usable, Present, OneUpdate, OneUnbind, OnlyAdds
  <1>2. UpdatesSpareAnAdmin'
    BY <1>a, <1>b DEF Usable, Present, UpdatesSpareAnAdmin, OnlyAdds, removesActiveAdmin, Changed
  <1>3. UnbindsSpareAWayIn'
    BY <1>b, Parameters DEF Usable, UnbindsSpareAWayIn, OnlyAdds
  <1>4. (\E v \in Users : LocalAdmin(v))'
    BY <1>a DEF Usable
  <1>5. ASSUME NEW u \in Users, user'[u] # NoUser PROVE WayIn(u)'
    BY <1>5, Parameters DEF Usable, OnlyAdds, WayIn
  <1>. QED BY <1>1, <1>2, <1>3, <1>4, <1>5 DEF Usable

\* The transaction that counts administrators: only one at a time, and only if
\* one remains.
LEMMA LockUserKeepsUsable == ASSUME Types, Usable, NEW r \in Requests, LockUser(r) PROVE Usable'
  <1>1. CASE Becomes(r, Idle)
    BY <1>1, AdditionsKeepUsable DEF LockUser, OnlyAdds, Types
  <1>2. CASE ~Becomes(r, Idle)
    <2>. DEFINE op == request[r].op
    <2>1. /\ Becomes(r, [at |-> "updating", op |-> op]) /\ op.user \in Users /\ UNCHANGED <<user, identity>>
          /\ user[op.user] # NoUser /\ ~(removesActiveAdmin(op.user, op) /\ activeLocalAdmins \ {op.user} = {})
          /\ \A q \in Requests : ~At(q, "updating")
      BY <1>2 DEF LockUser, Asked, Types, StateTyped, OpTyped, adminLockFree
    <2>2. removesActiveAdmin(op.user, op) => \E v \in Users \ {op.user} : LocalAdmin(v)
      BY <2>1 DEF activeLocalAdmins, ActiveUser, LocalAdmin
    <2>3. \A q \in Requests : request'[q] = IF q = r THEN [at |-> "updating", op |-> op] ELSE request[q]
      BY <2>1 DEF Types
    <2>4. Present' /\ OneUpdate' /\ OneUnbind' /\ UnbindsSpareAWayIn'
      BY <2>1, <2>3 DEF Usable, Present, OneUpdate, OneUnbind, UnbindsSpareAWayIn
    <2>5. UpdatesSpareAnAdmin'
      <3>1. \A u, o : removesActiveAdmin(u, o)' = removesActiveAdmin(u, o)
        BY <2>1 DEF removesActiveAdmin, Changed
      <3>2. \A q \in Requests : At(q, "updating")' => q = r /\ request'[q].op = op
        BY <2>1, <2>3
      <3>3. \A v \in Users : LocalAdmin(v)' = LocalAdmin(v)
        BY <2>1 DEF LocalAdmin
      <3>. HIDE DEF op
      <3>. QED BY <2>2, <3>1, <3>2, <3>3 DEF UpdatesSpareAnAdmin
    <2>. QED BY <2>1, <2>4, <2>5 DEF Usable, LocalAdmin, WayIn
  <1>. QED BY <1>1, <1>2

LEMMA UpdateKeepsUsable == ASSUME Types, Usable, NEW r \in Requests, UpdateManagedUser(r) PROVE Usable'
  <1>. DEFINE op == request[r].op
              u == op.user
  <1>1. /\ At(r, "updating") /\ op.user \in Users /\ OpTyped(op) /\ op.kind = "patch"
        /\ user[u] \in UserRecord /\ user' = [user EXCEPT ![u] = Changed(u, op)]
        /\ UNCHANGED identity
    BY DEF UpdateManagedUser, Types, RowsTyped, StateTyped, OpTyped, Usable, Present
  <1>2. /\ user'[u] = Changed(u, op) /\ user'[u] \in UserRecord /\ user'[u].local = user[u].local
        /\ \A v \in Users \ {u} : user'[v] = user[v]
    BY <1>1 DEF Types, RowsTyped, Changed, UserRecord, OpTyped
  <1>3. \A q \in Requests : (At(q, "updating") \/ At(q, "unbinding"))' => q # r /\ request'[q] = request[q]
    BY DEF UpdateManagedUser, Types
  <1>4. \A q \in Requests : ~At(q, "updating")'
    BY <1>1, <1>3 DEF Usable, OneUpdate
  <1>5. \A v \in Users : user'[v] # NoUser => user[v] # NoUser /\ user'[v].local = user[v].local
    BY <1>1, <1>2, Parameters DEF Usable, Present
  <1>6. \A v \in Users : user[v] # NoUser => user'[v] # NoUser
    BY <1>1, <1>2, Parameters
  <1>7. Present' /\ OneUpdate' /\ UpdatesSpareAnAdmin'
    BY <1>4 DEF Present, OneUpdate, UpdatesSpareAnAdmin
  <1>8. OneUnbind' /\ UnbindsSpareAWayIn'
    <2>1. OneUnbind'
      BY <1>3 DEF Usable, OneUnbind
    <2>2. ASSUME NEW q \in Requests, At(q, "unbinding")'
          PROVE  request'[q] = request[q] /\ request[q].op.user \in Users /\ At(q, "unbinding")
      BY <1>3, <2>2 DEF Types, StateTyped, OpTyped
    <2>. QED BY <1>1, <1>5, <1>6, <2>1, <2>2 DEF Usable, UnbindsSpareAWayIn
  <1>9. (\E v \in Users : LocalAdmin(v))'
    <2>1. CASE removesActiveAdmin(u, op)
      BY <1>1, <1>2, <2>1 DEF Usable, UpdatesSpareAnAdmin, LocalAdmin
    <2>2. CASE ~removesActiveAdmin(u, op)
      <3>1. ASSUME user[u].status = "active", user[u].role = "admin"
            PROVE  Changed(u, op).status = "active" /\ Changed(u, op).role = "admin"
        BY <2>2, <3>1 DEF removesActiveAdmin
      <3>2. ASSUME NEW v \in Users, LocalAdmin(v) PROVE LocalAdmin(v)'
        <4>1. CASE v = u
          BY <1>1, <1>2, <1>6, <3>1, <3>2, <4>1 DEF LocalAdmin
        <4>2. CASE v # u
          BY <1>2, <3>2, <4>2 DEF LocalAdmin
        <4>. QED BY <4>1, <4>2
      <3>. QED BY <3>2 DEF Usable
    <2>. QED BY <2>1, <2>2
  <1>10. \A v \in Users : user'[v] # NoUser => WayIn(v)'
    BY <1>1, <1>5 DEF Usable, WayIn
  <1>. QED BY <1>7, <1>8, <1>9, <1>10 DEF Usable

\* The transaction that counts ways to sign in.
LEMMA LockIdentitiesKeepsUsable == ASSUME Types, Usable, NEW r \in Requests, LockIdentities(r) PROVE Usable'
  <1>1. CASE Becomes(r, Idle)
    BY <1>1, AdditionsKeepUsable DEF LockIdentities, OnlyAdds, Types
  <1>2. CASE ~Becomes(r, Idle)
    <2>. DEFINE op == request[r].op
    <2>1. /\ Becomes(r, [at |-> "unbinding", op |-> op]) /\ op.user \in Users /\ op.identity \in Identities
          /\ UNCHANGED <<user, identity>> /\ user[op.user] # NoUser /\ identity[op.identity] = op.user
          /\ user[op.user].local \/ Cardinality(identitiesOf(op.user)) # 1
          /\ \A q \in Requests : ~At(q, "unbinding")
      BY <1>2 DEF LockIdentities, Asked, Types, StateTyped, OpTyped, identityLockFree
    <2>2. user[op.user].local \/ \E j \in Identities \ {op.identity} : identity[j] = op.user
      <3>1. SUFFICES ASSUME ~\E j \in Identities \ {op.identity} : identity[j] = op.user
                     PROVE  Cardinality(identitiesOf(op.user)) = 1
        BY <2>1
      <3>2. identitiesOf(op.user) = {op.identity}
        BY <2>1, <3>1 DEF identitiesOf
      <3>. QED BY <3>2, FS_Singleton
    <2>3. \A q \in Requests : request'[q] = IF q = r THEN [at |-> "unbinding", op |-> op] ELSE request[q]
      BY <2>1 DEF Types
    <2>4. Present' /\ OneUpdate' /\ OneUnbind'
      BY <2>1, <2>3 DEF Usable, Present, OneUpdate, OneUnbind
    <2>5. UpdatesSpareAnAdmin'
      <3>1. \A u, o : removesActiveAdmin(u, o)' = removesActiveAdmin(u, o)
        BY <2>1 DEF removesActiveAdmin, Changed
      <3>2. \A q \in Requests : At(q, "updating")' => At(q, "updating") /\ request'[q] = request[q]
        BY <2>1, <2>3
      <3>3. \A v \in Users : LocalAdmin(v)' = LocalAdmin(v)
        BY <2>1 DEF LocalAdmin
      <3>. HIDE DEF op
      <3>. QED BY <3>1, <3>2, <3>3 DEF Usable, UpdatesSpareAnAdmin
    <2>6. UnbindsSpareAWayIn'
      BY <2>1, <2>2, <2>3 DEF Usable, UnbindsSpareAWayIn
    <2>. QED BY <2>1, <2>4, <2>5, <2>6 DEF Usable, LocalAdmin, WayIn
  <1>. QED BY <1>1, <1>2

LEMMA UnbindKeepsUsable == ASSUME Types, Usable, NEW r \in Requests, UnbindExternalIdentity(r) PROVE Usable'
  <1>. DEFINE op == request[r].op
  <1>1. /\ At(r, "unbinding") /\ op.user \in Users /\ op.identity \in Identities
        /\ identity' = [identity EXCEPT ![op.identity] = NoUser] /\ UNCHANGED user
    BY DEF UnbindExternalIdentity, Types, StateTyped, OpTyped
  <1>2. \A j \in Identities \ {op.identity} : identity'[j] = identity[j]
    BY <1>1 DEF Types, RowsTyped
  <1>3. \A q \in Requests : (At(q, "updating") \/ At(q, "unbinding"))' => q # r /\ request'[q] = request[q]
    BY DEF UnbindExternalIdentity, Types
  <1>4. \A q \in Requests : ~At(q, "unbinding")'
    BY <1>1, <1>3 DEF Usable, OneUnbind
  <1>5. Present' /\ OneUpdate' /\ OneUnbind' /\ UnbindsSpareAWayIn'
    BY <1>1, <1>3, <1>4 DEF Usable, Present, OneUpdate, OneUnbind, UnbindsSpareAWayIn
  <1>6. UpdatesSpareAnAdmin'
    BY <1>1, <1>3 DEF Usable, UpdatesSpareAnAdmin, removesActiveAdmin, Changed, LocalAdmin
  <1>7. ASSUME NEW u \in Users, user'[u] # NoUser PROVE WayIn(u)'
    <2>1. CASE u = op.user
      BY <1>1, <1>2, <2>1 DEF Usable, UnbindsSpareAWayIn, WayIn
    <2>2. CASE u # op.user
      BY <1>1, <1>2, <1>7, <2>2 DEF Usable, UnbindsSpareAWayIn, WayIn
    <2>. QED BY <2>1, <2>2
  <1>. QED BY <1>1, <1>5, <1>6, <1>7 DEF Usable, LocalAdmin

\* Every other step of a request only adds.
LEMMA RequestsKeepUsable ==
  ASSUME Types, Usable, NEW r \in Requests, SignIn(r) \/ Administer(r)
  PROVE  Usable'
  <1>a. ASSUME NEW state, Becomes(r, state), state.at \notin {"updating", "unbinding"}, UNCHANGED <<user, identity>>
        PROVE  Usable'
    BY <1>a, AdditionsKeepUsable DEF OnlyAdds, Types
  <1>b. ASSUME NEW u \in Users, NEW i \in Identities, identity[i] = NoUser, user[u] = NoUser,
               user' = [user EXCEPT ![u] = [role |-> "user", status |-> "active", local |-> FALSE]],
               identity' = [identity EXCEPT ![i] = u], Becomes(r, Idle)
        PROVE  Usable'
    <2>1. OnlyAdds
      BY <1>b DEF OnlyAdds, Types, RowsTyped, WayIn
    <2>. QED BY <2>1, AdditionsKeepUsable
  <1>1. CASE Elsewhere(r)
    BY <1>1, <1>a DEF Elsewhere, accountRows
  <1>2. CASE \E l \in Logins, a \in Addresses : StartLogin(r, l, a)
    <2>1. PICK l \in Logins, a \in Addresses : StartLogin(r, l, a)
      BY <1>2
    <2>. DEFINE state == [at |-> "verifying", login |-> l, address |-> a, active |-> l \in Users /\ ActiveUser(l)]
    <2>2. Becomes(r, state) /\ UNCHANGED <<user, identity>> /\ state.at = "verifying"
      BY <2>1 DEF StartLogin
    <2>. QED BY <2>2, <1>a
  <1>3. CASE InsertSession(r)
    <2>1. UNCHANGED <<user, identity>> /\ \A q \in Requests : request'[q].at \in {"updating", "unbinding"} => request'[q] = request[q]
      BY <1>3 DEF InsertSession, Types
    <2>. QED BY <2>1, AdditionsKeepUsable DEF OnlyAdds
  <1>4. CASE CommitSession(r)
    <2>. DEFINE state == [at |-> "forgiving", keys |-> {loginIpKey(request[r].login, request[r].address)}]
    <2>1. Becomes(r, state) /\ UNCHANGED <<user, identity>> /\ state.at = "forgiving"
      BY <1>4 DEF CommitSession
    <2>. QED BY <2>1, <1>a
  <1>5. CASE \E i \in Identities : CompleteExternalLogin(r, i)
    <2>1. PICK i \in Identities : CompleteExternalLogin(r, i)
      BY <1>5
    <2>2. Becomes(r, Idle)
      BY <2>1 DEF CompleteExternalLogin
    <2>3. CASE UNCHANGED accountRows \/ signInKnown(identity[i])
      BY <2>2, <2>3, <1>a DEF signInKnown, accountRows
    <2>4. CASE identity[i] = NoUser /\ \E u \in Users : provision(i, u)
      BY <2>2, <2>4, <1>b DEF provision
    <2>. QED BY <2>1, <2>3, <2>4 DEF CompleteExternalLogin, completeExternalLogin, accountRows
  <1>6. CASE \E s \in Sessions : (\E op \in AdminOps : AuthenticateAdmin(r, s, op)) \/ Authenticate(r, s)
    <2>1. UNCHANGED <<user, identity>> /\ \A q \in Requests : request'[q].at \in {"updating", "unbinding"} => request'[q] = request[q]
      BY <1>6 DEF AuthenticateAdmin, Authenticate, Types
    <2>. QED BY <2>1, AdditionsKeepUsable DEF OnlyAdds
  <1>7. CASE RevokeUserSessions(r) \/ RevokeSession(r) \/ ResetLocalPassword(r) \/ ClearAuthLocks(r)
    <2>1. UNCHANGED <<user, identity>> /\ \A q \in Requests : request'[q].at \in {"updating", "unbinding"} => request'[q] = request[q]
      BY <1>7 DEF RevokeUserSessions, RevokeSession, ResetLocalPassword, ClearAuthLocks, Types
    <2>. QED BY <2>1, AdditionsKeepUsable DEF OnlyAdds
  <1>8. CASE CreateUser(r)
    <2>1. OnlyAdds
      BY <1>8 DEF CreateUser, OnlyAdds, Types, RowsTyped, WayIn
    <2>. QED BY <2>1, AdditionsKeepUsable
  <1>9. CASE BindExternalIdentity(r)
    <2>1. OnlyAdds
      BY <1>9 DEF BindExternalIdentity, bindExternalIdentity, OnlyAdds, Types, RowsTyped
    <2>. QED BY <2>1, AdditionsKeepUsable
  <1>. QED BY <1>1, <1>2, <1>3, <1>4, <1>5, <1>6, <1>7, <1>8, <1>9, SignInSteps, LockUserKeepsUsable,
              UpdateKeepsUsable, LockIdentitiesKeepsUsable, UnbindKeepsUsable DEF Administer

LEMMA UsableKept == ASSUME Types, Usable, [Next]_vars PROVE Usable'
  <1>1. CASE UNCHANGED <<accountRows, request>>
    BY <1>1, AdditionsKeepUsable DEF OnlyAdds, accountRows
  <1>2. CASE \E r \in Requests : Cut(r) \/ FindOwned(r)
    <2>1. PICK r \in Requests : Cut(r) \/ FindOwned(r)
      BY <1>2
    <2>. DEFINE state == [request[r] EXCEPT !.at = "opened"]
    <2>2. UNCHANGED <<user, identity>> /\ (Becomes(r, Idle) \/ (At(r, "opening") /\ Becomes(r, state)))
      BY <2>1 DEF Cut, FindOwned
    <2>3. At(r, "opening") => state.at = "opened"
      BY DEF Types, StateTyped, Opening
    <2>4. \A q \in Requests : request'[q].at \in {"updating", "unbinding"} => request'[q] = request[q]
      <3>1. request'[r].at \notin {"updating", "unbinding"}
        <4>. HIDE DEF state
        <4>1. CASE Becomes(r, Idle)
          BY <4>1 DEF Types
        <4>2. CASE At(r, "opening") /\ Becomes(r, state)
          BY <2>3, <4>2 DEF Types
        <4>. QED BY <2>2, <4>1, <4>2
      <3>2. \A q \in Requests \ {r} : request'[q] = request[q]
        BY <2>2 DEF Types
      <3>. QED BY <3>1, <3>2
    <2>5. OnlyAdds
      BY <2>2, <2>4 DEF OnlyAdds
    <2>. QED BY <2>5, AdditionsKeepUsable
  <1>3. CASE \E r \in Requests, s \in Sessions, w \in Workspaces : AskToOpen(r, s, w)
    <2>1. OnlyAdds
      BY <1>3 DEF AskToOpen, OnlyAdds, Types
    <2>. QED BY <2>1, AdditionsKeepUsable
  <1>4. CASE \E r \in Requests, c \in Codes : IssueCode(r, c)
    <2>1. PICK r \in Requests : UNCHANGED <<user, identity>> /\ Becomes(r, Idle)
      BY <1>4 DEF IssueCode
    <2>2. OnlyAdds
      BY <2>1 DEF OnlyAdds, Types
    <2>. QED BY <2>2, AdditionsKeepUsable
  <1>5. CASE Restart
    BY <1>5, AdditionsKeepUsable DEF Restart, AccountsRestart, OnlyAdds
  <1>. QED BY <1>1, <1>2, <1>3, <1>4, <1>5, RequestsKeepUsable, Steps

LEMMA InitUsable == Init => Types /\ Usable
  <1>. SUFFICES ASSUME Init PROVE Types /\ Usable
    OBVIOUS
  <1>1. /\ request = [r \in Requests |-> Idle] /\ now = 0
        /\ user = [u \in Users |-> IF u \in DOMAIN InitialUsers THEN InitialUsers[u] ELSE NoUser]
        /\ identity = [i \in Identities |-> IF i \in DOMAIN InitialBound THEN InitialBound[i] ELSE NoUser]
    BY DEF Init, AccountsInit
  <1>2. session \in [Sessions -> SessionRecord \cup {NoSession}]
    <2>1. ASSUME NEW s \in DOMAIN InitialLogins
          PROVE  [user |-> InitialLogins[s], revoked |-> FALSE, expires |-> SessionTtl] \in SessionRecord
      BY AccountsAssumption DEF SessionRecord
    <2>. QED BY <2>1 DEF Init, AccountsInit
  <1>3. Types
    BY <1>1, <1>2, AccountsAssumption DEF Types, RowsTyped, StateTyped
  <1>4. \E v \in Users : LocalAdmin(v)
    BY <1>1, AccountsAssumption DEF LocalAdmin
  <1>5. \A u \in Users : user[u] # NoUser => WayIn(u)
    BY <1>1, AccountsAssumption DEF WayIn
  <1>6. Present /\ OneUpdate /\ OneUnbind /\ UpdatesSpareAnAdmin /\ UnbindsSpareAWayIn
    BY <1>1 DEF Present, OneUpdate, OneUnbind, UpdatesSpareAnAdmin, UnbindsSpareAWayIn
  <1>. QED BY <1>3, <1>4, <1>5, <1>6 DEF Usable

\* Whatever administrators, the CLI and sign-ins from outside do at the same time,
\* an active Local Admin remains and every user keeps a way to sign in
\* (updateManagedUser, unbindExternalIdentity).
THEOREM AccountsAlwaysUsable == Spec => []AccountsStayUsable
  <1>1. Types /\ Usable /\ [Next]_vars => Types' /\ Usable'
    BY TypesKept, UsableKept DEF Usable
  <1>. QED BY <1>1, InitUsable, UsableSuffices, PTL DEF Spec

-----------------------------------------------------------------------------
(* Codes grant once.  A code is in one place at a time: not issued, in the *)
(* store, with the exchange that took it, or spent.                        *)

CodesTyped ==
  /\ code \in [Codes -> CodeRecord \cup {NoCode}]
  /\ issued \in [Codes -> IssuedRecord \cup {NoCode}]
  /\ post \in [Posts -> PostRecord \cup {NoCode}]

\* An issued code that has not granted anything, as its record says.
Unspent(c, content) ==
  /\ issued[c] # NoCode
  /\ issued[c].session = content.session /\ issued[c].workspace = content.workspace
  /\ issued[c].times = 0 /\ issued[c].granted = {}

OnePlace ==
  /\ \A c \in Codes : code[c] # NoCode => Unspent(c, code[c])
  /\ \A p \in Posts : post[p] # NoCode =>
       /\ Unspent(post[p].code, post[p].record)
       /\ code[post[p].code] = NoCode
       /\ \A q \in Posts \ {p} : post[q] = NoCode \/ post[q].code # post[p].code

CodesInv == CodesTyped /\ OnePlace /\ CodesGrantOnce

LEMMA CodeParameters == CodeTtl \in Nat /\ NoCode \notin CodeRecord /\ NoCode \notin IssuedRecord /\ NoCode \notin PostRecord
  BY AccessAssumption

LEMMA CodeSteps ==
  ASSUME [Next]_vars
  PROVE  \/ UNCHANGED gates
         \/ \E r \in Requests, c \in Codes : IssueCode(r, c)
         \/ \E p \in Posts, c \in Codes, w \in Workspaces : PostCode(p, c, w)
         \/ \E p \in Posts : CheckSession(p) \/ FinishExchange(p)
         \/ Restart
  <1>. USE DEF gates, gateVars, accessVars
  <1>1. CASE UNCHANGED vars
    BY <1>1 DEF vars
  <1>2. CASE (AccountsNext \/ Tick) /\ UNCHANGED accessVars
    BY <1>2
  <1>3. CASE \E r \in Requests : Cut(r) \/ FindOwned(r) \/ \E s \in Sessions, w \in Workspaces : AskToOpen(r, s, w)
    BY <1>3 DEF Cut, FindOwned, AskToOpen
  <1>4. CASE \E f \in Flushes : StartFlush(f) \/ FinishFlush(f) \/ FailFlush(f)
    BY <1>4 DEF StartFlush, FinishFlush, FailFlush
  <1>6. CASE \/ \E c \in Connections, s \in Sessions, w \in Workspaces, kind \in {"http", "ws"} : FindSession(c, s, w, kind)
             \/ \E c \in Connections : FindWorkspace(c) \/ FindRoute(c)
                  \/ ProxyHttpRequest(c) \/ ProxyWebSocketUpgrade(c) \/ HandleUpgrade(c) \/ Upgraded(c) \/ UpgradeFails(c)
                  \/ Recheck(c) \/ EndHttp(c) \/ EndWebSocket(c) \/ BrowserLeaves(c)
    <2>1. CASE \E c \in Connections, s \in Sessions, w \in Workspaces, kind \in {"http", "ws"} : FindSession(c, s, w, kind)
      BY <2>1 DEF FindSession
    <2>2. CASE \E c \in Connections : FindWorkspace(c) \/ FindRoute(c) \/ ProxyHttpRequest(c) \/ ProxyWebSocketUpgrade(c)
      BY <2>2 DEF FindWorkspace, FindRoute, ProxyHttpRequest, ProxyWebSocketUpgrade
    <2>3. CASE \E c \in Connections : HandleUpgrade(c) \/ Upgraded(c) \/ UpgradeFails(c) \/ Recheck(c)
      BY <2>3 DEF HandleUpgrade, Upgraded, UpgradeFails, Recheck
    <2>4. CASE \E c \in Connections : EndHttp(c) \/ EndWebSocket(c) \/ BrowserLeaves(c)
      BY <2>4 DEF EndHttp, EndWebSocket, BrowserLeaves
    <2>. QED BY <1>6, <2>1, <2>2, <2>3, <2>4
  <1>7. CASE DisableWorker \/ EnforceWorkerRevocations \/ LoseChannel \/ ConnectChannel \/ SampleUsage \/ ReportUsage
    BY <1>7 DEF DisableWorker, EnforceWorkerRevocations, LoseChannel, ConnectChannel, SampleUsage, ReportUsage
  <1>8. CASE \E w \in Workspaces : Compute(w) \/ StopWorkspace(w) \/ StartWorkspace(w)
    BY <1>8 DEF Compute, StopWorkspace, StartWorkspace
  <1>9. CASE \E s \in Sweeps : StartSweep(s) \/ CheckCandidate(s) \/ BeginIdleStop(s) \/ FinishIdleStop(s)
    BY <1>9 DEF StartSweep, CheckCandidate, BeginIdleStop, FinishIdleStop
  <1>. QED BY <1>1, <1>2, <1>3, <1>4, <1>6, <1>7, <1>8, <1>9 DEF Next

LEMMA IssueKeepsCodes ==
  ASSUME Types, CodesInv, NEW r \in Requests, NEW c \in Codes, IssueCode(r, c)
  PROVE  CodesInv'
  <1>. DEFINE s == request[r].session
              w == request[r].workspace
              fresh == [session |-> s, user |-> request[r].user, workspace |-> w, expires |-> now + CodeTtl]
              grant == [session |-> s, workspace |-> w, granted |-> {}, times |-> 0]
  <1>1. /\ issued[c] = NoCode /\ issued' = [issued EXCEPT ![c] = grant] /\ UNCHANGED post
        /\ code' = [k \in Codes |->
              IF k = c THEN fresh
              ELSE IF k \in expiredCodes THEN NoCode
              ELSE IF code[k] # NoCode /\ <<code[k].session, code[k].workspace>> = <<s, w>> THEN NoCode
              ELSE code[k]]
    BY DEF IssueCode
  <1>2. fresh \in CodeRecord /\ grant \in IssuedRecord
    BY CodeParameters DEF IssueCode, Types, RowsTyped, StateTyped, Opening, CodeRecord, IssuedRecord
  <1>3. /\ code'[c] = fresh /\ issued'[c] = grant /\ fresh # NoCode /\ grant # NoCode
        /\ \A k \in Codes \ {c} : /\ issued'[k] = issued[k]
                                  /\ code'[k] = NoCode \/ (code'[k] = code[k] /\ <<code[k].session, code[k].workspace>> # <<s, w>>)
    BY <1>1, <1>2, CodeParameters DEF CodesInv, CodesTyped
  <1>4. CodesTyped'
    BY <1>1, <1>2 DEF CodesInv, CodesTyped
  <1>5. OnePlace'
    <2>1. ASSUME NEW k \in Codes, code'[k] # NoCode PROVE Unspent(k, code[k])'
      BY <1>3, <2>1 DEF CodesInv, OnePlace, Unspent
    <2>2. ASSUME NEW p \in Posts, post[p] # NoCode
          PROVE  Unspent(post[p].code, post[p].record)' /\ code'[post[p].code] = NoCode
      <3>1. post[p].code \in Codes \ {c}
        BY <1>1, <2>2 DEF CodesInv, CodesTyped, PostRecord, OnePlace, Unspent
      <3>. QED BY <1>1, <1>3, <2>2, <3>1 DEF CodesInv, OnePlace, Unspent
    <2>. QED BY <1>1, <2>1, <2>2 DEF CodesInv, OnePlace
  <1>6. CodesGrantOnce'
    BY <1>3 DEF CodesInv, CodesGrantOnce
  <1>. QED BY <1>4, <1>5, <1>6 DEF CodesInv

LEMMA PostKeepsCodes ==
  ASSUME Types, CodesInv, NEW p \in Posts, NEW c \in Codes, NEW w \in Workspaces, PostCode(p, c, w)
  PROVE  CodesInv'
  <1>1. /\ post[p] = NoCode /\ code' = [code EXCEPT ![c] = NoCode] /\ UNCHANGED issued
        /\ \/ UNCHANGED post
           \/ code[c] # NoCode /\ post' = [post EXCEPT ![p] = [at |-> "consumed", code |-> c, record |-> code[c], time |-> now]]
    BY DEF PostCode, consume
  <1>2. /\ code'[c] = NoCode /\ \A k \in Codes \ {c} : code'[k] = code[k]
    BY <1>1 DEF CodesInv, CodesTyped
  <1>3. CodesGrantOnce'
    BY <1>1, <1>2 DEF CodesInv, CodesGrantOnce
  <1>4. CASE UNCHANGED post
    <2>1. CodesTyped'
      BY <1>1, <1>4 DEF CodesInv, CodesTyped
    <2>2. OnePlace'
      BY <1>1, <1>2, <1>4 DEF CodesInv, CodesTyped, PostRecord, OnePlace, Unspent
    <2>. QED BY <1>3, <2>1, <2>2 DEF CodesInv
  <1>5. CASE /\ code[c] # NoCode
             /\ post' = [post EXCEPT ![p] = [at |-> "consumed", code |-> c, record |-> code[c], time |-> now]]
    <2>. DEFINE new == [at |-> "consumed", code |-> c, record |-> code[c], time |-> now]
    <2>1. new \in PostRecord
      BY <1>5 DEF CodesInv, CodesTyped, Types, RowsTyped, PostRecord
    <2>2. post'[p] = new /\ \A q \in Posts \ {p} : post'[q] = post[q]
      BY <1>5 DEF CodesInv, CodesTyped
    <2>3. CodesTyped'
      BY <1>1, <1>5, <2>1 DEF CodesInv, CodesTyped
    <2>4. \A q \in Posts : post[q] # NoCode => post[q].code # c
      BY <1>5 DEF CodesInv, OnePlace
    <2>5. ASSUME NEW k \in Codes, code'[k] # NoCode PROVE Unspent(k, code[k])'
      BY <1>1, <1>2, <2>5 DEF CodesInv, OnePlace, Unspent
    <2>6. ASSUME NEW q \in Posts, post'[q] # NoCode
          PROVE  /\ Unspent(post[q].code, post[q].record)' /\ code'[post'[q].code] = NoCode
                 /\ \A o \in Posts \ {q} : post'[o] = NoCode \/ post'[o].code # post'[q].code
      <3>1. CASE q = p
        BY <1>1, <1>2, <1>5, <2>2, <2>4, <3>1 DEF CodesInv, OnePlace, Unspent
      <3>2. CASE q # p
        <4>1. post'[q] = post[q] /\ post[q].code \in Codes
          BY <2>2, <2>6, <3>2 DEF CodesInv, CodesTyped, PostRecord
        <4>. QED BY <1>1, <1>2, <2>2, <2>4, <2>6, <4>1 DEF CodesInv, OnePlace, Unspent
      <3>. QED BY <3>1, <3>2
    <2>. QED BY <1>3, <2>3, <2>5, <2>6 DEF CodesInv, OnePlace
  <1>. QED BY <1>1, <1>4, <1>5

LEMMA ExchangeKeepsCodes ==
  ASSUME CodesInv, NEW p \in Posts, CheckSession(p) \/ FinishExchange(p)
  PROVE  CodesInv'
  <1>1. CASE CheckSession(p)
    <2>1. /\ post[p] # NoCode /\ UNCHANGED <<code, issued>>
          /\ \/ post' = [post EXCEPT ![p] = NoCode]
             \/ post' = [post EXCEPT ![p] = [post[p] EXCEPT !.at = "checked"]]
      BY <1>1 DEF CheckSession
    <2>2. post[p] \in PostRecord
      BY <2>1 DEF CodesInv, CodesTyped
    <2>3. [post[p] EXCEPT !.at = "checked"] \in PostRecord
      BY <2>2 DEF PostRecord
    <2>4. CodesTyped'
      BY <2>1, <2>3 DEF CodesInv, CodesTyped
    <2>5. /\ \A q \in Posts \ {p} : post'[q] = post[q]
          /\ post'[p] = NoCode \/ (post'[p].code = post[p].code /\ post'[p].record = post[p].record)
      BY <2>1, <2>2 DEF CodesInv, CodesTyped, PostRecord
    <2>6. OnePlace'
      <3>2. \A q \in Posts : post'[q] # NoCode =>
              /\ post[q] # NoCode /\ post'[q].code = post[q].code
              /\ post'[q].record.session = post[q].record.session /\ post'[q].record.workspace = post[q].record.workspace
        BY <2>1, <2>5
      <3>3. ASSUME NEW q \in Posts, post'[q] # NoCode
            PROVE  /\ Unspent(post[q].code, post[q].record) /\ code[post[q].code] = NoCode
                   /\ \A o \in Posts \ {q} : post[o] = NoCode \/ post[o].code # post[q].code
        BY <3>2, <3>3 DEF CodesInv, OnePlace
      <3>4. ASSUME NEW q \in Posts, post'[q] # NoCode
            PROVE  \A o \in Posts \ {q} : post'[o] = NoCode \/ post'[o].code # post'[q].code
        BY <3>2, <3>3, <3>4
      <3>5. ASSUME NEW q \in Posts, post'[q] # NoCode
            PROVE  /\ issued'[post'[q].code] # NoCode /\ code'[post'[q].code] = NoCode
                   /\ issued'[post'[q].code].session = post'[q].record.session
                   /\ issued'[post'[q].code].workspace = post'[q].record.workspace
                   /\ issued'[post'[q].code].times = 0 /\ issued'[post'[q].code].granted = {}
        BY <2>1, <3>2, <3>3, <3>5 DEF Unspent
      <3>6. \A c \in Codes : code'[c] # NoCode =>
              /\ issued'[c] # NoCode
              /\ issued'[c].session = code'[c].session /\ issued'[c].workspace = code'[c].workspace
              /\ issued'[c].times = 0 /\ issued'[c].granted = {}
        BY <2>1 DEF CodesInv, OnePlace, Unspent
      <3>. QED BY <3>4, <3>5, <3>6 DEF OnePlace, Unspent
    <2>. QED BY <2>1, <2>4, <2>6 DEF CodesInv, CodesGrantOnce
  <1>2. CASE FinishExchange(p)
    <2>. DEFINE c == post[p].code
                s == post[p].record.session
                w == post[p].record.workspace
                spent == [issued[c] EXCEPT !.granted = @ \cup {<<s, w>>}, !.times = @ + 1]
    <2>1. /\ post[p] # NoCode /\ post' = [post EXCEPT ![p] = NoCode] /\ UNCHANGED code
          /\ UNCHANGED issued \/ issued' = [issued EXCEPT ![c] = spent]
      BY <1>2 DEF FinishExchange
    <2>2. /\ c \in Codes /\ s \in Sessions /\ w \in Workspaces /\ issued[c] \in IssuedRecord /\ code[c] = NoCode
          /\ issued[c].session = s /\ issued[c].workspace = w /\ issued[c].times = 0 /\ issued[c].granted = {}
      BY <2>1 DEF CodesInv, CodesTyped, PostRecord, CodeRecord, OnePlace, Unspent
    <2>3. spent \in IssuedRecord /\ spent.session = s /\ spent.workspace = w /\ spent.times = 1 /\ spent.granted = {<<s, w>>}
      <3>1. {<<s, w>>} \subseteq Sessions \X Workspaces /\ issued[c].granted \cup {<<s, w>>} = {<<s, w>>}
        BY <2>2
      <3>2. spent.session = s /\ spent.workspace = w
        BY <2>2 DEF IssuedRecord
      <3>3. spent.times = 1
        BY <2>2 DEF IssuedRecord
      <3>4. spent.granted = {<<s, w>>}
        <4>1. spent.granted = issued[c].granted \cup {<<s, w>>}
          BY <2>2 DEF IssuedRecord
        <4>. QED BY <3>1, <4>1
      <3>5. spent \in IssuedRecord
        <4>1. issued[c].granted \cup {<<s, w>>} \in SUBSET (Sessions \X Workspaces) /\ issued[c].times + 1 \in Nat
          BY <2>2, <3>1
        <4>. QED BY <2>2, <4>1 DEF IssuedRecord
      <3>. QED BY <3>2, <3>3, <3>4, <3>5
    <2>. HIDE DEF spent
    <2>4. CodesTyped'
      BY <2>1, <2>3 DEF CodesInv, CodesTyped
    <2>5. /\ \A k \in Codes \ {c} : issued'[k] = issued[k]
          /\ issued'[c] = issued[c] \/ issued'[c] = spent
          /\ post'[p] = NoCode /\ \A q \in Posts \ {p} : post'[q] = post[q]
      BY <2>1, <2>2 DEF CodesInv, CodesTyped
    <2>6. \A q \in Posts \ {p} : post[q] # NoCode => post[q].code \in Codes \ {c}
      BY <2>1 DEF CodesInv, CodesTyped, PostRecord, OnePlace
    <2>7. OnePlace'
      BY <2>1, <2>2, <2>5, <2>6 DEF CodesInv, OnePlace, Unspent
    <2>8. CodesGrantOnce'
      <3>1. ASSUME NEW k \in Codes, issued'[k] # NoCode
            PROVE  issued'[k].times <= 1 /\ issued'[k].granted \subseteq {<<issued'[k].session, issued'[k].workspace>>}
        BY <2>2, <2>3, <2>5, <3>1 DEF CodesInv, CodesGrantOnce
      <3>. QED BY <2>1, <3>1 DEF CodesInv, CodesGrantOnce
    <2>. QED BY <2>4, <2>7, <2>8 DEF CodesInv
  <1>. QED BY <1>1, <1>2

\* However exchanges overlap, fail and are repeated, a code grants one cookie at
\* most, of its own session and host (WorkspaceSessionExchange).
THEOREM CodesAlwaysGrantOnce == Spec => []CodesGrantOnce
  <1>1. Init => CodesInv
    BY DEF Init, CodesInv, CodesTyped, OnePlace, CodesGrantOnce
  <1>2. ASSUME Types, CodesInv, [Next]_vars PROVE CodesInv'
    <2>1. CASE UNCHANGED gates
      BY <1>2, <2>1 DEF gates, CodesInv, CodesTyped, OnePlace, Unspent, CodesGrantOnce
    <2>2. CASE Restart
      BY <1>2, <2>2 DEF Restart, CodesInv, CodesTyped, OnePlace, CodesGrantOnce
    <2>. QED BY <1>2, <2>1, <2>2, CodeSteps, IssueKeepsCodes, PostKeepsCodes, ExchangeKeepsCodes
  <1>3. Types /\ Usable /\ [Next]_vars => Types' /\ Usable'
    BY TypesKept, UsableKept DEF Usable
  <1>4. CodesInv => CodesGrantOnce
    BY DEF CodesInv
  <1>. QED BY <1>1, <1>2, <1>3, <1>4, InitUsable, PTL DEF Spec

-----------------------------------------------------------------------------
(* What stays connected is there by right.  Sessions and users only move   *)
(* one way under a connection (SessionsHold): who revokes goes on to close  *)
(* what was open, and what was opened meanwhile looks again.               *)

\* A session that is not committed yet is nobody else's.
Fresh ==
  /\ \A r \in Requests : At(r, "inserted") => session[request[r].session] = NoSession
  /\ \A r, q \in Requests :
       At(r, "inserted") /\ At(q, "inserted") /\ r # q => request[r].session # request[q].session

Closes(op, s) == IF op.kind = "logout" THEN op.session = s ELSE op.user = session[s].user

\* What a step other than the closing itself may do to sessions and users.
SessionsHold ==
  /\ \A s \in Sessions : session[s] # NoSession =>
       session'[s] # NoSession /\ session'[s].user = session[s].user
  /\ \A r \in Requests : At(r, "cutting") => request'[r] = request[r]
  /\ \A s \in Sessions : session[s] # NoSession /\ session'[s].revoked # session[s].revoked =>
       \E r \in Requests : At(r, "cutting")' /\ Closes(request'[r].op, s)
  /\ \A u \in Users : ActiveUser(u) /\ ~ActiveUser(u)' =>
       \E r \in Requests : At(r, "cutting")' /\ request'[r].op.kind # "logout" /\ request'[r].op.user = u

LEMMA QuietSteps ==
  ASSUME Types, Fresh, UNCHANGED <<user, session>>,
         \A q \in Requests : (q \in Requests /\ At(q, "cutting")) => request'[q] = request[q],
         \A q \in Requests : At(q, "inserted")' => request'[q] = request[q]
  PROVE  SessionsHold /\ Fresh'
  BY DEF SessionsHold, Fresh, ActiveUser

LEMMA SignInHolds ==
  ASSUME Types, Fresh, NEW r \in Requests, SignIn(r)
  PROVE  SessionsHold /\ Fresh'
  <1>a. ASSUME NEW state, Becomes(r, state), ~At(r, "cutting"), state.at # "inserted", UNCHANGED <<user, session>>
        PROVE  SessionsHold /\ Fresh'
    BY <1>a, QuietSteps DEF Types
  <1>b. ASSUME NEW s \in Sessions, session[s] = NoSession, NEW content \in SessionRecord,
               session' = [session EXCEPT ![s] = content], NEW state, Becomes(r, state),
               ~At(r, "cutting"), state.at # "inserted",
               \A q \in Requests \ {r} : At(q, "inserted") => request[q].session # s,
               \A u \in Users : user[u] # NoUser => user'[u] = user[u]
        PROVE  SessionsHold /\ Fresh'
    <2>1. session'[s] # NoSession /\ \A o \in Sessions \ {s} : session'[o] = session[o]
      BY <1>b, Parameters DEF Types, RowsTyped
    <2>2. \A q \in Requests : (At(q, "cutting") \/ At(q, "inserted")') => q # r /\ request'[q] = request[q]
      BY <1>b DEF Types
    <2>3. \A q \in Requests : At(q, "inserted") => request[q].session \in Sessions
      BY DEF Types, StateTyped
    <2>. QED BY <1>b, <2>1, <2>2, <2>3 DEF SessionsHold, Fresh, ActiveUser
  <1>1. CASE Elsewhere(r)
    BY <1>1, <1>a DEF Elsewhere, accountRows
  <1>2. CASE \E l \in Logins, a \in Addresses : StartLogin(r, l, a)
    <2>1. PICK l \in Logins, a \in Addresses : StartLogin(r, l, a)
      BY <1>2
    <2>. DEFINE state == [at |-> "verifying", login |-> l, address |-> a, active |-> l \in Users /\ ActiveUser(l)]
    <2>2. Becomes(r, state) /\ ~At(r, "cutting") /\ state.at # "inserted" /\ UNCHANGED <<user, session>>
      BY <2>1 DEF StartLogin
    <2>. QED BY <2>2, <1>a
  <1>3. CASE InsertSession(r)
    <2>1. CASE Becomes(r, Idle)
      BY <1>3, <2>1, <1>a DEF InsertSession
    <2>2. CASE ~Becomes(r, Idle)
      <3>1. PICK s \in Unused :
              Becomes(r, [at |-> "inserted", login |-> request[r].login, address |-> request[r].address,
                          session |-> s, expires |-> now + SessionTtl])
        BY <1>3, <2>2 DEF InsertSession
      <3>2. request'[r].at = "inserted" /\ request'[r].session = s /\ \A q \in Requests \ {r} : request'[q] = request[q]
        BY <3>1 DEF Types
      <3>3. UNCHANGED <<user, session>> /\ ~At(r, "cutting")
        BY <1>3 DEF InsertSession
      <3>4. session[s] = NoSession /\ \A q \in Requests : At(q, "inserted") => request[q].session # s
        BY <3>1 DEF Unused
      <3>5. SessionsHold
        BY <3>2, <3>3 DEF SessionsHold, ActiveUser
      <3>6. Fresh'
        BY <3>2, <3>3, <3>4 DEF Fresh
      <3>. QED BY <3>5, <3>6
    <2>. QED BY <2>1, <2>2
  <1>4. CASE CommitSession(r)
    <2>. DEFINE s == request[r].session
                content == [user |-> request[r].login, revoked |-> FALSE, expires |-> request[r].expires]
                state == [at |-> "forgiving", keys |-> {loginIpKey(request[r].login, request[r].address)}]
    <2>1. /\ At(r, "inserted") /\ session' = [session EXCEPT ![s] = content] /\ UNCHANGED user
          /\ Becomes(r, state) /\ state.at = "forgiving"
      BY <1>4 DEF CommitSession
    <2>2. s \in Sessions /\ content \in SessionRecord
      BY <2>1 DEF Types, StateTyped, SessionRecord
    <2>3. session[s] = NoSession /\ \A q \in Requests \ {r} : At(q, "inserted") => request[q].session # s
      BY <2>1 DEF Fresh
    <2>. HIDE DEF content, state
    <2>. QED BY <2>1, <2>2, <2>3, <1>b
  <1>5. CASE \E i \in Identities : CompleteExternalLogin(r, i)
    <2>1. PICK i \in Identities : CompleteExternalLogin(r, i)
      BY <1>5
    <2>2. Becomes(r, Idle) /\ At(r, "exchanging")
      BY <2>1 DEF CompleteExternalLogin
    <2>3. ASSUME NEW u \in Users, openSession(u), \A v \in Users : user[v] # NoUser => user'[v] = user[v]
          PROVE  SessionsHold /\ Fresh'
      <3>. DEFINE content == [user |-> u, revoked |-> FALSE, expires |-> now + SessionTtl]
      <3>1. PICK s \in Unused : session' = [session EXCEPT ![s] = content]
        BY <2>3 DEF openSession
      <3>2. now + SessionTtl \in Nat
        BY Parameters DEF Types, RowsTyped
      <3>3. content \in SessionRecord
        BY <3>2 DEF SessionRecord
      <3>4. s \in Sessions /\ session[s] = NoSession /\ \A q \in Requests : At(q, "inserted") => request[q].session # s
        BY <3>1 DEF Unused
      <3>. HIDE DEF content
      <3>5. Idle.at # "inserted" /\ ~At(r, "cutting")
        BY <2>2 DEF Idle
      <3>6. \A q \in Requests \ {r} : At(q, "inserted") => request[q].session # s
        BY <3>4
      <3>7. session' = [session EXCEPT ![s] = content]
        BY <3>1
      <3>8. \A v \in Users : user[v] # NoUser => user'[v] = user[v]
        BY <2>3
      <3>9. Becomes(r, Idle)
        BY <2>2
      <3>. HIDE DEF Idle, At, Becomes, SessionsHold, Fresh
      <3>. QED BY <3>3, <3>4, <3>5, <3>6, <3>7, <3>8, <3>9, <1>b
    <2>4. CASE UNCHANGED <<user, session>>
      <3>1. \A q \in Requests : request'[q] = IF q = r THEN Idle ELSE request[q]
        BY <2>2 DEF Types
      <3>. QED BY <2>2, <2>4, <3>1, QuietSteps
    <2>5. CASE identity[i] # NoUser /\ signInKnown(identity[i])
      BY <2>3, <2>4, <2>5 DEF signInKnown, Types, RowsTyped
    <2>6. CASE \E u \in Users : provision(i, u)
      BY <2>3, <2>6 DEF provision, Types, RowsTyped
    <2>. QED BY <2>1, <2>4, <2>5, <2>6 DEF CompleteExternalLogin, completeExternalLogin
  <1>. QED BY <1>1, <1>2, <1>3, <1>4, <1>5, SignInSteps

LEMMA AdministrationHolds ==
  ASSUME Types, Usable, Fresh, NEW r \in Requests, Administer(r)
  PROVE  SessionsHold /\ Fresh'
  <1>a. ASSUME NEW state, Becomes(r, state), ~At(r, "cutting"), state.at # "inserted", UNCHANGED <<user, session>>
        PROVE  SessionsHold /\ Fresh'
    BY <1>a, QuietSteps DEF Types
  <1>b. ASSUME NEW which, revokeSessions(which)
        PROVE  \A s \in Sessions : session[s] # NoSession =>
                 /\ session'[s] # NoSession /\ session'[s].user = session[s].user
                 /\ s \notin which => session'[s] = session[s]
    BY <1>b, Parameters DEF revokeSessions, Types, RowsTyped, SessionRecord
  <1>c. ASSUME NEW which, revokeSessions(which)
        PROVE  \A s \in Sessions : session[s] = NoSession => session'[s] = NoSession
    BY <1>c DEF revokeSessions
  <1>1. CASE \E s \in Sessions : (\E op \in AdminOps : AuthenticateAdmin(r, s, op)) \/ Authenticate(r, s)
    BY <1>1, <1>a DEF AuthenticateAdmin, Authenticate
  <1>2. CASE LockUser(r) \/ LockIdentities(r)
    BY <1>2, <1>a DEF LockUser, LockIdentities, Asked
  <1>3. CASE ResetLocalPassword(r) \/ ClearAuthLocks(r) \/ BindExternalIdentity(r) \/ UnbindExternalIdentity(r)
    BY <1>3, <1>a DEF ResetLocalPassword, ClearAuthLocks, BindExternalIdentity, UnbindExternalIdentity, Asked
  <1>4. CASE CreateUser(r)
    BY <1>4 DEF CreateUser, Asked, SessionsHold, Fresh, ActiveUser, Types, RowsTyped
  <1>5. CASE UpdateManagedUser(r)
    <2>. DEFINE op == request[r].op
                u == op.user
                cutting == [at |-> "cutting", op |-> op]
    <2>1. /\ At(r, "updating") /\ op.kind = "patch" /\ u \in Users /\ user' = [user EXCEPT ![u] = Changed(u, op)]
          /\ user[u] \in UserRecord /\ OpTyped(op)
          /\ \/ /\ Changed(u, op).status # "disabled" /\ UNCHANGED session /\ Becomes(r, Idle)
             \/ revokeSessions(sessionsOf(u)) /\ Becomes(r, cutting)
      BY <1>5 DEF UpdateManagedUser, Types, RowsTyped, StateTyped, OpTyped, Usable, Present
    <2>2. Changed(u, op) \in UserRecord
      BY <2>1 DEF Changed, OpTyped, UserRecord
    <2>3. user'[u] = Changed(u, op) /\ \A v \in Users \ {u} : user'[v] = user[v]
      BY <2>1 DEF Types, RowsTyped
    <2>4. \A q \in Requests \ {r} : request'[q] = request[q]
      BY <1>5 DEF UpdateManagedUser, Types
    <2>5. CASE Changed(u, op).status # "disabled" /\ UNCHANGED session /\ Becomes(r, Idle)
      <3>1. Changed(u, op).status = "active"
        BY <2>2, <2>5 DEF UserRecord
      <3>2. \A v \in Users : ActiveUser(v) => ActiveUser(v)'
        BY <2>2, <2>3, <3>1, Parameters DEF ActiveUser
      <3>3. request'[r].at = "idle"
        BY <2>5 DEF Types
      <3>. QED BY <2>1, <2>4, <2>5, <3>2, <3>3 DEF SessionsHold, Fresh
    <2>6. CASE revokeSessions(sessionsOf(u)) /\ Becomes(r, cutting)
      <3>1. request'[r] = cutting
        BY <2>6 DEF Types
      <3>2. \A s \in Sessions : session[s] # NoSession /\ session'[s].revoked # session[s].revoked => session[s].user = u
        BY <1>b, <2>6 DEF sessionsOf
      <3>3. \A v \in Users : ActiveUser(v) /\ ~ActiveUser(v)' => v = u
        BY <2>3 DEF ActiveUser
      <3>4. SessionsHold
        BY <1>b, <2>1, <2>4, <2>6, <3>1, <3>2, <3>3 DEF SessionsHold, Closes
      <3>5. Fresh'
        BY <1>c, <2>1, <2>4, <2>6, <3>1 DEF Fresh, Types, StateTyped
      <3>. QED BY <3>4, <3>5
    <2>. QED BY <2>1, <2>5, <2>6
  <1>6. CASE RevokeUserSessions(r) \/ RevokeSession(r)
    <2>. DEFINE op == request[r].op
                cutting == [at |-> "cutting", op |-> op]
    <2>1. /\ At(r, "admitted") /\ UNCHANGED user
          /\ \/ UNCHANGED session /\ (Becomes(r, Idle) \/ Becomes(r, cutting))
             \/ op.kind = "revoke" /\ revokeSessions(sessionsOf(op.user)) /\ Becomes(r, cutting)
             \/ op.kind = "logout" /\ revokeSessions({op.session}) /\ Becomes(r, cutting)
      BY <1>6 DEF RevokeUserSessions, RevokeSession, revokeUserSessions, Asked
    <2>2. \A q \in Requests \ {r} : request'[q] = request[q]
      BY <1>6 DEF RevokeUserSessions, RevokeSession, Types
    <2>3. CASE UNCHANGED session /\ (Becomes(r, Idle) \/ Becomes(r, cutting))
      BY <2>1, <2>3, <1>a
    <2>4. ASSUME NEW which, revokeSessions(which), Becomes(r, cutting),
                 \A s \in Sessions : s \in which /\ session[s] # NoSession => Closes(op, s)
          PROVE  SessionsHold /\ Fresh'
      <3>1. request'[r] = cutting
        BY <2>4 DEF Types
      <3>2. SessionsHold
        BY <1>b, <2>1, <2>2, <2>4, <3>1 DEF SessionsHold, ActiveUser
      <3>3. Fresh'
        BY <1>c, <2>1, <2>2, <2>4, <3>1 DEF Fresh, Types, StateTyped
      <3>. QED BY <3>2, <3>3
    <2>5. CASE op.kind = "revoke" /\ revokeSessions(sessionsOf(op.user)) /\ Becomes(r, cutting)
      BY <2>4, <2>5 DEF sessionsOf, Closes
    <2>6. CASE op.kind = "logout" /\ revokeSessions({op.session}) /\ Becomes(r, cutting)
      BY <2>4, <2>6 DEF Closes
    <2>. QED BY <2>1, <2>3, <2>5, <2>6
  <1>. QED BY <1>1, <1>2, <1>3, <1>4, <1>5, <1>6 DEF Administer

Registered == {"rechecking", "open"}
ConnAt == {"known", "found", "authorized", "upgrading", "refused", "upgraded"} \cup Registered
ConnRecord ==
  [at : ConnAt,
   kind : {"http", "ws"}, gone : BOOLEAN, session : Sessions, user : Users, workspace : Workspaces]

\* A connection is of a session that is there, and of its user.
Valid(q) ==
  q = Closed \/ (q \in ConnRecord /\ session[q.session] # NoSession /\ session[q.session].user = q.user)

\* What is registered is there by right.
Rightful(c) ==
  LET s == session[conn[c].session]
  IN  /\ ~conn[c].gone
      /\ s.revoked \/ ~ActiveUser(s.user) =>
        \/ conn[c].at = "rechecking"
        \/ \E r \in Requests : At(r, "cutting") /\ c \in closedBy(request[r].op)

ConnInv ==
  /\ conn = [c \in Connections |-> conn[c]]
  /\ \A c \in Connections : Valid(conn[c])
  /\ registry = {c \in Connections : conn[c].at \in Registered}
  /\ \A c \in registry : Rightful(c)

\* A step of the accounts leaves connections rightful.
LEMMA AccountsKeepRightful ==
  ASSUME Types, ConnInv, SessionsHold, UNCHANGED <<conn, registry>>
  PROVE  ConnInv'
  <1>1. \A c \in Connections : Valid(conn[c])'
    BY DEF ConnInv, Valid, SessionsHold, ConnRecord
  <1>2. ASSUME NEW c \in registry PROVE Rightful(c)'
    <2>. DEFINE s == conn[c].session
    <2>1. c \in Connections /\ conn[c] \in ConnRecord /\ conn[c].at \in Registered
      BY DEF ConnInv, Valid, Closed, Registered
    <2>2. /\ s \in Sessions /\ session[s] # NoSession /\ session[s].user = conn[c].user /\ conn[c].user \in Users
          /\ session'[s] # NoSession /\ session'[s].user = conn[c].user
      BY <2>1 DEF ConnInv, Valid, SessionsHold, ConnRecord, Closed, Registered
    <2>3. ~conn[c].gone
      BY DEF ConnInv, Rightful
    <2>4. CASE conn[c].at = "rechecking"
      BY <2>3, <2>4 DEF Rightful
    <2>5. CASE \E r \in Requests : At(r, "cutting") /\ c \in closedBy(request[r].op)
      <3>1. \E r \in Requests : (At(r, "cutting") /\ c \in closedBy(request[r].op))'
        BY <2>5 DEF SessionsHold, closedBy
      <3>. QED BY <2>3, <3>1 DEF Rightful
    <2>6. CASE ~session[s].revoked /\ ActiveUser(session[s].user)
      <3>1. ASSUME NEW r \in Requests, At(r, "cutting")', Closes(request'[r].op, s)
            PROVE  c \in closedBy(request[r].op)'
        BY <2>2, <3>1 DEF Closes, closedBy
      <3>2. CASE session'[s].revoked
        BY <2>2, <2>3, <2>6, <3>1, <3>2 DEF SessionsHold, Rightful
      <3>3. CASE ~ActiveUser(conn[c].user)'
        BY <2>2, <2>3, <2>6, <3>1, <3>3 DEF SessionsHold, Rightful, Closes
      <3>. QED BY <2>2, <2>3, <3>2, <3>3 DEF Rightful
    <2>. QED BY <2>2, <2>4, <2>5, <2>6 DEF ConnInv, Rightful
  <1>. QED BY <1>1, <1>2 DEF ConnInv

\* A connection goes on, and is registered or not.
Enters(c, q) == \/ q.at \in Registered /\ registry' = registry \cup {c}
                \/ q.at \notin Registered /\ c \notin registry /\ UNCHANGED registry

LEMMA MovesKeepRightful ==
  ASSUME ConnInv, UNCHANGED <<user, session, request>>, NEW c \in Connections, NEW q,
         Moves(c, q), Enters(c, q), Valid(q), q.at \in Registered => ~q.gone,
         q.at = "open" => ~session[q.session].revoked /\ ActiveUser(session[q.session].user)
  PROVE  ConnInv'
  <1>1. conn'[c] = q /\ \A d \in Connections \ {c} : conn'[d] = conn[d]
    BY DEF Moves, ConnInv
  <1>2. conn' = [d \in Connections |-> conn'[d]] /\ \A d \in Connections : Valid(conn[d])'
    BY <1>1 DEF Moves, ConnInv, Valid
  <1>3. registry' = {d \in Connections : conn'[d].at \in Registered}
    BY <1>1 DEF Enters, ConnInv
  <1>4. ASSUME NEW d \in registry' PROVE Rightful(d)'
    <2>1. CASE d = c
      BY <1>1, <1>3, <1>4, <2>1 DEF Rightful, Registered, ActiveUser
    <2>2. CASE d # c
      <3>1. d \in registry /\ d \in Connections /\ conn'[d] = conn[d] /\ Rightful(d)
        BY <1>1, <1>3, <2>2 DEF ConnInv
      <3>2. \A r \in Requests : d \in closedBy(request[r].op) => d \in closedBy(request[r].op)'
        BY <3>1 DEF closedBy
      <3>. QED BY <3>1, <3>2 DEF Rightful, ActiveUser
    <2>. QED BY <2>1, <2>2
  <1>. QED BY <1>2, <1>3, <1>4 DEF ConnInv

\* Connections are closed.
LEMMA DisconnectKeepsRightful ==
  ASSUME ConnInv, UNCHANGED <<user, session>>, NEW cs, Disconnect(cs),
         \A r \in Requests : At(r, "cutting") => request'[r] = request[r] \/ closedBy(request[r].op) \subseteq cs
  PROVE  ConnInv'
  <1>1. /\ registry' = registry \ cs
        /\ conn' = [c \in Connections |-> IF c \in cs \cap registry THEN Closed ELSE conn[c]]
    BY DEF Disconnect
  <1>2. registry' = {d \in Connections : conn'[d].at \in Registered}
    BY <1>1 DEF ConnInv, Closed, Registered
  <1>3. \A c \in Connections : Valid(conn[c])'
    BY <1>1 DEF ConnInv, Valid
  <1>4. ASSUME NEW d \in registry' PROVE Rightful(d)'
    <2>1. d \in registry /\ d \notin cs /\ d \in Connections /\ conn'[d] = conn[d] /\ Rightful(d)
      BY <1>1 DEF ConnInv
    <2>2. \A r \in Requests : At(r, "cutting") /\ d \in closedBy(request[r].op) =>
                              At(r, "cutting")' /\ d \in closedBy(request[r].op)'
      BY <2>1 DEF closedBy
    <2>. QED BY <2>1, <2>2 DEF Rightful, ActiveUser
  <1>. QED BY <1>1, <1>2, <1>3, <1>4 DEF ConnInv

\* What the steps are to sessions, requests and connections.
Rows == <<user, session, request>>
Recorded == <<conn, registry>>
Minor(r, state) == Becomes(r, state) /\ ~At(r, "cutting") /\ state.at # "inserted" /\ UNCHANGED <<user, session>>
Connects(c) ==
  \/ \E s \in Sessions, w \in Workspaces, kind \in {"http", "ws"} : FindSession(c, s, w, kind)
  \/ FindWorkspace(c) \/ FindRoute(c) \/ ProxyHttpRequest(c) \/ ProxyWebSocketUpgrade(c) \/ HandleUpgrade(c)
  \/ Upgraded(c) \/ UpgradeFails(c) \/ Recheck(c) \/ EndHttp(c) \/ EndWebSocket(c) \/ BrowserLeaves(c)

LEMMA ConnSteps ==
  ASSUME Types, [Next]_vars
  PROVE  \/ UNCHANGED <<Rows, Recorded>>
         \/ UNCHANGED Recorded /\ \E r \in Requests : SignIn(r) \/ Administer(r) \/ \E state : Minor(r, state)
         \/ \E r \in Requests : Cut(r)
         \/ UNCHANGED Rows /\ \E cs : Disconnect(cs)
         \/ UNCHANGED Rows /\ \E c \in Connections : Connects(c)
         \/ Restart
  <1>1. CASE UNCHANGED vars
    BY <1>1 DEF vars, accountVars, accessVars, connVars, Rows, Recorded
  <1>2. CASE AccountsNext /\ UNCHANGED accessVars
    BY <1>2, AccountSteps DEF accessVars, connVars, accountRows, Rows, Recorded
  <1>3. CASE Tick /\ UNCHANGED accessVars
    BY <1>3 DEF Tick, accessVars, connVars, Rows, Recorded
  <1>4. CASE \E f \in Flushes : StartFlush(f) \/ FinishFlush(f) \/ FailFlush(f)
    BY <1>4 DEF StartFlush, FinishFlush, FailFlush, accountVars, connVars, Rows, Recorded
  <1>5. CASE (\E p \in Posts, c \in Codes, w \in Workspaces : PostCode(p, c, w))
             \/ \E p \in Posts : CheckSession(p) \/ FinishExchange(p)
    BY <1>5 DEF PostCode, CheckSession, FinishExchange, accountVars, connVars, Rows, Recorded
  <1>6. CASE \/ \E c \in Connections, s \in Sessions, w \in Workspaces, kind \in {"http", "ws"} : FindSession(c, s, w, kind)
             \/ \E c \in Connections : FindWorkspace(c) \/ FindRoute(c)
                  \/ ProxyHttpRequest(c) \/ ProxyWebSocketUpgrade(c) \/ HandleUpgrade(c) \/ Upgraded(c) \/ UpgradeFails(c)
                  \/ Recheck(c) \/ EndHttp(c) \/ EndWebSocket(c) \/ BrowserLeaves(c)
    <2>1. \E c \in Connections : Connects(c)
      BY <1>6 DEF Connects
    <2>2. UNCHANGED Rows
      BY <1>6 DEF FindSession, FindWorkspace, FindRoute, ProxyHttpRequest, ProxyWebSocketUpgrade, HandleUpgrade,
        Upgraded, UpgradeFails, Recheck, EndHttp, EndWebSocket, BrowserLeaves, accountVars, Rows
    <2>. QED BY <2>1, <2>2
  <1>7. CASE DisableWorker \/ LoseChannel \/ ConnectChannel \/ SampleUsage \/ ReportUsage
    BY <1>7 DEF DisableWorker, LoseChannel, ConnectChannel, SampleUsage, ReportUsage, accountVars, connVars, Rows, Recorded
  <1>8. CASE EnforceWorkerRevocations
    BY <1>8 DEF EnforceWorkerRevocations, closeWorkspaces, accountVars, Rows
  <1>9. CASE \E w \in Workspaces : Compute(w) \/ StopWorkspace(w) \/ StartWorkspace(w)
    BY <1>9 DEF Compute, StopWorkspace, StartWorkspace, accountVars, connVars, Rows, Recorded
  <1>10. CASE \E s \in Sweeps : StartSweep(s) \/ CheckCandidate(s) \/ BeginIdleStop(s) \/ FinishIdleStop(s)
    BY <1>10 DEF StartSweep, CheckCandidate, BeginIdleStop, FinishIdleStop, accountVars, connVars, Rows, Recorded
  <1>11. CASE \E r \in Requests : FindOwned(r)
    <2>1. PICK r \in Requests : FindOwned(r)
      BY <1>11
    <2>. DEFINE state == [request[r] EXCEPT !.at = "opened"]
    <2>2. state.at = "opened"
      BY <2>1 DEF FindOwned, Types, StateTyped, Opening
    <2>3. (Becomes(r, Idle) \/ Becomes(r, state)) /\ ~At(r, "cutting") /\ UNCHANGED <<user, session, Recorded>>
      BY <2>1 DEF FindOwned, accessVars, connVars, Recorded
    <2>. HIDE DEF state
    <2>4. \E q : Minor(r, q)
      BY <2>2, <2>3 DEF Minor
    <2>. QED BY <2>3, <2>4
  <1>12. CASE \E r \in Requests, s \in Sessions, w \in Workspaces : AskToOpen(r, s, w)
    <2>1. PICK r \in Requests, s \in Sessions, w \in Workspaces : AskToOpen(r, s, w)
      BY <1>12
    <2>. DEFINE state == [at |-> "opening", session |-> s, user |-> session[s].user, workspace |-> w]
    <2>2. Minor(r, state) /\ UNCHANGED Recorded
      BY <2>1 DEF AskToOpen, Minor, accessVars, connVars, Recorded
    <2>. QED BY <2>2
  <1>13. CASE \E r \in Requests, c \in Codes : IssueCode(r, c)
    <2>1. PICK r \in Requests : UNCHANGED <<user, session, Recorded>> /\ At(r, "opened") /\ Becomes(r, Idle)
      BY <1>13 DEF IssueCode, connVars, Recorded
    <2>2. Minor(r, Idle)
      BY <2>1 DEF Minor
    <2>. QED BY <2>1, <2>2
  <1>. QED BY <1>1, <1>2, <1>3, <1>4, <1>5, <1>6, <1>7, <1>8, <1>9, <1>10, <1>11, <1>12, <1>13 DEF Next

\* A connection on its way from the browser to the Worker.
LEMMA ConnectsKeepsRightful ==
  ASSUME Types, ConnInv, UNCHANGED Rows, NEW c \in Connections, Connects(c)
  PROVE  ConnInv'
  <1>a. Valid(Closed) /\ Closed.at \notin Registered /\ UNCHANGED <<user, session, request>>
    BY DEF Valid, Closed, Registered, Rows
  <1>b. Valid(conn[c]) /\ (c \in registry <=> conn[c].at \in Registered)
    BY DEF ConnInv
  <1>c. ASSUME conn[c].at \notin Registered, UNCHANGED registry,
               \/ Moves(c, Closed)
               \/ conn[c] # Closed /\ \E at \in ConnAt \ Registered : Moves(c, [conn[c] EXCEPT !.at = at])
        PROVE  ConnInv'
    <2>1. CASE Moves(c, Closed)
      BY <1>a, <1>b, <1>c, <2>1, MovesKeepRightful DEF Enters, Closed
    <2>2. CASE conn[c] # Closed /\ \E at \in ConnAt \ Registered : Moves(c, [conn[c] EXCEPT !.at = at])
      <3>1. PICK at \in ConnAt \ Registered : Moves(c, [conn[c] EXCEPT !.at = at])
        BY <2>2
      <3>. DEFINE q == [conn[c] EXCEPT !.at = at]
      <3>2. conn[c] \in ConnRecord
        BY <1>b, <2>2 DEF Valid
      <3>3. q.at = at /\ q \in ConnRecord /\ q.session = conn[c].session /\ q.user = conn[c].user
        BY <3>2 DEF ConnRecord
      <3>4. Valid(q)
        BY <1>b, <2>2, <3>3 DEF Valid
      <3>5. q.at \notin Registered /\ c \notin registry /\ Moves(c, q)
        BY <1>b, <1>c, <3>1, <3>3
      <3>. HIDE DEF q
      <3>. QED BY <1>a, <1>c, <3>4, <3>5, MovesKeepRightful DEF Enters, Registered
    <2>. QED BY <1>c, <2>1, <2>2
  <1>d. ASSUME conn[c] # Closed, ~conn[c].gone, trackSessionConnection(c) PROVE ConnInv'
    <2>. DEFINE q == [conn[c] EXCEPT !.at = "rechecking"]
    <2>1. conn[c] \in ConnRecord
      BY <1>b, <1>d DEF Valid
    <2>2. q.at = "rechecking" /\ q \in ConnRecord /\ q.session = conn[c].session /\ q.user = conn[c].user /\ ~q.gone
      BY <1>d, <2>1 DEF ConnRecord, ConnAt, Registered
    <2>3. Valid(q) /\ Moves(c, q) /\ Enters(c, q)
      BY <1>b, <1>d, <2>2 DEF Valid, trackSessionConnection, recheck, Enters, Registered
    <2>. HIDE DEF q
    <2>. QED BY <1>a, <2>2, <2>3, MovesKeepRightful
  <1>e. ASSUME NEW cs, Disconnect(cs) PROVE ConnInv'
    BY <1>a, <1>e, DisconnectKeepsRightful
  <1>1. CASE \E s \in Sessions, w \in Workspaces, kind \in {"http", "ws"} : FindSession(c, s, w, kind)
    <2>1. PICK s \in Sessions, w \in Workspaces, kind \in {"http", "ws"} : FindSession(c, s, w, kind)
      BY <1>1
    <2>. DEFINE q == [at |-> "known", kind |-> kind, gone |-> FALSE,
                      session |-> s, user |-> session[s].user, workspace |-> w]
    <2>2. session[s] # NoSession /\ session[s].user \in Users
      BY <2>1 DEF FindSession, ActiveSession, Types, RowsTyped, SessionRecord
    <2>3. Moves(c, q) /\ UNCHANGED registry /\ conn[c] = Closed
      BY <2>1 DEF FindSession
    <2>4. Valid(q)
      BY <2>2 DEF Valid, ConnRecord, ConnAt
    <2>5. Enters(c, q)
      BY <1>a, <1>b, <2>3 DEF Enters, Registered
    <2>6. q.at = "known"
      OBVIOUS
    <2>. HIDE DEF q
    <2>. QED BY <1>a, <2>3, <2>4, <2>5, <2>6, MovesKeepRightful DEF Registered
  <1>2. CASE FindWorkspace(c) \/ FindRoute(c)
    BY <1>2, <1>c DEF FindWorkspace, FindRoute, ConnAt, Registered, Closed
  <1>3. CASE ProxyWebSocketUpgrade(c) \/ UpgradeFails(c)
    <2>1. CASE ProxyWebSocketUpgrade(c)
      BY <2>1, <1>c DEF ProxyWebSocketUpgrade, ConnAt, Registered, Closed
    <2>2. CASE UpgradeFails(c)
      BY <2>2, <1>c DEF UpgradeFails, ConnAt, Registered, Closed
    <2>. QED BY <1>3, <2>1, <2>2
  <1>4. CASE HandleUpgrade(c)
    <2>1. PICK answer \in {"refused", "upgraded"} : Moves(c, [conn[c] EXCEPT !.at = answer])
      BY <1>4 DEF HandleUpgrade, authorizeTarget
    <2>. QED BY <1>4, <2>1, <1>c DEF HandleUpgrade, ConnAt, Registered, Closed
  <1>5. CASE ProxyHttpRequest(c) \/ Upgraded(c)
    <2>1. conn[c].at \in {"authorized", "upgraded"}
      BY <1>5 DEF ProxyHttpRequest, Upgraded
    <2>2. Refused(c) \/ (~conn[c].gone /\ trackSessionConnection(c))
      BY <1>5 DEF ProxyHttpRequest, Upgraded, browserGone
    <2>. QED BY <2>1, <2>2, <1>c, <1>d DEF Refused, Registered, Closed
  <1>6. CASE Recheck(c)
    <2>1. CASE Disconnect({c})
      BY <2>1, <1>e
    <2>2. CASE ~Disconnect({c})
      <3>. DEFINE q == [conn[c] EXCEPT !.at = "open"]
      <3>1. /\ conn[c].at = "rechecking" /\ Moves(c, q) /\ UNCHANGED registry
            /\ ~session[conn[c].session].revoked /\ ActiveUser(session[conn[c].session].user)
        BY <1>6, <2>2 DEF Recheck, ActiveSession
      <3>2. c \in registry /\ conn[c] \in ConnRecord /\ conn[c] # Closed /\ ~conn[c].gone
        BY <1>b, <3>1 DEF Valid, Closed, ConnInv, Registered, Rightful
      <3>3. q.at = "open" /\ q \in ConnRecord /\ q.session = conn[c].session /\ q.user = conn[c].user /\ ~q.gone
        BY <3>2 DEF ConnRecord, ConnAt, Registered
      <3>4. Valid(q) /\ Enters(c, q)
        BY <1>b, <3>1, <3>2, <3>3 DEF Valid, Enters, Registered
      <3>. HIDE DEF q
      <3>. QED BY <1>a, <3>1, <3>3, <3>4, MovesKeepRightful
    <2>. QED BY <2>1, <2>2
  <1>7. CASE EndHttp(c) \/ EndWebSocket(c)
    BY <1>7, <1>e DEF EndHttp, EndWebSocket
  <1>8. CASE BrowserLeaves(c)
    <2>1. CASE c \in registry
      BY <1>8, <1>e, <2>1 DEF BrowserLeaves
    <2>2. CASE c \notin registry
      <3>. DEFINE q == [conn[c] EXCEPT !.gone = TRUE]
      <3>1. conn[c] # Closed /\ Moves(c, q) /\ UNCHANGED registry
        BY <1>8, <2>2 DEF BrowserLeaves, Moves
      <3>2. conn[c] \in ConnRecord
        BY <1>b, <3>1 DEF Valid
      <3>3. q.at = conn[c].at /\ q \in ConnRecord /\ q.session = conn[c].session /\ q.user = conn[c].user
        BY <3>2 DEF ConnRecord
      <3>4. Valid(q) /\ Enters(c, q) /\ q.at \notin Registered
        BY <1>b, <2>2, <3>1, <3>3 DEF Valid, Enters
      <3>. HIDE DEF q
      <3>. QED BY <1>a, <3>1, <3>4, MovesKeepRightful DEF Registered
    <2>. QED BY <2>1, <2>2
  <1>. QED BY <1>1, <1>2, <1>3, <1>4, <1>5, <1>6, <1>7, <1>8 DEF Connects

LEMMA ConnKept == ASSUME Types, Usable, Fresh, ConnInv, [Next]_vars PROVE Fresh' /\ ConnInv'
  <1>1. CASE UNCHANGED <<Rows, Recorded>>
    BY <1>1, AccountsKeepRightful, QuietSteps DEF Rows, Recorded
  <1>2. CASE UNCHANGED Recorded /\ \E r \in Requests : SignIn(r) \/ Administer(r) \/ \E state : Minor(r, state)
    <2>1. PICK r \in Requests : SignIn(r) \/ Administer(r) \/ \E state : Minor(r, state)
      BY <1>2
    <2>2. SessionsHold /\ Fresh'
      <3>1. CASE \E state : Minor(r, state)
        BY <3>1, QuietSteps DEF Minor, Types
      <3>. QED BY <2>1, <3>1, SignInHolds, AdministrationHolds
    <2>. QED BY <1>2, <2>2, AccountsKeepRightful DEF Recorded
  <1>3. CASE \E r \in Requests : Cut(r)
    <2>1. PICK r \in Requests : Cut(r)
      BY <1>3
    <2>2. /\ Disconnect(closedBy(request[r].op)) /\ UNCHANGED <<user, session>>
          /\ \A q \in Requests : request'[q] = IF q = r THEN Idle ELSE request[q]
      BY <2>1 DEF Cut, Types
    <2>3. Fresh'
      BY <2>2 DEF Fresh
    <2>4. \A q \in Requests : At(q, "cutting") => request'[q] = request[q] \/ closedBy(request[q].op) \subseteq closedBy(request[r].op)
      BY <2>2
    <2>. QED BY <2>2, <2>3, <2>4, DisconnectKeepsRightful
  <1>4. CASE UNCHANGED Rows /\ \E cs : Disconnect(cs)
    BY <1>4, DisconnectKeepsRightful DEF Rows, Fresh
  <1>5. CASE UNCHANGED Rows /\ \E c \in Connections : Connects(c)
    BY <1>5, ConnectsKeepsRightful DEF Rows, Fresh
  <1>6. CASE Restart
    <2>1. conn' = [c \in Connections |-> Closed] /\ registry' = {} /\ request' = [r \in Requests |-> Idle]
      BY <1>6 DEF Restart, AccountsRestart
    <2>2. Fresh'
      BY <2>1 DEF Fresh
    <2>3. ConnInv'
      BY <2>1 DEF ConnInv, Valid, Closed, Registered
    <2>. QED BY <2>2, <2>3
  <1>. QED BY <1>1, <1>2, <1>3, <1>4, <1>5, <1>6, ConnSteps

LEMMA InitConn == Init => Fresh /\ ConnInv
  BY DEF Init, AccountsInit, Fresh, ConnInv, Valid, Closed, Registered

\* No connection outlives the right to it unnoticed: whatever is revoked and
\* disabled while connections are authorized, opened and closed, what is registered
\* has its browser, and a session that is good unless it is about to be looked at
\* once more or to be closed (trackSessionConnection, closeSession, closeUser).
THEOREM ConnectionsAlwaysRightful == Spec => []ConnectionsAreRightful
  <1>1. Types /\ Usable /\ Fresh /\ ConnInv /\ [Next]_vars => Types' /\ Usable' /\ Fresh' /\ ConnInv'
    BY TypesKept, UsableKept, ConnKept DEF Usable
  <1>2. ConnInv => ConnectionsAreRightful
    BY DEF ConnInv, Rightful, ConnectionsAreRightful
  <1>. QED BY <1>1, <1>2, InitUsable, InitConn, PTL DEF Spec

-----------------------------------------------------------------------------
(* Nothing of an access is lost.  What the flushes have written is in the  *)
(* rows (WrittenIsThere), and what the tracker does not call pending is     *)
(* written, being written or not behind by an interval yet.                 *)

RowStates == {"RUNNING", "STOPPING", "STOPPED", "ERROR", "WORKER_OFFLINE"}
WorkspaceRow == [state : RowStates, activity : Nat, access : Times]
AccessRecord == [latest : Times, persisted : Times, pending : BOOLEAN]

RecordsTyped ==
  /\ row \in [Workspaces -> WorkspaceRow]
  /\ tracker \in [Workspaces -> AccessRecord]
  /\ flush = [f \in Flushes |-> flush[f]]
  /\ \A f \in Flushes, w \in Workspaces : w \in DOMAIN flush[f] => flush[f][w] \in Times

WrittenIsThere == \A w \in Workspaces : row[w].access >= tracker[w].persisted

\* An access up to a time is written, or on its way there.
Written(w, t) ==
  row[w].access >= t \/ \E f \in Flushes : w \in DOMAIN flush[f] /\ flush[f][w] >= t
InUse(w) ==
  /\ activeConnections(w) # {}
  /\ row[w].access # Null /\ tracker[w].latest - row[w].access < PersistInterval
IsRecorded(w) == tracker[w].pending \/ Written(w, tracker[w].latest) \/ InUse(w)

RecordsInv == RecordsTyped /\ WrittenIsThere /\ \A w \in Workspaces : IsRecorded(w)

LEMMA RecordsSayIt == RecordsInv => AccessIsRecorded
  BY DEF RecordsInv, IsRecorded, Written, InUse, AccessIsRecorded

\* The rows but for what is written to them.
RowsMove ==
  row' \in [Workspaces -> WorkspaceRow] /\ \A w \in Workspaces : row'[w].access = row[w].access
UseStays == \A w \in Workspaces : activeConnections(w) # {} => activeConnections(w)' # {}

LEMMA RecordsStay ==
  ASSUME RecordsInv, RowsMove, UNCHANGED <<tracker, flush>>, UseStays
  PROVE  RecordsInv'
  BY DEF RecordsInv, RecordsTyped, WrittenIsThere, IsRecorded, Written, InUse, RowsMove, UseStays

LEMMA RecordParameters == PersistInterval \in Nat
  BY AccessAssumption

\* As a process begins nothing is tracked.
LEMMA EmptyRecords ==
  ASSUME row' \in [Workspaces -> WorkspaceRow],
         tracker' = [w \in Workspaces |-> NotSeen], flush' = [f \in Flushes |-> <<>>]
  PROVE  RecordsInv'
  <1>1. \A w \in Workspaces : w \notin DOMAIN <<>>
    OBVIOUS
  <1>2. NotSeen \in AccessRecord /\ NotSeen.persisted = Null /\ NotSeen.latest = Null
    BY DEF NotSeen, AccessRecord, Times
  <1>3. \A w \in Workspaces : row'[w].access >= Null
    BY DEF WorkspaceRow, Times, Null
  <1>4. RecordsTyped'
    BY <1>1, <1>2 DEF RecordsTyped
  <1>. QED BY <1>2, <1>3, <1>4 DEF RecordsInv, WrittenIsThere, IsRecorded, Written

LEMMA StartKeepsRecords ==
  ASSUME RecordsInv, NEW f \in Flushes, StartFlush(f)
  PROVE  RecordsInv'
  <1>. DEFINE pending == {w \in Workspaces : tracker[w].pending}
  <1>1. /\ flush[f] = <<>> /\ UNCHANGED <<row, conn, registry>>
        /\ flush' = [flush EXCEPT ![f] = [w \in pending |-> tracker[w].latest]]
        /\ tracker' = [w \in Workspaces |-> [tracker[w] EXCEPT !.pending = FALSE]]
    BY DEF StartFlush, latestAccess, connVars
  <1>2. ASSUME NEW w \in Workspaces
        PROVE  /\ tracker'[w] \in AccessRecord /\ tracker'[w].latest = tracker[w].latest
               /\ tracker'[w].persisted = tracker[w].persisted
    BY <1>1 DEF RecordsInv, RecordsTyped, AccessRecord
  <1>3. ASSUME NEW g \in Flushes
        PROVE  flush'[g] = IF g = f THEN [w \in pending |-> tracker[w].latest] ELSE flush[g]
    BY <1>1 DEF RecordsInv, RecordsTyped
  <1>4. RecordsTyped'
    <2>1. tracker' \in [Workspaces -> AccessRecord]
      BY <1>1, <1>2
    <2>2. ASSUME NEW g \in Flushes, NEW w \in Workspaces, w \in DOMAIN flush'[g] PROVE flush'[g][w] \in Times
      <3>1. CASE g = f
        <4>1. w \in pending /\ flush'[g][w] = tracker[w].latest
          BY <1>3, <2>2, <3>1
        <4>. QED BY <4>1 DEF RecordsInv, RecordsTyped, AccessRecord
      <3>2. CASE g # f
        BY <1>3, <2>2, <3>2 DEF RecordsInv, RecordsTyped
      <3>. QED BY <3>1, <3>2
    <2>3. flush' = [g \in Flushes |-> flush'[g]]
      BY <1>1 DEF RecordsInv, RecordsTyped
    <2>. QED BY <1>1, <2>1, <2>2, <2>3 DEF RecordsInv, RecordsTyped
  <1>5. WrittenIsThere'
    BY <1>1, <1>2 DEF RecordsInv, WrittenIsThere
  <1>6. ASSUME NEW w \in Workspaces PROVE IsRecorded(w)'
    <2>1. CASE tracker[w].pending
      <3>1. w \in pending
        BY <2>1
      <3>2. w \in DOMAIN flush'[f] /\ flush'[f][w] = tracker'[w].latest
        BY <1>2, <1>3, <3>1
      <3>3. tracker'[w].latest \in Int
        BY <1>2 DEF AccessRecord, Times, Null
      <3>. QED BY <3>2, <3>3 DEF IsRecorded, Written
    <2>2. CASE Written(w, tracker[w].latest)
      <3>1. ASSUME NEW g \in Flushes, w \in DOMAIN flush[g], flush[g][w] >= tracker[w].latest
            PROVE  flush'[g] = flush[g]
        BY <1>1, <1>3, <3>1
      <3>. QED BY <1>1, <1>2, <2>2, <3>1 DEF IsRecorded, Written
    <2>3. CASE InUse(w)
      BY <1>1, <1>2, <2>3 DEF IsRecorded, InUse, activeConnections
    <2>. QED BY <2>1, <2>2, <2>3 DEF RecordsInv, IsRecorded
  <1>. QED BY <1>4, <1>5, <1>6 DEF RecordsInv

\* What a write leaves in the rows.
LEMMA WritesGrow ==
  ASSUME RecordsInv, NEW f \in Flushes, recordWorkspaceAccess(flush[f])
  PROVE  /\ row' \in [Workspaces -> WorkspaceRow]
         /\ \A w \in Workspaces : row'[w].access >= row[w].access
         /\ \A w \in Workspaces : w \in DOMAIN flush[f] => row'[w].access >= flush[f][w]
  <1>1. ASSUME NEW w \in Workspaces, w \in DOMAIN flush[f]
        PROVE  /\ row'[w] \in WorkspaceRow /\ row'[w].access = latest(row[w].access, flush[f][w])
    BY <1>1 DEF recordWorkspaceAccess, RecordsInv, RecordsTyped, WorkspaceRow, latest
  <1>2. ASSUME NEW w \in Workspaces, w \notin DOMAIN flush[f] PROVE row'[w] = row[w]
    BY <1>2 DEF recordWorkspaceAccess
  <1>3. \A w \in Workspaces : row[w] \in WorkspaceRow /\ row[w].access \in Int
    BY DEF RecordsInv, RecordsTyped, WorkspaceRow, Times, Null
  <1>4. \A w \in Workspaces : w \in DOMAIN flush[f] => flush[f][w] \in Int
    BY DEF RecordsInv, RecordsTyped, Times, Null
  <1>5. row' = [w \in Workspaces |-> row'[w]]
    BY DEF recordWorkspaceAccess
  <1>. QED BY <1>1, <1>2, <1>3, <1>4, <1>5 DEF latest

\* A flush that is over: what it wrote is in the rows, or pending again.
LEMMA EndKeepsRecords ==
  ASSUME RecordsInv, NEW f \in Flushes, UNCHANGED <<conn, registry>>,
         flush' = [flush EXCEPT ![f] = <<>>],
         row' \in [Workspaces -> WorkspaceRow], \A w \in Workspaces : row'[w].access >= row[w].access,
         tracker' \in [Workspaces -> AccessRecord],
         \A w \in Workspaces : tracker'[w].latest = tracker[w].latest /\ (tracker[w].pending => tracker'[w].pending),
         \A w \in Workspaces : row'[w].access >= tracker'[w].persisted,
         \A w \in Workspaces : w \in DOMAIN flush[f] => tracker'[w].pending \/ row'[w].access >= flush[f][w]
  PROVE  RecordsInv'
  <1>1. \A g \in Flushes : flush'[g] = IF g = f THEN <<>> ELSE flush[g]
    BY DEF RecordsInv, RecordsTyped
  <1>2. \A w \in Workspaces : w \notin DOMAIN <<>>
    OBVIOUS
  <1>3. RecordsTyped'
    <2>1. flush' = [g \in Flushes |-> flush'[g]]
      BY DEF RecordsInv, RecordsTyped
    <2>. QED BY <1>1, <1>2, <2>1 DEF RecordsInv, RecordsTyped
  <1>4. ASSUME NEW w \in Workspaces PROVE IsRecorded(w)'
    <2>a. row[w].access \in Int /\ row'[w].access \in Int /\ tracker[w].latest \in Int
      BY DEF RecordsInv, RecordsTyped, WorkspaceRow, AccessRecord, Times, Null
    <2>b. \A g \in Flushes : w \in DOMAIN flush[g] => flush[g][w] \in Int
      BY DEF RecordsInv, RecordsTyped, Times, Null
    <2>1. CASE tracker[w].pending
      BY <2>1 DEF IsRecorded
    <2>2. CASE row[w].access >= tracker[w].latest
      BY <2>a, <2>2 DEF IsRecorded, Written
    <2>3. CASE \E g \in Flushes : w \in DOMAIN flush[g] /\ flush[g][w] >= tracker[w].latest
      <3>1. PICK g \in Flushes : w \in DOMAIN flush[g] /\ flush[g][w] >= tracker[w].latest
        BY <2>3
      <3>2. CASE g = f
        <4>1. tracker'[w].pending \/ row'[w].access >= flush[f][w]
          BY <3>1, <3>2
        <4>2. CASE tracker'[w].pending
          BY <4>2 DEF IsRecorded
        <4>3. CASE row'[w].access >= flush[f][w]
          BY <2>a, <2>b, <3>1, <3>2, <4>3 DEF IsRecorded, Written
        <4>. QED BY <4>1, <4>2, <4>3
      <3>3. CASE g # f
        BY <1>1, <3>1, <3>3 DEF IsRecorded, Written
      <3>. QED BY <3>2, <3>3
    <2>4. CASE InUse(w)
      <3>1. row'[w].access # Null /\ tracker'[w].latest - row'[w].access < PersistInterval
        <4>1. row[w].access \in Nat
          BY <2>4 DEF InUse, RecordsInv, RecordsTyped, WorkspaceRow, Times
        <4>. QED BY <2>4, <2>a, <4>1, RecordParameters DEF InUse, Null
      <3>. QED BY <2>4, <3>1 DEF IsRecorded, InUse, activeConnections
    <2>. QED BY <2>1, <2>2, <2>3, <2>4 DEF RecordsInv, IsRecorded, Written
  <1>. QED BY <1>3, <1>4 DEF RecordsInv, WrittenIsThere

LEMMA FinishKeepsRecords ==
  ASSUME RecordsInv, NEW f \in Flushes, FinishFlush(f)
  PROVE  RecordsInv'
  <1>1. /\ recordWorkspaceAccess(flush[f]) /\ UNCHANGED <<conn, registry>>
        /\ flush' = [flush EXCEPT ![f] = <<>>]
    BY DEF FinishFlush, connVars
  <1>2. /\ row' \in [Workspaces -> WorkspaceRow]
        /\ \A w \in Workspaces : row'[w].access >= row[w].access
        /\ \A w \in Workspaces : w \in DOMAIN flush[f] => row'[w].access >= flush[f][w]
    BY <1>1, WritesGrow
  <1>3. ASSUME NEW w \in Workspaces
        PROVE  /\ tracker'[w] \in AccessRecord /\ tracker'[w].latest = tracker[w].latest
               /\ tracker'[w].pending = tracker[w].pending
               /\ tracker'[w].persisted = IF w \in DOMAIN flush[f] THEN flush[f][w] ELSE tracker[w].persisted
    <2>1. tracker[w] \in AccessRecord
      BY DEF RecordsInv, RecordsTyped
    <2>2. w \in DOMAIN flush[f] => flush[f][w] \in Times
      BY DEF RecordsInv, RecordsTyped
    <2>3. tracker'[w] = IF w \in DOMAIN flush[f] THEN [tracker[w] EXCEPT !.persisted = flush[f][w]] ELSE tracker[w]
      BY DEF FinishFlush, persisted
    <2>. QED BY <2>1, <2>2, <2>3 DEF AccessRecord
  <1>4. tracker' = [w \in Workspaces |-> tracker'[w]]
    BY DEF FinishFlush
  <1>5. \A w \in Workspaces : row'[w].access >= tracker'[w].persisted
    <2>1. ASSUME NEW w \in Workspaces, w \notin DOMAIN flush[f] PROVE row'[w].access >= tracker'[w].persisted
      <3>1. row[w].access >= tracker[w].persisted /\ row'[w].access >= row[w].access
        BY <1>2 DEF RecordsInv, WrittenIsThere
      <3>2. {row[w].access, row'[w].access, tracker[w].persisted} \subseteq Int
        BY <1>2 DEF RecordsInv, RecordsTyped, WorkspaceRow, AccessRecord, Times, Null
      <3>. QED BY <1>3, <2>1, <3>1, <3>2
    <2>. QED BY <1>2, <1>3, <2>1
  <1>6. tracker' \in [Workspaces -> AccessRecord]
    BY <1>3, <1>4
  <1>7. \A w \in Workspaces : tracker'[w].latest = tracker[w].latest /\ (tracker[w].pending => tracker'[w].pending)
    BY <1>3
  <1>. QED BY <1>1, <1>2, <1>5, <1>6, <1>7, EndKeepsRecords

LEMMA FailKeepsRecords ==
  ASSUME RecordsInv, NEW f \in Flushes, FailFlush(f)
  PROVE  RecordsInv'
  <1>1. /\ recordWorkspaceAccess(flush[f]) \/ UNCHANGED row
        /\ UNCHANGED <<conn, registry>> /\ flush' = [flush EXCEPT ![f] = <<>>]
    BY DEF FailFlush, connVars
  <1>a. \A w \in Workspaces : row[w].access \in Int /\ tracker[w].persisted \in Int
    BY DEF RecordsInv, RecordsTyped, WorkspaceRow, AccessRecord, Times, Null
  <1>2. /\ row' \in [Workspaces -> WorkspaceRow]
        /\ \A w \in Workspaces : row'[w].access >= row[w].access
    <2>1. CASE recordWorkspaceAccess(flush[f])
      BY <2>1, WritesGrow
    <2>2. CASE UNCHANGED row
      BY <1>a, <2>2 DEF RecordsInv, RecordsTyped
    <2>. QED BY <1>1, <2>1, <2>2
  <1>3. ASSUME NEW w \in Workspaces
        PROVE  /\ tracker'[w] \in AccessRecord /\ tracker'[w].latest = tracker[w].latest
               /\ tracker'[w].persisted = tracker[w].persisted
               /\ tracker[w].pending => tracker'[w].pending
               /\ w \in DOMAIN flush[f] => tracker'[w].pending
    <2>1. tracker[w] \in AccessRecord
      BY DEF RecordsInv, RecordsTyped
    <2>3. tracker'[w] = IF w \in DOMAIN flush[f] THEN [tracker[w] EXCEPT !.pending = TRUE] ELSE tracker[w]
      BY DEF FailFlush
    <2>. QED BY <2>1, <2>3 DEF AccessRecord
  <1>4. tracker' = [w \in Workspaces |-> tracker'[w]]
    BY DEF FailFlush
  <1>5. \A w \in Workspaces : row'[w].access >= tracker'[w].persisted
    <2>1. ASSUME NEW w \in Workspaces PROVE row'[w].access >= tracker'[w].persisted
      <3>1. row[w].access >= tracker[w].persisted /\ row'[w].access >= row[w].access
        BY <1>2 DEF RecordsInv, WrittenIsThere
      <3>2. row'[w].access \in Int
        BY <1>2 DEF WorkspaceRow, Times, Null
      <3>. QED BY <1>3, <1>a, <3>1, <3>2
    <2>. QED BY <2>1
  <1>6. tracker' \in [Workspaces -> AccessRecord]
    BY <1>3, <1>4
  <1>7. \A w \in Workspaces : tracker'[w].latest = tracker[w].latest /\ (tracker[w].pending => tracker'[w].pending)
    BY <1>3
  <1>8. \A w \in Workspaces : w \in DOMAIN flush[f] => tracker'[w].pending \/ row'[w].access >= flush[f][w]
    BY <1>3
  <1>. QED BY <1>1, <1>2, <1>5, <1>6, <1>7, <1>8, EndKeepsRecords

\* A connection that begins, or ends, is an access.
LEMMA TouchKeepsTypes ==
  ASSUME RecordsInv, now \in Nat, NEW ws \in SUBSET Workspaces, NEW ended \in BOOLEAN, touch(ws, ended), UNCHANGED <<row, flush>>
  PROVE  /\ RecordsTyped' /\ WrittenIsThere'
         /\ \A w \in Workspaces \ ws : tracker'[w] = tracker[w]
         /\ \A w \in ws :
              /\ tracker'[w].latest = now
              /\ ended => tracker'[w].pending
              /\ \/ tracker'[w].pending
                 \/ tracker'[w].persisted # Null /\ now - tracker'[w].persisted < PersistInterval
  <1>1. ASSUME NEW w \in ws
        PROVE  /\ tracker'[w] \in AccessRecord /\ tracker'[w].latest = now
               /\ row[w].access >= tracker'[w].persisted
               /\ ended => tracker'[w].pending
               /\ \/ tracker'[w].pending
                  \/ tracker'[w].persisted # Null /\ now - tracker'[w].persisted < PersistInterval
    <2>1. w \in Workspaces /\ tracker'[w] = touched(w, ended)
      BY DEF touch
    <2>2. CASE tracker[w] = NotSeen
      <3>1. tracker'[w] = [latest |-> now, persisted |-> Null, pending |-> TRUE]
        BY <2>1, <2>2 DEF touched
      <3>2. row[w].access >= Null
        BY <2>1 DEF RecordsInv, RecordsTyped, WorkspaceRow, Times, Null
      <3>. QED BY <3>1, <3>2 DEF AccessRecord, Times
    <2>3. CASE tracker[w] # NotSeen
      <3>. DEFINE p == tracker[w].pending \/ ended \/ tracker[w].persisted = Null
                         \/ now - tracker[w].persisted >= PersistInterval
      <3>1. tracker'[w] = [tracker[w] EXCEPT !.latest = now, !.pending = p]
        BY <2>1, <2>3 DEF touched
      <3>2. tracker[w] \in AccessRecord /\ row[w].access >= tracker[w].persisted
        BY <2>1 DEF RecordsInv, RecordsTyped, WrittenIsThere
      <3>3. p \in BOOLEAN
        BY <3>2 DEF AccessRecord
      <3>4. ~p => tracker[w].persisted # Null /\ now - tracker[w].persisted < PersistInterval
        <4>1. tracker[w].persisted \in Int
          BY <3>2 DEF AccessRecord, Times, Null
        <4>2. PersistInterval \in Int /\ now \in Int
          BY RecordParameters
        <4>. QED BY <4>1, <4>2
      <3>5. ended => p
        OBVIOUS
      <3>. HIDE DEF p
      <3>6. /\ tracker'[w] \in AccessRecord /\ tracker'[w].latest = now
            /\ tracker'[w].persisted = tracker[w].persisted /\ tracker'[w].pending = p
        BY <3>1, <3>2, <3>3 DEF AccessRecord, Times
      <3>. QED BY <3>2, <3>4, <3>5, <3>6
    <2>. QED BY <2>2, <2>3
  <1>2. \A w \in Workspaces \ ws : tracker'[w] = tracker[w]
    BY DEF touch
  <1>3. tracker' \in [Workspaces -> AccessRecord]
    BY <1>1, <1>2 DEF touch, RecordsInv, RecordsTyped
  <1>4. RecordsTyped'
    BY <1>3 DEF RecordsInv, RecordsTyped
  <1>5. WrittenIsThere'
    BY <1>1, <1>2 DEF RecordsInv, WrittenIsThere
  <1>. QED BY <1>1, <1>2, <1>4, <1>5

\* A Workspace that was not touched is as it was.
LEMMA UntouchedStays ==
  ASSUME RecordsInv, NEW w \in Workspaces, UNCHANGED <<row, flush>>, tracker'[w] = tracker[w],
         activeConnections(w) # {} => activeConnections(w)' # {}
  PROVE  IsRecorded(w)'
  BY DEF RecordsInv, IsRecorded, Written, InUse

LEMMA DisconnectKeepsRecords ==
  ASSUME RecordsInv, ConnInv, now \in Nat, NEW cs, Disconnect(cs), UNCHANGED <<row, flush>>
  PROVE  RecordsInv'
  <1>. DEFINE ws == {conn[c].workspace : c \in cs \cap registry}
  <1>1. ws \subseteq Workspaces
    BY DEF ConnInv, Valid, ConnRecord, Closed, Registered
  <1>2. touch(ws, TRUE)
    BY DEF Disconnect, leave
  <1>3. /\ registry' = registry \ (cs \cap registry) /\ registry \subseteq Connections
        /\ conn' = [c \in Connections |-> IF c \in cs \cap registry THEN Closed ELSE conn[c]]
    BY DEF Disconnect, ConnInv
  <1>4. ASSUME NEW w \in Workspaces, w \notin ws, activeConnections(w) # {} PROVE activeConnections(w)' # {}
    <2>1. PICK c \in registry : conn[c].workspace = w
      BY <1>4 DEF activeConnections
    <2>2. c \in registry' /\ conn'[c].workspace = w
      BY <1>3, <1>4, <2>1
    <2>. QED BY <2>2 DEF activeConnections
  <1>. HIDE DEF ws
  <1>5. ASSUME NEW w \in Workspaces PROVE IsRecorded(w)'
    <2>1. CASE w \in ws
      <3>1. tracker'[w].pending
        BY <1>1, <1>2, <2>1, TouchKeepsTypes
      <3>. QED BY <3>1 DEF IsRecorded
    <2>2. CASE w \notin ws
      BY <1>1, <1>2, <1>4, <2>2, TouchKeepsTypes, UntouchedStays
    <2>. QED BY <2>1, <2>2
  <1>. QED BY <1>1, <1>2, <1>5, TouchKeepsTypes DEF RecordsInv

LEMMA TrackKeepsRecords ==
  ASSUME RecordsInv, ConnInv, now \in Nat, NEW c \in Connections, conn[c] # Closed, trackSessionConnection(c),
         UNCHANGED <<row, flush>>
  PROVE  RecordsInv'
  <1>1. conn[c] \in ConnRecord
    BY DEF ConnInv, Valid
  <1>2. PICK v \in Workspaces : v = conn[c].workspace /\ touch({v}, FALSE)
    BY <1>1 DEF ConnRecord, trackSessionConnection
  <1>3. registry' = registry \cup {c} /\ registry \subseteq Connections
    BY DEF trackSessionConnection, ConnInv
  <1>4. \A d \in Connections : conn'[d].workspace = conn[d].workspace
    BY <1>1 DEF trackSessionConnection, recheck, Moves, ConnInv, ConnRecord
  <1>5. activeConnections(v)' # {} /\ \A w \in Workspaces : activeConnections(w) # {} => activeConnections(w)' # {}
    BY <1>2, <1>3, <1>4 DEF activeConnections
  <1>6. RecordsTyped' /\ WrittenIsThere'
    BY <1>2, TouchKeepsTypes
  <1>7. IsRecorded(v)'
    <2>1. /\ tracker'[v].latest = now
          /\ \/ tracker'[v].pending
             \/ tracker'[v].persisted # Null /\ now - tracker'[v].persisted < PersistInterval
      BY <1>2, TouchKeepsTypes
    <2>2. CASE tracker'[v].pending
      BY <2>2 DEF IsRecorded
    <2>3. CASE tracker'[v].persisted # Null /\ now - tracker'[v].persisted < PersistInterval
      <3>1. row'[v].access >= tracker'[v].persisted
        BY <1>2, <1>6 DEF WrittenIsThere
      <3>2. tracker'[v].persisted \in Nat /\ row'[v].access \in Int
        BY <1>2, <1>6, <2>3 DEF RecordsTyped, WorkspaceRow, AccessRecord, Times, Null
      <3>3. row'[v].access # Null /\ now - row'[v].access < PersistInterval
        BY <2>3, <3>1, <3>2, RecordParameters DEF Null
      <3>. QED BY <1>5, <2>1, <3>3 DEF IsRecorded, InUse
    <2>. QED BY <2>1, <2>2, <2>3
  <1>8. \A w \in Workspaces \ {v} : IsRecorded(w)'
    BY <1>2, <1>5, TouchKeepsTypes, UntouchedStays
  <1>. QED BY <1>6, <1>7, <1>8 DEF RecordsInv

\* A row that changes otherwise keeps what is written.
LEMMA RowMoves ==
  ASSUME RecordsInv, now \in Nat, NEW w, NEW state \in RowStates,
         row' = [row EXCEPT ![w].state = state, ![w].activity = now]
  PROVE  RowsMove
  BY DEF RecordsInv, RecordsTyped, RowsMove, WorkspaceRow

LEMMA RecordsKept == ASSUME Types, ConnInv, RecordsInv, [Next]_vars PROVE RecordsInv'
  <1>a. now \in Nat /\ (UNCHANGED row => RowsMove)
    BY DEF Types, RowsTyped, RecordsInv, RecordsTyped, RowsMove
  <1>b. UNCHANGED <<conn, registry>> => UseStays
    BY DEF UseStays, activeConnections
  <1>c. UNCHANGED <<tracker, flush, row, conn, registry>> => RecordsInv'
    BY <1>a, <1>b, RecordsStay
  <1>d. UNCHANGED <<tracker, flush, conn, registry>> /\ RowsMove => RecordsInv'
    BY <1>b, RecordsStay
  <1>e. ASSUME NEW c \in Connections, conn[c].at \notin Registered, UNCHANGED <<tracker, flush, row, registry>>,
               NEW q, Moves(c, q)
        PROVE  RecordsInv'
    <2>1. UseStays
      BY <1>e DEF UseStays, activeConnections, Moves, ConnInv
    <2>. QED BY <1>a, <1>e, <2>1, RecordsStay
  <1>f. ASSUME NEW cs, Disconnect(cs), UNCHANGED <<row, flush>> PROVE RecordsInv'
    BY <1>a, <1>f, DisconnectKeepsRecords
  <1>1. CASE UNCHANGED vars \/ ((AccountsNext \/ Tick) /\ UNCHANGED accessVars)
    BY <1>1, <1>c DEF vars, accessVars, idleVars, connVars
  <1>2. CASE \E r \in Requests : Cut(r)
    BY <1>2, <1>f DEF Cut
  <1>3. CASE \E f \in Flushes : StartFlush(f) \/ FinishFlush(f) \/ FailFlush(f)
    BY <1>3, StartKeepsRecords, FinishKeepsRecords, FailKeepsRecords
  <1>4. CASE \E r \in Requests : FindOwned(r)
       \/ (\E s \in Sessions, w \in Workspaces : AskToOpen(r, s, w)) \/ (\E c \in Codes : IssueCode(r, c))
    BY <1>4, <1>c DEF FindOwned, AskToOpen, IssueCode, accessVars, idleVars, connVars
  <1>5. CASE (\E p \in Posts, c \in Codes, w \in Workspaces : PostCode(p, c, w))
             \/ \E p \in Posts : CheckSession(p) \/ FinishExchange(p)
    BY <1>5, <1>c DEF PostCode, CheckSession, FinishExchange, idleVars, connVars
  <1>6. CASE \E c \in Connections, s \in Sessions, w \in Workspaces, kind \in {"http", "ws"} : FindSession(c, s, w, kind)
    BY <1>6, <1>e DEF FindSession, Closed, Registered, idleVars
  <1>7. CASE \E c \in Connections : FindWorkspace(c) \/ FindRoute(c) \/ ProxyWebSocketUpgrade(c) \/ UpgradeFails(c)
    BY <1>7, <1>e DEF FindWorkspace, FindRoute, ProxyWebSocketUpgrade, UpgradeFails, Registered, idleVars
  <1>8. CASE \E c \in Connections : HandleUpgrade(c)
    <2>1. PICK c \in Connections : HandleUpgrade(c)
      BY <1>8
    <2>2. PICK q : Moves(c, q)
      BY <2>1 DEF HandleUpgrade
    <2>. QED BY <2>1, <2>2, <1>e DEF HandleUpgrade, Registered, idleVars
  <1>9. CASE \E c \in Connections : ProxyHttpRequest(c) \/ Upgraded(c)
    <2>1. PICK c \in Connections : ProxyHttpRequest(c) \/ Upgraded(c)
      BY <1>9
    <2>2. conn[c].at \in {"authorized", "upgraded"} /\ UNCHANGED <<row, flush>>
      BY <2>1 DEF ProxyHttpRequest, Upgraded
    <2>3. (Moves(c, Closed) /\ UNCHANGED <<registry, tracker>>) \/ trackSessionConnection(c)
      BY <2>1 DEF ProxyHttpRequest, Upgraded, browserGone, Refused
    <2>4. conn[c] # Closed
      BY <2>2 DEF Closed
    <2>. QED BY <2>2, <2>3, <2>4, <1>a, <1>e, TrackKeepsRecords DEF Registered
  <1>10. CASE \E c \in Connections : Recheck(c)
    <2>1. PICK c \in Connections : Recheck(c)
      BY <1>10
    <2>2. CASE Disconnect({c})
      BY <2>1, <2>2, <1>f DEF Recheck
    <2>3. CASE Moves(c, [conn[c] EXCEPT !.at = "open"]) /\ UNCHANGED <<registry, tracker>>
      <3>1. conn[c] \in ConnRecord
        BY <2>1 DEF Recheck, ConnInv, Valid, Closed
      <3>2. conn'[c].workspace = conn[c].workspace /\ \A d \in Connections \ {c} : conn'[d] = conn[d]
        BY <2>3, <3>1 DEF Moves, ConnInv, ConnRecord
      <3>3. UseStays
        BY <2>3, <3>2 DEF UseStays, activeConnections, ConnInv
      <3>. QED BY <1>a, <2>1, <2>3, <3>3, RecordsStay DEF Recheck
    <2>. QED BY <2>1, <2>2, <2>3 DEF Recheck
  <1>11. CASE \E c \in Connections : EndHttp(c) \/ EndWebSocket(c)
    BY <1>11, <1>f DEF EndHttp, EndWebSocket
  <1>12. CASE \E c \in Connections : BrowserLeaves(c)
    <2>1. PICK c \in Connections : BrowserLeaves(c)
      BY <1>12
    <2>2. CASE c \in registry
      BY <2>1, <2>2, <1>f DEF BrowserLeaves
    <2>3. CASE c \notin registry
      BY <2>1, <2>3, <1>e DEF BrowserLeaves, Moves, ConnInv
    <2>. QED BY <2>2, <2>3
  <1>13. CASE DisableWorker
    <2>1. RowsMove
      <3>1. ASSUME NEW w \in Workspaces PROVE row'[w] \in WorkspaceRow /\ row'[w].access = row[w].access
        BY <1>13 DEF DisableWorker, RecordsInv, RecordsTyped, WorkspaceRow, RowStates
      <3>. QED BY <1>13, <3>1 DEF DisableWorker, RowsMove
    <2>. QED BY <1>13, <1>d, <2>1 DEF DisableWorker, idleVars, connVars
  <1>14. CASE EnforceWorkerRevocations
    BY <1>14, <1>f DEF EnforceWorkerRevocations, closeWorkspaces
  <1>15. CASE LoseChannel \/ ConnectChannel \/ SampleUsage \/ ReportUsage
    BY <1>15, <1>c DEF LoseChannel, ConnectChannel, SampleUsage, ReportUsage, idleVars, connVars
  <1>16. CASE \E w \in Workspaces : Compute(w) \/ StopWorkspace(w) \/ StartWorkspace(w)
    <2>1. PICK w \in Workspaces : Compute(w) \/ StopWorkspace(w) \/ StartWorkspace(w)
      BY <1>16
    <2>2. UNCHANGED <<tracker, flush, conn, registry>>
      BY <2>1 DEF Compute, StopWorkspace, StartWorkspace, idleVars, connVars
    <2>3. RowsMove
      BY <2>1, <1>a, RowMoves DEF Compute, StopWorkspace, StartWorkspace, RowStates
    <2>. QED BY <1>d, <2>2, <2>3
  <1>17. CASE \E s \in Sweeps : StartSweep(s) \/ CheckCandidate(s)
    BY <1>17, <1>c DEF StartSweep, CheckCandidate, connVars
  <1>18. CASE \E s \in Sweeps : BeginIdleStop(s) \/ FinishIdleStop(s)
    <2>1. PICK s \in Sweeps : BeginIdleStop(s) \/ FinishIdleStop(s)
      BY <1>18
    <2>2. UNCHANGED <<tracker, flush, conn, registry>>
      BY <2>1 DEF BeginIdleStop, FinishIdleStop, connVars
    <2>3. RowsMove
      <3>1. CASE BeginIdleStop(s)
        BY <3>1, <1>a, RowMoves DEF BeginIdleStop, RowStates
      <3>2. CASE FinishIdleStop(s)
        BY <3>2, <1>a, RowMoves DEF FinishIdleStop, RowStates
      <3>. QED BY <2>1, <3>1, <3>2
    <2>. QED BY <1>d, <2>2, <2>3
  <1>19. CASE Restart
    <2>1. /\ tracker' = [w \in Workspaces |-> NotSeen] /\ flush' = [f \in Flushes |-> <<>>] /\ UNCHANGED row
      BY <1>19 DEF Restart
    <2>. QED BY <2>1, EmptyRecords DEF RecordsInv, RecordsTyped
  <1>. QED BY <1>1, <1>2, <1>3, <1>4, <1>5, <1>6, <1>7, <1>8, <1>9, <1>10, <1>11, <1>12, <1>13, <1>14, <1>15,
              <1>16, <1>17, <1>18, <1>19 DEF Next

LEMMA InitRecords == Init => RecordsInv
  <1>. SUFFICES ASSUME Init PROVE RecordsInv
    OBVIOUS
  <1>1. \A w \in Workspaces : row[w] \in WorkspaceRow /\ row[w].access = Null
    BY DEF Init, WorkspaceRow, RowStates, Times
  <1>2. NotSeen \in AccessRecord /\ NotSeen.persisted = Null /\ NotSeen.latest = Null
    BY DEF NotSeen, AccessRecord, Times
  <1>3. RecordsTyped
    <2>1. row \in [Workspaces -> WorkspaceRow]
      BY <1>1 DEF Init
    <2>2. tracker \in [Workspaces -> AccessRecord] /\ flush = [f \in Flushes |-> <<>>]
      BY <1>2 DEF Init
    <2>. QED BY <2>1, <2>2 DEF RecordsTyped
  <1>4. \A w \in Workspaces : row[w].access >= Null
    BY <1>1 DEF Null
  <1>5. tracker = [w \in Workspaces |-> NotSeen]
    BY DEF Init
  <1>. QED BY <1>2, <1>3, <1>4, <1>5 DEF RecordsInv, WrittenIsThere, IsRecorded, Written

\* Nothing of an access is lost: whatever flushes overlap, fail and are committed
\* all the same, the last time a Workspace was used is in its row, on its way there or
\* still to be written; and while it is in use the row is behind by less than the
\* interval (WorkspaceAccessTracker, recordWorkspaceAccess).
THEOREM AccessAlwaysRecorded == Spec => []AccessIsRecorded
  <1>1. Types /\ Usable /\ Fresh /\ ConnInv /\ RecordsInv /\ [Next]_vars =>
          Types' /\ Usable' /\ Fresh' /\ ConnInv' /\ RecordsInv'
    BY TypesKept, UsableKept, ConnKept, RecordsKept DEF Usable
  <1>. QED BY <1>1, InitRecords, RecordsSayIt, InitUsable, InitConn, PTL DEF Spec

-----------------------------------------------------------------------------
(* The types of the rest.                                                   *)

RequestAt ==
  {"idle", "verifying", "failing", "inserted", "forgiving", "starting", "authorizing", "called",
   "exchanging", "admitted", "updating", "unbinding", "cutting", "opening", "opened"}
RequestsTyped == \A r \in Requests : request[r].at \in RequestAt
WorkerTyped == worker \in [enabled : BOOLEAN, connected : BOOLEAN]
Counter == [start : Times, failures : Nat, until : Times]
ThrottleTyped == throttle \in [Keys -> Counter]

LEMMA ThrottleParameters ==
  ASSUME NEW k \in Keys
  PROVE  /\ k[1] \in Scopes
         /\ Policy[k[1]].threshold \in Nat \ {0} /\ Policy[k[1]].window \in Nat \ {0} /\ Policy[k[1]].lock \in Nat \ {0}
  <1>1. k[1] \in Scopes
    BY DEF Keys, Scopes, loginIpKey, loginKey, ipKey, ssoKey
  <1>. QED BY <1>1, LoginThrottleAssumption

LEMMA HitsKeepTypes ==
  ASSUME ThrottleTyped, now \in Nat, NEW keys, countFailures(keys)
  PROVE  ThrottleTyped'
  <1>1. ASSUME NEW k \in Keys PROVE nextAuthThrottleState(throttle[k], Policy[k[1]], now) \in Counter
    <2>1. throttle[k].failures + 1 \in Nat /\ now + Policy[k[1]].lock \in Nat /\ throttle[k] \in Counter
      BY ThrottleParameters DEF ThrottleTyped, Counter
    <2>. QED BY <2>1 DEF nextAuthThrottleState, Counter, Times
  <1>. QED BY <1>1 DEF countFailures, recordAuthThrottleHits, ThrottleTyped

LEMMA ForgettingKeepsTypes ==
  ASSUME ThrottleTyped, NEW keys, throttle' = clearAuthThrottle(throttle, keys)
  PROVE  ThrottleTyped'
  <1>1. NoCounter \in Counter
    BY DEF NoCounter, Counter, Times
  <1>. QED BY <1>1 DEF clearAuthThrottle, ThrottleTyped

\* What the steps are to the counters.
LEMMA CounterSteps ==
  ASSUME [Next]_vars
  PROVE  \/ UNCHANGED throttle
         \/ \E keys : countFailures(keys) \/ throttle' = clearAuthThrottle(throttle, keys)
  <1>1. CASE AccountsNext
    <2>1. CASE CleanUp
      BY <2>1 DEF CleanUp, deleteExpiredAuthThrottle
    <2>2. CASE \E r \in Requests : RefuseLogin(r) \/ CountFailure(r) \/ CountSsoStart(r) \/ Forgive(r) \/ ClearAuthLocks(r)
      BY <2>2 DEF RefuseLogin, CountFailure, CountSsoStart, Forgive, ClearAuthLocks, forget
    <2>3. ASSUME NEW r \in Requests, SignIn(r), ~(RefuseLogin(r) \/ CountFailure(r) \/ CountSsoStart(r) \/ Forgive(r))
          PROVE  UNCHANGED throttle
      <3>1. CASE \/ \E l \in Logins, a \in Addresses : StartLogin(r, l, a)
                 \/ \E a \in Addresses : InvalidLogin(r, a) \/ AdmitSsoStart(r, a) \/ AdmitCallback(r, a)
        BY <3>1 DEF StartLogin, InvalidLogin, AdmitSsoStart, AdmitCallback
      <3>2. CASE InsertSession(r) \/ CommitSession(r) \/ CreateTransaction(r) \/ FailExchange(r)
        BY <3>2 DEF InsertSession, CommitSession, CreateTransaction, FailExchange
      <3>3. CASE (\E h \in Handles : ConsumeTransaction(r, h)) \/ \E i \in Identities : CompleteExternalLogin(r, i)
        BY <3>3 DEF ConsumeTransaction, CompleteExternalLogin
      <3>. QED BY <2>3, <3>1, <3>2, <3>3 DEF SignIn
    <2>4. ASSUME NEW r \in Requests, Administer(r), ~ClearAuthLocks(r) PROVE UNCHANGED throttle
      <3>1. CASE \/ \E s \in Sessions : (\E op \in AdminOps : AuthenticateAdmin(r, s, op)) \/ Authenticate(r, s)
                 \/ LockUser(r) \/ UpdateManagedUser(r) \/ RevokeUserSessions(r) \/ RevokeSession(r)
        BY <3>1 DEF AuthenticateAdmin, Authenticate, LockUser, UpdateManagedUser, RevokeUserSessions, RevokeSession
      <3>2. CASE CreateUser(r) \/ ResetLocalPassword(r) \/ BindExternalIdentity(r) \/ LockIdentities(r) \/ UnbindExternalIdentity(r)
        BY <3>2 DEF CreateUser, ResetLocalPassword, BindExternalIdentity, LockIdentities, UnbindExternalIdentity
      <3>. QED BY <2>4, <3>1, <3>2 DEF Administer
    <2>. QED BY <1>1, <2>1, <2>2, <2>3, <2>4 DEF AccountsNext
  <1>2. CASE \E r \in Requests : Cut(r) \/ FindOwned(r)
       \/ (\E s \in Sessions, w \in Workspaces : AskToOpen(r, s, w)) \/ (\E c \in Codes : IssueCode(r, c))
    BY <1>2 DEF Cut, FindOwned, AskToOpen, IssueCode
  <1>3. CASE Tick \/ Restart
    BY <1>3 DEF Tick, Restart, AccountsRestart
  <1>. QED BY <1>1, <1>2, <1>3, OtherSteps DEF accountVars

LEMMA OneRequestStaysTyped ==
  ASSUME Types, RequestsTyped, NEW r \in Requests, NEW state, Becomes(r, state), state.at \in RequestAt
  PROVE  RequestsTyped'
  BY DEF Types, RequestsTyped

\* What a request that is about administration becomes.
LEMMA AdministerBecomes ==
  ASSUME NEW r \in Requests, Administer(r)
  PROVE  \E state : Becomes(r, state) /\ state.at \in {"idle", "admitted", "updating", "unbinding", "cutting", "forgiving"}
  <1>1. CASE \E s \in Sessions : (\E op \in AdminOps : AuthenticateAdmin(r, s, op)) \/ Authenticate(r, s)
    BY <1>1 DEF AuthenticateAdmin, Authenticate
  <1>2. CASE LockUser(r) \/ LockIdentities(r) \/ UpdateManagedUser(r) \/ RevokeUserSessions(r) \/ RevokeSession(r)
    <2>. DEFINE state(at) == [at |-> at, op |-> request[r].op]
    <2>1. Becomes(r, Idle) \/ Becomes(r, state("updating")) \/ Becomes(r, state("unbinding")) \/ Becomes(r, state("cutting"))
      BY <1>2 DEF LockUser, LockIdentities, UpdateManagedUser, RevokeUserSessions, RevokeSession
    <2>2. /\ state("updating").at = "updating" /\ state("unbinding").at = "unbinding" /\ state("cutting").at = "cutting"
          /\ Idle.at = "idle"
      OBVIOUS
    <2>. HIDE DEF state
    <2>. QED BY <2>1, <2>2
  <1>4. CASE CreateUser(r) \/ ClearAuthLocks(r) \/ BindExternalIdentity(r) \/ UnbindExternalIdentity(r)
    BY <1>4 DEF CreateUser, ClearAuthLocks, BindExternalIdentity, UnbindExternalIdentity
  <1>5. CASE ResetLocalPassword(r)
    <2>. DEFINE state == [at |-> "forgiving", keys |-> userKeys(request[r].op.user)]
    <2>1. Becomes(r, Idle) \/ Becomes(r, state)
      BY <1>5 DEF ResetLocalPassword
    <2>2. state.at = "forgiving" /\ Idle.at = "idle"
      OBVIOUS
    <2>. HIDE DEF state
    <2>. QED BY <2>1, <2>2
  <1>. QED BY <1>1, <1>2, <1>4, <1>5 DEF Administer

LEMMA RequestsKeepTypes == ASSUME Types, RequestsTyped, [Next]_vars PROVE RequestsTyped'
  <1>. USE DEF RequestAt
  <1>1. CASE UNCHANGED <<accountRows, request>>
    BY <1>1 DEF RequestsTyped
  <1>2. ASSUME NEW r \in Requests, SignIn(r) PROVE RequestsTyped'
    <2>1. CASE Elsewhere(r)
      BY <2>1, OneRequestStaysTyped DEF Elsewhere
    <2>2. CASE \E l \in Logins, a \in Addresses : StartLogin(r, l, a)
      BY <2>2, OneRequestStaysTyped DEF StartLogin
    <2>3. CASE InsertSession(r) \/ CommitSession(r)
      BY <2>3, OneRequestStaysTyped DEF InsertSession, CommitSession
    <2>4. CASE \E i \in Identities : CompleteExternalLogin(r, i)
      BY <2>4, OneRequestStaysTyped DEF CompleteExternalLogin
    <2>. QED BY <1>2, <2>1, <2>2, <2>3, <2>4, SignInSteps
  <1>3. ASSUME NEW r \in Requests, Administer(r) PROVE RequestsTyped'
    BY <1>3, AdministerBecomes, OneRequestStaysTyped
  <1>a. CASE \E r \in Requests : Cut(r)
    BY <1>a, OneRequestStaysTyped DEF Cut
  <1>b. CASE \E r \in Requests, c \in Codes : IssueCode(r, c)
    BY <1>b, OneRequestStaysTyped DEF IssueCode
  <1>5. CASE \E r \in Requests : FindOwned(r)
    <2>1. PICK r \in Requests : FindOwned(r)
      BY <1>5
    <2>. DEFINE state == [request[r] EXCEPT !.at = "opened"]
    <2>2. state.at = "opened"
      BY <2>1 DEF FindOwned, Types, StateTyped, Opening
    <2>3. Becomes(r, Idle) \/ Becomes(r, state)
      BY <2>1 DEF FindOwned
    <2>. HIDE DEF state
    <2>. QED BY <2>2, <2>3, OneRequestStaysTyped
  <1>6. CASE \E r \in Requests, s \in Sessions, w \in Workspaces : AskToOpen(r, s, w)
    BY <1>6, OneRequestStaysTyped DEF AskToOpen
  <1>7. CASE Restart
    BY <1>7 DEF Restart, AccountsRestart, RequestsTyped
  <1>. QED BY <1>1, <1>2, <1>3, <1>a, <1>b, <1>5, <1>6, <1>7, Steps

LEMMA WorkerKeepsType == ASSUME WorkerTyped, [Next]_vars PROVE WorkerTyped'
  <1>. USE DEF WorkerTyped, accessVars
  <1>1. CASE UNCHANGED vars
    BY <1>1 DEF vars
  <1>2. CASE \E r \in Requests : Cut(r) \/ FindOwned(r) \/ \E s \in Sessions, w \in Workspaces : AskToOpen(r, s, w)
    BY <1>2 DEF Cut, FindOwned, AskToOpen
  <1>3. CASE \E r \in Requests, c \in Codes : IssueCode(r, c)
    BY <1>3 DEF IssueCode
  <1>4. CASE \E f \in Flushes : StartFlush(f) \/ FinishFlush(f) \/ FailFlush(f)
    BY <1>4 DEF StartFlush, FinishFlush, FailFlush
  <1>5. CASE (\E p \in Posts, c \in Codes, w \in Workspaces : PostCode(p, c, w))
             \/ \E p \in Posts : CheckSession(p) \/ FinishExchange(p)
    BY <1>5 DEF PostCode, CheckSession, FinishExchange
  <1>6. CASE \/ \E c \in Connections, s \in Sessions, w \in Workspaces, kind \in {"http", "ws"} : FindSession(c, s, w, kind)
             \/ \E c \in Connections : FindWorkspace(c) \/ FindRoute(c)
                  \/ ProxyHttpRequest(c) \/ ProxyWebSocketUpgrade(c) \/ HandleUpgrade(c) \/ Upgraded(c) \/ UpgradeFails(c)
                  \/ Recheck(c) \/ EndHttp(c) \/ EndWebSocket(c) \/ BrowserLeaves(c)
    BY <1>6 DEF FindSession, FindWorkspace, FindRoute, ProxyHttpRequest, ProxyWebSocketUpgrade, HandleUpgrade,
      Upgraded, UpgradeFails, Recheck, EndHttp, EndWebSocket, BrowserLeaves
  <1>7. CASE DisableWorker \/ EnforceWorkerRevocations \/ LoseChannel \/ ConnectChannel \/ SampleUsage \/ ReportUsage
    BY <1>7 DEF DisableWorker, EnforceWorkerRevocations, LoseChannel, ConnectChannel, SampleUsage, ReportUsage
  <1>8. CASE \E w \in Workspaces : Compute(w) \/ StopWorkspace(w) \/ StartWorkspace(w)
    BY <1>8 DEF Compute, StopWorkspace, StartWorkspace
  <1>9. CASE \E s \in Sweeps : StartSweep(s) \/ CheckCandidate(s) \/ BeginIdleStop(s) \/ FinishIdleStop(s)
    BY <1>9 DEF StartSweep, CheckCandidate, BeginIdleStop, FinishIdleStop
  <1>10. CASE Restart
    BY <1>10 DEF Restart
  <1>. QED BY <1>1, <1>2, <1>3, <1>4, <1>5, <1>6, <1>7, <1>8, <1>9, <1>10 DEF Next

\* Users, sessions, counters, requests, Workspaces and what is known of their use keep
\* their types, and the registry is exactly the connections that were tracked and have
\* not ended (SessionConnectionRegistry).
THEOREM TypeCorrect == Spec => []TypeOK
  <1>1. Init => RequestsTyped /\ WorkerTyped /\ ThrottleTyped
    BY DEF Init, AccountsInit, RequestsTyped, RequestAt, WorkerTyped, ThrottleTyped, NoCounters, NoCounter, Counter, Times
  <1>2. Types /\ Usable /\ Fresh /\ ConnInv /\ RecordsInv /\ RequestsTyped /\ WorkerTyped /\ ThrottleTyped /\ [Next]_vars =>
          (Types /\ Usable /\ Fresh /\ ConnInv /\ RecordsInv /\ RequestsTyped /\ WorkerTyped /\ ThrottleTyped)'
    <2>1. Types /\ ThrottleTyped /\ [Next]_vars => ThrottleTyped'
      BY CounterSteps, HitsKeepTypes, ForgettingKeepsTypes DEF ThrottleTyped, Types, RowsTyped
    <2>. QED BY <2>1, TypesKept, UsableKept, ConnKept, RecordsKept, RequestsKeepTypes, WorkerKeepsType DEF Usable
  <1>3. Types /\ ConnInv /\ RecordsInv /\ RequestsTyped /\ WorkerTyped /\ ThrottleTyped => TypeOK
    BY DEF TypeOK, Types, RowsTyped, ConnInv, Registered, RecordsInv, RecordsTyped, WorkspaceRow, RowStates,
      AccessRecord, RequestsTyped, RequestAt, WorkerTyped, ThrottleTyped, Counter
  <1>. QED BY <1>1, <1>2, <1>3, InitRecords, InitUsable, InitConn, PTL DEF Spec

-----------------------------------------------------------------------------
(* Guesses are bounded.  A counter and the failures of the last window are  *)
(* held against each other (Counted): those since the counter started are no  *)
(* more than it counts, a lock is taken at the threshold and passed only by   *)
(* what was admitted before (Pending), and those of the window before are      *)
(* what that one let through without a lock.                                *)

Since(failures, s) == {g \in failures : g[1] >= s}
After(failures, s) == {g \in failures : g[1] > s}
Before(failures, s) == {g \in failures : g[1] < s}
AtOnce == Cardinality(Requests)

\* What a window lets through that is over: not a lock's worth, or one and those under
\* way, less the failure that opens the next.
Spilled(policy) == policy.threshold + AtOnce - 3

Recent(failures, t, policy) ==
  /\ IsFiniteSet(failures) /\ failures \subseteq Nat \X Nat
  /\ \A g \in failures : t - policy.window < g[1] /\ g[1] <= t

Uncounted(failures, t, policy) ==
  Cardinality(failures) <= Spilled(policy) /\ \A g \in failures : g[1] < t

Unlocked(c, policy) == c.until = Null /\ c.failures <= policy.threshold - 1
Locked(c, failures, pending, t, policy) ==
  /\ c.until \in Nat /\ c.failures >= policy.threshold
  /\ c.failures <= policy.threshold - 1 + AtOnce
  /\ c.until > t => c.failures + pending <= policy.threshold - 1 + AtOnce
  /\ \A g \in failures : g[1] + policy.lock <= c.until

Counting(c, failures, pending, t, policy) ==
  /\ c \in Counter /\ c.start \in Nat /\ c.start <= t /\ c.failures > 0
  /\ Unlocked(c, policy) \/ Locked(c, failures, pending, t, policy)
  /\ \A g \in failures : g[1] < c.start + policy.window
  /\ Cardinality(Since(failures, c.start)) <= c.failures
  /\ Cardinality(After(failures, c.start)) <= c.failures - 1
  /\ Cardinality(Before(failures, c.start)) <= Spilled(policy)

Counted(c, failures, pending, t, policy) ==
  /\ Recent(failures, t, policy)
  /\ \/ c = NoCounter /\ Uncounted(failures, t, policy)
     \/ Counting(c, failures, pending, t, policy)

IsPolicy(policy) ==
  /\ policy.threshold \in Nat /\ policy.window \in Nat \ {0} /\ policy.lock \in Nat
  /\ policy.threshold > 1 /\ policy.lock >= policy.window

LEMMA AtOnceType == AtOnce \in Nat \ {0}
  BY AccountsAssumption, FS_CardinalityType, FS_EmptySet DEF AtOnce

\* The parts of a finite set of failures.
LEMMA Parts ==
  ASSUME NEW failures, IsFiniteSet(failures), NEW s
  PROVE  /\ IsFiniteSet(Since(failures, s)) /\ Cardinality(Since(failures, s)) \in Nat
         /\ IsFiniteSet(After(failures, s)) /\ Cardinality(After(failures, s)) \in Nat
         /\ IsFiniteSet(Before(failures, s)) /\ Cardinality(Before(failures, s)) \in Nat
         /\ Cardinality(failures) \in Nat
  <1>1. /\ Since(failures, s) \in SUBSET failures /\ After(failures, s) \in SUBSET failures
        /\ Before(failures, s) \in SUBSET failures
    BY DEF Since, After, Before
  <1>. QED BY <1>1, FS_Subset, FS_CardinalityType

LEMMA SubsetCounts ==
  ASSUME NEW S, NEW T, IsFiniteSet(T), S \subseteq T
  PROVE  IsFiniteSet(S) /\ Cardinality(S) \in Nat /\ Cardinality(T) \in Nat /\ Cardinality(S) <= Cardinality(T)
  BY FS_Subset, FS_CardinalityType

\* The counter holds for the failures what the threshold promises.
LEMMA CountedIsBounded ==
  ASSUME NEW c, NEW failures, NEW pending, NEW t, NEW policy, IsPolicy(policy),
         Counted(c, failures, pending, t, policy)
  PROVE  Cardinality(failures) <= 2 * (policy.threshold - 1) + 2 * (AtOnce - 1)
  <1>1. AtOnce \in Nat \ {0} /\ policy.threshold \in Nat /\ policy.threshold > 1
    BY AtOnceType DEF IsPolicy
  <1>2. IsFiniteSet(failures) /\ failures \subseteq Nat \X Nat
    BY DEF Counted, Recent
  <1>3. CASE Uncounted(failures, t, policy)
    <2>1. Cardinality(failures) \in Nat /\ Cardinality(failures) <= policy.threshold + AtOnce - 3
      BY <1>2, <1>3, FS_CardinalityType DEF Uncounted, Spilled
    <2>. QED BY <1>1, <2>1
  <1>4. CASE Counting(c, failures, pending, t, policy)
    <2>. DEFINE new == Since(failures, c.start)
                old == Before(failures, c.start)
    <2>1. c.start \in Nat /\ c.failures \in Nat
      BY <1>4 DEF Counting, Counter
    <2>2. IsFiniteSet(new) /\ IsFiniteSet(old) /\ Cardinality(new) \in Nat /\ Cardinality(old) \in Nat
      BY <1>2, Parts
    <2>3. failures = new \cup old /\ new \cap old = {}
      BY <1>2, <2>1 DEF Since, Before
    <2>4. Cardinality(new) <= c.failures /\ Cardinality(old) <= policy.threshold + AtOnce - 3
      BY <1>4 DEF Counting, Spilled
    <2>5. c.failures <= policy.threshold - 1 + AtOnce
      BY <1>1, <1>4, <2>1 DEF Counting, Unlocked, Locked
    <2>. HIDE DEF new, old
    <2>6. Cardinality(failures) = Cardinality(new) + Cardinality(old)
      <3>1. Cardinality(new \cup old) = Cardinality(new) + Cardinality(old) - Cardinality(new \cap old)
        BY <2>2, FS_Union
      <3>2. Cardinality(new \cap old) = 0
        BY <2>3, FS_EmptySet
      <3>. QED BY <2>2, <2>3, <3>1, <3>2
    <2>. QED BY <1>1, <2>1, <2>2, <2>4, <2>5, <2>6
  <1>. QED BY <1>3, <1>4 DEF Counted

\* Requests that are done leave the lock more room; without a lock it does not matter.
LEMMA PendingChange ==
  ASSUME NEW c, NEW failures, NEW pending \in Nat, NEW fewer \in Nat, NEW t \in Nat, NEW policy,
         IsPolicy(policy), Counted(c, failures, pending, t, policy), fewer <= pending \/ ~(c.until > t)
  PROVE  Counted(c, failures, fewer, t, policy)
  <1>1. CASE c = NoCounter /\ Uncounted(failures, t, policy)
    BY <1>1 DEF Counted
  <1>2. CASE Counting(c, failures, pending, t, policy)
    <2>1. CASE Unlocked(c, policy)
      BY <1>2, <2>1 DEF Counted, Counting
    <2>2. CASE Locked(c, failures, pending, t, policy)
      <3>1. Locked(c, failures, fewer, t, policy)
        <4>1. c.failures \in Nat /\ policy.threshold \in Nat /\ AtOnce \in Nat
          BY <1>2, AtOnceType DEF Counting, Counter, IsPolicy
        <4>. QED BY <2>2, <4>1 DEF Locked
      <3>. QED BY <1>2, <3>1 DEF Counted, Counting
    <2>. QED BY <1>2, <2>1, <2>2 DEF Counting
  <1>. QED BY <1>1, <1>2 DEF Counted

\* A counter that was cleared has nothing to answer for.
LEMMA ForgottenIsCounted ==
  ASSUME NEW pending, NEW t \in Nat, NEW policy, IsPolicy(policy)
  PROVE  Counted(NoCounter, {}, pending, t, policy)
  <1>1. 0 <= Spilled(policy)
    BY AtOnceType DEF Spilled, IsPolicy
  <1>. QED BY <1>1, FS_EmptySet DEF Counted, Recent, Uncounted

\* Time passes.
LEMMA TickCounts ==
  ASSUME NEW c, NEW failures, NEW pending \in Nat, NEW t \in Nat, NEW u, u = t + 1, NEW policy,
         IsPolicy(policy), Counted(c, failures, pending, t, policy)
  PROVE  Counted(c, {g \in failures : g[1] > u - policy.window}, pending, u, policy)
  <1>. DEFINE rest == {g \in failures : g[1] > u - policy.window}
  <1>. SUFFICES Counted(c, rest, pending, u, policy)
    OBVIOUS
  <1>1. rest \subseteq failures
    OBVIOUS
  <1>2. IsFiniteSet(failures) /\ failures \subseteq Nat \X Nat /\ policy.window \in Nat
    BY DEF Counted, Recent, IsPolicy
  <1>3. Recent(rest, u, policy)
    <2>1. IsFiniteSet(rest)
      BY <1>1, <1>2, SubsetCounts
    <2>2. \A g \in rest : g[1] > u - policy.window /\ g[1] <= t /\ g[1] \in Nat
      BY <1>2 DEF Counted, Recent
    <2>. QED BY <1>2, <2>1, <2>2 DEF Recent
  <1>. HIDE DEF rest
  <1>a. policy.threshold \in Nat /\ AtOnce \in Nat /\ Spilled(policy) \in Int
    BY AtOnceType DEF IsPolicy, Spilled
  <1>4. CASE c = NoCounter /\ Uncounted(failures, t, policy)
    <2>1. Cardinality(rest) \in Nat /\ Cardinality(failures) \in Nat /\ Cardinality(rest) <= Cardinality(failures)
      BY <1>1, <1>2, SubsetCounts
    <2>2. \A g \in rest : g[1] < u
      BY <1>1, <1>2, <1>4 DEF Uncounted
    <2>3. Cardinality(rest) <= Spilled(policy)
      BY <1>4, <1>a, <2>1 DEF Uncounted
    <2>. QED BY <1>3, <1>4, <2>2, <2>3 DEF Counted, Uncounted
  <1>5. CASE Counting(c, failures, pending, t, policy)
    <2>1. c.start \in Nat /\ c.failures \in Nat /\ c.start <= u
      BY <1>5 DEF Counting, Counter
    <2>2. /\ Since(rest, c.start) \subseteq Since(failures, c.start)
          /\ After(rest, c.start) \subseteq After(failures, c.start)
          /\ Before(rest, c.start) \subseteq Before(failures, c.start)
      BY <1>1 DEF Since, After, Before
    <2>3. /\ Cardinality(Since(rest, c.start)) <= c.failures
          /\ Cardinality(After(rest, c.start)) <= c.failures - 1
          /\ Cardinality(Before(rest, c.start)) <= Spilled(policy)
      <3>1. /\ IsFiniteSet(Since(failures, c.start)) /\ IsFiniteSet(After(failures, c.start))
            /\ IsFiniteSet(Before(failures, c.start))
        BY <1>2, Parts
      <3>2. /\ Cardinality(Since(failures, c.start)) <= c.failures
            /\ Cardinality(After(failures, c.start)) <= c.failures - 1
            /\ Cardinality(Before(failures, c.start)) <= Spilled(policy)
        BY <1>5 DEF Counting
      <3>3. Cardinality(Since(rest, c.start)) \in Nat /\ Cardinality(Since(failures, c.start)) \in Nat
            /\ Cardinality(Since(rest, c.start)) <= Cardinality(Since(failures, c.start))
        BY <2>2, <3>1, SubsetCounts
      <3>4. Cardinality(After(rest, c.start)) \in Nat /\ Cardinality(After(failures, c.start)) \in Nat
            /\ Cardinality(After(rest, c.start)) <= Cardinality(After(failures, c.start))
        BY <2>2, <3>1, SubsetCounts
      <3>5. Cardinality(Before(rest, c.start)) \in Nat /\ Cardinality(Before(failures, c.start)) \in Nat
            /\ Cardinality(Before(rest, c.start)) <= Cardinality(Before(failures, c.start))
        BY <2>2, <3>1, SubsetCounts
      <3>. QED BY <1>a, <2>1, <3>2, <3>3, <3>4, <3>5
    <2>4. Unlocked(c, policy) \/ Locked(c, rest, pending, u, policy)
      <3>1. CASE Unlocked(c, policy)
        BY <3>1
      <3>2. CASE Locked(c, failures, pending, t, policy)
        BY <1>1, <3>2 DEF Locked
      <3>. QED BY <1>5, <3>1, <3>2 DEF Counting
    <2>5. \A g \in rest : g[1] < c.start + policy.window
      BY <1>1, <1>5 DEF Counting
    <2>6. c \in Counter /\ c.failures > 0
      BY <1>5 DEF Counting
    <2>. QED BY <1>3, <2>1, <2>3, <2>4, <2>5, <2>6 DEF Counted, Counting
  <1>. QED BY <1>4, <1>5 DEF Counted

\* The longest window there is.
LEMMA MaxWindow == \A scope \in Scopes : maxWindow \in Nat /\ Policy[scope].window <= maxWindow
  <1>. DEFINE W == {Policy[s].window : s \in Scopes}
  <1>1. W \subseteq Nat
    BY LoginThrottleAssumption
  <1>2. \E w \in W : \A s \in Scopes : Policy[s].window <= w
    <2>1. \A a, b, c, d \in Nat : \E w \in {a, b, c, d} : a <= w /\ b <= w /\ c <= w /\ d <= w
      OBVIOUS
    <2>. DEFINE a == Policy["login_ip"].window
                b == Policy["ip"].window
                c == Policy["login"].window
                d == Policy["sso_start"].window
    <2>2. W = {a, b, c, d} /\ {a, b, c, d} \subseteq Nat
      BY <1>1 DEF Scopes
    <2>3. \E w \in {a, b, c, d} : a <= w /\ b <= w /\ c <= w /\ d <= w
      BY <2>1, <2>2
    <2>. QED BY <2>2, <2>3 DEF Scopes
  <1>. QED BY <1>1, <1>2 DEF maxWindow

\* The cleanup takes a counter whose window is over and whose lock has expired: what it
\* locked for has expired with it.
LEMMA CleanUpCounts ==
  ASSUME NEW c, NEW failures, NEW pending, NEW t \in Nat, NEW scope \in Scopes, IsPolicy(Policy[scope]),
         Counted(c, failures, pending, t, Policy[scope]), expired(c, t)
  PROVE  Counted(NoCounter, failures, pending, t, Policy[scope])
  <1>. DEFINE policy == Policy[scope]
  <1>a. maxWindow \in Nat /\ policy.window \in Nat \ {0} /\ policy.window <= maxWindow /\ policy.lock \in Nat
        /\ policy.lock >= policy.window /\ policy.threshold \in Nat /\ policy.threshold > 1 /\ AtOnce \in Nat \ {0}
    BY MaxWindow, AtOnceType DEF IsPolicy
  <1>b. Recent(failures, t, policy)
    BY DEF Counted
  <1>1. CASE Counting(c, failures, pending, t, policy)
    <2>1. /\ c.start \in Nat /\ c.failures \in Nat /\ c.start <= t - maxWindow
          /\ c.until = Null \/ c.until <= t
      BY <1>1 DEF expired, Counting, Counter
    <2>2. c.start + policy.window <= t
      BY <1>a, <2>1
    <2>3. \A g \in failures : g[1] \in Nat /\ g[1] < t /\ g[1] > c.start
      BY <1>1, <1>a, <1>b, <2>1, <2>2 DEF Counting, Recent
    <2>4. CASE Unlocked(c, policy)
      <3>1. failures = After(failures, c.start)
        BY <2>3 DEF After
      <3>2. Cardinality(failures) <= c.failures - 1
        BY <1>1, <3>1 DEF Counting
      <3>3. Cardinality(failures) \in Nat
        BY <1>b, FS_CardinalityType DEF Recent
      <3>4. Cardinality(failures) <= Spilled(policy)
        BY <1>a, <2>1, <2>4, <3>2, <3>3 DEF Unlocked, Spilled
      <3>. QED BY <1>b, <2>3, <3>4 DEF Counted, Uncounted
    <2>5. CASE Locked(c, failures, pending, t, policy)
      <3>1. c.until \in Nat /\ c.until <= t
        BY <2>1, <2>5 DEF Locked, Null
      <3>2. \A g \in failures : FALSE
        BY <1>a, <1>b, <2>3, <2>5, <3>1 DEF Locked, Recent
      <3>3. failures = {}
        BY <3>2
      <3>. QED BY <3>3, ForgottenIsCounted
    <2>. QED BY <1>1, <2>4, <2>5 DEF Counting
  <1>2. CASE c = NoCounter
    BY <1>2
  <1>. QED BY <1>1, <1>2 DEF Counted

\* There is always another number.
LEMMA OneMoreIsNew ==
  ASSUME NEW failures, IsFiniteSet(failures), now \in Nat
  PROVE  \E n \in Nat : oneMore(failures) = failures \cup {<<now, n>>} /\ <<now, n>> \notin failures
  <1>. DEFINE size == Cardinality(failures)
              numbers == 0..size
              f == [n \in numbers |-> <<now, n>>]
  <1>1. size \in Nat
    BY FS_CardinalityType
  <1>2. \E n \in numbers : <<now, n>> \notin failures
    <2>. SUFFICES ASSUME \A n \in numbers : <<now, n>> \in failures PROVE FALSE
      OBVIOUS
    <2>1. IsFiniteSet(numbers) /\ Cardinality(numbers) = size + 1
      BY <1>1, FS_Interval
    <2>2. f \in [numbers -> failures]
      OBVIOUS
    <2>3. \A x, y \in numbers : f[x] = f[y] => x = y
      OBVIOUS
    <2>4. Cardinality(failures) < Cardinality(numbers)
      BY <1>1, <2>1
    <2>. HIDE DEF f, numbers
    <2>5. \E x, y \in numbers : x # y /\ f[x] = f[y]
      BY <2>1, <2>2, <2>4, FS_PigeonHole
    <2>. QED BY <2>3, <2>5
  <1>. DEFINE m == CHOOSE n \in numbers : <<now, n>> \notin failures
  <1>3. m \in Nat /\ <<now, m>> \notin failures
    BY <1>1, <1>2
  <1>. QED BY <1>3 DEF oneMore

\* A failure more.
LEMMA HitCounts ==
  ASSUME NEW c, NEW failures, NEW pending \in Nat \ {0}, NEW t \in Nat, NEW policy, IsPolicy(policy),
         pending <= AtOnce, Counted(c, failures, pending, t, policy),
         NEW n \in Nat, <<t, n>> \notin failures
  PROVE  Counted(nextAuthThrottleState(c, policy, t), failures \cup {<<t, n>>}, pending - 1, t, policy)
  <1>. DEFINE g0 == <<t, n>>
              more == failures \cup {g0}
              next0 == nextAuthThrottleState(c, policy, t)
  <1>. SUFFICES Counted(next0, more, pending - 1, t, policy)
    OBVIOUS
  <1>a. /\ policy.threshold \in Nat /\ policy.threshold > 1 /\ policy.window \in Nat \ {0} /\ policy.lock \in Nat
        /\ policy.lock >= policy.window /\ AtOnce \in Nat \ {0} /\ Spilled(policy) \in Int
    BY AtOnceType DEF IsPolicy, Spilled
  <1>b. IsFiniteSet(failures) /\ failures \subseteq Nat \X Nat /\ \A g \in failures : t - policy.window < g[1] /\ g[1] <= t
    BY DEF Counted, Recent
  <1>c. g0[1] = t /\ g0 \in Nat \X Nat /\ \A g \in failures : g[1] \in Nat
    BY <1>b
  <1>. HIDE DEF g0
  <1>d. Recent(more, t, policy)
    <2>1. IsFiniteSet(more)
      BY <1>b, FS_AddElement
    <2>. QED BY <1>a, <1>b, <1>c, <2>1 DEF Recent
  <1>1. ASSUME over(c, policy, t), Cardinality(failures) <= Spilled(policy), \A g \in failures : g[1] < t
        PROVE  Counted(next0, more, pending - 1, t, policy)
    <2>1. next0 = [start |-> t, failures |-> 1, until |-> Null]
      BY <1>1, <1>a DEF nextAuthThrottleState, reached
    <2>2. Since(more, t) = {g0} /\ After(more, t) = {} /\ Before(more, t) = failures
      BY <1>1, <1>c DEF Since, After, Before
    <2>3. Cardinality({g0}) = 1 /\ Cardinality({}) = 0
      BY FS_Singleton, FS_EmptySet
    <2>4. \A g \in more : g[1] < t + policy.window
      BY <1>1, <1>a, <1>c
    <2>5. next0 \in Counter /\ next0.start = t /\ next0.failures = 1 /\ next0.until = Null
      BY <2>1 DEF Counter, Times
    <2>. HIDE DEF more, next0
    <2>6. Unlocked(next0, policy)
      BY <2>5, <1>a DEF Unlocked
    <2>7. /\ Cardinality(Since(more, next0.start)) <= next0.failures
          /\ Cardinality(After(more, next0.start)) <= next0.failures - 1
          /\ Cardinality(Before(more, next0.start)) <= Spilled(policy)
      BY <1>1, <2>2, <2>3, <2>5
    <2>8. next0.start \in Nat /\ next0.start <= t /\ next0.failures > 0
      BY <2>5
    <2>9. \A g \in more : g[1] < next0.start + policy.window
      BY <2>4, <2>5
    <2>10. Counting(next0, more, pending - 1, t, policy)
      BY <2>5, <2>6, <2>7, <2>8, <2>9 DEF Counting
    <2>. QED BY <1>d, <2>10 DEF Counted
  <1>2. CASE c = NoCounter /\ Uncounted(failures, t, policy)
    BY <1>1, <1>2 DEF over, Uncounted
  <1>3. CASE Counting(c, failures, pending, t, policy) /\ over(c, policy, t)
    <2>1. c.start \in Nat /\ c.failures \in Nat /\ c # NoCounter
      BY <1>3 DEF Counting, Counter, NoCounter, Null
    <2>2. CASE Locked(c, failures, pending, t, policy) /\ c.until <= t
      <3>1. \A g \in failures : FALSE
        BY <1>a, <1>b, <1>c, <2>2 DEF Locked
      <3>2. failures = {} /\ 0 <= Spilled(policy)
        BY <3>1, <1>a DEF Spilled
      <3>. QED BY <1>1, <1>3, <3>2, FS_EmptySet
    <2>3. CASE c.start + policy.window <= t /\ ~(Locked(c, failures, pending, t, policy) /\ c.until <= t)
      <3>1. \A g \in failures : g[1] < t /\ g[1] > c.start
        BY <1>3, <1>a, <1>b, <1>c, <2>1, <2>3 DEF Counting
      <3>2. failures = After(failures, c.start)
        BY <3>1 DEF After
      <3>3. Cardinality(failures) <= c.failures - 1 /\ Cardinality(failures) \in Nat
        BY <1>3, <1>b, <3>2, FS_CardinalityType DEF Counting
      <3>4. c.failures - 1 <= Spilled(policy)
        <4>1. CASE Unlocked(c, policy)
          BY <4>1, <1>a, <2>1 DEF Unlocked, Spilled
        <4>2. CASE Locked(c, failures, pending, t, policy)
          BY <4>2, <1>a, <2>1, <2>3 DEF Locked, Spilled
        <4>. QED BY <1>3, <4>1, <4>2 DEF Counting
      <3>. QED BY <1>1, <1>3, <1>a, <2>1, <3>1, <3>3, <3>4
    <2>. QED BY <1>3, <2>1, <2>2, <2>3 DEF over, Counting, Unlocked, Null
  <1>4. CASE Counting(c, failures, pending, t, policy) /\ ~over(c, policy, t)
    <2>1. c \in Counter /\ c.start \in Nat /\ c.start <= t /\ c.failures \in Nat /\ c.failures > 0 /\ t < c.start + policy.window
      BY <1>4, <1>a DEF Counting, Counter, over
    <2>. DEFINE s == c.start
    <2>2. /\ Cardinality(Since(more, s)) <= c.failures + 1
          /\ Cardinality(After(more, s)) <= c.failures
          /\ Cardinality(Before(more, s)) <= Spilled(policy)
      <3>1. /\ Since(more, s) = Since(failures, s) \cup {g0} /\ Before(more, s) = Before(failures, s)
            /\ After(more, s) \subseteq After(failures, s) \cup {g0}
        BY <1>c, <2>1 DEF Since, Before, After
      <3>2. /\ IsFiniteSet(Since(failures, s)) /\ Cardinality(Since(failures, s)) \in Nat
            /\ IsFiniteSet(After(failures, s)) /\ Cardinality(After(failures, s)) \in Nat
        BY <1>b, Parts
      <3>3. /\ Cardinality(Since(failures, s)) <= c.failures
            /\ Cardinality(After(failures, s)) <= c.failures - 1
            /\ Cardinality(Before(failures, s)) <= Spilled(policy)
        BY <1>4 DEF Counting
      <3>a. ASSUME NEW S, IsFiniteSet(S), Cardinality(S) \in Nat
            PROVE  Cardinality(S \cup {g0}) <= Cardinality(S) + 1 /\ IsFiniteSet(S \cup {g0})
        <4>. HIDE DEF g0
        <4>1. /\ IsFiniteSet(S \cup {g0})
              /\ Cardinality(S \cup {g0}) = Cardinality(S) \/ Cardinality(S \cup {g0}) = Cardinality(S) + 1
          BY <3>a, FS_AddElement
        <4>. QED BY <3>a, <4>1
      <3>4. Cardinality(Since(failures, s) \cup {g0}) <= Cardinality(Since(failures, s)) + 1
        BY <3>2, <3>a
      <3>5. Cardinality(After(failures, s) \cup {g0}) <= Cardinality(After(failures, s)) + 1
            /\ IsFiniteSet(After(failures, s) \cup {g0})
        BY <3>2, <3>a
      <3>6. Cardinality(After(more, s)) \in Nat /\ Cardinality(After(failures, s) \cup {g0}) \in Nat
            /\ Cardinality(After(more, s)) <= Cardinality(After(failures, s) \cup {g0})
        BY <3>1, <3>5, SubsetCounts
      <3>7. IsFiniteSet(Since(failures, s) \cup {g0}) /\ Cardinality(Since(failures, s) \cup {g0}) \in Nat
        BY <3>2, FS_AddElement, FS_CardinalityType
      <3>. HIDE DEF more, s
      <3>8. Cardinality(Since(more, s)) <= c.failures + 1
        BY <2>1, <3>1, <3>2, <3>3, <3>4, <3>7
      <3>9. Cardinality(After(more, s)) <= c.failures
        BY <2>1, <3>2, <3>3, <3>5, <3>6
      <3>. QED BY <3>1, <3>3, <3>8, <3>9
    <2>. DEFINE until0 == IF c.failures + 1 >= policy.threshold THEN t + policy.lock ELSE c.until
    <2>3. next0 = [start |-> c.start, failures |-> c.failures + 1, until |-> until0]
      BY <1>4 DEF nextAuthThrottleState, reached
    <2>4. until0 \in Times
      BY <1>a, <2>1 DEF Counter, Times
    <2>5. /\ next0 \in Counter /\ next0.start = c.start /\ next0.failures = c.failures + 1 /\ next0.until = until0
      BY <2>1, <2>3, <2>4 DEF Counter
    <2>6. \A g \in more : g[1] < c.start + policy.window
      BY <1>4, <1>c, <2>1 DEF Counting
    <2>7. \A g \in more : g[1] <= t
      BY <1>b, <1>c
    <2>. HIDE DEF more, next0
    <2>8. Unlocked(next0, policy) \/ Locked(next0, more, pending - 1, t, policy)
      <3>1. CASE c.failures + 1 < policy.threshold
        <4>1. c.until = Null
          BY <1>4, <1>a, <2>1, <3>1 DEF Counting, Unlocked, Locked
        <4>. QED BY <1>a, <2>1, <2>5, <3>1, <4>1 DEF Unlocked
      <3>2. CASE c.failures + 1 >= policy.threshold
        <4>1. until0 = t + policy.lock
          BY <3>2
        <4>2. \A g \in more : g[1] + policy.lock <= until0
          <5>1. \A g \in more : g[1] \in Nat
            BY <1>d DEF Recent
          <5>. QED BY <1>a, <2>7, <4>1, <5>1
        <4>3. c.failures + pending <= policy.threshold - 1 + AtOnce
          <5>1. CASE Unlocked(c, policy)
            BY <5>1, <1>a, <2>1 DEF Unlocked
          <5>2. CASE Locked(c, failures, pending, t, policy)
            <6>1. c.until > t
              BY <1>4, <5>2 DEF Locked, over, Null
            <6>. QED BY <5>2, <6>1 DEF Locked
          <5>. QED BY <1>4, <5>1, <5>2 DEF Counting
        <4>4. until0 \in Nat
          BY <1>a, <4>1
        <4>. HIDE DEF until0
        <4>. QED BY <1>a, <2>1, <2>5, <3>2, <4>2, <4>3, <4>4 DEF Locked
      <3>. QED BY <1>a, <2>1, <3>1, <3>2
    <2>. QED BY <1>d, <2>1, <2>2, <2>5, <2>6, <2>8 DEF Counted, Counting
  <1>. QED BY <1>2, <1>3, <1>4 DEF Counted

\* The requests under way that are going to be failures of a counter, if they fail.
Hits(q) ==
  {k \in Keys :
     \/ q.at = "verifying" /\ k \in localLoginFailureHits(q.login, q.address)
     \/ q.at = "failing" /\ k \in q.hits
     \/ q.at = "starting" /\ k \in ssoStartHit(q.address)
     \/ q.at \in {"called", "exchanging"} /\ k \in addressFailureHit(q.address)}
Pending(k) == {r \in Requests : k \in Hits(request[r])}

Held(k) == k[1] = "login" => Trusted = {}
GuessesInv ==
  \A k \in Keys : Held(k) =>
    Counted(throttle[k], guesses[k], Cardinality(Pending(k)), now, Policy[k[1]])

\* What neither fails nor is going to.
Harmless ==
  {"idle", "inserted", "forgiving", "authorizing", "admitted", "updating", "unbinding", "cutting", "opening", "opened"}

LEMMA KeysHavePolicies == ASSUME NEW k \in Keys PROVE k[1] \in Scopes /\ IsPolicy(Policy[k[1]])
  BY ThrottleParameters, LoginThrottleAssumption DEF IsPolicy

LEMMA HarmlessHitsNothing == ASSUME NEW q, q.at \in Harmless PROVE Hits(q) = {}
  BY DEF Hits, Harmless

LEMMA PendingIsFinite ==
  ASSUME NEW k
  PROVE  IsFiniteSet(Pending(k)) /\ Cardinality(Pending(k)) \in Nat /\ Cardinality(Pending(k)) <= AtOnce
  <1>1. Pending(k) \subseteq Requests
    BY DEF Pending
  <1>. QED BY <1>1, AccountsAssumption, SubsetCounts DEF AtOnce

\* Nothing is counted; who is admitted found the counters open.
LEMMA NoHitKeeps ==
  ASSUME GuessesInv, now \in Nat, UNCHANGED <<now, throttle, guesses>>,
         \A k \in Keys : Held(k) => Pending(k)' \subseteq Pending(k) \/ ~(throttle[k].until > now)
  PROVE  GuessesInv'
  <1>. SUFFICES ASSUME NEW k \in Keys, Held(k)
                PROVE  Counted(throttle[k], guesses[k], Cardinality(Pending(k)'), now, Policy[k[1]])
    BY DEF GuessesInv, Held
  <1>1. Counted(throttle[k], guesses[k], Cardinality(Pending(k)), now, Policy[k[1]])
    BY DEF GuessesInv
  <1>2. Cardinality(Pending(k)) \in Nat /\ Cardinality(Pending(k)') \in Nat
    BY PendingIsFinite, AccountsAssumption, SubsetCounts DEF Pending
  <1>3. Pending(k)' \subseteq Pending(k) => Cardinality(Pending(k)') <= Cardinality(Pending(k))
    BY PendingIsFinite, SubsetCounts
  <1>. QED BY <1>1, <1>2, <1>3, KeysHavePolicies, PendingChange

\* One request moves on.
LEMMA MovesOn ==
  ASSUME Types, GuessesInv, UNCHANGED <<now, throttle, guesses>>,
         NEW r \in Requests, NEW state, Becomes(r, state), Hits(state) \subseteq Hits(request[r])
  PROVE  GuessesInv'
  <1>1. \A q \in Requests : request'[q] = IF q = r THEN state ELSE request[q]
    BY DEF Types
  <1>2. \A k \in Keys : Pending(k)' \subseteq Pending(k)
    BY <1>1 DEF Pending
  <1>. QED BY <1>2, NoHitKeeps DEF Types, RowsTyped

LEMMA IsAdmitted ==
  ASSUME Types, GuessesInv, UNCHANGED <<now, throttle, guesses>>,
         NEW r \in Requests, NEW state, Becomes(r, state),
         NEW keys, ~findAuthLock(throttle, keys, now), \A k \in Hits(state) : Held(k) => k \in keys
  PROVE  GuessesInv'
  <1>1. \A q \in Requests : request'[q] = IF q = r THEN state ELSE request[q]
    BY DEF Types
  <1>2. ASSUME NEW k \in Keys, Held(k)
        PROVE  Pending(k)' \subseteq Pending(k) \/ ~(throttle[k].until > now)
    <2>1. CASE k \in Hits(state)
      BY <1>2, <2>1 DEF findAuthLock
    <2>2. CASE k \notin Hits(state)
      BY <1>1, <2>2 DEF Pending
    <2>. QED BY <2>1, <2>2
  <1>. QED BY <1>2, NoHitKeeps DEF Types, RowsTyped

\* One request fails.
LEMMA FailureKeeps ==
  ASSUME Types, GuessesInv, UNCHANGED now, NEW r \in Requests, NEW state, Becomes(r, state), Hits(state) = {},
         NEW keys, countFailures(keys), \A k \in Keys : k \in keys => k \in Hits(request[r])
  PROVE  GuessesInv'
  <1>1. \A q \in Requests : request'[q] = IF q = r THEN state ELSE request[q]
    BY DEF Types
  <1>2. now \in Nat
    BY DEF Types, RowsTyped
  <1>. SUFFICES ASSUME NEW k \in Keys, Held(k)
                PROVE  Counted(throttle'[k], guesses'[k], Cardinality(Pending(k)'), now, Policy[k[1]])
    BY DEF GuessesInv, Held
  <1>3. Counted(throttle[k], guesses[k], Cardinality(Pending(k)), now, Policy[k[1]])
    BY DEF GuessesInv
  <1>4. Cardinality(Pending(k)) \in Nat /\ IsFiniteSet(Pending(k)) /\ Cardinality(Pending(k)) <= AtOnce
    BY PendingIsFinite
  <1>5. Pending(k)' = Pending(k) \ {r}
    BY <1>1 DEF Pending
  <1>6. CASE k \in keys
    <2>1. r \in Pending(k)
      BY <1>6 DEF Pending
    <2>2. Cardinality(Pending(k)') = Cardinality(Pending(k)) - 1 /\ Cardinality(Pending(k)) \in Nat \ {0}
      BY <1>4, <1>5, <2>1, FS_RemoveElement, FS_EmptySet
    <2>3. IsFiniteSet(guesses[k])
      BY <1>3 DEF Counted, Recent
    <2>4. PICK n \in Nat : oneMore(guesses[k]) = guesses[k] \cup {<<now, n>>} /\ <<now, n>> \notin guesses[k]
      BY <1>2, <2>3, OneMoreIsNew
    <2>5. throttle'[k] = nextAuthThrottleState(throttle[k], Policy[k[1]], now) /\ guesses'[k] = guesses[k] \cup {<<now, n>>}
      BY <1>6, <2>4 DEF countFailures, recordAuthThrottleHits
    <2>. QED BY <1>2, <1>3, <1>4, <2>2, <2>4, <2>5, KeysHavePolicies, HitCounts
  <1>7. CASE k \notin keys
    <2>1. throttle'[k] = throttle[k] /\ guesses'[k] = guesses[k]
      BY <1>7 DEF countFailures, recordAuthThrottleHits
    <2>2. Cardinality(Pending(k)') \in Nat /\ Cardinality(Pending(k)') <= Cardinality(Pending(k))
      BY <1>4, <1>5, SubsetCounts
    <2>. QED BY <1>2, <1>3, <1>4, <2>1, <2>2, KeysHavePolicies, PendingChange
  <1>. QED BY <1>6, <1>7

\* Counters are cleared.
LEMMA ForgetKeeps ==
  ASSUME Types, GuessesInv, UNCHANGED now, NEW r \in Requests, Becomes(r, Idle), NEW keys, forget(keys)
  PROVE  GuessesInv'
  <1>1. \A q \in Requests : request'[q] = IF q = r THEN Idle ELSE request[q]
    BY DEF Types
  <1>2. now \in Nat /\ Hits(Idle) = {}
    BY HarmlessHitsNothing DEF Types, RowsTyped, Harmless
  <1>. SUFFICES ASSUME NEW k \in Keys, Held(k)
                PROVE  Counted(throttle'[k], guesses'[k], Cardinality(Pending(k)'), now, Policy[k[1]])
    BY DEF GuessesInv, Held
  <1>3. Counted(throttle[k], guesses[k], Cardinality(Pending(k)), now, Policy[k[1]])
    BY DEF GuessesInv
  <1>4. Cardinality(Pending(k)) \in Nat /\ Cardinality(Pending(k)') \in Nat /\ Cardinality(Pending(k)') <= Cardinality(Pending(k))
    BY <1>1, <1>2, PendingIsFinite, SubsetCounts DEF Pending
  <1>5. CASE k \in keys
    BY <1>2, <1>5, KeysHavePolicies, ForgottenIsCounted DEF forget, clearAuthThrottle
  <1>6. CASE k \notin keys
    <2>1. throttle'[k] = throttle[k] /\ guesses'[k] = guesses[k]
      BY <1>6 DEF forget, clearAuthThrottle
    <2>. QED BY <1>2, <1>3, <1>4, <2>1, KeysHavePolicies, PendingChange
  <1>. QED BY <1>5, <1>6

LEMMA TickKeeps == ASSUME Types, GuessesInv, Tick PROVE GuessesInv'
  <1>. SUFFICES ASSUME NEW k \in Keys, Held(k)
                PROVE  Counted(throttle'[k], guesses'[k], Cardinality(Pending(k)'), now', Policy[k[1]])
    BY DEF GuessesInv, Held
  <1>1. Counted(throttle[k], guesses[k], Cardinality(Pending(k)), now, Policy[k[1]])
    BY DEF GuessesInv
  <1>2. Cardinality(Pending(k)) \in Nat /\ now \in Nat
    BY PendingIsFinite DEF Types, RowsTyped
  <1>3. /\ throttle'[k] = throttle[k] /\ Pending(k)' = Pending(k) /\ now' = now + 1
        /\ guesses'[k] = {g \in guesses[k] : g[1] > now' - Policy[k[1]].window}
    BY DEF Tick, Pending
  <1>. QED BY <1>1, <1>2, <1>3, KeysHavePolicies, TickCounts

LEMMA CleanUpKeeps == ASSUME Types, GuessesInv, CleanUp PROVE GuessesInv'
  <1>. SUFFICES ASSUME NEW k \in Keys, Held(k)
                PROVE  Counted(throttle'[k], guesses'[k], Cardinality(Pending(k)'), now', Policy[k[1]])
    BY DEF GuessesInv, Held
  <1>1. Counted(throttle[k], guesses[k], Cardinality(Pending(k)), now, Policy[k[1]])
    BY DEF GuessesInv
  <1>2. now \in Nat
    BY DEF Types, RowsTyped
  <1>3. guesses'[k] = guesses[k] /\ Pending(k)' = Pending(k) /\ now' = now
    BY DEF CleanUp, Pending
  <1>4. CASE expired(throttle[k], now)
    <2>1. throttle'[k] = NoCounter
      BY <1>4 DEF CleanUp, deleteExpiredAuthThrottle, clearAuthThrottle
    <2>. QED BY <1>1, <1>2, <1>3, <1>4, <2>1, KeysHavePolicies, CleanUpCounts
  <1>5. CASE ~expired(throttle[k], now)
    <2>1. throttle'[k] = throttle[k]
      BY <1>5 DEF CleanUp, deleteExpiredAuthThrottle, clearAuthThrottle
    <2>. QED BY <1>1, <1>3, <2>1
  <1>. QED BY <1>4, <1>5

LEMMA SignInKeepsGuesses == ASSUME Types, GuessesInv, NEW r \in Requests, SignIn(r), UNCHANGED now PROVE GuessesInv'
  <1>1. CASE \E l \in Logins, a \in Addresses : StartLogin(r, l, a)
    <2>1. PICK l \in Logins, a \in Addresses : StartLogin(r, l, a)
      BY <1>1
    <2>. DEFINE state == [at |-> "verifying", login |-> l, address |-> a, active |-> l \in Users /\ ActiveUser(l)]
    <2>2. /\ UNCHANGED <<throttle, guesses>> /\ Becomes(r, state)
          /\ ~findAuthLock(throttle, localLoginKeys(l, a), now)
      BY <2>1 DEF StartLogin
    <2>3. \A k \in Hits(state) : k \in localLoginFailureHits(l, a)
      BY DEF Hits
    <2>4. loginKey(l)[1] = "login"
      BY DEF loginKey
    <2>5. \A k \in Hits(state) : Held(k) => k \in localLoginKeys(l, a)
      BY <2>3, <2>4 DEF Held, localLoginFailureHits, localLoginKeys
    <2>. HIDE DEF state
    <2>. QED BY <2>2, <2>5, IsAdmitted
  <1>2. CASE \E a \in Addresses : InvalidLogin(r, a)
    <2>1. PICK a \in Addresses : InvalidLogin(r, a)
      BY <1>2
    <2>. DEFINE state == [at |-> "failing", hits |-> addressFailureHit(a)]
    <2>2. /\ UNCHANGED <<throttle, guesses>> /\ Becomes(r, state)
          /\ ~findAuthLock(throttle, addressKeys(a), now)
      BY <2>1 DEF InvalidLogin
    <2>3. \A k \in Hits(state) : k \in addressKeys(a)
      BY DEF Hits, addressFailureHit, addressKeys
    <2>. HIDE DEF state
    <2>. QED BY <2>2, <2>3, IsAdmitted
  <1>3. CASE \E a \in Addresses : AdmitSsoStart(r, a)
    <2>1. PICK a \in Addresses : AdmitSsoStart(r, a)
      BY <1>3
    <2>. DEFINE state == [at |-> "starting", address |-> a]
    <2>2. /\ UNCHANGED <<throttle, guesses>> /\ Becomes(r, state)
          /\ ~findAuthLock(throttle, ssoStartKeys(a), now)
      BY <2>1 DEF AdmitSsoStart
    <2>3. \A k \in Hits(state) : k \in ssoStartKeys(a)
      BY DEF Hits, ssoStartHit, ssoStartKeys
    <2>. HIDE DEF state
    <2>. QED BY <2>2, <2>3, IsAdmitted
  <1>4. CASE \E a \in Addresses : AdmitCallback(r, a)
    <2>1. PICK a \in Addresses : AdmitCallback(r, a)
      BY <1>4
    <2>. DEFINE state == [at |-> "called", address |-> a]
    <2>2. /\ UNCHANGED <<throttle, guesses>> /\ Becomes(r, state)
          /\ ~findAuthLock(throttle, addressKeys(a), now)
      BY <2>1 DEF AdmitCallback
    <2>3. \A k \in Hits(state) : k \in addressKeys(a)
      BY DEF Hits, addressFailureHit, addressKeys
    <2>. HIDE DEF state
    <2>. QED BY <2>2, <2>3, IsAdmitted
  <1>5. CASE RefuseLogin(r)
    <2>. DEFINE keys == localLoginFailureHits(request[r].login, request[r].address)
    <2>1. countFailures(keys) /\ Becomes(r, Idle) /\ \A k \in Keys : k \in keys => k \in Hits(request[r])
      BY <1>5 DEF RefuseLogin, Hits
    <2>2. Hits(Idle) = {}
      BY HarmlessHitsNothing DEF Harmless
    <2>. HIDE DEF keys
    <2>. QED BY <2>1, <2>2, FailureKeeps
  <1>6. CASE CountFailure(r)
    <2>. DEFINE keys == request[r].hits
    <2>1. countFailures(keys) /\ Becomes(r, Idle) /\ \A k \in Keys : k \in keys => k \in Hits(request[r])
      BY <1>6 DEF CountFailure, Hits
    <2>2. Hits(Idle) = {}
      BY HarmlessHitsNothing DEF Harmless
    <2>. HIDE DEF keys
    <2>. QED BY <2>1, <2>2, FailureKeeps
  <1>7. CASE CountSsoStart(r)
    <2>. DEFINE keys == ssoStartHit(request[r].address)
                state == [at |-> "authorizing"]
    <2>1. countFailures(keys) /\ Becomes(r, state) /\ \A k \in Keys : k \in keys => k \in Hits(request[r])
      BY <1>7 DEF CountSsoStart, Hits
    <2>2. Hits(state) = {}
      BY HarmlessHitsNothing DEF Harmless
    <2>. HIDE DEF keys, state
    <2>. QED BY <2>1, <2>2, FailureKeeps
  <1>8. CASE InsertSession(r) \/ CommitSession(r) \/ CreateTransaction(r) \/ \E i \in Identities : CompleteExternalLogin(r, i)
    <2>1. CASE InsertSession(r) \/ CommitSession(r)
      BY <2>1, HarmlessHitsNothing, MovesOn DEF InsertSession, CommitSession, Harmless
    <2>2. CASE CreateTransaction(r) \/ \E i \in Identities : CompleteExternalLogin(r, i)
      BY <2>2, HarmlessHitsNothing, MovesOn DEF CreateTransaction, CompleteExternalLogin, Harmless
    <2>. QED BY <1>8, <2>1, <2>2
  <1>9. CASE Forgive(r)
    BY <1>9, ForgetKeeps DEF Forgive
  <1>10. CASE FailExchange(r) \/ \E h \in Handles : ConsumeTransaction(r, h)
    <2>. DEFINE failing == [at |-> "failing", hits |-> addressFailureHit(request[r].address)]
                exchanging == [at |-> "exchanging", address |-> request[r].address]
    <2>1. /\ UNCHANGED <<throttle, guesses>> /\ request[r].at \in {"called", "exchanging"}
          /\ Becomes(r, failing) \/ Becomes(r, exchanging)
      BY <1>10 DEF FailExchange, ConsumeTransaction
    <2>2. Hits(failing) \subseteq Hits(request[r]) /\ Hits(exchanging) \subseteq Hits(request[r])
      BY <2>1 DEF Hits
    <2>. HIDE DEF failing, exchanging
    <2>. QED BY <2>1, <2>2, MovesOn
  <1>. QED BY <1>1, <1>2, <1>3, <1>4, <1>5, <1>6, <1>7, <1>8, <1>9, <1>10 DEF SignIn

LEMMA AdministrationKeepsGuesses == ASSUME Types, GuessesInv, NEW r \in Requests, Administer(r), UNCHANGED now PROVE GuessesInv'
  <1>1. CASE ClearAuthLocks(r)
    BY <1>1, ForgetKeeps DEF ClearAuthLocks
  <1>2. CASE ~ClearAuthLocks(r)
    <2>1. UNCHANGED <<throttle, guesses>>
      BY <1>2 DEF Administer, AuthenticateAdmin, Authenticate, LockUser, UpdateManagedUser, RevokeUserSessions,
        RevokeSession, CreateUser, ResetLocalPassword, BindExternalIdentity, LockIdentities, UnbindExternalIdentity
    <2>2. \E state : Becomes(r, state) /\ state.at \in Harmless
      BY AdministerBecomes DEF Harmless
    <2>. QED BY <2>1, <2>2, HarmlessHitsNothing, MovesOn
  <1>. QED BY <1>1, <1>2

LEMMA GuessesKept == ASSUME Types, GuessesInv, [Next]_vars PROVE GuessesInv'
  <1>a. now \in Nat
    BY DEF Types, RowsTyped
  <1>b. ASSUME UNCHANGED <<now, throttle, guesses>>, NEW r \in Requests, NEW state, Becomes(r, state), state.at \in Harmless
        PROVE  GuessesInv'
    BY <1>b, HarmlessHitsNothing, MovesOn
  <1>1. CASE UNCHANGED <<now, accountVars>>
    <2>1. \A k \in Keys : Pending(k)' = Pending(k)
      BY <1>1 DEF accountVars, Pending
    <2>. QED BY <1>a, <1>1, <2>1, NoHitKeeps DEF accountVars
  <1>2. CASE AccountsNext
    BY <1>2, AccountSteps, CleanUpKeeps, SignInKeepsGuesses, AdministrationKeepsGuesses DEF AccountsNext
  <1>3. CASE Tick
    BY <1>3, TickKeeps
  <1>4. CASE \E r \in Requests : Cut(r) \/ FindOwned(r)
    <2>1. PICK r \in Requests : Cut(r) \/ FindOwned(r)
      BY <1>4
    <2>2. CASE Cut(r)
      BY <2>2, <1>b DEF Cut, Harmless
    <2>3. CASE FindOwned(r)
      <3>. DEFINE state == [request[r] EXCEPT !.at = "opened"]
      <3>1. UNCHANGED <<now, throttle, guesses>> /\ (Becomes(r, Idle) \/ Becomes(r, state))
        BY <2>3 DEF FindOwned
      <3>2. state.at = "opened"
        BY <2>3 DEF FindOwned, Types, StateTyped, Opening
      <3>. HIDE DEF state
      <3>. QED BY <3>1, <3>2, <1>b DEF Harmless
    <2>. QED BY <2>1, <2>2, <2>3
  <1>5. CASE \E r \in Requests, s \in Sessions, w \in Workspaces : AskToOpen(r, s, w)
    BY <1>5, <1>b DEF AskToOpen, Harmless
  <1>6. CASE \E r \in Requests, c \in Codes : IssueCode(r, c)
    BY <1>6, <1>b DEF IssueCode, Harmless
  <1>7. CASE Restart
    <2>1. \A k \in Keys : Pending(k)' \subseteq Pending(k)
      BY <1>7, HarmlessHitsNothing DEF Restart, AccountsRestart, Pending, Harmless
    <2>. QED BY <1>a, <1>7, <2>1, NoHitKeeps DEF Restart, AccountsRestart
  <1>. QED BY <1>1, <1>2, <1>3, <1>4, <1>5, <1>6, <1>7, OtherSteps

\* What the thresholds promise: whatever windows end, locks expire and cleanups run in
\* between, and however many requests race for the last guess, within one window's length
\* a counter lets pass two windows' worth of failures, less the two that would have
\* locked, and those that were under way at the locks (nextAuthThrottleState,
\* recordAuthThrottleHits, deleteExpiredAuthThrottle).
THEOREM GuessesAlwaysBounded == Spec => []GuessesAreBounded
  <1>1. Init => GuessesInv
    <2>. SUFFICES ASSUME Init, NEW k \in Keys
                  PROVE  Counted(throttle[k], guesses[k], Cardinality(Pending(k)), now, Policy[k[1]])
      BY DEF GuessesInv
    <2>1. throttle[k] = NoCounter /\ guesses[k] = {} /\ now = 0
      BY DEF Init, AccountsInit, NoCounters
    <2>. QED BY <2>1, KeysHavePolicies, ForgottenIsCounted
  <1>2. Types /\ Usable /\ GuessesInv /\ [Next]_vars => Types' /\ Usable' /\ GuessesInv'
    BY TypesKept, UsableKept, GuessesKept DEF Usable
  <1>3. GuessesInv => GuessesAreBounded
    BY KeysHavePolicies, CountedIsBounded DEF GuessesInv, GuessesAreBounded, Held, AtOnce
  <1>. QED BY <1>1, <1>2, <1>3, InitUsable, PTL DEF Spec


-----------------------------------------------------------------------------
(* Idle stops spare use.  What a sample says is held against the sample      *)
(* after it and against the container now (Follows), so the buckets of        *)
(* ComputeActivityTracker miss no work but that of a counter that started     *)
(* over (Metered); what the tracker forgot was before the process started     *)
(* (Remembered); and a sweep holds to what it decided (Decided).             *)

Point == [at : Nat, nanos : Nat, worked : Times]
Meter == [at : Nat, start : Point, last : Point, active : Nat]
MetersTyped ==
  /\ work \in [Workspaces -> [nanos : Nat, last : Times]]
  /\ usage \in [Workspaces -> Point \cup {NotSampled}]
  /\ cpu \in [Workspaces -> Meter \cup {NotSampled}]

\* A time within the first SampleGap after the last start or stop, or before.
Young(w, t) == t <= row[w].activity + SampleGap

\* What is sampled later counts what there was since, but for a counter that started over.
Follows(w, p, q) ==
  p.at <= row[w].activity \/ (p.nanos <= q.nanos /\ (p.nanos = q.nanos => p.worked = q.worked))
Told(w, p) == p.worked <= p.at /\ p.at <= now /\ Follows(w, p, point(w))

Sampled(w) == usage[w] # NotSampled => Told(w, usage[w])
Metered(w) ==
  LET s == cpu[w]
  IN  s # NotSampled =>
        /\ Told(w, s.last)
        /\ usage[w] # NotSampled /\ usage[w].at > s.last.at => Follows(w, s.last, usage[w])
        /\ s.start.at <= s.last.at /\ s.last.at < s.start.at + Bucket
        /\ s.start.nanos <= s.last.nanos
        /\ s.start.worked <= s.active \/ Young(w, s.start.worked)
        /\ s.start.nanos = s.last.nanos => s.start.worked = s.last.worked \/ Young(w, s.last.worked)

ActivityIsPast == row \in [Workspaces -> WorkspaceRow] /\ \A w \in Workspaces : row[w].activity <= now
WorkIsPast == \A w \in Workspaces : work[w].last <= now
MeterInv ==
  /\ MetersTyped /\ ActivityIsPast /\ WorkIsPast
  /\ \A w \in Workspaces : Sampled(w) /\ Metered(w)

\* What is known of use, or was known to a process before.
Remembered ==
  /\ started \in Nat /\ started <= now
  /\ used \in [Workspaces -> Times]
  /\ \A w \in Workspaces :
       /\ used[w] <= now
       /\ used[w] = tracker[w].latest \/ (tracker[w].latest = Null /\ used[w] <= started)

Decided(s) ==
  sweep[s] # NoSweep =>
    /\ sweep[s].at \in {"checking", "begin", "stopping"}
    /\ sweep[s].since \in Nat /\ sweep[s].since - started >= IdleAfter
    /\ sweep[s].candidates \subseteq Workspaces
    /\ sweep[s].at \in {"begin", "stopping"} => sweep[s].workspace \in Workspaces
    /\ sweep[s].at = "begin" =>
         /\ sweep[s].seen <= cutoff(s) /\ sweep[s].worked \in Times
         /\ sweep[s].worked <= cutoff(s) \/ Young(sweep[s].workspace, sweep[s].worked)
SweepInv == sweep = [s \in Sweeps |-> sweep[s]] /\ \A s \in Sweeps : Decided(s)

IdleInv == MeterInv /\ Remembered /\ SweepInv

LEMMA IdleParameters ==
  /\ IdleAfter \in Nat /\ SampleGap \in Nat /\ Bucket \in Nat \ {0} /\ UnitTicks \in Nat
  /\ SampleGap < IdleAfter /\ UnitTicks >= Bucket + SampleGap - 1
  BY AccessAssumption

\* Rows are written with the time, or without changing the last activity.
ActivityMoves ==
  /\ now' \in {now, now + 1} /\ row' \in [Workspaces -> WorkspaceRow]
  /\ \A w \in Workspaces : row'[w].activity \in {row[w].activity, now}

LEMMA ActivityGrows ==
  ASSUME now \in Nat, ActivityIsPast, ActivityMoves
  PROVE  /\ ActivityIsPast' /\ now' \in Nat /\ now <= now'
         /\ \A w \in Workspaces : row[w].activity \in Nat /\ row'[w].activity \in Nat /\ row[w].activity <= row'[w].activity
  <1>1. ASSUME NEW w \in Workspaces
        PROVE  row[w].activity \in Nat /\ row'[w].activity \in Nat /\ row[w].activity <= row'[w].activity /\ row'[w].activity <= now'
    BY DEF ActivityIsPast, ActivityMoves, WorkspaceRow
  <1>. QED BY <1>1 DEF ActivityIsPast, ActivityMoves

\* The passing of time only makes it easier for samples to follow and to be young.
LEMMA FollowsStays ==
  ASSUME now \in Nat, ActivityIsPast, ActivityMoves, NEW w \in Workspaces
  PROVE  /\ \A p \in Point : \A q : Follows(w, p, q) => Follows(w, p, q)'
         /\ \A t \in Times : Young(w, t) => Young(w, t)'
  <1>1. row[w].activity \in Nat /\ row'[w].activity \in Nat /\ row[w].activity <= row'[w].activity
    BY ActivityGrows
  <1>2. ASSUME NEW p \in Point, NEW q, Follows(w, p, q)
        PROVE  p.at <= row'[w].activity \/ (p.nanos <= q.nanos /\ (p.nanos = q.nanos => p.worked = q.worked))
    BY <1>1, <1>2 DEF Follows, Point
  <1>3. ASSUME NEW t \in Times, Young(w, t) PROVE t <= row'[w].activity + SampleGap
    BY <1>1, <1>3, IdleParameters DEF Young, Times, Null
  <1>. QED BY <1>2, <1>3 DEF Follows, Young

\* What the steps are to the meters.
Forgets == cpu' = [w \in Workspaces |-> NotSampled] /\ UNCHANGED <<work, usage>>
Starts(w) == row'[w].activity = now /\ work' = [work EXCEPT ![w].nanos = 0] /\ UNCHANGED <<usage, cpu>>

LEMMA TimePasses ==
  ASSUME now \in Nat, MeterInv, ActivityMoves, NEW w \in Workspaces,
         UNCHANGED <<usage, cpu>>, work'[w] = work[w]
  PROVE  Sampled(w)' /\ Metered(w)'
  <1>1. now' \in Nat /\ now <= now'
    BY ActivityGrows DEF MeterInv
  <1>a. usage[w] \in Point \cup {NotSampled} /\ cpu[w] \in Meter \cup {NotSampled}
    BY DEF MeterInv, MetersTyped
  <1>2. ASSUME NEW p \in Point, Told(w, p) PROVE Told(w, p)'
    <2>1. PICK q : q = point(w)'
      OBVIOUS
    <2>2. Follows(w, p, point(w))'
      <3>1. q.nanos = work[w].nanos /\ q.worked = work[w].last
        BY <2>1 DEF point
      <3>2. Follows(w, p, q)
        BY <1>2, <3>1 DEF Told, Follows, point
      <3>3. Follows(w, p, q)'
        BY <3>2, FollowsStays DEF MeterInv
      <3>. QED BY <2>1, <3>3 DEF Follows
    <2>3. p.at \in Nat /\ p.at <= now'
      BY <1>1, <1>2 DEF Told, Point
    <2>. QED BY <1>2, <2>2, <2>3 DEF Told
  <1>3. Sampled(w)'
    BY <1>a, <1>2 DEF MeterInv, Sampled
  <1>4. CASE cpu[w] = NotSampled
    BY <1>3, <1>4 DEF Metered
  <1>5. CASE cpu[w] # NotSampled
    <2>. DEFINE s == cpu[w]
    <2>1. s.last \in Point /\ s.start.worked \in Times /\ s.last.worked \in Times
      BY <1>a, <1>5 DEF Meter, Point
    <2>2. Told(w, s.last)'
      BY <1>2, <1>5, <2>1 DEF MeterInv, Metered
    <2>3. usage[w] # NotSampled /\ usage[w].at > s.last.at => Follows(w, s.last, usage[w])'
      <3>1. PICK p, q : p = s.last /\ q = usage[w]
        OBVIOUS
      <3>2. Follows(w, p, q) => Follows(w, p, q)'
        BY <2>1, <3>1, FollowsStays DEF MeterInv
      <3>. QED BY <1>5, <3>1, <3>2 DEF MeterInv, Metered, Follows
    <2>4. \A t \in Times : Young(w, t) => Young(w, t)'
      BY FollowsStays DEF MeterInv
    <2>. QED BY <1>3, <1>5, <2>1, <2>2, <2>3, <2>4 DEF MeterInv, Metered
  <1>. QED BY <1>4, <1>5, <1>3

LEMMA ComputeKeepsMeters ==
  ASSUME now \in Nat, MeterInv, NEW v \in Workspaces, Compute(v)
  PROVE  MeterInv'
  <1>1. /\ work' = [work EXCEPT ![v] = [nanos |-> @.nanos + 1, last |-> now]]
        /\ UNCHANGED <<now, row, usage, cpu>>
    BY DEF Compute
  <1>2. ActivityMoves
    BY <1>1 DEF ActivityMoves, MeterInv, ActivityIsPast
  <1>3. MetersTyped' /\ WorkIsPast'
    BY <1>1 DEF MeterInv, MetersTyped, WorkIsPast, Times
  <1>4. ASSUME NEW w \in Workspaces, w # v PROVE Sampled(w)' /\ Metered(w)'
    BY <1>1, <1>2, <1>4, TimePasses DEF MeterInv, MetersTyped
  <1>5. ASSUME NEW p \in Point, Told(v, p) PROVE Told(v, p)'
    BY <1>1, <1>5 DEF Told, Follows, point, MeterInv, MetersTyped, Point
  <1>6. usage[v] \in Point \cup {NotSampled} /\ cpu[v] \in Meter \cup {NotSampled}
    BY DEF MeterInv, MetersTyped
  <1>7. Sampled(v)'
    BY <1>1, <1>5, <1>6 DEF MeterInv, Sampled
  <1>8. Metered(v)'
    <2>1. cpu[v] # NotSampled => Told(v, cpu[v].last)'
      <3>1. SUFFICES ASSUME cpu[v] # NotSampled PROVE Told(v, cpu[v].last)'
        OBVIOUS
      <3>2. PICK p \in Point : p = cpu[v].last /\ Told(v, p)
        BY <1>6, <3>1 DEF MeterInv, Metered, Meter
      <3>. QED BY <1>1, <1>5, <3>2 DEF Told
    <2>. QED BY <1>1, <2>1 DEF MeterInv, Metered, Follows, Young
  <1>. QED BY <1>2, <1>3, <1>4, <1>7, <1>8, ActivityGrows DEF MeterInv

LEMMA StartKeepsMeters ==
  ASSUME now \in Nat, MeterInv, ActivityMoves, NEW v \in Workspaces, Starts(v), UNCHANGED now
  PROVE  MeterInv'
  <1>1. row'[v].activity = now /\ work' = [work EXCEPT ![v].nanos = 0] /\ UNCHANGED <<now, usage, cpu>>
    BY DEF Starts
  <1>2. MetersTyped' /\ WorkIsPast'
    BY <1>1 DEF MeterInv, MetersTyped, WorkIsPast
  <1>3. ASSUME NEW w \in Workspaces, w # v PROVE Sampled(w)' /\ Metered(w)'
    BY <1>1, <1>3, TimePasses DEF MeterInv, MetersTyped
  <1>4. ASSUME NEW p \in Point, Told(v, p) PROVE Told(v, p)'
    BY <1>1, <1>4 DEF Told, Follows
  <1>5. usage[v] \in Point \cup {NotSampled} /\ cpu[v] \in Meter \cup {NotSampled}
    BY DEF MeterInv, MetersTyped
  <1>6. Sampled(v)'
    BY <1>1, <1>4, <1>5 DEF MeterInv, Sampled
  <1>7. Metered(v)'
    <2>1. CASE cpu[v] = NotSampled
      BY <1>1, <2>1 DEF Metered
    <2>2. CASE cpu[v] # NotSampled
      <3>1. cpu[v].last \in Point /\ cpu[v].start.worked \in Times /\ cpu[v].last.worked \in Times
        BY <1>5, <2>2 DEF Meter, Point
      <3>2. Told(v, cpu[v].last)'
        <4>1. PICK p \in Point : p = cpu[v].last /\ Told(v, p)
          BY <2>2, <3>1 DEF MeterInv, Metered
        <4>. QED BY <1>1, <1>4, <4>1 DEF Told
      <3>3. cpu[v].last.at <= row'[v].activity
        BY <1>1, <2>2 DEF MeterInv, Metered, Told
      <3>4. \A t \in Times : Young(v, t) => Young(v, t)'
        BY FollowsStays DEF MeterInv
      <3>. QED BY <1>1, <2>2, <3>1, <3>2, <3>3, <3>4 DEF MeterInv, Metered, Follows
    <2>. QED BY <2>1, <2>2
  <1>. QED BY <1>2, <1>3, <1>6, <1>7, ActivityGrows DEF MeterInv

LEMMA ForgettingKeepsMeters ==
  ASSUME now \in Nat, MeterInv, Forgets, UNCHANGED <<now, row>> \/ ActivityMoves
  PROVE  MeterInv'
  <1>1. ActivityMoves
    BY DEF ActivityMoves, MeterInv, ActivityIsPast
  <1>2. cpu' = [w \in Workspaces |-> NotSampled] /\ UNCHANGED <<work, usage>>
    BY DEF Forgets
  <1>3. now' \in Nat /\ now <= now' /\ ActivityIsPast'
    BY <1>1, ActivityGrows DEF MeterInv
  <1>4. MetersTyped' /\ WorkIsPast'
    <2>1. \A w \in Workspaces : work[w].last \in Int
      BY DEF MeterInv, MetersTyped, Times, Null
    <2>. QED BY <1>2, <1>3, <2>1 DEF MeterInv, MetersTyped, WorkIsPast
  <1>5. ASSUME NEW w \in Workspaces PROVE Sampled(w)' /\ Metered(w)'
    <2>1. Metered(w)'
      BY <1>2 DEF Metered
    <2>2. Sampled(w)'
      <3>1. CASE usage[w] = NotSampled
        BY <1>2, <3>1 DEF Sampled
      <3>2. CASE usage[w] # NotSampled
        <4>1. PICK p \in Point : p = usage[w]
          BY <3>2 DEF MeterInv, MetersTyped
        <4>2. Follows(w, p, point(w)) /\ p.worked <= p.at /\ p.at <= now
          BY <3>2, <4>1 DEF MeterInv, Sampled, Told
        <4>3. PICK q : q = point(w)'
          OBVIOUS
        <4>4. Follows(w, p, q)
          BY <1>2, <4>2, <4>3 DEF Follows, point
        <4>5. Follows(w, p, q)'
          BY <1>1, <4>4, FollowsStays DEF MeterInv
        <4>6. p.at \in Nat
          BY DEF Point
        <4>. QED BY <1>2, <1>3, <4>1, <4>2, <4>3, <4>5, <4>6 DEF Sampled, Told, Follows
      <3>. QED BY <3>1, <3>2
    <2>. QED BY <2>1, <2>2
  <1>. QED BY <1>3, <1>4, <1>5 DEF MeterInv

LEMMA SampleKeepsMeters ==
  ASSUME now \in Nat, MeterInv, SampleUsage
  PROVE  MeterInv'
  <1>1. PICK read \in SUBSET Workspaces : usage' = [w \in Workspaces |-> IF w \in read THEN point(w) ELSE NotSampled]
    BY DEF SampleUsage, samples, runningWorkspaceContainers
  <1>2. UNCHANGED <<now, row, work, cpu>>
    BY DEF SampleUsage
  <1>3. ASSUME NEW w \in Workspaces PROVE point(w) \in Point /\ point(w).worked <= now /\ point(w).at = now
    BY DEF MeterInv, MetersTyped, WorkIsPast, point, Point
  <1>4. ActivityIsPast' /\ WorkIsPast'
    BY <1>2 DEF MeterInv, ActivityIsPast, WorkIsPast
  <1>5. MetersTyped'
    BY <1>1, <1>2, <1>3 DEF MeterInv, MetersTyped
  <1>6. ASSUME NEW w \in Workspaces PROVE Sampled(w)' /\ Metered(w)'
    <2>1. UNCHANGED point(w) /\ usage'[w] \in {point(w), NotSampled}
      BY <1>1, <1>2 DEF point
    <2>2. Follows(w, point(w), point(w))
      BY <1>3 DEF Follows, Point
    <2>3. Sampled(w)'
      BY <1>2, <1>3, <2>1, <2>2 DEF Sampled, Told, Follows
    <2>4. Metered(w)'
      <3>1. cpu[w] # NotSampled => Follows(w, cpu[w].last, point(w)) /\ Told(w, cpu[w].last)
        BY DEF MeterInv, Metered, Told
      <3>2. cpu[w] # NotSampled => Told(w, cpu[w].last)'
        BY <1>2, <2>1, <3>1 DEF Told, Follows
      <3>3. cpu[w] # NotSampled /\ usage'[w] # NotSampled => Follows(w, cpu[w].last, usage[w])'
        BY <1>2, <2>1, <3>1 DEF Follows
      <3>. QED BY <1>2, <3>2, <3>3 DEF MeterInv, Metered, Young
    <2>. QED BY <2>3, <2>4
  <1>. QED BY <1>4, <1>5, <1>6 DEF MeterInv

\* What of a bucket is below the threshold is no work at all: what counts as work is
\* above it in any bucket.
LEMMA NotBusyIsNoWork ==
  ASSUME NEW p \in Point, NEW q \in Point, ~busy(p, q), q.at - p.at <= UnitTicks, p.nanos <= q.nanos
  PROVE  p.nanos = q.nanos
  <1>1. UnitTicks \in Nat /\ p.nanos \in Nat /\ q.nanos \in Nat /\ p.at \in Nat /\ q.at \in Nat
    BY IdleParameters DEF Point
  <1>2. (q.nanos - p.nanos) * UnitTicks < q.at - p.at
    BY <1>1 DEF busy
  <1>3. ASSUME q.nanos - p.nanos >= 1 PROVE (q.nanos - p.nanos) * UnitTicks >= UnitTicks
    BY <1>1, <1>3
  <1>4. q.nanos - p.nanos \in Nat /\ q.at - p.at \in Int /\ (q.nanos - p.nanos) * UnitTicks \in Int
    BY <1>1
  <1>5. ASSUME p.nanos # q.nanos PROVE FALSE
    <2>1. PICK x \in Int : x = (q.nanos - p.nanos) * UnitTicks
      BY <1>4
    <2>2. x < q.at - p.at
      BY <1>2, <2>1
    <2>3. q.nanos - p.nanos >= 1
      BY <1>1, <1>5
    <2>4. x >= UnitTicks
      BY <1>3, <2>1, <2>3
    <2>. QED BY <1>1, <1>4, <2>2, <2>4
  <1>. QED BY <1>5

LEMMA WhatRecordDoes ==
  ASSUME NEW s, NEW p, s # NotSampled, s.last.at \in Nat, p.at \in Nat
  PROVE  /\ p.at <= s.last.at => record(s, p) = s
         /\ p.at > s.last.at =>
              record(s, p) =
                IF p.at - s.last.at > SampleGap \/ p.nanos < s.last.nanos THEN afresh(p)
                ELSE IF p.at - s.start.at >= Bucket
                  THEN [s EXCEPT !.start = p, !.last = p, !.active = IF busy(s.start, p) THEN p.at ELSE @]
                ELSE [s EXCEPT !.last = p]
  <1>1. ASSUME p.at <= s.last.at PROVE record(s, p) = s
    <2>1. ~(p.at > s.last.at)
      BY <1>1
    <2>. QED BY <1>1, <2>1, Zenon DEF record
  <1>2. ASSUME p.at > s.last.at
        PROVE  record(s, p) =
                 IF p.at - s.last.at > SampleGap \/ p.nanos < s.last.nanos THEN afresh(p)
                 ELSE IF p.at - s.start.at >= Bucket
                   THEN [s EXCEPT !.start = p, !.last = p, !.active = IF busy(s.start, p) THEN p.at ELSE @]
                 ELSE [s EXCEPT !.last = p]
    <2>1. ~(p.at <= s.last.at)
      BY <1>2
    <2>. QED BY <1>2, <2>1, Zenon DEF record
  <1>. QED BY <1>1, <1>2

\* The bucket of a Workspace after a new sample.
LEMMA RecordKeepsMeters ==
  ASSUME now \in Nat, MeterInv, NEW w \in Workspaces, cpu[w] # NotSampled, usage[w] # NotSampled,
         NEW s, s = record(cpu[w], usage[w])
  PROVE  /\ s \in Meter /\ Told(w, s.last)
         /\ usage[w].at > s.last.at => Follows(w, s.last, usage[w])
         /\ s.start.at <= s.last.at /\ s.last.at < s.start.at + Bucket
         /\ s.start.nanos <= s.last.nanos
         /\ s.start.worked <= s.active \/ Young(w, s.start.worked)
         /\ s.start.nanos = s.last.nanos => s.start.worked = s.last.worked \/ Young(w, s.last.worked)
  <1>. DEFINE c == cpu[w]
              p == usage[w]
  <1>a. c \in Meter /\ p \in Point /\ c.start \in Point /\ c.last \in Point /\ c.active \in Nat
    BY DEF MeterInv, MetersTyped, Meter
  <1>b. /\ Told(w, p) /\ Told(w, c.last)
        /\ p.at > c.last.at => Follows(w, c.last, p)
        /\ c.start.at <= c.last.at /\ c.last.at < c.start.at + Bucket
        /\ c.start.nanos <= c.last.nanos
        /\ c.start.worked <= c.active \/ Young(w, c.start.worked)
        /\ c.start.nanos = c.last.nanos => c.start.worked = c.last.worked \/ Young(w, c.last.worked)
    BY DEF MeterInv, Sampled, Metered
  <1>c. /\ p.at \in Nat /\ p.nanos \in Nat /\ p.worked \in Times /\ p.worked <= p.at
        /\ c.last.at \in Nat /\ c.last.nanos \in Nat /\ c.start.at \in Nat /\ c.start.nanos \in Nat
        /\ row[w].activity \in Nat
    BY <1>a, <1>b DEF Told, Point, MeterInv, ActivityIsPast, WorkspaceRow
  <1>d. c # NotSampled
    OBVIOUS
  <1>. HIDE DEF c, p
  <1>e. s = record(c, p)
    BY DEF c, p
  <1>1. CASE p.at <= c.last.at
    <2>1. s = c
      BY <1>c, <1>d, <1>e, <1>1, WhatRecordDoes
    <2>. QED BY <1>a, <1>b, <1>c, <1>1, <2>1 DEF p
  <1>2. CASE s = afresh(p)
    BY <1>a, <1>b, <1>c, <1>2, IdleParameters DEF afresh, Meter, p
  <1>3. CASE p.at > c.last.at /\ ~(p.at - c.last.at > SampleGap \/ p.nanos < c.last.nanos)
    <2>1. p.at - c.last.at <= SampleGap /\ c.last.nanos <= p.nanos /\ Follows(w, c.last, p)
      BY <1>b, <1>c, <1>3, IdleParameters
    \* Without a difference there was no work, or the counter started over.
    <2>2. ASSUME c.start.nanos = p.nanos
          PROVE  p.worked = c.start.worked \/ Young(w, p.worked)
      <3>1. c.start.nanos = c.last.nanos /\ c.last.nanos = p.nanos
        BY <1>b, <1>c, <2>1, <2>2
      <3>2. CASE c.last.at <= row[w].activity
        <4>1. p.worked <= row[w].activity + SampleGap
          BY <1>c, <2>1, <3>2, IdleParameters DEF Times, Null
        <4>. QED BY <4>1 DEF Young
      <3>3. CASE c.last.worked = p.worked
        BY <1>b, <3>1, <3>3
      <3>. QED BY <2>1, <3>1, <3>2, <3>3 DEF Follows
    <2>3. p.at - c.start.at <= UnitTicks
      BY <1>b, <1>c, <2>1, IdleParameters
    <2>4. CASE p.at - c.start.at >= Bucket
      <3>1. s = [c EXCEPT !.start = p, !.last = p, !.active = IF busy(c.start, p) THEN p.at ELSE @]
        BY <1>c, <1>d, <1>e, <1>3, <2>4, WhatRecordDoes
      <3>2. /\ s \in Meter /\ s.start = p /\ s.last = p
            /\ busy(c.start, p) => s.active = p.at
            /\ ~busy(c.start, p) => s.active = c.active
        BY <1>a, <1>c, <3>1 DEF Meter
      <3>3. p.worked <= s.active \/ Young(w, p.worked)
        <4>1. CASE busy(c.start, p)
          BY <1>c, <3>2, <4>1
        <4>2. CASE ~busy(c.start, p)
          <5>1. c.start.nanos = p.nanos
            BY <1>a, <1>b, <1>c, <2>1, <2>3, <4>2, NotBusyIsNoWork
          <5>. QED BY <1>b, <2>2, <3>2, <4>2, <5>1
        <4>. QED BY <4>1, <4>2
      <3>. QED BY <1>b, <1>c, <3>2, <3>3, IdleParameters DEF p
    <2>5. CASE ~(p.at - c.start.at >= Bucket)
      <3>1. s = [c EXCEPT !.last = p]
        BY <1>c, <1>d, <1>e, <1>3, <2>5, WhatRecordDoes
      <3>2. s \in Meter /\ s.start = c.start /\ s.last = p /\ s.active = c.active
        BY <1>a, <3>1 DEF Meter
      <3>3. c.start.at <= p.at /\ p.at < c.start.at + Bucket /\ c.start.nanos <= p.nanos
        BY <1>b, <1>c, <1>3, <2>1, <2>5, IdleParameters
      <3>. QED BY <1>b, <1>c, <2>2, <3>2, <3>3 DEF p
    <2>. QED BY <2>4, <2>5
  <1>4. CASE p.at > c.last.at /\ (p.at - c.last.at > SampleGap \/ p.nanos < c.last.nanos)
    <2>1. s = afresh(p)
      BY <1>c, <1>d, <1>e, <1>4, WhatRecordDoes
    <2>. QED BY <1>2, <2>1
  <1>. QED BY <1>c, <1>1, <1>3, <1>4

LEMMA ReportKeepsMeters ==
  ASSUME now \in Nat, MeterInv, ReportUsage
  PROVE  MeterInv'
  <1>1. /\ cpu' = [w \in Workspaces |-> IF w \in activeAssigned THEN record(cpu[w], usage[w]) ELSE cpu[w]]
        /\ UNCHANGED <<now, row, work, usage>>
    BY DEF ReportUsage
  <1>2. ActivityIsPast' /\ WorkIsPast'
    BY <1>1 DEF MeterInv, ActivityIsPast, WorkIsPast
  <1>3. ASSUME NEW w \in Workspaces
        PROVE  cpu'[w] \in Meter \cup {NotSampled} /\ Sampled(w)' /\ Metered(w)'
    <2>1. Sampled(w)'
      BY <1>1 DEF MeterInv, Sampled, Told, Follows, point
    <2>2. CASE w \notin activeAssigned
      <3>1. cpu'[w] = cpu[w]
        BY <1>1, <2>2
      <3>. QED BY <1>1, <2>1, <3>1 DEF MeterInv, MetersTyped, Metered, Told, Follows, point, Young
    <2>3. CASE w \in activeAssigned
      <3>1. usage[w] # NotSampled
        BY <2>3 DEF activeAssigned
      <3>2. PICK s : s = cpu'[w]
        OBVIOUS
      <3>3. s = record(cpu[w], usage[w])
        BY <1>1, <2>3, <3>2
      <3>4. CASE cpu[w] # NotSampled
        <4>1. /\ s \in Meter /\ Told(w, s.last)
              /\ usage[w].at > s.last.at => Follows(w, s.last, usage[w])
              /\ s.start.at <= s.last.at /\ s.last.at < s.start.at + Bucket
              /\ s.start.nanos <= s.last.nanos
              /\ s.start.worked <= s.active \/ Young(w, s.start.worked)
              /\ s.start.nanos = s.last.nanos => s.start.worked = s.last.worked \/ Young(w, s.last.worked)
          BY <3>1, <3>3, <3>4, RecordKeepsMeters
        <4>. QED BY <1>1, <2>1, <3>2, <4>1 DEF Metered, Told, Follows, point, Young
      <3>5. CASE cpu[w] = NotSampled
        <4>1. usage[w] \in Point /\ Told(w, usage[w])
          BY <3>1 DEF MeterInv, MetersTyped, Sampled
        <4>2. s = afresh(usage[w])
          BY <3>3, <3>5 DEF record
        <4>3. s \in Meter /\ s.start = usage[w] /\ s.last = usage[w] /\ s.active = usage[w].at
          BY <4>1, <4>2 DEF afresh, Meter, Point
        <4>4. usage[w].at \in Nat /\ usage[w].nanos \in Nat /\ usage[w].worked <= usage[w].at
          BY <4>1 DEF Point, Told
        <4>5. ~(usage[w].at > usage[w].at) /\ usage[w].at < usage[w].at + Bucket
          BY <4>4, IdleParameters
        <4>. QED BY <1>1, <2>1, <3>2, <4>1, <4>3, <4>4, <4>5 DEF Metered, Told, Follows, point, Young
      <3>. QED BY <3>4, <3>5
    <2>. QED BY <2>2, <2>3
  <1>4. MetersTyped'
    BY <1>1, <1>3 DEF MeterInv, MetersTyped
  <1>. QED BY <1>2, <1>3, <1>4 DEF MeterInv

LEMMA NowMoves == ASSUME [Next]_vars PROVE now' \in {now, now + 1}
  <1>1. CASE \E r \in Requests : Cut(r) \/ FindOwned(r)
               \/ (\E s \in Sessions, w \in Workspaces : AskToOpen(r, s, w)) \/ (\E c \in Codes : IssueCode(r, c))
    BY <1>1 DEF Cut, FindOwned, AskToOpen, IssueCode
  <1>2. CASE Restart
    BY <1>2 DEF Restart, AccountsRestart
  <1>. QED BY <1>1, <1>2, Steps

\* What a step is to samples and activity.
LEMMA MeterSteps ==
  ASSUME now \in Nat, RecordsTyped, [Next]_vars
  PROVE  /\ ActivityMoves
         /\ \/ UNCHANGED usageVars \/ Forgets
            \/ \E w \in Workspaces : Compute(w) \/ (Starts(w) /\ UNCHANGED now)
            \/ SampleUsage \/ ReportUsage
  <1>. USE DEF RecordsTyped, accessVars, idleVars
  <1>a. now' \in {now, now + 1}
    BY NowMoves
  <1>b. UNCHANGED row => ActivityMoves
    BY <1>a DEF ActivityMoves
  <1>c. ASSUME NEW w, NEW state \in RowStates,
               row' = [row EXCEPT ![w].state = state, ![w].activity = now]
        PROVE  ActivityMoves
    <2>1. ASSUME NEW v \in Workspaces
          PROVE  row'[v] \in WorkspaceRow /\ row'[v].activity \in {row[v].activity, now}
      BY <1>c DEF WorkspaceRow
    <2>2. row' \in [Workspaces -> WorkspaceRow]
      BY <1>c, <2>1
    <2>. QED BY <1>a, <2>1, <2>2 DEF ActivityMoves
  <1>d. ASSUME NEW f \in Flushes, recordWorkspaceAccess(flush[f])
        PROVE  ActivityMoves
    <2>1. ASSUME NEW w \in Workspaces
          PROVE  row'[w] \in WorkspaceRow /\ row'[w].activity = row[w].activity
      BY <1>d DEF recordWorkspaceAccess, latest, WorkspaceRow
    <2>2. row' \in [Workspaces -> WorkspaceRow]
      BY <1>d, <2>1 DEF recordWorkspaceAccess
    <2>. QED BY <1>a, <2>1, <2>2 DEF ActivityMoves
  <1>1. CASE UNCHANGED vars
    BY <1>1, <1>b DEF vars
  <1>2. CASE (AccountsNext \/ Tick) /\ UNCHANGED accessVars
    BY <1>2, <1>b
  <1>3. CASE \E r \in Requests : Cut(r) \/ FindOwned(r)
               \/ (\E s \in Sessions, w \in Workspaces : AskToOpen(r, s, w)) \/ (\E c \in Codes : IssueCode(r, c))
    BY <1>3, <1>b DEF Cut, FindOwned, AskToOpen, IssueCode
  <1>4. CASE \E f \in Flushes : StartFlush(f)
    BY <1>4, <1>b DEF StartFlush
  <1>5. CASE \E f \in Flushes : FinishFlush(f) \/ FailFlush(f)
    BY <1>5, <1>b, <1>d DEF FinishFlush, FailFlush
  <1>6. CASE (\E p \in Posts, c \in Codes, w \in Workspaces : PostCode(p, c, w))
             \/ \E p \in Posts : CheckSession(p) \/ FinishExchange(p)
    BY <1>6, <1>b DEF PostCode, CheckSession, FinishExchange
  <1>7. CASE \/ \E c \in Connections, s \in Sessions, w \in Workspaces, kind \in {"http", "ws"} : FindSession(c, s, w, kind)
             \/ \E c \in Connections : FindWorkspace(c) \/ FindRoute(c)
                  \/ ProxyHttpRequest(c) \/ ProxyWebSocketUpgrade(c) \/ HandleUpgrade(c) \/ Upgraded(c) \/ UpgradeFails(c)
                  \/ Recheck(c) \/ EndHttp(c) \/ EndWebSocket(c) \/ BrowserLeaves(c)
    BY <1>7, <1>b DEF FindSession, FindWorkspace, FindRoute, ProxyHttpRequest, ProxyWebSocketUpgrade, HandleUpgrade,
      Upgraded, UpgradeFails, Recheck, EndHttp, EndWebSocket, BrowserLeaves
  <1>8. CASE DisableWorker
    <2>1. ASSUME NEW w \in Workspaces
          PROVE  row'[w] \in WorkspaceRow /\ row'[w].activity = row[w].activity
      BY <1>8 DEF DisableWorker, WorkspaceRow, RowStates
    <2>2. row' \in [Workspaces -> WorkspaceRow]
      BY <1>8, <2>1 DEF DisableWorker
    <2>3. UNCHANGED usageVars
      BY <1>8 DEF DisableWorker
    <2>. QED BY <1>a, <2>1, <2>2, <2>3 DEF ActivityMoves
  <1>9. CASE EnforceWorkerRevocations \/ LoseChannel \/ Restart
    BY <1>9, <1>b DEF EnforceWorkerRevocations, LoseChannel, Restart, forgetWorker, Forgets
  <1>10. CASE ConnectChannel \/ SampleUsage \/ ReportUsage
    BY <1>10, <1>b DEF ConnectChannel, SampleUsage, ReportUsage
  <1>11. CASE \E w \in Workspaces : Compute(w)
    BY <1>11, <1>b DEF Compute
  <1>12. CASE \E w \in Workspaces : StopWorkspace(w)
    BY <1>12, <1>c DEF StopWorkspace, RowStates
  <1>13. CASE \E w \in Workspaces : StartWorkspace(w)
    <2>1. PICK w \in Workspaces : StartWorkspace(w)
      BY <1>13
    <2>2. ActivityMoves
      BY <2>1, <1>c DEF StartWorkspace, RowStates
    <2>3. Starts(w) /\ UNCHANGED now
      BY <2>1 DEF StartWorkspace, Starts, WorkspaceRow
    <2>. QED BY <2>2, <2>3
  <1>14. CASE \E s \in Sweeps : StartSweep(s) \/ CheckCandidate(s)
    BY <1>14, <1>b DEF StartSweep, CheckCandidate
  <1>15. CASE \E s \in Sweeps : BeginIdleStop(s)
    <2>1. PICK s \in Sweeps : BeginIdleStop(s)
      BY <1>15
    <2>2. row' = [row EXCEPT ![sweep[s].workspace].state = "STOPPING", ![sweep[s].workspace].activity = now] \/ UNCHANGED row
      BY <2>1 DEF BeginIdleStop
    <2>3. ActivityMoves
      BY <1>b, <1>c, <2>2 DEF RowStates
    <2>. QED BY <2>1, <2>3 DEF BeginIdleStop
  <1>16. CASE \E s \in Sweeps : FinishIdleStop(s)
    <2>1. PICK s \in Sweeps : FinishIdleStop(s)
      BY <1>16
    <2>2. \/ UNCHANGED row
          \/ \E state \in RowStates :
               row' = [row EXCEPT ![sweep[s].workspace].state = state, ![sweep[s].workspace].activity = now]
      BY <2>1 DEF FinishIdleStop, RowStates
    <2>3. ActivityMoves
      BY <1>b, <1>c, <2>2
    <2>. QED BY <2>1, <2>3 DEF FinishIdleStop
  <1>. QED BY <1>1, <1>2, <1>3, <1>4, <1>5, <1>6, <1>7, <1>8, <1>9, <1>10, <1>11, <1>12, <1>13, <1>14, <1>15, <1>16 DEF Next

LEMMA MetersKept == ASSUME now \in Nat, RecordsTyped, MeterInv, [Next]_vars PROVE MeterInv'
  <1>1. CASE UNCHANGED usageVars
    <2>1. ActivityMoves /\ UNCHANGED <<work, usage, cpu>>
      BY <1>1, MeterSteps DEF usageVars
    <2>2. MetersTyped'
      BY <2>1 DEF MeterInv, MetersTyped
    <2>3. ActivityIsPast' /\ now' \in Nat /\ now <= now'
      BY <2>1, ActivityGrows DEF MeterInv
    <2>4. WorkIsPast'
      <3>1. \A w \in Workspaces : work[w].last \in Int
        BY DEF MeterInv, MetersTyped, Times, Null
      <3>. QED BY <2>1, <2>3, <3>1 DEF MeterInv, WorkIsPast
    <2>. QED BY <2>1, <2>2, <2>3, <2>4, TimePasses DEF MeterInv
  <1>. QED BY <1>1, MeterSteps, ComputeKeepsMeters, StartKeepsMeters, ForgettingKeepsMeters, SampleKeepsMeters, ReportKeepsMeters

-----------------------------------------------------------------------------
(* What is remembered of use.                                               *)

LEMMA TouchIsUse ==
  ASSUME tracker \in [Workspaces -> AccessRecord], used \in [Workspaces -> Times],
         NEW ws, NEW ended, touch(ws, ended)
  PROVE  /\ used' = [w \in Workspaces |-> IF w \in ws THEN now ELSE used[w]]
         /\ \A w \in Workspaces : tracker'[w].latest = IF w \in ws THEN now ELSE tracker[w].latest
  <1>1. ASSUME NEW w \in Workspaces, w \in ws PROVE tracker'[w].latest = now
    <2>1. tracker'[w] = touched(w, ended) /\ tracker[w] \in AccessRecord
      BY <1>1 DEF touch
    <2>. QED BY <2>1 DEF touched, AccessRecord
  <1>. QED BY <1>1 DEF touch

\* What the steps are to use.
UseStands ==
  UNCHANGED <<used, started>> /\ \A w \in Workspaces : tracker'[w].latest = tracker[w].latest

LEMMA UseSteps ==
  ASSUME RecordsTyped, [Next]_vars
  PROVE  \/ UseStands
         \/ UNCHANGED <<now, started>> /\ \E ws, ended : touch(ws, ended)
         \/ Restart
  <1>. USE DEF accessVars, idleVars
  <1>a. UNCHANGED <<used, started, tracker>> => UseStands
    BY DEF UseStands
  <1>1. CASE UNCHANGED vars
    BY <1>1, <1>a DEF vars
  <1>2. CASE (AccountsNext \/ Tick) /\ UNCHANGED accessVars
    BY <1>2, <1>a
  <1>3. CASE \E r \in Requests : FindOwned(r)
               \/ (\E s \in Sessions, w \in Workspaces : AskToOpen(r, s, w)) \/ (\E c \in Codes : IssueCode(r, c))
    BY <1>3, <1>a DEF FindOwned, AskToOpen, IssueCode
  <1>4. CASE \E r \in Requests : Cut(r)
    BY <1>4 DEF Cut, Disconnect, leave
  <1>5. CASE \E f \in Flushes : StartFlush(f) \/ FinishFlush(f) \/ FailFlush(f)
    <2>1. ASSUME NEW w \in Workspaces, NEW p, tracker'[w] = [tracker[w] EXCEPT !.pending = p]
          PROVE  tracker'[w].latest = tracker[w].latest
      BY <2>1 DEF RecordsTyped, AccessRecord
    <2>2. ASSUME NEW w \in Workspaces, NEW p, tracker'[w] = [tracker[w] EXCEPT !.persisted = p]
          PROVE  tracker'[w].latest = tracker[w].latest
      BY <2>2 DEF RecordsTyped, AccessRecord
    <2>3. ASSUME NEW f \in Flushes, StartFlush(f) PROVE UseStands
      BY <2>1, <2>3 DEF StartFlush, UseStands
    <2>4. ASSUME NEW f \in Flushes, FinishFlush(f) PROVE UseStands
      <3>1. ASSUME NEW w \in Workspaces PROVE tracker'[w].latest = tracker[w].latest
        BY <2>2, <2>4 DEF FinishFlush, persisted
      <3>. QED BY <2>4, <3>1 DEF FinishFlush, UseStands
    <2>5. ASSUME NEW f \in Flushes, FailFlush(f) PROVE UseStands
      <3>1. ASSUME NEW w \in Workspaces PROVE tracker'[w].latest = tracker[w].latest
        BY <2>1, <2>5 DEF FailFlush
      <3>. QED BY <2>5, <3>1 DEF FailFlush, UseStands
    <2>. QED BY <1>5, <2>3, <2>4, <2>5
  <1>6. CASE (\E p \in Posts, c \in Codes, w \in Workspaces : PostCode(p, c, w))
             \/ \E p \in Posts : CheckSession(p) \/ FinishExchange(p)
    BY <1>6, <1>a DEF PostCode, CheckSession, FinishExchange
  <1>7. CASE \/ \E c \in Connections, s \in Sessions, w \in Workspaces, kind \in {"http", "ws"} : FindSession(c, s, w, kind)
             \/ \E c \in Connections : FindWorkspace(c) \/ FindRoute(c)
                  \/ ProxyWebSocketUpgrade(c) \/ HandleUpgrade(c) \/ UpgradeFails(c)
    BY <1>7, <1>a DEF FindSession, FindWorkspace, FindRoute, ProxyWebSocketUpgrade, HandleUpgrade, UpgradeFails
  <1>8. CASE \E c \in Connections : ProxyHttpRequest(c) \/ Upgraded(c)
    BY <1>8, <1>a DEF ProxyHttpRequest, Upgraded, browserGone, Refused, trackSessionConnection
  <1>9. CASE \E c \in Connections : Recheck(c) \/ EndHttp(c) \/ EndWebSocket(c) \/ BrowserLeaves(c)
    BY <1>9, <1>a DEF Recheck, EndHttp, EndWebSocket, BrowserLeaves, Disconnect, leave
  <1>10. CASE DisableWorker \/ LoseChannel \/ ConnectChannel \/ SampleUsage \/ ReportUsage
    BY <1>10, <1>a DEF DisableWorker, LoseChannel, ConnectChannel, SampleUsage, ReportUsage
  <1>11. CASE EnforceWorkerRevocations
    BY <1>11 DEF EnforceWorkerRevocations, closeWorkspaces, Disconnect, leave
  <1>12. CASE \E w \in Workspaces : Compute(w) \/ StopWorkspace(w) \/ StartWorkspace(w)
    BY <1>12, <1>a DEF Compute, StopWorkspace, StartWorkspace
  <1>13. CASE \E s \in Sweeps : StartSweep(s) \/ CheckCandidate(s) \/ BeginIdleStop(s) \/ FinishIdleStop(s)
    BY <1>13, <1>a DEF StartSweep, CheckCandidate, BeginIdleStop, FinishIdleStop
  <1>. QED BY <1>1, <1>2, <1>3, <1>4, <1>5, <1>6, <1>7, <1>8, <1>9, <1>10, <1>11, <1>12, <1>13 DEF Next

LEMMA UseIsRemembered ==
  ASSUME now \in Nat, RecordsTyped, Remembered, [Next]_vars
  PROVE  Remembered'
  <1>a. \A w \in Workspaces : used[w] \in Int /\ tracker[w].latest \in Int
    BY DEF Remembered, RecordsTyped, AccessRecord, Times, Null
  <1>1. CASE UseStands
    <2>1. now' \in Nat /\ now <= now'
      BY NowMoves
    <2>. QED BY <1>1, <1>a, <2>1 DEF UseStands, Remembered
  <1>2. CASE UNCHANGED <<now, started>> /\ \E ws, ended : touch(ws, ended)
    <2>1. PICK ws, ended : touch(ws, ended)
      BY <1>2
    <2>2. /\ used' = [w \in Workspaces |-> IF w \in ws THEN now ELSE used[w]]
          /\ \A w \in Workspaces : tracker'[w].latest = IF w \in ws THEN now ELSE tracker[w].latest
      BY <2>1, TouchIsUse DEF RecordsTyped, Remembered
    <2>. QED BY <1>2, <2>2 DEF Remembered, Times
  <1>3. CASE Restart
    <2>1. /\ tracker' = [w \in Workspaces |-> NotSeen] /\ started' = now /\ UNCHANGED now
          /\ used' = [w \in Workspaces |-> lastUse(w)]
      BY <1>3 DEF Restart, AccountsRestart
    <2>2. \A w \in Workspaces : lastUse(w) \in Times /\ lastUse(w) <= now
      BY DEF lastUse, Remembered, Times
    <2>. QED BY <2>1, <2>2 DEF Remembered, NotSeen
  <1>. QED BY <1>1, <1>2, <1>3, UseSteps

-----------------------------------------------------------------------------
(* What a sweep decides.                                                    *)

\* A verdict of idleness takes in all the work up to the last sample that counts.
LEMMA WorkIsOver ==
  ASSUME MeterInv, NEW w \in Workspaces, NEW t \in Nat, lastActiveAt(w, t) <= t - IdleAfter
  PROVE  /\ lastWork(w) \in Times
         /\ lastWork(w) <= t - IdleAfter \/ Young(w, lastWork(w))
  <1>. DEFINE c == cpu[w]
  <1>1. ~unknown(w, t)
    BY IdleParameters DEF lastActiveAt
  <1>2. c # NotSampled /\ ~(t - c.last.at > SampleGap)
    BY <1>1 DEF unknown
  <1>3. c \in Meter /\ c.start \in Point /\ c.last \in Point /\ c.active \in Nat
    BY <1>2 DEF MeterInv, MetersTyped, Meter
  <1>4. /\ c.start.at <= c.last.at /\ c.last.at < c.start.at + Bucket /\ c.start.nanos <= c.last.nanos
        /\ c.start.worked <= c.active \/ Young(w, c.start.worked)
        /\ c.start.nanos = c.last.nanos => c.start.worked = c.last.worked \/ Young(w, c.last.worked)
    BY <1>2 DEF MeterInv, Metered
  <1>5. /\ c.last.at \in Nat /\ c.start.at \in Nat /\ c.start.worked \in Times /\ c.last.worked \in Times
        /\ c.start.worked \in Int
    BY <1>3 DEF Point, Times, Null
  <1>6. ~filling(w)
    BY <1>1, <1>2, <1>5, IdleParameters DEF lastActiveAt
  <1>7. c.active <= t - IdleAfter
    BY <1>1, <1>6 DEF lastActiveAt
  <1>8. c.start.worked <= t - IdleAfter \/ Young(w, c.start.worked)
    BY <1>3, <1>4, <1>5, <1>7, IdleParameters
  <1>9. CASE spansEnough(w)
    <2>1. ~busy(c.start, c.last)
      BY <1>6, <1>9 DEF filling
    <2>2. c.last.at - c.start.at <= UnitTicks
      BY <1>4, <1>5, IdleParameters
    <2>3. c.start.nanos = c.last.nanos
      BY <1>3, <1>4, <2>1, <2>2, NotBusyIsNoWork
    <2>. QED BY <1>4, <1>5, <1>8, <1>9, <2>3 DEF lastWork
  <1>10. CASE ~spansEnough(w)
    BY <1>5, <1>8, <1>10 DEF lastWork
  <1>. QED BY <1>9, <1>10

\* What was used was seen, by this process or before it started.
LEMMA UseIsOver ==
  ASSUME now \in Nat, RecordsTyped, Remembered, NEW w \in Workspaces, activeConnections(w) = {}, NEW t \in Nat,
         latestAccess(w) <= t - IdleAfter, t - started >= IdleAfter
  PROVE  lastUse(w) <= t - IdleAfter
  <1>1. lastUse(w) = used[w] /\ used[w] \in Int /\ started \in Nat
    BY DEF lastUse, Remembered, Times, Null
  <1>. QED BY <1>1, IdleParameters DEF Remembered, latestAccess

\* A sweep keeps to what it found as rows go on.
LEMMA DecisionsStand ==
  ASSUME now \in Nat, ActivityIsPast, ActivityMoves, NEW s \in Sweeps, Decided(s),
         sweep'[s] = sweep[s], UNCHANGED started
  PROVE  Decided(s)'
  <1>1. CASE sweep[s] = NoSweep
    BY <1>1 DEF Decided
  <1>2. CASE sweep[s] # NoSweep
    <2>1. cutoff(s)' = cutoff(s)
      BY DEF cutoff
    <2>2. sweep[s].at = "begin" =>
            /\ sweep[s].workspace \in Workspaces /\ sweep[s].worked \in Times
            /\ Young(sweep[s].workspace, sweep[s].worked) => Young(sweep[s].workspace, sweep[s].worked)'
      <3>1. SUFFICES ASSUME sweep[s].at = "begin"
                     PROVE  /\ sweep[s].workspace \in Workspaces /\ sweep[s].worked \in Times
                            /\ Young(sweep[s].workspace, sweep[s].worked) => Young(sweep[s].workspace, sweep[s].worked)'
        OBVIOUS
      <3>2. PICK w \in Workspaces, t \in Times : w = sweep[s].workspace /\ t = sweep[s].worked
        BY <1>2, <3>1 DEF Decided
      <3>3. Young(w, t) => Young(w, t)'
        BY FollowsStays
      <3>. QED BY <3>2, <3>3 DEF Young
    <2>. QED BY <1>2, <2>1, <2>2 DEF Decided
  <1>. QED BY <1>1, <1>2

LEMMA OneSweepMoves ==
  ASSUME now \in Nat, ActivityIsPast, ActivityMoves, SweepInv, NEW s \in Sweeps, NEW q,
         sweep' = [sweep EXCEPT ![s] = q], UNCHANGED started, Decided(s)'
  PROVE  SweepInv'
  <1>1. \A z \in Sweeps \ {s} : Decided(z)'
    BY DecisionsStand DEF SweepInv
  <1>. QED BY <1>1 DEF SweepInv

\* A sweep that goes on to what is left.
LEMMA NextIsDecided ==
  ASSUME NEW s \in Sweeps, NEW rest \in SUBSET Workspaces, SweepInv, sweep[s] # NoSweep,
         sweep' = [sweep EXCEPT ![s] = next(s, rest)], UNCHANGED started
  PROVE  Decided(s)'
  <1>1. sweep'[s] = NoSweep \/ sweep'[s] = [at |-> "checking", since |-> sweep[s].since, candidates |-> rest]
    BY DEF SweepInv, next
  <1>2. sweep[s].since \in Nat /\ sweep[s].since - started >= IdleAfter
    BY DEF SweepInv, Decided
  <1>. QED BY <1>1, <1>2 DEF Decided

LEMMA CheckIsDecided ==
  ASSUME now \in Nat, RecordsTyped, IdleInv, ActivityMoves, NEW s \in Sweeps, CheckCandidate(s)
  PROVE  SweepInv'
  <1>1. PICK w \in sweep[s].candidates :
          sweep' = [sweep EXCEPT ![s] =
             IF idleSince(w, s)
             THEN [at |-> "begin", since |-> sweep[s].since, candidates |-> sweep[s].candidates \ {w},
                   workspace |-> w, seen |-> lastUse(w), worked |-> lastWork(w)]
             ELSE next(s, sweep[s].candidates \ {w})]
    BY DEF CheckCandidate
  <1>2. sweep[s].at = "checking" /\ UNCHANGED <<now, row, started>>
    BY DEF CheckCandidate
  <1>3. /\ sweep[s] # NoSweep /\ sweep[s].candidates \subseteq Workspaces /\ w \in Workspaces
        /\ sweep[s].since \in Nat /\ sweep[s].since - started >= IdleAfter
    BY <1>2 DEF IdleInv, SweepInv, Decided, NoSweep
  <1>4. CASE idleSince(w, s)
    <2>. DEFINE q == [at |-> "begin", since |-> sweep[s].since, candidates |-> sweep[s].candidates \ {w},
                   workspace |-> w, seen |-> lastUse(w), worked |-> lastWork(w)]
    <2>1. /\ activeConnections(w) = {} /\ latestAccess(w) <= sweep[s].since - IdleAfter
          /\ lastActiveAt(w, sweep[s].since) <= sweep[s].since - IdleAfter
      BY <1>4 DEF idleSince, cutoff
    <2>2. lastUse(w) <= sweep[s].since - IdleAfter
      BY <1>3, <2>1, UseIsOver DEF IdleInv
    <2>3. /\ lastWork(w) \in Times
          /\ lastWork(w) <= sweep[s].since - IdleAfter \/ Young(w, lastWork(w))
      BY <1>3, <2>1, WorkIsOver DEF IdleInv
    <2>4. sweep' = [sweep EXCEPT ![s] = q] /\ sweep'[s] = q
      BY <1>1, <1>4 DEF IdleInv, SweepInv
    <2>5. Decided(s)'
      <3>1. cutoff(s)' = sweep[s].since - IdleAfter
        BY <2>4 DEF cutoff
      <3>2. Young(w, lastWork(w)) => sweep'[s].worked <= row'[w].activity + SampleGap
        BY <1>2, <2>4 DEF Young
      <3>. QED BY <1>2, <1>3, <2>2, <2>3, <2>4, <3>1, <3>2 DEF Decided, Young
    <2>. HIDE DEF q
    <2>. QED BY <1>2, <2>4, <2>5, OneSweepMoves DEF IdleInv, MeterInv
  <1>5. CASE ~idleSince(w, s)
    <2>1. sweep' = [sweep EXCEPT ![s] = next(s, sweep[s].candidates \ {w})]
      BY <1>1, <1>5
    <2>2. Decided(s)'
      BY <1>2, <1>3, <2>1, NextIsDecided DEF IdleInv
    <2>. QED BY <1>2, <2>1, <2>2, OneSweepMoves DEF IdleInv, MeterInv
  <1>. QED BY <1>4, <1>5

LEMMA SweepSteps ==
  ASSUME [Next]_vars
  PROVE  \/ UNCHANGED <<sweep, started>>
         \/ \E s \in Sweeps : StartSweep(s) \/ CheckCandidate(s) \/ BeginIdleStop(s) \/ FinishIdleStop(s)
         \/ Restart
  <1>. USE DEF accessVars, idleVars
  <1>1. CASE UNCHANGED vars
    BY <1>1 DEF vars
  <1>2. CASE (AccountsNext \/ Tick) /\ UNCHANGED accessVars
    BY <1>2
  <1>3. CASE \E r \in Requests : Cut(r) \/ FindOwned(r)
               \/ (\E s \in Sessions, w \in Workspaces : AskToOpen(r, s, w)) \/ (\E c \in Codes : IssueCode(r, c))
    BY <1>3 DEF Cut, FindOwned, AskToOpen, IssueCode
  <1>4. CASE \E f \in Flushes : StartFlush(f) \/ FinishFlush(f) \/ FailFlush(f)
    BY <1>4 DEF StartFlush, FinishFlush, FailFlush
  <1>5. CASE (\E p \in Posts, c \in Codes, w \in Workspaces : PostCode(p, c, w))
             \/ \E p \in Posts : CheckSession(p) \/ FinishExchange(p)
    BY <1>5 DEF PostCode, CheckSession, FinishExchange
  <1>6. CASE \/ \E c \in Connections, s \in Sessions, w \in Workspaces, kind \in {"http", "ws"} : FindSession(c, s, w, kind)
             \/ \E c \in Connections : FindWorkspace(c) \/ FindRoute(c)
                  \/ ProxyHttpRequest(c) \/ ProxyWebSocketUpgrade(c) \/ HandleUpgrade(c) \/ Upgraded(c) \/ UpgradeFails(c)
                  \/ Recheck(c) \/ EndHttp(c) \/ EndWebSocket(c) \/ BrowserLeaves(c)
    BY <1>6 DEF FindSession, FindWorkspace, FindRoute, ProxyHttpRequest, ProxyWebSocketUpgrade, HandleUpgrade,
      Upgraded, UpgradeFails, Recheck, EndHttp, EndWebSocket, BrowserLeaves
  <1>7. CASE DisableWorker \/ EnforceWorkerRevocations \/ LoseChannel \/ ConnectChannel \/ SampleUsage \/ ReportUsage
    BY <1>7 DEF DisableWorker, EnforceWorkerRevocations, LoseChannel, ConnectChannel, SampleUsage, ReportUsage
  <1>8. CASE \E w \in Workspaces : Compute(w) \/ StopWorkspace(w) \/ StartWorkspace(w)
    BY <1>8 DEF Compute, StopWorkspace, StartWorkspace
  <1>. QED BY <1>1, <1>2, <1>3, <1>4, <1>5, <1>6, <1>7, <1>8 DEF Next

LEMMA SweepsKept ==
  ASSUME now \in Nat, RecordsTyped, IdleInv, [Next]_vars
  PROVE  SweepInv'
  <1>a. ActivityMoves /\ ActivityIsPast /\ SweepInv
    BY MeterSteps DEF IdleInv, MeterInv
  <1>1. CASE UNCHANGED <<sweep, started>>
    <2>1. \A s \in Sweeps : Decided(s)'
      BY <1>a, <1>1, DecisionsStand DEF SweepInv
    <2>. QED BY <1>1, <2>1 DEF IdleInv, SweepInv
  <1>2. ASSUME NEW s \in Sweeps, StartSweep(s) PROVE SweepInv'
    <2>. DEFINE found == listIdleStopCandidates(now - IdleAfter)
                q == [at |-> "checking", since |-> now, candidates |-> found]
    <2>1. found \in SUBSET Workspaces
      BY DEF listIdleStopCandidates
    <2>2. sweep' = [sweep EXCEPT ![s] = q] /\ UNCHANGED started /\ now - started >= IdleAfter
      BY <1>2 DEF StartSweep, upLongEnough
    <2>3. sweep'[s] = q
      BY <2>2 DEF IdleInv, SweepInv
    <2>. HIDE DEF found
    <2>4. Decided(s)'
      BY <2>1, <2>2, <2>3 DEF Decided
    <2>. HIDE DEF q
    <2>. QED BY <1>a, <2>2, <2>4, OneSweepMoves
  <1>3. ASSUME NEW s \in Sweeps, BeginIdleStop(s) PROVE SweepInv'
    <2>1. sweep[s] # NoSweep /\ sweep[s].candidates \in SUBSET Workspaces /\ sweep[s].workspace \in Workspaces
          /\ sweep[s].since \in Nat /\ sweep[s].since - started >= IdleAfter
      BY <1>3 DEF BeginIdleStop, IdleInv, SweepInv, Decided, NoSweep
    <2>. DEFINE q == [at |-> "stopping", since |-> sweep[s].since,
                      candidates |-> sweep[s].candidates, workspace |-> sweep[s].workspace]
    <2>2. UNCHANGED started
      BY <1>3 DEF BeginIdleStop
    <2>3. CASE sweep' = [sweep EXCEPT ![s] = q]
      <3>1. sweep'[s] = q
        BY <2>3 DEF IdleInv, SweepInv
      <3>2. Decided(s)'
        BY <2>1, <2>2, <3>1 DEF Decided
      <3>. HIDE DEF q
      <3>. QED BY <1>a, <2>2, <2>3, <3>2, OneSweepMoves
    <2>4. CASE sweep' = [sweep EXCEPT ![s] = next(s, sweep[s].candidates)]
      BY <1>a, <2>1, <2>2, <2>4, NextIsDecided, OneSweepMoves
    <2>. QED BY <1>3, <2>3, <2>4 DEF BeginIdleStop
  <1>4. ASSUME NEW s \in Sweeps, FinishIdleStop(s) PROVE SweepInv'
    <2>1. sweep[s] # NoSweep /\ sweep[s].candidates \in SUBSET Workspaces
      BY <1>4 DEF FinishIdleStop, IdleInv, SweepInv, Decided, NoSweep
    <2>2. UNCHANGED started /\ sweep' = [sweep EXCEPT ![s] = next(s, sweep[s].candidates)]
      BY <1>4 DEF FinishIdleStop
    <2>. QED BY <1>a, <2>1, <2>2, NextIsDecided, OneSweepMoves
  <1>5. CASE Restart
    BY <1>5 DEF Restart, SweepInv, Decided
  <1>. QED BY <1>a, <1>1, <1>2, <1>3, <1>4, <1>5, SweepSteps, CheckIsDecided

LEMMA IdleKept == ASSUME Types, RecordsInv, IdleInv, [Next]_vars PROVE IdleInv'
  <1>1. now \in Nat /\ RecordsTyped
    BY DEF Types, RowsTyped, RecordsInv
  <1>. QED BY <1>1, MetersKept, UseIsRemembered, SweepsKept DEF IdleInv

LEMMA InitIdle == Init => IdleInv
  <1>. SUFFICES ASSUME Init PROVE IdleInv
    OBVIOUS
  <1>1. now = 0 /\ started = 0
    BY DEF Init, AccountsInit
  <1>2. MeterInv
    <2>1. \A w \in Workspaces : row[w] \in WorkspaceRow /\ row[w].activity = 0
      BY DEF Init, WorkspaceRow, RowStates, Times
    <2>2. row \in [Workspaces -> WorkspaceRow]
      BY <2>1 DEF Init
    <2>3. MetersTyped /\ WorkIsPast
      BY <1>1 DEF Init, MetersTyped, WorkIsPast, Times, Null
    <2>4. \A w \in Workspaces : Sampled(w) /\ Metered(w)
      BY DEF Init, Sampled, Metered
    <2>. QED BY <1>1, <2>1, <2>2, <2>3, <2>4 DEF MeterInv, ActivityIsPast
  <1>3. Remembered
    BY <1>1 DEF Init, Remembered, NotSeen, Times, Null
  <1>4. SweepInv
    BY DEF Init, SweepInv, Decided
  <1>. QED BY <1>2, <1>3, <1>4 DEF IdleInv

\* Who is about to be stopped was last seen, and last worked, before the window.
IdleStopSparesOne(s, w) ==
  sweep[s].at = "begin" /\ sweep'[s].at = "stopping" /\ sweep[s].workspace = w =>
    /\ row[w].activity <= cutoff(s) /\ sweep[s].seen <= cutoff(s)
    /\ sweep[s].worked <= cutoff(s) \/ sweep[s].worked <= row[w].activity + SampleGap

LEMMA OnlyIdleIsStopped ==
  ASSUME Types, RecordsInv, IdleInv, [Next]_vars, NEW s \in Sweeps, NEW w \in Workspaces
  PROVE  IdleStopSparesOne(s, w)
  <1>. SUFFICES ASSUME sweep[s].at = "begin", sweep'[s].at = "stopping", sweep[s].workspace = w
                PROVE  /\ row[w].activity <= cutoff(s) /\ sweep[s].seen <= cutoff(s)
                       /\ sweep[s].worked <= cutoff(s) \/ sweep[s].worked <= row[w].activity + SampleGap
    BY DEF IdleStopSparesOne
  <1>1. /\ sweep[s].seen <= cutoff(s)
        /\ sweep[s].worked <= cutoff(s) \/ sweep[s].worked <= row[w].activity + SampleGap
    BY DEF IdleInv, SweepInv, Decided, NoSweep, Young
  <1>2. row[w].activity <= cutoff(s)
    <2>1. sweep'[s] # sweep[s]
      OBVIOUS
    <2>a. ASSUME NEW z \in Sweeps, NEW q, sweep' = [sweep EXCEPT ![z] = q] PROVE z = s
      BY <2>1, <2>a DEF IdleInv, SweepInv
    <2>2. ~Restart
      BY DEF Restart, NoSweep
    <2>3. ASSUME NEW z \in Sweeps, StartSweep(z) \/ CheckCandidate(z) \/ FinishIdleStop(z) PROVE FALSE
      <3>1. z = s
        BY <2>3, <2>a DEF StartSweep, CheckCandidate, FinishIdleStop
      <3>. QED BY <2>3, <3>1 DEF StartSweep, CheckCandidate, FinishIdleStop, NoSweep
    <2>4. PICK z \in Sweeps : BeginIdleStop(z)
      BY <2>1, <2>2, <2>3, SweepSteps
    <2>5. z = s
      BY <2>4, <2>a DEF BeginIdleStop
    <2>6. CASE stillIdle(w, cutoff(s))
      BY <2>6 DEF stillIdle, eligible
    <2>7. CASE ~stillIdle(w, cutoff(s))
      <3>1. sweep'[s] = next(s, sweep[s].candidates)
        BY <2>4, <2>5, <2>7 DEF BeginIdleStop, IdleInv, SweepInv
      <3>. QED BY <3>1 DEF next, NoSweep
    <2>. QED BY <2>6, <2>7
  <1>. QED BY <1>1, <1>2

\* What an idle sweep stops had run, and had not been used, for the whole window, nor
\* had it worked by the last sample that counts, but for the first minute of its run:
\* however samples, accesses, restarts of containers and of the process, lost
\* channels and sweeps interleave (IdleStopper, ComputeActivityTracker, beginIdleStop).
THEOREM IdleStopsAlwaysSpareUse == Spec => IdleStopSparesUse
  <1>1. Init => Types /\ Usable /\ Fresh /\ ConnInv /\ RecordsInv /\ IdleInv
    BY InitUsable, InitConn, InitRecords, InitIdle
  <1>2. Types /\ Usable /\ Fresh /\ ConnInv /\ RecordsInv /\ IdleInv /\ [Next]_vars =>
          (Types /\ Usable /\ Fresh /\ ConnInv /\ RecordsInv /\ IdleInv)'
    BY TypesKept, UsableKept, ConnKept, RecordsKept, IdleKept DEF Usable
  <1>3. Types /\ Usable /\ Fresh /\ ConnInv /\ RecordsInv /\ IdleInv /\ [Next]_vars =>
          [\A s \in Sweeps, w \in Workspaces :
             sweep[s].at = "begin" /\ sweep'[s].at = "stopping" /\ sweep[s].workspace = w =>
               /\ row[w].activity <= cutoff(s) /\ sweep[s].seen <= cutoff(s)
               /\ sweep[s].worked <= cutoff(s) \/ sweep[s].worked <= row[w].activity + SampleGap]_vars
    BY OnlyIdleIsStopped DEF IdleStopSparesOne
  <1>. QED BY <1>1, <1>2, <1>3, PTL DEF Spec, IdleStopSparesUse
=============================================================================
