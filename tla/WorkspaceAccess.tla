-------------------------- MODULE WorkspaceAccess --------------------------
(* How browsers reach Workspaces, and when nobody does any more: one-time    *)
(* codes (session-exchange.ts), the Workspace Gateway (gateway.ts) and the     *)
(* proxy behind it (packages/gateway), the registry of open connections      *)
(* (session-connections.ts), the revocation of users, sessions and Workers   *)
(* (worker-revocation.ts), and idle stop with the accesses and CPU samples   *)
(* it goes by (idle/, database/src/idle.ts, worker/src/usage).               *)
(* Composed with Accounts, whose sessions it reads and whose requests close  *)
(* the connections here.                                                    *)
(*                                                                          *)
(* How a Workspace starts and stops in its own right is WorkspaceLifecycle's: *)
(* here it is RUNNING or not, and the Worker lets a browser in or does not.   *)
EXTENDS Accounts

CONSTANTS
  Workspaces,
  Owner,        \* whose each Workspace is
  RunningAtFirst,  \* those that run at the start
  Connections,  \* HTTP requests, SSE streams and WebSockets at the Gateway
  Codes,        \* one-time codes
  Posts,        \* exchanges of codes being served
  Flushes,      \* flushes of accesses: the timer does not wait for the last one
  Sweeps,       \* idle sweeps: nor does this one
  CodeTtl,
  PersistInterval,  \* ACCESS_PERSIST_INTERVAL_MS
  IdleAfter,        \* IDLE_STOP_AFTER_HOURS
  SampleGap,        \* COMPUTE_MAX_SAMPLE_GAP_MS, also the least of a bucket that counts
  Bucket,           \* COMPUTE_BUCKET_MS
  UnitTicks,        \* how long a unit of work keeps a container at the CPU threshold
  NoCode

CodeRecord == [session : Sessions, user : Users, workspace : Workspaces, expires : Nat]
IssuedRecord == [session : Sessions, workspace : Workspaces, granted : SUBSET (Sessions \X Workspaces), times : Nat]
PostRecord == [at : {"consumed", "checked"}, code : Codes, record : CodeRecord, time : Nat]

ASSUME AccessAssumption ==
  /\ {CodeTtl, PersistInterval} \subseteq Nat /\ NoCode \notin CodeRecord \cup IssuedRecord \cup PostRecord
  /\ {IdleAfter, SampleGap, Bucket, UnitTicks} \subseteq Nat \ {0} /\ SampleGap < IdleAfter
  \* What counts as work is what is above the threshold in any bucket.
  /\ UnitTicks >= Bucket + SampleGap - 1

VARIABLES
  row,       \* workspaces: state, last_activity_at, last_access_at
  worker,    \* the Worker: enabled, and whether its channel is open
  code,      \* WorkspaceSessionExchange.#records
  post,      \* per exchange: the record it consumed
  cookie,    \* the session cookies of each Workspace host
  conn,      \* per connection: how far it is, and whether its browser is gone
  registry,  \* SessionConnectionRegistry.#connections
  tracker,   \* WorkspaceAccessTracker.#states
  flush,     \* per flush: the accesses being written
  sweep,     \* per sweep: when it began and what it is at
  work,      \* per container: its CPU counter, and when it last worked
  usage,     \* UsageReporter.#latest: the Worker's last sample of each container
  cpu,       \* ComputeActivityTracker.#states
  started,   \* when this process started
  issued,    \* per code: whose it is for which Workspace, and what it granted
  used       \* per Workspace: when the Gateway last served it, whoever knows

gateVars == <<code, post, cookie, issued>>
connVars == <<conn, registry>>
usageVars == <<work, usage, cpu>>
idleVars == <<tracker, flush, sweep, usageVars, started>>
accessVars == <<row, worker, gateVars, connVars, idleVars, used>>
vars == <<now, left, accountVars, accessVars>>

Running(w) == row[w].state = "RUNNING"

-----------------------------------------------------------------------------
(* WorkspaceAccessTracker *)

NotSeen == [latest |-> Null, persisted |-> Null, pending |-> FALSE]

touched(w, ended) ==
  IF tracker[w] = NotSeen THEN [latest |-> now, persisted |-> Null, pending |-> TRUE]
  ELSE [tracker[w] EXCEPT
          !.latest = now,
          !.pending = @ \/ ended \/ tracker[w].persisted = Null
                        \/ now - tracker[w].persisted >= PersistInterval]

latestAccess(w) == tracker[w].latest

touch(ws, ended) ==
  /\ tracker' = [w \in Workspaces |-> IF w \in ws THEN touched(w, ended) ELSE tracker[w]]
  /\ used' = [w \in Workspaces |-> IF w \in ws THEN now ELSE used[w]]

StartFlush(f) ==
  /\ flush[f] = <<>>
  /\ LET pending == {w \in Workspaces : tracker[w].pending}
     IN  /\ pending # {}
         /\ flush' = [flush EXCEPT ![f] = [w \in pending |-> latestAccess(w)]]
         /\ tracker' = [w \in Workspaces |-> [tracker[w] EXCEPT !.pending = FALSE]]
  /\ UNCHANGED <<now, left, accountVars, row, worker, gateVars, connVars, sweep, usageVars, started, used>>

\* recordWorkspaceAccess only ever moves last_access_at forward.
latest(a, b) == IF a > b THEN a ELSE b
recordWorkspaceAccess(entries) ==
  row' = [w \in Workspaces |->
            IF w \in DOMAIN entries THEN [row[w] EXCEPT !.access = latest(@, entries[w])] ELSE row[w]]

\* A bug would be to take what came during the write for written.
persistAll(w, at) == [tracker[w] EXCEPT !.persisted = at, !.pending = FALSE]
persisted(w, at) == [tracker[w] EXCEPT !.persisted = at]

FinishFlush(f) ==
  /\ flush[f] # <<>>
  /\ recordWorkspaceAccess(flush[f])
  /\ tracker' = [w \in Workspaces |->
                   IF w \in DOMAIN flush[f] THEN persisted(w, flush[f][w]) ELSE tracker[w]]
  /\ flush' = [flush EXCEPT ![f] = <<>>]
  /\ UNCHANGED <<now, left, accountVars, worker, gateVars, connVars, sweep, usageVars, started, used>>

\* A write that fails may have been committed all the same.
FailFlush(f) ==
  /\ flush[f] # <<>> /\ Spend("fault")
  /\ recordWorkspaceAccess(flush[f]) \/ UNCHANGED row
  /\ tracker' = [w \in Workspaces |->
                   IF w \in DOMAIN flush[f] THEN [tracker[w] EXCEPT !.pending = TRUE] ELSE tracker[w]]
  /\ flush' = [flush EXCEPT ![f] = <<>>]
  /\ UNCHANGED <<now, accountVars, worker, gateVars, connVars, sweep, usageVars, started, used>>

-----------------------------------------------------------------------------
(* One-time codes *)

\* POST /api/workspaces/:id/open: the session, then the Workspace.
AskToOpen(r, s, w) ==
  /\ At(r, "idle") /\ Spend("open")
  /\ ActiveSession(s, now)
  /\ Becomes(r, [at |-> "opening", session |-> s, user |-> session[s].user, workspace |-> w])
  /\ UNCHANGED <<now, user, identity, session, throttle, handle, guesses, accessVars>>

FindOwned(r) ==
  /\ At(r, "opening")
  /\ LET w == request[r].workspace
     IN  Becomes(r, IF Owner[w] = request[r].user /\ Running(w) THEN [request[r] EXCEPT !.at = "opened"] ELSE Idle)
  /\ UNCHANGED <<now, left, user, identity, session, throttle, handle, guesses, accessVars>>

expiredCodes == {c \in Codes : code[c] # NoCode /\ code[c].expires <= now}

\* A new code replaces what the session had for the Workspace.
IssueCode(r, c) ==
  /\ At(r, "opened") /\ issued[c] = NoCode
  /\ LET s == request[r].session
         w == request[r].workspace
     IN  /\ code' = [k \in Codes |->
              IF k = c THEN [session |-> s, user |-> request[r].user, workspace |-> w, expires |-> now + CodeTtl]
              ELSE IF k \in expiredCodes THEN NoCode
              ELSE IF code[k] # NoCode /\ <<code[k].session, code[k].workspace>> = <<s, w>> THEN NoCode
              ELSE code[k]]
         /\ issued' = [issued EXCEPT ![c] = [session |-> s, workspace |-> w, granted |-> {}, times |-> 0]]
  /\ Becomes(r, Idle)
  /\ UNCHANGED <<now, left, user, identity, session, throttle, handle, guesses,
                 row, worker, post, cookie, connVars, idleVars, used>>

\* POST /_platform/session: the code is gone whatever becomes of the exchange.
\* A bug would be to leave it until it expires.
look(c) == UNCHANGED code
consume(c) == code' = [code EXCEPT ![c] = NoCode]

PostCode(p, c, w) ==
  /\ Spend("exchange") /\ post[p] = NoCode /\ issued[c] # NoCode
  /\ consume(c)
  /\ IF code[c] # NoCode /\ code[c].expires > now /\ code[c].workspace = w
     THEN post' = [post EXCEPT ![p] = [at |-> "consumed", code |-> c, record |-> code[c], time |-> now]]
     ELSE UNCHANGED post
  /\ UNCHANGED <<now, accountVars, row, worker, cookie, issued, connVars, idleVars, used>>

CheckSession(p) ==
  /\ post[p] # NoCode /\ post[p].at = "consumed"
  /\ LET r == post[p].record
     IN  post' = [post EXCEPT ![p] =
           IF ActiveSession(r.session, post[p].time) /\ session[r.session].user = r.user
           THEN [@ EXCEPT !.at = "checked"] ELSE NoCode]
  /\ UNCHANGED <<now, left, accountVars, row, worker, code, cookie, issued, connVars, idleVars, used>>

FinishExchange(p) ==
  /\ post[p] # NoCode /\ post[p].at = "checked"
  /\ LET c == post[p].code
         r == post[p].record
         w == r.workspace
     IN  IF Owner[w] = r.user /\ Running(w)
         THEN /\ cookie' = cookie \cup {<<r.session, w>>}
              /\ issued' = [issued EXCEPT ![c].granted = @ \cup {<<r.session, w>>}, ![c].times = @ + 1]
         ELSE UNCHANGED <<cookie, issued>>
  /\ post' = [post EXCEPT ![p] = NoCode]
  /\ UNCHANGED <<now, left, accountVars, row, worker, code, connVars, idleVars, used>>

-----------------------------------------------------------------------------
(* The Workspace Gateway *)

Closed == [at |-> "closed", gone |-> FALSE]
Moves(c, state) == conn' = [conn EXCEPT ![c] = state]

\* resolveAuthorizedWorkspace: the session, the Workspace, its Worker.
FindSession(c, s, w, kind) ==
  /\ conn[c] = Closed /\ Spend(kind)
  /\ <<s, w>> \in cookie /\ ActiveSession(s, now)
  /\ Moves(c, [at |-> "known", kind |-> kind, gone |-> FALSE,
               session |-> s, user |-> session[s].user, workspace |-> w])
  /\ UNCHANGED <<now, accountVars, row, worker, gateVars, registry, idleVars, used>>

FindWorkspace(c) ==
  /\ conn[c].at = "known"
  /\ LET w == conn[c].workspace
     IN  Moves(c, IF Owner[w] = conn[c].user /\ Running(w) THEN [conn[c] EXCEPT !.at = "found"] ELSE Closed)
  /\ UNCHANGED <<now, left, accountVars, row, worker, gateVars, registry, idleVars, used>>

\* The Worker has to be enabled; how long ago it was last heard of is
\* Placement's, and here it was recently.
findWorkerGatewayRoute == worker.enabled

FindRoute(c) ==
  /\ conn[c].at = "found"
  /\ Moves(c, IF findWorkerGatewayRoute THEN [conn[c] EXCEPT !.at = "authorized"] ELSE Closed)
  /\ UNCHANGED <<now, left, accountVars, row, worker, gateVars, registry, idleVars, used>>

\* trackSessionConnection registers what was authorized and then looks at the
\* session once more, for it may have been revoked in between.  A bug would be
\* to trust the authorization.
trust(c) == Moves(c, [conn[c] EXCEPT !.at = "open"])
recheck(c) == Moves(c, [conn[c] EXCEPT !.at = "rechecking"])

trackSessionConnection(c) ==
  /\ recheck(c)
  /\ registry' = registry \cup {c}
  /\ touch({conn[c].workspace}, FALSE)
activeConnections(w) == {c \in registry : conn[c].workspace = w}
Refused(c) == Moves(c, Closed) /\ UNCHANGED <<registry, tracker, used>>

\* A request or an SSE stream is registered before the Worker has answered, unless
\* the browser went during the authorization: nothing would ever end it.
ProxyHttpRequest(c) ==
  /\ conn[c].at = "authorized" /\ conn[c].kind = "http"
  /\ IF conn[c].gone THEN Refused(c) ELSE trackSessionConnection(c)
  /\ UNCHANGED <<now, left, accountVars, row, worker, gateVars, flush, sweep, usageVars, started>>

\* A WebSocket is registered once the Worker has switched protocols.
ProxyWebSocketUpgrade(c) ==
  /\ conn[c].at = "authorized" /\ conn[c].kind = "ws"
  /\ Moves(c, IF conn[c].gone THEN Closed ELSE [conn[c] EXCEPT !.at = "upgrading"])
  /\ UNCHANGED <<now, left, accountVars, row, worker, gateVars, registry, idleVars, used>>

\* The Worker's gateway: the token, the host and a container that may be served,
\* which a stopped one is not.
authorizeTarget(w) == {"refused"} \cup (IF row[w].state = "STOPPED" THEN {} ELSE {"upgraded"})

HandleUpgrade(c) ==
  /\ conn[c].at = "upgrading"
  /\ \E answer \in authorizeTarget(conn[c].workspace) : Moves(c, [conn[c] EXCEPT !.at = answer])
  /\ UNCHANGED <<now, left, accountVars, row, worker, gateVars, registry, idleVars, used>>

\* A bug would be not to look once more whether the browser is there.
ignored(c) == FALSE
browserGone(c) == conn[c].gone
Upgraded(c) ==
  /\ conn[c].at = "upgraded"
  /\ IF browserGone(c) THEN Refused(c) ELSE trackSessionConnection(c)
  /\ UNCHANGED <<now, left, accountVars, row, worker, gateVars, flush, sweep, usageVars, started>>

\* The Worker refused, is away or takes too long.
UpgradeFails(c) ==
  /\ conn[c].at \in {"upgrading", "refused"}
  /\ Moves(c, Closed)
  /\ UNCHANGED <<now, left, accountVars, row, worker, gateVars, registry, idleVars, used>>

\* Whoever ends it, a connection leaves the registry, and the access it was
\* lasts until now.  A bug would be to count it from when it began.
leaveUnseen(ws) == UNCHANGED tracker /\ used' = [w \in Workspaces |-> IF w \in ws THEN now ELSE used[w]]
leave(ws) == touch(ws, TRUE)

\* A bug would be to close one and keep it in the registry.
CloseOnly(cs) ==
  LET open == cs \cap registry
  IN  /\ UNCHANGED registry
      /\ conn' = [c \in Connections |-> IF c \in open THEN Closed ELSE conn[c]]
      /\ leave({conn[c].workspace : c \in open})
Disconnect(cs) ==
  LET open == cs \cap registry
  IN  /\ registry' = registry \ open
      /\ conn' = [c \in Connections |-> IF c \in open THEN Closed ELSE conn[c]]
      /\ leave({conn[c].workspace : c \in open})

Recheck(c) ==
  /\ conn[c].at = "rechecking"
  /\ IF ActiveSession(conn[c].session, now) /\ session[conn[c].session].user = conn[c].user
     THEN Moves(c, [conn[c] EXCEPT !.at = "open"]) /\ UNCHANGED <<registry, tracker, used>>
     ELSE Disconnect({c})
  /\ UNCHANGED <<now, left, accountVars, row, worker, gateVars, flush, sweep, usageVars, started>>

\* The answer ends, or the Worker ends the WebSocket.
EndHttp(c) ==
  /\ c \in registry /\ conn[c].kind = "http"
  /\ Disconnect({c})
  /\ UNCHANGED <<now, left, accountVars, row, worker, gateVars, flush, sweep, usageVars, started>>
EndWebSocket(c) ==
  /\ c \in registry /\ conn[c].kind = "ws"
  /\ Disconnect({c})
  /\ UNCHANGED <<now, left, accountVars, row, worker, gateVars, flush, sweep, usageVars, started>>

\* The browser leaves: seen at once once there is a handler for it, later before.
BrowserLeaves(c) ==
  /\ conn[c] # Closed /\ ~conn[c].gone
  /\ IF c \in registry THEN Disconnect({c})
     ELSE conn' = [conn EXCEPT ![c].gone = TRUE] /\ UNCHANGED <<registry, tracker, used>>
  /\ UNCHANGED <<now, left, accountVars, row, worker, gateVars, flush, sweep, usageVars, started>>

closeWorkspaces(ws) == Disconnect(UNION {activeConnections(w) : w \in ws})

\* closeSession after a sign-out, closeUser after the others that revoke: their
\* last step.
closedBy(op) ==
  {c \in registry : IF op.kind = "logout" THEN conn[c].session = op.session ELSE conn[c].user = op.user}

Cut(r) ==
  /\ At(r, "cutting")
  /\ Disconnect(closedBy(request[r].op))
  /\ Becomes(r, Idle)
  /\ UNCHANGED <<now, left, user, identity, session, throttle, handle, guesses,
                 row, worker, gateVars, flush, sweep, usageVars, started>>

-----------------------------------------------------------------------------
(* The Worker, and what its CPU samples say *)

NotSampled == [at |-> Null]
forgetWorker == cpu' = [w \in Workspaces |-> NotSampled] /\ UNCHANGED <<work, usage>>

\* worker:disable, and the trigger that follows it.
DisableWorker ==
  /\ worker.enabled /\ Spend("disable")
  /\ worker' = [worker EXCEPT !.enabled = FALSE]
  /\ row' = [w \in Workspaces |-> IF Running(w) THEN [row[w] EXCEPT !.state = "WORKER_OFFLINE"] ELSE row[w]]
  /\ UNCHANGED <<now, accountVars, gateVars, connVars, idleVars, used>>

listRevokedWorkerAssignments == IF worker.enabled THEN {} ELSE Workspaces

\* enforceWorkerRevocations, on a timer: the channel and all that is open.
EnforceWorkerRevocations ==
  /\ ~worker.enabled /\ (worker.connected \/ registry # {})
  /\ worker' = [worker EXCEPT !.connected = FALSE]
  /\ forgetWorker
  /\ closeWorkspaces(listRevokedWorkerAssignments)
  /\ UNCHANGED <<now, left, accountVars, row, gateVars, flush, sweep, started>>

LoseChannel ==
  /\ worker.connected /\ Spend("drop")
  /\ worker' = [worker EXCEPT !.connected = FALSE]
  /\ forgetWorker
  /\ UNCHANGED <<now, accountVars, row, gateVars, connVars, tracker, flush, sweep, started, used>>

ConnectChannel ==
  /\ worker.enabled /\ ~worker.connected
  /\ worker' = [worker EXCEPT !.connected = TRUE]
  /\ UNCHANGED <<now, left, accountVars, row, gateVars, connVars, idleVars, used>>

\* A container computes: a unit of work is as much as the threshold allows in
\* UnitTicks.
Compute(w) ==
  /\ Running(w) /\ Spend("work")
  /\ work' = [work EXCEPT ![w] = [nanos |-> @.nanos + 1, last |-> now]]
  /\ UNCHANGED <<now, accountVars, row, worker, gateVars, connVars, tracker, flush, sweep, usage, cpu, started, used>>

\* The Worker samples the running containers, one round at a time; what cannot be
\* read is left out.
runningWorkspaceContainers == {w \in Workspaces : Running(w)}
point(w) == [at |-> now, nanos |-> work[w].nanos, worked |-> work[w].last]
samples == {[w \in Workspaces |-> IF w \in read THEN point(w) ELSE NotSampled] :
              read \in SUBSET runningWorkspaceContainers}
SampleUsage ==
  /\ Spend("sample")
  /\ usage' \in samples
  /\ UNCHANGED <<now, accountVars, row, worker, gateVars, connVars, tracker, flush, sweep, work, cpu, started, used>>

\* A bucket is busy at the threshold; a first sample, one after a gap and one of a
\* counter that went back are activity, for what was before is not known.
busy(from, to) == (to.nanos - from.nanos) * UnitTicks >= to.at - from.at
afresh(p) == [at |-> p.at, start |-> p, last |-> p, active |-> p.at]
record(s, p) ==
  CASE s = NotSampled -> afresh(p)
    [] s # NotSampled /\ p.at <= s.last.at -> s
    [] s # NotSampled /\ p.at > s.last.at ->
         IF p.at - s.last.at > SampleGap \/ p.nanos < s.last.nanos THEN afresh(p)
         ELSE IF p.at - s.start.at >= Bucket
           THEN [s EXCEPT !.start = p, !.last = p, !.active = IF busy(s.start, p) THEN p.at ELSE @]
         ELSE [s EXCEPT !.last = p]

\* A heartbeat carries the last sample, however old, of what runs on the Worker.
activeAssigned == {w \in Workspaces : Running(w) /\ usage[w] # NotSampled}
ReportUsage ==
  /\ worker.connected
  /\ cpu' = [w \in Workspaces |-> IF w \in activeAssigned THEN record(cpu[w], usage[w]) ELSE cpu[w]]
  /\ cpu' # cpu
  /\ UNCHANGED <<now, left, accountVars, row, worker, gateVars, connVars, tracker, flush, sweep, work, usage, started, used>>

\* Work in the bucket being filled counts too; so does not to know.
spansEnough(w) == cpu[w].last.at - cpu[w].start.at >= SampleGap
unknown(w, t) == cpu[w] = NotSampled \/ t - cpu[w].last.at > SampleGap
filling(w) == spansEnough(w) /\ busy(cpu[w].start, cpu[w].last)
lastActiveAt(w, t) ==
  IF unknown(w, t) THEN t ELSE IF filling(w) THEN cpu[w].last.at ELSE cpu[w].active

-----------------------------------------------------------------------------
(* Idle stop *)

NoSweep == [at |-> "none"]
cutoff(s) == sweep[s].since - IdleAfter
eligible(w, c) == Running(w) /\ row[w].activity <= c /\ row[w].access <= c

\* Nothing is known of connections and CPU from before this process started.
\* A bug would be to take nothing for idle.
longEnough == TRUE
upLongEnough == now - started >= IdleAfter

listIdleStopCandidates(c) == {w \in Workspaces : worker.enabled /\ eligible(w, c)}

StartSweep(s) ==
  /\ sweep[s] = NoSweep /\ upLongEnough /\ Spend("sweep")
  /\ LET found == listIdleStopCandidates(now - IdleAfter)
     IN  /\ found # {}
         /\ sweep' = [sweep EXCEPT ![s] = [at |-> "checking", since |-> now, candidates |-> found]]
  /\ UNCHANGED <<now, accountVars, row, worker, gateVars, connVars, tracker, flush, usageVars, started, used>>

idleSince(w, s) ==
  /\ worker.connected
  /\ activeConnections(w) = {}
  /\ latestAccess(w) <= cutoff(s)
  /\ lastActiveAt(w, sweep[s].since) <= cutoff(s)

\* Candidates are looked at one after the other, each when the last is done.
lastWork(w) == IF spansEnough(w) THEN cpu[w].last.worked ELSE cpu[w].start.worked
lastUse(w) == IF activeConnections(w) # {} THEN now ELSE used[w]
next(s, rest) == IF rest = {} THEN NoSweep
                 ELSE [at |-> "checking", since |-> sweep[s].since, candidates |-> rest]

CheckCandidate(s) ==
  /\ sweep[s].at = "checking"
  /\ \E w \in sweep[s].candidates :
       LET rest == sweep[s].candidates \ {w}
       IN  sweep' = [sweep EXCEPT ![s] =
             IF idleSince(w, s)
             THEN [at |-> "begin", since |-> sweep[s].since, candidates |-> rest,
                   workspace |-> w, seen |-> lastUse(w), worked |-> lastWork(w)]
             ELSE next(s, rest)]
  /\ UNCHANGED <<now, left, accountVars, row, worker, gateVars, connVars, tracker, flush, usageVars, started, used>>

\* The database has the last word, as far as it knows.  A bug would be not to
\* ask it again whether this is still the same run.
stillRunning(w, c) == Running(w)
stillIdle(w, c) == eligible(w, c)

BeginIdleStop(s) ==
  /\ sweep[s].at = "begin"
  /\ LET w == sweep[s].workspace
     IN  IF stillIdle(w, cutoff(s))
         THEN /\ row' = [row EXCEPT ![w].state = "STOPPING", ![w].activity = now]
              /\ sweep' = [sweep EXCEPT ![s] = [at |-> "stopping", since |-> sweep[s].since,
                                                candidates |-> sweep[s].candidates, workspace |-> w]]
         ELSE sweep' = [sweep EXCEPT ![s] = next(s, sweep[s].candidates)] /\ UNCHANGED row
  /\ UNCHANGED <<now, left, accountVars, worker, gateVars, connVars, tracker, flush, usageVars, started, used>>

\* Like a user's stop: the Worker did it, or the row shows the failure.
FinishIdleStop(s) ==
  /\ sweep[s].at = "stopping"
  /\ LET w == sweep[s].workspace
     IN  IF row[w].state = "STOPPING"
         THEN \E state \in {"STOPPED", "ERROR", "WORKER_OFFLINE"} :
                row' = [row EXCEPT ![w].state = state, ![w].activity = now]
         ELSE UNCHANGED row
  /\ sweep' = [sweep EXCEPT ![s] = next(s, sweep[s].candidates)]
  /\ UNCHANGED <<now, left, accountVars, worker, gateVars, connVars, tracker, flush, usageVars, started, used>>

-----------------------------------------------------------------------------
(* What WorkspaceLifecycle models: the user stops and starts its Workspace. *)
StopWorkspace(w) ==
  /\ Running(w) /\ Spend("start")
  /\ row' = [row EXCEPT ![w].state = "STOPPED", ![w].activity = now]
  /\ UNCHANGED <<now, accountVars, worker, gateVars, connVars, idleVars, used>>

StartWorkspace(w) ==
  /\ row[w].state \in {"STOPPED", "ERROR"} /\ worker.enabled /\ Spend("start")
  /\ row' = [row EXCEPT ![w].state = "RUNNING", ![w].activity = now]
  /\ work' = [work EXCEPT ![w].nanos = 0]
  /\ UNCHANGED <<now, accountVars, worker, gateVars, connVars, tracker, flush, sweep, usage, cpu, started, used>>

\* The Control Plane dies: all it kept in memory is gone, connections included.
Restart ==
  /\ Spend("restart") /\ AccountsRestart
  /\ code' = [c \in Codes |-> NoCode] /\ post' = [p \in Posts |-> NoCode]
  /\ conn' = [c \in Connections |-> Closed] /\ registry' = {}
  /\ tracker' = [w \in Workspaces |-> NotSeen]
  /\ flush' = [f \in Flushes |-> <<>>] /\ sweep' = [s \in Sweeps |-> NoSweep]
  /\ forgetWorker /\ started' = now
  /\ used' = [w \in Workspaces |-> lastUse(w)]
  /\ worker' = [worker EXCEPT !.connected = FALSE]
  /\ UNCHANGED <<row, cookie, issued>>

-----------------------------------------------------------------------------
AccessKinds == Kinds \cup {"open", "exchange", "http", "ws", "fault", "disable", "drop", "start", "restart",
                          "work", "sample", "sweep"}

Init ==
  /\ AccountsInit
  /\ row = [w \in Workspaces |->
       [state |-> IF w \in RunningAtFirst THEN "RUNNING" ELSE "STOPPED", activity |-> 0, access |-> Null]]
  /\ worker = [enabled |-> TRUE, connected |-> TRUE]
  /\ code = [c \in Codes |-> NoCode] /\ post = [p \in Posts |-> NoCode]
  /\ cookie = {c \in Sessions \X Workspaces : session[c[1]] # NoSession /\ session[c[1]].user = Owner[c[2]]}
  /\ conn = [c \in Connections |-> Closed] /\ registry = {}
  /\ tracker = [w \in Workspaces |-> NotSeen]
  /\ flush = [f \in Flushes |-> <<>>] /\ sweep = [s \in Sweeps |-> NoSweep]
  /\ work = [w \in Workspaces |-> [nanos |-> 0, last |-> Null]]
  /\ usage = [w \in Workspaces |-> NotSampled] /\ cpu = usage /\ started = 0
  /\ issued = [c \in Codes |-> NoCode]
  /\ used = [w \in Workspaces |-> Null]

Next ==
  \/ AccountsNext /\ UNCHANGED accessVars
  \/ Tick /\ UNCHANGED accessVars
  \/ \E r \in Requests : Cut(r)
  \/ \E f \in Flushes : StartFlush(f) \/ FinishFlush(f) \/ FailFlush(f)
  \/ \E r \in Requests : FindOwned(r)
       \/ (\E s \in Sessions, w \in Workspaces : AskToOpen(r, s, w)) \/ (\E c \in Codes : IssueCode(r, c))
  \/ \E p \in Posts, c \in Codes, w \in Workspaces : PostCode(p, c, w)
  \/ \E p \in Posts : CheckSession(p) \/ FinishExchange(p)
  \/ \E c \in Connections, s \in Sessions, w \in Workspaces, kind \in {"http", "ws"} : FindSession(c, s, w, kind)
  \/ \E c \in Connections : FindWorkspace(c) \/ FindRoute(c)
        \/ ProxyHttpRequest(c) \/ ProxyWebSocketUpgrade(c) \/ HandleUpgrade(c) \/ Upgraded(c) \/ UpgradeFails(c)
        \/ Recheck(c) \/ EndHttp(c) \/ EndWebSocket(c) \/ BrowserLeaves(c)
  \/ DisableWorker \/ EnforceWorkerRevocations \/ LoseChannel \/ ConnectChannel
  \/ SampleUsage \/ ReportUsage
  \/ \E w \in Workspaces : Compute(w) \/ StopWorkspace(w) \/ StartWorkspace(w)
  \/ \E s \in Sweeps : StartSweep(s) \/ CheckCandidate(s) \/ BeginIdleStop(s) \/ FinishIdleStop(s)
  \/ Restart

Spec == Init /\ [][Next]_vars

-----------------------------------------------------------------------------
Times == Nat \cup {Null}
TypeOK ==
  /\ user \in [Users -> UserRecord \cup {NoUser}]
  /\ identity \in [Identities -> Users \cup {NoUser}]
  /\ session \in [Sessions -> SessionRecord \cup {NoSession}]
  /\ throttle \in [Keys -> [start : Times, failures : Nat, until : Times]]
  /\ \A r \in Requests : request[r].at \in
       {"idle", "verifying", "failing", "inserted", "forgiving", "starting", "authorizing", "called",
        "exchanging", "admitted", "updating", "unbinding", "cutting", "opening", "opened"}
  /\ row \in [Workspaces -> [state : {"RUNNING", "STOPPING", "STOPPED", "ERROR", "WORKER_OFFLINE"},
                             activity : Nat, access : Times]]
  /\ worker \in [enabled : BOOLEAN, connected : BOOLEAN]
  /\ registry = {c \in Connections : conn[c].at \in {"rechecking", "open"}}
  /\ tracker \in [Workspaces -> [latest : Times, persisted : Times, pending : BOOLEAN]]

\* What the registry holds is there by right: its browser has not left, whenever it
\* did, or the Workspace would never be idle; and if its session is revoked or its
\* user disabled it is about to be closed: it is being looked at once more, or the
\* request that revoked is about to close it (progress.md: the check after the
\* registration is there for this race).
ConnectionsAreRightful ==
  \A c \in registry :
    LET s == session[conn[c].session]
    IN  /\ ~conn[c].gone
        /\ s.revoked \/ ~ActiveUser(s.user) =>
          \/ conn[c].at = "rechecking"
          \/ \E r \in Requests : At(r, "cutting") /\ c \in closedBy(request[r].op)

\* A code grants one cookie at most, of the session it was issued to and on the
\* host it was issued for, and a session has one good code per Workspace.
CodesGrantOnce ==
  /\ \A c \in Codes : issued[c] # NoCode =>
       issued[c].times <= 1 /\ issued[c].granted \subseteq {<<issued[c].session, issued[c].workspace>>}
  /\ \A c, d \in Codes :
       c # d /\ code[c] # NoCode /\ code[d] # NoCode =>
         <<code[c].session, code[c].workspace>> # <<code[d].session, code[d].workspace>>

\* Nothing of an access is lost: once the last connection of a Workspace has
\* ended its time is written, being written or still to be written, however
\* flushes overlap and fail; while connections last, what is written is behind
\* by less than the interval.
AccessIsRecorded ==
  \A w \in Workspaces :
    LET t == tracker[w]
    IN  t # NotSeen =>
          \/ t.pending \/ row[w].access >= t.latest
          \/ \E f \in Flushes : w \in DOMAIN flush[f] /\ flush[f][w] >= t.latest
          \/ /\ activeConnections(w) # {}
             /\ row[w].access # Null /\ t.latest - row[w].access < PersistInterval

\* What an idle sweep stops had run, and had not been used through the Gateway,
\* for the whole window as the sweep decided, by this process or by one before
\* it, and it had not worked either by the last sample that counts, but for the
\* first SampleGap of its run: a counter that starts over may pass what it was at
\* before the next sample.  (An access between the decision and the stop loses if
\* it is not in the database yet.)
IdleStopSparesUse ==
  [][\A s \in Sweeps, w \in Workspaces :
       sweep[s].at = "begin" /\ sweep'[s].at = "stopping" /\ sweep[s].workspace = w =>
         /\ row[w].activity <= cutoff(s) /\ sweep[s].seen <= cutoff(s)
         /\ sweep[s].worked <= cutoff(s) \/ sweep[s].worked <= row[w].activity + SampleGap]_vars
=============================================================================
