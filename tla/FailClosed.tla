----------------------------- MODULE FailClosed -----------------------------
(* What has to be in force before a Workspace runs on a Worker, and what    *)
(* happens when it no longer is: disk quotas and egress rules             *)
(* (worker/src/runtime.ts, storage/controller.ts, daemon.ts), the limits an *)
(* administrator sets (routes/admin-workers.ts, runtime-commands.ts,        *)
(* database/src/storage.ts) and what heartbeats make of the rows.           *)
(*                                                                          *)
(* The Worker executes commands one by one; its timed checks run beside     *)
(* them.  Requests, intents and recovery in their own right are             *)
(* WorkspaceLifecycle's, what the rules are EgressPolicy's.  The data and    *)
(* the pi project of a Workspace are allocated, tagged, limited and         *)
(* released together: one project stands for both.                          *)
EXTENDS Integers, Sequences, SequencesExt, TLC

CONSTANTS
  Workspaces,
  Checks,        \* timer ticks at work: an interval does not wait for the last one
  Admins,        \* administrators changing limits
  Projects,      \* project IDs above the probe's
  Limits,        \* disk limits
  DefaultLimit,  \* WORKSPACE_DISK_LIMIT_BYTES
  AtFirst,       \* the Workspaces there may be at first: new ones, and containers of an
                 \* earlier release, on which network and under which resource limits
  MaxRequests,   \* bound: starts, limit changes, migrations
  MaxUpsets,     \* bound: faults
  NoQuota

\* There are some 2^20 project IDs: every Workspace finds one the others have not.
ASSUME FailClosedAssumption ==
  /\ Projects \subseteq Nat \ {0} /\ Projects # {}
  /\ \A w \in Workspaces : \A project \in [Workspaces \ {w} -> Projects] :
       \E p \in Projects : \A v \in Workspaces \ {w} : project[v] # p
  /\ Limits \subseteq Nat \ {0} /\ DefaultLimit \in Limits
  /\ NoQuota \notin [project : Projects, bytes : Limits]
  /\ \A first \in AtFirst :
       /\ DOMAIN first \subseteq Workspaces
       /\ \A w \in DOMAIN first : first[w] \in [network : {"none", "legacy", "current"}, fits : BOOLEAN]
  /\ {MaxRequests, MaxUpsets} \subseteq Nat

Guards == {"egress", "storage"}

VARIABLES
  host,      \* per guard: whether the host lets the Worker enforce it
  enforced,  \* per guard: EgressController.#enforced, StorageController.#status
  check,     \* per tick: where it is and which containers it has still to stop
  up,        \* the daemon has started: it is connected and executes commands
  ws,        \* per Workspace: directory, metadata, project, network, container
  limit,     \* per project: the limit the filesystem enforces, 0 for none
  row,       \* workspaces: state and disk_limit_bytes
  request,   \* per Workspace: the start, stop or delete being served
  patch,     \* per administrator: the limit change being served
  queue,     \* commands on their way to, and at, the Worker; the first is executed
  step,      \* how far the Worker is with workspace.start
  stale,     \* the limit in force may not be the row's before the next start
  budget     \* what is left of each bound

vars == <<host, enforced, check, up, ws, limit, row, request, patch, queue, step, stale, budget>>
local == <<ws, limit>>
control == <<row, request, patch, stale>>
work == <<queue, step>>

Spend(what) == budget[what] > 0 /\ budget' = [budget EXCEPT ![what] = @ - 1]
Calm == UNCHANGED budget

Idle == [at |-> "idle"]
Starting == {"scheduled", "ensure", "ensured", "start", "started"}
Running == {w \in Workspaces : ws[w].container = "running"}
Assigned(w) == row[w].state \notin {"CREATED", "gone"}

-----------------------------------------------------------------------------
(* What the calls do to a Workspace, as the states they bring it to one     *)
(* after the other: a call that fails, or dies with the daemon, stops after  *)
(* any of them.                                                             *)

At(s, l) == [ws |-> s, limit |-> l]

\* The lowest ID that no readable metadata records; a bug would be to look at
\* running containers only.
unusedAmongRunning ==
  CHOOSE p \in Projects :
    /\ \A w \in Running : ws[w].quota = NoQuota \/ ws[w].quota.project # p
    /\ \A q \in Projects : q < p => \E w \in Running : ws[w].quota # NoQuota /\ ws[w].quota.project = q
Used == {ws[w].quota.project : w \in {v \in Workspaces : ws[v].quota # NoQuota}}
unusedProjectIds ==
  CHOOSE p \in Projects \ Used : \A q \in Projects \ Used : p <= q

setProject(s, project) == [s EXCEPT !.tag = project]
setLimit(project, bytes) == [limit EXCEPT ![project] = bytes]

\* Tags and limits, then the read-back; before them, in #prepareStorage, the
\* metadata, with two new IDs the first time.
prepareWorkspace(s, project, bytes) ==
  <<At(setProject(s, project), limit), At(setProject(s, project), setLimit(project, bytes))>>
prepareStorage(s, bytes) ==
  LET project == IF s.quota = NoQuota THEN unusedProjectIds ELSE s.quota.project
      recorded == [s EXCEPT !.quota = [project |-> project, bytes |-> bytes]]
  IN <<At(recorded, limit)>> \o prepareWorkspace(recorded, project, bytes)

\* #ensureWorkspacePaths: a directory without metadata is refused ever after.
ensureWorkspacePaths(s) ==
  IF s.dir = "none" THEN <<At([s EXCEPT !.dir = "bare"], limit), At([s EXCEPT !.dir = "managed"], limit)>>
  ELSE <<>>
pathsRefused(s) == s.dir = "bare"

\* The network and the container.  A network of an earlier release is replaced
\* while the container is stopped.
networkRefused(s) == s.network = "legacy" /\ s.container = "running"
ensureNetwork(s) == [s EXCEPT !.network = "current"]

\* A new home gets the image's skeleton, once: the metadata remembers it.
initializeHome(s) == [s EXCEPT !.seeded = TRUE]
createContainer(s) == [s EXCEPT !.container = "stopped", !.shape = "current", !.fits = TRUE]
created(from) ==
  LET connected == ensureNetwork(from.ws)
      homely == initializeHome(connected)
  IN <<At(connected, from.limit)>> \o
     (IF connected.container # "none" THEN <<>>
      ELSE <<At(homely, from.limit), At(createContainer(homely), from.limit)>>)

\* A container with a writable root, where the home of an earlier release is, may
\* be inspected, stopped and deleted, but not started or served.
needsMigration(s) == s.container # "none" /\ s.shape = "legacy"

ensureStages(w, bytes) ==
  LET s == ws[w]
      paths == ensureWorkspacePaths(s)
      prepared == prepareStorage([s EXCEPT !.dir = "managed"], bytes)
  IN IF pathsRefused(s) THEN <<>>
     ELSE IF needsMigration(s) \/ ~enforced.storage THEN paths
     ELSE IF networkRefused(s) THEN paths \o prepared
     ELSE paths \o prepared \o created(Last(prepared))
ensureRefused(w) ==
  pathsRefused(ws[w]) \/ needsMigration(ws[w]) \/ ~enforced.storage \/ networkRefused(ws[w])

\* delete: container, network, then the directory, whose metadata may go first.
\* The IDs are released if that works; whoever gets them next sets them anew.
Removed ==
  [dir |-> "none", quota |-> NoQuota, tag |-> 0, home |-> "lost", seeded |-> FALSE,
   network |-> "none", container |-> "none", shape |-> "current", fits |-> TRUE]
deleteStages(w) ==
  LET stopped == [ws[w] EXCEPT !.container = "none",
                               !.home = IF needsMigration(ws[w]) /\ @ # "copied" THEN "lost" ELSE @]
      gone == [stopped EXCEPT !.network = "none"] IN
  <<At(stopped, limit), At(gone, limit),
    At([gone EXCEPT !.dir = "bare", !.quota = NoQuota, !.seeded = FALSE], limit), At(Removed, limit)>>
releaseWorkspace(w) ==
  IF ws[w].quota # NoQuota /\ enforced.storage THEN setLimit(ws[w].quota.project, 0) ELSE limit

\* setDataLimit, then the metadata.
setDiskLimitStages(w, bytes) ==
  IF ws[w].quota = NoQuota \/ ~enforced.storage THEN <<>>
  ELSE LET set == setLimit(ws[w].quota.project, bytes) IN
       <<At(ws[w], set), At([ws[w] EXCEPT !.quota.bytes = bytes], set)>>
setDiskLimitRefused(w) == ws[w].dir # "managed" \/ (ws[w].quota # NoQuota /\ ~enforced.storage)

\* All of a call's stages, and some of them.
Reaches(w, stage) == ws' = [ws EXCEPT ![w] = stage.ws] /\ limit' = stage.limit
Does(w, stages) == IF stages = <<>> THEN UNCHANGED local ELSE Reaches(w, Last(stages))
DoesSome(w, stages) == UNCHANGED local \/ \E n \in DOMAIN stages : Reaches(w, stages[n])

-----------------------------------------------------------------------------
(* The Control Plane: requests, limits, answers.                            *)

\* scheduleWorkspaceStart: the limit an ensure will carry is read here, before
\* the egress policy is applied; fresh remembers that no change overlaps.
NoPatch(w) == \A a \in Admins : patch[a].at = "idle" \/ patch[a].w # w
BeginStart(w) ==
  /\ up /\ request[w].at = "idle" /\ row[w].state \in {"CREATED", "STOPPED", "ERROR"}
  /\ row' = [row EXCEPT ![w].state = "STARTING"]
  /\ request' = [request EXCEPT ![w] = [at |-> "scheduled", bytes |-> row[w].limit, fresh |-> NoPatch(w)]]
  /\ Spend("requests")
  /\ UNCHANGED <<host, enforced, check, up, local, patch, work, stale>>

BeginStop(w) ==
  /\ up /\ request[w].at = "idle" /\ row[w].state = "RUNNING"
  /\ row' = [row EXCEPT ![w].state = "STOPPING"]
  /\ request' = [request EXCEPT ![w] = [at |-> "stop"]]
  /\ queue' = Append(queue, [kind |-> "stop", w |-> w])
  /\ Calm /\ UNCHANGED <<host, enforced, check, up, local, patch, step, stale>>

BeginDelete(w) ==
  /\ up /\ request[w].at = "idle" /\ row[w].state \in {"STOPPED", "ERROR"}
  /\ row' = [row EXCEPT ![w].state = "DELETING"]
  /\ request' = [request EXCEPT ![w] = [at |-> "delete"]]
  /\ queue' = Append(queue, [kind |-> "delete", w |-> w])
  /\ Calm /\ UNCHANGED <<host, enforced, check, up, local, patch, step, stale>>

\* The handler goes on: from the policy to the ensure, from its answer to the
\* start, from the last answer to the row.
DispatchEnsure(w) ==
  /\ request[w].at = "scheduled"
  /\ request' = [request EXCEPT ![w].at = "ensure"]
  /\ queue' = Append(queue, [kind |-> "ensure", w |-> w, bytes |-> request[w].bytes])
  /\ UNCHANGED <<row, stale>>
DispatchStart(w) ==
  /\ request[w].at = "ensured"
  /\ request' = [request EXCEPT ![w].at = "start"]
  /\ queue' = Append(queue, [kind |-> "start", w |-> w])
  /\ UNCHANGED <<row, stale>>
FinishStart(w) ==
  /\ request[w].at = "started"
  /\ row' = [row EXCEPT ![w].state = "RUNNING"]
  /\ stale' = [stale EXCEPT ![w] = @ /\ ~request[w].fresh]
  /\ request' = [request EXCEPT ![w] = Idle]
  /\ UNCHANGED queue
FinishOther(w) ==
  /\ request[w].at \in {"stopped", "deleted", "failed"}
  /\ row' = [row EXCEPT ![w].state =
               CASE request[w].at = "stopped" -> "STOPPED"
                 [] request[w].at = "deleted" -> "gone"
                 [] request[w].at = "failed" -> "ERROR"]
  /\ request' = [request EXCEPT ![w] = Idle]
  /\ UNCHANGED <<queue, stale>>
Continue(w) ==
  /\ DispatchEnsure(w) \/ DispatchStart(w) \/ FinishStart(w) \/ FinishOther(w)
  /\ Calm /\ UNCHANGED <<host, enforced, check, up, local, patch, step>>

\* PATCH /api/admin/workspaces/:id: the row first, then the command.  A change
\* that meets another one, or a start on its way, may be overtaken by it.
UpdateLimit(a, w, bytes) ==
  /\ patch[a].at = "idle" /\ row[w].state \notin {"DELETING", "gone"} /\ row[w].limit # bytes
  /\ row' = [row EXCEPT ![w].limit = bytes]
  /\ patch' = [patch EXCEPT ![a] = [at |-> "send", w |-> w, bytes |-> bytes]]
  /\ stale' = [stale EXCEPT ![w] = @ \/ ~NoPatch(w) \/ request[w].at # "idle"]
  /\ request' = IF request[w].at \in Starting THEN [request EXCEPT ![w].fresh = FALSE] ELSE request
  /\ Spend("requests")
  /\ UNCHANGED <<host, enforced, check, up, local, work>>

DispatchLimit(a) ==
  /\ patch[a].at = "send"
  /\ IF up
       THEN /\ patch' = [patch EXCEPT ![a].at = "wait"]
            /\ queue' = Append(queue, [kind |-> "set", w |-> patch[a].w, bytes |-> patch[a].bytes, admin |-> a])
            /\ UNCHANGED stale
       ELSE /\ patch' = [patch EXCEPT ![a] = Idle]
            /\ stale' = [stale EXCEPT ![patch[a].w] = TRUE]
            /\ UNCHANGED queue
  /\ Calm /\ UNCHANGED <<host, enforced, check, up, local, row, request, step>>

\* A heartbeat that says "not enforced" makes the RUNNING rows ERROR.
NotRunning(r) == IF r.state = "RUNNING" THEN [r EXCEPT !.state = "ERROR"] ELSE r
recordWorkerEgress(r) == IF enforced.egress THEN r ELSE NotRunning(r)
recordWorkerStorage(r) == IF enforced.storage THEN r ELSE NotRunning(r)
recordEgressOnly == [w \in Workspaces |-> recordWorkerEgress(row[w])]
recordWorkerStatus == [w \in Workspaces |-> recordWorkerStorage(recordWorkerEgress(row[w]))]
Heartbeat ==
  /\ up /\ row' = recordWorkerStatus
  /\ Calm /\ UNCHANGED <<host, enforced, check, up, local, request, patch, work, stale>>

-----------------------------------------------------------------------------
(* The Worker's commands.                                                   *)

Command == Head(queue)
Executes(kind) == up /\ queue # <<>> /\ Command.kind = kind
AnswerOnly(w, what) ==
  /\ request' = [request EXCEPT ![w].at = what]
  /\ queue' = Tail(queue)
  /\ UNCHANGED step
Answer(w, what) ==
  /\ request' = [request EXCEPT ![w].at = what]
  /\ queue' = Tail(queue)
  /\ step' = "idle"

ensure ==
  /\ Executes("ensure")
  /\ LET w == Command.w stages == ensureStages(w, Command.bytes) IN
     \/ /\ Does(w, stages)
        /\ Answer(w, IF ensureRefused(w) THEN "failed" ELSE "ensured")
        /\ Calm
     \/ DoesSome(w, stages) /\ Answer(w, "failed") /\ Spend("upsets")
  /\ UNCHANGED <<host, enforced, check, up, row, patch, stale>>

\* start, up to the egress gate: a container that runs passes as it is.
startRefused(w) ==
  \/ ws[w].dir # "managed" \/ ws[w].container = "none"
  \/ needsMigration(ws[w]) \/ networkRefused(ws[w])
\* The gate loads the rules again if need be.
assertEgressEnforced == enforced' = [enforced EXCEPT !.egress = host.egress]
start ==
  /\ Executes("start") /\ step = "idle"
  /\ LET w == Command.w IN
     IF startRefused(w) THEN Answer(w, "failed") /\ UNCHANGED <<local, enforced>>
     ELSE /\ ws' = [ws EXCEPT ![w] = ensureNetwork(@)]
          /\ UNCHANGED limit
          /\ IF ws[w].container = "running"
               THEN step' = "wait" /\ UNCHANGED <<queue, request, enforced>>
               ELSE /\ assertEgressEnforced
                    /\ IF host.egress /\ ws[w].quota # NoQuota
                         THEN step' = "gated" /\ UNCHANGED <<queue, request>>
                         ELSE Answer(w, "failed")
  /\ Calm /\ UNCHANGED <<host, check, up, row, patch, stale>>

\* The projects are verified and repaired right before the container starts.
startPrepare ==
  /\ Executes("start") /\ step = "gated"
  /\ LET w == Command.w
         stages == IF enforced.storage THEN prepareStorage(ws[w], ws[w].quota.bytes) ELSE <<>> IN
     \/ /\ Does(w, stages)
        /\ IF enforced.storage THEN step' = "prepared" /\ UNCHANGED <<queue, request>>
           ELSE Answer(w, "failed")
        /\ Calm
     \/ DoesSome(w, stages) /\ Answer(w, "failed") /\ Spend("upsets")
  /\ UNCHANGED <<host, enforced, check, up, row, patch, stale>>

startContainer ==
  /\ Executes("start") /\ step = "prepared"
  /\ ws' = [ws EXCEPT ![Command.w].container = "running"]
  /\ step' = "wait"
  /\ Calm /\ UNCHANGED <<host, enforced, check, up, limit, control, queue>>

\* The readiness loop: ready, exited, or neither in time.
startReady ==
  /\ Executes("start") /\ step = "wait"
  /\ LET w == Command.w IN
     \/ Answer(w, IF ws[w].container = "running" THEN "started" ELSE "failed") /\ Calm
     \/ Answer(w, "failed") /\ Spend("upsets")
  /\ UNCHANGED <<host, enforced, check, up, local, row, patch, stale>>

stop ==
  /\ Executes("stop")
  /\ LET w == Command.w IN
     IF ws[w].dir # "managed" \/ ws[w].container = "none" THEN Answer(w, "failed") /\ UNCHANGED ws
     ELSE ws' = [ws EXCEPT ![w].container = "stopped"] /\ Answer(w, "stopped")
  /\ Calm /\ UNCHANGED <<host, enforced, check, up, limit, row, patch, stale>>

delete ==
  /\ Executes("delete")
  /\ LET w == Command.w IN
     \/ /\ ws[w].dir # "managed"
        /\ Answer(w, "failed") /\ Calm /\ UNCHANGED local
     \/ /\ ws[w].dir = "managed"
        /\ \/ /\ ws' = [ws EXCEPT ![w] = Removed]
              /\ \/ limit' = releaseWorkspace(w) /\ Calm
                 \/ UNCHANGED limit /\ Spend("upsets")
              /\ Answer(w, "deleted")
           \/ DoesSome(w, deleteStages(w)) /\ Answer(w, "failed") /\ Spend("upsets")
  /\ UNCHANGED <<host, enforced, check, up, row, patch, stale>>

setDiskLimit ==
  /\ Executes("set")
  /\ LET w == Command.w stages == setDiskLimitStages(w, Command.bytes) IN
     \/ /\ Does(w, stages)
        /\ stale' = [stale EXCEPT ![w] = @ \/ setDiskLimitRefused(w)]
        /\ Calm
     \/ /\ stages # <<>> /\ DoesSome(w, stages)
        /\ stale' = [stale EXCEPT ![w] = TRUE]
        /\ Spend("upsets")
  /\ patch' = [patch EXCEPT ![Command.admin] = Idle]
  /\ queue' = Tail(queue)
  /\ UNCHANGED <<host, enforced, check, up, row, request, step>>

\* inspectForRecovery of every assignment: what runs unguarded is stopped, a
\* stored limit is brought up to date.  A container made under other resource
\* limits than the Worker's is refused before any of that: it runs on.  Docker and
\* the filesystem do not fail here: a stop that failed would leave the row
\* RECOVERING, a limit that was not set (#recordRecoveredDiskLimit) a stale one,
\* and the next hello tries both again.
Unguarded(w) ==
  needsMigration(ws[w]) \/ ~enforced.storage \/ ~enforced.egress \/ ws[w].network = "legacy"
mismatched(s) == ~s.fits
Inspectable(w) ==
  /\ ws[w].dir = "managed" /\ ws[w].container # "none" /\ ws[w].network # "none"
  /\ ~mismatched(ws[w])
NeverRecovers(w, bytes) == FALSE
Recovers(w, bytes) == ws[w].quota # NoQuota /\ ws[w].quota.bytes # bytes /\ enforced.storage
\* A change that got no further than the filesystem is not seen here.
Recovered(w, bytes) ==
  /\ enforced.storage /\ NoPatch(w) /\ row[w].limit = bytes
  /\ ws[w].quota # NoQuota
  /\ ws[w].quota.bytes # bytes \/ limit[ws[w].quota.project] = bytes
reconcile ==
  /\ Executes("reconcile")
  /\ LET bytes == Command.bytes
         inspected == {w \in DOMAIN bytes : Inspectable(w)}
         stopped == {w \in inspected \cap Running : Unguarded(w)}
         recorded == {w \in inspected : Recovers(w, bytes[w])} IN
     /\ ws' = [w \in Workspaces |->
                 [ws[w] EXCEPT !.container = IF w \in stopped THEN "stopped" ELSE @,
                               !.quota = IF w \in recorded THEN [@ EXCEPT !.bytes = bytes[w]] ELSE @]]
     /\ limit' = [p \in Projects |->
                    IF \E w \in recorded : ws[w].quota.project = p
                      THEN bytes[CHOOSE w \in recorded : ws[w].quota.project = p] ELSE limit[p]]
     /\ row' = [w \in Workspaces |->
                  IF w \notin DOMAIN bytes THEN row[w]
                  ELSE [row[w] EXCEPT !.state =
                          IF w \in stopped \/ w \notin inspected THEN "ERROR"
                          ELSE IF w \in Running THEN "RUNNING" ELSE "STOPPED"]]
     /\ stale' = [w \in Workspaces |-> stale[w] /\ ~(w \in inspected /\ Recovered(w, bytes[w]))]
  /\ queue' = Tail(queue)
  /\ Calm /\ UNCHANGED <<host, enforced, check, up, request, patch, step>>

\* What the gateway lets a browser reach.
gatewayTarget(w) ==
  /\ ws[w].dir = "managed" /\ ws[w].container = "running" /\ ~needsMigration(ws[w])
  /\ enforced.storage /\ enforced.egress

Commands ==
  \/ ensure \/ start \/ startPrepare \/ startContainer \/ startReady
  \/ stop \/ delete \/ setDiskLimit \/ reconcile

-----------------------------------------------------------------------------
(* The timed checks, and the daemon's start, which runs one first.          *)

\* A check that fails lists the running containers and stops them one by one:
\* one that starts after the list waits for the next check.
Moves(c, at, failed) ==
  check' = [check EXCEPT ![c] = [at |-> at, left |-> IF failed THEN Running ELSE {}]]
checkEgress(c) ==
  /\ check[c].at = "idle"
  /\ enforced' = [enforced EXCEPT !.egress = host.egress]
  /\ Moves(c, "egress", ~host.egress)
  /\ UNCHANGED <<ws, control, queue, up>>
checkStorageOnLoss(c) ==
  /\ check[c].at = "egress" /\ check[c].left = {}
  /\ enforced' = [enforced EXCEPT !.storage = host.storage]
  /\ Moves(c, "storage", enforced.storage /\ ~host.storage)
  /\ UNCHANGED <<ws, control, queue, up>>
checkStorage(c) ==
  /\ check[c].at = "egress" /\ check[c].left = {}
  /\ enforced' = [enforced EXCEPT !.storage = host.storage]
  /\ Moves(c, "storage", ~host.storage)
  /\ UNCHANGED <<ws, control, queue, up>>
stopRunning(c) ==
  /\ \E w \in check[c].left :
       /\ ws' = [ws EXCEPT ![w].container = IF @ = "running" THEN "stopped" ELSE @]
       /\ check' = [check EXCEPT ![c].left = @ \ {w}]
  /\ UNCHANGED <<enforced, control, queue, up>>
\* After the first check the daemon connects: its hello carries the flags, and
\* the Control Plane has the rows reconciled.
checked(c) ==
  /\ check[c].at = "storage" /\ check[c].left = {}
  /\ Moves(c, "idle", FALSE)
  /\ up' = TRUE
  /\ IF up THEN UNCHANGED queue
     ELSE queue' = <<[kind |-> "reconcile",
                      bytes |-> [w \in {v \in Workspaces : Assigned(v)} |-> row[w].limit]]>>
  /\ UNCHANGED <<ws, enforced, control>>
First == CHOOSE c \in Checks : TRUE
Check(c) ==
  /\ up \/ c = First
  /\ checkEgress(c) \/ checkStorage(c) \/ stopRunning(c) \/ checked(c)
  /\ Calm /\ UNCHANGED <<host, limit, step>>

-----------------------------------------------------------------------------
(* The operator's tool for a Workspace of an earlier release, while it is    *)
(* stopped: the home is copied out of the container, then the container goes. *)

\* A home that holds anything is refused, so a copy that broke off stays.
CopyHome(w) ==
  /\ ws[w].dir # "none" /\ ws[w].container = "stopped" /\ ws[w].shape = "legacy" /\ ws[w].home = "empty"
  /\ Spend("requests")
  /\ \E home \in {"partial", "copied"} : ws' = [ws EXCEPT ![w].home = home]
  /\ UNCHANGED <<host, enforced, check, up, limit, control, work>>
RemoveLegacyContainer(w) ==
  /\ ws[w].container = "stopped" /\ ws[w].shape = "legacy" /\ ws[w].home = "copied"
  /\ ws' = [ws EXCEPT ![w].container = "none"]
  /\ Calm /\ UNCHANGED <<host, enforced, check, up, limit, control, work>>

-----------------------------------------------------------------------------
(* Faults.                                                                  *)

\* nft fails, the filesystem is remounted without quotas; or works again.
Lose(g) ==
  /\ host[g] /\ Spend("upsets")
  /\ host' = [host EXCEPT ![g] = FALSE]
  /\ UNCHANGED <<enforced, check, up, local, control, work>>
Regain(g) ==
  /\ ~host[g]
  /\ host' = [host EXCEPT ![g] = TRUE]
  /\ Calm /\ UNCHANGED <<enforced, check, up, local, control, work>>

\* The daemon dies in the middle of whatever it does.  Containers go on, or are
\* started again by Docker if the host went down.
Begun ==
  IF ~up \/ queue = <<>> THEN <<>>
  ELSE CASE Command.kind = "ensure" -> ensureStages(Command.w, Command.bytes)
         [] Command.kind = "delete" -> IF ws[Command.w].dir = "managed" THEN deleteStages(Command.w) ELSE <<>>
         [] Command.kind = "set" -> setDiskLimitStages(Command.w, Command.bytes)
         [] OTHER -> <<>>
Restart ==
  /\ Spend("upsets")
  /\ IF Begun = <<>> THEN UNCHANGED local ELSE DoesSome(Command.w, Begun)
  /\ up' = FALSE /\ queue' = <<>> /\ step' = "idle"
  /\ enforced' = [g \in Guards |-> FALSE]
  /\ check' = [c \in Checks |-> [at |-> "idle", left |-> {}]]
  /\ row' = [w \in Workspaces |-> IF Assigned(w) THEN [row[w] EXCEPT !.state = "RECOVERING"] ELSE row[w]]
  /\ request' = [w \in Workspaces |-> Idle]
  /\ patch' = [a \in Admins |-> IF patch[a].at = "wait" THEN Idle ELSE patch[a]]
  /\ stale' = [w \in Workspaces |-> stale[w] \/ \E a \in Admins : patch[a].at = "wait" /\ patch[a].w = w]
  /\ UNCHANGED host

-----------------------------------------------------------------------------

\* A Worker about to start its daemon: containers of an earlier release may run,
\* some from before egress rules, some under resource limits that have changed
\* since; the other Workspaces do not exist on it yet.
Earlier(first) ==
  IF first.network = "none" THEN Removed
  ELSE [Removed EXCEPT !.dir = "managed", !.home = "empty", !.network = first.network,
                       !.container = "running", !.shape = "legacy", !.fits = first.fits]
Init ==
  /\ host = [g \in Guards |-> TRUE] /\ enforced = [g \in Guards |-> FALSE]
  /\ check = [c \in Checks |-> [at |-> "idle", left |-> {}]]
  /\ up = FALSE
  /\ \E first \in AtFirst :
       /\ ws = [w \in Workspaces |-> IF w \in DOMAIN first THEN Earlier(first[w]) ELSE Removed]
       /\ row = [w \in Workspaces |->
                   [state |-> IF w \notin DOMAIN first THEN "gone"
                              ELSE IF first[w].network = "none" THEN "CREATED" ELSE "RECOVERING",
                    limit |-> DefaultLimit]]
  /\ limit = [p \in Projects |-> 0]
  /\ request = [w \in Workspaces |-> Idle] /\ patch = [a \in Admins |-> Idle]
  /\ queue = <<>> /\ step = "idle"
  /\ stale = [w \in Workspaces |-> FALSE]
  /\ budget = [requests |-> MaxRequests, upsets |-> MaxUpsets]

Next ==
  \/ \E w \in Workspaces : BeginStart(w) \/ BeginStop(w) \/ BeginDelete(w) \/ Continue(w)
  \/ \E a \in Admins :
       \/ DispatchLimit(a)
       \/ \E w \in Workspaces, bytes \in Limits : UpdateLimit(a, w, bytes)
  \/ Heartbeat \/ Commands
  \/ \E w \in Workspaces : CopyHome(w) \/ RemoveLegacyContainer(w)
  \/ \E c \in Checks : Check(c)
  \/ \E g \in Guards : Lose(g) \/ Regain(g)
  \/ Restart

\* The timers fire, the Worker executes what it is sent, handlers go on.
Fairness ==
  /\ WF_vars(Commands) /\ WF_vars(Heartbeat)
  /\ \A c \in Checks : WF_vars(Check(c))
  /\ \A w \in Workspaces : WF_vars(Continue(w))

Spec == Init /\ [][Next]_vars /\ Fairness

-----------------------------------------------------------------------------

TypeOK ==
  /\ enforced \in [Guards -> BOOLEAN] /\ limit \in [Projects -> Limits \cup {0}]
  /\ \A w \in Workspaces : ws[w].quota # NoQuota => ws[w].dir = "managed" /\ ws[w].quota.project \in Projects
  /\ \A w \in Workspaces : request[w].at \in {"ensure", "start", "stop", "delete"} =>
       \E i \in DOMAIN queue : queue[i].kind = request[w].at /\ queue[i].w = w
  /\ step # "idle" => Executes("start")

\* Whatever was deleted, interrupted, changed or reused before: a container that
\* runs does so in directories of its own project, which has a limit and belongs
\* to no other Workspace, on a network the rules match, and with the home it had
\* under an earlier release, unless a deletion took that.  One of an earlier release is never served, and runs
\* only until the Worker's first reconciliation has stopped it.
Contained(w) ==
  /\ ws[w].shape = "current" /\ ws[w].network = "current" /\ ws[w].quota # NoQuota
  /\ ws[w].tag = ws[w].quota.project
  /\ limit[ws[w].quota.project] # 0
  /\ \A v \in Workspaces \ {w} : ws[v].quota = NoQuota \/ ws[v].quota.project # ws[w].quota.project
  /\ ws[w].seeded /\ ws[w].home \in {"copied", "lost"}
RunningIsContained ==
  \A w \in Running :
    \/ Contained(w)
    \/ ws[w].shape = "legacy" /\ ~gatewayTarget(w) /\ (row[w].state = "RECOVERING" \/ mismatched(ws[w]))

\* Once no change is on its way, a container that runs has the row's limit, unless
\* a change failed, or met a start or another change.
LimitsSettle ==
  \A w \in Running : NoPatch(w) /\ ~stale[w] /\ ws[w].quota # NoQuota =>
    limit[ws[w].quota.project] = row[w].limit

\* When egress rules or quotas are lost for good nothing goes on running, starts
\* on their way included.
FailsClosed ==
  \A g \in Guards : <>[](~host[g]) => <>[](Running = {})

\* And the Portal does not go on showing it as running.
ShownStopped ==
  \A g \in Guards : <>[](~host[g]) => <>[](\A w \in Workspaces : row[w].state # "RUNNING")
=============================================================================
