# Verification of pi-container

pi-container is a multi-user platform that runs coding agents in containers. A
Control Plane (Fastify, PostgreSQL) owns users, Workspaces and Workers; each
Worker is a daemon next to a Docker engine; between them runs one websocket per
Worker. This directory holds TLA+ models of the parts whose correctness depends
on the order in which independent parties act, the TLC configurations that check
them, and TLAPS proofs of what holds for every size of the system.

Paths below are relative to the repository root.

## The system's parts

| Part | State | Operations | Talks to |
|---|---|---|---|
| Placement (`packages/database/src/scheduling.ts`, `control-plane/src/scheduler.ts`) | `workspaces.worker_id`, the columns of `workers` that selection reads, one advisory lock | first start, pause, hello, heartbeat, sweep, revocation, deletion | requests, Worker hello |
| Requests (`routes/workspaces.ts`, `routes/workspace-runtime.ts`, `workspace-lifecycle.ts`, `runtime-changes.ts`) | the row's state, desired state, image, previous image | start, stop, delete, Runtime change | placement, control channel |
| Control channel (`worker-channel.ts`, `worker-control.ts`, `worker-revocation.ts`, `worker/src/daemon.ts`) | registered socket, pending commands with timers; the Worker's command queue | dispatch, answer, timeout, close, supersede | requests, recovery, Worker Runtime |
| Recovery (`recovery.ts`, `runtime-commands.ts`) | the rows it reset, the report it waits for | restart of the Control Plane, hello, reconcile, application row by row | control channel, rows |
| Worker Runtime (`worker/src/runtime.ts`) | directory and metadata file, container, network, quota of each Workspace | ensure, start, stop, delete, setRuntime, reconcile, fail-closed stop | control channel, egress, quotas |
| Model keys (`model-keys.ts`, `model-gateway/key-manager.ts`, `worker/src/model-relay`) | key rows, keys at the gateway, keys the Worker holds | issue, activate, deliver, revoke, reconcile, expire | gateway (HTTP), control channel |
| Egress policy (`database/src/egress.ts`, `worker/src/egress`) | policy revision; the Worker's applied revision and nftables table | change, broadcast, apply, verify, fail closed | start requests, recovery |
| Disk quotas (`worker/src/storage`, `database/src/storage.ts`) | project IDs in metadata files, limits in XFS | allocate, apply, release, probe | Worker Runtime |
| Idle stop (`control-plane/src/idle`) | last access in memory and in the row, CPU activity | touch, flush, decide, stop | gateway, requests |
| Workspace gateways (`control-plane/src/gateway.ts`, `session-exchange.ts`, `packages/gateway`) | one-time codes, open connections per session | issue, consume, connect, cut off | sessions |
| Accounts and sign-in (`users.ts`, `identities.ts`, `auth-external.ts`, `oidc.ts`, `oauth2.ts`) | users, identities, sessions, login states | sign in, link, disable, revoke | throttle |
| Login throttle (`auth-throttle.ts`, `login-guard.ts`) | counters per scope and key | hit, clear, lock | sign-in |
| Migrations, audit, metrics, portal, configuration, deployment | - | - | - |

### What is hard about each, and what makes it correct

- **Placement.** A transaction of several statements runs beside hellos,
  revocations and deletions that do not share its lock. Correct: no Worker gets
  more Workspaces than it offered room for; a pause is final; an assignment never
  moves and never dangles.
- **Requests, channel, recovery, Worker Runtime.** A request is a read, a
  conditional UPDATE, one to three commands with a timer each, and another
  conditional UPDATE; recovery resets and rewrites the same rows; commands run
  late, get lost, or run without anybody waiting. Correct: intent and state agree,
  every transition has somebody who ends it, RUNNING and STOPPED are true, a
  deleted Workspace leaves nothing behind, every request ends, a Workspace
  reappears after an interruption (unless a delete left its directories half removed).
- **Model keys.** Issuing crosses an HTTP call during which the key may be revoked;
  deletion at the gateway and in the table are two steps. Correct: no key stays
  live at the gateway behind a revoked row; one live key per Workspace; every
  revocation is eventually confirmed.
- **Egress.** Two administrators edit one rule set, every edit is broadcast by a task
  that reads the policy again, and application may fail or die half way. Correct: no
  allow rule opens what is not denied; a confirmed revision is not undone
  while restarts find the files as they were left; a table that
  read back as enforced treats every packet as the policy promises.
- **Quotas and failing closed.** IDs are allocated from files and released after
  deletion; timed checks run beside the commands; limits are changed by statements that
  do not wait for each other. Correct: a container that runs does so in its own projects,
  under a limit and behind the rules; when rules or quotas are lost for good nothing goes
  on running, nor is it shown as running.
- **Model relay.** It knows a Workspace by the addresses of its connection, which Docker
  reuses. Correct: a request goes out with the key of the Workspace it comes from.
- **Idle stop.** The decision combines connections, accesses in memory and CPU samples of
  one process with the rows. Correct: what is in use or at work is not stopped, and no
  access is lost, however flushes overlap and fail.
- **Gateways and sessions.** A session is looked up, and revoked, between any two steps of
  a connection. Correct: a code grants one cookie; no connection survives the end of its
  session.
- **Accounts.** Administrators change each other in transactions that see what is
  committed when a statement begins. Correct: an active Local Admin and a way to sign in
  for every user remain.
- **Throttle.** Windows, locks, cleanups and attempts in flight meet at their boundaries.
  Correct: failures within a window's length are bounded.

## Modules

| Module | Models | Role |
|---|---|---|
| `AtomicPlacement` | what first placement promises | abstract specification |
| `Placement` | the transaction of `scheduleWorkspaceStart` and all it races with | implements `AtomicPlacement` |
| `PlacementProofs` | - | TLAPS proofs about `Placement` |
| `WorkspaceLifecycle` | requests, channel, Worker Runtime, recovery and upsets, composed | detailed specification |
| `LifecycleProofs` | - | TLAPS proofs about `WorkspaceLifecycle` |
| `MCLifecycleRaces` | three scenarios of `WorkspaceLifecycle`, for one run and for the proofs about requests alone | restriction of `WorkspaceLifecycle` |
| `RequestsProofs` | - | TLAPS proofs about `MCLifecycleRaces`, and about recoveries in `WorkspaceLifecycle` |
| `ModelKeys` | one Workspace's virtual keys: rows, gateway, Worker, and what changes them | detailed specification |
| `ModelKeysProofs` | - | TLAPS proofs about `ModelKeys` |
| `EgressRules` | what a rule set means: intervals, checks, nftables table, packet path | pure operators |
| `EgressPolicy` | edits, broadcasts, the Worker's `EgressController` | composes `EgressRules` |
| `EgressProofs` | - | TLAPS proofs about `EgressRules` and `EgressPolicy` |
| `FailClosed` | quotas, limits, gates and checks around the commands of a Worker | detailed specification |
| `FailClosedProofs` | - | TLAPS proofs about `FailClosed` |
| `LoginThrottle` | counters and locks of sign-in | pure operators |
| `Accounts` | users, identities, sessions, sign-in, over `LoginThrottle` | part of `WorkspaceAccess` |
| `WorkspaceAccess` | codes, gateway connections, revocation, accesses, idle stop | composes `Accounts` |
| `AccessProofs` | - | TLAPS proofs about `Accounts` and `WorkspaceAccess` |
| `ModelRelay` | whose request the Worker's relay forwards with whose key | detailed specification |
| `RelayProofs` | - | TLAPS proofs about `ModelRelay` |
| other `MC...` | - | instances for TLC |

Where two modules touch the same component each takes it from one side. A stop is
`WorkspaceLifecycle`'s from the UPDATE on; `WorkspaceAccess` models how the idle sweep
comes to it and has the rest in one step. `EgressPolicy` says which policy is in force,
`FailClosed` what happens to containers when none is; there a policy is one guard that
the host allows or does not. `ModelKeys` follows one Workspace's keys, `ModelRelay` takes
them as held or not and follows the connections.

### Placement

`row` and `worker` are the two tables, `lock` the advisory lock
(`SCHEDULER_ADVISORY_LOCK_ID`), `tx` the start requests. A placement has the steps
between which other transactions can commit: `Begin` (advisory lock, `FOR UPDATE`),
`Choose` (the candidate query and `selectWorker`) and `Commit`. The row lock is
`RowLocked`: UPDATEs and DELETEs of that Workspace wait for it. `worker[k].peak`
records the largest capacity the Worker ever declared: a hello may lower
`max_workspaces` below what is already assigned, so the current capacity is no
bound. The list of connected Workers is read before the transaction and may be any
set. `selectWorker`'s tests other than connection, pause and room are one status.

`AtomicPlacement` decides a placement in one step, `Place`, in which the Worker is
fit, not paused and has room. `Placement` implements it with the mapping `VisibleRow`:
while a choice is not committed, nobody else can see or touch the row.

### WorkspaceLifecycle

One Worker; its Workspaces share the connection, the queue and the recoveries.

| Variable | Code |
|---|---|
| `row` | `workspaces`: state, desired_state, runtime_image, previous_runtime_image, whether runtime_changed_at is set |
| `status` | `workers.status` |
| `link` | the socket: `down`, `up`, `lost` (the Worker is gone, the close event has not come), `revoked` (open, credential no longer valid), `closing` |
| `req` | handlers of start, stop, delete and Runtime change: where they are and what they read |
| `rec` | runs of `onHelloAccepted` / `reconcileWorkerWorkspaces` |
| `queue` | commands on the wire or in `#commandQueue`, executed in order |
| `box` | what the Worker has: image named by the metadata, previous image, container and its image, and whether directories that the metadata stands for are gone (`half`) |
| `upsets` | adverse events so far |

Actions follow the code's awaits. `Ask...` is the read and the checks before the
first UPDATE, `Begin...` that UPDATE, `Call` a dispatch, `Worker...` the execution of
the head of the queue, `Timeout` and `NoticeClose` the ends of a wait without an
answer, `Finish...`, `RevertChange` and `MarkFailure` the last UPDATE. Recovery is
`Hello`, `Greet` (the egress policy goes out first), `BeginRecovery`,
`CallReconcile`, `WorkerReconcile`, `ApplyOne` per row, `EndRecovery`. A command that
fails leaves any state its statements pass through (`InterruptedEnsure`,
`InterruptedSwitch`, ...); so does one during which the daemon dies (`WorkerCrash`). The
recursive removal of a delete goes file by file (`InterruptedDelete`): it may stop with a
directory without metadata (`TornBox`), which is refused ever after, or with metadata
without its directories (`half`), which every command but an ensure refuses and a
reconciliation reports as retryable; a daemon that dies may also have removed everything
(`CrashedDelete`).

A command and the arrival of its answer are one step. The containers change only in
the Worker's queue, and an answer that arrives later than its command ran has the
same effect as the command running later, since nothing else observes the Worker.

Upsets, the kinds of adverse events: `timeout` (before the answer), `fault` (a command
fails anywhere), `withdrawn` (the Worker refuses the image), `moved` (the image's tag
moves during a Runtime change), `drop` (connection lost), `stall` (no heartbeat for
too long on a live connection), `revoke`, `crash` (Worker), `failclosed`, `restart`
(Control Plane). Each cfg names the kinds it allows and how many (`MaxUpsets`).

### ModelKeys

A key is its alias, a number. Three places know it and change on their own.

| Variable | Code |
|---|---|
| `keys`, `ripe` | `model_keys.status`; rows old enough for `expireStaleModelKeyIssues` or due for `listDueModelKeyRevocations` |
| `gateway`, `creating` | keys at the model gateway; `/key/generate` requests it has not decided |
| `held`, `queue` | the Worker's key store and file; `set`, `clear` and `reconcile` commands on their way |
| `sent` | aliases whose secret left the Control Plane (a history of `DeliverKey`) |
| `issuer` | the `ensureWorkspaceKey` call of each alias |
| `pass`, `rec` | the maintenance pass, the reconciliation after a hello |
| `ws`, `active`, `enabled`, `link` | Workspace, owner, Worker and connection, as far as keys depend on them |

Issue: `StartIssuesKey` or `PassIssuesKey` (`beginModelKeyIssue`), `GatewayCreates`,
`ActivateModelKey`, `DeliverKey`, `SetKey`, with `IssueFails` and `RevokeUndelivered` for
the error paths. Revocation: `BeginPass`, `ExpireStaleModelKeyIssues`, then for each due
row `RevokeNext` (clear on the Worker), `GatewayDeletes` or `DeleteFails`,
`RecordRevoked`; `FinishRevocations` and `PassIssuesKey` re-issue. Reconciliation:
`AskForHoldings`, `CompareHoldings`, `RevokeLost`. The triggers of migrations 0012 and
0013 are part of `DisableUser`, `DisableWorker`, `BeginWorkspaceDelete` and
`DeleteConfirmed`.

Abstractions. A `kick` is an early tick of the timer. A restart of the Worker is a lost
connection: it writes the file before it serves a key and stops serving before it
removes the file. SQL statements do not fail. One reconciliation runs at a time. A
Worker is enabled again only after its old connection is gone (it has a new credential
by then). `WorkerErases`, `DeleteGivenUp` and `DeleteConfirmed` stand for the delete
request, its failure and the recovery that resets it, in any order the lifecycle allows.

### EgressRules and EgressPolicy

Addresses have `Bits` bits (3 in the run); everything else of `egress.ts`, `ruleset.ts`
and the checks of a candidate rule set is kept: `intervalCovered`, `AllowCovered`,
`effectiveEgressRules`, `renderEgressTransaction`, `verifyEgressListing`. `Passes` is the
kernel's verdict on a packet under a rendered table (external), `Promised` what the
documents say of the rule set itself; `VerifiedTableKeepsPromise` compares the two for
every packet there is.

| Variable | Code |
|---|---|
| `rules`, `revision` | `egress_rules`, `egress_policy_state` |
| `admin` | the edit each administrator is serving, between its checks and its commit |
| `task` | `applyWorkerEgress`: one per committed revision (`broadcastEgressPolicy`) and those a start or greeting waits for |
| `queue` | the Worker's command queue |
| `ctl`, `apply` | `EgressController`: `#policy`, `#localProtected`, `#enforced`; the operation in progress |
| `table`, `disk` | the live nftables table; `policy.json` and `ruleset.json`, and what each held before its last write |
| `confirmed` | revisions `applyWorkerEgress` returned true for since the last restart that lost, or could not read, what was on disk (history) |

The controller installs, persists and reads back in steps of their own (`Install`,
`Persist`, `Confirm`), and may die between any two (`Restart`, with or without a reboot that
takes the table with it). The files are renamed into place and not synced, so that after a
reboot each is as written, as before its last write, or unreadable (`Found`). The unit that runs
before Docker loads `ruleset.json`, or else the base rules (`Booted`), and the controller
begins with the policy in `policy.json`, or with none if anything is wrong with the file:
reading it may fail at any restart. `Drift` is somebody else flushing the table or one of its
sets; changed rules of a chain are left out.

### FailClosed

| Variable | Code |
|---|---|
| `host`, `enforced` | whether the host allows enforcement; `EgressController.#enforced`, `StorageController.#status` |
| `check` | timer ticks at work: an interval does not wait for the last one |
| `ws`, `limit` | directory, metadata, project, network, container of each Workspace; limits in XFS |
| `row` | state and `disk_limit_bytes` |
| `request`, `patch` | starts, stops, deletes; limit changes of administrators |
| `queue`, `step` | commands at the Worker; how far it is within `workspace.start` |
| `stale` | the limit in force may not be the row's before the next start (history) |

Calls that change directories are sequences of states (`...Stages`): a call that fails or
dies with the daemon stops after any of them. Containers of earlier releases, on the
legacy network or under other resource limits, are initial states (`AtFirst`).

Docker and the filesystem do not fail within a reconciliation. There a failed stop is
reported as retryable and leaves the row RECOVERING, which `RunningIsContained` excuses for
as long as nobody asks for the Workspace; a failed `setDataLimit` is swallowed
(`runtime.ts:1795`) and leaves an outdated limit in force, which `LimitsSettle` would have to
excuse as `stale`. The next hello, or for the limit the next start, tries again.

### Accounts, LoginThrottle and WorkspaceAccess

| Variable | Code |
|---|---|
| `user`, `identity`, `session`, `throttle` | `users`, `user_identities`, `user_sessions`, `auth_throttle` |
| `handle` | the OIDC and OAuth2 transaction stores |
| `request` | HTTP handlers: where they are and what they read |
| `row`, `worker` | Workspace state and activity times; whether the Worker is enabled and connected |
| `code`, `post`, `cookie` | `WorkspaceSessionExchange.#records`, exchanges in progress, cookies of Workspace hosts |
| `conn`, `registry` | gateway connections; `SessionConnectionRegistry.#connections` |
| `tracker`, `flush` | `WorkspaceAccessTracker.#states`, flushes being written |
| `usage`, `cpu` | the Worker's last samples; `ComputeActivityTracker.#states` |
| `sweep`, `started` | `IdleStopper` sweeps, when this process started |
| `guesses`, `issued`, `used`, `work` | histories: the failures of the last window per counter, what a code granted, when the Gateway last served a Workspace, when a container last worked |
| `left` | what is left of the run's workload |

A transaction is split where others can wait for it or not see its rows: `LockUser` and
`UpdateManagedUser`, `LockIdentities` and `UnbindExternalIdentity`, `InsertSession` and
`CommitSession`. A handler that revokes ends `cutting`: closing connections is its last
step (`Cut`).

Abstractions. Time is a counter; windows, buckets and intervals are a few ticks. The two
reads of a login are one. The OIDC and OAuth2 stores are one. A closed WebSocket leaves
the registry in the turn of the event loop that closes it. The candidates of a sweep come
in any order and are not limited in number. A round of CPU samples is one step, and the
Worker's clock is the Control Plane's. Client addresses are as resolved.

### ModelRelay

| Variable | Code |
|---|---|
| `box`, `network` | containers and the Docker network, which stands for the two addresses of a connection |
| `command` | the command being executed |
| `held` | `ModelKeyStore.#keys` |
| `endpoints`, `refreshing`, `recent` | `ModelRelay.#endpoints`, `#refreshing`, `#lastRefresh` |
| `active` | `ModelRelay.#active` |
| `from`, `conn` | whose container a connection is from; the request on it and whom it is known as |
| `orphaned` | networks that the map, or the list about to replace it, has for a Workspace that lost them and whose key is there: after a failed delete, or when it was deleted and given a key again |

A request is handled as it arrives; what waited for a refresh goes on before another
refresh or command begins. Pipelining, refused paths and bodies, and networks from before
the egress rules are left out.

## Runs

| Run | Instance | Shows |
|---|---|---|
| `placement` | 2 Workspaces, 2 Workers, 2 requests, capacities 1 and 2 | `TypeOK`, `NoOvercommit`, `AssignmentsResolve`, `PauseStopsPlacement`, `StickyAssignment`, and that `Placement` implements `AtomicPlacement` |
| `lifecycle_races` | 2 requests, 2 images; alone with 2 upsets of 7 kinds, the same without Runtime changes, or with 1 recovery, no Runtime changes and 1 upset of 5 kinds | `TypeOK`, `IntentMatchesState`, `TransitionsOwned`, `RequestsLeaveNothing`, `RequestsTellTruth`, `RecoveryTellsTruth` |
| `lifecycle_liveness` | 1 request, 1 recovery, 2 images, 1 of drop, restart, crash, stall, failclosed, one Runtime change | `RequestsEnd`, `ReconciliationsEnd`, `TransitionsEnd`, `Reappears` under fairness |
| `model_keys` | 2 keys, 2 upsets, 2 changes by others, 3 of all these together | `TypeOK`, `LiveKeysAreOwned`, `NoUsableKeyIsRevoked`, `ClearsSpareTheActiveKey`, `TransientKeysEnd` under `FairSpec` |
| `egress_policy` | 3-bit addresses, 2 administrators, 2 edits, 1 start, 1 upset | `TypeOK`, `AllowsStayCovered`, `ConfirmedPolicyHolds`, `BroadcastsConverge`, `VerifiedTableKeepsPromise` |
| `fail_closed` | 2 Workspaces, 1 check, 1 administrator, 2 projects, 2 limits, 2 requests, 1 upset; both new, or one left running by an earlier release | `TypeOK`, `RunningIsContained`, `LimitsSettle`, and `FailsClosed`, `ShownStopped` under fairness |
| `access` | 4 users, 3 sessions, 2 Workspaces, 2 each of requests, connections, codes, exchanges and flushes, 1 sweep; 23 workloads | `TypeOK`, `AccountsStayUsable`, `GuessesAreBounded`, `ConnectionsAreRightful`, `CodesGrantOnce`, `AccessIsRecorded`, `IdleStopSparesUse` |
| `model_relay` | 2 Workspaces, networks and connections, 6 commands, 1 upset | `KeysStayHome`, and `RunningIsServed` under fairness |
| `stuck_change` | 1 request, 2 images, 1 fault | violates `InterruptedChangeCanBeRetried` |
| `stale_revert` | 2 requests, 2 images, a fault and a refusal | violates `RevertedImageIsInstalled` |
| `orphan_after_recovery` | 1 recovery, 2 requests, no upset | violates `DeletionIsClean` |
| `revoked_key_lives` | 1 key, no upset, 1 change | violates `RevokedKeysAreGone` |

Bounds of the lifecycle. One Workspace is enough: handlers and statements name one
Workspace, and what Workspaces of a Worker share (connection, queue, recovery) is
shared by the requests of one as well. Two requests race for every conditional
UPDATE. One recovery at a time is a restriction: two overlap only when the connection is
lost twice within one recovery. Two images are the ends of a Runtime change. Queue length
is bounded by the requests and recoveries that wait plus the timeouts allowed. The upsets
are limited because each adds behaviour at every point; the run that allows one kind
allows it anywhere. In `lifecycle_races` the recovery excludes drops, crashes and
revocations: with a second connection the report of the first recovery may meet rows that
later requests returned to the same state (see Divergences). `RequestsLeaveNothing` and
`RequestsTellTruth` are `DeletionIsClean`, `RunningTellsTruth` and `StoppedTellsTruth` among
requests alone; a recovery that races with requests breaks them, which
`orphan_after_recovery` shows for the first. `StoppedTellsTruth` is claimed where no Runtime
is changed (the second scenario): two requests would not refute it with Runtime changes,
three do (see Divergences), which the attempt to prove it brought up. `OneChange` in `lifecycle_liveness` bounds Runtime changes to one and its retries. `Reappears`
is claimed of every Workspace but those whose directories are half removed: without that
condition one crash within a delete refutes it (see Divergences).

Bounds of the others. Two keys are a key and its successor, which is all that a delayed
clear, a stale report or a second issue can confuse; what undoes a change (`EnableUser`,
`EnableWorker`, `DeleteGivenUp`) is not counted, so a user can be disabled, enabled and
given a new key within the bounds. Two edits of a policy are the race of a delete with the
allow rule that needs it, and two broadcasts in either order; three bits give blocks,
their covers and gaps between them. The instance has a model relay, whose rules the base
table of the boot unit does not have, so that it never verifies (`Booted`). Two projects for two Workspaces make every released ID
one to be reused. A workload of `access` says how many requests of each kind and ticks there are;
each is the smallest that lets one group of parties meet (two administrators removing each
other; a sign-in and the disabling of its user; an upgrade, the sign-out of its session and
its browser leaving; a sweep, samples, accesses and a restart), because all of them at once
are out of reach. Times are in ticks: samples may be 2 apart, a bucket is 3 and the idle
window is 3, so that buckets too short to count, and a counter that starts over and passes
its old value between two samples, both occur. Two
connections and two networks are one taken for the other; a limit of one request per
Workspace is reached by the second. The six commands and the upset are enough to delete a
Workspace, give its addresses to another, create it again with a key and start the other
while the map is stale (a delete, two of `ensure`, `setKey`, `start`).

Deadlock is checked for `placement`. The other systems may stop for good: Workspaces are
deleted, workloads and bounds are used up, and nobody asks. Symmetry is used for safety
only.

Fairness. *Lifecycle*: handlers and recoveries go on after every await (JavaScript promises
settle, SQL statements return, and each dispatch has a timer, `worker-channel.ts:124`); the
Worker drains its queue (`daemon.ts:306`); the channel's close event arrives (TCP keepalive
and the daemon's reconnect); the daemon reconnects for as long as it runs
(`#scheduleReconnect`), which is the fairness of `Hello`. Nothing is assumed of users,
sweeps, or administrators. *Keys*: the pass goes on and begins again every 30 seconds
(`key-manager.ts:136`), the gateway decides what it was sent or the call ends by its timeout
(`admin-client.ts:88`), rows come due as time passes, the Worker drains its queue. Failures
are not fair, and `MaxUpsets` ends them: `TransientKeysEnd` says that no revocation is
forgotten, not that an unreachable gateway confirms one. *Fail closed*: the Worker executes
its commands and its timers fire (`runtime.ts`, `daemon.ts`), heartbeats are sent, handlers
go on. That the host loses a guard for good is the hypothesis of the properties, not an
assumption. *Relay*: Docker answers, the refresh interval passes, a command ends, every
forwarded request has timers, and Workspaces keep asking; without a Workspace that asks
there is nobody to serve.

## Proofs

### Placement

`PlacementProofs` proves, for every finite set of Workspaces and any sets of Workers,
requests and capacities (assumption `PlacementAssumption`):

- `TypeCorrect`: `Spec => []TypeOK`;
- `NeverOvercommitted`: `Spec => []NoOvercommit`;
- `AssignmentsAlwaysResolve`: `Spec => []AssignmentsResolve`;
- `PauseHolds`: `Spec => PauseStopsPlacement`;
- `AssignmentsStick`: `Spec => StickyAssignment`;
- `PlacementIsAtomic`: `Spec => AtomicSpec`.

`NoOvercommit` alone is not inductive. The invariant says who holds the lock (a
request that is holding or has chosen, and nobody else), that a Workspace with a
choice pending has a startable row whose Worker, if any, is the chosen one, and that a
pending choice of an unassigned Workspace still has room *below the peak* and is not
paused: between `Choose` and `Commit` capacity may shrink but the peak may not, load
may only fall because placements hold the advisory lock, and a pause waits for it.

The refinement shows a row that has been chosen for, and not yet committed, as it will be.
At most one request is past its choice, since it holds the advisory lock (`Shown`); so
`Choose` is the abstract `Place`, or `Restart` where the Workspace has its Worker, `Commit`
confirms or cancels it, and every other step is the abstract step of its name or changes
nothing that is shown.

### Model keys

`ModelKeysProofs` proves, for any numbers of keys, upsets and changes (assumption
`ModelKeysAssumption`: they are natural numbers):

- `TypeCorrect`: `Spec => []TypeOK`;
- `LiveKeysAlwaysOwned`: `Spec => []LiveKeysAreOwned`;
- `UsableKeysNeverRevoked`: `Spec => []NoUsableKeyIsRevoked`;
- `ClearsAlwaysSpareTheActiveKey`: `Spec => ClearsSpareTheActiveKey`.

The argument rests on what one step may do to one key (`KeyMoves`, proved once for every
action): a status only moves forward, and reaches `revoked` only through the pass that is
recording that key. From it the parts of `IndInv` follow. `HandedOutKeys`: a key that was
handed out is not being created any more, so nothing brings it back to the gateway.
`RevocationsInProgress`: the row of the key a pass is working on is still `revoking`, so
a key whose deletion is being recorded is gone if it had been handed out. That is exactly
where the argument breaks for a key that was *not* handed out, the finding
`revoked_key_lives`. `KnownToTheWorker` and `ClearsAreDue`: the Worker holds and reports
only keys that were handed out; the one a reconciliation clears was handed out and is not
the active one (`ActiveIsExpected`), so its revocation has begun and it can never become
active; hence a clear executed arbitrarily late still spares the active key.

### Accounts, codes, connections, accesses, guesses and idle stops

`AccessProofs` proves, for any sets of users, sessions, requests, connections and codes,
any counters, times and workload:

- `AccountsAlwaysUsable`: `Spec => []AccountsStayUsable`;
- `CodesAlwaysGrantOnce`: `Spec => []CodesGrantOnce`;
- `ConnectionsAlwaysRightful`: `Spec => []ConnectionsAreRightful`;
- `AccessAlwaysRecorded`: `Spec => []AccessIsRecorded`;
- `GuessesAlwaysBounded`: `Spec => []GuessesAreBounded`;
- `IdleStopsAlwaysSpareUse`: `Spec => IdleStopSparesUse`;
- `TypeCorrect`: `Spec => []TypeOK`.

`AccountsAssumption` says what the setup leaves behind (an active Local Admin, everybody
with a way to sign in), without which the first would be false at the start, that
`NoUser` and `NoSession` are none of the records, and that finitely many requests are served
at once (so many failures may be under way); `AccessAssumption` that `NoCode` is no record,
that times are numbers, that samples may be less apart than the idle window is long (a minute
against whole hours, `config.ts:233`), and that a unit of work is what is above the CPU
threshold in whatever bucket it falls (a bucket may be up to a sample gap longer than
`Bucket`). `LoginThrottleAssumption` has every threshold above
one and every lock at least as long as its window, as the policies of `login-guard.ts:18`
are: a lock shorter than its window would let a third batch of failures into one window.

*Accounts.* What remains is counted in one statement (`LockUser`, `LockIdentities`) and
taken away in a later one. `Usable` therefore says that a request that is past its count
still has the other administrator, or the other way in, that it counted. It is alone past
the count (`OneUpdate`, `OneUnbind`: the advisory locks), and whatever else happens to
users and identities only adds to them (`OnlyAdds`): that is one lemma for every other step.

*Codes.* A code is in one place at a time (`OnePlace`): not issued, in the store, with the
one exchange that took it, or spent; an issued code that is in the store or with an
exchange has not granted anything.

*Connections.* Sessions and users move one way under a connection (`SessionsHold`): a
session stays and stays its user's, and who revokes it, or disables its user, is from then on
a request that goes on to close what is open. So a registered connection whose session is no
longer good is either among those such a request will find, or was opened meanwhile and has
its second look ahead (`Rightful`). `Fresh` is needed because a session is inserted before
it is committed: until then it is nobody else's. The invariant excuses a connection that is
about to be closed or looked at; that this then happens is not claimed.

*Accesses.* `AccessIsRecorded` is all but inductive: `WrittenIsThere` is missing, that the
row has at least what the tracker believes it has persisted. With it a flush may end after a
newer one, and move `persisted` back, without an access being taken for written: the row never
goes back (`greatest` in the statement), and what failed is pending again.

*Guesses.* A counter knows nothing of when its failures were, and windows do not slide, so
it is held against the set of recent failures (`Counted`): those since the counter started
are no more than it counts; those before it started are what the window before let
through (`Spilled`: no lock was taken, or its time has not passed, and a lock outlasts the window).
A counter past its threshold has a lock that outlasts every failure by its full length; and
while the lock lasts only requests that were admitted before it can fail (`Pending`), which
are counted together with those that have. The failure that opens a window is the one
that makes both halves stay below the threshold.

*Idle stops.* A sample counts all there was since the one before it, unless the Workspace was
stopped or started since (`Follows`): its counter starts over then and may pass its old value
before the next sample. What a bucket's start had seen of work is therefore in `active`, and
what came after it makes the counter differ, but for the first `SampleGap` of a run (`Metered`,
`Young`); the bucket being filled is busy if the counters of its ends differ, and is asked
as soon as it spans `SampleGap`. `Remembered` is about use: what the tracker does not know
was before this process started, and a sweep waits the whole window since then. `Decided`
carries what a sweep decided through the steps of others until the Workspace is stopped:
the time of a row's last activity only grows, and `beginIdleStop` compares it again.

### Requests and recoveries

`LifecycleProofs` proves, for any Workspaces, images, requests and recoveries, and any kinds
and numbers of upsets (`LifecycleAssumption`: the names of nobody and nothing are none of
the others):

- `TypeCorrect`: `Spec => []TypeOK`;
- `IntentAlwaysMatches`: `Spec => []IntentMatchesState`;
- `TransitionsAlwaysOwned`: `Spec => []TransitionsOwned`.

`TransitionsOwned` is not inductive: an owner may lose its command to another's answer.
`SendersAwait` excludes it: whoever has a command in the queue waits for exactly that
command, with the arguments it was sent with, and has one only. With it every step that takes
an owner away either ends the transition in the same statement, or cuts the connection
while a recovery is ahead, which resets the row.

`RequestsProofs` proves of `RacesSpec`, for any number of requests, Workspaces, images and
upsets:

- `RequestsAlwaysLeaveNothing`: `RacesSpec => []RequestsLeaveNothing`;
- `RequestsAlwaysTellTruth`: `RacesSpec => []RequestsTellTruth`.

Both assume that `Upsets` has neither `stall` nor `failclosed`, as in the run: a Worker that
lost its rules stops containers behind the rows' back on purpose (`FailClosed` is about
that), and a sweep resets rows while the connection lasts, as a recovery does. Beside
`IndInv` the invariant has, as long as the connection lasts: a request that was begun owns
its Workspace's transition, alone (`OwnersOwn`); the command it waits for is the last one
about that Workspace in the queue (`LastOnItsWorkspace`: what another one gave up waiting
for is executed before it); once answered nothing is left in the queue and what was asked
for is done (`AnswersAreTrue`); and hence rows tell the truth and stay true (`RowsAreTrue`).
A deleted Workspace needs more than that, because nothing may bring it back after the
connection is lost either: `DeletesAreDone` and `NothingIsLeft` hold connected or not.

*Recoveries.* `RequestsProofs` also proves, of the whole system and of the run's scenarios:

- `RecoveryAlwaysTellsTruth`: `Spec => RecoveryTellsTruth`;
- `RacesRecoveryTellsTruth`: `RacesSpec => RecoveryTellsTruth`.

The first assumes that `Upsets` has none of `drop`, `crash`, `revoke`, `stall` and
`failclosed`: the connection is lost only when the control plane restarts, and with it every
recovery, so that no report meets rows of a later connection (with `drop` the property fails,
see Divergences). The second assumes what those above do, and covers the scenarios as they
are; it excludes drops, crashes and revocations where a recovery goes on. Any number of
requests goes on meanwhile, Runtime changes included.

A recovery writes what the Worker saw when it reported, so everything between the report and
the write must leave that true. `Meant` is the notion it takes: a command is meant by a row
if it can only bring about what the row wants (`start` where it wants RUNNING, `runtime.set`
to the image it names where it wants STOPPED, ...). Until a recovery takes the rows every
request owns its transition (`OwnersOwn`); since a recovery resets the state and keeps intent
and image, whatever was begun is meant by the row when it is taken. From then on (`Decided`),
as long as the row waits for the recovery: the requests on it are meant (`RequestsMeant`), so
is what is queued behind the recovery's command (`BehindMeant`; what is before it is executed
before the report), and after the report all that is queued (`QueueMeant`). A command that is
meant keeps true a report that agrees with the row's intent, and the recovery decides on no
other (`ReportHolds`, `TrueReport`). A request begun later takes the row out of
WORKER_OFFLINE, and the recovery then leaves it alone; no step puts it back while this
recovery lasts (`Orderly`): a restart does, and ends the recovery.

### Egress policy

`EgressProofs` proves, for addresses of any width, any rules, administrators and starts, any
number of revisions and upsets:

- `TypeCorrect`: `Spec => []TypeOK`;
- `AllowsAlwaysCovered`: `Spec => []AllowsStayCovered`;
- `ConfirmedPolicyAlwaysHolds`: `Spec => []ConfirmedPolicyHolds`;
- `BroadcastsAlwaysConverge`: `Spec => []BroadcastsConverge`;
- `VerifiedTableAlwaysKeepsPromise`: `Spec => []VerifiedTableKeepsPromise`.

`EgressRulesAssumption` and `EgressPolicyAssumption` say what the constants are (ports are
numbers, default denials are networks, the rules a Worker starts with are valid, the names
of tasks are not revisions), `NothingYet` that "no policy" and "no table" are none.

*Policies.* `InstallsInOrder` is what makes a crash harmless as long as the files are found as
they were left: while a policy is installed it
is that of the command in hand, a live table was made from it, and `policy.json` is replaced
before `ruleset.json`, so no step of the installation or of the start after it brings back
what is older than a confirmed revision. A restart that lost a write or could not read
`policy.json` empties `confirmed`: of what was confirmed before it nothing is claimed, nor
could be (see Divergences), until the policy is applied and confirmed again. Convergence needs `LastIsOnItsWay`: as long as nothing
failed, the last revision is the Worker's, or some task that has yet to read or to send has
it or will have it; tasks that carry older ones do not count, because the controller
ignores them (`IsOlder`).

*Tables.* A table that reads back as enforced has the elements of the rendering, and those
are merged ranges. The proof has to show that merging, and splitting ranges into blocks,
keep exactly the addresses there are (`MergingKeepsAddresses`, `HoldsIsCovered`): a block's
size divides its bounds (`PowersOfTwo`, `BlocksAreIntervals`), and every address covered
lies in the merged interval that reaches from the greatest gap below it to the least above
(`LeastExists`, `GreatestExists`). So two rule sets with the same rendering pass the same
packets (`SameMergedSameHeld`), whatever the drift.

### Failing closed

`FailClosedProofs` proves, for any Workspaces, administrators, limits, timed checks, first
states, requests and upsets:

- `TypeCorrect`: `Spec => []TypeOK`;
- `RunningAlwaysContained`: `Spec => []RunningIsContained`;
- `LimitsAlwaysSettle`: `Spec => []LimitsSettle`.

`FailClosedAssumption` has every Workspace find a project ID that the others do not have
(`runtime.ts` allocates from more than a million), and that `NoQuota` is not a quota.

*Containment.* `Sound` orders what contains a container as the calls make and unmake it: a
project is recorded in a managed directory, a container of this release has its network,
the tag of its project and a limit. `OwnProjects` keeps projects apart: an ID is taken as the
least that no metadata has (that there is a least one is by well-founded induction on
the numbers), in a step that nobody else's allocation can enter
(`#withProjectAllocation`), and given back after the container and the directory are gone.
`Leaving` follows a container of an earlier release to the reconciliation that stops it:
it runs only while its row is RECOVERING, or because recovery refuses to look at it
(`mismatched`). `Gated` says that a start past its gate is of a container of this
release, also when the calls before it were interrupted. `Asked` ties commands to those who
wait, as `SendersAwait` does above.

*Limits.* Between the statement that changes a limit and its application the row, the
metadata and XFS differ. `Current` says that unless something the code knows nothing about
happened (`stale`), everything on its way carries the row's limit: each change
that has not been applied, a reconciliation unless a change is under way, and a start that no
change overlaps; once its container is there the limit in force is the row's. It is about
every change and not the last one, since two under way for one Workspace make it stale.

### Model relay

`RelayProofs` proves, for any Workspaces, networks and connections, any limit, and any
numbers of commands and upsets:

- `KeysAlwaysStayHome`: `Spec => []KeysStayHome`.

`RelayAssumption` says that the names of nobody and of no network are none of the others and
that no two Workspaces start on one network. `Truthful` says of a list (the map in force, and the
one a refresh has been answered with) that a Workspace with a key is listed at its own
network, or at one that its delete, still in progress, has freed and nobody has taken yet:
the delete's last step takes the key away, and a delete that fails before it leaves its
network among those the property excuses. With networks of one Workspace each (`OwnNetworks`) whoever is
identified is who it is (`KnownForGood`); nothing that happens to networks later changes
what a connection was identified as. `SlotsAreHeld` counts: each forwarded request has
taken exactly one slot of its Workspace, and every way it can end gives one back.

### Only model-checked

All liveness, which is out of the prover's reach: `RequestsEnd`, `ReconciliationsEnd`,
`TransitionsEnd`, `Reappears`, `TransientKeysEnd`, `FailsClosed`, `ShownStopped` and
`RunningIsServed`. Every safety invariant and action property of the passing runs is proved.

## Divergences

The four violation runs state what a comment or document says and show what the code
does.

- **`stuck_change`.** An interrupted Runtime change followed by a failed delete leaves
  ERROR with the intent DELETED. `beginWorkspaceRuntimeChange` requires the intent
  STOPPED (`runtime-changes.ts:41`), start refuses an interrupted change, and the Worker
  refuses the delete as long as the container is of the previous image: the Workspace
  accepts nothing. `runtime-changes.ts:17` says an interrupted change can be retried.
- **`stale_revert`.** What a refusal restores is read before the begin
  (`workspace-runtime.ts:89`); in between another change may have been interrupted. With a
  third request the row may then be wrong about what runs: a start that read the row
  before (`routes/workspaces.ts:231`) runs the Workspace between the interruption and the
  revert; a stop of it fails; and the revert, of a change the Worker refused because the
  container runs, shows STOPPED.
- **`orphan_after_recovery`.** Recovery resets every row, starts in progress included,
  after the egress policy went out. A delete can then finish before the rest of the
  start's commands, which recreate directory and container.

- **`revoked_key_lives`.** A Workspace is deleted (or its owner disabled, its Worker
  revoked, its key rotated) while `/key/generate` is under way. The next pass deletes the
  alias first; `deleteKey` takes the 404 for done (`admin-client.ts:143`) and the row is
  `revoked`. The gateway then creates the key. `activateModelKey` returns false and the
  kick finds nothing to do, so the key stays at the gateway; its secret is not handed to
  anybody (`NoUsableKeyIsRevoked` holds). `model-keys.ts:188` says "the pending
  revocation deletes the key", `specs.md:4583` the same of a failed issue.

Met while modelling, without a run. *Keys and lifecycle*:

- `beginModelKeyIssue` looks at the relay of the Worker, not at `enabled`: a start in
  flight can reserve a key for a Worker disabled just before. It is revoked as lost when
  the Worker's answer is refused, and stays active if the Control Plane restarts in
  between, until the Worker says hello again.
- `specs.md:4591` has a start issue a key when the Worker reports another alias than the
  active one; a start never asks the Worker, and `beginModelKeyIssue` answers
  ALREADY_LIVE (`model-keys.ts:146`). Only a reconciliation compares them.
- A `set` has no order by alias (`keys.ts:73`): one whose caller gave up and which is
  executed after its successor's replaces it on the Worker until the next reconciliation.

- A start that read the row before a Runtime change was interrupted begins from ERROR
  and runs the old image while the row names the new one (`routes/workspaces.ts:213`,
  `:231`, `:290`).
- `RUNTIME_IMAGE_UNAVAILABLE` may be raised after the metadata was rewritten and the old
  container removed (`runtime.ts:411`), and counts as a refusal that changed nothing.
- A Worker disabled while its recovery report is applied gets RUNNING rows
  (`runtime-commands.ts:215` tests the socket only).
- With a connection lost during recovery, the report of the first recovery may be
  applied to a row that later requests returned to the same state, intent and image:
  `RecoveryTellsTruth` holds without `drop` and fails with it.
- A row left DELETING by a revocation and then a restart stays so until the Worker is
  enabled and says hello; `TransitionsOwned` counts that hello as the one that ends it.
- A daemon that dies (or an `rm` that fails, `runtime.ts:665`) while it
  removes a Workspace may leave `managed.json` where `pi` or `workspace` is gone.
  `#assertRealDirectories` (`runtime.ts:1282`) throws the raw ENOENT, `#engineError` makes it
  retryable since it has no Docker status (`:2117`), and the application of the report skips
  the row (`runtime-commands.ts:230`): at this hello and at every later one it stays
  WORKER_OFFLINE. `README.md:449` and `specs.md:2182` of the repository have missing resources
  become ERROR. A start is refused there and a delete fails, and makes the row ERROR; only
  a start from ERROR makes the directories again, those that were gone empty.

*Egress*:

- `#loadPolicy` (`egress/controller.ts:162`) takes any failure to read,
  parse or validate `policy.json` for "no policy yet", and the files are not synced before they
  are renamed (`:196`). The controller then enforces the base rules, or after a power failure
  the policy before, overwrites `ruleset.json` and reports that as enforced, until the
  hello that follows has the current policy applied. What is denied by default stays denied;
  what administrators denied or allowed beyond that is forgotten for as long. The comment at `:59` says
  "Loads the last applied policy", `specs.md:3723` that an offline Worker keeps its last
  snapshot.

*Failing closed*:

- A start carries the limit read when it was scheduled (`routes/workspaces.ts:297`) and may
  overwrite one that a later PATCH reported as applied; `LimitsSettle` excuses it as `stale`.
- Rows whose containers were stopped because rules or quotas were lost become ERROR by a
  heartbeat that reports the loss (`database/egress.ts:122`); a loss that is over before the
  next heartbeat leaves them RUNNING over stopped containers.
- Recovery compares a legacy container's resource limits before it stops it: under other
  limits `#inspectForRecovery` throws and the container keeps running, where
  `docs/storage-runbook.md:101` and `docs/egress-runbook.md:110` say it is stopped.
  `RunningIsContained` excuses it as `mismatched`.
- Recovery trusts the metadata file: a limit that was changed in the filesystem only is not
  set again, and after an interrupted removal unreadable metadata does hold an allocation,
  against the comment at `runtime.ts:1516`.
- A migration interrupted during its copy leaves a home that the next attempt refuses, and
  `#initializeHome` interrupted leaves part of the skeleton, which later runs skip.

*Access*:

- A failure that was under way when a lock was taken may replace it by a new window that
  has none (`auth-throttle.ts:111`), which the bound of `GuessesAreBounded` accounts for.
- `createSession` reads the user as its statement begins: one that began before a disable
  commits leaves a session that is not revoked (unusable as long as the user is disabled).
- An access between the decision and the stop loses unless a flush has written it
  (`idle-stopper.ts:80`); only persisted accesses are compared again in SQL.
- An older flush that ends late moves `persisted` back (`access-tracker.ts:60`): the next
  access is written earlier than needed.
- The graceful shutdown flushes accesses before it closes connections (`server.ts:350`).
- A session that expires keeps its open connections; only revocation closes them.
- A CPU counter that restarted and passed its old value before the next sample is taken for
  the old one (`compute-activity.ts:46`): what the new run did before that sample counts for less than
  it was, which `IdleStopSparesUse` excuses as the first `SampleGap` of a run.
- Work since the last full bucket is not counted before it spans a minute
  (`compute-activity.ts:71`), so a sweep in that minute does not see it.

*Relay* (`relay.ts:22` has it that the connection itself identifies the Workspace; these are
outside `KeysStayHome`):

- A delete that fails after the network was removed does not refresh the map
  (`daemon.ts:485`), and a Workspace that gets the same addresses is taken for the deleted
  one until the next refresh.
- The refresh at the end of a delete joins one that is under way (`relay.ts:205`), which may
  have listed the containers before the delete: its end puts the deleted Workspace back in
  the map. Should that Workspace be created again with its key, another that got its
  addresses is taken for it until the next refresh.
- A request that waits for a list while its own Workspace is deleted and another one gets
  the addresses is forwarded with the other one's key; nobody reads the answer
  (`relay.ts:232`).
- An address the map has for another Workspace is never listed again on demand.

## Not modelled, and the plan

What is left to do: two overlapping recoveries of one Worker.

Left out within modelled parts: client address resolution behind proxies, the identity
provider's protocol (its answer is one choice), disk usage samples and budgets (reported
only), image discovery and orphan classification, messages of other protocol versions, the
setup of the first administrator. Schema migrations are one transaction under an advisory
lock, with little left to interleave.

Left out for good: the portal, audit and metrics (observation only), schemas,
configuration and logging (no state), deployment scripts, and the proxying of bytes.
