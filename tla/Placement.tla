----------------------------- MODULE Placement -----------------------------
(***************************************************************************)
(* First placement of Workspaces on Workers.                               *)
(*                                                                         *)
(* The Control Plane decides where a Workspace lives when it is started    *)
(* for the first time (packages/database/src/scheduling.ts).  A placement  *)
(* is one PostgreSQL transaction: it takes an advisory lock, locks the     *)
(* Workspace's row, counts the Workspaces assigned to every Worker, lets   *)
(* selectWorker pick one and writes the assignment.  Everything else that  *)
(* touches the same tables (hello and heartbeat of a Worker, revocation,   *)
(* deletion, the end of a start) runs beside it without that lock; only an *)
(* administrator's pause shares it.                                        *)
(*                                                                         *)
(* Abstractions.                                                           *)
(*  - The steps of a placement that other transactions can come between    *)
(*    are Begin (advisory lock and row lock), Choose (the statement that   *)
(*    reads the candidates) and Commit.  A transaction that fails rolls    *)
(*    back and leaves what one that never began leaves.                    *)
(*  - A Worker's status "FIT" stands for the columns selectWorker tests    *)
(*    together: ONLINE, a heartbeat newer than the cutoff, the current     *)
(*    egress revision enforced, quotas enforced, the Workspace's image,    *)
(*    architecture and capabilities offered.  "UNFIT" is an enabled Worker *)
(*    that fails one of them.                                              *)
(*  - The Workers a request found connected are any set: the list is read  *)
(*    before the transaction begins and may be out of date.                *)
(*  - Row states: CREATED (unassigned), STARTING, SETTLED (any assigned    *)
(*    state a start is allowed from: STOPPED, ERROR, WORKER_OFFLINE) and   *)
(*    GONE (no row).                                                       *)
(***************************************************************************)
EXTENDS Integers, FiniteSets

CONSTANTS
  Workspaces,   \* the Workspaces of every user
  Workers,      \* the registered Workers
  Requests,     \* start requests that may be in progress at once
  Capacities,   \* the values of maxWorkspaces a Worker may declare
  NoWorker,     \* worker_id is null
  NoWorkspace,  \* the Workspace of a request that is not in progress
  NoRequest     \* nobody holds the advisory lock

ASSUME PlacementAssumption ==
  /\ IsFiniteSet(Workspaces)
  /\ Capacities \subseteq Nat
  /\ NoWorker \notin Workers
  /\ NoRequest \notin Requests
  /\ NoWorkspace \notin Workspaces

VARIABLES
  row,      \* the workspaces table: state and worker_id of every Workspace
  worker,   \* the workers table, with the largest capacity ever declared
  lock,     \* holder of the scheduler's advisory lock
  tx        \* the start requests: progress, Workspace, connected list, choice

vars == <<row, worker, lock, tx>>

RowStates == {"CREATED", "STARTING", "SETTLED", "GONE"}
NoRow == [state |-> "GONE", worker |-> NoWorker]
Startable == {"CREATED", "SETTLED"}

Row == [state : RowStates, worker : Workers \cup {NoWorker}]
WorkerRow == [status : {"FIT", "UNFIT", "DISABLED", "REMOVED"}, schedulable : BOOLEAN,
              max : Capacities \cup {0}, peak : Capacities \cup {0}]
NoWorkerRow == [status |-> "REMOVED", schedulable |-> TRUE, max |-> 0, peak |-> 0]
Request == [pc : {"idle", "requested", "holding", "chosen"},
            ws : Workspaces \cup {NoWorkspace}, connected : SUBSET Workers,
            choice : Workers \cup {NoWorker}]
NoTx == [pc |-> "idle", ws |-> NoWorkspace, connected |-> {}, choice |-> NoWorker]

TypeOK ==
  /\ row \in [Workspaces -> Row]
  /\ worker \in [Workers -> WorkerRow]
  /\ lock \in Requests \cup {NoRequest}
  /\ tx \in [Requests -> Request]

\* count(assigned.id): the Workspaces whose worker_id is k.
Assigned(k) == {w \in Workspaces : row[w].worker = k}
Load(k) == Cardinality(Assigned(k))

\* The row lock of SELECT ... FOR UPDATE, held until the placement commits.
RowLocked(w) == \E t \in Requests : tx[t].pc \in {"holding", "chosen"} /\ tx[t].ws = w

-----------------------------------------------------------------------------
(* scheduler.ts: the pure selection.                                       *)

Eligible(k, connected) ==
  /\ k \in connected
  /\ worker[k].status = "FIT"
  /\ worker[k].schedulable
  /\ Load(k) < worker[k].max

\* The load ratio assigned/max, compared without division; ties by Worker ID
\* are left open.
NoMoreLoaded(k, j) == Load(k) * worker[j].max <= Load(j) * worker[k].max

Selectable(connected) ==
  {k \in Workers :
    /\ Eligible(k, connected)
    /\ \A j \in Workers : Eligible(j, connected) => NoMoreLoaded(k, j)}

-----------------------------------------------------------------------------
(* One start request: scheduleWorkspaceStart.                              *)

\* The handler found the Workspace and read the connected Workers; a sticky
\* Workspace whose Worker is not connected is refused before any transaction.
RequestStart(t, w) ==
  /\ tx[t].pc = "idle"
  /\ row[w].state # "GONE"
  /\ \E connected \in SUBSET Workers :
       /\ row[w].worker # NoWorker => row[w].worker \in connected
       /\ tx' = [tx EXCEPT ![t] = [pc |-> "requested", ws |-> w,
                                   connected |-> connected, choice |-> NoWorker]]
  /\ UNCHANGED <<row, worker, lock>>

\* Mutant: placements that do not take the advisory lock.
BeginUnlocked(t) ==
  /\ tx[t].pc = "requested"
  /\ row[tx[t].ws].state \in Startable
  /\ ~RowLocked(tx[t].ws)
  /\ lock' = t
  /\ tx' = [tx EXCEPT ![t].pc = "holding"]
  /\ UNCHANGED <<row, worker>>

\* pg_advisory_xact_lock, then the row FOR UPDATE.
Begin(t) ==
  /\ tx[t].pc = "requested"
  /\ lock = NoRequest
  /\ row[tx[t].ws].state \in Startable
  /\ lock' = t
  /\ tx' = [tx EXCEPT ![t].pc = "holding"]
  /\ UNCHANGED <<row, worker>>

\* WORKSPACE_CHANGED: the row is gone or in a state a start is not allowed from.
BeginRefused(t) ==
  /\ tx[t].pc = "requested"
  /\ lock = NoRequest
  /\ row[tx[t].ws].state \notin Startable
  /\ tx' = [tx EXCEPT ![t] = NoTx]
  /\ UNCHANGED <<row, worker, lock>>

\* The recorded Worker of an assigned Workspace, else the selected candidate.
Choose(t) ==
  /\ tx[t].pc = "holding"
  /\ \E k \in Workers :
       /\ IF row[tx[t].ws].worker = NoWorker
            THEN k \in Selectable(tx[t].connected)
            ELSE k = row[tx[t].ws].worker
       /\ tx' = [tx EXCEPT ![t].pc = "chosen", ![t].connected = {}, ![t].choice = k]
  /\ UNCHANGED <<row, worker, lock>>

\* NO_ELIGIBLE_WORKER: the row is left as it was.
NoEligibleWorker(t) ==
  /\ tx[t].pc = "holding"
  /\ row[tx[t].ws].worker = NoWorker
  /\ Selectable(tx[t].connected) = {}
  /\ tx' = [tx EXCEPT ![t] = NoTx]
  /\ lock' = NoRequest
  /\ UNCHANGED <<row, worker>>

\* The foreign key of workspaces.worker_id.
Exists(k) == worker[k].status # "REMOVED"

\* The conditional UPDATE and the commit, which frees both locks.  A Worker
\* deleted since the candidates were read fails the foreign key.
Commit(t) ==
  /\ tx[t].pc = "chosen"
  /\ LET r == row[tx[t].ws] IN
       row' = IF /\ r.worker \in {NoWorker, tx[t].choice}
                 /\ r.state \in Startable
                 /\ Exists(tx[t].choice)
                THEN [row EXCEPT ![tx[t].ws] = [state |-> "STARTING", worker |-> tx[t].choice]]
                ELSE row
  /\ tx' = [tx EXCEPT ![t] = NoTx]
  /\ lock' = NoRequest
  /\ UNCHANGED worker

-----------------------------------------------------------------------------
(* What else changes the rows.                                             *)

\* createWorkspace.
Create(w) ==
  /\ row[w].state = "GONE"
  /\ row' = [row EXCEPT ![w] = [state |-> "CREATED", worker |-> NoWorker]]
  /\ UNCHANGED <<worker, lock, tx>>

\* Mutant: a deletion that does not wait for the row lock.
DeleteUnassignedUnderLock(w) ==
  /\ row[w].state = "CREATED"
  /\ row[w].worker = NoWorker
  /\ row' = [row EXCEPT ![w] = NoRow]
  /\ UNCHANGED <<worker, lock, tx>>

\* deleteOwnedWorkspace: only a Workspace that was never assigned.
DeleteUnassigned(w) ==
  /\ row[w].state = "CREATED"
  /\ row[w].worker = NoWorker
  /\ ~RowLocked(w)
  /\ row' = [row EXCEPT ![w] = NoRow]
  /\ UNCHANGED <<worker, lock, tx>>

\* Mutant: a start that ends gives its Worker back.
SettleReleasing(w) ==
  /\ row[w].state = "STARTING"
  /\ ~RowLocked(w)
  /\ row' = [row EXCEPT ![w] = [state |-> "SETTLED", worker |-> NoWorker]]
  /\ UNCHANGED <<worker, lock, tx>>

\* The start ends one way or another; the assignment stays.
Settle(w) ==
  /\ row[w].state = "STARTING"
  /\ ~RowLocked(w)
  /\ row' = [row EXCEPT ![w].state = "SETTLED"]
  /\ UNCHANGED <<worker, lock, tx>>

\* deleteConfirmedWorkspace: the Worker confirmed the deletion.
DeleteAssigned(w) ==
  /\ row[w].state = "SETTLED"
  /\ ~RowLocked(w)
  /\ row' = [row EXCEPT ![w] = NoRow]
  /\ UNCHANGED <<worker, lock, tx>>

\* Mutant: the declared capacity adds to the last one.
HelloAdds(k, n) ==
  /\ worker[k].status \in {"FIT", "UNFIT"}
  /\ worker' = [worker EXCEPT ![k].status = "FIT", ![k].max = @ + n, ![k].peak = worker[k].max + n]
  /\ UNCHANGED <<row, lock, tx>>

\* recordWorkerHello: the declared capacity may differ from the last one.
Hello(k, n) ==
  /\ worker[k].status \in {"FIT", "UNFIT"}
  /\ worker' = [worker EXCEPT ![k].status = "FIT", ![k].max = n,
                              ![k].peak = IF n > worker[k].peak THEN n ELSE worker[k].peak]
  /\ UNCHANGED <<row, lock, tx>>

\* recordWorkerHeartbeat of a Worker that said hello before.
Heartbeat(k) ==
  /\ worker[k].status = "UNFIT"
  /\ worker[k].max # 0
  /\ worker' = [worker EXCEPT ![k].status = "FIT"]
  /\ UNCHANGED <<row, lock, tx>>

\* Offline sweep, a new egress revision, lost quotas, a rotated credential.
BecomeUnfit(k) ==
  /\ worker[k].status = "FIT"
  /\ worker' = [worker EXCEPT ![k].status = "UNFIT"]
  /\ UNCHANGED <<row, lock, tx>>

\* disableWorker and enableWorker lock the Worker's row, never the placement.
Disable(k) ==
  /\ worker[k].status \in {"FIT", "UNFIT"}
  /\ worker' = [worker EXCEPT ![k].status = "DISABLED"]
  /\ UNCHANGED <<row, lock, tx>>

Enable(k) ==
  /\ worker[k].status = "DISABLED"
  /\ worker' = [worker EXCEPT ![k].status = "UNFIT"]
  /\ UNCHANGED <<row, lock, tx>>

\* Mutant: a revoked Worker is deleted with its Workspaces.
DeleteWorkerInUse(k) ==
  /\ worker[k].status = "DISABLED"
  /\ worker' = [worker EXCEPT ![k] = [NoWorkerRow EXCEPT !.peak = worker[k].peak]]
  /\ UNCHANGED <<row, lock, tx>>

\* deleteWorker: a revoked Worker that no Workspace is assigned to.
DeleteWorker(k) ==
  /\ worker[k].status = "DISABLED"
  /\ Load(k) = 0
  /\ worker' = [worker EXCEPT ![k] = [NoWorkerRow EXCEPT !.peak = worker[k].peak]]
  /\ UNCHANGED <<row, lock, tx>>

\* provisionWorkerWithGateway: a new row that has not said hello.
Provision(k) ==
  /\ worker[k].status = "REMOVED"
  /\ worker' = [worker EXCEPT ![k].status = "UNFIT"]
  /\ UNCHANGED <<row, lock, tx>>

\* Mutant: a pause that does not wait for the placement in progress.
PauseUnlocked(k) ==
  /\ Exists(k)
  /\ worker' = [worker EXCEPT ![k].schedulable = ~worker[k].schedulable]
  /\ UNCHANGED <<row, lock, tx>>

\* setWorkerSchedulable waits for the placement lock and holds it to its commit.
SetWorkerSchedulable(k) ==
  /\ lock = NoRequest
  /\ Exists(k)
  /\ worker' = [worker EXCEPT ![k].schedulable = ~worker[k].schedulable]
  /\ UNCHANGED <<row, lock, tx>>

-----------------------------------------------------------------------------

Init ==
  /\ row = [w \in Workspaces |-> [state |-> "CREATED", worker |-> NoWorker]]
  /\ worker = [k \in Workers |-> NoWorkerRow]
  /\ lock = NoRequest
  /\ tx = [t \in Requests |-> NoTx]

Next ==
  \/ \E t \in Requests :
       \/ \E w \in Workspaces : RequestStart(t, w)
       \/ Begin(t) \/ BeginRefused(t)
       \/ Choose(t) \/ NoEligibleWorker(t) \/ Commit(t)
  \/ \E w \in Workspaces :
       Create(w) \/ DeleteUnassigned(w) \/ Settle(w) \/ DeleteAssigned(w)
  \/ \E k \in Workers :
       \/ \E n \in Capacities : Hello(k, n)
       \/ Heartbeat(k) \/ BecomeUnfit(k)
       \/ Disable(k) \/ Enable(k) \/ DeleteWorker(k) \/ Provision(k)
       \/ SetWorkerSchedulable(k)

Spec == Init /\ [][Next]_vars

-----------------------------------------------------------------------------
(* Properties.                                                             *)

\* No interleaving of placements, hellos that change the capacity, deletions
\* and retirements assigns a Worker more Workspaces than it ever offered room
\* for (the count and the assignment are one atomic reservation).
NoOvercommit == \A k \in Workers : Load(k) <= worker[k].peak

\* A pause is final for first placements: once it is committed no placement,
\* one that had already chosen the Worker included, adds a Workspace to it.
PauseStopsPlacement ==
  [][\A k \in Workers :
       ~worker[k].schedulable => Assigned(k)' \subseteq Assigned(k)]_vars

\* An assignment never moves to another Worker: it ends only with the row.
StickyAssignment ==
  [][\A w \in Workspaces :
       row[w].worker # NoWorker => row'[w].worker = row[w].worker \/ row'[w] = NoRow]_vars

\* A Workspace has a Worker exactly when it left CREATED, and that Worker's
\* row exists: deletion without a Worker never strands data, deletion through
\* a Worker always has one to ask.
AssignmentsResolve ==
  \A w \in Workspaces :
    /\ row[w].worker = NoWorker <=> row[w].state \in {"CREATED", "GONE"}
    /\ row[w].worker # NoWorker => Exists(row[w].worker)

-----------------------------------------------------------------------------
(* What a placement promises: AtomicPlacement.  The reservation is made     *)
(* where the candidates are read; until the commit nobody else can see or  *)
(* change the row, so the row is shown as it will be.                      *)

Placing == {t \in Requests : tx[t].pc = "chosen"}
Reserved == {tx[t].ws : t \in Placing}
ReservedOn(w) == tx[CHOOSE t \in Placing : tx[t].ws = w].choice

VisibleRow ==
  [w \in Workspaces |->
     IF w \in Reserved THEN [state |-> "STARTING", worker |-> ReservedOn(w)] ELSE row[w]]

Atomic == INSTANCE AtomicPlacement WITH row <- VisibleRow, reserved <- Reserved

AtomicSpec == Atomic!Spec
=============================================================================
