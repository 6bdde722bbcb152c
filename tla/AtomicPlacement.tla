--------------------------- MODULE AtomicPlacement ---------------------------
(***************************************************************************)
(* What first placement promises (packages/database/src/scheduling.ts): a  *)
(* Workspace without a Worker is given, in one step, a Worker that at that *)
(* moment is fit, not paused and has room.  The reservation is then        *)
(* confirmed, or cancelled if the Worker was deleted in between; meanwhile *)
(* nothing else happens to the Workspace.  Placement implements this with  *)
(* a transaction of several steps and two kinds of lock.                   *)
(***************************************************************************)
EXTENDS Integers, FiniteSets

CONSTANTS Workspaces, Workers, Capacities, NoWorker

VARIABLES row, worker, reserved

vars == <<row, worker, reserved>>

Free == Workspaces \ reserved
Load(k) == Cardinality({w \in Workspaces : row[w].worker = k})
HasRoom(k) == Load(k) < worker[k].max

\* The one step a first placement is decided in.
Place(w, k) ==
  /\ w \in Free
  /\ row[w] = [state |-> "CREATED", worker |-> NoWorker]
  /\ worker[k].status = "FIT"
  /\ worker[k].schedulable
  /\ HasRoom(k)
  /\ row' = [row EXCEPT ![w] = [state |-> "STARTING", worker |-> k]]
  /\ reserved' = reserved \cup {w}
  /\ UNCHANGED worker

\* A later start stays on the recorded Worker, fit or not.
Restart(w) ==
  /\ w \in Free
  /\ row[w].state = "SETTLED"
  /\ row' = [row EXCEPT ![w].state = "STARTING"]
  /\ reserved' = reserved \cup {w}
  /\ UNCHANGED worker

Confirm(w) ==
  /\ w \in reserved
  /\ worker[row[w].worker].status # "REMOVED"
  /\ reserved' = reserved \ {w}
  /\ UNCHANGED <<row, worker>>

Cancel(w) ==
  /\ w \in reserved
  /\ worker[row[w].worker].status = "REMOVED"
  /\ row' = [row EXCEPT ![w] = [state |-> "CREATED", worker |-> NoWorker]]
  /\ reserved' = reserved \ {w}
  /\ UNCHANGED worker

Settle(w) ==
  /\ w \in Free
  /\ row[w].state = "STARTING"
  /\ row' = [row EXCEPT ![w].state = "SETTLED"]
  /\ UNCHANGED <<worker, reserved>>

Create(w) ==
  /\ row[w].state = "GONE"
  /\ row' = [row EXCEPT ![w] = [state |-> "CREATED", worker |-> NoWorker]]
  /\ UNCHANGED <<worker, reserved>>

Delete(w) ==
  /\ w \in Free
  /\ row[w].state \in {"CREATED", "SETTLED"}
  /\ row' = [row EXCEPT ![w] = [state |-> "GONE", worker |-> NoWorker]]
  /\ UNCHANGED <<worker, reserved>>

\* The Worker's own row: hello, heartbeat, sweep, revocation, pause.  A Worker
\* that has Workspaces is never removed.
WorkerRow == [status : {"FIT", "UNFIT", "DISABLED", "REMOVED"}, schedulable : BOOLEAN,
              max : Capacities \cup {0}, peak : Capacities \cup {0}]

WorkerChanges(k) ==
  /\ UNCHANGED <<row, reserved>>
  /\ worker'[k] \in WorkerRow
  /\ worker' = [worker EXCEPT ![k] = worker'[k]]
  /\ worker'[k].status = "REMOVED" => \A w \in Free : row[w].worker # k
  /\ worker'[k].peak >= worker[k].peak
  /\ worker'[k].max <= worker'[k].peak

Init ==
  /\ row = [w \in Workspaces |-> [state |-> "CREATED", worker |-> NoWorker]]
  /\ worker = [k \in Workers |-> [status |-> "REMOVED", schedulable |-> TRUE,
                                  max |-> 0, peak |-> 0]]
  /\ reserved = {}

Next ==
  \/ \E k \in Workers : WorkerChanges(k)
  \/ \E w \in Workspaces :
       \/ Restart(w) \/ Confirm(w) \/ Cancel(w)
       \/ Settle(w) \/ Create(w) \/ Delete(w)
       \/ \E k \in Workers : Place(w, k)

Spec == Init /\ [][Next]_vars
=============================================================================
