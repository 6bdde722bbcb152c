--------------------------- MODULE PlacementProofs ---------------------------
(***************************************************************************)
(* Proofs about Placement, for any set of Workspaces, Workers and          *)
(* concurrent requests and any capacities.                                 *)
(*                                                                         *)
(* NoOvercommit is not inductive: a placement commits a choice it made     *)
(* earlier.  The invariant below adds what keeps that choice valid: only   *)
(* the holder of the advisory lock is past Begin (Exclusive), its row does *)
(* not change under it (RowHeld), and the Worker it chose still has a slot *)
(* and is not paused (Promised) -- loads only shrink and pauses wait while *)
(* the lock is held.                                                       *)
(***************************************************************************)
EXTENDS Placement, FiniteSetTheorems, TLAPS

Active(t) == tx[t].pc \in {"holding", "chosen"}

Exclusive == \A t \in Requests : Active(t) <=> lock = t

RowHeld ==
  \A t \in Requests :
    /\ tx[t].pc # "idle" => tx[t].ws \in Workspaces
    /\ Active(t) => row[tx[t].ws].state \in Startable

Promised ==
  \A t \in Requests : tx[t].pc = "chosen" =>
    /\ tx[t].choice \in Workers
    /\ \/ row[tx[t].ws].worker = tx[t].choice
       \/ /\ row[tx[t].ws].worker = NoWorker
          /\ worker[tx[t].choice].schedulable
          /\ Load(tx[t].choice) < worker[tx[t].choice].peak

PeakBounds == \A k \in Workers : worker[k].max <= worker[k].peak

IndInv ==
  /\ TypeOK
  /\ Exclusive
  /\ RowHeld
  /\ Promised
  /\ PeakBounds
  /\ AssignmentsResolve
  /\ NoOvercommit

-----------------------------------------------------------------------------
(* Facts about the number of Workspaces assigned to a Worker.              *)

\* A Worker's load is a natural number.
LEMMA LoadIsNat == ASSUME NEW k PROVE Load(k) \in Nat
  <1>1. IsFiniteSet(Assigned(k))
    BY FS_Subset, PlacementAssumption DEF Assigned
  <1>. QED BY <1>1, FS_CardinalityType DEF Load

\* A step that assigns nothing to k does not raise its load.
LEMMA LoadShrinks ==
  ASSUME NEW k, Assigned(k)' \subseteq Assigned(k)
  PROVE  Load(k)' <= Load(k)
  <1>1. IsFiniteSet(Assigned(k))
    BY FS_Subset, PlacementAssumption DEF Assigned
  <1>. QED BY <1>1, FS_Subset DEF Load

\* A step that assigns one Workspace to k raises its load by at most one.
LEMMA LoadGrowsByOne ==
  ASSUME NEW k, NEW w, Assigned(k)' \subseteq Assigned(k) \cup {w}
  PROVE  Load(k)' <= Load(k) + 1
  <1>1. IsFiniteSet(Assigned(k))
    BY FS_Subset, PlacementAssumption DEF Assigned
  <1>2. /\ IsFiniteSet(Assigned(k) \cup {w})
        /\ Cardinality(Assigned(k) \cup {w}) <= Load(k) + 1
    BY <1>1, FS_AddElement, LoadIsNat DEF Load
  <1>3. Load(k)' <= Cardinality(Assigned(k) \cup {w})
    BY <1>2, FS_Subset DEF Load
  <1>4. Load(k)' \in Nat /\ Cardinality(Assigned(k) \cup {w}) \in Nat /\ Load(k) \in Nat
    <2>1. IsFiniteSet(Assigned(k)')
      BY FS_Subset, PlacementAssumption DEF Assigned
    <2>. QED BY <2>1, <1>2, FS_CardinalityType, LoadIsNat DEF Load
  <1>. QED BY <1>2, <1>3, <1>4


\* Capacities are natural numbers.
LEMMA RowNumbers ==
  ASSUME NEW r \in WorkerRow
  PROVE  r.max \in Nat /\ r.peak \in Nat
  <1>1. r.max \in Capacities \cup {0} /\ r.peak \in Capacities \cup {0}
    BY DEF WorkerRow
  <1>2. Capacities \cup {0} \subseteq Nat
    BY PlacementAssumption
  <1>. QED BY <1>1, <1>2

-----------------------------------------------------------------------------
(* Type correctness.                                                       *)

\* The initial state is well typed.
LEMMA TypeInit == Init => TypeOK
  BY PlacementAssumption DEF Init, TypeOK, Row, RowStates, WorkerRow, NoWorkerRow, Request, NoTx

\* Every step keeps the types.
LEMMA TypeStep == TypeOK /\ [Next]_vars => TypeOK'
  <1> SUFFICES ASSUME TypeOK, [Next]_vars PROVE TypeOK'
    OBVIOUS
  <1>. USE DEF TypeOK
  <1>1. ASSUME NEW t \in Requests, NEW w \in Workspaces, RequestStart(t, w) PROVE TypeOK'
    BY <1>1 DEF RequestStart, Request
  <1>2. ASSUME NEW t \in Requests, Begin(t) \/ BeginRefused(t) PROVE TypeOK'
    BY <1>2 DEF Begin, BeginRefused, Request, NoTx
  <1>3. ASSUME NEW t \in Requests, Choose(t) \/ NoEligibleWorker(t) PROVE TypeOK'
    BY <1>3 DEF Choose, NoEligibleWorker, Request, NoTx
  <1>4. ASSUME NEW t \in Requests, Commit(t) PROVE TypeOK'
    <2>1. tx' \in [Requests -> Request] /\ lock' = NoRequest /\ worker' = worker
        BY <1>4 DEF Commit, Request, NoTx
    <2>2. row' \in [Workspaces -> Row]
        BY <1>4 DEF Commit, Request, Row, RowStates
    <2>. QED BY <2>1, <2>2
  <1>5. ASSUME NEW w \in Workspaces,
                 Create(w) \/ DeleteUnassigned(w) \/ Settle(w) \/ DeleteAssigned(w)
          PROVE TypeOK'
    BY <1>5 DEF Create, DeleteUnassigned, Settle, DeleteAssigned, Row, RowStates, NoRow
  <1>6. ASSUME NEW k \in Workers, NEW n \in Capacities, Hello(k, n) PROVE TypeOK'
    <2>1. worker[k] \in WorkerRow
        OBVIOUS
    <2>2. (IF n > worker[k].peak THEN n ELSE worker[k].peak) \in Capacities \cup {0}
        BY <2>1 DEF WorkerRow
    <2>3. worker' \in [Workers -> WorkerRow]
        BY <1>6, <2>1, <2>2 DEF Hello, WorkerRow
    <2>. QED BY <1>6, <2>3 DEF Hello
  <1>7. ASSUME NEW k \in Workers, Heartbeat(k) \/ BecomeUnfit(k) \/ Disable(k) \/ Enable(k)
          PROVE TypeOK'
    BY <1>7 DEF Heartbeat, BecomeUnfit, Disable, Enable, WorkerRow
  <1>a. ASSUME NEW k \in Workers, NEW r \in WorkerRow, worker' = [worker EXCEPT ![k] = r]
        PROVE  worker' \in [Workers -> WorkerRow]
    BY <1>a
  <1>8. ASSUME NEW k \in Workers, DeleteWorker(k) \/ Provision(k) PROVE TypeOK'
    <2>1. worker[k] \in WorkerRow
        OBVIOUS
    <2>2. [NoWorkerRow EXCEPT !.peak = worker[k].peak] \in WorkerRow
        BY <2>1 DEF WorkerRow, NoWorkerRow
    <2>3. [worker[k] EXCEPT !.status = "UNFIT"] \in WorkerRow
        BY <2>1 DEF WorkerRow
    <2>4. worker' \in [Workers -> WorkerRow]
        BY <1>8, <1>a, <2>2, <2>3 DEF DeleteWorker, Provision
    <2>. QED BY <1>8, <2>4 DEF DeleteWorker, Provision
  <1>9. ASSUME NEW k \in Workers, SetWorkerSchedulable(k) PROVE TypeOK'
    <2>1. worker[k] \in WorkerRow
        OBVIOUS
    <2>2. [worker[k] EXCEPT !.schedulable = ~worker[k].schedulable] \in WorkerRow
        BY <2>1 DEF WorkerRow
    <2>3. worker' \in [Workers -> WorkerRow]
        BY <1>9, <1>a, <2>2 DEF SetWorkerSchedulable
    <2>. QED BY <1>9, <2>3 DEF SetWorkerSchedulable
  <1>10. CASE UNCHANGED vars
    BY <1>10 DEF vars
  <1>. QED BY <1>1, <1>2, <1>3, <1>4, <1>5, <1>6, <1>7, <1>8, <1>9, <1>10 DEF Next

\* Every variable keeps its type in every reachable state.
THEOREM TypeCorrect == Spec => []TypeOK
  BY TypeInit, TypeStep, PTL DEF Spec

-----------------------------------------------------------------------------
(* The inductive invariant, kept by each kind of step.                     *)

\* Steps that change only Workers: no peak shrinks, no pause comes while the
\* lock is held, and only a Worker without Workspaces is removed.
LEMMA WorkerStep ==
  ASSUME IndInv, TypeOK', UNCHANGED <<row, lock, tx>>,
         \A k \in Workers : worker'[k].max <= worker'[k].peak,
         \A k \in Workers : worker'[k].peak >= worker[k].peak,
         lock # NoRequest =>
           \A k \in Workers : worker[k].schedulable => worker'[k].schedulable,
         \A k \in Workers : worker'[k].status = "REMOVED" =>
           worker[k].status = "REMOVED" \/ Load(k) = 0
  PROVE  IndInv'
  <1>. USE DEF IndInv
  <1>1. \A k : Load(k)' = Load(k)
    BY DEF Load, Assigned
  <1>2. \A k \in Workers : worker[k].peak \in Nat /\ worker'[k].peak \in Nat
    BY RowNumbers DEF TypeOK
  <1>3. Exclusive' /\ RowHeld' /\ PeakBounds'
    BY DEF Exclusive, RowHeld, PeakBounds, Active
  <1>4. NoOvercommit'
    BY <1>1, <1>2, LoadIsNat DEF NoOvercommit
  <1>5. Promised'
    <2> SUFFICES ASSUME NEW t \in Requests, tx[t].pc = "chosen",
                        row[tx[t].ws].worker # tx[t].choice
                 PROVE  /\ tx[t].choice \in Workers
                        /\ row[tx[t].ws].worker = NoWorker
                        /\ worker'[tx[t].choice].schedulable
                        /\ Load(tx[t].choice)' < worker'[tx[t].choice].peak
      BY DEF Promised
    <2>1. lock # NoRequest
      BY PlacementAssumption DEF Exclusive, Active
    <2>2. Load(tx[t].choice) < worker[tx[t].choice].peak /\ tx[t].choice \in Workers
      BY DEF Promised
    <2>. QED BY <1>1, <1>2, <2>1, <2>2, LoadIsNat DEF Promised
  <1>6. AssignmentsResolve'
    <2> SUFFICES ASSUME NEW w \in Workspaces, row[w].worker # NoWorker
                 PROVE  worker'[row[w].worker].status # "REMOVED"
      BY DEF AssignmentsResolve, Exists
    <2>1. row[w].worker \in Workers /\ worker[row[w].worker].status # "REMOVED"
      BY DEF AssignmentsResolve, Exists, TypeOK, Row
    <2>2. Load(row[w].worker) # 0
      <3>1. IsFiniteSet(Assigned(row[w].worker)) /\ w \in Assigned(row[w].worker)
        BY FS_Subset, PlacementAssumption DEF Assigned
      <3>. QED BY <3>1, FS_EmptySet DEF Load
    <2>. QED BY <2>1, <2>2
  <1>. QED BY <1>3, <1>4, <1>5, <1>6

\* Steps that change one row nobody has locked: the Workspace keeps its Worker
\* or loses it.
LEMMA RowStep ==
  ASSUME IndInv, TypeOK', UNCHANGED <<worker, lock, tx>>,
         NEW w \in Workspaces, NEW r \in Row,
         row' = [row EXCEPT ![w] = r],
         \A t \in Requests : Active(t) => tx[t].ws # w,
         r.worker = NoWorker \/ r.worker = row[w].worker,
         r.worker = NoWorker <=> r.state \in {"CREATED", "GONE"}
  PROVE  IndInv'
  <1>. USE DEF IndInv
  <1>1. \A k \in Workers : Assigned(k)' \subseteq Assigned(k)
    BY PlacementAssumption DEF Assigned, TypeOK
  <1>2. \A k \in Workers : Load(k)' <= Load(k) /\ Load(k) \in Nat /\ Load(k)' \in Nat
    <2>. TAKE k \in Workers
    <2>1. Load(k)' \in Nat
      <3>1. IsFiniteSet(Assigned(k)')
        BY FS_Subset, PlacementAssumption DEF Assigned
      <3>. QED BY <3>1, FS_CardinalityType DEF Load
    <2>. QED BY <1>1, <2>1, LoadShrinks, LoadIsNat
  <1>3. \A k \in Workers : worker[k].peak \in Nat
    BY RowNumbers DEF TypeOK
  <1>4. Exclusive' /\ PeakBounds'
    BY DEF Exclusive, PeakBounds, Active
  <1>5. RowHeld'
    BY DEF RowHeld, Active, TypeOK
  <1>6. NoOvercommit'
    BY <1>2, <1>3 DEF NoOvercommit
  <1>7. Promised'
    <2> SUFFICES ASSUME NEW t \in Requests, tx[t].pc = "chosen"
                 PROVE  /\ tx[t].choice \in Workers
                        /\ \/ row'[tx[t].ws].worker = tx[t].choice
                           \/ /\ row'[tx[t].ws].worker = NoWorker
                              /\ worker[tx[t].choice].schedulable
                              /\ Load(tx[t].choice)' < worker[tx[t].choice].peak
      BY DEF Promised
    <2>1. row'[tx[t].ws] = row[tx[t].ws]
      BY DEF Active, RowHeld, TypeOK
    <2>. QED BY <1>2, <1>3, <2>1 DEF Promised
  <1>8. AssignmentsResolve'
    BY DEF AssignmentsResolve, Exists, TypeOK
  <1>. QED BY <1>4, <1>5, <1>6, <1>7, <1>8

\* Steps of a request that take or leave the lock and write nothing.
LEMMA RequestStep ==
  ASSUME IndInv, TypeOK', NEW t \in Requests,
         \/ \E w \in Workspaces : RequestStart(t, w)
         \/ Begin(t) \/ BeginRefused(t) \/ NoEligibleWorker(t)
  PROVE  IndInv'
  <1>. USE DEF IndInv, RequestStart, Begin, BeginRefused, NoEligibleWorker
  <1>1. \A k : Load(k)' = Load(k)
    BY DEF Load, Assigned
  <1>2. UNCHANGED <<row, worker>> /\ NoOvercommit' /\ PeakBounds' /\ AssignmentsResolve'
    BY <1>1 DEF NoOvercommit, PeakBounds, AssignmentsResolve, Exists
  <1>3. \A u \in Requests \ {t} : tx'[u] = tx[u]
    BY DEF TypeOK
  <1>4. /\ tx'[t].pc # "chosen"
        /\ tx'[t].pc # "idle" => tx'[t].ws \in Workspaces
        /\ tx'[t].pc = "holding" => row[tx'[t].ws].state \in Startable
    BY DEF TypeOK, Request, NoTx, RowHeld
  <1>5. Exclusive'
    <2>1. CASE (\E w \in Workspaces : RequestStart(t, w)) \/ BeginRefused(t)
      <3>1. lock' = lock /\ tx'[t].pc \in {"idle", "requested"} /\ ~Active(t)
        BY <2>1 DEF TypeOK, NoTx, Active
      <3>. QED BY <1>3, <3>1 DEF Exclusive, Active
    <2>2. CASE Begin(t)
      <3>1. lock = NoRequest /\ lock' = t /\ tx'[t].pc = "holding"
        BY <2>2 DEF TypeOK, Request
      <3>. QED BY <1>3, <3>1, PlacementAssumption DEF Exclusive, Active
    <2>3. CASE NoEligibleWorker(t)
      <3>1. lock = t /\ lock' = NoRequest /\ tx'[t].pc = "idle"
        BY <2>3 DEF TypeOK, NoTx, Exclusive, Active
      <3>. QED BY <1>3, <3>1, PlacementAssumption DEF Exclusive, Active
    <2>. QED BY <2>1, <2>2, <2>3
  <1>6. RowHeld'
    BY <1>2, <1>3, <1>4 DEF RowHeld, Active
  <1>7. Promised'
    BY <1>1, <1>2, <1>3, <1>4 DEF Promised
  <1>. QED BY <1>2, <1>5, <1>6, <1>7

\* Choosing: the chosen Worker has room and is not paused, or is the recorded one.
LEMMA ChooseStep ==
  ASSUME IndInv, TypeOK', NEW t \in Requests, Choose(t)
  PROVE  IndInv'
  <1>. USE DEF IndInv
  <1>1. PICK k \in Workers :
          /\ IF row[tx[t].ws].worker = NoWorker
               THEN k \in Selectable(tx[t].connected)
               ELSE k = row[tx[t].ws].worker
          /\ tx' = [tx EXCEPT ![t].pc = "chosen", ![t].connected = {}, ![t].choice = k]
    BY DEF Choose
  <1>2. UNCHANGED <<row, worker, lock>> /\ tx[t].pc = "holding"
    BY DEF Choose
  <1>3. \A j : Load(j)' = Load(j)
    BY <1>2 DEF Load, Assigned
  <1>4. NoOvercommit' /\ PeakBounds' /\ AssignmentsResolve'
    BY <1>2, <1>3 DEF NoOvercommit, PeakBounds, AssignmentsResolve, Exists
  <1>5. \A u \in Requests \ {t} : tx'[u] = tx[u]
    BY <1>1 DEF TypeOK
  <1>6. tx'[t].pc = "chosen" /\ tx'[t].choice = k /\ tx'[t].ws = tx[t].ws
    BY <1>1 DEF TypeOK, Request
  <1>7. Exclusive' /\ RowHeld'
    BY <1>2, <1>5, <1>6 DEF Exclusive, RowHeld, Active
  <1>8. row[tx[t].ws].worker = k \/ ( /\ row[tx[t].ws].worker = NoWorker
                                      /\ worker[k].schedulable
                                      /\ Load(k) < worker[k].peak )
    <2>1. worker[k].max \in Nat /\ worker[k].peak \in Nat /\ worker[k].max <= worker[k].peak
      BY RowNumbers DEF TypeOK, PeakBounds
    <2>. QED BY <1>1, <2>1, LoadIsNat DEF Selectable, Eligible
  <1>9. Promised'
    BY <1>2, <1>3, <1>5, <1>6, <1>8 DEF Promised
  <1>. QED BY <1>4, <1>7, <1>9

\* The commit adds at most its Workspace to the Worker it promised a slot on.
LEMMA CommitLoads ==
  ASSUME IndInv, NEW t \in Requests, Commit(t), NEW k \in Workers
  PROVE  \/ Assigned(k)' \subseteq Assigned(k)
         \/ /\ Assigned(k)' \subseteq Assigned(k) \cup {tx[t].ws}
            /\ worker[k].schedulable
            /\ Load(k) < worker[k].peak
  <1>. USE DEF IndInv
  <1>1. CASE row' = row
    BY <1>1 DEF Assigned
  <1>2. CASE row' = [row EXCEPT ![tx[t].ws] = [state |-> "STARTING", worker |-> tx[t].choice]]
    <2>1. Assigned(k)' \subseteq Assigned(k) \cup {tx[t].ws}
      BY <1>2 DEF Assigned, TypeOK
    <2>2. tx[t].pc = "chosen"
      BY DEF Commit
    <2>3. CASE k # tx[t].choice \/ row[tx[t].ws].worker = k
      BY <1>2, <2>3 DEF Assigned, TypeOK
    <2>4. CASE k = tx[t].choice /\ row[tx[t].ws].worker # k
      BY <2>1, <2>2, <2>4 DEF Promised
    <2>. QED BY <2>3, <2>4
  <1>. QED BY <1>1, <1>2 DEF Commit

\* The commit keeps the invariant.
LEMMA CommitStep ==
  ASSUME IndInv, TypeOK', NEW t \in Requests, Commit(t)
  PROVE  IndInv'
  <1>. USE DEF IndInv
  <1>1. /\ tx[t].pc = "chosen" /\ lock = t /\ lock' = NoRequest /\ worker' = worker
        /\ tx'[t].pc = "idle"
        /\ \A u \in Requests \ {t} : tx'[u] = tx[u] /\ ~Active(u)
    BY DEF Commit, TypeOK, NoTx, Exclusive, Active
  <1>2. Exclusive' /\ PeakBounds' /\ Promised'
    BY <1>1, PlacementAssumption DEF Exclusive, PeakBounds, Promised, Active
  <1>3. RowHeld'
    BY <1>1 DEF RowHeld, Active
  <1>4. NoOvercommit'
    <2> SUFFICES ASSUME NEW k \in Workers PROVE Load(k)' <= worker[k].peak
      BY <1>1 DEF NoOvercommit
    <2>1. Load(k) <= worker[k].peak /\ Load(k) \in Nat /\ worker[k].peak \in Nat
      BY LoadIsNat, RowNumbers DEF NoOvercommit, TypeOK
    <2>2. Load(k)' \in Nat
      <3>1. IsFiniteSet(Assigned(k)')
        BY FS_Subset, PlacementAssumption DEF Assigned
      <3>. QED BY <3>1, FS_CardinalityType DEF Load
    <2>3. CASE Assigned(k)' \subseteq Assigned(k)
      BY <2>1, <2>2, <2>3, LoadShrinks
    <2>4. CASE Assigned(k)' \subseteq Assigned(k) \cup {tx[t].ws} /\ Load(k) < worker[k].peak
      <3>1. Load(k)' <= Load(k) + 1
        BY <2>4, LoadGrowsByOne
      <3>. QED BY <2>1, <2>2, <2>4, <3>1
    <2>. QED BY <2>3, <2>4, CommitLoads
  <1>5. AssignmentsResolve'
    BY <1>1, PlacementAssumption DEF AssignmentsResolve, Exists, Commit, TypeOK, Promised
  <1>. QED BY <1>2, <1>3, <1>4, <1>5

\* Every step keeps the invariant.
LEMMA IndStep == IndInv /\ [Next]_vars => IndInv'
  <1> SUFFICES ASSUME IndInv, [Next]_vars PROVE IndInv'
    OBVIOUS
  <1>1. TypeOK /\ TypeOK'
    BY TypeStep DEF IndInv
  <1>2. ASSUME NEW t \in Requests,
               \/ \E w \in Workspaces : RequestStart(t, w)
               \/ Begin(t) \/ BeginRefused(t) \/ NoEligibleWorker(t)
        PROVE IndInv'
    BY <1>1, <1>2, RequestStep
  <1>3. ASSUME NEW t \in Requests, Choose(t) \/ Commit(t) PROVE IndInv'
    BY <1>1, <1>3, ChooseStep, CommitStep
  <1>4. ASSUME NEW w \in Workspaces,
               Create(w) \/ DeleteUnassigned(w) \/ Settle(w) \/ DeleteAssigned(w)
        PROVE IndInv'
    <2>1. \A t \in Requests : Active(t) => tx[t].ws # w
      BY <1>4 DEF IndInv, RowHeld, Active, Startable, Create, DeleteUnassigned, Settle,
                  DeleteAssigned, RowLocked
    <2>2. UNCHANGED <<worker, lock, tx>>
      BY <1>4 DEF Create, DeleteUnassigned, Settle, DeleteAssigned
    <2>3. CASE Create(w)
      <3>. DEFINE r == [state |-> "CREATED", worker |-> NoWorker]
      <3>1. row' = [row EXCEPT ![w] = r] /\ r \in Row
        BY <2>3 DEF Create, Row, RowStates
      <3>. QED BY <1>1, <2>1, <2>2, <3>1, RowStep
    <2>4. CASE DeleteUnassigned(w) \/ DeleteAssigned(w)
      <3>1. row' = [row EXCEPT ![w] = NoRow] /\ NoRow \in Row
        BY <2>4 DEF DeleteUnassigned, DeleteAssigned, NoRow, Row, RowStates
      <3>2. NoRow.worker = NoWorker /\ NoRow.state = "GONE"
        BY DEF NoRow
      <3>. QED BY <1>1, <2>1, <2>2, <3>1, <3>2, RowStep
    <2>5. CASE Settle(w)
      <3>. DEFINE r == [state |-> "SETTLED", worker |-> row[w].worker]
      <3>1. row[w] \in Row
        BY <1>1 DEF TypeOK
      <3>2. r \in Row /\ r = [row[w] EXCEPT !.state = "SETTLED"]
        BY <3>1 DEF Row, RowStates
      <3>3. row' = [row EXCEPT ![w] = r]
        BY <2>5, <3>2 DEF Settle
      <3>4. row[w].worker # NoWorker
        BY <2>5 DEF Settle, IndInv, AssignmentsResolve
      <3>. QED BY <1>1, <2>1, <2>2, <3>2, <3>3, <3>4, RowStep
    <2>. QED BY <1>4, <2>3, <2>4, <2>5
  <1>5. ASSUME NEW k \in Workers,
               \/ \E n \in Capacities : Hello(k, n)
               \/ Heartbeat(k) \/ BecomeUnfit(k) \/ Disable(k) \/ Enable(k)
               \/ DeleteWorker(k) \/ Provision(k) \/ SetWorkerSchedulable(k)
        PROVE IndInv'
    <2>1. \A j \in Workers : /\ worker[j].max \in Nat /\ worker[j].peak \in Nat
                             /\ worker[j].max <= worker[j].peak
      BY RowNumbers DEF IndInv, TypeOK, PeakBounds
    <2>2. CASE \E n \in Capacities : Hello(k, n)
      <3>1. PICK n \in Capacities : Hello(k, n)
        BY <2>2
      <3>2. n \in Nat
        BY PlacementAssumption
      <3>3. UNCHANGED <<row, lock, tx>> /\ \A j \in Workers :
              /\ worker'[j].max <= worker'[j].peak
              /\ worker'[j].peak >= worker[j].peak
              /\ worker[j].schedulable => worker'[j].schedulable
              /\ worker'[j].status = "REMOVED" => worker[j].status = "REMOVED"
        BY <1>1, <2>1, <3>1, <3>2 DEF Hello, TypeOK, WorkerRow
      <3>. QED BY <1>1, <3>3, WorkerStep
    <2>3. CASE Heartbeat(k) \/ BecomeUnfit(k) \/ Disable(k) \/ Enable(k) \/ Provision(k)
      <3>1. UNCHANGED <<row, lock, tx>> /\ \A j \in Workers :
              /\ worker'[j].max <= worker'[j].peak
              /\ worker'[j].peak >= worker[j].peak
              /\ worker[j].schedulable => worker'[j].schedulable
              /\ worker'[j].status = "REMOVED" => worker[j].status = "REMOVED"
        BY <1>1, <2>1, <2>3 DEF Heartbeat, BecomeUnfit, Disable, Enable, Provision, TypeOK, WorkerRow
      <3>. QED BY <1>1, <3>1, WorkerStep
    <2>4. CASE DeleteWorker(k)
      <3>1. UNCHANGED <<row, lock, tx>> /\ \A j \in Workers :
              /\ worker'[j].max <= worker'[j].peak
              /\ worker'[j].peak >= worker[j].peak
              /\ worker[j].schedulable => worker'[j].schedulable
              /\ worker'[j].status = "REMOVED" => worker[j].status = "REMOVED" \/ Load(j) = 0
        BY <1>1, <2>1, <2>4 DEF DeleteWorker, NoWorkerRow, TypeOK, WorkerRow
      <3>. QED BY <1>1, <3>1, WorkerStep
    <2>5. CASE SetWorkerSchedulable(k)
      <3>1. UNCHANGED <<row, lock, tx>> /\ lock = NoRequest /\ \A j \in Workers :
              /\ worker'[j].max <= worker'[j].peak
              /\ worker'[j].peak >= worker[j].peak
              /\ worker'[j].status = "REMOVED" => worker[j].status = "REMOVED"
        BY <1>1, <2>1, <2>5 DEF SetWorkerSchedulable, TypeOK, WorkerRow
      <3>. QED BY <1>1, <3>1, WorkerStep
    <2>. QED BY <1>5, <2>2, <2>3, <2>4, <2>5
  <1>6. CASE UNCHANGED vars
    BY <1>6 DEF vars, IndInv, TypeOK, Exclusive, RowHeld, Promised, PeakBounds, Active,
                AssignmentsResolve, Exists, NoOvercommit, Load, Assigned
  <1>. QED BY <1>2, <1>3, <1>4, <1>5, <1>6 DEF Next

\* The invariant holds initially: nothing is assigned, nothing in progress.
LEMMA IndInit == Init => IndInv
  <1> SUFFICES ASSUME Init PROVE IndInv
    OBVIOUS
  <1>1. \A k \in Workers : Load(k) = 0
    <2>. TAKE k \in Workers
    <2>1. Assigned(k) = {}
      BY PlacementAssumption DEF Init, Assigned
    <2>. QED BY <2>1, FS_EmptySet DEF Load
  <1>2. NoOvercommit /\ PeakBounds
    BY <1>1 DEF Init, NoOvercommit, PeakBounds, NoWorkerRow
  <1>3. Exclusive /\ RowHeld /\ Promised /\ AssignmentsResolve
    BY PlacementAssumption DEF Init, Exclusive, RowHeld, Promised, AssignmentsResolve, Active, NoTx
  <1>. QED BY <1>2, <1>3, TypeInit DEF IndInv

-----------------------------------------------------------------------------
(* The results.                                                            *)

\* The inductive invariant holds in every reachable state.
THEOREM PlacementInvariant == Spec => []IndInv
  BY IndInit, IndStep, PTL DEF Spec

\* Whatever the numbers of Workspaces, Workers and racing starts, no Worker
\* is ever assigned more Workspaces than it offered room for.
THEOREM NeverOvercommitted == Spec => []NoOvercommit
  <1>1. IndInv => NoOvercommit
    BY DEF IndInv
  <1>. QED BY <1>1, PlacementInvariant, PTL

\* A Workspace has a Worker exactly when it left CREATED, and it exists.
THEOREM AssignmentsAlwaysResolve == Spec => []AssignmentsResolve
  <1>1. IndInv => AssignmentsResolve
    BY DEF IndInv
  <1>. QED BY <1>1, PlacementInvariant, PTL

\* Once a pause is committed no placement adds a Workspace to the Worker.
THEOREM PauseHolds == Spec => PauseStopsPlacement
  <1>1. IndInv /\ [Next]_vars =>
          [\A k \in Workers : ~worker[k].schedulable => Assigned(k)' \subseteq Assigned(k)]_vars
    <2> SUFFICES ASSUME IndInv, Next, NEW k \in Workers, ~worker[k].schedulable
                 PROVE  Assigned(k)' \subseteq Assigned(k)
      OBVIOUS
    <2>1. CASE row' = row
      BY <2>1 DEF Assigned
    <2>2. CASE \E t \in Requests : Commit(t)
      BY <2>2, CommitLoads
    <2>3. CASE \E w \in Workspaces :
                 Create(w) \/ DeleteUnassigned(w) \/ Settle(w) \/ DeleteAssigned(w)
      <3>1. \A v \in Workspaces : row'[v].worker \in {row[v].worker, NoWorker}
        BY <2>3 DEF Create, DeleteUnassigned, Settle, DeleteAssigned, NoRow, IndInv, TypeOK, Row
      <3>. QED BY <3>1, PlacementAssumption DEF Assigned
    <2>. QED BY <2>1, <2>2, <2>3 DEF Next, RequestStart, Begin, BeginRefused, Choose,
               NoEligibleWorker, Hello, Heartbeat, BecomeUnfit, Disable, Enable, DeleteWorker,
               Provision, SetWorkerSchedulable
  <1>. QED BY <1>1, PlacementInvariant, PTL DEF Spec, PauseStopsPlacement

\* An assignment ends only with the row: a placement writes one where there is none.
THEOREM AssignmentsStick == Spec => StickyAssignment
  <1>1. IndInv /\ [Next]_vars =>
          [\A w \in Workspaces :
             row[w].worker # NoWorker => row'[w].worker = row[w].worker \/ row'[w] = NoRow]_vars
    <2> SUFFICES ASSUME IndInv, Next, NEW w \in Workspaces, row[w].worker # NoWorker
                 PROVE  row'[w].worker = row[w].worker \/ row'[w] = NoRow
      OBVIOUS
    <2>1. CASE row' = row
      BY <2>1
    <2>2. CASE \E t \in Requests : Commit(t)
      BY <2>2 DEF Commit, IndInv, TypeOK, Promised
    <2>3. CASE \E v \in Workspaces :
                 Create(v) \/ DeleteUnassigned(v) \/ Settle(v) \/ DeleteAssigned(v)
      BY <2>3 DEF Create, DeleteUnassigned, Settle, DeleteAssigned, IndInv, TypeOK, Row,
                  AssignmentsResolve
    <2>. QED BY <2>1, <2>2, <2>3 DEF Next, RequestStart, Begin, BeginRefused, Choose,
               NoEligibleWorker, Hello, Heartbeat, BecomeUnfit, Disable, Enable, DeleteWorker,
               Provision, SetWorkerSchedulable
  <1>. QED BY <1>1, PlacementInvariant, PTL DEF Spec, StickyAssignment

-----------------------------------------------------------------------------
(* Placement implements AtomicPlacement.  One request at most is past its  *)
(* choice, and shows its row as it will be.                                *)

Nobody == \A t \in Requests : tx[t].pc # "chosen"

\* What is shown: while nobody has chosen, the rows as they are; otherwise the row of
\* the one that has chosen as it will be.
Shown ==
  /\ Nobody => VisibleRow = row /\ Reserved = {}
  /\ \A t \in Requests : tx[t].pc = "chosen" =>
       /\ Reserved = {tx[t].ws}
       /\ VisibleRow = [row EXCEPT ![tx[t].ws] = [state |-> "STARTING", worker |-> tx[t].choice]]

\* Nothing else is shown, for nobody else can have chosen.
LEMMA OneIsShown == IndInv => Shown
  <1> SUFFICES ASSUME IndInv PROVE Shown
    OBVIOUS
  <1>1. row = [w \in Workspaces |-> row[w]]
    BY DEF IndInv, TypeOK
  <1>2. Nobody => VisibleRow = row /\ Reserved = {}
    BY <1>1 DEF Nobody, VisibleRow, Reserved, Placing
  <1>3. ASSUME NEW t \in Requests, tx[t].pc = "chosen"
        PROVE  /\ Reserved = {tx[t].ws}
               /\ VisibleRow = [row EXCEPT ![tx[t].ws] = [state |-> "STARTING", worker |-> tx[t].choice]]
    <2>1. Placing = {t}
      BY <1>3 DEF IndInv, Exclusive, Active, Placing
    <2>2. Reserved = {tx[t].ws}
      BY <2>1 DEF Reserved
    <2>3. ReservedOn(tx[t].ws) = tx[t].choice
      BY <2>1 DEF ReservedOn
    <2>. QED BY <1>1, <2>2, <2>3 DEF VisibleRow
  <1>. QED BY <1>2, <1>3 DEF Shown

\* As long as the rows and the choices stay so does what is shown.
LEMMA ShownAsBefore ==
  ASSUME IndInv, IndInv', Shown, Shown', UNCHANGED row,
         \A t \in Requests : tx[t].pc = "chosen" \/ tx'[t].pc = "chosen" => tx'[t] = tx[t]
  PROVE  UNCHANGED <<VisibleRow, Reserved>>
  <1>1. CASE Nobody
    BY <1>1 DEF Shown, Nobody
  <1>2. CASE \E t \in Requests : tx[t].pc = "chosen"
    <2>1. PICK t \in Requests : tx[t].pc = "chosen" /\ tx'[t] = tx[t]
      BY <1>2
    <2>. QED BY <2>1 DEF Shown
  <1>. QED BY <1>1, <1>2 DEF Nobody

\* Choosing is the placement: of a Workspace without a Worker on one that is fit, not
\* paused and has room, or of another where it was.
LEMMA ChoosePlaces ==
  ASSUME IndInv, IndInv', Shown, Shown', NEW t \in Requests, Choose(t)
  PROVE  \E w \in Workspaces : Atomic!Restart(w) \/ \E k \in Workers : Atomic!Place(w, k)
  <1>. USE DEF IndInv
  <1>. DEFINE w == tx[t].ws
  <1>1. PICK k \in Workers :
          /\ IF row[w].worker = NoWorker THEN k \in Selectable(tx[t].connected) ELSE k = row[w].worker
          /\ tx' = [tx EXCEPT ![t].pc = "chosen", ![t].connected = {}, ![t].choice = k]
    BY DEF Choose
  <1>2. UNCHANGED <<row, worker>> /\ tx[t].pc = "holding"
    BY DEF Choose
  <1>3. w \in Workspaces /\ row[w].state \in Startable /\ row[w] \in Row
    BY <1>2 DEF RowHeld, Active, TypeOK
  <1>4. VisibleRow = row /\ Reserved = {}
    BY <1>2 DEF Exclusive, Active, Shown, Nobody
  <1>5. tx'[t].pc = "chosen" /\ tx'[t].choice = k /\ tx'[t].ws = w
    BY <1>1 DEF TypeOK, Request
  <1>6. Reserved' = {w} /\ VisibleRow' = [row EXCEPT ![w] = [state |-> "STARTING", worker |-> k]]
    BY <1>2, <1>5 DEF Shown
  <1>7. CASE row[w].worker = NoWorker
    <2>1. row[w] = [state |-> "CREATED", worker |-> NoWorker]
      BY <1>3, <1>7 DEF Row, Startable, AssignmentsResolve
    <2>2. worker[k].status = "FIT" /\ worker[k].schedulable /\ Load(k) < worker[k].max
      BY <1>1, <1>7 DEF Selectable, Eligible
    <2>3. Atomic!HasRoom(k)
      <3>1. \A S : Atomic!Cardinality(S) = Cardinality(S)
        BY Zenon DEF Atomic!Cardinality, Cardinality
      <3>. QED BY <1>4, <2>2, <3>1 DEF Atomic!HasRoom, Atomic!Load, Load, Assigned
    <2>. QED BY <1>2, <1>3, <1>4, <1>6, <2>1, <2>2, <2>3 DEF Atomic!Place, Atomic!Free
  <1>8. CASE row[w].worker # NoWorker
    <2>1. row[w].state = "SETTLED" /\ row[w].worker = k
      BY <1>1, <1>3, <1>8 DEF Startable, AssignmentsResolve
    <2>2. VisibleRow' = [VisibleRow EXCEPT ![w].state = "STARTING"]
      BY <1>3, <1>4, <1>6, <2>1 DEF TypeOK, Row
    <2>. QED BY <1>2, <1>3, <1>4, <1>6, <2>1, <2>2 DEF Atomic!Restart, Atomic!Free
  <1>. QED BY <1>7, <1>8

\* The commit confirms what was shown, or takes it back for a Worker that was removed.
LEMMA CommitConfirms ==
  ASSUME IndInv, IndInv', Shown, Shown', NEW t \in Requests, Commit(t)
  PROVE  \E w \in Workspaces : Atomic!Confirm(w) \/ Atomic!Cancel(w)
  <1>. USE DEF IndInv
  <1>. DEFINE w == tx[t].ws
              k == tx[t].choice
              placed == [state |-> "STARTING", worker |-> k]
  <1>1. /\ tx[t].pc = "chosen" /\ worker' = worker /\ tx'[t].pc = "idle"
        /\ \A u \in Requests \ {t} : tx'[u] = tx[u]
    BY DEF Commit, TypeOK, NoTx
  <1>2. w \in Workspaces /\ k \in Workers /\ row[w].state \in Startable /\ row[w].worker \in {NoWorker, k}
    BY <1>1 DEF RowHeld, Active, Promised
  <1>3. Reserved = {w} /\ VisibleRow = [row EXCEPT ![w] = placed]
    BY <1>1 DEF Shown
  <1>4. VisibleRow' = row' /\ Reserved' = {}
    BY <1>1 DEF Exclusive, Active, Shown, Nobody
  <1>5. VisibleRow[w].worker = k
    BY <1>2, <1>3 DEF TypeOK
  <1>6. CASE Exists(k)
    <2>1. row' = [row EXCEPT ![w] = placed]
      BY <1>2, <1>6 DEF Commit
    <2>. QED BY <1>1, <1>2, <1>3, <1>4, <1>5, <1>6, <2>1 DEF Atomic!Confirm, Exists
  <1>7. CASE ~Exists(k)
    <2>1. row' = row
      BY <1>7 DEF Commit
    <2>2. row[w] = [state |-> "CREATED", worker |-> NoWorker]
      BY <1>2, <1>7 DEF AssignmentsResolve, TypeOK, Row, Startable
    <2>3. VisibleRow' = [VisibleRow EXCEPT ![w] = [state |-> "CREATED", worker |-> NoWorker]]
      BY <1>2, <1>3, <1>4, <2>1, <2>2 DEF TypeOK
    <2>. QED BY <1>1, <1>2, <1>3, <1>4, <1>5, <1>7, <2>3 DEF Atomic!Cancel, Exists
  <1>. QED BY <1>6, <1>7

\* A row that nobody has locked is shown as it is, before and after it changes.
LEMMA RowsAreShown ==
  ASSUME IndInv, IndInv', Shown, Shown', NEW w \in Workspaces,
         Create(w) \/ DeleteUnassigned(w) \/ Settle(w) \/ DeleteAssigned(w)
  PROVE  Atomic!Create(w) \/ Atomic!Delete(w) \/ Atomic!Settle(w)
  <1>. USE DEF IndInv
  <1>1. UNCHANGED <<worker, lock, tx>> /\ row' = [row EXCEPT ![w] = row'[w]]
    BY DEF Create, DeleteUnassigned, Settle, DeleteAssigned, TypeOK
  <1>2. \A t \in Requests : tx[t].pc = "chosen" => tx[t].ws # w /\ tx[t].ws \in Workspaces
    BY DEF RowHeld, Active, Startable, Create, DeleteUnassigned, Settle, DeleteAssigned, RowLocked
  <1>3. /\ w \notin Reserved /\ Reserved' = Reserved /\ VisibleRow[w] = row[w]
        /\ VisibleRow' = [VisibleRow EXCEPT ![w] = row'[w]]
    <2>1. CASE Nobody
      BY <1>1, <2>1 DEF Shown, Nobody
    <2>2. CASE \E t \in Requests : tx[t].pc = "chosen"
      <3>1. PICK t \in Requests : tx[t].pc = "chosen"
        BY <2>2
      <3>. DEFINE placed == [state |-> "STARTING", worker |-> tx[t].choice]
      <3>2. Reserved = {tx[t].ws} /\ VisibleRow = [row EXCEPT ![tx[t].ws] = placed]
        BY <3>1 DEF Shown
      <3>3. Reserved' = {tx[t].ws} /\ VisibleRow' = [row' EXCEPT ![tx[t].ws] = placed]
        BY <1>1, <3>1 DEF Shown
      <3>. QED BY <1>1, <1>2, <3>1, <3>2, <3>3 DEF TypeOK
    <2>. QED BY <2>1, <2>2 DEF Nobody
  <1>4. CASE Create(w)
    BY <1>1, <1>3, <1>4 DEF Create, Atomic!Create, TypeOK
  <1>5. CASE DeleteUnassigned(w) \/ DeleteAssigned(w)
    BY <1>1, <1>3, <1>5 DEF DeleteUnassigned, DeleteAssigned, NoRow, Atomic!Delete, Atomic!Free, TypeOK
  <1>6. CASE Settle(w)
    <2>1. row'[w] = [row[w] EXCEPT !.state = "SETTLED"]
      BY <1>6 DEF Settle, TypeOK
    <2>2. VisibleRow' = [VisibleRow EXCEPT ![w].state = "SETTLED"]
      BY <1>3, <2>1
    <2>. QED BY <1>1, <1>3, <1>6, <2>2 DEF Settle, Atomic!Settle, Atomic!Free
  <1>. QED BY <1>4, <1>5, <1>6

\* A Worker's own row changes; one that has Workspaces is not removed.
LEMMA WorkersAreShown ==
  ASSUME IndInv, IndInv', Shown, Shown', NEW k \in Workers,
         \/ \E n \in Capacities : Hello(k, n)
         \/ Heartbeat(k) \/ BecomeUnfit(k) \/ Disable(k) \/ Enable(k)
         \/ DeleteWorker(k) \/ Provision(k) \/ SetWorkerSchedulable(k)
  PROVE  Atomic!WorkerChanges(k)
  <1>. USE DEF IndInv
  <1>. DEFINE Removed == worker'[k].status = "REMOVED" => Load(k) = 0
  <1>1. UNCHANGED <<row, lock, tx>> /\ worker' = [worker EXCEPT ![k] = worker'[k]]
    BY DEF TypeOK, Hello, Heartbeat, BecomeUnfit, Disable, Enable, DeleteWorker, Provision, SetWorkerSchedulable
  <1>2. UNCHANGED <<VisibleRow, Reserved>>
    BY <1>1, ShownAsBefore
  <1>3. worker'[k] \in Atomic!WorkerRow
    BY DEF TypeOK, WorkerRow, Atomic!WorkerRow
  <1>4. worker \in [Workers -> WorkerRow] /\ worker[k].peak \in Nat
    BY RowNumbers DEF TypeOK
  <1>5. worker'[k].max <= worker'[k].peak
    BY DEF PeakBounds
  <1>6. worker'[k].peak >= worker[k].peak /\ Removed
    <2>1. CASE \E n \in Capacities : Hello(k, n)
      <3>1. PICK n \in Capacities : Hello(k, n)
        BY <2>1
      <3>2. n \in Nat
        BY PlacementAssumption
      <3>3. /\ worker'[k].peak = IF n > worker[k].peak THEN n ELSE worker[k].peak
            /\ worker'[k].status = "FIT"
        BY <1>4, <3>1 DEF Hello, WorkerRow
      <3>. QED BY <1>4, <3>2, <3>3
    <2>2. CASE Heartbeat(k) \/ BecomeUnfit(k) \/ Disable(k) \/ Enable(k) \/ Provision(k)
      <3>1. worker'[k].peak = worker[k].peak /\ worker'[k].status # "REMOVED"
        BY <1>4, <2>2 DEF Heartbeat, BecomeUnfit, Disable, Enable, Provision, WorkerRow
      <3>. QED BY <1>4, <3>1
    <2>3. CASE DeleteWorker(k)
      BY <1>4, <2>3 DEF DeleteWorker, NoWorkerRow
    <2>4. CASE SetWorkerSchedulable(k)
      <3>1. worker'[k].peak = worker[k].peak /\ worker'[k].status = worker[k].status
        BY <1>4, <2>4 DEF SetWorkerSchedulable, WorkerRow
      <3>. QED BY <1>4, <2>4, <3>1 DEF SetWorkerSchedulable, Exists
    <2>. QED BY <2>1, <2>2, <2>3, <2>4
  <1>7. worker'[k].status = "REMOVED" => \A w \in Workspaces \ Reserved : VisibleRow[w].worker # k
    <2> SUFFICES ASSUME Load(k) = 0, NEW w \in Workspaces \ Reserved PROVE VisibleRow[w].worker # k
      BY <1>6
    <2>1. VisibleRow[w] = row[w]
      BY DEF VisibleRow
    <2>2. IsFiniteSet(Assigned(k))
      BY FS_Subset, PlacementAssumption DEF Assigned
    <2>3. w \notin Assigned(k)
      BY <2>2, FS_EmptySet DEF Load
    <2>. QED BY <2>1, <2>3 DEF Assigned
  <1>. QED BY <1>1, <1>2, <1>3, <1>5, <1>6, <1>7 DEF Atomic!WorkerChanges, Atomic!Free

\* Every step is one of the abstract specification, or none.
LEMMA StepsAreShown ==
  ASSUME IndInv, IndInv', Shown, Shown', [Next]_vars
  PROVE  [Atomic!Next]_(Atomic!vars)
  <1>1. CASE UNCHANGED vars
    BY <1>1, ShownAsBefore DEF vars, Atomic!vars
  <1>2. ASSUME NEW t \in Requests,
               \/ \E w \in Workspaces : RequestStart(t, w)
               \/ Begin(t) \/ BeginRefused(t) \/ NoEligibleWorker(t)
        PROVE UNCHANGED Atomic!vars
    <2>1. UNCHANGED <<row, worker>> /\ \A u \in Requests \ {t} : tx'[u] = tx[u]
      BY <1>2 DEF RequestStart, Begin, BeginRefused, NoEligibleWorker, IndInv, TypeOK
    <2>2. tx[t].pc # "chosen" /\ tx'[t].pc # "chosen"
      BY <1>2 DEF RequestStart, Begin, BeginRefused, NoEligibleWorker, IndInv, TypeOK, Request, NoTx
    <2>. QED BY <2>1, <2>2, ShownAsBefore DEF Atomic!vars
  <1>3. ASSUME NEW t \in Requests, Choose(t) \/ Commit(t) PROVE Atomic!Next
    BY <1>3, ChoosePlaces, CommitConfirms DEF Atomic!Next
  <1>4. ASSUME NEW w \in Workspaces, Create(w) \/ DeleteUnassigned(w) \/ Settle(w) \/ DeleteAssigned(w)
        PROVE Atomic!Next
    BY <1>4, RowsAreShown DEF Atomic!Next
  <1>5. ASSUME NEW k \in Workers,
               \/ \E n \in Capacities : Hello(k, n)
               \/ Heartbeat(k) \/ BecomeUnfit(k) \/ Disable(k) \/ Enable(k)
               \/ DeleteWorker(k) \/ Provision(k) \/ SetWorkerSchedulable(k)
        PROVE Atomic!Next
    BY <1>5, WorkersAreShown DEF Atomic!Next
  <1>. QED BY <1>1, <1>2, <1>3, <1>4, <1>5 DEF Next

\* At the start nothing is reserved.
LEMMA InitIsShown == Init => Atomic!Init
  <1> SUFFICES ASSUME Init PROVE Atomic!Init
    OBVIOUS
  <1>1. Nobody /\ Shown
    BY IndInit, OneIsShown DEF Init, Nobody, NoTx
  <1>. QED BY <1>1 DEF Shown, Init, NoWorkerRow, Atomic!Init

\* The transaction with its two kinds of lock is, to everybody who looks, a placement
\* in one step (scheduleWorkspaceStart).
THEOREM PlacementIsAtomic == Spec => AtomicSpec
  <1>1. IndInv /\ IndInv' /\ Shown /\ Shown' /\ [Next]_vars => [Atomic!Next]_(Atomic!vars)
    BY StepsAreShown
  <1>. QED BY <1>1, InitIsShown, OneIsShown, PlacementInvariant, PTL DEF Spec, AtomicSpec, Atomic!Spec
=============================================================================
