--------------------------- MODULE ModelKeysProofs ---------------------------
(***************************************************************************)
(* Proofs about ModelKeys, for any number of keys, failures and changes.   *)
(*                                                                         *)
(* NoUsableKeyIsRevoked is not inductive.  A key that was handed out is no *)
(* longer being created, so its gateway copy, once deleted, stays deleted  *)
(* (HandedOutKeys); and a pass that deletes a key finds its row still      *)
(* revoking when it records that (RevocationsInProgress), because a row    *)
(* never leaves revoking but through that pass.  ClearsSpareTheActiveKey   *)
(* needs that whatever the Worker holds, reports or is told was handed out *)
(* (KnownToTheWorker), and that a clear is only ever sent for a key whose  *)
(* revocation has begun (ClearsAreDue).                                    *)
(***************************************************************************)
EXTENDS ModelKeys, SequenceTheorems, TLAPS

Ending(k) == keys[k] \in {"revoking", "revoked"}

HandedOut(k) == k \in sent \/ issuer[k] = "activated"

HandedOutKeys ==
  \A k \in Keys : HandedOut(k) =>
    /\ k \notin creating
    /\ issuer[k] # "generating"
    /\ keys[k] = "active" \/ Ending(k)

RevocationsInProgress ==
  /\ pass.at # "expire" => \A k \in pass.list : keys[k] = "revoking"
  /\ pass.at \in {"wait", "delete", "record"} =>
       pass.key \in Keys /\ pass.key \notin pass.list /\ keys[pass.key] = "revoking"
  /\ pass.at = "record" /\ HandedOut(pass.key) => pass.key \notin gateway

UsableKeys == \A k \in Keys : HandedOut(k) /\ k \in gateway => keys[k] # "revoked"

KnownToTheWorker ==
  /\ {held, rec.held} \subseteq sent \cup {NoKey}
  /\ \A n \in 1..Len(queue) : queue[n].do = "set" => queue[n].key \in sent

ClearsAreDue ==
  \A n \in 1..Len(queue) : queue[n].do = "clear" => queue[n].key \in Keys /\ Ending(queue[n].key)

IndInv ==
  /\ TypeOK
  /\ LiveKeysAreOwned
  /\ HandedOutKeys
  /\ RevocationsInProgress
  /\ UsableKeys
  /\ KnownToTheWorker
  /\ ClearsAreDue

Statuses == {"none", "issuing", "active", "revoking", "revoked"}
IssuerStates == {"none", "generating", "activated", "setting", "undelivered"}

\* What RequestModelKeyRevoke leaves is well typed.
LEMMA RevokeTypes ==
  ASSUME keys \in [Keys -> Statuses], ripe \in SUBSET Keys,
         NEW S \in SUBSET Keys, RequestModelKeyRevoke(S)
  PROVE  keys' \in [Keys -> Statuses] /\ ripe' \in SUBSET Keys
  BY DEF RequestModelKeyRevoke, Live, Statuses

\* The key a reconciliation expects is a key or none.
LEMMA ExpectedType == Expected \in Keys \cup {NoKey}
  BY DEF Expected, ActiveKeys

-----------------------------------------------------------------------------
(* The queue: what each operation on it leaves there.                      *)

SameOrder(c, d) == c.do = d.do /\ c.key = d.key

\* A command sent is behind those that were there.
LEMMA SendQueue ==
  ASSUME queue \in Seq(Command), NEW c \in Command, Send(c.do, c.key, c.by)
  PROVE  /\ queue' \in Seq(Command)
         /\ \A n \in 1..Len(queue') :
              SameOrder(queue'[n], c) \/ \E m \in 1..Len(queue) : SameOrder(queue'[n], queue[m])
  <1>. DEFINE d == [do |-> c.do, key |-> c.key, by |-> c.by]
  <1>1. d \in Command /\ queue' = Append(queue, d) /\ SameOrder(d, c)
    BY DEF Command, Send, SameOrder
  <1>. HIDE DEF d
  <1>2. /\ queue' \in Seq(Command) /\ Len(queue) \in Nat /\ Len(queue') = Len(queue) + 1
        /\ \A n \in 1..Len(queue) : queue'[n] = queue[n]
        /\ queue'[Len(queue) + 1] = d
    BY <1>1
  <1>3. \A n \in 1..Len(queue') : n \in 1..Len(queue) \/ n = Len(queue) + 1
    BY <1>2
  <1>. QED BY <1>1, <1>2, <1>3 DEF SameOrder

\* The Worker takes the first command.
LEMMA TakeQueue ==
  ASSUME queue \in Seq(Command), queue # <<>>, queue' = Tail(queue)
  PROVE  /\ queue' \in Seq(Command)
         /\ Head(queue) \in Command /\ Head(queue) = queue[1] /\ 1 \in 1..Len(queue)
         /\ \A n \in 1..Len(queue') : \E m \in 1..Len(queue) : SameOrder(queue'[n], queue[m])
  <1>1. /\ Head(queue) \in Command /\ queue' \in Seq(Command)
        /\ Len(queue') = Len(queue) - 1
        /\ \A n \in 1..Len(queue') : queue'[n] = queue[n + 1]
    BY HeadTailProperties
  <1>2. Len(queue) \in Nat \ {0} /\ Head(queue) = queue[1]
    BY EmptySeq
  <1>3. \A n \in 1..Len(queue') : n + 1 \in 1..Len(queue)
    BY <1>1, <1>2
  <1>. QED BY <1>1, <1>2, <1>3 DEF SameOrder

\* After a lost connection: a prefix whose callers are gone.
LEMMA ArriveQueue ==
  ASSUME queue \in Seq(Command), SomeArrive
  PROVE  /\ queue' \in Seq(Command)
         /\ \A n \in 1..Len(queue') : \E m \in 1..Len(queue) : SameOrder(queue'[n], queue[m])
  <1>1. PICK n \in 0..Len(queue) :
          queue' = [m \in 1..n |-> [queue[m] EXCEPT !.by = "nobody"]]
    BY DEF SomeArrive
  <1>2. n \in Nat /\ \A m \in 1..n : m \in 1..Len(queue) /\ queue[m] \in Command
    BY <1>1
  <1>3. \A c \in Command : /\ [c EXCEPT !.by = "nobody"] \in Command
                           /\ SameOrder([c EXCEPT !.by = "nobody"], c)
    BY DEF Command, SameOrder
  <1>4. queue' \in [1..n -> Command]
    BY <1>1, <1>2, <1>3
  <1>5. queue' \in Seq(Command)
    BY <1>2, <1>4, SeqDef
  <1>6. Len(queue') = n
    BY <1>2, <1>4, <1>5
  <1>. QED BY <1>1, <1>2, <1>3, <1>5, <1>6

\* A caller gives up: its command stays.
LEMMA TimeoutQueue ==
  ASSUME queue \in Seq(Command), NEW n \in DOMAIN queue,
         queue' = [queue EXCEPT ![n].by = "nobody"]
  PROVE  /\ queue' \in Seq(Command)
         /\ queue[n] \in Command
         /\ \A i \in 1..Len(queue') : \E m \in 1..Len(queue) : SameOrder(queue'[i], queue[m])
  <1>1. n \in 1..Len(queue) /\ queue[n] \in Command
    BY LenProperties
  <1>. DEFINE c == [queue[n] EXCEPT !.by = "nobody"]
  <1>2. c \in Command /\ SameOrder(c, queue[n])
    BY <1>1 DEF Command, SameOrder
  <1>3. queue' = [queue EXCEPT ![n] = c]
    OBVIOUS
  <1>. HIDE DEF c
  <1>4. /\ queue' \in Seq(Command) /\ Len(queue') = Len(queue)
        /\ \A i \in 1..Len(queue) : queue'[i] = IF i = n THEN c ELSE queue[i]
    BY <1>1, <1>2, <1>3, ExceptSeq
  <1>. QED BY <1>1, <1>2, <1>4 DEF SameOrder

-----------------------------------------------------------------------------
(* Type correctness.                                                       *)

\* What others do, and what goes wrong, stays within its bounds.
LEMMA Bounded ==
  ASSUME TypeOK
  PROVE  /\ Upset => upsets' \in 0..MaxUpsets
         /\ Change => changes' \in 0..MaxChanges
  BY ModelKeysAssumption DEF TypeOK, Upset, Change

\* The initial state is well typed.
LEMMA TypeInit == Init => TypeOK
  BY ModelKeysAssumption DEF Init, TypeOK, Pass, NoPass, Rec, NoRec, Command

\* Callers left without an answer are well typed.
LEMMA UnansweredTypes ==
  ASSUME TypeOK
  PROVE  /\ \A k \in Keys : IssuerUnanswered(k) \in IssuerStates
         /\ PassUnanswered \in Pass
         /\ RecUnanswered \in Rec
  BY DEF TypeOK, IssuerUnanswered, PassUnanswered, RecUnanswered, Pass, Rec, NoRec, IssuerStates

\* Every step keeps the types.
LEMMA TypeStep == TypeOK /\ [Next]_vars => TypeOK'
  <1> SUFFICES ASSUME TypeOK, [Next]_vars PROVE TypeOK'
    OBVIOUS
  <1>u. CASE UNCHANGED vars
    BY <1>u DEF vars, TypeOK, world
  <1>1. ASSUME NEW k \in Keys, StartIssuesKey(k) PROVE TypeOK'
    BY <1>1 DEF TypeOK, StartIssuesKey, BeginModelKeyIssue, world
  <1>2. ASSUME NEW k \in Keys, ActivateModelKey(k) PROVE TypeOK'
    BY <1>2 DEF TypeOK, ActivateModelKey, world
  <1>3. ASSUME NEW k \in Keys, DeliverKey(k) PROVE TypeOK'
    <2>1. keys' \in [Keys -> Statuses] /\ ripe' \in SUBSET Keys
      BY <1>3, RevokeTypes DEF TypeOK, DeliverKey, Statuses
    <2>2. queue' \in Seq(Command)
      <3>1. [do |-> "set", key |-> k, by |-> "issuer"] \in Command
        BY DEF Command
      <3>. QED BY <1>3, <3>1, SendQueue DEF TypeOK, DeliverKey
    <2>. QED BY <1>3, <2>1, <2>2 DEF TypeOK, DeliverKey, world, Statuses
  <1>4. ASSUME NEW k \in Keys, RevokeUndelivered(k) PROVE TypeOK'
    BY <1>4, RevokeTypes DEF TypeOK, RevokeUndelivered, world, Statuses
  <1>5. ASSUME NEW k \in Keys, GatewayCreates(k) PROVE TypeOK'
    BY <1>5 DEF TypeOK, GatewayCreates, world
  <1>6. ASSUME NEW k \in Keys, IssueFails(k) PROVE TypeOK'
    <2>1. keys' \in [Keys -> Statuses] /\ ripe' \in SUBSET Keys
      BY <1>6, RevokeTypes DEF TypeOK, IssueFails, Statuses
    <2>2. pass' \in Pass
      BY <1>6 DEF TypeOK, IssueFails, Pass
    <2>3. upsets' \in 0..MaxUpsets
      BY <1>6, Bounded DEF IssueFails
    <2>. QED BY <1>6, <2>1, <2>2, <2>3 DEF TypeOK, IssueFails, world, Statuses
  <1>7. ASSUME NEW k \in Keys, TimePasses(k) PROVE TypeOK'
    BY <1>7 DEF TypeOK, TimePasses, world
  <1>8. CASE BeginPass
    BY <1>8 DEF TypeOK, BeginPass, DueRevocations, PassOnly, Pass, NoPass, world
  <1>9. CASE ExpireStaleModelKeyIssues
    BY <1>9, RevokeTypes
    DEF TypeOK, ExpireStaleModelKeyIssues, DueRevocations, PassOnly, Pass, world, Statuses
  <1>10. CASE GatewayDeletes
    BY <1>10 DEF TypeOK, GatewayDeletes, Pass, world
  <1>11. CASE RecordRevoked
    BY <1>11 DEF TypeOK, RecordRevoked, PassOnly, Pass, world
  <1>12. CASE FinishRevocations \/ EndPass
    <2>1. pass' \in Pass
      <3>1. NoPass \in Pass /\ [NoPass EXCEPT !.at = "ensure"] \in Pass
        BY DEF Pass, NoPass
      <3>. QED BY <1>12, <3>1 DEF FinishRevocations, EndPass
    <2>. QED BY <1>12, <2>1 DEF TypeOK, FinishRevocations, EndPass, PassOnly, world
  <1>13. ASSUME NEW k \in Keys, RevokeNext(k) PROVE TypeOK'
    <2>1. pass' \in Pass
      <3>1. PICK at \in {"wait", "delete"} : pass' = [pass EXCEPT !.at = at, !.key = k, !.list = @ \ {k}]
        BY <1>13 DEF RevokeNext
      <3>2. pass \in Pass
        BY DEF TypeOK
      <3>. QED BY <3>1, <3>2 DEF Pass
    <2>2. queue' \in Seq(Command)
      <3>1. [do |-> "clear", key |-> k, by |-> "pass"] \in Command
        BY DEF Command
      <3>. QED BY <1>13, <3>1, SendQueue DEF TypeOK, RevokeNext
    <2>. QED BY <1>13, <2>1, <2>2 DEF TypeOK, RevokeNext, PassOnly, world
  <1>14. ASSUME NEW k \in Keys, PassIssuesKey(k) PROVE TypeOK'
    BY <1>14 DEF TypeOK, PassIssuesKey, BeginModelKeyIssue, Pass, world
  <1>15. CASE DeleteFails
    <2>1. pass' \in Pass
      BY <1>15 DEF TypeOK, DeleteFails, Pass
    <2>2. upsets' \in 0..MaxUpsets
      BY <1>15, Bounded DEF DeleteFails
    <2>. QED BY <1>15, <2>1, <2>2 DEF TypeOK, DeleteFails, world
  <1>16. CASE AskForHoldings
    BY <1>16 DEF TypeOK, AskForHoldings, RecOnly, Send, Command, Rec, NoRec, world
  <1>17. CASE CompareHoldings
    <2>1. rec' \in Rec
      <3>1. \A k \in Keys \cup {NoKey} :
               /\ [NoRec EXCEPT !.at = "clear", !.lost = k] \in Rec
               /\ [NoRec EXCEPT !.at = "lost", !.lost = k] \in Rec
        BY DEF Rec, NoRec
      <3>2. NoRec \in Rec
        BY DEF Rec, NoRec
      <3>. QED BY <1>17, <3>1, <3>2, ExpectedType DEF CompareHoldings
    <2>2. queue' \in Seq(Command)
      <3>1. [do |-> "clear", key |-> rec.held, by |-> "rec"] \in Command
        BY DEF TypeOK, Rec, Command
      <3>. QED BY <1>17, <3>1, SendQueue DEF TypeOK, CompareHoldings
    <2>. QED BY <1>17, <2>1, <2>2 DEF TypeOK, CompareHoldings, RecOnly, world
  <1>18. CASE RevokeLost
    BY <1>18, RevokeTypes DEF TypeOK, RevokeLost, RecOnly, Rec, NoRec, world, Statuses
  <1>19. CASE SetKey
    <2>1. queue' \in Seq(Command) /\ Head(queue) \in Command
      BY <1>19, TakeQueue DEF TypeOK, SetKey
    <2>2. held' \in Keys \cup {NoKey} /\ issuer' \in [Keys -> IssuerStates]
      BY <1>19, <2>1 DEF TypeOK, SetKey, Command, IssuerStates
    <2>. QED BY <1>19, <2>1, <2>2 DEF TypeOK, SetKey, WorkerOnly, IssuerStates, world
  <1>20. CASE ClearKey
    BY <1>20, UnansweredTypes DEF TypeOK, ClearKey, Cleared, WorkerOnly, world
  <1>21. CASE ReportHoldings
    <2>1. queue' \in Seq(Command)
      BY <1>21, TakeQueue DEF TypeOK, ReportHoldings
    <2>2. rec' \in Rec
      BY <1>21, UnansweredTypes DEF TypeOK, ReportHoldings, Rec
    <2>. QED BY <1>21, <2>1, <2>2 DEF TypeOK, ReportHoldings, WorkerOnly, world
  <1>22. ASSUME NEW n \in DOMAIN queue, CommandTimesOut(n) PROVE TypeOK'
    <2>1. queue' \in Seq(Command) /\ queue[n] \in Command
      BY <1>22, TimeoutQueue DEF TypeOK, CommandTimesOut
    <2>2. issuer' \in [Keys -> IssuerStates]
      BY <1>22, <2>1 DEF TypeOK, CommandTimesOut, Command, IssuerStates
    <2>3. pass' \in Pass /\ rec' \in Rec
      BY <1>22, UnansweredTypes DEF TypeOK, CommandTimesOut
    <2>4. upsets' \in 0..MaxUpsets
      BY <1>22, Bounded DEF CommandTimesOut
    <2>. QED BY <1>22, <2>1, <2>2, <2>3, <2>4 DEF TypeOK, CommandTimesOut, IssuerStates, world
  <1>23. CASE Disconnect
    BY <1>23, UnansweredTypes, ArriveQueue, ModelKeysAssumption
    DEF TypeOK, Disconnect, Upset, IssuerStates, world
  <1>24. CASE Connect
    BY <1>24 DEF TypeOK, Connect, world
  <1>25. CASE ControlPlaneRestarts
    BY <1>25, ArriveQueue, ModelKeysAssumption
    DEF TypeOK, ControlPlaneRestarts, Upset, Pass, NoPass, Rec, NoRec, world
  <1>26. CASE BeginWorkspaceDelete \/ DeleteConfirmed \/ DisableUser \/ DisableWorker \/ Rotate
    <2>1. keys' \in [Keys -> Statuses] /\ ripe' \in SUBSET Keys
      <3>1. RequestModelKeyRevoke(Keys)
        BY <1>26 DEF BeginWorkspaceDelete, DeleteConfirmed, DisableUser, DisableWorker, Rotate
      <3>. QED BY <3>1, RevokeTypes DEF TypeOK, Statuses
    <2>2. changes' \in 0..MaxChanges
      BY <1>26, Bounded
      DEF TypeOK, BeginWorkspaceDelete, DeleteConfirmed, DisableUser, DisableWorker, Rotate, WorldOnly
    <2>. QED
      BY <1>26, <2>1, <2>2
      DEF TypeOK, BeginWorkspaceDelete, DeleteConfirmed, DisableUser, DisableWorker, Rotate,
          WorldOnly, Statuses
  <1>27. CASE WorkerErases \/ DeleteGivenUp \/ EnableUser \/ EnableWorker
    BY <1>27 DEF TypeOK, WorkerErases, DeleteGivenUp, EnableUser, EnableWorker, WorldOnly
  <1>. QED
    BY <1>u, <1>1, <1>2, <1>3, <1>4, <1>5, <1>6, <1>7, <1>8, <1>9, <1>10, <1>11, <1>12, <1>13,
       <1>14, <1>15, <1>16, <1>17, <1>18, <1>19, <1>20, <1>21, <1>22, <1>23, <1>24, <1>25, <1>26, <1>27
    DEF Next, Issue, MaintenancePass, ReconcileWorker, Worker, Others

\* Every reachable state is well typed.
THEOREM TypeCorrect == Spec => []TypeOK
  BY TypeInit, TypeStep, PTL DEF Spec
-----------------------------------------------------------------------------
(* What one step may do to one key.                                        *)

StatusMoves(k) ==
  \/ keys'[k] = keys[k]
  \/ keys[k] = "none" /\ keys'[k] = "issuing"
  \/ keys[k] = "issuing" /\ keys'[k] = "active"
  \/ Live(k) /\ keys'[k] = "revoking"
  \/ /\ keys[k] = "revoking" /\ keys'[k] = "revoked"
     /\ pass.at = "record" /\ pass.key = k /\ pass'.at = "next"

KeyMoves(k) ==
  /\ StatusMoves(k)
  /\ k \in creating' => k \in creating \/ keys[k] = "none"
  /\ issuer'[k] = "generating" => issuer[k] = "generating" \/ keys[k] = "none"
  /\ k \in gateway' => k \in gateway \/ k \in creating
  /\ HandedOut(k)' =>
       \/ HandedOut(k)
       \/ k \notin creating' /\ issuer'[k] # "generating" /\ keys'[k] = "active"
  /\ k \in sent => k \in sent'

\* RequestModelKeyRevoke changes live rows only.
LEMMA RevokeMoves ==
  ASSUME TypeOK, NEW S, RequestModelKeyRevoke(S)
  PROVE  \A k \in Keys : StatusMoves(k)
  BY DEF TypeOK, RequestModelKeyRevoke, StatusMoves, Live

\* Every step of every component keeps to these moves.
LEMMA EveryKeyMoves == TypeOK /\ [Next]_vars => \A j \in Keys : KeyMoves(j)
  <1> SUFFICES ASSUME TypeOK, [Next]_vars, NEW j \in Keys PROVE KeyMoves(j)
    OBVIOUS
  <1>. USE DEF KeyMoves, HandedOut
  <1>u. CASE UNCHANGED vars
    BY <1>u DEF vars, world, StatusMoves
  <1>1. ASSUME NEW k \in Keys, StartIssuesKey(k) PROVE KeyMoves(j)
    BY <1>1 DEF TypeOK, StartIssuesKey, BeginModelKeyIssue, NextAlias, StatusMoves, world
  <1>2. ASSUME NEW k \in Keys, ActivateModelKey(k) PROVE KeyMoves(j)
    BY <1>2 DEF TypeOK, ActivateModelKey, StatusMoves, world
  <1>3. ASSUME NEW k \in Keys, DeliverKey(k) PROVE KeyMoves(j)
    BY <1>3, RevokeMoves DEF TypeOK, DeliverKey, StatusMoves, world
  <1>4. ASSUME NEW k \in Keys, RevokeUndelivered(k) PROVE KeyMoves(j)
    BY <1>4, RevokeMoves DEF TypeOK, RevokeUndelivered, world
  <1>5. ASSUME NEW k \in Keys, GatewayCreates(k) PROVE KeyMoves(j)
    BY <1>5 DEF GatewayCreates, StatusMoves, world
  <1>6. ASSUME NEW k \in Keys, IssueFails(k) PROVE KeyMoves(j)
    BY <1>6, RevokeMoves DEF TypeOK, IssueFails, world
  <1>7. ASSUME NEW k \in Keys, TimePasses(k) PROVE KeyMoves(j)
    BY <1>7 DEF TimePasses, StatusMoves, world
  <1>8. CASE BeginPass \/ FinishRevocations \/ EndPass
    BY <1>8 DEF BeginPass, FinishRevocations, EndPass, PassOnly, StatusMoves, world
  <1>9. CASE ExpireStaleModelKeyIssues
    BY <1>9, RevokeMoves DEF ExpireStaleModelKeyIssues, PassOnly, world
  <1>10. CASE GatewayDeletes \/ DeleteFails
    BY <1>10 DEF GatewayDeletes, DeleteFails, StatusMoves, world
  <1>11. CASE RecordRevoked
    BY <1>11 DEF TypeOK, RecordRevoked, PassOnly, StatusMoves, world
  <1>12. ASSUME NEW k \in Keys, RevokeNext(k) PROVE KeyMoves(j)
    BY <1>12 DEF RevokeNext, PassOnly, StatusMoves, world
  <1>13. ASSUME NEW k \in Keys, PassIssuesKey(k) PROVE KeyMoves(j)
    BY <1>13 DEF TypeOK, PassIssuesKey, BeginModelKeyIssue, NextAlias, StatusMoves, world
  <1>14. CASE AskForHoldings \/ CompareHoldings
    BY <1>14 DEF AskForHoldings, CompareHoldings, RecOnly, StatusMoves, world
  <1>15. CASE RevokeLost
    BY <1>15, RevokeMoves DEF RevokeLost, RecOnly, world
  <1>16. CASE SetKey
    BY <1>16 DEF TypeOK, SetKey, WorkerOnly, StatusMoves, world
  <1>17. CASE ClearKey \/ ReportHoldings
    BY <1>17 DEF ClearKey, ReportHoldings, WorkerOnly, StatusMoves, world
  <1>18. ASSUME NEW n \in DOMAIN queue, CommandTimesOut(n) PROVE KeyMoves(j)
    BY <1>18 DEF TypeOK, CommandTimesOut, StatusMoves, world
  <1>19. CASE Disconnect
    BY <1>19 DEF Disconnect, IssuerUnanswered, StatusMoves, world
  <1>20. CASE Connect
    BY <1>20 DEF Connect, StatusMoves, world
  <1>21. CASE ControlPlaneRestarts
    BY <1>21 DEF ControlPlaneRestarts, StatusMoves, world
  <1>22. CASE BeginWorkspaceDelete \/ DeleteConfirmed \/ DisableUser \/ DisableWorker \/ Rotate
    BY <1>22, RevokeMoves
    DEF BeginWorkspaceDelete, DeleteConfirmed, DisableUser, DisableWorker, Rotate, WorldOnly
  <1>23. CASE WorkerErases \/ DeleteGivenUp \/ EnableUser \/ EnableWorker
    BY <1>23 DEF WorkerErases, DeleteGivenUp, EnableUser, EnableWorker, WorldOnly, StatusMoves
  <1>. QED
    BY <1>u, <1>1, <1>2, <1>3, <1>4, <1>5, <1>6, <1>7, <1>8, <1>9, <1>10, <1>11, <1>12, <1>13,
       <1>14, <1>15, <1>16, <1>17, <1>18, <1>19, <1>20, <1>21, <1>22, <1>23
    DEF Next, Issue, MaintenancePass, ReconcileWorker, Worker, Others

\* A key handed out is no longer being created.
LEMMA HandedOutStep ==
  ASSUME TypeOK, HandedOutKeys, [Next]_vars
  PROVE  HandedOutKeys'
  <1>1. \A k \in Keys : KeyMoves(k)
    BY EveryKeyMoves
  <1>. QED BY <1>1 DEF HandedOutKeys, KeyMoves, StatusMoves, Ending, Live

\* Its row is not revoked before its gateway copy is gone.
LEMMA UsableStep ==
  ASSUME TypeOK, HandedOutKeys, RevocationsInProgress, UsableKeys, [Next]_vars
  PROVE  UsableKeys'
  <1>1. \A k \in Keys : KeyMoves(k)
    BY EveryKeyMoves
  <1>. QED BY <1>1 DEF HandedOutKeys, RevocationsInProgress, UsableKeys, KeyMoves, StatusMoves, Live

-----------------------------------------------------------------------------
(* The remaining parts of the invariant.                                   *)

OwnersUnmoved == UNCHANGED <<ws, active>>

\* A live row is the only one, and its owner is entitled to it.
LEMMA OwnedStep ==
  ASSUME TypeOK, LiveKeysAreOwned, [Next]_vars
  PROVE  LiveKeysAreOwned'
  <1>1. CASE \E k \in Keys : BeginModelKeyIssue(k) /\ OwnersUnmoved
    BY <1>1 DEF LiveKeysAreOwned, BeginModelKeyIssue, Issuable, Live, OwnersUnmoved, TypeOK
  <1>2. CASE RequestModelKeyRevoke(Keys)
    BY <1>2 DEF LiveKeysAreOwned, RequestModelKeyRevoke, Live, TypeOK
  <1>3. CASE OwnersUnmoved /\ \A k \in Keys : Live(k)' => Live(k)
    BY <1>3 DEF LiveKeysAreOwned, OwnersUnmoved
  <1>4. CASE EnableUser \/ WorkerErases \/ DeleteGivenUp
    BY <1>4 DEF EnableUser, WorkerErases, DeleteGivenUp, LiveKeysAreOwned, Live
  <1>5. ASSUME UNCHANGED vars PROVE OwnersUnmoved /\ \A k \in Keys : Live(k)' => Live(k)
    BY <1>5 DEF vars, world, OwnersUnmoved, Live
  <1>6. ASSUME NEW k \in Keys,
               Issue(k) \/ GatewayCreates(k) \/ IssueFails(k) \/ TimePasses(k) \/ RevokeNext(k)
        PROVE  OwnersUnmoved /\ \A j \in Keys : Live(j)' => Live(j)
    BY <1>6 DEF Issue, ActivateModelKey, DeliverKey, RevokeUndelivered, GatewayCreates, IssueFails,
                TimePasses, RevokeNext, PassOnly, RequestModelKeyRevoke, Live, OwnersUnmoved, world, TypeOK
  <1>7. ASSUME BeginPass \/ ExpireStaleModelKeyIssues \/ GatewayDeletes \/ RecordRevoked
               \/ FinishRevocations \/ EndPass \/ DeleteFails
        PROVE  OwnersUnmoved /\ \A j \in Keys : Live(j)' => Live(j)
    BY <1>7 DEF BeginPass, ExpireStaleModelKeyIssues, GatewayDeletes, RecordRevoked,
                FinishRevocations, EndPass, DeleteFails,
                PassOnly, RequestModelKeyRevoke, Live, OwnersUnmoved, world, TypeOK
  <1>8. ASSUME ReconcileWorker \/ Worker \/ Connect \/ Disconnect \/ ControlPlaneRestarts \/ EnableWorker
        PROVE  OwnersUnmoved /\ \A j \in Keys : Live(j)' => Live(j)
    BY <1>8 DEF ReconcileWorker, AskForHoldings, CompareHoldings, RevokeLost, Worker, SetKey, ClearKey,
                ReportHoldings, Connect, Disconnect, ControlPlaneRestarts, EnableWorker, RecOnly, WorkerOnly,
                WorldOnly, RequestModelKeyRevoke, Live, OwnersUnmoved, world, TypeOK
  <1>9. ASSUME NEW n \in DOMAIN queue, CommandTimesOut(n)
         PROVE  OwnersUnmoved /\ \A j \in Keys : Live(j)' => Live(j)
    BY <1>9 DEF CommandTimesOut, Live, OwnersUnmoved, world
  <1>10. ASSUME NEW k \in Keys, StartIssuesKey(k) \/ PassIssuesKey(k)
         PROVE  BeginModelKeyIssue(k) /\ OwnersUnmoved
    BY <1>10 DEF StartIssuesKey, PassIssuesKey, OwnersUnmoved, world
  <1>11. ASSUME BeginWorkspaceDelete \/ DeleteConfirmed \/ DisableUser \/ DisableWorker \/ Rotate
         PROVE  RequestModelKeyRevoke(Keys)
    BY <1>11 DEF BeginWorkspaceDelete, DeleteConfirmed, DisableUser, DisableWorker, Rotate
  <1>. QED
    BY <1>1, <1>2, <1>3, <1>4, <1>5, <1>6, <1>7, <1>8, <1>9, <1>10, <1>11 DEF Next, MaintenancePass, Others

SamePass ==
  /\ pass'.list = pass.list /\ pass'.key = pass.key
  /\ pass'.at = pass.at \/ (pass.at = "wait" /\ pass'.at = "delete")

EndedPass == pass'.list = {} /\ pass'.at \in {"idle", "ensure"}

\* Callers that got no answer leave the pass revoking the same keys.
LEMMA UnansweredPass == TypeOK /\ pass' = PassUnanswered => SamePass
  BY DEF TypeOK, PassUnanswered, Pass, SamePass

\* What a pass revokes stays to be revoked until the pass records it.
LEMMA RevocationsStep ==
  ASSUME TypeOK, HandedOutKeys, RevocationsInProgress, [Next]_vars
  PROVE  RevocationsInProgress'
  <1>1. /\ \A k \in Keys : KeyMoves(k)
        /\ pass \in Pass /\ keys \in [Keys -> Statuses]
    BY EveryKeyMoves DEF TypeOK, Statuses
  <1>2. CASE SamePass
    BY <1>1, <1>2 DEF RevocationsInProgress, HandedOutKeys, SamePass, KeyMoves, StatusMoves, Live, Pass
  <1>3. CASE EndedPass
    BY <1>3 DEF RevocationsInProgress, EndedPass
  <1>4. CASE BeginPass
    BY <1>4 DEF RevocationsInProgress, BeginPass, DueRevocations, NoPass, PassOnly
  <1>5. CASE ExpireStaleModelKeyIssues
    BY <1>1, <1>5 DEF RevocationsInProgress, ExpireStaleModelKeyIssues, DueRevocations, Pass
  <1>6. ASSUME NEW k \in Keys, RevokeNext(k) PROVE RevocationsInProgress'
    <2>1. /\ pass.at = "next" /\ k \in pass.list /\ UNCHANGED keys
          /\ pass'.list = pass.list \ {k} /\ pass'.key = k /\ pass'.at \in {"wait", "delete"}
      BY <1>1, <1>6 DEF RevokeNext, Pass
    <2>. QED BY <2>1 DEF RevocationsInProgress
  <1>7. CASE GatewayDeletes
    BY <1>1, <1>7 DEF RevocationsInProgress, GatewayDeletes, Pass
  <1>8. CASE RecordRevoked
    BY <1>1, <1>8 DEF RevocationsInProgress, RecordRevoked, Pass
  <1>9. CASE DeleteFails
    BY <1>1, <1>9 DEF RevocationsInProgress, DeleteFails, Pass
  <1>10. ASSUME NEW k \in Keys, PassIssuesKey(k) PROVE RevocationsInProgress'
    BY <1>1, <1>10 DEF RevocationsInProgress, PassIssuesKey, KeyMoves, StatusMoves, Live, Pass
  <1>11. ASSUME UNCHANGED vars \/ ReconcileWorker \/ Worker \/ Disconnect \/ Connect \/ Others
         PROVE  SamePass
    BY <1>11, UnansweredPass
    DEF vars, ReconcileWorker, AskForHoldings, CompareHoldings, RevokeLost, RecOnly, Worker, SetKey,
        ClearKey, ReportHoldings, WorkerOnly, Disconnect, Connect, Others, BeginWorkspaceDelete,
        WorkerErases, DeleteGivenUp, DeleteConfirmed, DisableUser, EnableUser, DisableWorker,
        EnableWorker, Rotate, WorldOnly, SamePass
  <1>12. ASSUME NEW k \in Keys,
                StartIssuesKey(k) \/ Issue(k) \/ GatewayCreates(k) \/ IssueFails(k) \/ TimePasses(k)
         PROVE  SamePass
    BY <1>1, <1>12
    DEF StartIssuesKey, Issue, ActivateModelKey, DeliverKey, RevokeUndelivered, GatewayCreates,
        IssueFails, TimePasses, SamePass, Pass
  <1>13. ASSUME NEW n \in DOMAIN queue, CommandTimesOut(n) PROVE SamePass
    BY <1>13, UnansweredPass DEF CommandTimesOut, SamePass
  <1>14. ASSUME FinishRevocations \/ EndPass \/ ControlPlaneRestarts PROVE EndedPass
    BY <1>14 DEF FinishRevocations, EndPass, ControlPlaneRestarts, NoPass, EndedPass
  <1>. QED
    BY <1>2, <1>3, <1>4, <1>5, <1>6, <1>7, <1>8, <1>9, <1>10, <1>11, <1>12, <1>13, <1>14
    DEF Next, MaintenancePass

-----------------------------------------------------------------------------
(* What the Worker knows.                                                  *)

\* Where a command in the queue after a step comes from.
Ordered(c) ==
  \/ \E m \in 1..Len(queue) : SameOrder(c, queue[m])
  \/ c.do = "report"
  \/ c.do = "set" /\ c.key \in sent'
  \/ /\ c.do = "clear" /\ c.key \in Keys
     /\ keys[c.key] = "revoking" \/ (c.key = rec.held /\ rec.held # Expected)

\* Sets are sent for keys handed out; clears for keys that a pass revokes, or
\* that a reconciliation did not expect.
LEMMA QueueMoves ==
  ASSUME TypeOK, RevocationsInProgress, [Next]_vars
  PROVE  \A n \in 1..Len(queue') : Ordered(queue'[n])
  <1>1. ASSUME UNCHANGED queue PROVE \A n \in 1..Len(queue') : Ordered(queue'[n])
    BY <1>1 DEF Ordered, SameOrder
  <1>2. ASSUME NEW k \in Keys, DeliverKey(k) PROVE \A n \in 1..Len(queue') : Ordered(queue'[n])
    <2>1. CASE Send("set", k, "issuer") /\ sent' = sent \cup {k}
      <3>1. [do |-> "set", key |-> k, by |-> "issuer"] \in Command
        BY DEF Command
      <3>. QED BY <2>1, <3>1, SendQueue DEF TypeOK, Ordered, SameOrder
    <2>. QED BY <1>1, <1>2, <2>1 DEF DeliverKey
  <1>3. ASSUME NEW k \in Keys, RevokeNext(k) PROVE \A n \in 1..Len(queue') : Ordered(queue'[n])
    <2>1. CASE Send("clear", k, "pass")
      <3>1. [do |-> "clear", key |-> k, by |-> "pass"] \in Command
        BY DEF Command
      <3>2. keys[k] = "revoking"
        BY <1>3 DEF RevokeNext, RevocationsInProgress
      <3>. DEFINE c == [do |-> "clear", key |-> k, by |-> "pass"]
      <3>3. queue \in Seq(Command) /\ Send(c.do, c.key, c.by)
        BY <2>1 DEF TypeOK
      <3>4. \A d : SameOrder(d, c) => Ordered(d)
        BY <3>2 DEF SameOrder, Ordered
      <3>. HIDE DEF c
      <3>5. \A n \in 1..Len(queue') :
              SameOrder(queue'[n], c) \/ \E m \in 1..Len(queue) : SameOrder(queue'[n], queue[m])
        BY <3>1, <3>3, SendQueue DEF c
      <3>. QED BY <3>4, <3>5 DEF Ordered
    <2>. QED BY <1>1, <1>3, <2>1 DEF RevokeNext
  <1>4. CASE AskForHoldings
    <2>1. [do |-> "report", key |-> NoKey, by |-> "rec"] \in Command
      BY DEF Command
    <2>. QED BY <1>4, <2>1, SendQueue DEF AskForHoldings, TypeOK, Ordered, SameOrder
  <1>5. CASE CompareHoldings
    <2>1. CASE rec.held \notin {NoKey, Expected} /\ Send("clear", rec.held, "rec")
      <3>1. /\ [do |-> "clear", key |-> rec.held, by |-> "rec"] \in Command
            /\ rec.held \in Keys
        BY <2>1 DEF TypeOK, Rec, Command
      <3>. QED BY <2>1, <3>1, SendQueue DEF TypeOK, Ordered, SameOrder
    <2>. QED BY <1>1, <1>5, <2>1 DEF CompareHoldings
  <1>6. CASE SetKey \/ ClearKey \/ ReportHoldings
    BY <1>6, TakeQueue DEF SetKey, ClearKey, ReportHoldings, TypeOK, Ordered
  <1>7. CASE Disconnect \/ ControlPlaneRestarts
    BY <1>7, ArriveQueue DEF Disconnect, ControlPlaneRestarts, TypeOK, Ordered
  <1>8. ASSUME NEW n \in DOMAIN queue, CommandTimesOut(n)
        PROVE  \A i \in 1..Len(queue') : Ordered(queue'[i])
    BY <1>8, TimeoutQueue DEF CommandTimesOut, TypeOK, Ordered
  <1>9. ASSUME UNCHANGED vars \/ RevokeLost \/ Connect \/ Others \/ DeleteFails
        PROVE  UNCHANGED queue
    BY <1>9
    DEF vars, RevokeLost, Connect, Others, BeginWorkspaceDelete, WorkerErases, DeleteGivenUp,
        DeleteConfirmed, DisableUser, EnableUser, DisableWorker, EnableWorker, Rotate, WorldOnly, DeleteFails
  <1>10. ASSUME NEW k \in Keys,
                StartIssuesKey(k) \/ ActivateModelKey(k) \/ RevokeUndelivered(k) \/ GatewayCreates(k)
                \/ IssueFails(k) \/ TimePasses(k) \/ PassIssuesKey(k)
         PROVE  UNCHANGED queue
    BY <1>10
    DEF StartIssuesKey, ActivateModelKey, RevokeUndelivered, GatewayCreates, IssueFails, TimePasses, PassIssuesKey
  <1>11. ASSUME BeginPass \/ ExpireStaleModelKeyIssues \/ GatewayDeletes \/ RecordRevoked
                \/ FinishRevocations \/ EndPass
         PROVE  UNCHANGED queue
    BY <1>11
    DEF BeginPass, ExpireStaleModelKeyIssues, GatewayDeletes, RecordRevoked, FinishRevocations, EndPass
  <1>. QED
    BY <1>1, <1>2, <1>3, <1>4, <1>5, <1>6, <1>7, <1>8, <1>9, <1>10, <1>11
    DEF Next, Issue, MaintenancePass, ReconcileWorker, Worker

\* Only the Worker touches the key it holds, when it executes a command that
\* is about it.
LEMMA OthersKeepHeld ==
  [Next]_vars => SetKey \/ ClearKey \/ WorkerErases \/ UNCHANGED held
  <1>1. ASSUME UNCHANGED vars \/ ReconcileWorker \/ ReportHoldings \/ Disconnect \/ Connect
               \/ ControlPlaneRestarts
        PROVE  UNCHANGED held
    BY <1>1
    DEF vars, ReconcileWorker, AskForHoldings, CompareHoldings, RevokeLost, RecOnly, ReportHoldings,
        WorkerOnly, Disconnect, Connect, ControlPlaneRestarts
  <1>2. ASSUME NEW k \in Keys,
               StartIssuesKey(k) \/ Issue(k) \/ GatewayCreates(k) \/ IssueFails(k) \/ TimePasses(k)
               \/ RevokeNext(k) \/ PassIssuesKey(k)
        PROVE  UNCHANGED held
    BY <1>2
    DEF StartIssuesKey, Issue, ActivateModelKey, DeliverKey, RevokeUndelivered, GatewayCreates,
        IssueFails, TimePasses, RevokeNext, PassIssuesKey, PassOnly
  <1>3. ASSUME BeginPass \/ ExpireStaleModelKeyIssues \/ GatewayDeletes \/ RecordRevoked
               \/ FinishRevocations \/ EndPass \/ DeleteFails \/ (Others /\ ~WorkerErases)
        PROVE  UNCHANGED held
    BY <1>3
    DEF BeginPass, ExpireStaleModelKeyIssues, GatewayDeletes, RecordRevoked, FinishRevocations,
        EndPass, DeleteFails, PassOnly, Others, BeginWorkspaceDelete, DeleteGivenUp, DeleteConfirmed,
        DisableUser, EnableUser, DisableWorker, EnableWorker, Rotate, WorldOnly
  <1>4. ASSUME NEW n \in DOMAIN queue, CommandTimesOut(n) PROVE UNCHANGED held
    BY <1>4 DEF CommandTimesOut
  <1>. QED BY <1>1, <1>2, <1>3, <1>4 DEF Next, MaintenancePass, Worker

\* A reconciliation takes what it knows from the Worker's report.
LEMMA ReportsAreHeld ==
  ASSUME TypeOK, [Next]_vars
  PROVE  rec'.held \in {rec.held, held, NoKey}
  <1>1. NoRec.held = NoKey /\ RecUnanswered.held \in {rec.held, NoKey}
    BY DEF NoRec, RecUnanswered, TypeOK, Rec
  <1>2. CASE ReportHoldings
    BY <1>1, <1>2 DEF ReportHoldings, TypeOK, Rec
  <1>3. CASE CompareHoldings
    <2>1. \A k : /\ [NoRec EXCEPT !.at = "clear", !.lost = k].held = NoKey
                /\ [NoRec EXCEPT !.at = "lost", !.lost = k].held = NoKey
      BY DEF NoRec
    <2>. QED BY <1>1, <1>3, <2>1 DEF CompareHoldings
  <1>4. CASE UNCHANGED vars \/ AskForHoldings \/ RevokeLost \/ SetKey \/ ClearKey
    BY <1>1, <1>4 DEF vars, AskForHoldings, RevokeLost, SetKey, ClearKey, WorkerOnly, NoRec
  <1>5. CASE Disconnect \/ Connect \/ ControlPlaneRestarts
    BY <1>1, <1>5 DEF Disconnect, Connect, ControlPlaneRestarts
  <1>6. ASSUME NEW n \in DOMAIN queue, CommandTimesOut(n) PROVE rec'.held \in {rec.held, NoKey}
    BY <1>1, <1>6 DEF CommandTimesOut
  <1>7. ASSUME NEW k \in Keys,
               StartIssuesKey(k) \/ Issue(k) \/ GatewayCreates(k) \/ IssueFails(k) \/ TimePasses(k)
               \/ RevokeNext(k) \/ PassIssuesKey(k)
        PROVE  UNCHANGED rec
    BY <1>7
    DEF StartIssuesKey, Issue, ActivateModelKey, DeliverKey, RevokeUndelivered, GatewayCreates,
        IssueFails, TimePasses, RevokeNext, PassIssuesKey, PassOnly
  <1>8. ASSUME BeginPass \/ ExpireStaleModelKeyIssues \/ GatewayDeletes \/ RecordRevoked
               \/ FinishRevocations \/ EndPass \/ DeleteFails \/ Others
        PROVE  UNCHANGED rec
    BY <1>8
    DEF BeginPass, ExpireStaleModelKeyIssues, GatewayDeletes, RecordRevoked, FinishRevocations,
        EndPass, DeleteFails, PassOnly, Others, BeginWorkspaceDelete, WorkerErases, DeleteGivenUp,
        DeleteConfirmed, DisableUser, EnableUser, DisableWorker, EnableWorker, Rotate, WorldOnly
  <1>. QED
    BY <1>2, <1>3, <1>4, <1>5, <1>6, <1>7, <1>8 DEF Next, MaintenancePass, ReconcileWorker, Worker

\* What the Worker holds or has reported, it was handed.
LEMMA KnownStep ==
  ASSUME TypeOK, RevocationsInProgress, KnownToTheWorker, [Next]_vars
  PROVE  KnownToTheWorker'
  <1>1. \A k \in sent : k \in sent'
    BY EveryKeyMoves DEF KeyMoves, TypeOK
  <1>2. \A n \in 1..Len(queue') : queue'[n].do = "set" => queue'[n].key \in sent'
    BY <1>1, QueueMoves DEF Ordered, SameOrder, KnownToTheWorker
  <1>3. {held', rec'.held} \subseteq sent \cup {NoKey}
    <2>1. rec'.held \in {rec.held, held, NoKey}
      BY ReportsAreHeld
    <2>2. held' \in {held, NoKey} \cup sent
      <3>1. CASE SetKey
        BY <3>1, TakeQueue DEF SetKey, KnownToTheWorker, TypeOK
      <3>2. CASE ClearKey \/ WorkerErases
        BY <3>2 DEF ClearKey, Cleared, WorkerErases
      <3>. QED BY <3>1, <3>2, OthersKeepHeld
    <2>. QED BY <2>1, <2>2 DEF KnownToTheWorker
  <1>. QED BY <1>1, <1>2, <1>3 DEF KnownToTheWorker

\* The active key is the one a reconciliation expects.
LEMMA ActiveIsExpected ==
  ASSUME LiveKeysAreOwned, NEW k \in ActiveKeys
  PROVE  Expected = k
  <1>1. /\ k \in Keys /\ Live(k) /\ ws = "kept"
        /\ \A j \in ActiveKeys : j = k
    BY DEF LiveKeysAreOwned, ActiveKeys, Live
  <1>. QED BY <1>1 DEF Expected

\* A clear on its way is for a key whose revocation has begun.
LEMMA ClearsStep ==
  ASSUME IndInv, [Next]_vars
  PROVE  ClearsAreDue'
  <1>1. \A k \in Keys : Ending(k) => Ending(k)'
    BY EveryKeyMoves DEF IndInv, KeyMoves, StatusMoves, Ending, Live
  <1>2. rec.held \in Keys /\ rec.held # Expected => Ending(rec.held)
    <2>1. rec.held \in Keys => rec.held \in sent
      BY DEF IndInv, KnownToTheWorker, TypeOK, Rec, NoKey, Keys
    <2>2. rec.held \in ActiveKeys => rec.held = Expected
      BY ActiveIsExpected DEF IndInv
    <2>. QED BY <2>1, <2>2 DEF IndInv, HandedOutKeys, HandedOut, ActiveKeys
  <1>3. \A n \in 1..Len(queue') : Ordered(queue'[n])
    BY QueueMoves DEF IndInv
  <1>. QED BY <1>1, <1>2, <1>3 DEF IndInv, ClearsAreDue, Ordered, SameOrder, Ending

-----------------------------------------------------------------------------
(* The theorems.                                                           *)

\* The invariant holds at first.
LEMMA IndInit == Init => IndInv
  <1> SUFFICES ASSUME Init PROVE IndInv
    OBVIOUS
  <1>1. TypeOK
    BY TypeInit
  <1>2. LiveKeysAreOwned /\ HandedOutKeys /\ RevocationsInProgress /\ UsableKeys
    BY DEF Init, LiveKeysAreOwned, HandedOutKeys, HandedOut, RevocationsInProgress, UsableKeys, NoPass, Live
  <1>3. KnownToTheWorker /\ ClearsAreDue
    BY DEF Init, KnownToTheWorker, ClearsAreDue, NoRec
  <1>. QED BY <1>1, <1>2, <1>3 DEF IndInv

\* Every step keeps it.
LEMMA IndStep == IndInv /\ [Next]_vars => IndInv'
  BY TypeStep, OwnedStep, HandedOutStep, RevocationsStep, UsableStep, KnownStep, ClearsStep DEF IndInv

\* The invariant holds in every reachable state.
LEMMA Inductive == Spec => []IndInv
  BY IndInit, IndStep, PTL DEF Spec

\* No user, Workspace or deletion is raced by an issue: a live key has an
\* entitled owner and is alone.
THEOREM LiveKeysAlwaysOwned == Spec => []LiveKeysAreOwned
  <1>1. IndInv => LiveKeysAreOwned
    BY DEF IndInv
  <1>. QED BY Inductive, <1>1, PTL

\* A key whose secret was handed out is not recorded as revoked while the
\* gateway accepts it.
THEOREM UsableKeysNeverRevoked == Spec => []NoUsableKeyIsRevoked
  <1>1. IndInv => NoUsableKeyIsRevoked
    BY DEF IndInv, UsableKeys, HandedOut, NoUsableKeyIsRevoked, TypeOK
  <1>. QED BY Inductive, <1>1, PTL

\* Nothing but the deletion of the Workspace takes its active key away from
\* the Worker.
THEOREM ClearsAlwaysSpareTheActiveKey == Spec => ClearsSpareTheActiveKey
  <1>. DEFINE Spared == \A k \in ActiveKeys : held = k /\ held' = NoKey => ws' = "erased"
  <1>1. IndInv /\ [Next]_vars => [Spared]_vars
    <2>1. SUFFICES ASSUME IndInv, [Next]_vars, NEW k \in ActiveKeys, held = k, held' = NoKey
                   PROVE  ws' = "erased"
      OBVIOUS
    <2>2. TypeOK /\ held # NoKey
      BY <2>1 DEF IndInv, ActiveKeys, Keys, NoKey
    <2>3. CASE SetKey
      BY <2>1, <2>2, <2>3, TakeQueue DEF SetKey, IndInv, KnownToTheWorker, TypeOK, Keys, NoKey
    <2>4. CASE ClearKey
      <3>1. Head(queue).key \in Keys /\ Ending(Head(queue).key) /\ Head(queue).key = held
        BY <2>1, <2>2, <2>4, TakeQueue DEF ClearKey, Cleared, IndInv, ClearsAreDue, TypeOK
      <3>. QED BY <2>1, <3>1 DEF Ending, ActiveKeys
    <2>5. CASE WorkerErases
      BY <2>5 DEF WorkerErases
    <2>6. [Next]_vars => SetKey \/ ClearKey \/ WorkerErases \/ UNCHANGED held
      BY OthersKeepHeld
    <2>. QED BY <2>1, <2>2, <2>3, <2>4, <2>5, <2>6
  <1>. QED BY Inductive, <1>1, PTL DEF Spec, ClearsSpareTheActiveKey
=============================================================================
