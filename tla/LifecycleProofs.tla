--------------------------- MODULE LifecycleProofs ---------------------------
(* Proofs about WorkspaceLifecycle, for any Workspaces, images, requests and *)
(* recoveries, any kinds of upsets and any number of them.                   *)
EXTENDS WorkspaceLifecycle, TLAPS

-----------------------------------------------------------------------------
(* The inductive invariant.                                                 *)

\* The intent of a row is that of the operation it shows.
Coherent(r) ==
  /\ r.state \in {"STARTING", "RUNNING"} => r.desired = "RUNNING"
  /\ r.state \in {"STOPPING", "STOPPED", "UPGRADING"} => r.desired = "STOPPED"
  /\ r.state \in {"DELETING", "GONE"} => r.desired = "DELETED"

\* A request that was begun is to end the transition a row shows.
Owns(t, r) ==
  /\ t.pc \notin {"idle", "begin"}
  /\ \/ r.state = "STARTING" /\ t.cmd \in {"egress", "ensure", "start"}
     \/ r.state = "STOPPING" /\ t.cmd = "stop"
     \/ r.state = "DELETING" /\ t.cmd = "delete"
     \/ r.state = "UPGRADING" /\ t.cmd = "runtime.set" /\ t.image = r.image

\* Whoever has a command out waits for it, and has no other.
Awaited(i) ==
  /\ i.by \in Requests =>
       /\ req[i.by].pc = "wait" /\ req[i.by].cmd = i.cmd /\ req[i.by].ws = i.ws
       /\ req[i.by].image = i.image /\ req[i.by].from = i.from
  /\ i.by \in Recoveries =>
       IF i.cmd = "reconcile" THEN rec[i.by].pc = "wait" ELSE rec[i.by].pc = "greeted"
SendersAwait ==
  /\ \A n \in DOMAIN queue : Awaited(queue[n])
  /\ \A m, n \in DOMAIN queue : queue[m].by = queue[n].by /\ queue[m].by # Nobody => m = n

\* A request that is not idle is about a Workspace.
Asked(t) == t.pc = "idle" \/ (t.cmd \in Commands /\ t.ws \in Workspaces)

\* A transition has an owner, or a recovery is coming.
Owned(w) ==
  row[w].state \in Transitional =>
    (\E h \in Requests : req[h].ws = w /\ Owns(req[h], row[w])) \/ RecoveryAhead

IndInv ==
  /\ TypeOK /\ SendersAwait
  /\ \A h \in Requests : Asked(req[h])
  /\ \A w \in Workspaces : Coherent(row[w])
  /\ \A w \in Workspaces : Owned(w)

\* Owned row by row is what the property says.
LEMMA OwnerOwns ==
  ASSUME NEW h \in Requests, NEW w \in Workspaces
  PROVE  Owner(h, w) <=> req[h].ws = w /\ Owns(req[h], row[w])
  <1>1. CASE row[w].state = "STARTING"
    BY <1>1 DEF Owner, Owns
  <1>2. CASE row[w].state = "STOPPING"
    BY <1>2 DEF Owner, Owns
  <1>3. CASE row[w].state = "DELETING"
    BY <1>3 DEF Owner, Owns
  <1>4. CASE row[w].state = "UPGRADING"
    BY <1>4 DEF Owner, Owns
  <1>5. CASE row[w].state \notin {"STARTING", "STOPPING", "DELETING", "UPGRADING"}
    BY <1>5 DEF Owner, Owns
  <1>. QED BY <1>1, <1>2, <1>3, <1>4, <1>5

\* The invariant says what the properties say.
LEMMA InvariantSaysSo == IndInv => TypeOK /\ IntentMatchesState /\ TransitionsOwned
  <1>1. IndInv => IntentMatchesState
    BY DEF IndInv, IntentMatchesState, Coherent
  <1>2. IndInv => TransitionsOwned
    BY OwnerOwns DEF IndInv, TransitionsOwned, Owned
  <1>. QED BY <1>1, <1>2 DEF IndInv

-----------------------------------------------------------------------------
(* Rows.                                                                    *)

\* A new state keeps a row a row.
LEMMA RowWithState ==
  ASSUME NEW r \in Row, NEW s \in States
  PROVE  [r EXCEPT !.state = s] \in Row
  BY DEF Row

\* A request settles a transition by its own kind of UPDATE, or the row is not its own.
Settled(r, new) == new \in Row /\ (Coherent(r) => Coherent(new)) /\ (new.state \in Transitional => new = r)

LEMMA FinishesSettle ==
  ASSUME NEW r \in Row
  PROVE  /\ Settled(r, finishWorkspaceStart(r)) /\ finishWorkspaceStart(r).state # "STARTING"
         /\ Settled(r, finishWorkspaceStop(r)) /\ finishWorkspaceStop(r).state # "STOPPING"
         /\ Settled(r, deleteConfirmedWorkspace(r)) /\ deleteConfirmedWorkspace(r).state # "DELETING"
  <1>. USE DEF Settled, Coherent, Row, States, Transitional
  <1>1. Settled(r, finishWorkspaceStart(r)) /\ finishWorkspaceStart(r).state # "STARTING"
    BY DEF finishWorkspaceStart
  <1>2. Settled(r, finishWorkspaceStop(r)) /\ finishWorkspaceStop(r).state # "STOPPING"
    BY DEF finishWorkspaceStop
  <1>3. Settled(r, deleteConfirmedWorkspace(r)) /\ deleteConfirmedWorkspace(r).state # "DELETING"
    BY DEF deleteConfirmedWorkspace, NoRow
  <1>. QED BY <1>1, <1>2, <1>3

LEMMA ChangesSettle ==
  ASSUME NEW r \in Row, NEW old \in Row, NEW image
  PROVE  /\ Settled(r, finishWorkspaceRuntimeChange(r, image))
         /\ finishWorkspaceRuntimeChange(r, image).state = "UPGRADING" => r.image # image
         /\ Settled(r, revertWorkspaceRuntimeChange(r, old))
         /\ revertWorkspaceRuntimeChange(r, old).state # "UPGRADING"
  <1>. USE DEF Settled, Coherent, Row, States, Transitional
  <1>1. /\ Settled(r, finishWorkspaceRuntimeChange(r, image))
        /\ finishWorkspaceRuntimeChange(r, image).state = "UPGRADING" => r.image # image
    BY DEF finishWorkspaceRuntimeChange
  <1>2. /\ Settled(r, revertWorkspaceRuntimeChange(r, old))
        /\ revertWorkspaceRuntimeChange(r, old).state # "UPGRADING"
    <2>1. CASE r.state # "UPGRADING"
      BY <2>1 DEF revertWorkspaceRuntimeChange
    <2>2. CASE r.state = "UPGRADING"
      <3>1. PICK s \in {"ERROR", "STOPPED"} :
              revertWorkspaceRuntimeChange(r, old) =
                [r EXCEPT !.state = s, !.image = old.image, !.prev = old.prev, !.changed = old.changed]
        BY <2>2 DEF revertWorkspaceRuntimeChange
      <3>2. /\ [r EXCEPT !.state = s, !.image = old.image, !.prev = old.prev, !.changed = old.changed] \in Row
            /\ [r EXCEPT !.state = s, !.image = old.image, !.prev = old.prev, !.changed = old.changed].state = s
            /\ [r EXCEPT !.state = s, !.image = old.image, !.prev = old.prev, !.changed = old.changed].desired
                 = r.desired
        OBVIOUS
      <3>. QED BY <2>2, <3>1, <3>2
    <2>. QED BY <2>1, <2>2
  <1>. QED BY <1>1, <1>2

LEMMA FailuresSettle ==
  ASSUME NEW r \in Row, NEW offline \in BOOLEAN
  PROVE  /\ Settled(r, markWorkspaceRuntimeFailure(r, offline))
         /\ markWorkspaceRuntimeFailure(r, offline).state \notin Transitional
  BY DEF Settled, Coherent, Row, States, Transitional, markWorkspaceRuntimeFailure

\* What takes a Worker away leaves its rows typed and coherent, and no transition
\* but a deletion.
LEMMA OfflineSettles ==
  ASSUME TypeOK, NEW w \in Workspaces
  PROVE  /\ Offline(w) \in Row /\ Coherent(Offline(w)) /\ Offline(w).state = "WORKER_OFFLINE"
         /\ Settled(row[w], Offline(w)) /\ Settled(row[w], Swept[w])
  <1>1. row[w] \in Row
    BY DEF TypeOK
  <1>2. Offline(w) \in Row /\ Coherent(Offline(w)) /\ Offline(w).state = "WORKER_OFFLINE"
    BY <1>1 DEF Offline, Row, States, Coherent
  <1>3. Settled(row[w], Offline(w))
    BY <1>2 DEF Settled, Transitional
  <1>4. Swept[w] \in {Offline(w), row[w]}
    BY DEF Swept
  <1>. QED BY <1>1, <1>2, <1>3, <1>4 DEF Settled

-----------------------------------------------------------------------------
(* Boxes.                                                                   *)

\* What the Worker's operations make of a box, and leave of one when they are
\* interrupted.
LEMMA BoxesAreTyped ==
  ASSUME NEW b \in Box, NEW from \in Images \cup {NoImage}, NEW to \in Images \cup {NoImage}
  PROVE  /\ NoBox \in Box /\ TornBox \in Box
         /\ Ensured(b, to) \in Box
         /\ Prepared(b, to) \in Box
         /\ \A c \in {"none", "stopped", "running"} : [b EXCEPT !.ctr = c] \in Box
         /\ Uncontained(b) \in Box /\ [Uncontained(b) EXCEPT !.half = TRUE] \in Box
         /\ Switched(b, from, to) \in Box /\ Emptied(b, from, to) \in Box
         /\ Ensured(Emptied(b, from, to), to) \in Box
  <1>. USE DEF Box
  <1>1. NoBox \in Box /\ TornBox \in Box
    BY DEF NoBox, TornBox
  <1>2. \A x \in Box : Prepared(x, to) \in Box /\ Ensured(x, to) \in Box
    BY DEF Prepared, Ensured
  <1>3. Switched(b, from, to) \in Box
    BY DEF Switched
  <1>4. \A x \in Box : Uncontained(x) \in Box /\ [x EXCEPT !.half = TRUE] \in Box
    BY DEF Uncontained
  <1>5. Emptied(b, from, to) \in Box
    BY <1>3, <1>4 DEF Emptied
  <1>6. \A c \in {"none", "stopped", "running"} : [b EXCEPT !.ctr = c] \in Box
    OBVIOUS
  <1>. QED BY <1>1, <1>2, <1>3, <1>4, <1>5, <1>6

LEMMA InterruptionsAreTyped ==
  ASSUME NEW b \in Box, NEW from \in Images \cup {NoImage}, NEW to \in Images \cup {NoImage}
  PROVE  /\ InterruptedEnsure(b, to) \subseteq Box /\ InterruptedStart(b) \subseteq Box
         /\ InterruptedStop(b) \subseteq Box
         /\ InterruptedDelete(b) \subseteq Box /\ CrashedDelete(b) \subseteq Box
         /\ InterruptedSwitch(b, from, to) \subseteq Box
  <1>. USE BoxesAreTyped
  <1>1. InterruptedEnsure(b, to) \subseteq Box
    BY DEF InterruptedEnsure
  <1>2. InterruptedStart(b) \subseteq Box /\ InterruptedStop(b) \subseteq Box
    BY DEF InterruptedStart, InterruptedStop
  <1>3. InterruptedDelete(b) \subseteq Box /\ CrashedDelete(b) \subseteq Box
    BY DEF InterruptedDelete, CrashedDelete
  <1>4. InterruptedSwitch(b, from, to) \subseteq Box
    <2>1. /\ Switched(b, from, to) \in Box /\ Emptied(b, from, to) \in Box
          /\ Ensured(Emptied(b, from, to), to) \in Box
      OBVIOUS
    <2>. QED BY <2>1 DEF InterruptedSwitch
  <1>. QED BY <1>1, <1>2, <1>3, <1>4

-----------------------------------------------------------------------------
(* The queue.                                                               *)

\* Whose senders stopped waiting: the same commands, by nobody.
LEMMA AbandonedQueue ==
  ASSUME NEW q \in Seq(Item), NEW S
  PROVE  /\ Abandon(q, S) \in Seq(Item) /\ Len(Abandon(q, S)) = Len(q) /\ DOMAIN Abandon(q, S) = DOMAIN q
         /\ \A n \in DOMAIN q :
              /\ Abandon(q, S)[n] = q[n] \/ Abandon(q, S)[n] = [q[n] EXCEPT !.by = Nobody]
              /\ q[n].by \in S => Abandon(q, S)[n].by = Nobody
  <1>. DEFINE a == Abandon(q, S)
  <1>1. DOMAIN q = 1..Len(q) /\ Len(q) \in Nat /\ \A n \in 1..Len(q) : q[n] \in Item
    OBVIOUS
  <1>2. a = [n \in 1..Len(q) |-> IF q[n].by \in S THEN [q[n] EXCEPT !.by = Nobody] ELSE q[n]]
    BY <1>1 DEF Abandon
  <1>3. \A x \in Item : [x EXCEPT !.by = Nobody] \in Item /\ [x EXCEPT !.by = Nobody].by = Nobody
    BY DEF Item
  <1>4. a \in [1..Len(q) -> Item]
    BY <1>1, <1>2, <1>3
  <1>5. a \in Seq(Item) /\ Len(a) = Len(q) /\ DOMAIN a = 1..Len(q)
    BY <1>1, <1>4
  <1>6. \A n \in 1..Len(q) : /\ a[n] = q[n] \/ a[n] = [q[n] EXCEPT !.by = Nobody]
                             /\ q[n].by \in S => a[n].by = Nobody
    BY <1>1, <1>2, <1>3
  <1>. QED BY <1>1, <1>5, <1>6

\* With everybody gone, every command is by nobody.
LEMMA EverybodyGone ==
  ASSUME NEW q \in Seq(Item)
  PROVE  LET a == Abandon(q, Requests \cup Recoveries) IN
         a \in Seq(Item) /\ \A n \in DOMAIN a : a[n].by = Nobody
  <1>. DEFINE a == Abandon(q, Requests \cup Recoveries)
  <1>1. /\ a \in Seq(Item) /\ DOMAIN a = DOMAIN q
        /\ \A n \in DOMAIN q : /\ a[n] = q[n] \/ a[n] = [q[n] EXCEPT !.by = Nobody]
                               /\ q[n].by \in Requests \cup Recoveries => a[n].by = Nobody
    BY AbandonedQueue
  <1>2. \A n \in DOMAIN q : q[n] \in Item
    OBVIOUS
  <1>. HIDE DEF a
  <1>3. \A n \in DOMAIN a : a[n].by = Nobody
    BY <1>1, <1>2 DEF Item
  <1>. QED BY <1>1, <1>3 DEF a

\* A queue of commands of the queue before, by their senders or by nobody, the first
\* k gone.
Remains(k) ==
  /\ k \in Nat /\ queue' \in Seq(Item)
  /\ \A n \in DOMAIN queue' : /\ n + k \in DOMAIN queue /\ queue'[n].ws = queue[n + k].ws
                              /\ queue'[n].cmd = queue[n + k].cmd /\ queue'[n].image = queue[n + k].image
                              /\ queue'[n] = queue[n + k] \/ queue'[n].by = Nobody

LEMMA WhatRemains ==
  ASSUME queue \in Seq(Item)
  PROVE  /\ queue' = queue => Remains(0)
         /\ queue # <<>> /\ queue' = Tail(queue) => Remains(1)
         /\ queue' = <<>> => Remains(0)
         /\ \A n \in 0..Len(queue) : queue' = SubSeq(queue, 1, n) => Remains(0)
         /\ \A S : queue' = Abandon(queue, S) => Remains(0)
         /\ \A n \in 0..Len(queue) : \A S : queue' = Abandon(SubSeq(queue, 1, n), S) => Remains(0)
  <1>. USE DEF Remains
  <1>1. queue' = queue => Remains(0)
    OBVIOUS
  <1>2. queue # <<>> /\ queue' = Tail(queue) => Remains(1)
    OBVIOUS
  <1>3. queue' = <<>> => Remains(0)
    OBVIOUS
  <1>4. ASSUME NEW q \in Seq(Item), NEW S, queue' = Abandon(q, S), Len(q) <= Len(queue),
               \A n \in DOMAIN q : n \in DOMAIN queue /\ q[n] = queue[n]
        PROVE  Remains(0)
    <2>1. DOMAIN queue' = DOMAIN q /\ queue' \in Seq(Item)
      BY <1>4, AbandonedQueue
    <2>2. \A n \in DOMAIN q : n \in Nat /\ q[n] \in Item
      OBVIOUS
    <2>3. \A n \in DOMAIN q : queue'[n] = q[n] \/ queue'[n] = [q[n] EXCEPT !.by = Nobody]
      BY <1>4, AbandonedQueue
    <2>4. \A n \in DOMAIN q : /\ queue'[n].ws = queue[n].ws
                              /\ queue'[n].cmd = queue[n].cmd /\ queue'[n].image = queue[n].image
                              /\ queue'[n] = queue[n] \/ queue'[n].by = Nobody
      <3>1. \A i \in Item : /\ [i EXCEPT !.by = Nobody].ws = i.ws /\ [i EXCEPT !.by = Nobody].by = Nobody
                             /\ [i EXCEPT !.by = Nobody].cmd = i.cmd /\ [i EXCEPT !.by = Nobody].image = i.image
        BY DEF Item
      <3>2. ASSUME NEW n \in DOMAIN q
            PROVE  /\ queue'[n].ws = q[n].ws /\ queue'[n].cmd = q[n].cmd /\ queue'[n].image = q[n].image
                   /\ queue'[n] = q[n] \/ queue'[n].by = Nobody
        <4>1. CASE queue'[n] = q[n]
          BY <4>1
        <4>2. CASE queue'[n] = [q[n] EXCEPT !.by = Nobody]
          BY <2>2, <3>1, <4>2
        <4>. QED BY <2>3, <4>1, <4>2
      <3>3. \A n \in DOMAIN q : q[n] = queue[n]
        BY <1>4, Zenon
      <3>. QED BY <3>2, <3>3, Zenon
    <2>5. ASSUME NEW n \in DOMAIN queue'
          PROVE  /\ n + 0 \in DOMAIN queue /\ queue'[n].ws = queue[n + 0].ws
                 /\ queue'[n].cmd = queue[n + 0].cmd /\ queue'[n].image = queue[n + 0].image
                 /\ queue'[n] = queue[n + 0] \/ queue'[n].by = Nobody
      <3>1. n \in DOMAIN q
        BY <2>1
      <3>2. n + 0 = n
        BY <2>2, <3>1
      <3>3. n \in DOMAIN queue
        BY <1>4, <3>1, Zenon
      <3>4. /\ queue'[n].ws = queue[n].ws /\ queue'[n].cmd = queue[n].cmd /\ queue'[n].image = queue[n].image
            /\ queue'[n] = queue[n] \/ queue'[n].by = Nobody
        BY <2>4, <3>1, Zenon
      <3>. QED BY <3>2, <3>3, <3>4, Zenon DEF Remains
    <2>. QED BY <2>1, <2>5
  <1>5. ASSUME NEW n \in 0..Len(queue)
        PROVE  /\ SubSeq(queue, 1, n) \in Seq(Item) /\ Len(SubSeq(queue, 1, n)) = n
               /\ \A i \in 1..n : SubSeq(queue, 1, n)[i] = queue[i]
    OBVIOUS
  <1>6. \A n \in 0..Len(queue) : queue' = SubSeq(queue, 1, n) => Remains(0)
    BY <1>5
  <1>7. \A S : queue' = Abandon(queue, S) => Remains(0)
    BY <1>4
  <1>8. \A n \in 0..Len(queue) : \A S : queue' = Abandon(SubSeq(queue, 1, n), S) => Remains(0)
    <2>. SUFFICES ASSUME NEW n \in 0..Len(queue), NEW S, queue' = Abandon(SubSeq(queue, 1, n), S)
                  PROVE  Remains(0)
      OBVIOUS
    <2>. DEFINE q == SubSeq(queue, 1, n)
    <2>1. q \in Seq(Item) /\ Len(q) = n /\ \A i \in 1..n : q[i] = queue[i]
      BY <1>5
    <2>2. n <= Len(queue) /\ \A i \in 1..n : i \in DOMAIN queue
      OBVIOUS
    <2>. HIDE DEF q, Remains
    <2>3. DOMAIN q = 1..n
      BY <2>1
    <2>4. queue' = Abandon(q, S)
      BY DEF q
    <2>. QED BY <1>4, <2>1, <2>2, <2>3, <2>4
  <1>. QED BY <1>1, <1>2, <1>3, <1>6, <1>7, <1>8

\* Senders that still wait, wait for what remains.
LEMMA RemainsAwaited ==
  ASSUME TypeOK, SendersAwait, NEW k, Remains(k),
         \A n \in DOMAIN queue' :
           /\ queue'[n].by \in Requests => req'[queue'[n].by] = req[queue'[n].by]
           /\ queue'[n].by \in Recoveries => rec'[queue'[n].by].pc = rec[queue'[n].by].pc
  PROVE  SendersAwait'
  <1>1. Nobody \notin Requests \cup Recoveries
    BY LifecycleAssumption
  <1>2. \A n \in DOMAIN queue' : n \in Nat /\ k \in Nat
    BY DEF Remains
  <1>3. ASSUME NEW n \in DOMAIN queue' PROVE Awaited(queue[n])'
    <2>1. CASE queue'[n].by = Nobody
      BY <1>1, <2>1 DEF Awaited
    <2>2. CASE queue'[n].by # Nobody
      <3>1. n + k \in DOMAIN queue /\ queue'[n] = queue[n + k] /\ Awaited(queue[n + k])
        BY <2>2 DEF Remains, SendersAwait
      <3>. QED BY <3>1 DEF Awaited
    <2>. QED BY <2>1, <2>2
  <1>4. ASSUME NEW m \in DOMAIN queue', NEW n \in DOMAIN queue',
               queue'[m].by = queue'[n].by, queue'[m].by # Nobody
        PROVE  m = n
    <2>1. m + k = n + k
      BY <1>4 DEF Remains, SendersAwait
    <2>. QED BY <1>2, <2>1
  <1>. QED BY <1>3, <1>4 DEF SendersAwait

\* A sender that waits for nothing sends a command and waits for it.
LEMMA SentAwaited ==
  ASSUME TypeOK, SendersAwait, NEW i \in Item, queue' = Append(queue, i), Awaited(i)',
         \A n \in DOMAIN queue : queue[n].by # i.by,
         \A n \in DOMAIN queue :
           /\ queue[n].by \in Requests => req'[queue[n].by] = req[queue[n].by]
           /\ queue[n].by \in Recoveries => rec'[queue[n].by].pc = rec[queue[n].by].pc
  PROVE  SendersAwait' /\ queue' \in Seq(Item)
  <1>1. /\ queue \in Seq(Item) /\ Len(queue) \in Nat /\ DOMAIN queue = 1..Len(queue)
        /\ queue' \in Seq(Item) /\ DOMAIN queue' = 1..(Len(queue) + 1)
        /\ queue'[Len(queue) + 1] = i /\ \A n \in DOMAIN queue : queue'[n] = queue[n]
    BY DEF TypeOK
  <1>2. \A n \in DOMAIN queue' : n \in DOMAIN queue \/ n = Len(queue) + 1
    BY <1>1
  <1>3. ASSUME NEW n \in DOMAIN queue' PROVE Awaited(queue[n])'
    <2>1. CASE n = Len(queue) + 1
      BY <1>1, <2>1 DEF Awaited
    <2>2. CASE n \in DOMAIN queue
      <3>1. queue'[n] = queue[n] /\ Awaited(queue[n])
        BY <1>1, <2>2 DEF SendersAwait
      <3>. QED BY <2>2, <3>1 DEF Awaited
    <2>. QED BY <1>2, <2>1, <2>2
  <1>4. ASSUME NEW m \in DOMAIN queue', NEW n \in DOMAIN queue',
               queue'[m].by = queue'[n].by, queue'[m].by # Nobody
        PROVE  m = n
    BY <1>1, <1>2, <1>4 DEF SendersAwait
  <1>. QED BY <1>1, <1>3, <1>4 DEF SendersAwait

-----------------------------------------------------------------------------
(* Requests.                                                                *)

\* Where rows, queue and recoveries stay, only who owns a transition can change.
LEMMA RequestsChange ==
  ASSUME IndInv, req' \in [Requests -> Task],
         UNCHANGED <<row, status, link, rec, queue, box, upsets>>,
         \A h \in Requests : Asked(req'[h]) /\ (req[h].pc = "wait" => req'[h] = req[h]),
         \A h \in Requests, w \in Workspaces :
           req[h].ws = w /\ Owns(req[h], row[w]) => req'[h].ws = w /\ Owns(req'[h], row[w])
  PROVE  IndInv'
  <1>. USE DEF IndInv
  <1>1. TypeOK'
    BY DEF TypeOK
  <1>2. (\A w \in Workspaces : Coherent(row[w]))' /\ (\A h \in Requests : Asked(req[h]))'
    BY DEF Asked
  <1>3. SendersAwait'
    BY DEF SendersAwait, Awaited
  <1>4. (\A w \in Workspaces : Owned(w))'
    BY DEF Owned, RecoveryAhead
  <1>. QED BY <1>1, <1>2, <1>3, <1>4

\* A request that was not begun owns nothing.
LEMMA AskKeeps ==
  ASSUME IndInv, NEW h \in Requests, NEW task \in Task, Ask(h, task), Asked(task)
  PROVE  IndInv'
  <1>1. req \in [Requests -> Task]
    BY DEF IndInv, TypeOK
  <1>2. req[h].pc = "idle" /\ req' = [req EXCEPT ![h] = task]
        /\ UNCHANGED <<row, status, link, rec, queue, box, upsets>>
    BY DEF Ask
  <1>3. req' \in [Requests -> Task] /\ \A g \in Requests : g # h => req'[g] = req[g]
    BY <1>1, <1>2
  <1>4. req'[h] = task /\ \A g \in Requests : Asked(req[g])
    BY <1>1, <1>2 DEF IndInv
  <1>. QED BY <1>2, <1>3, <1>4, RequestsChange DEF Owns

LEMMA AsksKeep ==
  ASSUME IndInv, NEW h \in Requests, NEW w \in Workspaces,
         \/ AskStart(h, w) \/ AskStop(h, w) \/ AskDelete(h, w)
         \/ \E target \in Images : AskChange(h, w, target)
  PROVE  IndInv'
  <1>1. row[w] \in Row
    BY DEF IndInv, TypeOK
  <1>2. ASSUME NEW cmd \in Commands, NEW image \in Images \cup {NoImage}, NEW from \in Images \cup {NoImage},
               NEW old \in Row
        PROVE  LET short == [NoTask EXCEPT !.pc = "begin", !.cmd = cmd, !.ws = w, !.image = image]
                   long == [NoTask EXCEPT !.pc = "begin", !.cmd = cmd, !.ws = w, !.image = image,
                                          !.from = from, !.restore = old] IN
               short \in Task /\ Asked(short) /\ long \in Task /\ Asked(long)
    BY DEF NoTask, Task, NoRow, Row, States, Asked
  <1>3. {"egress", "stop", "delete", "runtime.set"} \subseteq Commands
    BY DEF Commands
  <1>4. /\ row[w].image \in Images \cup {NoImage}
        /\ \A target : ChangeFrom(row[w], target) \in Images \cup {NoImage}
    BY <1>1 DEF Row, ChangeFrom
  <1>5. \E task \in Task : Ask(h, task) /\ Asked(task)
    <2>1. CASE AskStart(h, w)
      BY <1>1, <1>2, <1>3, <1>4, <2>1 DEF AskStart
    <2>2. CASE AskStop(h, w)
      BY <1>1, <1>2, <1>3, <1>4, <2>2 DEF AskStop
    <2>3. CASE AskDelete(h, w)
      BY <1>1, <1>2, <1>3, <1>4, <2>3 DEF AskDelete
    <2>4. ASSUME NEW target \in Images, AskChange(h, w, target)
          PROVE  \E task \in Task : Ask(h, task) /\ Asked(task)
      <3>. DEFINE from == ChangeFrom(row[w], target)
                  task == [NoTask EXCEPT !.pc = "begin", !.cmd = "runtime.set", !.ws = w,
                                         !.image = target, !.from = from, !.restore = row[w]]
      <3>1. from \in Images \cup {NoImage} /\ "runtime.set" \in Commands
        BY <1>3, <1>4
      <3>2. Ask(h, task)
        BY <2>4 DEF AskChange
      <3>. HIDE DEF from
      <3>3. task \in Task /\ Asked(task)
        BY <1>1, <1>2, <3>1
      <3>. QED BY <3>2, <3>3
    <2>. QED BY <2>1, <2>2, <2>3, <2>4
  <1>. QED BY <1>5, AskKeeps

\* A begin makes the request the owner of the transition it starts.
LEMMA BeginKeeps ==
  ASSUME IndInv, NEW h \in Requests, NEW cmd, NEW matches, NEW r, BeginWith(h, cmd, matches, r),
         ASSUME matches, req[h].ws \in Workspaces, req[h].cmd = cmd
         PROVE  r \in Row /\ Coherent(r) /\ Owns([req[h] EXCEPT !.pc = "call"], r)
  PROVE  IndInv'
  <1>. USE DEF IndInv
  <1>1. req[h].pc = "begin" /\ req[h].cmd = cmd /\ UNCHANGED <<status, link, rec, queue, box, upsets>>
    BY DEF BeginWith
  <1>2. /\ req \in [Requests -> Task] /\ row \in [Workspaces -> Row] /\ req[h] \in Task
        /\ req[h].ws \in Workspaces
    BY <1>1 DEF TypeOK, Asked
  <1>3. CASE ~matches /\ req' = [req EXCEPT ![h] = NoTask] /\ UNCHANGED row
    <2>1. NoTask \in Task /\ Asked(NoTask)
      BY DEF NoTask, Task, NoRow, Row, States, Asked
    <2>2. req' \in [Requests -> Task] /\ req'[h] = NoTask /\ \A g \in Requests : g # h => req'[g] = req[g]
      BY <1>2, <1>3, <2>1
    <2>. QED BY <1>1, <1>3, <2>1, <2>2, RequestsChange DEF Owns
  <1>4. CASE matches /\ row' = [row EXCEPT ![req[h].ws] = r] /\ req' = [req EXCEPT ![h].pc = "call"]
    <2>. DEFINE w == req[h].ws
                t == [req[h] EXCEPT !.pc = "call"]
    <2>1. t \in Task /\ t.ws = w /\ Asked(t)
      BY <1>1, <1>2 DEF Task, Asked
    <2>2. req' = [req EXCEPT ![h] = t]
      BY <1>2, <1>4
    <2>3. req' \in [Requests -> Task] /\ req'[h] = t /\ \A g \in Requests : g # h => req'[g] = req[g]
      BY <1>2, <2>1, <2>2
    <2>4. r \in Row /\ Coherent(r) /\ Owns(t, r)
      BY <1>1, <1>2, <1>4
    <2>5. row' \in [Workspaces -> Row] /\ row'[w] = r /\ \A v \in Workspaces : v # w => row'[v] = row[v]
      BY <1>2, <1>4, <2>4
    <2>. HIDE DEF t
    <2>6. TypeOK' /\ (\A g \in Requests : Asked(req[g]))'
      BY <1>1, <2>1, <2>3, <2>5 DEF TypeOK
    <2>7. (\A v \in Workspaces : Coherent(row[v]))'
      BY <2>4, <2>5
    <2>8. SendersAwait'
      BY <1>1, <2>3 DEF SendersAwait, Awaited
    <2>9. (\A v \in Workspaces : Owned(v))'
      <3>. SUFFICES ASSUME NEW v \in Workspaces PROVE Owned(v)'
        OBVIOUS
      <3>1. CASE v = w
        BY <2>1, <2>3, <2>4, <2>5, <3>1 DEF Owned
      <3>2. CASE v # w
        <4>1. ASSUME NEW g \in Requests, req[g].ws = v, Owns(req[g], row[v])
              PROVE  req'[g].ws = v /\ Owns(req'[g], row'[v])
          BY <1>1, <2>3, <2>5, <3>2, <4>1
        <4>2. RecoveryAhead' <=> RecoveryAhead
          BY <1>1 DEF RecoveryAhead
        <4>3. row'[v] = row[v]
          BY <2>5, <3>2
        <4>. QED BY <4>1, <4>2, <4>3 DEF Owned
      <3>. QED BY <3>1, <3>2
    <2>. QED BY <2>6, <2>7, <2>8, <2>9
  <1>. QED BY <1>3, <1>4 DEF BeginWith

LEMMA BeginsKeep ==
  ASSUME IndInv, NEW h \in Requests,
         BeginStart(h) \/ BeginStop(h) \/ BeginDelete(h) \/ BeginChange(h)
  PROVE  IndInv'
  <1>. DEFINE r == row[req[h].ws]
              t == [req[h] EXCEPT !.pc = "call"]
  <1>1. req[h] \in Task /\ (req[h].ws \in Workspaces => r \in Row)
    BY DEF IndInv, TypeOK
  <1>2. /\ t.pc = "call" /\ t.cmd = req[h].cmd /\ t.image = req[h].image
        /\ req[h].image \in Images \cup {NoImage} /\ req[h].from \in Images \cup {NoImage}
    BY <1>1 DEF Task
  <1>. HIDE DEF t, r
  <1>3. CASE BeginStart(h)
    <2>. DEFINE new == [r EXCEPT !.state = "STARTING", !.desired = "RUNNING"]
    <2>1. ASSUME req[h].ws \in Workspaces, req[h].cmd = "egress"
          PROVE  new \in Row /\ Coherent(new) /\ Owns(t, new)
      BY <1>1, <1>2, <2>1 DEF Row, States, Coherent, Owns
    <2>2. PICK matches : BeginWith(h, "egress", matches, new)
      BY <1>3 DEF BeginStart, r
    <2>. HIDE DEF new
    <2>. QED BY <2>1, <2>2, BeginKeeps DEF t
  <1>4. CASE BeginStop(h)
    <2>. DEFINE new == [r EXCEPT !.state = "STOPPING", !.desired = "STOPPED"]
    <2>1. ASSUME req[h].ws \in Workspaces, req[h].cmd = "stop"
          PROVE  new \in Row /\ Coherent(new) /\ Owns(t, new)
      BY <1>1, <1>2, <2>1 DEF Row, States, Coherent, Owns
    <2>2. PICK matches : BeginWith(h, "stop", matches, new)
      BY <1>4 DEF BeginStop, r
    <2>. HIDE DEF new
    <2>. QED BY <2>1, <2>2, BeginKeeps DEF t
  <1>5. CASE BeginDelete(h)
    <2>. DEFINE new == [r EXCEPT !.state = "DELETING", !.desired = "DELETED"]
    <2>1. ASSUME req[h].ws \in Workspaces, req[h].cmd = "delete"
          PROVE  new \in Row /\ Coherent(new) /\ Owns(t, new)
      BY <1>1, <1>2, <2>1 DEF Row, States, Coherent, Owns
    <2>2. PICK matches : BeginWith(h, "delete", matches, new)
      BY <1>5 DEF BeginDelete, r
    <2>. HIDE DEF new
    <2>. QED BY <2>1, <2>2, BeginKeeps DEF t
  <1>6. CASE BeginChange(h)
    <2>. DEFINE new == [r EXCEPT !.state = "UPGRADING", !.image = req[h].image, !.prev = req[h].from,
                                 !.changed = FALSE]
                matches == /\ r.desired = "STOPPED"
                           /\ \/ r.state = "STOPPED" /\ r.image = req[h].from
                              \/ /\ RuntimeChangeIncomplete(r)
                                 /\ r.image \in {req[h].from, req[h].image}
                                 /\ r.prev \in {req[h].from, req[h].image}
    <2>1. ASSUME matches, req[h].ws \in Workspaces, req[h].cmd = "runtime.set"
          PROVE  new \in Row /\ Coherent(new) /\ Owns(t, new)
      BY <1>1, <1>2, <2>1 DEF Row, States, Coherent, Owns
    <2>2. BeginWith(h, "runtime.set", matches, new)
      BY <1>6 DEF BeginChange, r
    <2>. HIDE DEF new, matches
    <2>. QED BY <2>1, <2>2, BeginKeeps DEF t
  <1>. QED BY <1>3, <1>4, <1>5, <1>6

\* A request that goes on stays the owner: what it sends, who abandons it and what
\* goes wrong aside.
LEMMA WaitKeeps ==
  ASSUME IndInv, req' \in [Requests -> Task], queue' \in Seq(Item), upsets' \in 0..MaxUpsets,
         SendersAwait', UNCHANGED <<row, status, rec, box>>,
         link' \in {"down", "up", "lost", "revoked", "closing"}, link = "down" => link' = "down",
         \A h \in Requests : Asked(req'[h]),
         \A h \in Requests, w \in Workspaces :
           req[h].ws = w /\ Owns(req[h], row[w]) => req'[h].ws = w /\ Owns(req'[h], row[w])
  PROVE  IndInv'
  <1>. USE DEF IndInv
  <1>1. TypeOK'
    BY DEF TypeOK
  <1>2. (\A w \in Workspaces : Coherent(row[w]))'
    OBVIOUS
  <1>3. (\A w \in Workspaces : Owned(w))'
    BY DEF Owned, RecoveryAhead
  <1>. QED BY <1>1, <1>2, <1>3

LEMMA CallKeeps ==
  ASSUME IndInv, NEW h \in Requests, Call(h)
  PROVE  IndInv'
  <1>. USE DEF IndInv
  <1>1. /\ req \in [Requests -> Task] /\ req[h] \in Task /\ h \notin Recoveries /\ h # Nobody
        /\ Asked(req[h]) /\ queue \in Seq(Item)
    BY LifecycleAssumption DEF TypeOK
  <1>2. UNCHANGED <<row, status, link, rec, box, upsets>> /\ req[h].pc = "call"
    BY DEF Call
  <1>3. ASSUME NEW pc \in {"wait", "fail"}, NEW offline \in BOOLEAN,
               req' = [req EXCEPT ![h] = [req[h] EXCEPT !.pc = pc, !.offline = offline]]
        PROVE  /\ req' \in [Requests -> Task] /\ \A g \in Requests : g # h => req'[g] = req[g]
               /\ req'[h].ws = req[h].ws /\ req'[h].pc = pc /\ req'[h].cmd = req[h].cmd
               /\ req'[h].image = req[h].image /\ req'[h].from = req[h].from
               /\ Asked(req'[h]) /\ \A r : Owns(req[h], r) => Owns(req'[h], r)
    <2>. DEFINE new == [req[h] EXCEPT !.pc = pc, !.offline = offline]
    <2>1. /\ new \in Task /\ new.ws = req[h].ws /\ new.pc = pc /\ new.cmd = req[h].cmd
          /\ new.image = req[h].image /\ new.from = req[h].from
          /\ Asked(new) /\ \A r : Owns(req[h], r) => Owns(new, r)
      BY <1>1, <1>2 DEF Task, Owns, Asked
    <2>2. req' = [req EXCEPT ![h] = new]
      BY <1>3
    <2>. HIDE DEF new
    <2>3. req' \in [Requests -> Task] /\ req'[h] = new /\ \A g \in Requests : g # h => req'[g] = req[g]
      BY <1>1, <2>1, <2>2
    <2>. QED BY <2>1, <2>3
  <1>4. \A n \in DOMAIN queue : queue[n].by # h
    BY <1>2 DEF SendersAwait, Awaited
  <1>5. CASE /\ queue' = Append(queue, [cmd |-> req[h].cmd, by |-> h, ws |-> req[h].ws,
                                        image |-> req[h].image, from |-> req[h].from])
             /\ req' = [req EXCEPT ![h].pc = "wait"]
    <2>1. PICK i \in Item :
            /\ i.by = h /\ i.cmd = req[h].cmd /\ i.ws = req[h].ws
            /\ i.image = req[h].image /\ i.from = req[h].from
            /\ queue' = Append(queue, i)
      BY <1>1, <1>2, <1>5 DEF Task, Item, Asked
    <2>2. req[h].offline \in BOOLEAN
          /\ req' = [req EXCEPT ![h] = [req[h] EXCEPT !.pc = "wait", !.offline = req[h].offline]]
      BY <1>1, <1>5 DEF Task
    <2>3. /\ req' \in [Requests -> Task] /\ \A g \in Requests : g # h => req'[g] = req[g]
          /\ req'[h].ws = req[h].ws /\ req'[h].pc = "wait" /\ req'[h].cmd = req[h].cmd
          /\ req'[h].image = req[h].image /\ req'[h].from = req[h].from
          /\ Asked(req'[h]) /\ \A r : Owns(req[h], r) => Owns(req'[h], r)
      BY <1>3, <2>2
    <2>4. Awaited(i)'
      BY <1>1, <2>1, <2>3 DEF Awaited
    <2>5. queue' \in Seq(Item) /\ SendersAwait'
      <3>1. \A n \in DOMAIN queue :
              /\ queue[n].by \in Requests => req'[queue[n].by] = req[queue[n].by]
              /\ queue[n].by \in Recoveries => rec'[queue[n].by].pc = rec[queue[n].by].pc
        BY <1>2, <1>4, <2>3
      <3>. QED BY <1>4, <2>1, <2>4, <3>1, SentAwaited
    <2>. QED BY <1>2, <2>3, <2>5, WaitKeeps DEF TypeOK
  <1>6. CASE ~Connected /\ UNCHANGED queue
             /\ \E offline \in BOOLEAN : req' = [req EXCEPT ![h].pc = "fail", ![h].offline = offline]
    <2>1. PICK offline \in BOOLEAN : req' = [req EXCEPT ![h].pc = "fail", ![h].offline = offline]
      BY <1>6
    <2>2. req' = [req EXCEPT ![h] = [req[h] EXCEPT !.pc = "fail", !.offline = offline]]
      BY <1>1, <2>1
    <2>3. /\ req' \in [Requests -> Task] /\ \A g \in Requests : g # h => req'[g] = req[g]
          /\ req'[h].ws = req[h].ws
          /\ Asked(req'[h]) /\ \A r : Owns(req[h], r) => Owns(req'[h], r)
      BY <1>3, <2>2
    <2>. QED BY <1>2, <1>6, <2>3, RequestsChange
  <1>. QED BY <1>5, <1>6 DEF Call

\* What goes wrong is counted.
LEMMA UpsetsAreCounted ==
  ASSUME TypeOK, NEW kind, Upset(kind)
  PROVE  upsets' \in 0..MaxUpsets
  BY LifecycleAssumption DEF TypeOK, Upset

LEMMA TimeoutKeeps ==
  ASSUME IndInv, NEW h \in Requests, Timeout(h)
  PROVE  IndInv'
  <1>. USE DEF IndInv
  <1>1. /\ req[h].pc = "wait" /\ TimedOut({h}) /\ req' = [req EXCEPT ![h].pc = "fail"]
        /\ UNCHANGED <<row, status, link, rec, box>>
    BY DEF Timeout
  <1>2. req \in [Requests -> Task] /\ Asked(req[h]) /\ queue \in Seq(Item) /\ h # Nobody
    BY LifecycleAssumption DEF TypeOK
  <1>3. /\ req' \in [Requests -> Task] /\ \A g \in Requests : g # h => req'[g] = req[g]
        /\ req'[h].ws = req[h].ws /\ Asked(req'[h]) /\ \A r : Owns(req[h], r) => Owns(req'[h], r)
    <2>. DEFINE new == [req[h] EXCEPT !.pc = "fail"]
    <2>1. new \in Task /\ new.ws = req[h].ws /\ Asked(new) /\ \A r : Owns(req[h], r) => Owns(new, r)
      BY <1>1, <1>2 DEF Task, Owns, Asked
    <2>2. req' = [req EXCEPT ![h] = new]
      BY <1>1, <1>2
    <2>. HIDE DEF new
    <2>. QED BY <1>2, <2>1, <2>2
  <1>4. Remains(0) /\ (\A n \in DOMAIN queue' : queue'[n].by # h) /\ upsets' \in 0..MaxUpsets
    <2>1. CASE (\A n \in DOMAIN queue : queue[n].by \notin {h}) /\ UNCHANGED <<queue, upsets>>
      BY <1>2, <2>1, WhatRemains DEF TypeOK
    <2>2. CASE Upset("timeout") /\ queue' = Abandon(queue, {h})
      <3>1. Remains(0)
        BY <1>2, <2>2, WhatRemains
      <3>2. DOMAIN queue' = DOMAIN queue
        BY <1>2, <2>2, AbandonedQueue
      <3>3. ASSUME NEW n \in DOMAIN queue PROVE queue'[n].by # h
        <4>1. /\ Abandon(queue, {h})[n] = queue[n] \/ Abandon(queue, {h})[n] = [queue[n] EXCEPT !.by = Nobody]
              /\ queue[n].by \in {h} => Abandon(queue, {h})[n].by = Nobody
          BY <1>2, AbandonedQueue
        <4>2. queue[n] \in Item
          BY <1>2
        <4>. QED BY <1>2, <2>2, <4>1, <4>2 DEF Item
      <3>. QED BY <2>2, <3>1, <3>2, <3>3, UpsetsAreCounted
    <2>. QED BY <1>1, <2>1, <2>2 DEF TimedOut
  <1>5. SendersAwait'
    BY <1>1, <1>3, <1>4, RemainsAwaited
  <1>. QED BY <1>1, <1>3, <1>4, <1>5, WaitKeeps DEF Remains, TypeOK

\* A settled request leaves no transition of its own behind.
LEMMA SettleKeeps ==
  ASSUME IndInv, NEW h \in Requests, NEW pc \in {"finish", "fail", "revert"}, NEW cmds, NEW r,
         Settle(h, pc, cmds, r), Settled(row[req[h].ws], r),
         r.state \in Transitional => ~Owns(req[h], r)
  PROVE  IndInv'
  <1>. USE DEF IndInv
  <1>. DEFINE w == req[h].ws
  <1>1. /\ req[h].pc = pc /\ row' = [row EXCEPT ![w] = r] /\ req' = [req EXCEPT ![h] = NoTask]
        /\ UNCHANGED <<status, link, rec, queue, box, upsets>>
    BY DEF Settle
  <1>2. /\ req \in [Requests -> Task] /\ row \in [Workspaces -> Row] /\ w \in Workspaces
        /\ r \in Row /\ (Coherent(row[w]) => Coherent(r)) /\ (r.state \in Transitional => r = row[w])
    BY <1>1 DEF TypeOK, Asked, Settled
  <1>3. NoTask \in Task /\ Asked(NoTask)
    BY DEF NoTask, Task, NoRow, Row, States, Asked
  <1>4. req' \in [Requests -> Task] /\ req'[h] = NoTask /\ \A g \in Requests : g # h => req'[g] = req[g]
    BY <1>1, <1>2, <1>3
  <1>5. row' \in [Workspaces -> Row] /\ row'[w] = r /\ \A v \in Workspaces : v # w => row'[v] = row[v]
    BY <1>1, <1>2
  <1>6. TypeOK' /\ (\A g \in Requests : Asked(req[g]))'
    BY <1>1, <1>3, <1>4, <1>5 DEF TypeOK
  <1>7. (\A v \in Workspaces : Coherent(row[v]))'
    BY <1>2, <1>5
  <1>8. SendersAwait'
    BY <1>1, <1>4 DEF SendersAwait, Awaited
  <1>9. (\A v \in Workspaces : Owned(v))'
    <2>. SUFFICES ASSUME NEW v \in Workspaces, row'[v].state \in Transitional
                  PROVE  (\E g \in Requests : req'[g].ws = v /\ Owns(req'[g], row'[v])) \/ RecoveryAhead'
      BY DEF Owned
    <2>1. row'[v] = row[v]
      BY <1>2, <1>5
    <2>2. ~(req[h].ws = v /\ Owns(req[h], row[v]))
      BY <1>2, <1>5, <2>1
    <2>3. (\E g \in Requests : req[g].ws = v /\ Owns(req[g], row[v])) \/ RecoveryAhead
      BY <2>1 DEF Owned
    <2>4. RecoveryAhead' <=> RecoveryAhead
      BY <1>1 DEF RecoveryAhead
    <2>. QED BY <1>4, <2>1, <2>2, <2>3, <2>4
  <1>. QED BY <1>6, <1>7, <1>8, <1>9

LEMMA SettlesKeep ==
  ASSUME IndInv, NEW h \in Requests,
         \/ FinishStart(h) \/ FinishStop(h) \/ FinishDelete(h) \/ FinishChange(h)
         \/ RevertChange(h) \/ MarkFailure(h)
  PROVE  IndInv'
  <1>. DEFINE r == row[req[h].ws]
  <1>1. /\ req[h].pc \in {"finish", "fail", "revert"} /\ req[h] \in Task
        /\ req[h].ws \in Workspaces /\ r \in Row
    BY DEF IndInv, TypeOK, Asked, FinishStart, FinishStop, FinishDelete, FinishChange, RevertChange, MarkFailure,
           Settle
  <1>2. req[h].restore \in Row /\ req[h].offline \in BOOLEAN
    BY <1>1 DEF Task
  <1>. HIDE DEF r
  <1>3. CASE FinishStart(h)
    <2>1. Settled(r, finishWorkspaceStart(r)) /\ finishWorkspaceStart(r).state # "STARTING"
      BY <1>1, FinishesSettle
    <2>2. Settle(h, "finish", {"start"}, finishWorkspaceStart(r))
      BY <1>3 DEF FinishStart, r
    <2>3. ~Owns(req[h], finishWorkspaceStart(r))
      BY <2>1, <2>2 DEF Owns, Settle
    <2>. QED BY <2>1, <2>2, <2>3, SettleKeeps DEF r
  <1>4. CASE FinishStop(h)
    <2>1. Settled(r, finishWorkspaceStop(r)) /\ finishWorkspaceStop(r).state # "STOPPING"
      BY <1>1, FinishesSettle
    <2>2. Settle(h, "finish", {"stop"}, finishWorkspaceStop(r))
      BY <1>4 DEF FinishStop, r
    <2>3. ~Owns(req[h], finishWorkspaceStop(r))
      BY <2>1, <2>2 DEF Owns, Settle
    <2>. QED BY <2>1, <2>2, <2>3, SettleKeeps DEF r
  <1>5. CASE FinishDelete(h)
    <2>1. Settled(r, deleteConfirmedWorkspace(r)) /\ deleteConfirmedWorkspace(r).state # "DELETING"
      BY <1>1, FinishesSettle
    <2>2. Settle(h, "finish", {"delete"}, deleteConfirmedWorkspace(r))
      BY <1>5 DEF FinishDelete, r
    <2>3. ~Owns(req[h], deleteConfirmedWorkspace(r))
      BY <2>1, <2>2 DEF Owns, Settle
    <2>. QED BY <2>1, <2>2, <2>3, SettleKeeps DEF r
  <1>6. CASE FinishChange(h)
    <2>. DEFINE new == finishWorkspaceRuntimeChange(r, req[h].image)
    <2>1. Settled(r, new) /\ (new.state = "UPGRADING" => r.image # req[h].image)
      BY <1>1, <1>2, ChangesSettle
    <2>2. Settle(h, "finish", {"runtime.set"}, new)
      BY <1>6 DEF FinishChange, r
    <2>. HIDE DEF new
    <2>3. new.state \in Transitional => ~Owns(req[h], new)
      BY <2>1, <2>2 DEF Owns, Settle, Settled
    <2>. QED BY <2>1, <2>2, <2>3, SettleKeeps DEF r
  <1>7. CASE RevertChange(h)
    <2>. DEFINE new == revertWorkspaceRuntimeChange(r, req[h].restore)
    <2>1. Settled(r, new) /\ new.state # "UPGRADING"
      BY <1>1, <1>2, ChangesSettle
    <2>2. Settle(h, "revert", {"runtime.set"}, new)
      BY <1>7 DEF RevertChange, r
    <2>. HIDE DEF new
    <2>3. ~Owns(req[h], new)
      BY <2>1, <2>2 DEF Owns, Settle
    <2>. QED BY <2>1, <2>2, <2>3, SettleKeeps DEF r
  <1>8. CASE MarkFailure(h)
    <2>. DEFINE new == markWorkspaceRuntimeFailure(r, req[h].offline)
    <2>1. Settled(r, new) /\ new.state \notin Transitional
      BY <1>1, <1>2, FailuresSettle
    <2>2. Settle(h, "fail", Commands, new)
      BY <1>8 DEF MarkFailure, r
    <2>. HIDE DEF new
    <2>. QED BY <2>1, <2>2, SettleKeeps DEF r
  <1>. QED BY <1>3, <1>4, <1>5, <1>6, <1>7, <1>8

\* Steps that only take rows out of their transitions.
LEMMA RowsSettle ==
  ASSUME IndInv, row' \in [Workspaces -> Row], status' \in {"ONLINE", "OFFLINE", "DISABLED"},
         link' \in {"down", "up", "lost", "revoked", "closing"}, link = "down" => link' = "down",
         upsets' \in 0..MaxUpsets, UNCHANGED <<req, rec, queue, box>>,
         \A w \in Workspaces : Settled(row[w], row'[w])
  PROVE  IndInv'
  <1>. USE DEF IndInv
  <1>1. TypeOK' /\ SendersAwait' /\ (\A h \in Requests : Asked(req[h]))'
    BY DEF TypeOK, SendersAwait, Awaited
  <1>2. (\A w \in Workspaces : Coherent(row[w]))'
    BY DEF Settled
  <1>3. (\A w \in Workspaces : Owned(w))'
    BY DEF Owned, Settled, RecoveryAhead
  <1>. QED BY <1>1, <1>2, <1>3

LEMMA DeleteUnassignedKeeps ==
  ASSUME IndInv, NEW w \in Workspaces, DeleteUnassigned(w)
  PROVE  IndInv'
  <1>1. /\ row \in [Workspaces -> Row] /\ row[w] \in Row /\ row[w].state = "CREATED"
        /\ row' = [row EXCEPT ![w] = deleteOwnedWorkspace(row[w])]
        /\ UNCHANGED <<status, link, req, rec, queue, box, upsets>>
    BY DEF IndInv, TypeOK, DeleteUnassigned
  <1>2. Settled(row[w], deleteOwnedWorkspace(row[w]))
    BY <1>1 DEF Settled, deleteOwnedWorkspace, NoRow, Row, States, Coherent, Transitional
  <1>3. deleteOwnedWorkspace(row[w]) \in Row
    BY <1>2 DEF Settled
  <1>4. row' \in [Workspaces -> Row] /\ \A v \in Workspaces : Settled(row[v], row'[v])
    <2>1. \A v \in Workspaces : Settled(row[v], row[v])
      BY <1>1 DEF Settled
    <2>. QED BY <1>1, <1>2, <1>3, <2>1
  <1>. QED BY <1>1, <1>4, RowsSettle DEF IndInv, TypeOK

-----------------------------------------------------------------------------
(* The Worker.                                                              *)

\* An answered request goes on to the next command of a start, or to its end.
LEMMA AnsweredGoesOn ==
  ASSUME NEW t \in Task, Asked(t), t.pc # "idle", NEW reply, NEW state, NEW image
  PROVE  LET new == Answered(t, reply, state, image) IN
         new \in Task /\ new.ws = t.ws /\ Asked(new) /\ \A r : Owns(t, r) => Owns(new, r)
  <1>. DEFINE new == Answered(t, reply, state, image)
  <1>1. DOMAIN NextCommand = {"egress", "ensure"} /\ NextCommand["egress"] = "ensure" /\ NextCommand["ensure"] = "start"
    BY DEF NextCommand
  <1>2. \/ /\ t.cmd \in DOMAIN NextCommand
           /\ new = [t EXCEPT !.pc = "call", !.cmd = NextCommand[t.cmd]]
        \/ \E pc \in {"finish", "revert", "fail"} : new = [t EXCEPT !.pc = pc]
    BY DEF Answered
  <1>. HIDE DEF new
  <1>3. ASSUME t.cmd \in DOMAIN NextCommand, new = [t EXCEPT !.pc = "call", !.cmd = NextCommand[t.cmd]]
        PROVE  new \in Task /\ new.ws = t.ws /\ Asked(new) /\ \A r : Owns(t, r) => Owns(new, r)
    <2>1. PICK cmd \in {"ensure", "start"} :
            cmd = NextCommand[t.cmd] /\ t.cmd \in {"egress", "ensure"}
      BY <1>1, <1>3
    <2>2. new = [t EXCEPT !.pc = "call", !.cmd = cmd]
      BY <1>3, <2>1
    <2>3. new \in Task /\ new.ws = t.ws /\ new.pc = "call" /\ new.cmd = cmd /\ new.image = t.image
      BY <2>1, <2>2 DEF Task, Commands
    <2>4. Asked(new)
      BY <2>1, <2>3 DEF Asked, Commands
    <2>5. ASSUME NEW r, Owns(t, r) PROVE Owns(new, r)
      BY <2>1, <2>3, <2>5 DEF Owns
    <2>. QED BY <2>3, <2>4, <2>5
  <1>4. ASSUME NEW pc \in {"finish", "revert", "fail"}, new = [t EXCEPT !.pc = pc]
        PROVE  new \in Task /\ new.ws = t.ws /\ Asked(new) /\ \A r : Owns(t, r) => Owns(new, r)
    <2>1. new \in Task /\ new.ws = t.ws /\ new.pc = pc /\ new.cmd = t.cmd /\ new.image = t.image
      BY <1>4 DEF Task
    <2>2. Asked(new)
      BY <2>1 DEF Asked
    <2>3. ASSUME NEW r, Owns(t, r) PROVE Owns(new, r)
      BY <2>1, <2>3 DEF Owns
    <2>. QED BY <2>1, <2>2, <2>3
  <1>5. new \in Task /\ new.ws = t.ws /\ Asked(new) /\ \A r : Owns(t, r) => Owns(new, r)
    BY <1>2, <1>3, <1>4
  <1>. QED BY <1>5 DEF new

\* What becomes of the sender of the command that is executed.
LEMMA AnswerOutcome ==
  ASSUME IndInv, queue # <<>>, NEW reply, NEW state, NEW image, Answer(reply, state, image)
  PROVE  /\ req' \in [Requests -> Task] /\ (\A h \in Requests : Asked(req'[h]))
         /\ \A h \in Requests : h # Head(queue).by => req'[h] = req[h]
         /\ \A h \in Requests, w \in Workspaces :
              req[h].ws = w /\ Owns(req[h], row[w]) => req'[h].ws = w /\ Owns(req'[h], row[w])
         /\ Remains(1) /\ queue' \in Seq(Item)
         /\ \A n \in DOMAIN queue' : queue'[n].by # Nobody => queue'[n].by # Head(queue).by
         /\ link' \in {"down", "up", "lost", "revoked", "closing"} /\ (link' = "down" <=> link = "down")
  <1>. USE DEF IndInv
  <1>1. /\ req \in [Requests -> Task] /\ queue \in Seq(Item) /\ link \in {"down", "up", "lost", "revoked", "closing"}
        /\ \A h \in Requests : req[h] \in Task /\ Asked(req[h])
    BY DEF TypeOK
  <1>2. 1 \in DOMAIN queue /\ Head(queue) = queue[1] /\ queue' = Tail(queue)
    BY <1>1 DEF Answer
  <1>3. Remains(1) /\ queue' \in Seq(Item)
    BY <1>1, <1>2, WhatRemains
  <1>4. ASSUME NEW n \in DOMAIN queue', queue'[n].by # Nobody PROVE queue'[n].by # Head(queue).by
    <2>1. n + 1 \in DOMAIN queue /\ queue'[n] = queue[n + 1] /\ n \in 1..Len(queue') /\ n + 1 # 1
      BY <1>1, <1>2
    <2>. QED BY <1>2, <1>4, <2>1 DEF SendersAwait
  <1>5. link' \in {"down", "up", "lost", "revoked", "closing"} /\ (link' = "down" <=> link = "down")
    BY <1>1 DEF Answer
  <1>6. CASE UNCHANGED req
    BY <1>1, <1>3, <1>4, <1>5, <1>6
  <1>7. CASE /\ Head(queue).by \in Requests
             /\ req' = [req EXCEPT ![Head(queue).by] = Answered(req[Head(queue).by], reply, state, image)]
    <2>. DEFINE h == Head(queue).by
                new == Answered(req[h], reply, state, image)
    <2>1. req[h].pc = "wait"
      BY <1>2, <1>7 DEF SendersAwait, Awaited
    <2>2. new \in Task /\ new.ws = req[h].ws /\ Asked(new) /\ \A r : Owns(req[h], r) => Owns(new, r)
      BY <1>1, <1>7, <2>1, AnsweredGoesOn
    <2>3. req' = [req EXCEPT ![h] = new]
      BY <1>7
    <2>. HIDE DEF new
    <2>4. req' \in [Requests -> Task] /\ req'[h] = new /\ \A g \in Requests : g # h => req'[g] = req[g]
      BY <1>1, <1>7, <2>2, <2>3
    <2>5. \A g \in Requests : Asked(req'[g])
      BY <1>1, <2>2, <2>4
    <2>6. \A g \in Requests, w \in Workspaces :
            req[g].ws = w /\ Owns(req[g], row[w]) => req'[g].ws = w /\ Owns(req'[g], row[w])
      BY <2>2, <2>4
    <2>. QED BY <1>3, <1>4, <1>5, <2>4, <2>5, <2>6
  <1>. QED BY <1>6, <1>7 DEF Answer

\* A command is executed: whatever it does to the box, and whoever hears of it.
LEMMA ExecutionKeeps ==
  ASSUME IndInv, queue # <<>>, NEW reply, NEW state, NEW image, Answer(reply, state, image),
         UNCHANGED <<row, status>>, box' \in [Workspaces -> Box], upsets' \in 0..MaxUpsets,
         rec' \in [Recoveries -> Recovery],
         \A c \in Recoveries : c # Head(queue).by => rec'[c].pc = rec[c].pc,
         \A c \in Recoveries : rec[c].pc \in {"greet", "greeted", "begin"} =>
           rec'[c].pc \in {"greet", "greeted", "begin"}
  PROVE  IndInv'
  <1>. USE DEF IndInv
  <1>1. /\ req' \in [Requests -> Task] /\ (\A h \in Requests : Asked(req'[h]))
        /\ \A h \in Requests : h # Head(queue).by => req'[h] = req[h]
        /\ \A h \in Requests, w \in Workspaces :
             req[h].ws = w /\ Owns(req[h], row[w]) => req'[h].ws = w /\ Owns(req'[h], row[w])
        /\ Remains(1) /\ queue' \in Seq(Item)
        /\ \A n \in DOMAIN queue' : queue'[n].by # Nobody => queue'[n].by # Head(queue).by
        /\ link' \in {"down", "up", "lost", "revoked", "closing"} /\ (link' = "down" <=> link = "down")
    BY AnswerOutcome
  <1>2. TypeOK'
    BY <1>1 DEF TypeOK
  <1>3. SendersAwait'
    <2>1. \A n \in DOMAIN queue' :
            /\ queue'[n].by \in Requests => req'[queue'[n].by] = req[queue'[n].by]
            /\ queue'[n].by \in Recoveries => rec'[queue'[n].by].pc = rec[queue'[n].by].pc
      BY <1>1, LifecycleAssumption
    <2>. QED BY <1>1, <2>1, RemainsAwaited
  <1>4. (\A w \in Workspaces : Coherent(row[w]))' /\ (\A h \in Requests : Asked(req[h]))'
    BY <1>1
  <1>5. (\A w \in Workspaces : Owned(w))'
    BY <1>1 DEF Owned, RecoveryAhead
  <1>. QED BY <1>2, <1>3, <1>4, <1>5

\* A command on one Workspace.
LEMMA WorkKeeps ==
  ASSUME IndInv, NEW cmd, NEW b, NEW reply, NEW state, NEW image, Work(cmd, b, reply, state, image),
         Head(queue).ws \in Workspaces => b \in Box, Well \/ \E kind : Upset(kind)
  PROVE  IndInv'
  <1>1. /\ queue # <<>> /\ Answer(reply, state, image) /\ UNCHANGED <<row, status, rec>>
        /\ box' = [box EXCEPT ![Head(queue).ws] = b]
    BY DEF Work, Serve
  <1>2. box \in [Workspaces -> Box] /\ rec \in [Recoveries -> Recovery]
    BY DEF IndInv, TypeOK
  <1>3. box' \in [Workspaces -> Box]
    BY <1>1, <1>2
  <1>4. upsets' \in 0..MaxUpsets
    BY UpsetsAreCounted DEF Well, IndInv, TypeOK
  <1>. QED BY <1>1, <1>2, <1>3, <1>4, ExecutionKeeps

\* What the command in hand is about.
LEMMA HeadIsTyped ==
  ASSUME IndInv, queue # <<>>
  PROVE  /\ Head(queue) \in Item
         /\ Head(queue).image \in Images \cup {NoImage} /\ Head(queue).from \in Images \cup {NoImage}
         /\ Head(queue).ws \in Workspaces => Target \in Box
  <1>1. queue \in Seq(Item) /\ box \in [Workspaces -> Box]
    BY DEF IndInv, TypeOK
  <1>2. Head(queue) \in Item
    BY <1>1
  <1>. QED BY <1>1, <1>2 DEF Item, Target

LEMMA StartStopKeeps ==
  ASSUME IndInv, WorkerEgress \/ WorkerEnsure \/ WorkerStart \/ WorkerStop
  PROVE  IndInv'
  <1>. DEFINE image == Head(queue).image
  <1>1. queue # <<>> /\ image \in Images \cup {NoImage} /\ (Head(queue).ws \in Workspaces => Target \in Box)
    BY HeadIsTyped DEF WorkerEgress, WorkerEnsure, WorkerStart, WorkerStop, Serve
  <1>2. ASSUME Head(queue).ws \in Workspaces
        PROVE  /\ Ensured(Target, image) \in Box
               /\ \A c \in {"none", "stopped", "running"} : [Target EXCEPT !.ctr = c] \in Box
               /\ InterruptedEnsure(Target, image) \subseteq Box /\ InterruptedStart(Target) \subseteq Box
               /\ InterruptedStop(Target) \subseteq Box
    BY <1>1, <1>2, BoxesAreTyped, InterruptionsAreTyped
  <1>3. \E cmd, b, reply, state, img :
          /\ Work(cmd, b, reply, state, img)
          /\ Head(queue).ws \in Workspaces => b \in Box
          /\ Well \/ \E kind : Upset(kind)
    <2>1. CASE WorkerEgress
      BY <1>1, <2>1 DEF WorkerEgress
    <2>2. CASE WorkerEnsure
      BY <1>1, <1>2, <2>2 DEF WorkerEnsure
    <2>3. CASE WorkerStart
      BY <1>1, <1>2, <2>3 DEF WorkerStart
    <2>4. CASE WorkerStop
      BY <1>1, <1>2, <2>4 DEF WorkerStop
    <2>. QED BY <2>1, <2>2, <2>3, <2>4
  <1>. QED BY <1>3, WorkKeeps

LEMMA DeleteSwitchKeeps ==
  ASSUME IndInv, WorkerDelete \/ WorkerSetRuntime
  PROVE  IndInv'
  <1>. DEFINE from == Head(queue).from
              to == Head(queue).image
  <1>1. /\ queue # <<>> /\ to \in Images \cup {NoImage} /\ from \in Images \cup {NoImage}
        /\ Head(queue).ws \in Workspaces => Target \in Box
    BY HeadIsTyped DEF WorkerDelete, WorkerSetRuntime, Serve
  <1>2. ASSUME Head(queue).ws \in Workspaces
        PROVE  /\ NoBox \in Box /\ Emptied(Target, from, to) \in Box
               /\ Ensured(Emptied(Target, from, to), to) \in Box
               /\ InterruptedDelete(Target) \subseteq Box /\ InterruptedSwitch(Target, from, to) \subseteq Box
    BY <1>1, <1>2, BoxesAreTyped, InterruptionsAreTyped
  <1>3. \E cmd, b, reply, state, img :
          /\ Work(cmd, b, reply, state, img)
          /\ Head(queue).ws \in Workspaces => b \in Box
          /\ Well \/ \E kind : Upset(kind)
    <2>1. CASE WorkerDelete
      BY <1>1, <1>2, <2>1 DEF WorkerDelete
    <2>2. CASE WorkerSetRuntime
      BY <1>1, <1>2, <2>2 DEF WorkerSetRuntime
    <2>. QED BY <2>1, <2>2
  <1>. QED BY <1>3, WorkKeeps

\* The Worker answers the policy that a recovery waits for.
LEMMA GreetedKeeps ==
  ASSUME IndInv, WorkerGreeted
  PROVE  IndInv'
  <1>. DEFINE c == Head(queue).by
  <1>1. /\ queue # <<>> /\ Answer("ok", "none", NoImage) /\ UNCHANGED <<row, status, box, upsets>>
        /\ rec' = IF link = "up" /\ c \in Recoveries THEN [rec EXCEPT ![c].pc = "begin"] ELSE rec
    BY DEF WorkerGreeted, Serve
  <1>2. rec \in [Recoveries -> Recovery] /\ box' \in [Workspaces -> Box] /\ upsets' \in 0..MaxUpsets
    BY <1>1 DEF IndInv, TypeOK
  <1>. HIDE DEF c
  <1>3. CASE rec' = rec
    BY <1>1, <1>2, <1>3, ExecutionKeeps
  <1>4. CASE c \in Recoveries /\ rec' = [rec EXCEPT ![c].pc = "begin"]
    <2>. DEFINE new == [rec[c] EXCEPT !.pc = "begin"]
    <2>1. new \in Recovery /\ new.pc = "begin"
      BY <1>2, <1>4 DEF Recovery
    <2>2. rec' = [rec EXCEPT ![c] = new]
      BY <1>2, <1>4
    <2>. HIDE DEF new
    <2>3. rec' \in [Recoveries -> Recovery] /\ rec'[c] = new /\ \A d \in Recoveries : d # c => rec'[d] = rec[d]
      BY <1>2, <1>4, <2>1, <2>2
    <2>. QED BY <1>1, <1>2, <2>1, <2>3, ExecutionKeeps DEF c
  <1>. QED BY <1>1, <1>3, <1>4

\* The Worker reports what it observes to a recovery that waits for it.
LEMMA ReportsAreTyped ==
  ASSUME NEW b \in Box, NEW image
  PROVE  Inspection(b, image) \in Observations
  BY DEF Inspection, Observed, Observations

LEMMA ReconcileKeeps ==
  ASSUME IndInv, WorkerReconcile
  PROVE  IndInv'
  <1>. DEFINE c == Head(queue).by
              report == IF c = Nobody THEN NoRecovery.report
                        ELSE [w \in Workspaces |-> IF w \in rec[c].left
                                                     THEN Inspection(box[w], rec[c].seen[w].image)
                                                     ELSE "NONE"]
  <1>1. /\ queue # <<>> /\ Head(queue).cmd = "reconcile" /\ Answer("ok", "none", NoImage)
        /\ UNCHANGED <<row, status, box>>
    BY DEF WorkerReconcile, Serve
  <1>2. /\ rec \in [Recoveries -> Recovery] /\ box \in [Workspaces -> Box] /\ box' \in [Workspaces -> Box]
        /\ queue \in Seq(Item)
    BY <1>1 DEF IndInv, TypeOK
  <1>3. Nobody \notin Recoveries
    BY LifecycleAssumption
  <1>4. c \in Recoveries => report \in [Workspaces -> Observations] /\ rec[c].pc = "wait"
    <2>. SUFFICES ASSUME c \in Recoveries PROVE report \in [Workspaces -> Observations] /\ rec[c].pc = "wait"
      OBVIOUS
    <2>1. \A w \in Workspaces : Inspection(box[w], rec[c].seen[w].image) \in Observations
      BY <1>2, ReportsAreTyped
    <2>2. 1 \in DOMAIN queue /\ Head(queue) = queue[1]
      BY <1>1, <1>2
    <2>3. rec[c].pc = "wait"
      BY <1>1, <2>2 DEF IndInv, SendersAwait, Awaited
    <2>. QED BY <1>3, <2>1, <2>3 DEF Observations
  <1>5. \/ rec' = rec /\ Well
        \/ c \in Recoveries /\ rec' = [rec EXCEPT ![c].pc = "apply", ![c].report = report] /\ Well
        \/ /\ c \in Recoveries /\ Upset("fault")
           /\ \E w \in Workspaces :
                rec' = [rec EXCEPT ![c].pc = "apply", ![c].report = [report EXCEPT ![w] = "RETRY"]]
    BY DEF WorkerReconcile
  <1>6. upsets' \in 0..MaxUpsets
    <2>1. Well => upsets' \in 0..MaxUpsets
      BY DEF Well, IndInv, TypeOK
    <2>2. Upset("fault") => upsets' \in 0..MaxUpsets
      BY UpsetsAreCounted DEF IndInv
    <2>. QED BY <1>5, <2>1, <2>2
  <1>. HIDE DEF c, report
  <1>7. ASSUME c \in Recoveries, NEW r \in [Workspaces -> Observations],
               rec' = [rec EXCEPT ![c].pc = "apply", ![c].report = r]
        PROVE  IndInv'
    <2>. DEFINE new == [rec[c] EXCEPT !.pc = "apply", !.report = r]
    <2>1. new \in Recovery
      <3>1. rec[c] \in Recovery
        BY <1>2, <1>7
      <3>. QED BY <1>7, <3>1 DEF Recovery
    <2>2. rec' = [rec EXCEPT ![c] = new]
      BY <1>2, <1>7
    <2>. HIDE DEF new
    <2>3. rec' \in [Recoveries -> Recovery] /\ \A d \in Recoveries : d # c => rec'[d] = rec[d]
      BY <1>2, <1>7, <2>1, <2>2
    <2>4. \A d \in Recoveries : rec[d].pc \in {"greet", "greeted", "begin"} => d # c
      BY <1>4, <1>7
    <2>. QED BY <1>1, <1>2, <1>6, <2>3, <2>4, ExecutionKeeps DEF c
  <1>8. CASE rec' = rec
    BY <1>1, <1>2, <1>6, <1>8, ExecutionKeeps
  <1>9. ASSUME c \in Recoveries, NEW w \in Workspaces
        PROVE  [report EXCEPT ![w] = "RETRY"] \in [Workspaces -> Observations]
    <2>1. "RETRY" \in Observations
      BY DEF Observations
    <2>. QED BY <1>4, <1>9, <2>1
  <1>. QED BY <1>4, <1>5, <1>7, <1>8, <1>9

LEMMA WorkerKeeps ==
  ASSUME IndInv, WorkerStep
  PROVE  IndInv'
  BY StartStopKeeps, DeleteSwitchKeeps, GreetedKeeps, ReconcileKeeps DEF WorkerStep

-----------------------------------------------------------------------------
(* Recovery.                                                                *)

LEMMA NoRecoveryIsTyped == NoRecovery \in Recovery /\ NoRecovery.pc = "idle"
  BY DEF NoRecovery, Recovery, NoRow, Row, States, Observations

\* One recovery goes on, and leaves rows and queue alone: no transition loses the
\* recovery it waits for.
LEMMA RecoveryKeeps ==
  ASSUME IndInv, NEW c \in Recoveries, NEW new \in Recovery, rec' = [rec EXCEPT ![c] = new],
         UNCHANGED <<row, req, box>>, status' \in {"ONLINE", "OFFLINE", "DISABLED"},
         link' \in {"down", "up", "lost", "revoked", "closing"}, upsets' \in 0..MaxUpsets,
         queue' \in Seq(Item), SendersAwait',
         \/ new.pc \in {"greet", "greeted", "begin"}
         \/ rec[c].pc \notin {"greet", "greeted", "begin"} /\ link' = link
  PROVE  IndInv'
  <1>. USE DEF IndInv
  <1>1. rec' \in [Recoveries -> Recovery] /\ rec'[c] = new /\ \A d \in Recoveries : d # c => rec'[d] = rec[d]
    BY DEF TypeOK
  <1>2. TypeOK'
    BY <1>1 DEF TypeOK
  <1>3. RecoveryAhead => RecoveryAhead'
    BY <1>1 DEF RecoveryAhead
  <1>. QED BY <1>2, <1>3 DEF Owned

LEMMA HelloKeeps ==
  ASSUME IndInv, NEW c \in Recoveries, Hello(c)
  PROVE  IndInv'
  <1>1. /\ rec[c].pc = "idle" /\ link' = "up" /\ status' = "ONLINE" /\ UNCHANGED <<row, req, queue, box, upsets>>
        /\ rec \in [Recoveries -> Recovery] /\ queue \in Seq(Item) /\ upsets \in 0..MaxUpsets
    BY DEF Hello, IndInv, TypeOK
  <1>2. PICK new \in Recovery : new.pc = "greet" /\ rec' = [rec EXCEPT ![c] = new]
    <2>1. [rec[c] EXCEPT !.pc = "greet"] \in Recovery /\ [rec[c] EXCEPT !.pc = "greet"].pc = "greet"
      BY <1>1 DEF Recovery
    <2>2. rec' = [rec EXCEPT ![c] = [rec[c] EXCEPT !.pc = "greet"]]
      BY <1>1 DEF Hello
    <2>. QED BY <2>1, <2>2
  <1>3. \A d \in Recoveries : rec'[d] = rec[d] \/ (d = c /\ rec[d].pc = "idle")
    BY <1>1, <1>2
  <1>4. SendersAwait'
    <2>1. \A n \in DOMAIN queue : queue[n].by # c
      BY <1>1 DEF IndInv, SendersAwait, Awaited
    <2>. QED BY <1>1, <1>3, <2>1 DEF IndInv, SendersAwait, Awaited
  <1>. QED BY <1>1, <1>2, <1>4, RecoveryKeeps

\* A recovery sends its policy, or its reconcile, and waits for it; or ends.
LEMMA GreetKeeps ==
  ASSUME IndInv, NEW c \in Recoveries, Greet(c) \/ CallReconcile(c)
  PROVE  IndInv'
  <1>1. /\ UNCHANGED <<row, status, link, req, box, upsets>> /\ rec[c] \in Recovery
        /\ rec \in [Recoveries -> Recovery] /\ queue \in Seq(Item) /\ upsets \in 0..MaxUpsets
        /\ status \in {"ONLINE", "OFFLINE", "DISABLED"}
        /\ link \in {"down", "up", "lost", "revoked", "closing"}
        /\ rec[c].pc \in {"greet", "call"} /\ c \notin Requests /\ c # Nobody
    BY LifecycleAssumption DEF Greet, CallReconcile, IndInv, TypeOK
  <1>2. \A n \in DOMAIN queue : queue[n].by # c
    BY <1>1 DEF IndInv, SendersAwait, Awaited
  <1>3. ASSUME NEW i \in Item, i.by = c, queue' = Append(queue, i), NEW pc \in {"greeted", "wait"},
               rec' = [rec EXCEPT ![c].pc = pc], pc = "wait" <=> i.cmd = "reconcile",
               pc = "wait" => rec[c].pc = "call"
        PROVE  IndInv'
    <2>. DEFINE new == [rec[c] EXCEPT !.pc = pc]
    <2>1. new \in Recovery /\ new.pc = pc
      BY <1>1, <1>3 DEF Recovery
    <2>2. rec' = [rec EXCEPT ![c] = new]
      BY <1>1, <1>3
    <2>. HIDE DEF new
    <2>3. rec'[c] = new /\ \A d \in Recoveries : d # c => rec'[d] = rec[d]
      BY <1>1, <2>1, <2>2
    <2>4. Awaited(i)'
      BY <1>1, <1>3, <2>1, <2>3 DEF Awaited
    <2>5. \A n \in DOMAIN queue :
            /\ queue[n].by \in Requests => req'[queue[n].by] = req[queue[n].by]
            /\ queue[n].by \in Recoveries => rec'[queue[n].by].pc = rec[queue[n].by].pc
      BY <1>1, <1>2, <2>3
    <2>6. SendersAwait' /\ queue' \in Seq(Item)
      BY <1>2, <1>3, <2>4, <2>5, SentAwaited DEF IndInv
    <2>7. \/ new.pc \in {"greet", "greeted", "begin"}
          \/ rec[c].pc \notin {"greet", "greeted", "begin"} /\ link' = link
      BY <1>1, <1>3, <2>1
    <2>. QED BY <1>1, <2>1, <2>2, <2>6, <2>7, RecoveryKeeps
  <1>4. ASSUME NEW new \in Recovery, rec' = [rec EXCEPT ![c] = new], UNCHANGED queue,
               new.pc = "begin" \/ rec[c].pc = "call"
        PROVE  IndInv'
    <2>1. rec'[c] = new /\ \A d \in Recoveries : d # c => rec'[d] = rec[d]
      BY <1>1, <1>4
    <2>2. SendersAwait'
      BY <1>1, <1>2, <1>4, <2>1 DEF IndInv, SendersAwait, Awaited
    <2>. QED BY <1>1, <1>4, <2>2, RecoveryKeeps
  <1>5. CASE Greet(c)
    <2>1. ASSUME queue' = Append(queue, [cmd |-> "egress", by |-> c, ws |-> NoWorkspace,
                                         image |-> NoImage, from |-> NoImage]),
                 rec' = [rec EXCEPT ![c].pc = "greeted"]
          PROVE  IndInv'
      <3>1. PICK i \in Item : i.by = c /\ i.cmd = "egress" /\ queue' = Append(queue, i)
        BY <1>1, <2>1 DEF Item, Commands
      <3>. QED BY <1>3, <2>1, <3>1
    <2>2. ASSUME rec' = [rec EXCEPT ![c].pc = "begin"], UNCHANGED queue
          PROVE  IndInv'
      <3>1. [rec[c] EXCEPT !.pc = "begin"] \in Recovery /\ [rec[c] EXCEPT !.pc = "begin"].pc = "begin"
        BY <1>1 DEF Recovery
      <3>2. rec' = [rec EXCEPT ![c] = [rec[c] EXCEPT !.pc = "begin"]]
        BY <1>1, <2>2
      <3>. QED BY <1>4, <2>2, <3>1, <3>2
    <2>. QED BY <1>5, <2>1, <2>2 DEF Greet
  <1>6. CASE CallReconcile(c)
    <2>1. ASSUME queue' = Append(queue, [cmd |-> "reconcile", by |-> c, ws |-> NoWorkspace,
                                         image |-> NoImage, from |-> NoImage]),
                 rec' = [rec EXCEPT ![c].pc = "wait"]
          PROVE  IndInv'
      <3>1. PICK i \in Item : i.by = c /\ i.cmd = "reconcile" /\ queue' = Append(queue, i)
        BY <1>1, <2>1 DEF Item, Commands
      <3>. QED BY <1>3, <1>6, <2>1, <3>1 DEF CallReconcile
    <2>2. ASSUME rec' = [rec EXCEPT ![c] = NoRecovery], UNCHANGED queue
          PROVE  IndInv'
      BY <1>4, <1>6, <2>2, NoRecoveryIsTyped DEF CallReconcile
    <2>. QED BY <1>6, <2>1, <2>2 DEF CallReconcile
  <1>. QED BY <1>5, <1>6

\* The recovery that takes every row offline leaves none in a transition.
LEMMA BeginRecoveryKeeps ==
  ASSUME IndInv, NEW c \in Recoveries, BeginRecovery(c)
  PROVE  IndInv'
  <1>. USE DEF IndInv
  <1>1. /\ rec[c].pc = "begin" /\ UNCHANGED <<status, link, req, queue, box, upsets>>
        /\ row' = [w \in Workspaces |-> IF w \in Assigned THEN Offline(w) ELSE row[w]]
        /\ rec' = [rec EXCEPT ![c].pc = "call", ![c].seen = row', ![c].left = Assigned]
    BY DEF BeginRecovery
  <1>2. rec \in [Recoveries -> Recovery] /\ row \in [Workspaces -> Row] /\ Assigned \subseteq Workspaces
    BY DEF TypeOK, Assigned
  <1>3. \A w \in Workspaces : row'[w] \in Row /\ Coherent(row'[w]) /\ row'[w].state \notin Transitional
    <2>. SUFFICES ASSUME NEW w \in Workspaces
                  PROVE  row'[w] \in Row /\ Coherent(row'[w]) /\ row'[w].state \notin Transitional
      OBVIOUS
    <2>1. CASE w \in Assigned
      BY <1>1, <2>1, OfflineSettles DEF Transitional
    <2>2. CASE w \notin Assigned
      BY <1>1, <1>2, <2>2 DEF Assigned, Unassigned, Transitional
    <2>. QED BY <2>1, <2>2
  <1>4. row' \in [Workspaces -> Row]
    BY <1>1, <1>3
  <1>. DEFINE new == [rec[c] EXCEPT !.pc = "call", !.seen = row', !.left = Assigned]
  <1>5. new \in Recovery
    BY <1>2, <1>4 DEF Recovery
  <1>6. rec' = [rec EXCEPT ![c] = new]
    BY <1>1, <1>2
  <1>. HIDE DEF new
  <1>7. rec' \in [Recoveries -> Recovery] /\ \A d \in Recoveries : d # c => rec'[d] = rec[d]
    BY <1>2, <1>5, <1>6
  <1>8. TypeOK' /\ (\A h \in Requests : Asked(req[h]))'
    BY <1>1, <1>4, <1>7 DEF TypeOK
  <1>9. SendersAwait'
    <2>1. \A n \in DOMAIN queue : queue[n].by # c
      BY <1>1 DEF SendersAwait, Awaited
    <2>. QED BY <1>1, <1>7, <2>1 DEF SendersAwait, Awaited
  <1>. QED BY <1>3, <1>8, <1>9 DEF Owned

\* A recovery stops waiting.
LEMMA RecoveryTimeoutKeeps ==
  ASSUME IndInv, NEW c \in Recoveries, RecoveryTimeout(c)
  PROVE  IndInv'
  <1>. USE DEF IndInv
  <1>1. /\ rec[c].pc \in {"greeted", "wait"} /\ TimedOut({c}) /\ UNCHANGED <<row, status, link, req, box>>
        /\ rec \in [Recoveries -> Recovery] /\ rec[c] \in Recovery /\ queue \in Seq(Item)
        /\ c \notin Requests /\ c # Nobody
    BY LifecycleAssumption DEF RecoveryTimeout, TypeOK
  <1>2. PICK new \in Recovery :
          /\ rec' = [rec EXCEPT ![c] = new]
          /\ new.pc = "begin" \/ rec[c].pc \notin {"greet", "greeted", "begin"}
    <2>. DEFINE begun == [rec[c] EXCEPT !.pc = "begin"]
    <2>1. begun \in Recovery /\ begun.pc = "begin"
      BY <1>1 DEF Recovery
    <2>2. CASE rec[c].pc = "greeted"
      <3>1. rec' = [rec EXCEPT ![c] = begun]
        BY <2>2 DEF RecoveryTimeout
      <3>. HIDE DEF begun
      <3>. QED BY <2>1, <3>1
    <2>3. CASE rec[c].pc = "wait"
      <3>1. rec' = [rec EXCEPT ![c] = NoRecovery]
        BY <2>3 DEF RecoveryTimeout
      <3>. QED BY <2>3, <3>1, NoRecoveryIsTyped
    <2>. QED BY <1>1, <2>2, <2>3
  <1>3. \A d \in Recoveries : d # c => rec'[d] = rec[d]
    BY <1>1, <1>2
  <1>4. Remains(0) /\ (\A n \in DOMAIN queue' : queue'[n].by # c) /\ upsets' \in 0..MaxUpsets
    <2>1. CASE (\A n \in DOMAIN queue : queue[n].by \notin {c}) /\ UNCHANGED <<queue, upsets>>
      BY <1>1, <2>1, WhatRemains DEF TypeOK
    <2>2. CASE Upset("timeout") /\ queue' = Abandon(queue, {c})
      <3>1. Remains(0)
        BY <1>1, <2>2, WhatRemains
      <3>2. DOMAIN queue' = DOMAIN queue
        BY <1>1, <2>2, AbandonedQueue
      <3>3. ASSUME NEW n \in DOMAIN queue PROVE queue'[n].by # c
        <4>1. /\ \/ Abandon(queue, {c})[n] = queue[n]
                 \/ Abandon(queue, {c})[n] = [queue[n] EXCEPT !.by = Nobody]
              /\ queue[n].by \in {c} => Abandon(queue, {c})[n].by = Nobody
          BY <1>1, AbandonedQueue
        <4>2. queue[n] \in Item
          BY <1>1
        <4>. QED BY <1>1, <2>2, <4>1, <4>2 DEF Item
      <3>. QED BY <2>2, <3>1, <3>2, <3>3, UpsetsAreCounted
    <2>. QED BY <1>1, <2>1, <2>2 DEF TimedOut
  <1>5. SendersAwait'
    BY <1>1, <1>3, <1>4, RemainsAwaited
  <1>. QED BY <1>1, <1>2, <1>4, <1>5, RecoveryKeeps DEF Remains, TypeOK

\* What a recovery makes of a row is what its observation and the intent agree on.
LEMMA ApplyKeeps ==
  ASSUME IndInv, NEW c \in Recoveries, NEW w \in Workspaces, ApplyOne(c, w)
  PROVE  IndInv'
  <1>. USE DEF IndInv
  <1>. DEFINE seen == rec[c].seen[w]
              report == rec[c].report[w]
              state == Recovered(seen, report)
              settled == state # "ERROR"
              r == [row[w] EXCEPT
                      !.state = state,
                      !.desired = IF @ = "UNKNOWN" /\ settled THEN state ELSE @,
                      !.changed = @ \/ (settled /\ row[w].prev # NoImage)]
  <1>1. /\ rec \in [Recoveries -> Recovery] /\ rec[c] \in Recovery /\ row \in [Workspaces -> Row]
        /\ row[w] \in Row /\ rec[c].pc = "apply" /\ UNCHANGED <<status, link, req, queue, box, upsets>>
        /\ rec' = [rec EXCEPT ![c].left = @ \ {w}]
    BY DEF TypeOK, ApplyOne
  <1>2. \/ row' = row
        \/ StillAsSeen(w, seen) /\ row' = [row EXCEPT ![w] = NoRow]
        \/ StillAsSeen(w, seen) /\ row' = [row EXCEPT ![w] = r]
    BY DEF ApplyOne
  <1>3. state \in {"RUNNING", "STOPPED", "ERROR"} /\ (settled => seen.desired \in {state, "UNKNOWN"})
    BY DEF Recovered
  <1>. HIDE DEF state
  <1>4. StillAsSeen(w, seen) => r \in Row /\ Coherent(r) /\ r.state \notin Transitional
    <2>1. r \in Row
      BY <1>1, <1>3 DEF Row, States
    <2>2. r.state = state /\ r.desired = (IF row[w].desired = "UNKNOWN" /\ settled THEN state ELSE row[w].desired)
      BY <1>1 DEF Row
    <2>. HIDE DEF r
    <2>. QED BY <1>3, <2>1, <2>2 DEF StillAsSeen, Coherent, Transitional
  <1>5. NoRow \in Row /\ Coherent(NoRow) /\ NoRow.state \notin Transitional
    BY DEF NoRow, Row, States, Coherent, Transitional
  <1>. HIDE DEF r, seen
  <1>6. row' \in [Workspaces -> Row] /\ \A v \in Workspaces : Settled(row[v], row'[v])
    <2>1. \A v \in Workspaces : Settled(row[v], row[v])
      BY <1>1 DEF Settled
    <2>2. ASSUME NEW new \in Row, Coherent(new), new.state \notin Transitional, row' = [row EXCEPT ![w] = new]
          PROVE  row' \in [Workspaces -> Row] /\ \A v \in Workspaces : Settled(row[v], row'[v])
      BY <1>1, <2>1, <2>2 DEF Settled
    <2>. QED BY <1>1, <1>2, <1>4, <1>5, <2>1, <2>2
  <1>7. rec' \in [Recoveries -> Recovery] /\ \A d \in Recoveries : rec'[d].pc = rec[d].pc
    <2>. DEFINE new == [rec[c] EXCEPT !.left = @ \ {w}]
    <2>1. new \in Recovery /\ new.pc = rec[c].pc
      BY <1>1 DEF Recovery
    <2>2. rec' = [rec EXCEPT ![c] = new]
      BY <1>1
    <2>. HIDE DEF new
    <2>. QED BY <1>1, <2>1, <2>2
  <1>8. TypeOK' /\ (\A h \in Requests : Asked(req[h]))'
    BY <1>1, <1>6, <1>7 DEF TypeOK
  <1>9. SendersAwait'
    BY <1>1, <1>7 DEF SendersAwait, Awaited
  <1>10. (\A v \in Workspaces : Coherent(row[v]))'
    BY <1>6 DEF Settled
  <1>11. (\A v \in Workspaces : Owned(v))'
    BY <1>1, <1>6, <1>7 DEF Owned, Settled, RecoveryAhead
  <1>. QED BY <1>8, <1>9, <1>10, <1>11

LEMMA EndRecoveryKeeps ==
  ASSUME IndInv, NEW c \in Recoveries, EndRecovery(c)
  PROVE  IndInv'
  <1>1. /\ rec[c].pc = "apply" /\ rec' = [rec EXCEPT ![c] = NoRecovery]
        /\ UNCHANGED <<row, status, link, req, queue, box, upsets>> /\ rec \in [Recoveries -> Recovery]
    BY DEF EndRecovery, IndInv, TypeOK
  <1>2. SendersAwait'
    <2>1. \A n \in DOMAIN queue : queue[n].by # c
      BY <1>1 DEF IndInv, SendersAwait, Awaited
    <2>2. \A d \in Recoveries : d # c => rec'[d] = rec[d]
      BY <1>1
    <2>. QED BY <1>1, <2>1, <2>2 DEF IndInv, SendersAwait, Awaited
  <1>. QED BY <1>1, <1>2, NoRecoveryIsTyped, RecoveryKeeps DEF IndInv, TypeOK

LEMMA RecoversKeep ==
  ASSUME IndInv, NEW c \in Recoveries, Recover(c)
  PROVE  IndInv'
  BY GreetKeeps, BeginRecoveryKeeps, RecoveryTimeoutKeeps, ApplyKeeps, EndRecoveryKeeps DEF Recover

-----------------------------------------------------------------------------
(* The channel, and what goes wrong.                                        *)

\* The close event rejects every pending command, and no sender waits any more.
LEMMA NoticeCloseKeeps ==
  ASSUME IndInv, NoticeClose
  PROVE  IndInv'
  <1>. USE DEF IndInv
  <1>1. /\ req \in [Requests -> Task] /\ rec \in [Recoveries -> Recovery] /\ queue \in Seq(Item)
        /\ \A h \in Requests : Asked(req[h])
    BY DEF TypeOK
  <1>2. /\ link' = "down" /\ UNCHANGED <<row, status, box, upsets>>
        /\ queue' = Abandon(queue, Requests \cup Recoveries)
    BY DEF NoticeClose
  <1>4. req' \in [Requests -> Task] /\ \A h \in Requests : Asked(req'[h])
    <2>1. ASSUME NEW h \in Requests PROVE req'[h] \in Task /\ Asked(req'[h])
      <3>1. CASE req[h].pc # "wait"
        BY <1>1, <3>1 DEF NoticeClose
      <3>2. CASE req[h].pc = "wait"
        <4>1. PICK off \in BOOLEAN : req'[h] = [req[h] EXCEPT !.pc = "fail", !.offline = off]
          BY <3>2 DEF NoticeClose
        <4>. DEFINE new == [req[h] EXCEPT !.pc = "fail", !.offline = off]
        <4>2. req[h] \in Task
          BY <1>1
        <4>3. new \in Task /\ Asked(new)
          BY <1>1, <3>2, <4>2 DEF Task, Asked
        <4>. QED BY <4>1, <4>3
      <3>. QED BY <3>1, <3>2
    <2>2. req' = [h \in Requests |-> req'[h]]
      BY DEF NoticeClose
    <2>. QED BY <2>1, <2>2
  <1>5. rec' \in [Recoveries -> Recovery]
    <2>1. ASSUME NEW c \in Recoveries PROVE rec'[c] \in Recovery
      <3>1. [rec[c] EXCEPT !.pc = "begin"] \in Recovery
        BY <1>1 DEF Recovery
      <3>2. rec'[c] \in {[rec[c] EXCEPT !.pc = "begin"], NoRecovery, rec[c]}
        BY DEF NoticeClose
      <3>. QED BY <1>1, <3>1, <3>2, NoRecoveryIsTyped
    <2>2. rec' = [c \in Recoveries |-> rec'[c]]
      BY DEF NoticeClose
    <2>. QED BY <2>1, <2>2
  <1>6. queue' \in Seq(Item) /\ \A n \in DOMAIN queue' : queue'[n].by = Nobody
    BY <1>1, <1>2, EverybodyGone
  <1>7. SendersAwait'
    BY <1>6, LifecycleAssumption DEF SendersAwait, Awaited
  <1>8. TypeOK'
    BY <1>2, <1>4, <1>5, <1>6 DEF TypeOK
  <1>. QED BY <1>2, <1>4, <1>7, <1>8 DEF Owned, RecoveryAhead

\* Commands get lost, the daemon dies, or Workspaces stop.
LEMMA LossesKeep ==
  ASSUME IndInv, Drop \/ WorkerCrash \/ FailClosed
  PROVE  IndInv'
  <1>. USE DEF IndInv
  <1>1. /\ UNCHANGED <<row, status, req, rec>> /\ queue \in Seq(Item) /\ box \in [Workspaces -> Box]
        /\ link' \in {"down", "up", "lost", "revoked", "closing"} /\ (link = "down" => link' = "down")
    BY DEF Drop, WorkerCrash, FailClosed, TypeOK
  <1>2. upsets' \in 0..MaxUpsets
    BY UpsetsAreCounted DEF Drop, WorkerCrash, FailClosed
  <1>3. Remains(0)
    BY <1>1, WhatRemains DEF Drop, WorkerCrash, FailClosed
  <1>4. SendersAwait' /\ queue' \in Seq(Item)
    <2>1. /\ \A h \in Requests : req'[h] = req[h]
          /\ \A c \in Recoveries : rec'[c].pc = rec[c].pc
      BY <1>1
    <2>. QED BY <1>3, <2>1, RemainsAwaited DEF Remains
  <1>5. box' \in [Workspaces -> Box]
    <2>1. CASE Drop
      BY <1>1, <2>1 DEF Drop
    <2>2. CASE FailClosed
      <3>1. \A b \in Box : [b EXCEPT !.ctr = "stopped"] \in Box
        BY DEF Box
      <3>2. ASSUME NEW w \in Workspaces
            PROVE  (IF box[w].ctr = "running" THEN [box[w] EXCEPT !.ctr = "stopped"] ELSE box[w]) \in Box
        BY <1>1, <3>1
      <3>. QED BY <2>2, <3>2 DEF FailClosed
    <2>3. CASE WorkerCrash
      <3>1. CASE box' = box
        BY <1>1, <3>1
      <3>2. CASE box' # box
        <4>. DEFINE i == Head(queue)
                    b == box[i.ws]
        <4>1. PICK c \in CASE i.cmd = "ensure" -> InterruptedEnsure(b, i.image)
                           [] i.cmd = "start" -> InterruptedStart(b)
                           [] i.cmd = "stop" -> InterruptedStop(b)
                           [] i.cmd = "delete" -> CrashedDelete(b)
                           [] i.cmd = "runtime.set" -> InterruptedSwitch(b, i.from, i.image)
                           [] OTHER -> {b} :
                queue # <<>> /\ i.ws # NoWorkspace /\ box' = [box EXCEPT ![i.ws] = c]
          BY <2>3, <3>2 DEF WorkerCrash
        <4>2. i \in Item
          BY <1>1, <4>1
        <4>3. i.ws \in Workspaces /\ i.image \in Images \cup {NoImage} /\ i.from \in Images \cup {NoImage}
          BY <4>1, <4>2 DEF Item
        <4>4. b \in Box
          BY <1>1, <4>3
        <4>. HIDE DEF i, b
        <4>5. c \in Box
          <5>1. /\ InterruptedEnsure(b, i.image) \subseteq Box /\ InterruptedStart(b) \subseteq Box
                /\ InterruptedStop(b) \subseteq Box /\ CrashedDelete(b) \subseteq Box
                /\ InterruptedSwitch(b, i.from, i.image) \subseteq Box
            BY <4>3, <4>4, InterruptionsAreTyped
          <5>. QED BY <4>1, <4>4, <5>1
        <4>. QED BY <1>1, <4>1, <4>3, <4>5
      <3>. QED BY <3>1, <3>2
    <2>. QED BY <2>1, <2>2, <2>3
  <1>6. \A h \in Requests, w \in Workspaces :
          req[h].ws = w /\ Owns(req[h], row[w]) => req'[h].ws = w /\ Owns(req'[h], row[w])
    BY <1>1
  <1>7. TypeOK' /\ (\A w \in Workspaces : Coherent(row[w]))' /\ (\A h \in Requests : Asked(req[h]))'
    BY <1>1, <1>2, <1>4, <1>5 DEF TypeOK
  <1>8. (\A w \in Workspaces : Owned(w))'
    BY <1>1 DEF Owned, RecoveryAhead
  <1>. QED BY <1>4, <1>7, <1>8

\* A sweep, a revocation and a rotation take every transition but a deletion away.
LEMMA SweepsKeep ==
  ASSUME IndInv, Sweep \/ Revoke
  PROVE  IndInv'
  <1>1. /\ UNCHANGED <<req, rec, queue, box>> /\ row' = Swept
        /\ status' \in {"ONLINE", "OFFLINE", "DISABLED"}
        /\ link' \in {"down", "up", "lost", "revoked", "closing"} /\ (link = "down" => link' = "down")
    BY DEF Sweep, Revoke, IndInv, TypeOK
  <1>2. upsets' \in 0..MaxUpsets
    BY UpsetsAreCounted DEF Sweep, Revoke, IndInv, TypeOK
  <1>3. \A w \in Workspaces : Settled(row[w], row'[w])
    BY <1>1, OfflineSettles DEF IndInv
  <1>4. row' \in [Workspaces -> Row]
    <2>1. row' = [w \in Workspaces |-> row'[w]]
      BY <1>1 DEF Swept
    <2>2. \A w \in Workspaces : row'[w] \in Row
      BY <1>3 DEF Settled
    <2>. QED BY <2>1, <2>2
  <1>. QED BY <1>1, <1>2, <1>3, <1>4, RowsSettle

LEMMA StatusKeeps ==
  ASSUME IndInv, CloseRevoked \/ Heartbeat \/ Enable
  PROVE  IndInv'
  <1>1. /\ UNCHANGED <<row, req, rec, queue, box, upsets>>
        /\ status' \in {"ONLINE", "OFFLINE", "DISABLED"}
        /\ link' \in {"down", "up", "lost", "revoked", "closing"} /\ (link = "down" => link' = "down")
        /\ row \in [Workspaces -> Row] /\ upsets \in 0..MaxUpsets
    BY DEF CloseRevoked, Heartbeat, Enable, IndInv, TypeOK
  <1>2. \A w \in Workspaces : Settled(row[w], row'[w])
    BY <1>1 DEF Settled
  <1>. QED BY <1>1, <1>2, RowsSettle

\* The Control Plane restarts: no request is left, and every row waits for the next
\* hello.
LEMMA RestartKeeps ==
  ASSUME IndInv, ControlPlaneRestart
  PROVE  IndInv'
  <1>. USE DEF IndInv
  <1>1. /\ req' = [h \in Requests |-> NoTask] /\ rec' = [c \in Recoveries |-> NoRecovery]
        /\ link' = "down" /\ box' = box /\ status' \in {"ONLINE", "OFFLINE", "DISABLED"}
        /\ queue \in Seq(Item) /\ row \in [Workspaces -> Row]
    BY DEF ControlPlaneRestart, TypeOK
  <1>2. upsets' \in 0..MaxUpsets
    BY UpsetsAreCounted DEF ControlPlaneRestart
  <1>3. queue' \in Seq(Item) /\ \A n \in DOMAIN queue' : queue'[n].by = Nobody
    <2>1. PICK n \in 0..Len(queue) : queue' = Abandon(SubSeq(queue, 1, n), Requests \cup Recoveries)
      BY DEF ControlPlaneRestart
    <2>2. SubSeq(queue, 1, n) \in Seq(Item)
      BY <1>1
    <2>. QED BY <2>1, <2>2, EverybodyGone
  <1>4. NoTask \in Task /\ Asked(NoTask)
    BY DEF NoTask, Task, NoRow, Row, States, Asked
  <1>5. ASSUME NEW w \in Workspaces PROVE row'[w] \in Row /\ Coherent(row'[w])
    <2>1. row'[w] \in {Offline(w), row[w]}
      BY <1>1 DEF ControlPlaneRestart
    <2>. QED BY <1>1, <2>1, OfflineSettles
  <1>6. row' \in [Workspaces -> Row]
    <2>1. row' = row \/ row' = [w \in Workspaces |-> row'[w]]
      BY DEF ControlPlaneRestart
    <2>. QED BY <1>1, <1>5, <2>1
  <1>7. TypeOK'
    BY <1>1, <1>2, <1>3, <1>4, <1>6, NoRecoveryIsTyped DEF TypeOK
  <1>8. SendersAwait'
    BY <1>3, LifecycleAssumption DEF SendersAwait, Awaited
  <1>. QED BY <1>1, <1>4, <1>5, <1>7, <1>8 DEF Owned, RecoveryAhead

-----------------------------------------------------------------------------
(* The theorems.                                                            *)

LEMMA IndInit == Init => IndInv
  <1>. SUFFICES ASSUME Init PROVE IndInv
    OBVIOUS
  <1>1. /\ req = [h \in Requests |-> NoTask] /\ rec = [c \in Recoveries |-> NoRecovery] /\ queue = <<>>
        /\ upsets \in 0..MaxUpsets /\ link \in {"down", "up"} /\ status \in {"ONLINE", "OFFLINE"}
    BY LifecycleAssumption DEF Init
  <1>2. PICK begun \in [Workspaces -> Beginnings(link = "up")] :
          /\ row = [w \in Workspaces |-> begun[w].row]
          /\ box = [w \in Workspaces |-> begun[w].box]
    BY DEF Init
  <1>3. ASSUME NEW b \in Beginnings(link = "up")
        PROVE  b.row \in Row /\ b.box \in Box /\ Coherent(b.row) /\ b.row.state \notin Transitional
    <2>1. PICK i \in Images :
            \/ b = [row |-> FreshRow("CREATED", "STOPPED", i), box |-> NoBox]
            \/ b = [row |-> FreshRow("STOPPED", "STOPPED", i), box |-> BoxOf("stopped", i)]
            \/ b = [row |-> FreshRow("RUNNING", "RUNNING", i), box |-> BoxOf("running", i)]
            \/ \E ctr \in {"stopped", "running"} :
                 b = [row |-> FreshRow("WORKER_OFFLINE", "UNKNOWN", i), box |-> BoxOf(ctr, i)]
      <3>1. PICK i \in Images :
              b \in {[row |-> FreshRow("CREATED", "STOPPED", i), box |-> NoBox]} \cup
                    IF link = "up"
                      THEN {[row |-> FreshRow("STOPPED", "STOPPED", i), box |-> BoxOf("stopped", i)],
                            [row |-> FreshRow("RUNNING", "RUNNING", i), box |-> BoxOf("running", i)]}
                      ELSE {[row |-> FreshRow("WORKER_OFFLINE", "UNKNOWN", i), box |-> BoxOf(ctr, i)] :
                              ctr \in {"stopped", "running"}}
        BY DEF Beginnings
      <3>. QED BY <3>1
    <2>2. ASSUME NEW s \in {"CREATED", "STOPPED", "RUNNING", "WORKER_OFFLINE"},
                 NEW d \in {"STOPPED", "RUNNING", "UNKNOWN"},
                 s = "STOPPED" => d = "STOPPED", s = "RUNNING" => d = "RUNNING"
          PROVE  /\ FreshRow(s, d, i) \in Row /\ Coherent(FreshRow(s, d, i))
                 /\ FreshRow(s, d, i).state \notin Transitional
      BY <2>2 DEF FreshRow, Row, States, Coherent, Transitional
    <2>3. NoBox \in Box /\ \A ctr \in {"stopped", "running"} : BoxOf(ctr, i) \in Box
      BY DEF NoBox, Box, BoxOf
    <2>. QED BY <2>1, <2>2, <2>3
  <1>4. NoTask \in Task /\ Asked(NoTask)
    BY DEF NoTask, Task, NoRow, Row, States, Asked
  <1>5. TypeOK
    BY <1>1, <1>2, <1>3, <1>4, NoRecoveryIsTyped DEF TypeOK
  <1>6. SendersAwait
    BY <1>1 DEF SendersAwait
  <1>. QED BY <1>1, <1>2, <1>3, <1>4, <1>5, <1>6 DEF IndInv, Owned

LEMMA IndNext == IndInv /\ [Next]_vars => IndInv'
  <1>. SUFFICES ASSUME IndInv, [Next]_vars PROVE IndInv'
    OBVIOUS
  <1>1. ASSUME NEW h \in Requests, Progress(h) PROVE IndInv'
    BY <1>1, BeginsKeep, CallKeeps, TimeoutKeeps, SettlesKeep DEF Progress
  <1>2. ASSUME NEW h \in Requests, NEW w \in Workspaces,
               \/ AskStart(h, w) \/ AskStop(h, w) \/ AskDelete(h, w)
               \/ \E target \in Images : AskChange(h, w, target)
        PROVE  IndInv'
    BY <1>2, AsksKeep
  <1>3. ASSUME NEW w \in Workspaces, DeleteUnassigned(w) PROVE IndInv'
    BY <1>3, DeleteUnassignedKeeps
  <1>4. ASSUME NEW c \in Recoveries, Hello(c) \/ Recover(c) PROVE IndInv'
    BY <1>4, HelloKeeps, RecoversKeep
  <1>5. CASE WorkerStep
    BY <1>5, WorkerKeeps
  <1>6. CASE NoticeClose
    BY <1>6, NoticeCloseKeeps
  <1>7. CASE CloseRevoked \/ Heartbeat \/ Enable
    BY <1>7, StatusKeeps
  <1>8. CASE Drop \/ WorkerCrash \/ FailClosed
    BY <1>8, LossesKeep
  <1>9. CASE Sweep \/ Revoke
    BY <1>9, SweepsKeep
  <1>10. CASE ControlPlaneRestart
    BY <1>10, RestartKeeps
  <1>11. CASE UNCHANGED vars
    BY <1>11 DEF vars, IndInv, TypeOK, SendersAwait, Awaited, Owned, RecoveryAhead
  <1>. QED BY <1>1, <1>2, <1>3, <1>4, <1>5, <1>6, <1>7, <1>8, <1>9, <1>10, <1>11 DEF Next

\* The inductive invariant holds in every state.
THEOREM LifecycleInvariant == Spec => []IndInv
  <1>. QED BY IndInit, IndNext, PTL DEF Spec

\* Every state is one of the types: of the rows, the requests, the recoveries, the
\* Worker's queue and its boxes.
THEOREM TypeCorrect == Spec => []TypeOK
  <1>. QED BY LifecycleInvariant, InvariantSaysSo, PTL

\* However requests, recoveries, sweeps and restarts interleave, a row's intent is
\* that of the operation its state shows.
THEOREM IntentAlwaysMatches == Spec => []IntentMatchesState
  <1>. QED BY LifecycleInvariant, InvariantSaysSo, PTL

\* A row in a transitional state has a request in progress that will end it, or a
\* recovery is coming that resets it.
THEOREM TransitionsAlwaysOwned == Spec => []TransitionsOwned
  <1>. QED BY LifecycleInvariant, InvariantSaysSo, PTL
=============================================================================
