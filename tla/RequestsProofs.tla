--------------------------- MODULE RequestsProofs ---------------------------
(* Proofs about WorkspaceLifecycle and its scenarios in MCLifecycleRaces:   *)
(* what requests guarantee among themselves, and what a recovery says among *)
(* requests, for any number of them, of Workspaces, images and upsets.      *)
EXTENDS MCLifecycleRaces, LifecycleProofs

-----------------------------------------------------------------------------
(* The inductive invariant.                                                 *)

\* A request that was begun, a Workspace no command is about, a request that is the
\* only one begun for its Workspace.
Active(t) == t.pc \notin {"idle", "begin"}
Quiet(w) == \A n \in DOMAIN queue : queue[n].ws # w
Sole(h) == \A g \in Requests : Active(req[g]) /\ req[g].ws = req[h].ws => g = h

\* What a command that succeeded leaves.
Done(cmd, b) ==
  /\ cmd = "start" => b.ctr = "running"
  /\ cmd \in {"stop", "runtime.set"} => b.ctr # "running"
  /\ cmd = "delete" => b = NoBox

\* While the connection lasts, a request that was begun owns its Workspace's
\* transition alone.
OwnersOwn == \A h \in Requests : Active(req[h]) => Owns(req[h], row[req[h].ws]) /\ Sole(h)

\* A command that is waited for is the last on its Workspace.
LastOnItsWorkspace ==
  \A m, n \in DOMAIN queue : m < n /\ queue[m].by \in Requests => queue[n].ws # queue[m].ws

\* A request that was answered left nothing behind it, and what it asked for is done.
AnswersAreTrue ==
  \A h \in Requests : req[h].pc \in {"finish", "revert"} =>
    Quiet(req[h].ws) /\ (req[h].pc = "finish" => Done(req[h].cmd, box[req[h].ws]))

\* RUNNING and STOPPED are true and no command will change it.
RowsAreTrue ==
  \A w \in Workspaces :
    /\ row[w].state = "RUNNING" => Quiet(w) /\ box[w].ctr = "running"
    /\ row[w].state = "STOPPED" => Quiet(w) /\ (scenario = "unchanged" => box[w].ctr # "running")

Up == link = "up" => OwnersOwn /\ LastOnItsWorkspace /\ AnswersAreTrue /\ RowsAreTrue

\* Connected or not, an answered delete and a deleted or unplaced Workspace have
\* nothing on the Worker, nothing on its way there, and no other request.
DeletesAreDone ==
  \A h \in Requests : req[h].pc = "finish" /\ req[h].cmd = "delete" =>
    /\ row[req[h].ws].state = "DELETING" /\ Sole(h)
    /\ Quiet(req[h].ws) /\ box[req[h].ws] = NoBox
NothingIsLeft ==
  \A w \in Workspaces : row[w].state \in {"GONE", "CREATED"} =>
    /\ \A h \in Requests : Active(req[h]) => req[h].ws # w
    /\ Quiet(w) /\ box[w] = NoBox

Unchanging == scenario = "unchanged" => \A h \in Requests : req[h].cmd # "runtime.set"

AloneInv == Up /\ DeletesAreDone /\ NothingIsLeft /\ Unchanging

RacesInv == IndInv /\ (scenario # "recovery" => AloneInv)

\* What the properties say follows.
LEMMA RacesInvSaysSo == RacesInv => RequestsLeaveNothing /\ RequestsTellTruth
  BY DEF RacesInv, AloneInv, Up, RowsAreTrue, NothingIsLeft, RequestsLeaveNothing, RequestsTellTruth,
         DeletionIsClean, RunningTellsTruth, StoppedTellsTruth

-----------------------------------------------------------------------------
(* Steps that leave the Worker alone.                                       *)

\* One step of requests alone.
AloneStep ==
  /\ IndInv /\ IndInv' /\ AloneInv /\ scenario' = scenario
  /\ scenario = "unchanged" => \A h \in Requests : req'[h].cmd # "runtime.set"

\* No command is on its way that was not before.
Lessened == \A w \in Workspaces : Quiet(w) => Quiet(w)'

LEMMA RemainsLessened ==
  ASSUME NEW k, Remains(k)
  PROVE  Lessened
  BY DEF Remains, Lessened, Quiet

\* The order of what remains is that of before.
LEMMA RemainsLast ==
  ASSUME NEW k, Remains(k), LastOnItsWorkspace, queue \in Seq(Item)
  PROVE  LastOnItsWorkspace'
  <1>. SUFFICES ASSUME NEW m \in DOMAIN queue', NEW n \in DOMAIN queue', m < n, queue'[m].by \in Requests
                PROVE  queue'[n].ws # queue'[m].ws
    BY DEF LastOnItsWorkspace
  <1>1. queue' \in Seq(Item) /\ k \in Nat
    BY DEF Remains
  <1>2. m \in Nat /\ n \in Nat /\ m + k < n + k
    BY <1>1
  <1>3. /\ m + k \in DOMAIN queue /\ queue'[m] = queue[m + k]
        /\ n + k \in DOMAIN queue /\ queue'[n].ws = queue[n + k].ws
    BY LifecycleAssumption DEF Remains
  <1>. QED BY <1>2, <1>3 DEF LastOnItsWorkspace

\* Requests, rows and boxes stay, and so does the connection or it ends.
LEMMA LinkStays ==
  ASSUME AloneStep, UNCHANGED <<row, req, queue, box>>, link' = "up" => link = "up"
  PROVE  AloneInv'
  <1>1. \A w : Quiet(w)' <=> Quiet(w)
    BY DEF Quiet
  <1>2. DeletesAreDone' /\ NothingIsLeft' /\ Unchanging'
    BY <1>1 DEF AloneStep, AloneInv, DeletesAreDone, NothingIsLeft, Unchanging, Sole
  <1>3. Up'
    BY <1>1 DEF AloneStep, AloneInv, Up, OwnersOwn, LastOnItsWorkspace, AnswersAreTrue, RowsAreTrue, Sole, Quiet
  <1>. QED BY <1>2, <1>3 DEF AloneInv

\* One request asks, or is refused.
LEMMA RequestIdles ==
  ASSUME AloneStep, NEW h \in Requests, ~Active(req[h]), ~Active(req'[h]),
         \A g \in Requests : g # h => req'[g] = req[g], UNCHANGED <<row, link, queue, box>>
  PROVE  AloneInv'
  <1>1. \A w : Quiet(w)' <=> Quiet(w)
    BY DEF Quiet
  <1>2. \A g \in Requests : Active(req'[g]) => Active(req[g]) /\ req'[g] = req[g]
    OBVIOUS
  <1>3. \A g \in Requests : Sole(g) /\ Active(req'[g]) => Sole(g)'
    BY <1>2 DEF Sole
  <1>4. DeletesAreDone' /\ NothingIsLeft' /\ Unchanging'
    BY <1>1, <1>2, <1>3 DEF AloneStep, AloneInv, DeletesAreDone, NothingIsLeft, Unchanging, Active
  <1>5. ASSUME link = "up" PROVE OwnersOwn' /\ LastOnItsWorkspace' /\ AnswersAreTrue' /\ RowsAreTrue'
    <2>1. OwnersOwn'
      BY <1>2, <1>3, <1>5 DEF AloneStep, AloneInv, Up, OwnersOwn
    <2>2. LastOnItsWorkspace' /\ RowsAreTrue'
      BY <1>1, <1>5 DEF AloneStep, AloneInv, Up, LastOnItsWorkspace, RowsAreTrue
    <2>3. AnswersAreTrue'
      BY <1>1, <1>2, <1>5 DEF AloneStep, AloneInv, Up, AnswersAreTrue, Active
    <2>. QED BY <2>1, <2>2, <2>3
  <1>. QED BY <1>4, <1>5 DEF AloneInv, Up

\* A request begins where no other was begun.
LEMMA BeginAlone ==
  ASSUME AloneStep, NEW h \in Requests, NEW cmd, NEW matches, NEW r, BeginWith(h, cmd, matches, r),
         ASSUME matches, req[h].ws \in Workspaces, req[h].cmd = cmd
         PROVE  /\ row[req[h].ws].state \notin Transitional /\ row[req[h].ws].state # "GONE"
                /\ r \in Row /\ r.state \in Transitional /\ Owns([req[h] EXCEPT !.pc = "call"], r)
  PROVE  AloneInv'
  <1>1. /\ req[h].pc = "begin" /\ req[h].cmd = cmd /\ UNCHANGED <<status, link, rec, queue, box, upsets>>
        /\ req \in [Requests -> Task] /\ row \in [Workspaces -> Row] /\ Asked(req[h])
    BY DEF BeginWith, AloneStep, IndInv, TypeOK
  <1>2. req[h].ws \in Workspaces /\ req[h] \in Task /\ \A w : Quiet(w)' <=> Quiet(w)
    BY <1>1 DEF Asked, Quiet
  <1>3. CASE ~matches /\ req' = [req EXCEPT ![h] = NoTask] /\ UNCHANGED row
    <2>1. req'[h] = NoTask /\ \A g \in Requests : g # h => req'[g] = req[g]
      BY <1>1, <1>3
    <2>. QED BY <1>1, <1>3, <2>1, RequestIdles DEF Active, NoTask
  <1>4. CASE matches /\ row' = [row EXCEPT ![req[h].ws] = r] /\ req' = [req EXCEPT ![h].pc = "call"]
    <2>1. PICK w \in Workspaces : w = req[h].ws
      BY <1>2
    <2>2. /\ row[w].state \notin Transitional /\ row[w].state # "GONE"
          /\ r \in Row /\ r.state \in Transitional
      BY <1>1, <1>2, <1>4, <2>1
    <2>3. /\ req'[h].pc = "call" /\ req'[h].ws = w /\ Owns(req'[h], r)
          /\ \A g \in Requests : g # h => req'[g] = req[g]
      BY <1>1, <1>2, <1>4, <2>1 DEF Task
    <2>4. row'[w] = r /\ \A v \in Workspaces : v # w => row'[v] = row[v]
      BY <1>1, <1>4, <2>1
    <2>5. \A g \in Requests : g # h /\ Sole(g) /\ req[g].ws # w => Sole(g)'
      BY <2>3 DEF Sole
    <2>6. DeletesAreDone'
      <3>. SUFFICES ASSUME NEW g \in Requests, req'[g].pc = "finish", req'[g].cmd = "delete"
                    PROVE  /\ row'[req'[g].ws].state = "DELETING" /\ Sole(g)'
                           /\ \A n \in DOMAIN queue' : queue'[n].ws # req'[g].ws
                           /\ box'[req'[g].ws] = NoBox
        BY DEF DeletesAreDone, Sole, Quiet
      <3>1. g # h /\ req'[g] = req[g]
        BY <2>3
      <3>2. /\ row[req[g].ws].state = "DELETING" /\ Sole(g) /\ Quiet(req[g].ws) /\ box[req[g].ws] = NoBox
        BY <3>1 DEF AloneStep, AloneInv, DeletesAreDone
      <3>3. req[g].ws # w /\ req[g].ws \in Workspaces
        BY <2>2, <3>1, <3>2 DEF Transitional, AloneStep, IndInv, Asked
      <3>4. Sole(g)'
        BY <2>5, <3>1, <3>2, <3>3
      <3>. QED BY <1>1, <2>4, <3>1, <3>2, <3>3, <3>4 DEF Quiet
    <2>7. NothingIsLeft'
      <3>. SUFFICES ASSUME NEW v \in Workspaces, row'[v].state \in {"GONE", "CREATED"}
                    PROVE  /\ \A g \in Requests : Active(req'[g]) => req'[g].ws # v
                           /\ Quiet(v)' /\ box'[v] = NoBox
        BY DEF NothingIsLeft
      <3>1. v # w /\ row'[v] = row[v]
        BY <2>2, <2>4 DEF Transitional
      <3>. QED BY <1>1, <1>2, <2>3, <3>1 DEF AloneStep, AloneInv, NothingIsLeft
    <2>8. ASSUME link = "up" PROVE OwnersOwn' /\ LastOnItsWorkspace' /\ AnswersAreTrue' /\ RowsAreTrue'
      <3>1. \A g \in Requests : Active(req[g]) => req[g].ws # w
        BY <2>2, <2>8 DEF AloneStep, AloneInv, Up, OwnersOwn, Owns, Transitional
      <3>2. OwnersOwn'
        <4>. SUFFICES ASSUME NEW g \in Requests, Active(req'[g])
                      PROVE  Owns(req'[g], row'[req'[g].ws]) /\ Sole(g)'
          BY DEF OwnersOwn
        <4>1. CASE g = h
          BY <2>3, <2>4, <3>1, <4>1 DEF Sole
        <4>2. CASE g # h
          <5>1. req'[g] = req[g] /\ req[g].ws # w /\ Owns(req[g], row[req[g].ws]) /\ Sole(g)
            BY <2>3, <2>8, <3>1, <4>2 DEF AloneStep, AloneInv, Up, OwnersOwn
          <5>2. req[g].ws \in Workspaces
            BY <4>2, <5>1 DEF AloneStep, IndInv, Asked, Active
          <5>. QED BY <2>4, <2>5, <4>2, <5>1, <5>2
        <4>. QED BY <4>1, <4>2
      <3>3. LastOnItsWorkspace'
        BY <1>1, <2>8 DEF AloneStep, AloneInv, Up, LastOnItsWorkspace
      <3>4. AnswersAreTrue'
        BY <1>1, <1>2, <2>3, <2>8 DEF AloneStep, AloneInv, Up, AnswersAreTrue
      <3>5. RowsAreTrue'
        BY <1>1, <1>2, <2>2, <2>4, <2>8 DEF AloneStep, AloneInv, Up, RowsAreTrue, Transitional
      <3>. QED BY <3>2, <3>3, <3>4, <3>5
    <2>9. Unchanging'
      BY DEF AloneStep, Unchanging
    <2>. QED BY <1>1, <2>6, <2>7, <2>8, <2>9 DEF AloneInv, Up
  <1>. QED BY <1>3, <1>4 DEF BeginWith

LEMMA BeginsAlone ==
  ASSUME AloneStep, NEW h \in Requests,
         BeginStart(h) \/ BeginStop(h) \/ BeginDelete(h) \/ BeginChange(h)
  PROVE  AloneInv'
  <1>. DEFINE r == row[req[h].ws]
              t == [req[h] EXCEPT !.pc = "call"]
  <1>1. req[h] \in Task /\ (req[h].ws \in Workspaces => r \in Row)
    BY DEF AloneStep, IndInv, TypeOK
  <1>2. /\ t.pc = "call" /\ t.cmd = req[h].cmd /\ t.image = req[h].image
        /\ req[h].image \in Images \cup {NoImage} /\ req[h].from \in Images \cup {NoImage}
    BY <1>1 DEF Task
  <1>. HIDE DEF t, r
  <1>3. CASE BeginStart(h)
    <2>. DEFINE new == [r EXCEPT !.state = "STARTING", !.desired = "RUNNING"]
    <2>1. PICK matches : /\ BeginWith(h, "egress", matches, new)
                         /\ matches => r.state \in {"CREATED", "STOPPED", "ERROR", "WORKER_OFFLINE"}
      BY <1>3 DEF BeginStart, r
    <2>2. ASSUME matches, req[h].ws \in Workspaces, req[h].cmd = "egress"
          PROVE  /\ r.state \notin Transitional /\ r.state # "GONE"
                 /\ new \in Row /\ new.state \in Transitional /\ Owns(t, new)
      BY <1>1, <1>2, <2>1, <2>2 DEF Row, States, Owns, Transitional
    <2>. HIDE DEF new
    <2>. QED BY <2>1, <2>2, BeginAlone DEF t, r
  <1>4. CASE BeginStop(h)
    <2>. DEFINE new == [r EXCEPT !.state = "STOPPING", !.desired = "STOPPED"]
    <2>1. PICK matches : BeginWith(h, "stop", matches, new) /\ (matches => r.state = "RUNNING")
      BY <1>4 DEF BeginStop, r
    <2>2. ASSUME matches, req[h].ws \in Workspaces, req[h].cmd = "stop"
          PROVE  /\ r.state \notin Transitional /\ r.state # "GONE"
                 /\ new \in Row /\ new.state \in Transitional /\ Owns(t, new)
      BY <1>1, <1>2, <2>1, <2>2 DEF Row, States, Owns, Transitional
    <2>. HIDE DEF new
    <2>. QED BY <2>1, <2>2, BeginAlone DEF t, r
  <1>5. CASE BeginDelete(h)
    <2>. DEFINE new == [r EXCEPT !.state = "DELETING", !.desired = "DELETED"]
    <2>1. PICK matches : /\ BeginWith(h, "delete", matches, new)
                         /\ matches => r.state \notin Transitional \cup {"GONE"}
      BY <1>5 DEF BeginDelete, r
    <2>2. ASSUME matches, req[h].ws \in Workspaces, req[h].cmd = "delete"
          PROVE  /\ r.state \notin Transitional /\ r.state # "GONE"
                 /\ new \in Row /\ new.state \in Transitional /\ Owns(t, new)
      BY <1>1, <1>2, <2>1, <2>2 DEF Row, States, Owns, Transitional
    <2>. HIDE DEF new
    <2>. QED BY <2>1, <2>2, BeginAlone DEF t, r
  <1>6. CASE BeginChange(h)
    <2>. DEFINE new == [r EXCEPT !.state = "UPGRADING", !.image = req[h].image, !.prev = req[h].from,
                                 !.changed = FALSE]
    <2>1. PICK matches : BeginWith(h, "runtime.set", matches, new) /\ (matches => r.state \in {"STOPPED", "ERROR"})
      BY <1>6 DEF BeginChange, RuntimeChangeIncomplete, r
    <2>2. ASSUME matches, req[h].ws \in Workspaces, req[h].cmd = "runtime.set"
          PROVE  /\ r.state \notin Transitional /\ r.state # "GONE"
                 /\ new \in Row /\ new.state \in Transitional /\ Owns(t, new)
      BY <1>1, <1>2, <2>1, <2>2 DEF Row, States, Owns, Transitional
    <2>. HIDE DEF new
    <2>. QED BY <2>1, <2>2, BeginAlone DEF t, r
  <1>. QED BY <1>3, <1>4, <1>5, <1>6

\* A request that goes on without being answered: it sends its command, or fails.
LEMMA GoesOnAlone ==
  ASSUME AloneStep, NEW h \in Requests, req[h].pc \in {"call", "wait"}, req'[h].pc \in {"wait", "fail"},
         req'[h].ws = req[h].ws, req'[h].cmd = req[h].cmd, req'[h].image = req[h].image,
         \A g \in Requests : g # h => req'[g] = req[g], UNCHANGED <<row, link, box>>,
         \A w \in Workspaces : w # req[h].ws /\ Quiet(w) => Quiet(w)',
         link = "up" => LastOnItsWorkspace',
         Lessened \/ req[h].pc = "call"
  PROVE  AloneInv'
  <1>. DEFINE w == req[h].ws
  <1>1. w \in Workspaces /\ \A g \in Requests : Active(req[g]) => req[g].ws \in Workspaces
    BY DEF AloneStep, IndInv, Asked, Active
  <1>2. \A g \in Requests : req'[g].ws = req[g].ws /\ (Active(req'[g]) <=> Active(req[g]))
    BY DEF Active
  <1>3. \A g \in Requests : Sole(g) => Sole(g)'
    BY <1>2 DEF Sole
  <1>4. Active(req[h])
    BY DEF Active
  <1>. HIDE DEF w
  <1>5. ASSUME NEW g \in Requests, g # h, Sole(g), Active(req[g]), Quiet(req[g].ws)
        PROVE  Quiet(req[g].ws)'
    <2>1. req[g].ws # w
      BY <1>4, <1>5 DEF Sole, w
    <2>. QED BY <1>1, <1>5, <2>1 DEF w
  <1>6. DeletesAreDone'
    <2>. SUFFICES ASSUME NEW g \in Requests, req'[g].pc = "finish", req'[g].cmd = "delete"
                  PROVE  /\ row'[req'[g].ws].state = "DELETING" /\ Sole(g)'
                         /\ \A n \in DOMAIN queue' : queue'[n].ws # req'[g].ws
                         /\ box'[req'[g].ws] = NoBox
      BY DEF DeletesAreDone, Sole, Quiet
    <2>1. g # h /\ req'[g] = req[g] /\ Active(req[g])
      BY DEF Active
    <2>2. /\ row[req[g].ws].state = "DELETING" /\ Sole(g) /\ Quiet(req[g].ws) /\ box[req[g].ws] = NoBox
      BY <2>1 DEF AloneStep, AloneInv, DeletesAreDone
    <2>3. Sole(g)'
      BY <1>3, <2>2
    <2>4. Quiet(req[g].ws)'
      BY <1>5, <2>1, <2>2
    <2>. QED BY <2>1, <2>2, <2>3, <2>4 DEF Quiet
  <1>7. NothingIsLeft'
    <2>. SUFFICES ASSUME NEW v \in Workspaces, row'[v].state \in {"GONE", "CREATED"}
                  PROVE  /\ \A g \in Requests : Active(req'[g]) => req'[g].ws # v
                         /\ Quiet(v)' /\ box'[v] = NoBox
      BY DEF NothingIsLeft
    <2>1. /\ \A g \in Requests : Active(req[g]) => req[g].ws # v
          /\ Quiet(v) /\ box[v] = NoBox
      BY DEF AloneStep, AloneInv, NothingIsLeft
    <2>. QED BY <1>2, <1>4, <2>1
  <1>8. ASSUME link = "up" PROVE OwnersOwn' /\ LastOnItsWorkspace' /\ AnswersAreTrue' /\ RowsAreTrue'
    <2>1. OwnersOwn /\ AnswersAreTrue /\ RowsAreTrue
      BY <1>8 DEF AloneStep, AloneInv, Up
    <2>2. OwnersOwn'
      <3>. SUFFICES ASSUME NEW g \in Requests, Active(req'[g])
                    PROVE  Owns(req'[g], row'[req'[g].ws]) /\ Sole(g)'
        BY DEF OwnersOwn
      <3>1. Owns(req[g], row[req[g].ws]) /\ Sole(g)
        BY <1>2, <2>1 DEF OwnersOwn
      <3>2. Sole(g)'
        BY <1>3, <3>1
      <3>3. Owns(req'[g], row'[req'[g].ws])
        <4>1. CASE g = h
          BY <3>1, <4>1 DEF Owns
        <4>2. CASE g # h
          BY <3>1, <4>2
        <4>. QED BY <4>1, <4>2
      <3>. QED BY <3>2, <3>3
    <2>3. AnswersAreTrue'
      <3>. SUFFICES ASSUME NEW g \in Requests, req'[g].pc \in {"finish", "revert"}
                    PROVE  /\ \A n \in DOMAIN queue' : queue'[n].ws # req'[g].ws
                           /\ req'[g].pc = "finish" => Done(req'[g].cmd, box'[req'[g].ws])
        BY DEF AnswersAreTrue, Quiet
      <3>1. g # h /\ req'[g] = req[g] /\ Active(req[g])
        BY DEF Active
      <3>2. Quiet(req[g].ws) /\ Sole(g)
        BY <2>1, <3>1 DEF OwnersOwn, AnswersAreTrue
      <3>3. Quiet(req[g].ws)'
        BY <1>5, <3>1, <3>2
      <3>. QED BY <2>1, <3>1, <3>3 DEF AnswersAreTrue, Quiet
    <2>4. row[w].state \in Transitional
      BY <1>4, <2>1 DEF OwnersOwn, Owns, Transitional, w
    <2>5. RowsAreTrue'
      BY <2>1, <2>4 DEF RowsAreTrue, Transitional, w, AloneStep
    <2>. QED BY <1>8, <2>2, <2>3, <2>5
  <1>9. Unchanging'
    BY DEF AloneStep, Unchanging
  <1>. QED BY <1>6, <1>7, <1>8, <1>9 DEF AloneInv, Up

\* A command that is sent is the last on its Workspace, and the only one waited for.
LEMMA CallAlone ==
  ASSUME AloneStep, NEW h \in Requests, Call(h)
  PROVE  AloneInv'
  <1>1. /\ req \in [Requests -> Task] /\ req[h] \in Task /\ req[h].pc = "call" /\ queue \in Seq(Item)
        /\ UNCHANGED <<row, status, link, rec, box, upsets>>
    BY DEF Call, AloneStep, IndInv, TypeOK
  <1>2. CASE /\ queue' = Append(queue, [cmd |-> req[h].cmd, by |-> h, ws |-> req[h].ws,
                                        image |-> req[h].image, from |-> req[h].from])
             /\ req' = [req EXCEPT ![h].pc = "wait"]
    <2>1. /\ req'[h].pc = "wait" /\ req'[h].ws = req[h].ws /\ req'[h].cmd = req[h].cmd
          /\ req'[h].image = req[h].image /\ \A g \in Requests : g # h => req'[g] = req[g]
      BY <1>1, <1>2 DEF Task
    <2>2. PICK last : last = Len(queue) + 1
      OBVIOUS
    <2>3. /\ \A n \in DOMAIN queue' : n \in DOMAIN queue \/ n = last
          /\ \A n \in DOMAIN queue : n < last /\ queue'[n] = queue[n]
          /\ queue'[last].ws = req[h].ws
      BY <1>1, <1>2, <2>2
    <2>4. \A w \in Workspaces : w # req[h].ws /\ Quiet(w) => Quiet(w)'
      BY <2>3 DEF Quiet
    <2>5. ASSUME link = "up" PROVE LastOnItsWorkspace'
      <3>1. \A g \in Requests : Active(req[g]) /\ req[g].ws = req[h].ws => g = h
        BY <1>1, <2>5 DEF AloneStep, AloneInv, Up, OwnersOwn, Sole, Active
      <3>2. ASSUME NEW m \in DOMAIN queue, queue[m].by \in Requests PROVE queue[m].ws # req[h].ws
        <4>1. req[queue[m].by].pc = "wait" /\ req[queue[m].by].ws = queue[m].ws
          BY <3>2 DEF AloneStep, IndInv, SendersAwait, Awaited
        <4>. QED BY <1>1, <3>1, <3>2, <4>1 DEF Active
      <3>. SUFFICES ASSUME NEW m \in DOMAIN queue', NEW n \in DOMAIN queue', m < n, queue'[m].by \in Requests
                    PROVE  queue'[n].ws # queue'[m].ws
        BY DEF LastOnItsWorkspace
      <3>3. m \in DOMAIN queue
        <4>1. n \in Nat /\ last \in Nat /\ n <= last /\ (m = last => ~(m < n))
          BY <1>1, <2>2, <2>3
        <4>. QED BY <2>3, <4>1
      <3>4. CASE n \in DOMAIN queue
        BY <2>3, <2>5, <3>3, <3>4 DEF AloneStep, AloneInv, Up, LastOnItsWorkspace
      <3>5. CASE n = last
        BY <2>3, <3>2, <3>3, <3>5
      <3>. QED BY <2>3, <3>4, <3>5
    <2>. QED BY <1>1, <2>1, <2>4, <2>5, GoesOnAlone
  <1>3. ASSUME UNCHANGED queue, NEW offline, req' = [req EXCEPT ![h].pc = "fail", ![h].offline = offline]
        PROVE  AloneInv'
    <2>1. /\ req'[h].pc = "fail" /\ req'[h].ws = req[h].ws /\ req'[h].cmd = req[h].cmd
          /\ req'[h].image = req[h].image /\ \A g \in Requests : g # h => req'[g] = req[g]
      BY <1>1, <1>3 DEF Task
    <2>2. (\A w \in Workspaces : Quiet(w) => Quiet(w)') /\ (LastOnItsWorkspace => LastOnItsWorkspace')
      BY <1>3 DEF Quiet, LastOnItsWorkspace
    <2>. QED BY <1>1, <2>1, <2>2, GoesOnAlone DEF AloneStep, AloneInv, Up
  <1>. QED BY <1>2, <1>3 DEF Call

LEMMA TimeoutAlone ==
  ASSUME AloneStep, NEW h \in Requests, Timeout(h)
  PROVE  AloneInv'
  <1>1. /\ req \in [Requests -> Task] /\ req[h] \in Task /\ req[h].pc = "wait" /\ queue \in Seq(Item)
        /\ req' = [req EXCEPT ![h].pc = "fail"] /\ UNCHANGED <<row, status, link, rec, box>>
    BY DEF Timeout, AloneStep, IndInv, TypeOK
  <1>2. /\ req'[h].pc = "fail" /\ req'[h].ws = req[h].ws /\ req'[h].cmd = req[h].cmd
        /\ req'[h].image = req[h].image /\ \A g \in Requests : g # h => req'[g] = req[g]
    BY <1>1 DEF Task
  <1>3. Remains(0)
    BY <1>1, WhatRemains DEF Timeout, TimedOut
  <1>4. Lessened /\ (link = "up" => LastOnItsWorkspace')
    BY <1>1, <1>3, RemainsLessened, RemainsLast DEF AloneStep, AloneInv, Up
  <1>. QED BY <1>1, <1>2, <1>4, GoesOnAlone DEF Lessened

\* A request ends: what it makes of its row is what the Worker answered.
LEMMA SettleAlone ==
  ASSUME AloneStep, NEW h \in Requests, NEW pc \in {"finish", "fail", "revert"}, NEW cmds, NEW r,
         Settle(h, pc, cmds, r),
         /\ r.state \in {"GONE", "CREATED"} =>
              r.state = row[req[h].ws].state \/ (pc = "finish" /\ req[h].cmd = "delete")
         /\ link = "up" /\ r.state = "RUNNING" =>
              Quiet(req[h].ws) /\ box[req[h].ws].ctr = "running"
         /\ link = "up" /\ r.state = "STOPPED" =>
              Quiet(req[h].ws) /\ (scenario = "unchanged" => box[req[h].ws].ctr # "running")
  PROVE  AloneInv'
  <1>1. /\ req[h].pc = pc /\ UNCHANGED <<status, link, rec, queue, box, upsets>> /\ Active(req[h])
        /\ row' = [row EXCEPT ![req[h].ws] = r] /\ req' = [req EXCEPT ![h] = NoTask]
        /\ req \in [Requests -> Task] /\ row \in [Workspaces -> Row]
    BY DEF Settle, AloneStep, IndInv, TypeOK, Active
  <1>2. PICK w \in Workspaces : w = req[h].ws
    BY <1>1 DEF AloneStep, IndInv, Asked, Active
  <1>3. row'[w] = r /\ \A v \in Workspaces : v # w => row'[v] = row[v]
    BY <1>1, <1>2
  <1>4. ~Active(req'[h]) /\ \A g \in Requests : g # h => req'[g] = req[g]
    BY <1>1 DEF Active, NoTask
  <1>5. \A v : Quiet(v)' <=> Quiet(v)
    BY <1>1 DEF Quiet
  <1>6. \A g \in Requests : Active(req'[g]) => g # h /\ Active(req[g]) /\ req'[g] = req[g]
    BY <1>4
  <1>7. \A g \in Requests : Active(req'[g]) /\ Sole(g) => Sole(g)' /\ req[g].ws # w
    BY <1>1, <1>2, <1>6 DEF Sole
  <1>8. DeletesAreDone'
    <2>. SUFFICES ASSUME NEW g \in Requests, req'[g].pc = "finish", req'[g].cmd = "delete"
                  PROVE  /\ row'[req'[g].ws].state = "DELETING" /\ Sole(g)'
                         /\ \A n \in DOMAIN queue' : queue'[n].ws # req'[g].ws
                         /\ box'[req'[g].ws] = NoBox
      BY DEF DeletesAreDone, Sole, Quiet
    <2>1. g # h /\ req'[g] = req[g] /\ Active(req'[g])
      BY <1>6 DEF Active
    <2>2. /\ row[req[g].ws].state = "DELETING" /\ Sole(g) /\ Quiet(req[g].ws) /\ box[req[g].ws] = NoBox
      BY <2>1 DEF AloneStep, AloneInv, DeletesAreDone
    <2>3. Sole(g)' /\ req[g].ws # w /\ req[g].ws \in Workspaces
      BY <1>7, <2>1, <2>2 DEF AloneStep, IndInv, Asked, Active
    <2>. QED BY <1>1, <1>3, <2>1, <2>2, <2>3 DEF Quiet
  <1>9. NothingIsLeft'
    <2>. SUFFICES ASSUME NEW v \in Workspaces, row'[v].state \in {"GONE", "CREATED"}
                  PROVE  /\ \A g \in Requests : Active(req'[g]) => req'[g].ws # v
                         /\ Quiet(v)' /\ box'[v] = NoBox
      BY DEF NothingIsLeft
    <2>1. CASE v # w
      BY <1>1, <1>3, <1>5, <1>6, <2>1 DEF AloneStep, AloneInv, NothingIsLeft
    <2>2. CASE v = w
      <3>1. row[w].state \notin {"GONE", "CREATED"}
        BY <1>1, <1>2 DEF AloneStep, AloneInv, NothingIsLeft
      <3>2. req[h].pc = "finish" /\ req[h].cmd = "delete"
        BY <1>1, <1>2, <1>3, <2>2, <3>1
      <3>3. Sole(h) /\ Quiet(w) /\ box[w] = NoBox
        BY <1>2, <3>2 DEF AloneStep, AloneInv, DeletesAreDone
      <3>. QED BY <1>1, <1>2, <1>5, <1>6, <2>2, <3>3 DEF Sole
    <2>. QED BY <2>1, <2>2
  <1>10. ASSUME link = "up" PROVE OwnersOwn' /\ LastOnItsWorkspace' /\ AnswersAreTrue' /\ RowsAreTrue'
    <2>1. OwnersOwn'
      <3>. SUFFICES ASSUME NEW g \in Requests, Active(req'[g])
                    PROVE  Owns(req'[g], row'[req'[g].ws]) /\ Sole(g)'
        BY DEF OwnersOwn
      <3>1. req'[g] = req[g] /\ Owns(req[g], row[req[g].ws]) /\ Sole(g)
        BY <1>6, <1>10 DEF AloneStep, AloneInv, Up, OwnersOwn
      <3>2. Sole(g)' /\ req[g].ws # w /\ req[g].ws \in Workspaces
        BY <1>6, <1>7, <3>1 DEF AloneStep, IndInv, Asked, Active
      <3>. QED BY <1>3, <3>1, <3>2
    <2>2. LastOnItsWorkspace'
      BY <1>1, <1>10 DEF AloneStep, AloneInv, Up, LastOnItsWorkspace
    <2>3. AnswersAreTrue'
      <3>1. \A g \in Requests : req'[g].pc \in {"finish", "revert"} => req'[g] = req[g]
        BY <1>6 DEF Active
      <3>. QED BY <1>1, <1>10, <3>1 DEF AloneStep, AloneInv, Up, AnswersAreTrue, Quiet
    <2>4. RowsAreTrue'
      <3>. SUFFICES ASSUME NEW v \in Workspaces
                    PROVE  /\ row'[v].state = "RUNNING" => Quiet(v)' /\ box'[v].ctr = "running"
                           /\ row'[v].state = "STOPPED" =>
                                Quiet(v)' /\ (scenario' = "unchanged" => box'[v].ctr # "running")
        BY DEF RowsAreTrue
      <3>1. CASE v = w
        BY <1>1, <1>2, <1>3, <1>5, <1>10, <3>1 DEF AloneStep
      <3>2. CASE v # w
        BY <1>1, <1>3, <1>5, <1>10, <3>2 DEF AloneStep, AloneInv, Up, RowsAreTrue
      <3>. QED BY <3>1, <3>2
    <2>. QED BY <2>1, <2>2, <2>3, <2>4
  <1>11. Unchanging'
    BY DEF AloneStep, Unchanging
  <1>. QED BY <1>1, <1>8, <1>9, <1>10, <1>11 DEF AloneInv, Up

LEMMA SettlesAlone ==
  ASSUME AloneStep, NEW h \in Requests,
         \/ FinishStart(h) \/ FinishStop(h) \/ FinishDelete(h) \/ FinishChange(h)
         \/ RevertChange(h) \/ MarkFailure(h)
  PROVE  AloneInv'
  <1>1. /\ req[h].pc \in {"finish", "fail", "revert"} /\ req[h] \in Task /\ Active(req[h])
    BY DEF FinishStart, FinishStop, FinishDelete, FinishChange, RevertChange, MarkFailure, Settle, Active,
           AloneStep, IndInv, TypeOK
  <1>2. PICK w \in Workspaces : w = req[h].ws
    BY <1>1 DEF AloneStep, IndInv, Asked
  <1>3. PICK r \in Row : r = row[w]
    BY DEF AloneStep, IndInv, TypeOK
  <1>4. req[h].restore \in Row
    BY <1>1 DEF Task
  <1>5. ASSUME link = "up"
        PROVE  /\ Owns(req[h], r)
               /\ req[h].pc \in {"finish", "revert"} => Quiet(w)
               /\ req[h].pc = "finish" => Done(req[h].cmd, box[w])
    BY <1>1, <1>2, <1>3, <1>5 DEF AloneStep, AloneInv, Up, OwnersOwn, AnswersAreTrue
  <1>6. CASE FinishStart(h)
    <2>. DEFINE new == finishWorkspaceStart(r)
    <2>1. Settle(h, "finish", {"start"}, new) /\ req[h].pc = "finish" /\ req[h].cmd = "start"
      BY <1>2, <1>3, <1>6 DEF FinishStart, Settle
    <2>2. new.state = r.state \/ new.state = "RUNNING"
      BY <1>3 DEF finishWorkspaceStart, Row
    <2>3. link = "up" => Quiet(w) /\ box[w].ctr = "running" /\ new.state = "RUNNING"
      BY <1>3, <1>5, <2>1 DEF Done, Owns, finishWorkspaceStart, Row
    <2>. HIDE DEF new
    <2>. QED BY <1>2, <1>3, <2>1, <2>2, <2>3, SettleAlone
  <1>7. CASE FinishStop(h)
    <2>. DEFINE new == finishWorkspaceStop(r)
    <2>1. Settle(h, "finish", {"stop"}, new) /\ req[h].pc = "finish" /\ req[h].cmd = "stop"
      BY <1>2, <1>3, <1>7 DEF FinishStop, Settle
    <2>2. new.state = r.state \/ new.state = "STOPPED"
      BY <1>3 DEF finishWorkspaceStop, Row
    <2>3. link = "up" => Quiet(w) /\ box[w].ctr # "running" /\ new.state = "STOPPED"
      BY <1>3, <1>5, <2>1 DEF Done, Owns, finishWorkspaceStop, Row
    <2>. HIDE DEF new
    <2>. QED BY <1>2, <1>3, <2>1, <2>2, <2>3, SettleAlone
  <1>8. CASE FinishDelete(h)
    <2>. DEFINE new == deleteConfirmedWorkspace(r)
    <2>1. Settle(h, "finish", {"delete"}, new) /\ req[h].pc = "finish" /\ req[h].cmd = "delete"
      BY <1>2, <1>3, <1>8 DEF FinishDelete, Settle
    <2>2. link = "up" => new.state \notin {"RUNNING", "STOPPED"}
      BY <1>3, <1>5, <2>1 DEF Owns, deleteConfirmedWorkspace, NoRow
    <2>. HIDE DEF new
    <2>. QED BY <2>1, <2>2, SettleAlone
  <1>9. CASE FinishChange(h)
    <2>. DEFINE new == finishWorkspaceRuntimeChange(r, req[h].image)
    <2>1. Settle(h, "finish", {"runtime.set"}, new) /\ req[h].pc = "finish" /\ req[h].cmd = "runtime.set"
      BY <1>2, <1>3, <1>9 DEF FinishChange, Settle
    <2>2. new.state = r.state \/ new.state = "STOPPED"
      BY <1>3 DEF finishWorkspaceRuntimeChange, Row
    <2>3. link = "up" => Quiet(w) /\ box[w].ctr # "running" /\ new.state = "STOPPED"
      BY <1>3, <1>5, <2>1 DEF Done, Owns, finishWorkspaceRuntimeChange, Row
    <2>. HIDE DEF new
    <2>. QED BY <1>2, <1>3, <2>1, <2>2, <2>3, SettleAlone
  <1>10. CASE RevertChange(h)
    <2>. DEFINE new == revertWorkspaceRuntimeChange(r, req[h].restore)
    <2>1. Settle(h, "revert", {"runtime.set"}, new) /\ req[h].pc = "revert" /\ req[h].cmd = "runtime.set"
      BY <1>2, <1>3, <1>10 DEF RevertChange, Settle
    <2>2. new.state = r.state \/ new.state \in {"ERROR", "STOPPED"}
      BY <1>3 DEF revertWorkspaceRuntimeChange, Row
    <2>3. link = "up" => Quiet(w) /\ new.state \in {"ERROR", "STOPPED"}
      BY <1>3, <1>5, <2>1 DEF Owns, revertWorkspaceRuntimeChange, Row
    <2>4. scenario # "unchanged"
      BY <2>1 DEF AloneStep, AloneInv, Unchanging
    <2>. HIDE DEF new
    <2>. QED BY <1>2, <1>3, <2>1, <2>2, <2>3, <2>4, SettleAlone
  <1>11. CASE MarkFailure(h)
    <2>. DEFINE new == markWorkspaceRuntimeFailure(r, req[h].offline)
    <2>1. Settle(h, "fail", Commands, new)
      BY <1>2, <1>3, <1>11 DEF MarkFailure
    <2>2. new.state = r.state \/ new.state \in {"ERROR", "WORKER_OFFLINE"}
      BY <1>3 DEF markWorkspaceRuntimeFailure, Row
    <2>3. link = "up" => new.state \in {"ERROR", "WORKER_OFFLINE"}
      BY <1>3, <1>5 DEF Owns, markWorkspaceRuntimeFailure, Row, Transitional
    <2>. HIDE DEF new
    <2>. QED BY <1>2, <1>3, <2>1, <2>2, <2>3, SettleAlone
  <1>. QED BY <1>6, <1>7, <1>8, <1>9, <1>10, <1>11

\* Rows that no request was begun for, or while the connection is not up: deletions
\* and deleted and unplaced Workspaces stay as they are.
LEMMA RowsAlone ==
  ASSUME AloneStep, UNCHANGED <<req, queue, box>>,
         \A w \in Workspaces : row'[w] # row[w] =>
           /\ row[w].state # "DELETING" /\ row'[w].state # "CREATED"
           /\ row'[w].state = "GONE" => row[w].state = "CREATED"
           /\ link' = "up" => row[w].state = "CREATED" /\ row'[w].state = "GONE",
         link' = "up" => link = "up"
  PROVE  AloneInv'
  <1>1. (\A v : Quiet(v)' <=> Quiet(v)) /\ (\A g : Sole(g)' <=> Sole(g))
    BY DEF Quiet, Sole
  <1>2. DeletesAreDone'
    <2>1. \A g \in Requests : req[g].pc = "finish" => req[g].ws \in Workspaces
      BY DEF AloneStep, IndInv, Asked
    <2>. QED BY <1>1, <2>1 DEF AloneStep, AloneInv, DeletesAreDone
  <1>3. NothingIsLeft'
    BY <1>1 DEF AloneStep, AloneInv, NothingIsLeft
  <1>4. ASSUME link' = "up" PROVE OwnersOwn' /\ LastOnItsWorkspace' /\ AnswersAreTrue' /\ RowsAreTrue'
    <2>1. OwnersOwn /\ LastOnItsWorkspace /\ AnswersAreTrue /\ RowsAreTrue
      BY <1>4 DEF AloneStep, AloneInv, Up
    <2>2. \A g \in Requests : Active(req[g]) => req[g].ws \in Workspaces /\ row'[req[g].ws] = row[req[g].ws]
      <3>1. \A g \in Requests : Active(req[g]) => req[g].ws \in Workspaces
        BY DEF AloneStep, IndInv, Asked, Active
      <3>. QED BY <1>4, <2>1, <3>1 DEF OwnersOwn, Owns
    <2>3. OwnersOwn'
      <3>. SUFFICES ASSUME NEW g \in Requests, Active(req[g])
                    PROVE  Owns(req[g], row'[req[g].ws]) /\ Sole(g)'
        BY DEF OwnersOwn
      <3>. QED BY <1>1, <2>1, <2>2 DEF OwnersOwn
    <2>4. LastOnItsWorkspace' /\ AnswersAreTrue'
      BY <1>1, <2>1 DEF LastOnItsWorkspace, AnswersAreTrue
    <2>5. RowsAreTrue'
      BY <1>1, <1>4, <2>1 DEF RowsAreTrue, AloneStep
    <2>. QED BY <2>3, <2>4, <2>5
  <1>5. Unchanging'
    BY DEF AloneStep, Unchanging
  <1>. QED BY <1>2, <1>3, <1>4, <1>5 DEF AloneInv, Up

LEMMA DeleteUnassignedAlone ==
  ASSUME AloneStep, NEW w \in Workspaces, DeleteUnassigned(w)
  PROVE  AloneInv'
  <1>1. /\ row \in [Workspaces -> Row] /\ row[w].state = "CREATED"
        /\ row' = [row EXCEPT ![w] = deleteOwnedWorkspace(row[w])]
        /\ UNCHANGED <<status, link, req, rec, queue, box, upsets>>
    BY DEF AloneStep, IndInv, TypeOK, DeleteUnassigned
  <1>2. row'[w].state = "GONE" /\ \A v \in Workspaces : v # w => row'[v] = row[v]
    BY <1>1 DEF deleteOwnedWorkspace, NoRow
  <1>. QED BY <1>1, <1>2, RowsAlone

\* A sweep does not concern a Worker that is connected and heard; a revocation ends
\* the connection.
LEMMA SweepsAlone ==
  ASSUME AloneStep, "stall" \notin Upsets, Sweep \/ Revoke
  PROVE  AloneInv'
  <1>1. UNCHANGED <<req, rec, queue, box>> /\ row' = Swept /\ link' # "up"
    BY DEF Sweep, Revoke, Upset
  <1>2. ASSUME NEW w \in Workspaces, row'[w] # row[w]
        PROVE  row[w].state # "DELETING" /\ row'[w].state \notin {"CREATED", "GONE"}
    <2>1. row'[w] = Offline(w) /\ row[w].state # "DELETING"
      BY <1>1, <1>2 DEF Swept
    <2>. QED BY <2>1, OfflineSettles DEF AloneStep, IndInv
  <1>. QED BY <1>1, <1>2, RowsAlone

LEMMA AsksAlone ==
  ASSUME AloneStep, NEW h \in Requests, NEW w \in Workspaces,
         \/ AskStart(h, w) \/ AskStop(h, w) \/ AskDelete(h, w)
         \/ \E target \in Images : AskChange(h, w, target)
  PROVE  AloneInv'
  <1>1. PICK task : Ask(h, task) /\ task.pc = "begin"
    <2>1. \A cmd, image, from, old :
            LET short == [NoTask EXCEPT !.pc = "begin", !.cmd = cmd, !.ws = w, !.image = image]
                long == [NoTask EXCEPT !.pc = "begin", !.cmd = cmd, !.ws = w, !.image = image,
                                       !.from = from, !.restore = old] IN
            short.pc = "begin" /\ long.pc = "begin"
      BY DEF NoTask
    <2>2. ASSUME NEW target, AskChange(h, w, target) PROVE \E task : Ask(h, task) /\ task.pc = "begin"
      <3>. DEFINE task == [NoTask EXCEPT !.pc = "begin", !.cmd = "runtime.set", !.ws = w, !.image = target,
                                         !.from = ChangeFrom(row[w], target), !.restore = row[w]]
      <3>1. Ask(h, task)
        BY <2>2 DEF AskChange
      <3>2. task.pc = "begin"
        BY DEF NoTask
      <3>. QED BY <3>1, <3>2
    <2>. QED BY <2>1, <2>2 DEF AskStart, AskStop, AskDelete
  <1>2. /\ req[h].pc = "idle" /\ req' = [req EXCEPT ![h] = task]
        /\ req \in [Requests -> Task] /\ UNCHANGED <<row, status, link, rec, queue, box, upsets>>
    BY <1>1 DEF Ask, AloneStep, IndInv, TypeOK
  <1>3. req'[h] = task /\ \A g \in Requests : g # h => req'[g] = req[g]
    BY <1>2
  <1>. QED BY <1>1, <1>2, <1>3, RequestIdles DEF Active

\* Without the connection, requests that fail and commands that are lost change
\* nothing of what was deleted.
LEMMA CutAlone ==
  ASSUME AloneStep, row' = row, link' # "up", Lessened,
         \A h \in Requests : /\ req'[h].ws = req[h].ws /\ (Active(req'[h]) <=> Active(req[h]))
                             /\ req'[h].pc = "finish" => req'[h] = req[h],
         \A w \in Workspaces : Quiet(w) => box'[w] = box[w]
  PROVE  AloneInv'
  <1>1. \A h : Sole(h) /\ h \in Requests => Sole(h)'
    BY DEF Sole
  <1>2. DeletesAreDone'
    <2>. SUFFICES ASSUME NEW g \in Requests, req'[g].pc = "finish", req'[g].cmd = "delete"
                  PROVE  /\ row'[req'[g].ws].state = "DELETING" /\ Sole(g)'
                         /\ \A n \in DOMAIN queue' : queue'[n].ws # req'[g].ws
                         /\ box'[req'[g].ws] = NoBox
      BY DEF DeletesAreDone, Sole, Quiet
    <2>1. req'[g] = req[g] /\ req[g].ws \in Workspaces
      BY DEF AloneStep, IndInv, Asked
    <2>2. /\ row[req[g].ws].state = "DELETING" /\ Sole(g) /\ Quiet(req[g].ws) /\ box[req[g].ws] = NoBox
      BY <2>1 DEF AloneStep, AloneInv, DeletesAreDone
    <2>3. Sole(g)' /\ box'[req[g].ws] = NoBox
      BY <1>1, <2>1, <2>2
    <2>4. Quiet(req[g].ws)'
      <3>1. PICK w \in Workspaces : w = req[g].ws
        BY <2>1
      <3>2. Quiet(w)'
        BY <2>2, <3>1 DEF Lessened
      <3>. QED BY <2>1, <3>1, <3>2 DEF Quiet
    <2>. QED BY <2>1, <2>2, <2>3, <2>4 DEF Quiet
  <1>3. NothingIsLeft'
    BY DEF AloneStep, AloneInv, NothingIsLeft, Lessened
  <1>4. Unchanging'
    BY DEF AloneStep, Unchanging
  <1>. QED BY <1>2, <1>3, <1>4 DEF AloneInv, Up

LEMMA NoticeCloseAlone ==
  ASSUME AloneStep, NoticeClose
  PROVE  AloneInv'
  <1>1. /\ queue \in Seq(Item) /\ queue' = Abandon(queue, Requests \cup Recoveries) /\ req \in [Requests -> Task]
        /\ row' = row /\ box' = box /\ link' # "up"
    BY DEF NoticeClose, AloneStep, IndInv, TypeOK
  <1>2. Lessened
    BY <1>1, WhatRemains, RemainsLessened
  <1>3. ASSUME NEW h \in Requests
        PROVE  /\ req'[h].ws = req[h].ws /\ (Active(req'[h]) <=> Active(req[h]))
               /\ req'[h].pc = "finish" => req'[h] = req[h]
    <2>1. req[h] \in Task
      BY <1>1
    <2>2. \/ req'[h] = req[h]
          \/ \E off : req[h].pc = "wait" /\ req'[h] = [req[h] EXCEPT !.pc = "fail", !.offline = off]
      BY DEF NoticeClose
    <2>. QED BY <2>1, <2>2 DEF Task, Active
  <1>. QED BY <1>1, <1>2, <1>3, CutAlone

LEMMA LossesAlone ==
  ASSUME AloneStep, Drop \/ WorkerCrash
  PROVE  AloneInv'
  <1>1. /\ queue \in Seq(Item) /\ UNCHANGED <<row, req>> /\ link' # "up" /\ box \in [Workspaces -> Box]
    BY DEF Drop, WorkerCrash, AloneStep, IndInv, TypeOK
  <1>2. Lessened
    BY <1>1, WhatRemains, RemainsLessened DEF Drop, WorkerCrash
  <1>3. ASSUME NEW w \in Workspaces, Quiet(w) PROVE box'[w] = box[w]
    <2>1. CASE box' = box
      BY <2>1
    <2>2. CASE queue # <<>> /\ \E c : box' = [box EXCEPT ![Head(queue).ws] = c]
      <3>1. Head(queue).ws # w
        <4>1. 1 \in DOMAIN queue /\ Head(queue) = queue[1]
          BY <1>1, <2>2
        <4>. QED BY <1>3, <4>1 DEF Quiet
      <3>. QED BY <1>1, <2>2, <3>1
    <2>. QED BY <2>1, <2>2 DEF Drop, WorkerCrash
  <1>. QED BY <1>1, <1>2, <1>3, CutAlone

-----------------------------------------------------------------------------
(* The Worker's steps.                                                      *)

\* What an answer makes of its request, if anything: it is done, or it failed.
LEMMA AnsweredDone ==
  ASSUME NEW t \in Task, NEW reply, NEW state, NEW image, NEW b, reply = "ok" => Done(t.cmd, b)
  PROVE  LET new == Answered(t, reply, state, image) IN
         /\ new.pc \in {"call", "finish", "revert", "fail"} /\ new.ws = t.ws
         /\ new.pc = "finish" => new.cmd = t.cmd /\ Done(t.cmd, b)
  BY DEF Answered, Task

LEMMA ExecutionAlone ==
  ASSUME AloneStep, queue # <<>>, NEW reply, NEW state, NEW image, Answer(reply, state, image),
         row' = row, \A w \in Workspaces : w # Head(queue).ws => box'[w] = box[w],
         \A h \in Requests : h = Head(queue).by /\ reply = "ok" =>
           Done(Head(queue).cmd, box'[Head(queue).ws])
  PROVE  AloneInv'
  <1>0. PICK i \in Item : i = Head(queue)
    BY DEF AloneStep, IndInv, TypeOK
  <1>1. /\ queue \in Seq(Item) /\ queue' = Tail(queue) /\ 1 \in DOMAIN queue /\ i = queue[1]
        /\ req \in [Requests -> Task] /\ (link' = "up" <=> link = "up")
    BY <1>0 DEF AloneStep, IndInv, TypeOK, Answer
  <1>2. Remains(1) /\ Lessened
    BY <1>1, WhatRemains, RemainsLessened
  <1>3. i.by \in Requests => /\ req[i.by].pc = "wait" /\ req[i.by].cmd = i.cmd /\ req[i.by].ws = i.ws
                             /\ i.ws \in Workspaces
    BY <1>1 DEF AloneStep, IndInv, SendersAwait, Awaited, Asked
  <1>4. \A w \in Workspaces : Quiet(w) => w # i.ws
    BY <1>1 DEF Quiet
  <1>5. ASSUME NEW h \in Requests
        PROVE  /\ req'[h].ws = req[h].ws /\ (Active(req'[h]) <=> Active(req[h]))
               /\ \/ req'[h] = req[h]
                  \/ /\ h = i.by /\ link = "up" /\ req'[h].pc # "wait"
                     /\ req'[h].pc = "finish" => req'[h].cmd = i.cmd /\ Done(i.cmd, box'[i.ws])
    <2>1. CASE req'[h] = req[h]
      BY <2>1
    <2>2. CASE req'[h] # req[h]
      <3>1. h = i.by /\ link = "up" /\ req'[h] = Answered(req[h], reply, state, image)
        BY <1>0, <1>1, <2>2 DEF Answer
      <3>2. req[h] \in Task /\ req[h].pc = "wait" /\ req[h].cmd = i.cmd
        BY <1>1, <1>3, <3>1
      <3>3. reply = "ok" => Done(req[h].cmd, box'[i.ws])
        BY <1>0, <3>1, <3>2
      <3>4. /\ req'[h].pc \in {"call", "finish", "revert", "fail"} /\ req'[h].ws = req[h].ws
            /\ req'[h].pc = "finish" => req'[h].cmd = req[h].cmd /\ Done(req[h].cmd, box'[i.ws])
        <4>1. PICK t, b : t \in Task /\ t = req[h] /\ b = box'[i.ws]
          BY <3>2
        <4>. DEFINE new == Answered(t, reply, state, image)
        <4>2. /\ new.pc \in {"call", "finish", "revert", "fail"} /\ new.ws = t.ws
              /\ new.pc = "finish" => new.cmd = t.cmd /\ Done(t.cmd, b)
          <5>1. t \in Task /\ (reply = "ok" => Done(t.cmd, b))
            BY <3>3, <4>1, Zenon
          <5>. QED BY <5>1, AnsweredDone
        <4>3. req'[h] = new
          BY <3>1, <4>1
        <4>. HIDE DEF new
        <4>. QED BY <4>1, <4>2, <4>3
      <3>. QED BY <3>1, <3>2, <3>4 DEF Active
    <2>. QED BY <2>1, <2>2
  <1>6. \A h \in Requests : Sole(h) => Sole(h)'
    BY <1>5 DEF Sole
  <1>7. ASSUME link = "up", i.by \in Requests PROVE Quiet(i.ws)'
    <2>1. ASSUME NEW n \in DOMAIN queue' PROVE queue'[n].ws # i.ws
      <3>1. n \in Nat /\ n + 1 \in DOMAIN queue /\ queue'[n] = queue[n + 1] /\ 1 < n + 1
        BY <1>1
      <3>. QED BY <1>1, <1>7, <3>1 DEF AloneStep, AloneInv, Up, LastOnItsWorkspace
    <2>. QED BY <2>1 DEF Quiet
  <1>8. ASSUME NEW h \in Requests, req'[h] # req[h]
        PROVE  /\ h = i.by /\ link = "up" /\ Quiet(i.ws)' /\ req[h].ws = i.ws
               /\ req'[h].pc = "finish" =>
                    req'[h].cmd = i.cmd /\ req[h].cmd = i.cmd /\ Done(i.cmd, box'[i.ws])
    BY <1>3, <1>5, <1>7, <1>8
  <1>9. DeletesAreDone'
    <2>. SUFFICES ASSUME NEW g \in Requests, req'[g].pc = "finish", req'[g].cmd = "delete"
                  PROVE  /\ row'[req'[g].ws].state = "DELETING" /\ Sole(g)'
                         /\ \A n \in DOMAIN queue' : queue'[n].ws # req'[g].ws
                         /\ box'[req'[g].ws] = NoBox
      BY DEF DeletesAreDone, Sole, Quiet
    <2>1. CASE req'[g] = req[g]
      <3>1. /\ row[req[g].ws].state = "DELETING" /\ Sole(g) /\ Quiet(req[g].ws) /\ box[req[g].ws] = NoBox
            /\ req[g].ws \in Workspaces
        BY <2>1 DEF AloneStep, AloneInv, DeletesAreDone, IndInv, Asked
      <3>2. Sole(g)'
        BY <1>6, <3>1
      <3>3. PICK w \in Workspaces : w = req[g].ws
        BY <3>1
      <3>4. Quiet(w)' /\ box'[w] = box[w]
        BY <1>0, <1>2, <1>4, <3>1, <3>3 DEF Lessened
      <3>. QED BY <2>1, <3>1, <3>2, <3>3, <3>4 DEF Quiet
    <2>2. CASE req'[g] # req[g]
      <3>1. /\ link = "up" /\ Quiet(i.ws)' /\ req[g].ws = i.ws /\ req'[g].ws = i.ws
            /\ req[g].cmd = "delete" /\ box'[i.ws] = NoBox /\ Active(req[g])
        BY <1>3, <1>5, <1>8, <2>2 DEF Done, Active
      <3>2. Owns(req[g], row[i.ws]) /\ Sole(g)
        BY <3>1 DEF AloneStep, AloneInv, Up, OwnersOwn
      <3>3. Sole(g)'
        BY <1>6, <3>2
      <3>. QED BY <3>1, <3>2, <3>3 DEF Owns, Quiet
    <2>. QED BY <2>1, <2>2
  <1>10. NothingIsLeft'
    <2>. SUFFICES ASSUME NEW v \in Workspaces, row'[v].state \in {"GONE", "CREATED"}
                  PROVE  /\ \A g \in Requests : Active(req'[g]) => req'[g].ws # v
                         /\ Quiet(v)' /\ box'[v] = NoBox
      BY DEF NothingIsLeft
    <2>1. /\ \A g \in Requests : Active(req[g]) => req[g].ws # v
          /\ Quiet(v) /\ box[v] = NoBox
      BY DEF AloneStep, AloneInv, NothingIsLeft
    <2>. QED BY <1>0, <1>2, <1>4, <1>5, <2>1 DEF Lessened
  <1>11. ASSUME link' = "up" PROVE OwnersOwn' /\ LastOnItsWorkspace' /\ AnswersAreTrue' /\ RowsAreTrue'
    <2>1. link = "up" /\ OwnersOwn /\ LastOnItsWorkspace /\ AnswersAreTrue /\ RowsAreTrue
      BY <1>1, <1>11 DEF AloneStep, AloneInv, Up
    <2>2. OwnersOwn'
      <3>. SUFFICES ASSUME NEW g \in Requests, Active(req'[g])
                    PROVE  Owns(req'[g], row'[req'[g].ws]) /\ Sole(g)'
        BY DEF OwnersOwn
      <3>1. Owns(req[g], row[req[g].ws]) /\ Sole(g) /\ req[g].ws \in Workspaces
        BY <1>5, <2>1 DEF OwnersOwn, AloneStep, IndInv, Asked, Active
      <3>2. Owns(req'[g], row[req[g].ws])
        BY <3>1, AnswerOutcome DEF AloneStep
      <3>. QED BY <1>5, <1>6, <3>1, <3>2
    <2>3. LastOnItsWorkspace'
      BY <1>1, <1>2, <2>1, RemainsLast
    <2>4. AnswersAreTrue'
      <3>. SUFFICES ASSUME NEW g \in Requests, req'[g].pc \in {"finish", "revert"}
                    PROVE  /\ \A n \in DOMAIN queue' : queue'[n].ws # req'[g].ws
                           /\ req'[g].pc = "finish" => Done(req'[g].cmd, box'[req'[g].ws])
        BY DEF AnswersAreTrue, Quiet
      <3>1. CASE req'[g] = req[g]
        <4>1. Quiet(req[g].ws) /\ (req[g].pc = "finish" => Done(req[g].cmd, box[req[g].ws]))
          BY <2>1, <3>1 DEF AnswersAreTrue
        <4>2. PICK w \in Workspaces : w = req[g].ws
          BY <3>1 DEF AloneStep, IndInv, Asked
        <4>3. Quiet(w)' /\ box'[w] = box[w]
          BY <1>0, <1>2, <1>4, <4>1, <4>2 DEF Lessened
        <4>. QED BY <3>1, <4>1, <4>2, <4>3 DEF Quiet
      <3>2. CASE req'[g] # req[g]
        BY <1>5, <1>8, <3>2 DEF Quiet
      <3>. QED BY <3>1, <3>2
    <2>5. RowsAreTrue'
      <3>. SUFFICES ASSUME NEW v \in Workspaces
                    PROVE  /\ row'[v].state = "RUNNING" => Quiet(v)' /\ box'[v].ctr = "running"
                           /\ row'[v].state = "STOPPED" =>
                                Quiet(v)' /\ (scenario' = "unchanged" => box'[v].ctr # "running")
        BY DEF RowsAreTrue
      <3>1. Quiet(v) => Quiet(v)' /\ box'[v] = box[v]
        BY <1>0, <1>2, <1>4 DEF Lessened
      <3>. QED BY <2>1, <3>1 DEF RowsAreTrue, AloneStep
    <2>. QED BY <2>2, <2>3, <2>4, <2>5
  <1>12. Unchanging'
    BY DEF AloneStep, Unchanging
  <1>. QED BY <1>9, <1>10, <1>11, <1>12 DEF AloneInv, Up

LEMMA WorkAlone ==
  ASSUME AloneStep, NEW cmd, NEW b, NEW reply, NEW state, NEW image, Work(cmd, b, reply, state, image),
         Head(queue).ws \in Workspaces /\ reply = "ok" => Done(cmd, b)
  PROVE  AloneInv'
  <1>1. /\ queue # <<>> /\ Head(queue).cmd = cmd /\ Answer(reply, state, image) /\ UNCHANGED <<row, status, rec>>
        /\ box' = [box EXCEPT ![Head(queue).ws] = b]
    BY DEF Work, Serve
  <1>2. box \in [Workspaces -> Box] /\ queue \in Seq(Item)
    BY DEF AloneStep, IndInv, TypeOK
  <1>3. ASSUME NEW h \in Requests, h = Head(queue).by, reply = "ok"
        PROVE  Done(Head(queue).cmd, box'[Head(queue).ws])
    <2>1. 1 \in DOMAIN queue /\ Head(queue) = queue[1]
      BY <1>1, <1>2
    <2>2. req[h].pc = "wait" /\ req[h].ws = Head(queue).ws
      BY <1>3, <2>1 DEF AloneStep, IndInv, SendersAwait, Awaited
    <2>3. Head(queue).ws \in Workspaces
      BY <2>2 DEF AloneStep, IndInv, Asked
    <2>4. box'[Head(queue).ws] = b
      BY <1>1, <1>2, <2>3
    <2>. QED BY <1>1, <1>3, <2>3, <2>4
  <1>4. \A w \in Workspaces : w # Head(queue).ws => box'[w] = box[w]
    BY <1>1, <1>2
  <1>. QED BY <1>1, <1>3, <1>4, ExecutionAlone

LEMMA StartStopAlone ==
  ASSUME AloneStep, WorkerEgress \/ WorkerEnsure \/ WorkerStart \/ WorkerStop
  PROVE  AloneInv'
  <1>1. Head(queue).ws \in Workspaces => Target \in Box
    BY HeadIsTyped DEF AloneStep, WorkerEgress, WorkerEnsure, WorkerStart, WorkerStop, Serve
  <1>2. CASE WorkerEgress
    BY <1>2, WorkAlone DEF WorkerEgress, Done
  <1>3. CASE WorkerEnsure
    <2>1. \A b : Done("ensure", b)
      BY DEF Done
    <2>2. \E b, reply, state, image : Work("ensure", b, reply, state, image)
      BY <1>3 DEF WorkerEnsure
    <2>. QED BY <2>1, <2>2, WorkAlone
  <1>4. CASE WorkerStart
    <2>1. Head(queue).ws \in Workspaces => Done("start", [Target EXCEPT !.ctr = "running"])
      BY <1>1 DEF Done, Box
    <2>2. \/ Work("start", [Target EXCEPT !.ctr = "running"], "ok", "RUNNING", Target.meta)
          \/ \E b : Work("start", b, "error", "none", NoImage)
      BY <1>4 DEF WorkerStart
    <2>. QED BY <2>1, <2>2, WorkAlone
  <1>5. CASE WorkerStop
    <2>1. Head(queue).ws \in Workspaces => Done("stop", [Target EXCEPT !.ctr = "stopped"])
      BY <1>1 DEF Done, Box
    <2>2. \/ Work("stop", [Target EXCEPT !.ctr = "stopped"], "ok", "STOPPED", Target.meta)
          \/ \E b : Work("stop", b, "error", "none", NoImage)
      BY <1>5 DEF WorkerStop
    <2>. QED BY <2>1, <2>2, WorkAlone
  <1>. QED BY <1>2, <1>3, <1>4, <1>5

LEMMA DeleteSwitchAlone ==
  ASSUME AloneStep, WorkerDelete \/ WorkerSetRuntime
  PROVE  AloneInv'
  <1>. DEFINE from == Head(queue).from
              to == Head(queue).image
              new == Ensured(Emptied(Target, from, to), to)
  <1>1. /\ to \in Images \cup {NoImage} /\ from \in Images \cup {NoImage}
        /\ Head(queue).ws \in Workspaces => Target \in Box
    BY HeadIsTyped DEF AloneStep, WorkerDelete, WorkerSetRuntime, Serve
  <1>2. CASE WorkerDelete
    <2>1. Done("delete", NoBox)
      BY DEF Done
    <2>2. \/ Work("delete", NoBox, "ok", "CREATED", Target.meta)
          \/ \E b : Work("delete", b, "error", "none", NoImage)
      BY <1>2 DEF WorkerDelete
    <2>. QED BY <2>1, <2>2, WorkAlone
  <1>3. CASE WorkerSetRuntime
    <2>1. Head(queue).ws \in Workspaces => Done("runtime.set", new)
      <3>1. ASSUME Head(queue).ws \in Workspaces PROVE Emptied(Target, from, to) \in Box
        BY <1>1, <3>1, BoxesAreTyped
      <3>2. \A b \in Box : Ensured(b, to).ctr = "stopped"
        BY DEF Ensured, Prepared, Box
      <3>. QED BY <3>1, <3>2 DEF Done
    <2>2. \/ Work("runtime.set", new, "ok", "STOPPED", to)
          \/ \E b, reply : reply # "ok" /\ Work("runtime.set", b, reply, "none", NoImage)
      <3>1. PICK b, unsure :
              \/ Work("runtime.set", new, "ok", "STOPPED", to)
              \/ Work("runtime.set", b, IF unsure THEN "error" ELSE "refused", "none", NoImage)
              \/ Work("runtime.set", b, "refused", "none", NoImage)
              \/ Work("runtime.set", b, "error", "none", NoImage)
        BY <1>3 DEF WorkerSetRuntime
      <3>. QED BY <3>1
    <2>. HIDE DEF new
    <2>. QED BY <2>1, <2>2, WorkAlone
  <1>. QED BY <1>2, <1>3

\* No recovery is on its way: what the Worker still does for one changes nothing here.
LEMMA RecoveryWorkAlone ==
  ASSUME AloneStep, WorkerGreeted \/ WorkerReconcile
  PROVE  AloneInv'
  <1>1. /\ queue # <<>> /\ Answer("ok", "none", NoImage) /\ UNCHANGED <<row, status, box>>
        /\ \/ Head(queue).cmd = "egress"
           \/ Head(queue).cmd = "reconcile"
    BY DEF WorkerGreeted, WorkerReconcile, Serve
  <1>2. \A b : Done("egress", b) /\ Done("reconcile", b)
    BY DEF Done
  <1>3. Done(Head(queue).cmd, box'[Head(queue).ws])
    BY <1>1, <1>2
  <1>. QED BY <1>1, <1>3, ExecutionAlone

LEMMA WorkerAlone ==
  ASSUME AloneStep, WorkerStep
  PROVE  AloneInv'
  BY StartStopAlone, DeleteSwitchAlone, RecoveryWorkAlone DEF WorkerStep

-----------------------------------------------------------------------------
(* The theorems.                                                            *)

\* A recovery that takes a step is no longer where it was.
LEMMA RecoveriesMove ==
  ASSUME IndInv, NEW c \in Recoveries, Hello(c) \/ Recover(c)
  PROVE  rec' # rec
  <1>1. rec \in [Recoveries -> Recovery] /\ rec[c] \in Recovery
    BY DEF IndInv, TypeOK
  <1>2. ASSUME NEW pc, rec[c].pc # pc, rec' = [rec EXCEPT ![c].pc = pc] PROVE rec' # rec
    BY <1>1, <1>2 DEF Recovery
  <1>3. ASSUME rec[c].pc # "idle", rec' = [rec EXCEPT ![c] = NoRecovery] PROVE rec' # rec
    BY <1>1, <1>3, NoRecoveryIsTyped
  <1>4. CASE Hello(c)
    BY <1>2, <1>4 DEF Hello
  <1>5. CASE Greet(c)
    BY <1>2, <1>5 DEF Greet
  <1>6. CASE BeginRecovery(c)
    <2>1. rec'[c].pc = "call"
      BY <1>1, <1>6 DEF BeginRecovery, Recovery
    <2>. QED BY <1>6, <2>1 DEF BeginRecovery
  <1>7. CASE CallReconcile(c)
    BY <1>2, <1>3, <1>7 DEF CallReconcile
  <1>8. CASE RecoveryTimeout(c)
    <2>1. rec'[c] = IF rec[c].pc = "greeted" THEN [rec[c] EXCEPT !.pc = "begin"] ELSE NoRecovery
      BY <1>1, <1>8 DEF RecoveryTimeout
    <2>2. rec'[c].pc \in {"begin", "idle"}
      BY <1>1, <2>1, NoRecoveryIsTyped DEF Recovery
    <2>. QED BY <1>8, <2>2 DEF RecoveryTimeout
  <1>9. CASE EndRecovery(c)
    BY <1>3, <1>9 DEF EndRecovery
  <1>10. CASE \E w \in Workspaces : ApplyOne(c, w)
    <2>1. PICK w \in Workspaces : w \in rec[c].left /\ rec' = [rec EXCEPT ![c].left = @ \ {w}]
      BY <1>10 DEF ApplyOne
    <2>2. w \notin rec'[c].left
      BY <1>1, <2>1 DEF Recovery
    <2>. QED BY <2>1, <2>2
  <1>. QED BY <1>4, <1>5, <1>6, <1>7, <1>8, <1>9, <1>10 DEF Recover

LEMMA RacesInit == Init /\ scenario \in {"requests", "unchanged", "recovery"} => RacesInv
  <1>. SUFFICES ASSUME Init PROVE AloneInv
    BY IndInit DEF RacesInv
  <1>1. /\ \A h \in Requests : req[h] = NoTask
        /\ queue = <<>> /\ link \in {"down", "up"}
    BY DEF Init
  <1>2. PICK begun \in [Workspaces -> Beginnings(link = "up")] :
          /\ row = [w \in Workspaces |-> begun[w].row]
          /\ box = [w \in Workspaces |-> begun[w].box]
    BY DEF Init
  <1>3. ASSUME NEW b \in Beginnings(link = "up")
        PROVE  /\ b.row.state # "GONE" /\ (b.row.state = "CREATED" => b.box = NoBox)
               /\ b.row.state = "RUNNING" => b.box.ctr = "running"
               /\ b.row.state = "STOPPED" => b.box.ctr # "running"
    <2>1. PICK i \in Images, ctr \in {"stopped", "running"} :
            \/ b = [row |-> FreshRow("CREATED", "STOPPED", i), box |-> NoBox]
            \/ b = [row |-> FreshRow("STOPPED", "STOPPED", i), box |-> BoxOf("stopped", i)]
            \/ b = [row |-> FreshRow("RUNNING", "RUNNING", i), box |-> BoxOf("running", i)]
            \/ b = [row |-> FreshRow("WORKER_OFFLINE", "UNKNOWN", i), box |-> BoxOf(ctr, i)]
      <3>1. PICK i \in Images :
              b \in {[row |-> FreshRow("CREATED", "STOPPED", i), box |-> NoBox]} \cup
                    IF link = "up"
                      THEN {[row |-> FreshRow("STOPPED", "STOPPED", i), box |-> BoxOf("stopped", i)],
                            [row |-> FreshRow("RUNNING", "RUNNING", i), box |-> BoxOf("running", i)]}
                      ELSE {[row |-> FreshRow("WORKER_OFFLINE", "UNKNOWN", i), box |-> BoxOf(ctr, i)] :
                              ctr \in {"stopped", "running"}}
        BY DEF Beginnings
      <3>. QED BY <3>1
    <2>2. \A s, d : FreshRow(s, d, i).state = s
      BY DEF FreshRow
    <2>3. \A c : BoxOf(c, i).ctr = c
      BY DEF BoxOf
    <2>. QED BY <2>1, <2>2, <2>3
  <1>4. ~Active(NoTask) /\ NoTask.pc = "idle" /\ NoTask.cmd = "none"
    BY DEF NoTask, Active
  <1>5. \A w : Quiet(w)
    BY <1>1 DEF Quiet
  <1>6. Up
    BY <1>1, <1>2, <1>3, <1>4, <1>5 DEF Up, OwnersOwn, LastOnItsWorkspace, AnswersAreTrue, RowsAreTrue
  <1>7. DeletesAreDone /\ NothingIsLeft /\ Unchanging
    BY <1>1, <1>2, <1>3, <1>4, <1>5 DEF DeletesAreDone, NothingIsLeft, Unchanging
  <1>. QED BY <1>6, <1>7 DEF AloneInv

\* Whatever goes wrong but a Worker that is swept while it is connected, or stops its
\* Workspaces itself and tells nobody.
LEMMA RacesStep ==
  ASSUME Upsets \cap {"stall", "failclosed"} = {}
  PROVE  RacesInv /\ [RacesNext]_<<vars, scenario>> => RacesInv'
  <1>. SUFFICES ASSUME RacesInv, [RacesNext]_<<vars, scenario>> PROVE RacesInv'
    OBVIOUS
  <1>1. IndInv' /\ scenario' = scenario
    BY IndNext DEF RacesInv, RacesNext
  <1>. SUFFICES ASSUME scenario # "recovery" PROVE AloneInv'
    BY <1>1 DEF RacesInv
  <1>2. CASE RacesNext
    <2>1. AloneStep /\ Next /\ rec' = rec /\ ~ControlPlaneRestart
      BY <1>1, <1>2 DEF AloneStep, RacesInv, RacesNext, RequestsAlone, NoChanges
    <2>2. ASSUME NEW h \in Requests, Progress(h) PROVE AloneInv'
      BY <2>1, <2>2, BeginsAlone, CallAlone, TimeoutAlone, SettlesAlone DEF Progress
    <2>3. ASSUME NEW h \in Requests, NEW w \in Workspaces,
                 \/ AskStart(h, w) \/ AskStop(h, w) \/ AskDelete(h, w)
                 \/ \E target \in Images : AskChange(h, w, target)
          PROVE  AloneInv'
      BY <2>1, <2>3, AsksAlone
    <2>4. ASSUME NEW w \in Workspaces, DeleteUnassigned(w) PROVE AloneInv'
      BY <2>1, <2>4, DeleteUnassignedAlone
    <2>5. ASSUME NEW c \in Recoveries PROVE ~(Hello(c) \/ Recover(c))
      BY <2>1, RecoveriesMove DEF AloneStep
    <2>6. CASE WorkerStep
      BY <2>1, <2>6, WorkerAlone
    <2>7. CASE NoticeClose
      BY <2>1, <2>7, NoticeCloseAlone
    <2>8. CASE CloseRevoked \/ Heartbeat \/ Enable
      BY <2>1, <2>8, LinkStays DEF CloseRevoked, Heartbeat, Enable
    <2>9. CASE Drop \/ WorkerCrash
      BY <2>1, <2>9, LossesAlone
    <2>10. CASE Sweep \/ Revoke
      BY <2>1, <2>10, SweepsAlone
    <2>11. ~FailClosed
      BY DEF FailClosed, Upset
    <2>. QED BY <2>1, <2>2, <2>3, <2>4, <2>5, <2>6, <2>7, <2>8, <2>9, <2>10, <2>11 DEF Next
  <1>3. CASE UNCHANGED <<vars, scenario>>
    <2>1. AloneStep
      BY <1>1, <1>3 DEF AloneStep, RacesInv, AloneInv, Unchanging, vars
    <2>. QED BY <1>3, <2>1, LinkStays DEF vars
  <1>. QED BY <1>2, <1>3

\* Among requests alone, whatever times out, fails or is lost, a deleted Workspace
\* leaves nothing on its Worker, and none of the commands before or after the delete
\* brings anything back.
THEOREM RequestsAlwaysLeaveNothing ==
  ASSUME Upsets \cap {"stall", "failclosed"} = {}
  PROVE  RacesSpec => []RequestsLeaveNothing
  <1>. QED BY RacesInit, RacesStep, RacesInvSaysSo, PTL DEF RacesSpec

\* Among requests alone a Workspace shown as RUNNING runs and, where no Runtime is
\* changed, one shown as STOPPED does not.
THEOREM RequestsAlwaysTellTruth ==
  ASSUME Upsets \cap {"stall", "failclosed"} = {}
  PROVE  RacesSpec => []RequestsTellTruth
  <1>. QED BY RacesInit, RacesStep, RacesInvSaysSo, PTL DEF RacesSpec

-----------------------------------------------------------------------------
(* What a recovery shows: the inductive invariant.                          *)

\* A recovery before it takes the rows, and after.
Opening(c) == rec[c].pc \in {"greet", "greeted", "begin"}
Deciding(c) == rec[c].pc \in {"call", "wait", "apply"}

\* A command, of a request or in the queue, that can only bring about what the row
\* wants: what the Worker reported of the Workspace stays true of what it wants.
Meant(t, r) ==
  \/ r.desired = "RUNNING" /\ t.cmd \in {"egress", "ensure", "start"}
  \/ r.desired = "STOPPED" /\ (t.cmd = "stop" \/ (t.cmd = "runtime.set" /\ t.image = r.image))
  \/ r.desired = "DELETED" /\ t.cmd = "delete"

RequestsMeant(w) == \A h \in Requests : Active(req[h]) /\ req[h].ws = w => Meant(req[h], row[w])
QueueMeant(w) == \A n \in DOMAIN queue : queue[n].ws = w => Meant(queue[n], row[w])
BehindMeant(c, w) ==
  \A m, n \in DOMAIN queue : m < n /\ queue[m].by = c /\ queue[n].ws = w => Meant(queue[n], row[w])

\* A report from which a recovery may decide for a row.
TrueReport(report, r, b) ==
  /\ report = "RUNNING" /\ r.desired \in {"RUNNING", "UNKNOWN"} => b.ctr = "running" /\ b.img = r.image
  /\ report = "STOPPED" /\ r.desired \in {"STOPPED", "UNKNOWN"} => b.ctr # "running" /\ b.meta = r.image
  /\ report = "MISSING" /\ r.desired = "DELETED" => b = NoBox
ReportHolds(c, w) ==
  w \in rec[c].left /\ StillAsSeen(w, rec[c].seen[w]) => TrueReport(rec[c].report[w], row[w], box[w])

\* A row a recovery will decide for: whatever was under way when it was taken is meant by
\* its intent, and every later begin takes the row away.
Decided(c, w) ==
  row[w].state = "WORKER_OFFLINE" =>
    /\ RequestsMeant(w)
    /\ rec[c].pc = "wait" => BehindMeant(c, w)
    /\ rec[c].pc = "apply" => QueueMeant(w) /\ ReportHolds(c, w)

\* Without a connection there is no recovery, and no request but first starts that will
\* be refused.
Unlinked ==
  \A h \in Requests : req[h].pc # "idle" =>
    req[h].pc = "begin" /\ req[h].cmd = "egress" /\ row[req[h].ws].state \in {"CREATED", "GONE"}
Attended == \A h \in Requests : req[h].offline = FALSE
LinkInv ==
  /\ link \in {"down", "up"}
  /\ link = "down" => status # "ONLINE" /\ Unlinked /\ \A c \in Recoveries : rec[c].pc = "idle"
  /\ Attended
  /\ \A c, d \in Recoveries : rec[c].pc # "idle" /\ rec[d].pc # "idle" => c = d

RecInv ==
  /\ LinkInv
  /\ \A c \in Recoveries : Opening(c) => OwnersOwn
  /\ \A c \in Recoveries, w \in Workspaces : Deciding(c) => Decided(c, w)

RecoveryStep == IndInv /\ IndInv' /\ RecInv

\* The invariant allows no decision that is not true.
LEMMA DecisionsAreTrue ==
  ASSUME IndInv, RecInv, NEW c \in Recoveries, NEW w \in Workspaces, ApplyOne(c, w), row'[w] # row[w]
  PROVE  CASE row'[w].state = "RUNNING" -> box[w].ctr = "running" /\ box[w].img = row'[w].image
           [] row'[w].state = "STOPPED" -> box[w].ctr # "running" /\ box[w].meta = row'[w].image
           [] row'[w].state = "GONE" -> box[w] = NoBox
           [] OTHER -> TRUE
  <1>. DEFINE seen == rec[c].seen[w]
              report == rec[c].report[w]
              state == Recovered(seen, report)
              r == [row[w] EXCEPT
                      !.state = state,
                      !.desired = IF @ = "UNKNOWN" /\ state # "ERROR" THEN state ELSE @,
                      !.changed = @ \/ (state # "ERROR" /\ row[w].prev # NoImage)]
  <1>1. /\ rec[c].pc = "apply" /\ w \in rec[c].left /\ row \in [Workspaces -> Row] /\ row[w] \in Row
        /\ row' = CASE report = "RETRY" \/ ~StillAsSeen(w, seen) -> row
                    [] report = "MISSING" /\ seen.desired = "DELETED" /\ StillAsSeen(w, seen)
                         -> [row EXCEPT ![w] = NoRow]
                    [] OTHER -> [row EXCEPT ![w] = r]
    BY DEF ApplyOne, IndInv, TypeOK
  <1>2. StillAsSeen(w, seen)
    BY <1>1
  <1>3. TrueReport(report, row[w], box[w]) /\ seen.desired = row[w].desired
    <2>1. Decided(c, w) /\ row[w].state = "WORKER_OFFLINE"
      BY <1>1, <1>2 DEF RecInv, Deciding, StillAsSeen
    <2>. QED BY <1>1, <1>2, <2>1 DEF Decided, ReportHolds, StillAsSeen
  <1>4. r.state = state /\ r.image = row[w].image
    BY <1>1 DEF Row
  <1>. HIDE DEF r, state
  <1>5. \/ row'[w] = NoRow /\ report = "MISSING" /\ seen.desired = "DELETED"
        \/ row'[w] = r
    BY <1>1, <1>2
  <1>6. CASE row'[w] = NoRow /\ report = "MISSING" /\ seen.desired = "DELETED"
    BY <1>3, <1>6 DEF TrueReport, NoRow
  <1>7. CASE row'[w] = r
    <2>1. \/ state = "ERROR"
          \/ state = report /\ report \in {"RUNNING", "STOPPED"} /\ seen.desired \in {report, "UNKNOWN"}
      BY DEF state, Recovered
    <2>. QED BY <1>3, <1>4, <1>7, <2>1 DEF TrueReport
  <1>. QED BY <1>5, <1>6, <1>7

-----------------------------------------------------------------------------
(* Steps of requests.                                                       *)

\* What a step other than a recovery's own may do: it takes no row back, begins no
\* request for a row that waits for a recovery, and lets owners own.
Orderly ==
  /\ \A w \in Workspaces : row'[w].state = "WORKER_OFFLINE" => row'[w] = row[w]
  /\ \A h \in Requests : Active(req'[h]) /\ row'[req'[h].ws].state = "WORKER_OFFLINE" =>
       Active(req[h]) /\ req'[h].ws = req[h].ws /\ \A r : Meant(req[h], r) => Meant(req'[h], r)
  /\ OwnersOwn => OwnersOwn'
  /\ link = "down" => Unlinked'
  /\ Attended'

\* What it may do to the queue.
SameCommand(t, i) == i.cmd = t.cmd /\ i.ws = t.ws /\ i.image = t.image
Queued ==
  \/ \E k : Remains(k)
  \/ \E h \in Requests, i \in Item : Active(req[h]) /\ SameCommand(req[h], i) /\ queue' = Append(queue, i)

LEMMA QueueStays ==
  ASSUME IndInv, IndInv', Queued, NEW c \in Recoveries, NEW w \in Workspaces, row'[w] = row[w], RequestsMeant(w)
  PROVE  /\ BehindMeant(c, w) => BehindMeant(c, w)'
         /\ QueueMeant(w) => QueueMeant(w)'
  <1>1. queue \in Seq(Item) /\ queue' \in Seq(Item) /\ c # Nobody
    BY LifecycleAssumption DEF IndInv, TypeOK
  <1>2. CASE \E k : Remains(k)
    <2>1. PICK k : Remains(k)
      BY <1>2
    <2>2. ASSUME NEW n \in DOMAIN queue'
          PROVE  /\ n \in Nat /\ k \in Nat /\ n + k \in DOMAIN queue /\ queue'[n].ws = queue[n + k].ws
                 /\ \A r : Meant(queue[n + k], r) => Meant(queue'[n], r)
                 /\ queue'[n].by = c => queue[n + k].by = c
      BY <1>1, <2>1 DEF Remains, Meant
    <2>3. ASSUME QueueMeant(w) PROVE QueueMeant(w)'
      BY <2>2, <2>3 DEF QueueMeant
    <2>4. ASSUME BehindMeant(c, w), NEW m \in DOMAIN queue', NEW n \in DOMAIN queue',
                 m < n, queue'[m].by = c, queue'[n].ws = w
          PROVE  Meant(queue'[n], row'[w])
      <3>1. m + k < n + k /\ m + k \in DOMAIN queue /\ n + k \in DOMAIN queue
        BY <2>2, <2>4
      <3>2. queue[m + k].by = c /\ queue[n + k].ws = w
        BY <2>2, <2>4
      <3>3. Meant(queue[n + k], row[w])
        BY <2>4, <3>1, <3>2 DEF BehindMeant
      <3>. QED BY <2>2, <3>3
    <2>5. BehindMeant(c, w) => BehindMeant(c, w)'
      BY <2>4 DEF BehindMeant
    <2>. QED BY <2>3, <2>5
  <1>3. CASE \E h \in Requests, i \in Item : Active(req[h]) /\ SameCommand(req[h], i) /\ queue' = Append(queue, i)
    <2>1. PICK h \in Requests, i \in Item : Active(req[h]) /\ SameCommand(req[h], i) /\ queue' = Append(queue, i)
      BY <1>3
    <2>2. i.ws = w => Meant(i, row[w])
      BY <2>1 DEF SameCommand, RequestsMeant, Meant
    <2>3. /\ DOMAIN queue' = 1..(Len(queue) + 1) /\ DOMAIN queue = 1..Len(queue) /\ Len(queue) \in Nat
          /\ queue'[Len(queue) + 1] = i /\ \A n \in 1..Len(queue) : queue'[n] = queue[n]
      BY <1>1, <2>1
    <2>4. QueueMeant(w) => QueueMeant(w)'
      BY <2>2, <2>3 DEF QueueMeant
    <2>5. ASSUME BehindMeant(c, w), NEW m \in DOMAIN queue', NEW n \in DOMAIN queue',
                 m < n, queue'[m].by = c, queue'[n].ws = w
          PROVE  Meant(queue'[n], row'[w])
      <3>1. m \in DOMAIN queue /\ queue'[m] = queue[m]
        BY <2>3, <2>5
      <3>2. CASE n = Len(queue) + 1
        BY <2>2, <2>3, <2>5, <3>2
      <3>3. CASE n # Len(queue) + 1
        <4>1. n \in DOMAIN queue /\ queue'[n] = queue[n]
          BY <2>3, <3>3
        <4>. QED BY <2>5, <3>1, <4>1 DEF BehindMeant
      <3>. QED BY <3>2, <3>3
    <2>6. BehindMeant(c, w) => BehindMeant(c, w)'
      BY <2>5 DEF BehindMeant
    <2>. QED BY <2>4, <2>6
  <1>. QED BY <1>2, <1>3 DEF Queued

\* What was decided stays so, as long as what is done to the box keeps true what was
\* reported of it.
Kept(w) == row[w].state = "WORKER_OFFLINE" /\ QueueMeant(w) =>
  \A report : TrueReport(report, row[w], box[w]) => TrueReport(report, row[w], box'[w])

LEMMA DecidedStays ==
  ASSUME RecoveryStep, Orderly, Queued, NEW c \in Recoveries, Deciding(c), NEW w \in Workspaces,
         rec'[c] = rec[c], Kept(w)
  PROVE  Decided(c, w)'
  <1>. SUFFICES ASSUME row'[w].state = "WORKER_OFFLINE"
                PROVE  /\ RequestsMeant(w)'
                       /\ rec[c].pc = "wait" => BehindMeant(c, w)'
                       /\ rec[c].pc = "apply" => QueueMeant(w)' /\ ReportHolds(c, w)'
    BY DEF Decided
  <1>1. row'[w] = row[w] /\ row[w].state = "WORKER_OFFLINE"
    BY DEF Orderly
  <1>2. /\ RequestsMeant(w)
        /\ rec[c].pc = "wait" => BehindMeant(c, w)
        /\ rec[c].pc = "apply" => QueueMeant(w) /\ ReportHolds(c, w)
    BY <1>1 DEF RecoveryStep, RecInv, Decided
  <1>3. RequestsMeant(w)'
    <2>1. ASSUME NEW h \in Requests, Active(req'[h]), req'[h].ws = w PROVE Meant(req'[h], row'[w])
      <3>1. Active(req[h]) /\ req[h].ws = w /\ \A r : Meant(req[h], r) => Meant(req'[h], r)
        BY <2>1 DEF Orderly
      <3>2. Meant(req[h], row[w])
        BY <1>2, <3>1 DEF RequestsMeant
      <3>. QED BY <1>1, <3>1, <3>2
    <2>. QED BY <2>1 DEF RequestsMeant, Active
  <1>4. /\ rec[c].pc = "wait" => BehindMeant(c, w)'
        /\ rec[c].pc = "apply" => QueueMeant(w)'
    BY <1>1, <1>2, QueueStays DEF RecoveryStep
  <1>5. ASSUME rec[c].pc = "apply" PROVE ReportHolds(c, w)'
    <2>. SUFFICES ASSUME w \in rec'[c].left, StillAsSeen(w, rec[c].seen[w])'
                  PROVE  TrueReport(rec'[c].report[w], row'[w], box'[w])
      BY DEF ReportHolds
    <2>1. StillAsSeen(w, rec[c].seen[w])
      BY <1>1 DEF StillAsSeen
    <2>2. TrueReport(rec[c].report[w], row[w], box[w])
      BY <1>2, <1>5, <2>1 DEF ReportHolds
    <2>. QED BY <1>1, <1>2, <1>5, <2>2 DEF Kept
  <1>. QED BY <1>3, <1>4, <1>5

\* A step that is not a recovery's keeps the invariant.
LEMMA OthersKeep ==
  ASSUME RecoveryStep, Orderly, Queued, \A w \in Workspaces : Kept(w),
         UNCHANGED <<link, rec>>, link = "down" => status' # "ONLINE"
  PROVE  RecInv'
  <1>1. LinkInv'
    BY DEF RecoveryStep, RecInv, LinkInv, Orderly
  <1>2. \A c \in Recoveries : Opening(c)' => OwnersOwn'
    BY DEF RecoveryStep, RecInv, Opening, Orderly
  <1>3. ASSUME NEW c \in Recoveries, NEW w \in Workspaces, Deciding(c)' PROVE Decided(c, w)'
    <2>1. Deciding(c) /\ rec'[c] = rec[c]
      BY <1>3 DEF Deciding
    <2>. QED BY <2>1, DecidedStays
  <1>. QED BY <1>1, <1>2, <1>3 DEF RecInv

LEMMA BoxesStay == UNCHANGED box => \A w \in Workspaces : Kept(w)
  BY DEF Kept

\* Requests that go on, or end, while the rows stay.
LEMMA GoingOnIsOrderly ==
  ASSUME RecoveryStep, UNCHANGED row, Attended', link = "down" => Unlinked',
         \A h \in Requests : Active(req'[h]) =>
           /\ Active(req[h]) /\ req'[h].ws = req[h].ws
           /\ \A r : Owns(req[h], r) => Owns(req'[h], r)
           /\ \A r : Meant(req[h], r) => Meant(req'[h], r)
  PROVE  Orderly
  <1>1. ASSUME OwnersOwn PROVE OwnersOwn'
    <2>. SUFFICES ASSUME NEW h \in Requests, Active(req'[h])
                  PROVE  Owns(req'[h], row'[req'[h].ws]) /\ Sole(h)'
      BY DEF OwnersOwn
    <2>1. Owns(req[h], row[req[h].ws]) /\ Sole(h)
      BY <1>1 DEF OwnersOwn
    <2>. QED BY <2>1 DEF Sole
  <1>. QED BY <1>1 DEF Orderly

LEMMA AskingKeepsDecided ==
  ASSUME RecoveryStep, NEW h \in Requests, NEW w \in Workspaces,
         \/ AskStart(h, w) \/ AskStop(h, w) \/ AskDelete(h, w)
         \/ \E target \in Images : AskChange(h, w, target)
  PROVE  RecInv'
  <1>1. PICK task : /\ Ask(h, task) /\ task.pc = "begin" /\ task.offline = FALSE
                    /\ task.ws = w /\ (link = "down" => task.cmd = "egress" /\ row[w].state \in {"CREATED", "GONE"})
    <2>1. CASE AskStart(h, w)
      <3>. DEFINE task == [NoTask EXCEPT !.pc = "begin", !.cmd = "egress", !.ws = w, !.image = row[w].image]
      <3>1. task.pc = "begin" /\ task.offline = FALSE /\ task.ws = w /\ task.cmd = "egress"
        BY DEF NoTask
      <3>2. Ask(h, task) /\ (link = "down" => row[w].state = "CREATED")
        BY <2>1 DEF AskStart, Connected
      <3>. HIDE DEF task
      <3>. QED BY <3>1, <3>2
    <2>2. CASE AskStop(h, w)
      <3>. DEFINE task == [NoTask EXCEPT !.pc = "begin", !.cmd = "stop", !.ws = w, !.image = row[w].image]
      <3>1. task.pc = "begin" /\ task.offline = FALSE /\ task.ws = w
        BY DEF NoTask
      <3>2. Ask(h, task) /\ link # "down"
        BY <2>2 DEF AskStop, Connected
      <3>. HIDE DEF task
      <3>. QED BY <3>1, <3>2
    <2>3. CASE AskDelete(h, w)
      <3>. DEFINE task == [NoTask EXCEPT !.pc = "begin", !.cmd = "delete", !.ws = w, !.image = row[w].image]
      <3>1. task.pc = "begin" /\ task.offline = FALSE /\ task.ws = w
        BY DEF NoTask
      <3>2. Ask(h, task) /\ link # "down"
        BY <2>3 DEF AskDelete, Connected
      <3>. HIDE DEF task
      <3>. QED BY <3>1, <3>2
    <2>4. CASE \E target \in Images : AskChange(h, w, target)
      <3>0. PICK target \in Images : AskChange(h, w, target)
        BY <2>4
      <3>. DEFINE task == [NoTask EXCEPT !.pc = "begin", !.cmd = "runtime.set", !.ws = w, !.image = target,
                                         !.from = ChangeFrom(row[w], target), !.restore = row[w]]
      <3>1. task.pc = "begin" /\ task.offline = FALSE /\ task.ws = w
        BY DEF NoTask
      <3>2. Ask(h, task) /\ link # "down"
        BY <3>0 DEF AskChange, Connected
      <3>. HIDE DEF task
      <3>. QED BY <3>1, <3>2
    <2>. QED BY <2>1, <2>2, <2>3, <2>4
  <1>2. /\ UNCHANGED <<row, status, link, rec, queue, box, upsets>> /\ req' = [req EXCEPT ![h] = task]
        /\ req \in [Requests -> Task] /\ queue \in Seq(Item)
    BY <1>1 DEF Ask, RecoveryStep, IndInv, TypeOK
  <1>3. req'[h] = task /\ \A g \in Requests : g # h => req'[g] = req[g]
    BY <1>2
  <1>4. Attended'
    BY <1>1, <1>3 DEF RecoveryStep, RecInv, LinkInv, Attended
  <1>5. link = "down" => Unlinked'
    BY <1>1, <1>2, <1>3 DEF RecoveryStep, RecInv, LinkInv, Unlinked
  <1>6. \A g \in Requests : Active(req'[g]) => g # h
    BY <1>1, <1>3 DEF Active
  <1>7. Orderly
    BY <1>2, <1>3, <1>4, <1>5, <1>6, GoingOnIsOrderly
  <1>8. Queued
    BY <1>2, WhatRemains DEF Queued
  <1>. QED BY <1>2, <1>7, <1>8, BoxesStay, OthersKeep DEF RecoveryStep, RecInv, LinkInv

\* A request begins: no other was begun for a row that is not in transition, and the row
\* is taken from whichever recovery it waited for.
LEMMA BeginKeepsDecided ==
  ASSUME RecoveryStep, NEW h \in Requests, NEW cmd, NEW matches, NEW r, BeginWith(h, cmd, matches, r),
         ASSUME matches, req[h].ws \in Workspaces, req[h].cmd = cmd
         PROVE  /\ row[req[h].ws].state \notin Transitional /\ link # "down"
                /\ r.state \in Transitional /\ Owns([req[h] EXCEPT !.pc = "call"], r)
  PROVE  RecInv'
  <1>1. /\ req[h].pc = "begin" /\ req[h].cmd = cmd /\ UNCHANGED <<status, link, rec, queue, box, upsets>>
        /\ req \in [Requests -> Task] /\ row \in [Workspaces -> Row] /\ Asked(req[h]) /\ queue \in Seq(Item)
    BY DEF BeginWith, RecoveryStep, IndInv, TypeOK
  <1>2. req[h].ws \in Workspaces /\ req[h] \in Task
    BY <1>1 DEF Asked
  <1>3. Queued
    BY <1>1, WhatRemains DEF Queued
  <1>4. CASE ~matches /\ req' = [req EXCEPT ![h] = NoTask] /\ UNCHANGED row
    <2>1. req'[h] = NoTask /\ \A g \in Requests : g # h => req'[g] = req[g]
      BY <1>1, <1>4
    <2>2. Attended'
      BY <2>1 DEF RecoveryStep, RecInv, LinkInv, Attended, NoTask
    <2>3. link = "down" => Unlinked'
      BY <1>4, <2>1 DEF RecoveryStep, RecInv, LinkInv, Unlinked, NoTask
    <2>4. \A g \in Requests : Active(req'[g]) => g # h
      BY <2>1 DEF Active, NoTask
    <2>5. Orderly
      BY <1>4, <2>1, <2>2, <2>3, <2>4, GoingOnIsOrderly
    <2>. QED BY <1>1, <1>3, <2>5, BoxesStay, OthersKeep DEF RecoveryStep, RecInv, LinkInv
  <1>5. CASE matches /\ row' = [row EXCEPT ![req[h].ws] = r] /\ req' = [req EXCEPT ![h].pc = "call"]
    <2>1. PICK w \in Workspaces : w = req[h].ws
      BY <1>2
    <2>2. row[w].state \notin Transitional /\ link # "down" /\ r.state \in Transitional
      BY <1>1, <1>2, <1>5, <2>1
    <2>3. /\ req'[h].pc = "call" /\ req'[h].ws = w /\ Owns(req'[h], r) /\ req'[h].offline = req[h].offline
          /\ \A g \in Requests : g # h => req'[g] = req[g]
      BY <1>1, <1>2, <1>5, <2>1 DEF Task
    <2>4. row'[w] = r /\ \A v \in Workspaces : v # w => row'[v] = row[v]
      BY <1>1, <1>5, <2>1
    <2>5. r.state # "WORKER_OFFLINE"
      BY <2>2 DEF Transitional
    <2>6. ASSUME OwnersOwn PROVE OwnersOwn'
      <3>1. \A g \in Requests : Active(req[g]) => req[g].ws # w
        BY <2>2, <2>6 DEF OwnersOwn, Owns, Transitional
      <3>. SUFFICES ASSUME NEW g \in Requests, Active(req'[g])
                    PROVE  Owns(req'[g], row'[req'[g].ws]) /\ Sole(g)'
        BY DEF OwnersOwn
      <3>2. CASE g = h
        BY <2>3, <2>4, <3>1, <3>2 DEF Sole
      <3>3. CASE g # h
        <4>1. req'[g] = req[g] /\ req[g].ws # w /\ Owns(req[g], row[req[g].ws]) /\ Sole(g)
          BY <2>3, <2>6, <3>1, <3>3 DEF OwnersOwn
        <4>2. req[g].ws \in Workspaces
          BY <3>3, <4>1 DEF RecoveryStep, IndInv, Asked, Active
        <4>3. Sole(g)'
          BY <2>3, <4>1 DEF Sole
        <4>. QED BY <2>4, <4>1, <4>2, <4>3
      <3>. QED BY <3>2, <3>3
    <2>7. Attended'
      BY <2>3 DEF RecoveryStep, RecInv, LinkInv, Attended
    <2>8. \A v \in Workspaces : row'[v].state = "WORKER_OFFLINE" => row'[v] = row[v]
      BY <2>4, <2>5
    <2>9. ASSUME NEW g \in Requests, Active(req'[g]), row'[req'[g].ws].state = "WORKER_OFFLINE"
          PROVE  req'[g] = req[g]
      BY <2>3, <2>4, <2>5, <2>9
    <2>10. Orderly
      BY <2>2, <2>6, <2>7, <2>8, <2>9 DEF Orderly
    <2>. QED BY <1>1, <1>3, <2>2, <2>10, BoxesStay, OthersKeep
  <1>. QED BY <1>4, <1>5 DEF BeginWith

LEMMA BeginsKeepDecided ==
  ASSUME RecoveryStep, NEW h \in Requests,
         BeginStart(h) \/ BeginStop(h) \/ BeginDelete(h) \/ BeginChange(h)
  PROVE  RecInv'
  <1>. DEFINE r == row[req[h].ws]
              t == [req[h] EXCEPT !.pc = "call"]
  <1>1. /\ req[h] \in Task /\ (req[h].ws \in Workspaces => r \in Row)
        /\ link \in {"down", "up"} /\ (link = "down" /\ req[h].pc = "begin" =>
                                         req[h].cmd = "egress" /\ r.state \in {"CREATED", "GONE"})
    BY DEF RecoveryStep, IndInv, TypeOK, RecInv, LinkInv, Unlinked
  <1>2. /\ t.pc = "call" /\ t.cmd = req[h].cmd /\ t.image = req[h].image
        /\ req[h].image \in Images \cup {NoImage} /\ req[h].from \in Images \cup {NoImage}
    BY <1>1 DEF Task
  <1>. HIDE DEF t, r
  <1>3. CASE BeginStart(h)
    <2>. DEFINE new == [r EXCEPT !.state = "STARTING", !.desired = "RUNNING"]
    <2>1. PICK matches : /\ BeginWith(h, "egress", matches, new) /\ req[h].pc = "begin"
                         /\ matches => /\ r.state \in {"CREATED", "STOPPED", "ERROR", "WORKER_OFFLINE"}
                                       /\ r.state = "CREATED" => Connected
      BY <1>3 DEF BeginStart, BeginWith, r
    <2>2. ASSUME matches, req[h].ws \in Workspaces, req[h].cmd = "egress"
          PROVE  /\ r.state \notin Transitional /\ link # "down"
                 /\ new.state \in Transitional /\ Owns(t, new)
      <3>1. link # "down"
        BY <1>1, <2>1, <2>2 DEF Connected
      <3>. QED BY <1>1, <1>2, <2>1, <2>2, <3>1 DEF Row, Owns, Transitional
    <2>. HIDE DEF new
    <2>. QED BY <2>1, <2>2, BeginKeepsDecided DEF t, r
  <1>4. CASE BeginStop(h)
    <2>. DEFINE new == [r EXCEPT !.state = "STOPPING", !.desired = "STOPPED"]
    <2>1. PICK matches : /\ BeginWith(h, "stop", matches, new) /\ req[h].pc = "begin" /\ req[h].cmd = "stop"
                         /\ matches => r.state = "RUNNING"
      BY <1>4 DEF BeginStop, BeginWith, r
    <2>2. ASSUME matches, req[h].ws \in Workspaces
          PROVE  /\ r.state \notin Transitional /\ link # "down"
                 /\ new.state \in Transitional /\ Owns(t, new)
      BY <1>1, <1>2, <2>1, <2>2 DEF Row, Owns, Transitional
    <2>. HIDE DEF new
    <2>. QED BY <2>1, <2>2, BeginKeepsDecided DEF t, r
  <1>5. CASE BeginDelete(h)
    <2>. DEFINE new == [r EXCEPT !.state = "DELETING", !.desired = "DELETED"]
    <2>1. PICK matches : /\ BeginWith(h, "delete", matches, new) /\ req[h].pc = "begin" /\ req[h].cmd = "delete"
                         /\ matches => r.state \notin Transitional \cup {"GONE"}
      BY <1>5 DEF BeginDelete, BeginWith, r
    <2>2. ASSUME matches, req[h].ws \in Workspaces
          PROVE  /\ r.state \notin Transitional /\ link # "down"
                 /\ new.state \in Transitional /\ Owns(t, new)
      BY <1>1, <1>2, <2>1, <2>2 DEF Row, Owns, Transitional
    <2>. HIDE DEF new
    <2>. QED BY <2>1, <2>2, BeginKeepsDecided DEF t, r
  <1>6. CASE BeginChange(h)
    <2>. DEFINE new == [r EXCEPT !.state = "UPGRADING", !.image = req[h].image, !.prev = req[h].from,
                                 !.changed = FALSE]
    <2>1. PICK matches : /\ BeginWith(h, "runtime.set", matches, new) /\ req[h].pc = "begin" /\ req[h].cmd = "runtime.set"
                         /\ matches => r.state \in {"STOPPED", "ERROR"}
      BY <1>6 DEF BeginChange, BeginWith, RuntimeChangeIncomplete, r
    <2>2. ASSUME matches, req[h].ws \in Workspaces
          PROVE  /\ r.state \notin Transitional /\ link # "down"
                 /\ new.state \in Transitional /\ Owns(t, new)
      BY <1>1, <1>2, <2>1, <2>2 DEF Row, Owns, Transitional
    <2>. HIDE DEF new
    <2>. QED BY <2>1, <2>2, BeginKeepsDecided DEF t, r
  <1>. QED BY <1>3, <1>4, <1>5, <1>6

\* A request sends its command, or gives up waiting for it.
LEMMA WaitsKeepDecided ==
  ASSUME RecoveryStep, NEW h \in Requests, Call(h) \/ Timeout(h)
  PROVE  RecInv'
  <1>1. /\ req[h].pc \in {"call", "wait"} /\ UNCHANGED <<row, status, link, rec, box>>
        /\ req \in [Requests -> Task] /\ req[h] \in Task /\ queue \in Seq(Item) /\ link \in {"down", "up"}
    BY DEF Call, Timeout, RecoveryStep, IndInv, TypeOK, RecInv, LinkInv
  <1>2. link = "up"
    BY <1>1 DEF RecoveryStep, RecInv, LinkInv, Unlinked
  <1>3. PICK pc \in {"wait", "fail"} : req' = [req EXCEPT ![h].pc = pc]
    BY <1>2 DEF Call, Timeout, Connected
  <1>4. /\ req'[h].pc = pc /\ req'[h].cmd = req[h].cmd /\ req'[h].ws = req[h].ws /\ req'[h].image = req[h].image
        /\ req'[h].offline = req[h].offline /\ \A g \in Requests : g # h => req'[g] = req[g]
    BY <1>1, <1>3 DEF Task
  <1>5. Attended'
    BY <1>4 DEF RecoveryStep, RecInv, LinkInv, Attended
  <1>6. Active(req[h]) /\ (\A r : Owns(req[h], r) => Owns(req'[h], r)) /\ (\A r : Meant(req[h], r) => Meant(req'[h], r))
    BY <1>1, <1>4 DEF Active, Owns, Meant
  <1>7. Orderly
    BY <1>1, <1>2, <1>4, <1>5, <1>6, GoingOnIsOrderly
  <1>8. Queued
    <2>1. CASE Call(h)
      <3>. DEFINE i == [cmd |-> req[h].cmd, by |-> h, ws |-> req[h].ws, image |-> req[h].image, from |-> req[h].from]
      <3>1. queue' = Append(queue, i)
        BY <1>2, <2>1 DEF Call, Connected
      <3>2. SameCommand(req[h], i)
        BY DEF SameCommand
      <3>3. i \in Item
        BY <1>1 DEF Task, Item, RecoveryStep, IndInv, Asked
      <3>. HIDE DEF i
      <3>. QED BY <1>6, <3>1, <3>2, <3>3 DEF Queued
    <2>2. CASE Timeout(h)
      <3>1. queue' = queue \/ queue' = Abandon(queue, {h})
        BY <2>2 DEF Timeout, TimedOut
      <3>. QED BY <1>1, <3>1, WhatRemains DEF Queued
    <2>. QED BY <2>1, <2>2
  <1>. QED BY <1>1, <1>2, <1>7, <1>8, BoxesStay, OthersKeep

\* A request ends.
LEMMA SettleKeepsDecided ==
  ASSUME RecoveryStep, NEW h \in Requests, NEW pc \in {"finish", "fail", "revert"}, NEW cmds, NEW r,
         Settle(h, pc, cmds, r), r.state # "WORKER_OFFLINE" \/ r = row[req[h].ws]
  PROVE  RecInv'
  <1>1. /\ req[h].pc = pc /\ UNCHANGED <<status, link, rec, queue, box, upsets>>
        /\ req \in [Requests -> Task] /\ row \in [Workspaces -> Row] /\ Asked(req[h]) /\ queue \in Seq(Item)
        /\ row' = [row EXCEPT ![req[h].ws] = r] /\ req' = [req EXCEPT ![h] = NoTask]
        /\ link \in {"down", "up"}
    BY DEF Settle, RecoveryStep, IndInv, TypeOK, RecInv, LinkInv
  <1>2. link = "up" /\ Active(req[h])
    BY <1>1 DEF RecoveryStep, RecInv, LinkInv, Unlinked, Active
  <1>3. PICK w \in Workspaces : w = req[h].ws
    BY <1>1 DEF Asked
  <1>4. /\ row'[w] = r /\ \A v \in Workspaces : v # w => row'[v] = row[v]
        /\ req'[h] = NoTask /\ \A g \in Requests : g # h => req'[g] = req[g]
    BY <1>1, <1>3
  <1>5. ~Active(NoTask) /\ NoTask.offline = FALSE
    BY DEF NoTask, Active
  <1>6. ASSUME OwnersOwn PROVE OwnersOwn'
    <2>. SUFFICES ASSUME NEW g \in Requests, Active(req'[g])
                  PROVE  Owns(req'[g], row'[req'[g].ws]) /\ Sole(g)'
      BY DEF OwnersOwn
    <2>1. g # h /\ req'[g] = req[g] /\ Owns(req[g], row[req[g].ws]) /\ Sole(g) /\ req[g].ws \in Workspaces
      BY <1>4, <1>5, <1>6 DEF OwnersOwn, RecoveryStep, IndInv, Asked, Active
    <2>2. req[g].ws # w
      BY <1>2, <1>3, <2>1 DEF Sole
    <2>3. Sole(g)'
      BY <1>4, <1>5, <2>1 DEF Sole
    <2>. QED BY <1>4, <2>1, <2>2, <2>3
  <1>7. Attended'
    BY <1>4, <1>5 DEF RecoveryStep, RecInv, LinkInv, Attended
  <1>8. \A v \in Workspaces : row'[v].state = "WORKER_OFFLINE" => row'[v] = row[v]
    BY <1>3, <1>4
  <1>9. \A g \in Requests : Active(req'[g]) => req'[g] = req[g]
    BY <1>4, <1>5
  <1>10. Orderly
    BY <1>2, <1>6, <1>7, <1>8, <1>9 DEF Orderly
  <1>11. Queued
    BY <1>1, WhatRemains DEF Queued
  <1>. QED BY <1>1, <1>2, <1>10, <1>11, BoxesStay, OthersKeep

LEMMA SettlesKeepDecided ==
  ASSUME RecoveryStep, NEW h \in Requests,
         \/ FinishStart(h) \/ FinishStop(h) \/ FinishDelete(h) \/ FinishChange(h)
         \/ RevertChange(h) \/ MarkFailure(h)
  PROVE  RecInv'
  <1>1. PICK w : w = req[h].ws
    OBVIOUS
  <1>2. /\ req[h] \in Task /\ req[h].offline = FALSE
        /\ req[h].pc # "idle" => row[w] \in Row
    BY <1>1 DEF RecoveryStep, IndInv, TypeOK, Asked, RecInv, LinkInv, Attended
  <1>. DEFINE Ends(r) == r.state # "WORKER_OFFLINE" \/ r = row[w]
  <1>3. ASSUME row[w] \in Row
        PROVE  /\ Ends(finishWorkspaceStart(row[w])) /\ Ends(finishWorkspaceStop(row[w]))
               /\ Ends(deleteConfirmedWorkspace(row[w]))
               /\ Ends(finishWorkspaceRuntimeChange(row[w], req[h].image))
               /\ Ends(markWorkspaceRuntimeFailure(row[w], req[h].offline))
    <2>1. Ends(finishWorkspaceStart(row[w])) /\ Ends(finishWorkspaceStop(row[w]))
      BY <1>3 DEF finishWorkspaceStart, finishWorkspaceStop, Row
    <2>2. Ends(deleteConfirmedWorkspace(row[w]))
      BY DEF deleteConfirmedWorkspace, NoRow
    <2>3. Ends(finishWorkspaceRuntimeChange(row[w], req[h].image))
      BY <1>3 DEF finishWorkspaceRuntimeChange, Row
    <2>4. Ends(markWorkspaceRuntimeFailure(row[w], req[h].offline))
      BY <1>2, <1>3 DEF markWorkspaceRuntimeFailure, Row
    <2>. QED BY <2>1, <2>2, <2>3, <2>4
  <1>4. ASSUME row[w] \in Row PROVE Ends(revertWorkspaceRuntimeChange(row[w], req[h].restore))
    <2>1. CASE row[w].state # "UPGRADING"
      BY <2>1 DEF revertWorkspaceRuntimeChange
    <2>2. CASE row[w].state = "UPGRADING"
      <3>. DEFINE old == req[h].restore
                  state == IF old.state = "ERROR" THEN "ERROR" ELSE "STOPPED"
                  new == [row[w] EXCEPT !.state = state, !.image = old.image, !.prev = old.prev, !.changed = old.changed]
      <3>1. revertWorkspaceRuntimeChange(row[w], old) = new
        BY <2>2 DEF revertWorkspaceRuntimeChange
      <3>2. new.state = state
        BY <1>4 DEF Row
      <3>3. state # "WORKER_OFFLINE"
        OBVIOUS
      <3>. HIDE DEF new, state
      <3>. QED BY <3>1, <3>2, <3>3
    <2>. QED BY <2>1, <2>2
  <1>5. CASE FinishStart(h) \/ FinishStop(h) \/ FinishDelete(h) \/ FinishChange(h)
    <2>1. PICK r, cmds : Settle(h, "finish", cmds, r) /\ r \in {finishWorkspaceStart(row[w]), finishWorkspaceStop(row[w]),
            deleteConfirmedWorkspace(row[w]), finishWorkspaceRuntimeChange(row[w], req[h].image)}
      BY <1>1, <1>5 DEF FinishStart, FinishStop, FinishDelete, FinishChange
    <2>2. row[w] \in Row
      BY <1>2, <2>1 DEF Settle
    <2>3. Ends(r)
      BY <1>3, <2>1, <2>2
    <2>. QED BY <1>1, <2>1, <2>3, SettleKeepsDecided
  <1>6. CASE RevertChange(h)
    <2>1. Settle(h, "revert", {"runtime.set"}, revertWorkspaceRuntimeChange(row[w], req[h].restore)) /\ row[w] \in Row
      BY <1>1, <1>2, <1>6 DEF RevertChange, Settle
    <2>. QED BY <1>1, <1>4, <2>1, SettleKeepsDecided
  <1>7. CASE MarkFailure(h)
    <2>1. Settle(h, "fail", Commands, markWorkspaceRuntimeFailure(row[w], req[h].offline)) /\ row[w] \in Row
      BY <1>1, <1>2, <1>7 DEF MarkFailure, Settle
    <2>. QED BY <1>1, <1>3, <2>1, SettleKeepsDecided
  <1>. QED BY <1>5, <1>6, <1>7

LEMMA DeleteUnassignedKeepsDecided ==
  ASSUME RecoveryStep, NEW w \in Workspaces, DeleteUnassigned(w)
  PROVE  RecInv'
  <1>1. /\ row \in [Workspaces -> Row] /\ row[w].state = "CREATED" /\ queue \in Seq(Item)
        /\ row' = [row EXCEPT ![w] = NoRow] /\ UNCHANGED <<status, link, req, rec, queue, box, upsets>>
    BY DEF DeleteUnassigned, deleteOwnedWorkspace, RecoveryStep, IndInv, TypeOK
  <1>2. row'[w] = NoRow /\ NoRow.state = "GONE" /\ \A v \in Workspaces : v # w => row'[v] = row[v]
    BY <1>1 DEF NoRow
  <1>3. ASSUME OwnersOwn PROVE OwnersOwn'
    <2>. SUFFICES ASSUME NEW g \in Requests, Active(req[g])
                  PROVE  Owns(req[g], row'[req[g].ws]) /\ Sole(g)'
      BY <1>1 DEF OwnersOwn
    <2>1. Owns(req[g], row[req[g].ws]) /\ Sole(g) /\ req[g].ws \in Workspaces
      BY <1>3 DEF OwnersOwn, RecoveryStep, IndInv, Asked, Active
    <2>2. req[g].ws # w
      BY <1>1, <2>1 DEF Owns
    <2>. QED BY <1>1, <1>2, <2>1, <2>2 DEF Sole
  <1>4. link = "down" => Unlinked'
    BY <1>1, <1>2 DEF RecoveryStep, RecInv, LinkInv, Unlinked, IndInv, Asked
  <1>5. Attended'
    BY <1>1 DEF RecoveryStep, RecInv, LinkInv, Attended
  <1>6. Orderly
    BY <1>1, <1>2, <1>3, <1>4, <1>5 DEF Orderly
  <1>7. Queued
    BY <1>1, WhatRemains DEF Queued
  <1>. QED BY <1>1, <1>6, <1>7, BoxesStay, OthersKeep DEF RecoveryStep, RecInv, LinkInv

-----------------------------------------------------------------------------
(* The Worker's steps.                                                      *)

\* An answer makes of a request one that means the same.
LEMMA AnsweredMeans ==
  ASSUME NEW t \in Task, NEW reply, NEW state, NEW image
  PROVE  LET new == Answered(t, reply, state, image) IN
         new.offline = t.offline /\ new.ws = t.ws /\ \A r : Meant(t, r) => Meant(new, r)
  <1>. DEFINE new == Answered(t, reply, state, image)
  <1>1. DOMAIN NextCommand = {"egress", "ensure"} /\ NextCommand["egress"] = "ensure" /\ NextCommand["ensure"] = "start"
    BY DEF NextCommand
  <1>2. CASE t.cmd \in {"egress", "ensure"} /\ new = [t EXCEPT !.pc = "call", !.cmd = NextCommand[t.cmd]]
    <2>1. /\ new.cmd \in {"ensure", "start"} /\ new.offline = t.offline /\ new.ws = t.ws
          /\ t.cmd \in {"egress", "ensure"}
      BY <1>1, <1>2 DEF Task
    <2>. HIDE DEF new
    <2>. QED BY <2>1 DEF Meant, new
  <1>3. CASE \E pc \in {"finish", "revert", "fail"} : new = [t EXCEPT !.pc = pc]
    <2>1. new.cmd = t.cmd /\ new.image = t.image /\ new.offline = t.offline /\ new.ws = t.ws
      BY <1>3 DEF Task
    <2>. HIDE DEF new
    <2>. QED BY <2>1 DEF Meant, new
  <1>4. \/ t.cmd \in {"egress", "ensure"} /\ new = [t EXCEPT !.pc = "call", !.cmd = NextCommand[t.cmd]]
        \/ \E pc \in {"finish", "revert", "fail"} : new = [t EXCEPT !.pc = pc]
    BY <1>1 DEF Answered
  <1>. QED BY <1>2, <1>3, <1>4

\* What an execution does to requests and queue.
LEMMA ExecutionIsOrderly ==
  ASSUME RecoveryStep, queue # <<>>, NEW reply, NEW state, NEW image, Answer(reply, state, image), row' = row
  PROVE  Orderly /\ Queued /\ link' = link
  <1>1. /\ queue \in Seq(Item) /\ queue' = Tail(queue) /\ req \in [Requests -> Task] /\ link \in {"down", "up"}
        /\ link' = link
    BY DEF RecoveryStep, IndInv, TypeOK, Answer, RecInv, LinkInv
  <1>2. Queued
    BY <1>1, WhatRemains DEF Queued
  <1>3. link = "down" => req' = req
    BY DEF Answer
  <1>4. ASSUME NEW h \in Requests
        PROVE  /\ req'[h].offline = req[h].offline
               /\ Active(req'[h]) =>
                    /\ Active(req[h]) /\ req'[h].ws = req[h].ws
                    /\ \A r : Owns(req[h], r) => Owns(req'[h], r)
                    /\ \A r : Meant(req[h], r) => Meant(req'[h], r)
    <2>1. CASE req'[h] = req[h]
      BY <2>1
    <2>2. CASE req'[h] # req[h]
      <3>1. h = Head(queue).by /\ req'[h] = Answered(req[h], reply, state, image)
        BY <1>1, <2>2 DEF Answer
      <3>2. 1 \in DOMAIN queue /\ Head(queue) = queue[1]
        BY <1>1
      <3>3. req[h] \in Task /\ req[h].pc = "wait" /\ Asked(req[h])
        BY <1>1, <3>1, <3>2 DEF RecoveryStep, IndInv, SendersAwait, Awaited
      <3>4. PICK t \in Task : t = req[h]
        BY <3>3
      <3>. DEFINE new == Answered(t, reply, state, image)
      <3>5. new.offline = t.offline /\ new.ws = t.ws /\ \A r : Meant(t, r) => Meant(new, r)
        BY AnsweredMeans
      <3>6. \A r : Owns(t, r) => Owns(new, r)
        <4>1. Asked(t) /\ t.pc # "idle"
          BY <3>3, <3>4
        <4>. QED BY <4>1, AnsweredGoesOn
      <3>7. req'[h] = new
        BY <3>1, <3>4
      <3>. HIDE DEF new
      <3>. QED BY <3>3, <3>4, <3>5, <3>6, <3>7 DEF Active
    <2>. QED BY <2>1, <2>2
  <1>5. Attended'
    BY <1>4 DEF RecoveryStep, RecInv, LinkInv, Attended
  <1>6. link = "down" => Unlinked'
    BY <1>3 DEF RecoveryStep, RecInv, LinkInv, Unlinked
  <1>7. Orderly
    BY <1>4, <1>5, <1>6, GoingOnIsOrderly
  <1>. QED BY <1>1, <1>2, <1>7

\* A command that a row means keeps true what was reported of the Workspace.
KeepsReports(cmd, b) ==
  \A r, report :
    Head(queue).cmd = cmd /\ Meant(Head(queue), r) /\ TrueReport(report, r, Target) => TrueReport(report, r, b)

LEMMA WorkKeepsDecided ==
  ASSUME RecoveryStep, NEW cmd, NEW b, NEW reply, NEW state, NEW image, Work(cmd, b, reply, state, image),
         Head(queue).ws \in Workspaces => KeepsReports(cmd, b)
  PROVE  RecInv'
  <1>1. /\ queue # <<>> /\ Head(queue).cmd = cmd /\ Answer(reply, state, image) /\ UNCHANGED <<row, status, rec>>
        /\ box' = [box EXCEPT ![Head(queue).ws] = b]
        /\ box \in [Workspaces -> Box] /\ row \in [Workspaces -> Row] /\ queue \in Seq(Item)
    BY DEF Work, Serve, RecoveryStep, IndInv, TypeOK
  <1>2. Orderly /\ Queued /\ link' = link
    BY <1>1, ExecutionIsOrderly
  <1>3. ASSUME NEW w \in Workspaces PROVE Kept(w)
    <2>. SUFFICES ASSUME QueueMeant(w), NEW report, TrueReport(report, row[w], box[w])
                  PROVE  TrueReport(report, row[w], box'[w])
      BY DEF Kept
    <2>1. CASE Head(queue).ws = w
      <3>1. 1 \in DOMAIN queue /\ Head(queue) = queue[1]
        BY <1>1
      <3>2. Meant(Head(queue), row[w])
        BY <2>1, <3>1 DEF QueueMeant
      <3>3. TrueReport(report, row[w], Target) /\ box'[w] = b
        BY <1>1, <2>1 DEF Target
      <3>. QED BY <1>1, <2>1, <3>2, <3>3 DEF KeepsReports
    <2>2. CASE Head(queue).ws # w
      BY <1>1, <2>2
    <2>. QED BY <2>1, <2>2
  <1>. QED BY <1>1, <1>2, <1>3, OthersKeep DEF RecoveryStep, RecInv, LinkInv

LEMMA StartStopKeepDecided ==
  ASSUME RecoveryStep, WorkerEgress \/ WorkerEnsure \/ WorkerStart \/ WorkerStop
  PROVE  RecInv'
  <1>. DEFINE image == Head(queue).image
  <1>1. Head(queue).ws \in Workspaces => Target \in Box
    BY HeadIsTyped DEF RecoveryStep, WorkerEgress, WorkerEnsure, WorkerStart, WorkerStop, Serve
  <1>2. ASSUME Head(queue).ws \in Workspaces
        PROVE  \A c : [Target EXCEPT !.ctr = c].ctr = c /\ [Target EXCEPT !.ctr = c].img = Target.img
                      /\ [Target EXCEPT !.ctr = c].meta = Target.meta
    BY <1>1, <1>2 DEF Box
  <1>3. ASSUME NEW cmd \in {"egress", "ensure", "start", "stop", "delete", "runtime.set"} PROVE KeepsReports(cmd, Target)
    BY DEF KeepsReports
  <1>4. CASE WorkerEgress
    BY <1>3, <1>4, WorkKeepsDecided DEF WorkerEgress
  <1>5. CASE WorkerEnsure
    <2>1. ASSUME NEW b, b = Target \/ Target.ctr = "none" PROVE KeepsReports("ensure", b)
      BY <2>1 DEF KeepsReports, Meant, TrueReport
    <2>2. PICK b, reply, state : /\ Work("ensure", b, reply, state, image) \/ Work("ensure", b, reply, state, NoImage)
                                 /\ b = Target \/ Target.ctr = "none"
      <3>1. \A c \in InterruptedEnsure(Target, image) : c = Target \/ Target.ctr = "none"
        BY DEF InterruptedEnsure, NoBox
      <3>2. Target = NoBox => Target.ctr = "none"
        BY DEF NoBox
      <3>. QED BY <1>5, <3>1, <3>2 DEF WorkerEnsure
    <2>. QED BY <2>1, <2>2, WorkKeepsDecided
  <1>6. CASE WorkerStart
    <2>1. Head(queue).ws \in Workspaces => KeepsReports("start", [Target EXCEPT !.ctr = "running"])
      BY <1>2 DEF KeepsReports, Meant, TrueReport
    <2>2. PICK b, reply, state, observed : /\ Work("start", b, reply, state, observed)
                                           /\ b = Target \/ b = [Target EXCEPT !.ctr = "running"]
      BY <1>6 DEF WorkerStart, InterruptedStart
    <2>. QED BY <1>3, <2>1, <2>2, WorkKeepsDecided
  <1>7. CASE WorkerStop
    <2>1. Head(queue).ws \in Workspaces => KeepsReports("stop", [Target EXCEPT !.ctr = "stopped"])
      BY <1>2 DEF KeepsReports, Meant, TrueReport
    <2>2. PICK b, reply, state, observed : /\ Work("stop", b, reply, state, observed)
                                           /\ b = Target \/ b = [Target EXCEPT !.ctr = "stopped"]
      BY <1>7 DEF WorkerStop, InterruptedStop
    <2>. QED BY <1>3, <2>1, <2>2, WorkKeepsDecided
  <1>. QED BY <1>4, <1>5, <1>6, <1>7

\* What a Runtime change makes of a box whose metadata names its target already.
LEMMA SwitchesKeep ==
  ASSUME NEW b \in Box, NEW from \in Images \cup {NoImage}, NEW to \in Images \cup {NoImage},
         b.meta = to, b.ctr # "running"
  PROVE  /\ Emptied(b, from, to).meta = to /\ Emptied(b, from, to).ctr # "running"
         /\ Ensured(Emptied(b, from, to), to).meta = to /\ Ensured(Emptied(b, from, to), to).ctr # "running"
         /\ \A c \in InterruptedSwitch(b, from, to) : c.meta = to /\ c.ctr # "running"
  <1>1. Switched(b, from, to) = b
    BY DEF Switched
  <1>2. Emptied(b, from, to).meta = to /\ Emptied(b, from, to).ctr = "none" /\ Emptied(b, from, to) \in Box
    BY <1>1 DEF Emptied, Uncontained, Box
  <1>3. Ensured(Emptied(b, from, to), to).meta = to /\ Ensured(Emptied(b, from, to), to).ctr = "stopped"
    BY <1>2 DEF Ensured, Prepared, Box
  <1>. QED BY <1>1, <1>2, <1>3 DEF InterruptedSwitch

LEMMA DeleteSwitchKeepDecided ==
  ASSUME RecoveryStep, WorkerDelete \/ WorkerSetRuntime
  PROVE  RecInv'
  <1>. DEFINE from == Head(queue).from
              to == Head(queue).image
  <1>1. /\ to \in Images \cup {NoImage} /\ from \in Images \cup {NoImage}
        /\ Head(queue).ws \in Workspaces => Target \in Box
    BY HeadIsTyped DEF RecoveryStep, WorkerDelete, WorkerSetRuntime, Serve
  <1>2. CASE WorkerDelete
    <2>1. ASSUME NEW b, b = Target \/ Managed(Target) PROVE KeepsReports("delete", b)
      <3>1. Managed(Target) => Target # NoBox
        BY LifecycleAssumption DEF Managed, NoBox
      <3>. QED BY <2>1, <3>1 DEF KeepsReports, Meant, TrueReport
    <2>2. PICK b, reply, state, observed : /\ Work("delete", b, reply, state, observed)
                                           /\ b = Target \/ Managed(Target)
      BY <1>2 DEF WorkerDelete, InterruptedDelete
    <2>. QED BY <2>1, <2>2, WorkKeepsDecided
  <1>3. CASE WorkerSetRuntime
    <2>. DEFINE Switches == {Target, Emptied(Target, from, to), Ensured(Emptied(Target, from, to), to)}
                              \cup InterruptedSwitch(Target, from, to)
    <2>1. ASSUME NEW b \in Switches, Head(queue).ws \in Workspaces PROVE KeepsReports("runtime.set", b)
      <3>1. Target.meta = to /\ Target.ctr # "running" => b.meta = to /\ b.ctr # "running"
        BY <1>1, <2>1, SwitchesKeep
      <3>. HIDE DEF Switches
      <3>. SUFFICES ASSUME NEW r, NEW report, Head(queue).cmd = "runtime.set", Meant(Head(queue), r),
                           TrueReport(report, r, Target)
                    PROVE  TrueReport(report, r, b)
        BY DEF KeepsReports
      <3>2. r.desired = "STOPPED" /\ to = r.image
        BY DEF Meant
      <3>. QED BY <3>1, <3>2 DEF TrueReport
    <2>2. PICK b \in Switches : \E reply, state, observed : Work("runtime.set", b, reply, state, observed)
      <3>1. \/ \E reply : Work("runtime.set", Target, reply, "none", NoImage)
            \/ Work("runtime.set", Emptied(Target, from, to), "refused", "none", NoImage)
            \/ Work("runtime.set", Ensured(Emptied(Target, from, to), to), "ok", "STOPPED", to)
            \/ \E c \in InterruptedSwitch(Target, from, to) : Work("runtime.set", c, "error", "none", NoImage)
        BY <1>3 DEF WorkerSetRuntime
      <3>. QED BY <3>1
    <2>. HIDE DEF Switches
    <2>. QED BY <2>1, <2>2, WorkKeepsDecided
  <1>. QED BY <1>2, <1>3

\* The Worker enforces the policy of a recovery: the recovery is still before its rows.
LEMMA GreetedKeepsDecided ==
  ASSUME RecoveryStep, WorkerGreeted
  PROVE  RecInv'
  <1>. DEFINE c == Head(queue).by
  <1>1. /\ queue # <<>> /\ Head(queue).cmd = "egress" /\ Answer("ok", "none", NoImage) /\ UNCHANGED <<row, status, box>>
        /\ rec' = IF link = "up" /\ c \in Recoveries THEN [rec EXCEPT ![c].pc = "begin"] ELSE rec
        /\ queue \in Seq(Item) /\ rec \in [Recoveries -> Recovery]
    BY DEF WorkerGreeted, Serve, RecoveryStep, IndInv, TypeOK
  <1>2. Orderly /\ Queued /\ link' = link
    BY <1>1, ExecutionIsOrderly
  <1>3. CASE rec' = rec
    BY <1>1, <1>2, <1>3, BoxesStay, OthersKeep DEF RecoveryStep, RecInv, LinkInv
  <1>4. CASE rec' # rec
    <2>1. c \in Recoveries /\ rec' = [rec EXCEPT ![c].pc = "begin"] /\ link = "up"
      BY <1>1, <1>4
    <2>2. 1 \in DOMAIN queue /\ Head(queue) = queue[1]
      BY <1>1
    <2>3. rec[c].pc = "greeted"
      BY <1>1, <2>1, <2>2 DEF RecoveryStep, IndInv, SendersAwait, Awaited
    <2>4. rec'[c].pc = "begin" /\ \A d \in Recoveries : d # c => rec'[d] = rec[d] /\ rec[d].pc = "idle"
      BY <1>1, <2>1, <2>3 DEF Recovery, RecoveryStep, RecInv, LinkInv
    <2>5. OwnersOwn'
      BY <1>2, <2>1, <2>3 DEF Orderly, RecoveryStep, RecInv, Opening
    <2>6. LinkInv'
      BY <1>2, <2>1, <2>4 DEF Orderly, RecoveryStep, RecInv, LinkInv
    <2>7. \A d \in Recoveries : ~Deciding(d)'
      BY <2>4 DEF Deciding
    <2>. QED BY <2>5, <2>6, <2>7 DEF RecInv
  <1>. QED BY <1>3, <1>4

\* The Worker reports: of each Workspace what is so, and what is still on its way is meant.
LEMMA ReconcileKeepsDecided ==
  ASSUME RecoveryStep, WorkerReconcile
  PROVE  RecInv'
  <1>. DEFINE c == Head(queue).by
              honest == IF c = Nobody THEN NoRecovery.report
                        ELSE [w \in Workspaces |-> IF w \in rec[c].left
                                                     THEN Inspection(box[w], rec[c].seen[w].image)
                                                     ELSE "NONE"]
  <1>1. /\ queue # <<>> /\ Head(queue).cmd = "reconcile" /\ Answer("ok", "none", NoImage)
        /\ UNCHANGED <<row, status, box>> /\ queue \in Seq(Item) /\ rec \in [Recoveries -> Recovery]
    BY DEF WorkerReconcile, Serve, RecoveryStep, IndInv, TypeOK
  <1>2. Orderly /\ Queued /\ link' = link /\ queue' = Tail(queue)
    BY <1>1, ExecutionIsOrderly DEF Answer
  <1>3. \/ rec' = rec
        \/ /\ link = "up" /\ c \in Recoveries
           /\ \E report : /\ rec' = [rec EXCEPT ![c].pc = "apply", ![c].report = report]
                          /\ \/ report = honest
                             \/ \E w \in Workspaces : report = [honest EXCEPT ![w] = "RETRY"]
    BY DEF WorkerReconcile
  <1>4. CASE rec' = rec
    BY <1>1, <1>2, <1>4, BoxesStay, OthersKeep DEF RecoveryStep, RecInv, LinkInv
  <1>5. CASE rec' # rec
    <2>1. PICK report : /\ rec' = [rec EXCEPT ![c].pc = "apply", ![c].report = report]
                        /\ \/ report = honest
                           \/ \E w \in Workspaces : report = [honest EXCEPT ![w] = "RETRY"]
      BY <1>3, <1>5
    <2>2. link = "up" /\ c \in Recoveries /\ c # Nobody /\ rec[c] \in Recovery
      BY <1>1, <1>3, <1>5, LifecycleAssumption
    <2>3. 1 \in DOMAIN queue /\ Head(queue) = queue[1]
      BY <1>1
    <2>4. rec[c].pc = "wait"
      BY <1>1, <2>2, <2>3 DEF RecoveryStep, IndInv, SendersAwait, Awaited
    <2>5. ASSUME NEW w \in Workspaces, w \in rec[c].left
          PROVE  report[w] \in {"RETRY", Inspection(box[w], rec[c].seen[w].image)}
      BY <2>1, <2>2, <2>5
    <2>. HIDE DEF honest
    <2>6. PICK d \in Recoveries : d = c
      BY <2>2
    <2>. HIDE DEF c
    <2>7. /\ rec'[d].pc = "apply" /\ rec'[d].report = report /\ rec'[d].seen = rec[d].seen /\ rec'[d].left = rec[d].left
      BY <1>1, <2>1, <2>2, <2>6 DEF Recovery
    <2>8. \A e \in Recoveries : e # d => rec'[e] = rec[e] /\ rec[e].pc = "idle"
      BY <1>1, <2>1, <2>2, <2>4, <2>6 DEF RecoveryStep, RecInv, LinkInv
    <2>9. ASSUME NEW w \in Workspaces PROVE Decided(d, w)'
      <3>. SUFFICES ASSUME row'[w].state = "WORKER_OFFLINE"
                    PROVE  RequestsMeant(w)' /\ QueueMeant(w)' /\ ReportHolds(d, w)'
        BY <2>7 DEF Decided
      <3>1. RequestsMeant(w) /\ BehindMeant(d, w)
        BY <1>1, <2>4, <2>6 DEF RecoveryStep, RecInv, Deciding, Decided
      <3>2. RequestsMeant(w)'
        <4>1. ASSUME NEW h \in Requests, Active(req'[h]), req'[h].ws = w PROVE Meant(req'[h], row'[w])
          <5>1. Active(req[h]) /\ req[h].ws = w /\ \A r : Meant(req[h], r) => Meant(req'[h], r)
            BY <1>2, <4>1 DEF Orderly
          <5>2. Meant(req[h], row[w])
            BY <3>1, <5>1 DEF RequestsMeant
          <5>. QED BY <1>1, <5>1, <5>2
        <4>. QED BY <4>1 DEF RequestsMeant, Active
      <3>3. QueueMeant(w)'
        <4>1. ASSUME NEW n \in DOMAIN queue', queue'[n].ws = w PROVE Meant(queue'[n], row'[w])
          <5>1. n + 1 \in DOMAIN queue /\ queue'[n] = queue[n + 1] /\ 1 < n + 1
            BY <1>1, <1>2
          <5>2. queue[1].by = d /\ queue[n + 1].ws = w
            BY <2>3, <2>6, <4>1, <5>1 DEF c
          <5>3. Meant(queue[n + 1], row[w])
            BY <2>3, <3>1, <5>1, <5>2 DEF BehindMeant
          <5>. QED BY <1>1, <5>1, <5>3
        <4>. QED BY <4>1 DEF QueueMeant
      <3>4. ReportHolds(d, w)'
        <4>. SUFFICES ASSUME w \in rec[d].left, StillAsSeen(w, rec[d].seen[w])
                      PROVE  TrueReport(report[w], row[w], box[w])
          BY <1>1, <2>7 DEF ReportHolds, StillAsSeen
        <4>1. row[w].image = rec[d].seen[w].image
          BY DEF StillAsSeen
        <4>2. TrueReport("RETRY", row[w], box[w])
          BY DEF TrueReport
        <4>3. TrueReport(Inspection(box[w], row[w].image), row[w], box[w])
          BY DEF TrueReport, Inspection, Identified, Observed
        <4>. QED BY <2>5, <2>6, <4>1, <4>2, <4>3
      <3>. QED BY <3>2, <3>3, <3>4
    <2>10. LinkInv'
      BY <1>2, <2>2, <2>8 DEF Orderly, RecoveryStep, RecInv, LinkInv
    <2>11. \A e \in Recoveries : ~Opening(e)' /\ (Deciding(e)' => e = d)
      BY <2>7, <2>8 DEF Opening, Deciding
    <2>. QED BY <2>9, <2>10, <2>11 DEF RecInv
  <1>. QED BY <1>4, <1>5

-----------------------------------------------------------------------------
(* Steps of the recovery.                                                   *)

\* The recovery under way goes on or ends.
LEMMA RecoveryGoesOn ==
  ASSUME RecoveryStep, NEW c \in Recoveries, rec[c].pc # "idle", UNCHANGED <<link, req>>,
         \A d \in Recoveries : d # c => rec'[d] = rec[d],
         Opening(c)' => OwnersOwn', \A w \in Workspaces : Deciding(c)' => Decided(c, w)'
  PROVE  RecInv'
  <1>1. link = "up" /\ \A d \in Recoveries : d # c => rec'[d].pc = "idle"
    BY DEF RecoveryStep, RecInv, LinkInv
  <1>2. LinkInv'
    BY <1>1 DEF RecoveryStep, RecInv, LinkInv, Attended
  <1>3. \A d \in Recoveries : Opening(d)' \/ Deciding(d)' => d = c
    BY <1>1 DEF Opening, Deciding
  <1>. QED BY <1>2, <1>3 DEF RecInv

LEMMA HelloKeepsDecided ==
  ASSUME RecoveryStep, NEW c \in Recoveries, Hello(c)
  PROVE  RecInv'
  <1>1. /\ link = "down" /\ link' = "up" /\ rec' = [rec EXCEPT ![c].pc = "greet"]
        /\ UNCHANGED <<row, req>> /\ rec \in [Recoveries -> Recovery]
    BY DEF Hello, RecoveryStep, RecInv, LinkInv, IndInv, TypeOK
  <1>2. Unlinked /\ Attended /\ \A d \in Recoveries : rec[d].pc = "idle"
    BY <1>1 DEF RecoveryStep, RecInv, LinkInv
  <1>3. rec'[c].pc = "greet" /\ \A d \in Recoveries : d # c => rec'[d].pc = "idle"
    BY <1>1, <1>2 DEF Recovery
  <1>4. OwnersOwn'
    BY <1>1, <1>2 DEF OwnersOwn, Unlinked, Active
  <1>5. LinkInv'
    BY <1>1, <1>2, <1>3 DEF LinkInv, Attended
  <1>6. \A d \in Recoveries : ~Deciding(d)'
    BY <1>3 DEF Deciding
  <1>. QED BY <1>4, <1>5, <1>6 DEF RecInv

LEMMA GreetKeepsDecided ==
  ASSUME RecoveryStep, NEW c \in Recoveries, Greet(c)
  PROVE  RecInv'
  <1>1. /\ rec[c].pc = "greet" /\ UNCHANGED <<row, link, req>> /\ rec \in [Recoveries -> Recovery]
        /\ rec' = [rec EXCEPT ![c].pc = "greeted"] \/ rec' = [rec EXCEPT ![c].pc = "begin"]
    BY DEF Greet, RecoveryStep, IndInv, TypeOK
  <1>2. rec'[c].pc \in {"greeted", "begin"} /\ \A d \in Recoveries : d # c => rec'[d] = rec[d]
    BY <1>1 DEF Recovery
  <1>3. OwnersOwn
    BY <1>1 DEF RecoveryStep, RecInv, Opening
  <1>4. OwnersOwn'
    BY <1>1, <1>3 DEF OwnersOwn, Sole
  <1>5. ~Deciding(c)'
    BY <1>2 DEF Deciding
  <1>. QED BY <1>1, <1>2, <1>4, <1>5, RecoveryGoesOn

\* The recovery takes the rows: whatever owned one of them was meant by what it wants.
LEMMA BeginRecoveryKeepsDecided ==
  ASSUME RecoveryStep, NEW c \in Recoveries, BeginRecovery(c)
  PROVE  RecInv'
  <1>1. /\ rec[c].pc = "begin" /\ UNCHANGED <<link, req, queue, box>>
        /\ rec \in [Recoveries -> Recovery] /\ row \in [Workspaces -> Row]
        /\ row' = [w \in Workspaces |-> IF w \in Assigned THEN Offline(w) ELSE row[w]]
        /\ rec' = [rec EXCEPT ![c].pc = "call", ![c].seen = row', ![c].left = Assigned]
    BY DEF BeginRecovery, RecoveryStep, IndInv, TypeOK
  <1>2. rec'[c].pc = "call" /\ \A d \in Recoveries : d # c => rec'[d] = rec[d]
    BY <1>1 DEF Recovery
  <1>3. OwnersOwn
    BY <1>1 DEF RecoveryStep, RecInv, Opening
  <1>4. ASSUME NEW w \in Workspaces PROVE Decided(c, w)'
    <2>1. row'[w].desired = row[w].desired /\ row'[w].image = row[w].image
      BY <1>1 DEF Offline, Row
    <2>2. ASSUME NEW h \in Requests, Active(req[h]), req[h].ws = w PROVE Meant(req[h], row'[w])
      <3>1. Owns(req[h], row[w])
        BY <1>3, <2>2 DEF OwnersOwn
      <3>2. Meant(req[h], row[w])
        BY <3>1 DEF Owns, Meant, RecoveryStep, IndInv, Coherent
      <3>. QED BY <2>1, <3>2 DEF Meant
    <2>3. RequestsMeant(w)'
      BY <1>1, <2>2 DEF RequestsMeant, Active
    <2>. QED BY <1>2, <2>3 DEF Decided
  <1>5. ~Opening(c)'
    BY <1>2 DEF Opening
  <1>. QED BY <1>1, <1>2, <1>4, <1>5, RecoveryGoesOn

\* The recovery asks for a report: its command is the last of the queue.
LEMMA CallReconcileKeepsDecided ==
  ASSUME RecoveryStep, NEW c \in Recoveries, CallReconcile(c)
  PROVE  RecInv'
  <1>1. /\ rec[c].pc = "call" /\ UNCHANGED <<row, link, req, box>>
        /\ rec \in [Recoveries -> Recovery] /\ queue \in Seq(Item) /\ c # Nobody
    BY LifecycleAssumption DEF CallReconcile, RecoveryStep, IndInv, TypeOK
  <1>2. Connected
    BY <1>1 DEF RecoveryStep, RecInv, LinkInv, Connected
  <1>3. PICK i : queue' = Append(queue, i)
    BY <1>2 DEF CallReconcile
  <1>4. rec' = [rec EXCEPT ![c].pc = "wait"]
    BY <1>2 DEF CallReconcile
  <1>5. rec'[c].pc = "wait" /\ \A d \in Recoveries : d # c => rec'[d] = rec[d]
    BY <1>1, <1>4 DEF Recovery
  <1>6. \A n \in DOMAIN queue : queue[n].by # c
    BY <1>1 DEF RecoveryStep, IndInv, SendersAwait, Awaited
  <1>7. ASSUME NEW w \in Workspaces PROVE Decided(c, w)'
    <2>. SUFFICES ASSUME row'[w].state = "WORKER_OFFLINE" PROVE RequestsMeant(w)' /\ BehindMeant(c, w)'
      BY <1>5 DEF Decided
    <2>1. RequestsMeant(w)
      BY <1>1 DEF RecoveryStep, RecInv, Deciding, Decided
    <2>2. RequestsMeant(w)'
      BY <1>1, <2>1 DEF RequestsMeant, Active
    <2>3. ASSUME NEW m \in DOMAIN queue', NEW n \in DOMAIN queue', m < n PROVE queue'[m].by # c
      <3>1. m \in DOMAIN queue /\ queue'[m] = queue[m]
        BY <1>1, <1>3, <2>3
      <3>. QED BY <1>6, <3>1
    <2>4. BehindMeant(c, w)'
      BY <2>3 DEF BehindMeant
    <2>. QED BY <2>2, <2>4
  <1>8. ~Opening(c)'
    BY <1>5 DEF Opening
  <1>. QED BY <1>1, <1>5, <1>7, <1>8, RecoveryGoesOn

\* The recovery gives up waiting, or has applied its report.
LEMMA EndsKeepDecided ==
  ASSUME RecoveryStep, NEW c \in Recoveries, RecoveryTimeout(c) \/ EndRecovery(c)
  PROVE  RecInv'
  <1>1. /\ UNCHANGED <<row, link, req>> /\ rec \in [Recoveries -> Recovery] /\ rec[c] \in Recovery
        /\ \/ rec[c].pc = "greeted" /\ rec' = [rec EXCEPT ![c] = [rec[c] EXCEPT !.pc = "begin"]]
           \/ rec[c].pc \in {"wait", "apply"} /\ rec' = [rec EXCEPT ![c] = NoRecovery]
    BY DEF RecoveryTimeout, EndRecovery, RecoveryStep, IndInv, TypeOK
  <1>2. /\ rec[c].pc # "idle" /\ \A d \in Recoveries : d # c => rec'[d] = rec[d]
        /\ \/ rec[c].pc = "greeted" /\ rec'[c].pc = "begin"
           \/ rec'[c].pc = "idle"
    BY <1>1, NoRecoveryIsTyped DEF Recovery
  <1>3. ~Deciding(c)' /\ (Opening(c)' => rec[c].pc = "greeted")
    BY <1>2 DEF Opening, Deciding
  <1>4. rec[c].pc = "greeted" => OwnersOwn
    BY DEF RecoveryStep, RecInv, Opening
  <1>5. Opening(c)' => OwnersOwn'
    BY <1>1, <1>3, <1>4 DEF OwnersOwn, Sole
  <1>. QED BY <1>1, <1>2, <1>3, <1>5, RecoveryGoesOn

\* The recovery decides for one row, and leaves the others as they were decided.
LEMMA ApplyKeepsDecided ==
  ASSUME RecoveryStep, NEW c \in Recoveries, NEW w \in Workspaces, ApplyOne(c, w)
  PROVE  RecInv'
  <1>. DEFINE seen == rec[c].seen[w]
              report == rec[c].report[w]
              state == Recovered(seen, report)
              r == [row[w] EXCEPT
                      !.state = state,
                      !.desired = IF @ = "UNKNOWN" /\ state # "ERROR" THEN state ELSE @,
                      !.changed = @ \/ (state # "ERROR" /\ row[w].prev # NoImage)]
  <1>1. /\ rec[c].pc = "apply" /\ UNCHANGED <<link, req, queue, box>>
        /\ rec \in [Recoveries -> Recovery] /\ row \in [Workspaces -> Row] /\ row[w] \in Row
        /\ rec' = [rec EXCEPT ![c].left = @ \ {w}]
        /\ row' = row \/ row' = [row EXCEPT ![w] = NoRow] \/ row' = [row EXCEPT ![w] = r]
    BY DEF ApplyOne, RecoveryStep, IndInv, TypeOK
  <1>2. state # "WORKER_OFFLINE" /\ r.state = state /\ NoRow.state # "WORKER_OFFLINE"
    BY <1>1 DEF Recovered, Row, NoRow
  <1>3. /\ rec'[c].pc = "apply" /\ rec'[c].left = rec[c].left \ {w}
        /\ rec'[c].seen = rec[c].seen /\ rec'[c].report = rec[c].report
        /\ \A d \in Recoveries : d # c => rec'[d] = rec[d]
    BY <1>1 DEF Recovery
  <1>. HIDE DEF r, state
  <1>4. ASSUME NEW v \in Workspaces, row'[v].state = "WORKER_OFFLINE" PROVE row'[v] = row[v]
    BY <1>1, <1>2, <1>4
  <1>5. ASSUME NEW v \in Workspaces PROVE Decided(c, v)'
    <2>. SUFFICES ASSUME row'[v].state = "WORKER_OFFLINE"
                  PROVE  RequestsMeant(v)' /\ QueueMeant(v)' /\ ReportHolds(c, v)'
      BY <1>3 DEF Decided
    <2>1. row'[v] = row[v]
      BY <1>4
    <2>2. RequestsMeant(v) /\ QueueMeant(v) /\ ReportHolds(c, v)
      BY <1>1, <2>1 DEF RecoveryStep, RecInv, Deciding, Decided
    <2>3. RequestsMeant(v)'
      BY <1>1, <2>1, <2>2 DEF RequestsMeant, Active
    <2>4. QueueMeant(v)'
      BY <1>1, <2>1, <2>2 DEF QueueMeant
    <2>5. ReportHolds(c, v)'
      BY <1>1, <1>3, <2>1, <2>2 DEF ReportHolds, StillAsSeen
    <2>. QED BY <2>3, <2>4, <2>5
  <1>6. ~Opening(c)'
    BY <1>3 DEF Opening
  <1>. QED BY <1>1, <1>3, <1>5, <1>6, RecoveryGoesOn

LEMMA RecoversKeepDecided ==
  ASSUME RecoveryStep, NEW c \in Recoveries, Recover(c)
  PROVE  RecInv'
  BY GreetKeepsDecided, BeginRecoveryKeepsDecided, CallReconcileKeepsDecided, EndsKeepDecided,
     ApplyKeepsDecided DEF Recover

-----------------------------------------------------------------------------
(* The other steps, and the theorems.                                       *)

LEMMA RestartKeepsDecided ==
  ASSUME RecoveryStep, ControlPlaneRestart
  PROVE  RecInv'
  <1>1. /\ \A h \in Requests : req'[h] = NoTask
        /\ \A c \in Recoveries : rec'[c] = NoRecovery
        /\ link' = "down" /\ status' # "ONLINE"
    BY DEF ControlPlaneRestart
  <1>2. NoTask.pc = "idle" /\ NoTask.offline = FALSE
    BY DEF NoTask
  <1>3. LinkInv'
    BY <1>1, <1>2, NoRecoveryIsTyped DEF LinkInv, Unlinked, Attended
  <1>4. \A c \in Recoveries : ~Opening(c)' /\ ~Deciding(c)'
    BY <1>1, NoRecoveryIsTyped DEF Opening, Deciding
  <1>. QED BY <1>3, <1>4 DEF RecInv

LEMMA StandingStillKeepsDecided ==
  ASSUME RecoveryStep, UNCHANGED <<row, link, req, rec, queue, box>>, link = "down" => status' # "ONLINE"
  PROVE  RecInv'
  <1>1. queue \in Seq(Item)
    BY DEF RecoveryStep, IndInv, TypeOK
  <1>2. Queued
    BY <1>1, WhatRemains DEF Queued
  <1>3. Attended'
    BY DEF RecoveryStep, RecInv, LinkInv, Attended
  <1>4. link = "down" => Unlinked'
    BY DEF RecoveryStep, RecInv, LinkInv, Unlinked
  <1>5. Orderly
    BY <1>3, <1>4, GoingOnIsOrderly
  <1>. QED BY <1>2, <1>5, BoxesStay, OthersKeep

LEMMA RecInit == Init => RecInv
  <1>. SUFFICES ASSUME Init PROVE RecInv
    OBVIOUS
  <1>1. /\ \A h \in Requests : req[h] = NoTask
        /\ \A c \in Recoveries : rec[c] = NoRecovery
        /\ link \in {"down", "up"} /\ (link = "down" => status # "ONLINE")
    BY DEF Init
  <1>2. NoTask.pc = "idle" /\ NoTask.offline = FALSE
    BY DEF NoTask
  <1>3. LinkInv
    BY <1>1, <1>2, NoRecoveryIsTyped DEF LinkInv, Unlinked, Attended
  <1>4. \A c \in Recoveries : ~Opening(c) /\ ~Deciding(c)
    BY <1>1, NoRecoveryIsTyped DEF Opening, Deciding
  <1>. QED BY <1>3, <1>4 DEF RecInv

\* While the Worker keeps running and its connection is lost only with the control plane.
LEMMA RecNext ==
  ASSUME Upsets \cap {"stall", "failclosed"} = {},
         IndInv, RecInv, [Next]_vars, ~Drop, ~WorkerCrash, ~Revoke
  PROVE  RecInv'
  <1>1. RecoveryStep
    BY IndNext DEF RecoveryStep
  <1>2. CASE UNCHANGED vars
    BY <1>1, <1>2, StandingStillKeepsDecided DEF vars, RecInv, LinkInv
  <1>3. ASSUME NEW h \in Requests, Progress(h) PROVE RecInv'
    BY <1>1, <1>3, BeginsKeepDecided, WaitsKeepDecided, SettlesKeepDecided DEF Progress
  <1>4. ASSUME NEW h \in Requests, NEW w \in Workspaces,
               \/ AskStart(h, w) \/ AskStop(h, w) \/ AskDelete(h, w)
               \/ \E target \in Images : AskChange(h, w, target)
        PROVE  RecInv'
    BY <1>1, <1>4, AskingKeepsDecided
  <1>5. ASSUME NEW w \in Workspaces, DeleteUnassigned(w) PROVE RecInv'
    BY <1>1, <1>5, DeleteUnassignedKeepsDecided
  <1>6. ASSUME NEW c \in Recoveries, Hello(c) \/ Recover(c) PROVE RecInv'
    BY <1>1, <1>6, HelloKeepsDecided, RecoversKeepDecided
  <1>7. CASE WorkerStep
    BY <1>1, <1>7, StartStopKeepDecided, DeleteSwitchKeepDecided, GreetedKeepsDecided, ReconcileKeepsDecided
       DEF WorkerStep
  <1>8. CASE Heartbeat \/ Enable
    BY <1>1, <1>8, StandingStillKeepsDecided DEF Heartbeat, Enable
  <1>9. ~NoticeClose /\ ~CloseRevoked
    BY DEF NoticeClose, CloseRevoked, RecInv, LinkInv
  <1>10. ~Sweep /\ ~FailClosed
    BY DEF Sweep, FailClosed, Upset, RecInv, LinkInv
  <1>11. CASE ControlPlaneRestart
    BY <1>1, <1>11, RestartKeepsDecided
  <1>. QED BY <1>2, <1>3, <1>4, <1>5, <1>6, <1>7, <1>8, <1>9, <1>10, <1>11 DEF Next

\* The invariant allows a recovery no step that is not true.
LEMMA DecidingIsTrue == IndInv /\ RecInv => DecidesTruly
  BY DecisionsAreTrue DEF DecidesTruly

\* A recovery that follows a hello decides on what is so: a row it shows as RUNNING has
\* its image running, one it shows as STOPPED has its image installed and does not run,
\* and one it lets go has nothing on the Worker, whatever requests go on meanwhile, are
\* refused, time out or fail, and wherever the control plane restarts; the Worker keeps
\* running, and no connection is lost without the control plane.
THEOREM RecoveryAlwaysTellsTruth ==
  ASSUME Upsets \cap {"drop", "crash", "revoke", "stall", "failclosed"} = {}
  PROVE  Spec => RecoveryTellsTruth
  <1>1. ~Drop /\ ~WorkerCrash /\ ~Revoke /\ Upsets \cap {"stall", "failclosed"} = {}
    BY DEF Drop, WorkerCrash, Revoke, Upset
  <1>2. IndInv /\ RecInv /\ [Next]_vars => (IndInv /\ RecInv)'
    BY <1>1, IndNext, RecNext
  <1>3. IndInv /\ RecInv /\ [Next]_vars => [DecidesTruly]_vars
    BY DecidingIsTrue
  <1>4. Spec => [][DecidesTruly]_vars
    BY <1>2, <1>3, IndInit, RecInit, PTL DEF Spec
  <1>. QED BY <1>4 DEF RecoveryTellsTruth

\* The same of the run's scenarios: only the one with a recovery decides for a row.
RacesRecInv == IndInv /\ (scenario = "recovery" => RecInv)

\* Where a recovery goes on among requests, as above, it tells the truth; where only
\* requests are, no recovery decides anything.
THEOREM RacesRecoveryTellsTruth ==
  ASSUME Upsets \cap {"stall", "failclosed"} = {}
  PROVE  RacesSpec => RecoveryTellsTruth
  <1>1. Init /\ scenario \in {"requests", "unchanged", "recovery"} => RacesRecInv
    BY IndInit, RecInit DEF RacesRecInv
  <1>2. RacesRecInv /\ [RacesNext]_<<vars, scenario>> => RacesRecInv'
    <2>. SUFFICES ASSUME RacesRecInv, [RacesNext]_<<vars, scenario>> PROVE RacesRecInv'
      OBVIOUS
    <2>1. [Next]_vars /\ scenario' = scenario
      BY DEF RacesNext
    <2>2. IndInv'
      BY <2>1, IndNext DEF RacesRecInv
    <2>3. ASSUME scenario = "recovery" PROVE RecInv'
      <3>1. CASE UNCHANGED <<vars, scenario>>
        <4>1. RecoveryStep
          BY <2>2, <2>3 DEF RecoveryStep, RacesRecInv
        <4>. QED BY <3>1, <4>1, StandingStillKeepsDecided DEF vars, RecoveryStep, RecInv, LinkInv
      <3>2. CASE RacesNext
        <4>1. ~Drop /\ ~WorkerCrash /\ ~Revoke
          BY <2>3, <3>2 DEF RacesNext, OneUpset
        <4>. QED BY <2>1, <2>3, <4>1, RecNext DEF RacesRecInv
      <3>. QED BY <3>1, <3>2
    <2>. QED BY <2>1, <2>2, <2>3 DEF RacesRecInv
  <1>3. RacesRecInv /\ [RacesNext]_<<vars, scenario>> => [DecidesTruly]_vars
    <2>. SUFFICES ASSUME RacesRecInv, [RacesNext]_<<vars, scenario>>, ~UNCHANGED vars PROVE DecidesTruly
      OBVIOUS
    <2>1. RacesNext
      OBVIOUS
    <2>2. CASE scenario = "recovery"
      BY <2>2, DecidingIsTrue DEF RacesRecInv
    <2>3. CASE scenario # "recovery"
      <3>1. rec' = rec
        BY <2>1, <2>3 DEF RacesNext, RequestsAlone
      <3>2. \A c \in Recoveries : ~Recover(c)
        BY <3>1, RecoveriesMove DEF RacesRecInv
      <3>. QED BY <3>2 DEF DecidesTruly, Recover
    <2>. QED BY <2>2, <2>3
  <1>4. RacesSpec => [][DecidesTruly]_vars
    BY <1>1, <1>2, <1>3, PTL DEF RacesSpec
  <1>. QED BY <1>4 DEF RecoveryTellsTruth
=============================================================================
