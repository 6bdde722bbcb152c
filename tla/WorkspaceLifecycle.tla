------------------------- MODULE WorkspaceLifecycle -------------------------
(***************************************************************************)
(* The life of a Workspace on its Worker: start, stop, delete, Runtime     *)
(* change and recovery after a disconnect.                                 *)
(*                                                                         *)
(* Three parties move independently.  The Control Plane runs one handler   *)
(* per request (routes/workspaces.ts, routes/workspace-runtime.ts) and one *)
(* recovery per Worker hello (runtime-commands.ts); they meet only in      *)
(* conditional UPDATEs of the Workspace's row.  The Worker executes the    *)
(* commands it received one at a time (daemon.ts) on containers and        *)
(* metadata files (runtime.ts), connected or not.  Between them is one     *)
(* websocket that either side may find dead before the other does          *)
(* (worker-channel.ts, worker-control.ts).                                 *)
(*                                                                         *)
(* Abstractions.                                                           *)
(*  - One Worker: a Workspace never changes Worker (module Placement), and *)
(*    the Workers share nothing.                                           *)
(*  - Every SQL statement or transaction is one step, and so is every      *)
(*    stretch of handler code between two awaits.                          *)
(*  - A command executes in one step; an interrupted one leaves any of the *)
(*    states its statements pass through (Interrupted...).  Its answer     *)
(*    arrives in the same step: a late arrival is a late execution, since  *)
(*    only the Worker's queue sees the containers in between.              *)
(*  - The codes of a Worker's error matter only to a Runtime change, which *)
(*    tells refusals that guarantee nothing changed from the others.       *)
(*  - An idle stop is a stop request: beginIdleStop has the guard of       *)
(*    beginWorkspaceStop and more, and the rest is the same.               *)
(*  - Model keys, quotas and the egress policy's content are left out; the *)
(*    commands that wait for them in the same queue are not.               *)
(*  - Adverse events (lost connections, timeouts, crashes, failing         *)
(*    commands, revocations) are limited in number by MaxUpsets and in     *)
(*    kind by Upsets.                                                      *)
(***************************************************************************)
EXTENDS Integers, Sequences, FiniteSets

CONSTANTS
  Workspaces, Images,
  Requests,     \* user requests and idle stops in progress at once
  Recoveries,   \* reconciliations in progress at once
  Nobody,       \* the sender of a command whose sender stopped waiting
  NoWorkspace, NoImage, Torn,
  Upsets,       \* the kinds of adverse events that may happen
  MaxUpsets     \* how many of them

ASSUME LifecycleAssumption ==
  /\ NoImage \notin Images /\ Torn \notin Images \cup {NoImage}
  /\ NoWorkspace \notin Workspaces
  /\ Requests \cap Recoveries = {} /\ Nobody \notin Requests \cup Recoveries
  /\ MaxUpsets \in Nat

VARIABLES
  row,      \* the workspaces table
  status,   \* workers.status (DISABLED exactly when not enabled)
  link,     \* the control connection, see Connected
  req,      \* the requests the Control Plane is serving
  rec,      \* the reconciliations it is running
  queue,    \* commands on their way to the Worker or in its command queue
  box,      \* what the Worker has of a Workspace: metadata and container
  upsets    \* adverse events so far

vars == <<row, status, link, req, rec, queue, box, upsets>>

-----------------------------------------------------------------------------
(* Types.                                                                  *)

States == {"CREATED", "STARTING", "RUNNING", "STOPPING", "STOPPED", "DELETING",
           "UPGRADING", "ERROR", "WORKER_OFFLINE", "GONE"}
Transitional == {"STARTING", "STOPPING", "DELETING", "UPGRADING"}
Unassigned == {"CREATED", "GONE"}

Row == [state : States, desired : {"RUNNING", "STOPPED", "DELETED", "UNKNOWN"},
        image : Images \cup {NoImage}, prev : Images \cup {NoImage}, changed : BOOLEAN]
NoRow == [state |-> "GONE", desired |-> "DELETED", image |-> NoImage, prev |-> NoImage,
          changed |-> FALSE]

Commands == {"egress", "ensure", "start", "stop", "delete", "runtime.set", "reconcile"}
Task == [pc : {"idle", "begin", "call", "wait", "finish", "fail", "revert"},
         cmd : Commands \cup {"none"}, ws : Workspaces \cup {NoWorkspace},
         image : Images \cup {NoImage}, from : Images \cup {NoImage}, restore : Row,
         offline : BOOLEAN]
NoTask == [pc |-> "idle", cmd |-> "none", ws |-> NoWorkspace, image |-> NoImage,
           from |-> NoImage, restore |-> NoRow, offline |-> FALSE]

Observations == {"NONE", "MISSING", "INVALID", "RETRY", "RUNNING", "STOPPED"}
Recovery == [pc : {"idle", "greet", "greeted", "begin", "call", "wait", "apply"},
             seen : [Workspaces -> Row], report : [Workspaces -> Observations],
             left : SUBSET Workspaces]
NoRecovery == [pc |-> "idle", seen |-> [w \in Workspaces |-> NoRow],
               report |-> [w \in Workspaces |-> "NONE"], left |-> {}]

Item == [cmd : Commands, by : Requests \cup Recoveries \cup {Nobody},
         ws : Workspaces \cup {NoWorkspace}, image : Images \cup {NoImage},
         from : Images \cup {NoImage}]

\* meta: the image the metadata file names (Torn: a directory without the
\* file); was: the previous image it names; half: the file is there, workspace
\* or pi beside it is not; ctr and img: the container.
Box == [meta : Images \cup {NoImage, Torn}, was : Images \cup {NoImage}, half : BOOLEAN,
        ctr : {"none", "stopped", "running"}, img : Images \cup {NoImage}]
NoBox == [meta |-> NoImage, was |-> NoImage, half |-> FALSE, ctr |-> "none", img |-> NoImage]
TornBox == [NoBox EXCEPT !.meta = Torn]

TypeOK ==
  /\ row \in [Workspaces -> Row]
  /\ status \in {"ONLINE", "OFFLINE", "DISABLED"}
  /\ link \in {"down", "up", "lost", "revoked", "closing"}
  /\ req \in [Requests -> Task]
  /\ rec \in [Recoveries -> Recovery]
  /\ queue \in Seq(Item)
  /\ box \in [Workspaces -> Box]
  /\ upsets \in 0..MaxUpsets

\* WorkerChannel.isConnected: a socket is registered and open, whether or not
\* the Worker still has it ("lost") or may still speak on it ("revoked").
Connected == link \in {"up", "lost", "revoked"}

Upset(kind) == kind \in Upsets /\ upsets < MaxUpsets /\ upsets' = upsets + 1

\* The senders in S stop waiting; their commands are executed all the same.
Abandon(q, S) ==
  [n \in DOMAIN q |-> IF q[n].by \in S THEN [q[n] EXCEPT !.by = Nobody] ELSE q[n]]

-----------------------------------------------------------------------------
(* A request is read and refused, or begun by a conditional UPDATE.        *)

RuntimeChangeIncomplete(r) == r.state = "ERROR" /\ r.prev # NoImage /\ ~r.changed

Ask(h, task) ==
  /\ req[h].pc = "idle"
  /\ req' = [req EXCEPT ![h] = task]
  /\ UNCHANGED <<row, status, link, rec, queue, box, upsets>>

AskStart(h, w) ==
  /\ row[w].state \notin {"GONE", "RUNNING"}
  /\ ~RuntimeChangeIncomplete(row[w])
  /\ row[w].state # "CREATED" => Connected
  /\ Ask(h, [NoTask EXCEPT !.pc = "begin", !.cmd = "egress", !.ws = w, !.image = row[w].image])

AskStop(h, w) ==
  /\ row[w].state \notin Unassigned \cup {"STOPPED"}
  /\ Connected
  /\ Ask(h, [NoTask EXCEPT !.pc = "begin", !.cmd = "stop", !.ws = w, !.image = row[w].image])

AskDelete(h, w) ==
  /\ row[w].state \notin Unassigned
  /\ Connected
  /\ Ask(h, [NoTask EXCEPT !.pc = "begin", !.cmd = "delete", !.ws = w, !.image = row[w].image])

\* Upgrade, rollback, retry and the administrator's change: any offered image
\* may be the target.  A retry repeats the recorded intent.
ChangeFrom(r, target) == IF target = r.image THEN r.prev ELSE r.image

AskChange(h, w, target) ==
  /\ row[w].state = "STOPPED" \/ RuntimeChangeIncomplete(row[w])
  /\ target # row[w].image \/ RuntimeChangeIncomplete(row[w])
  /\ Connected
  /\ ChangeFrom(row[w], target) \notin {NoImage, target}
  /\ Ask(h, [NoTask EXCEPT !.pc = "begin", !.cmd = "runtime.set", !.ws = w, !.image = target,
                           !.from = ChangeFrom(row[w], target), !.restore = row[w]])

\* The UPDATE of a begin: r' where the row matches, else WORKSPACE_CHANGED.
BeginWith(h, cmd, matches, r) ==
  /\ req[h].pc = "begin"
  /\ req[h].cmd = cmd
  /\ \/ /\ matches
        /\ row' = [row EXCEPT ![req[h].ws] = r]
        /\ req' = [req EXCEPT ![h].pc = "call"]
     \/ /\ ~matches
        /\ req' = [req EXCEPT ![h] = NoTask]
        /\ UNCHANGED row
  /\ UNCHANGED <<status, link, rec, queue, box, upsets>>

\* scheduleWorkspaceStart: a first placement needs an eligible Worker.
BeginStart(h) ==
  LET r == row[req[h].ws] IN
  BeginWith(h, "egress",
            /\ r.state \in {"CREATED", "STOPPED", "ERROR", "WORKER_OFFLINE"}
            /\ r.state = "CREATED" => Connected /\ status = "ONLINE",
            [r EXCEPT !.state = "STARTING", !.desired = "RUNNING"])

\* Mutant: a stop that overtakes a start in progress.
BeginStopEarly(h) ==
  LET r == row[req[h].ws] IN
  BeginWith(h, "stop", r.state \in {"STARTING", "RUNNING"},
            [r EXCEPT !.state = "STOPPING", !.desired = "STOPPED"])

BeginStop(h) ==
  LET r == row[req[h].ws] IN
  BeginWith(h, "stop", r.state = "RUNNING", [r EXCEPT !.state = "STOPPING", !.desired = "STOPPED"])

\* Mutant: a delete that does not wait for the operation in progress.
BeginDeleteAnyState(h) ==
  LET r == row[req[h].ws] IN
  BeginWith(h, "delete", r.state # "GONE", [r EXCEPT !.state = "DELETING", !.desired = "DELETED"])

\* Mutant: the intent is not recorded.
BeginDeleteWithoutIntent(h) ==
  LET r == row[req[h].ws] IN
  BeginWith(h, "delete", r.state \notin Transitional \cup {"GONE"}, [r EXCEPT !.state = "DELETING"])

BeginDelete(h) ==
  LET r == row[req[h].ws] IN
  BeginWith(h, "delete", r.state \notin Transitional \cup {"GONE"},
            [r EXCEPT !.state = "DELETING", !.desired = "DELETED"])

BeginChange(h) ==
  LET r == row[req[h].ws]
      both == {req[h].from, req[h].image} IN
  BeginWith(h, "runtime.set",
            /\ r.desired = "STOPPED"
            /\ \/ r.state = "STOPPED" /\ r.image = req[h].from
               \/ RuntimeChangeIncomplete(r) /\ r.image \in both /\ r.prev \in both,
            [r EXCEPT !.state = "UPGRADING", !.image = req[h].image, !.prev = req[h].from,
                      !.changed = FALSE])

-----------------------------------------------------------------------------
(* The Control Plane's end of the channel.                                 *)

\* dispatch: sent on the open socket, or refused.  Without a connection a
\* start fails offline before it asks for egress, or as unenforced if the
\* connection ended after that check.
Call(h) ==
  /\ req[h].pc = "call"
  /\ \/ /\ Connected
        /\ queue' = Append(queue, [cmd |-> req[h].cmd, by |-> h, ws |-> req[h].ws,
                                   image |-> req[h].image, from |-> req[h].from])
        /\ req' = [req EXCEPT ![h].pc = "wait"]
     \/ /\ ~Connected
        /\ \E offline \in IF req[h].cmd = "egress" THEN BOOLEAN ELSE {TRUE} :
             req' = [req EXCEPT ![h].pc = "fail", ![h].offline = offline]
        /\ UNCHANGED queue
  /\ UNCHANGED <<row, status, link, rec, box, upsets>>

\* The task's next state when its command was answered.
NextCommand == [egress |-> "ensure", ensure |-> "start"]
ExpectedStates == [ensure |-> {"RUNNING", "STOPPED"}, start |-> {"RUNNING"}, stop |-> {"STOPPED"},
                   delete |-> {"CREATED"}]
Expected(t, state, image) ==
  \/ t.cmd = "egress"
  \/ t.cmd = "runtime.set" /\ image = t.image /\ state = "STOPPED"
  \/ t.cmd \in DOMAIN ExpectedStates /\ image = t.image /\ state \in ExpectedStates[t.cmd]

Answered(t, reply, state, image) ==
  CASE reply = "ok" /\ Expected(t, state, image) /\ t.cmd \in DOMAIN NextCommand
         -> [t EXCEPT !.pc = "call", !.cmd = NextCommand[t.cmd]]
    [] reply = "ok" /\ Expected(t, state, image) /\ t.cmd \notin DOMAIN NextCommand
         -> [t EXCEPT !.pc = "finish"]
    [] reply = "refused" /\ t.cmd = "runtime.set" -> [t EXCEPT !.pc = "revert"]
    [] OTHER -> [t EXCEPT !.pc = "fail"]

\* Mutant: a dispatch without a timer.
NeverTimedOut(S) == S = {} /\ UNCHANGED <<queue, upsets>>

\* The command timer: always when no answer can come any more.
TimedOut(S) ==
  \/ /\ \A n \in DOMAIN queue : queue[n].by \notin S
     /\ UNCHANGED <<queue, upsets>>
  \/ /\ \E n \in DOMAIN queue : queue[n].by \in S
     /\ Upset("timeout")
     /\ queue' = Abandon(queue, S)

Timeout(h) ==
  /\ req[h].pc = "wait"
  /\ TimedOut({h})
  /\ req' = [req EXCEPT ![h].pc = "fail"]
  /\ UNCHANGED <<row, status, link, rec, box>>

\* The close event of the registered socket rejects every pending command.
\* A rejected egress.apply is only a Worker that does not enforce.
NoticeClose ==
  /\ link \in {"lost", "closing"}
  /\ link' = "down"
  /\ req' = [h \in Requests |->
               IF req[h].pc # "wait" THEN req[h]
               ELSE [req[h] EXCEPT !.pc = "fail", !.offline = req[h].cmd # "egress"]]
  /\ rec' = [c \in Recoveries |->
               CASE rec[c].pc = "greeted" -> [rec[c] EXCEPT !.pc = "begin"]
                 [] rec[c].pc = "wait" -> NoRecovery
                 [] OTHER -> rec[c]]
  /\ queue' = Abandon(queue, Requests \cup Recoveries)
  /\ UNCHANGED <<row, status, box, upsets>>

-----------------------------------------------------------------------------
(* The end of a request: one more conditional UPDATE.                      *)

\* The row after each of them, the same when its condition does not hold.
finishWorkspaceStart(r) == IF r.state = "STARTING" THEN [r EXCEPT !.state = "RUNNING"] ELSE r
finishWorkspaceStop(r) == IF r.state = "STOPPING" THEN [r EXCEPT !.state = "STOPPED"] ELSE r
deleteConfirmedWorkspace(r) == IF r.state = "DELETING" THEN NoRow ELSE r
deleteOwnedWorkspace(r) == IF r.state = "CREATED" THEN NoRow ELSE r
finishWorkspaceRuntimeChange(r, image) ==
  IF r.state = "UPGRADING" /\ r.image = image
    THEN [r EXCEPT !.state = "STOPPED", !.changed = TRUE] ELSE r

\* Back to what the handler read before the change.
revertWorkspaceRuntimeChange(r, old) ==
  IF r.state # "UPGRADING" THEN r
  ELSE [r EXCEPT !.state = IF old.state = "ERROR" THEN "ERROR" ELSE "STOPPED",
                 !.image = old.image, !.prev = old.prev, !.changed = old.changed]

\* Mutant: only a lost Worker is recorded as a failure.
markOnlyOffline(r, offline) ==
  IF r.state \in Transitional /\ offline THEN [r EXCEPT !.state = "WORKER_OFFLINE"] ELSE r

markWorkspaceRuntimeFailure(r, offline) ==
  IF r.state \in Transitional
    THEN [r EXCEPT !.state = IF offline THEN "WORKER_OFFLINE" ELSE "ERROR"] ELSE r

Settle(h, pc, cmds, r) ==
  /\ req[h].pc = pc
  /\ req[h].cmd \in cmds
  /\ row' = [row EXCEPT ![req[h].ws] = r]
  /\ req' = [req EXCEPT ![h] = NoTask]
  /\ UNCHANGED <<status, link, rec, queue, box, upsets>>

FinishStart(h) == Settle(h, "finish", {"start"}, finishWorkspaceStart(row[req[h].ws]))
FinishStop(h) == Settle(h, "finish", {"stop"}, finishWorkspaceStop(row[req[h].ws]))
FinishDelete(h) == Settle(h, "finish", {"delete"}, deleteConfirmedWorkspace(row[req[h].ws]))
FinishChange(h) ==
  Settle(h, "finish", {"runtime.set"},
         finishWorkspaceRuntimeChange(row[req[h].ws], req[h].image))
RevertChange(h) ==
  Settle(h, "revert", {"runtime.set"},
         revertWorkspaceRuntimeChange(row[req[h].ws], req[h].restore))
MarkFailure(h) ==
  Settle(h, "fail", Commands, markWorkspaceRuntimeFailure(row[req[h].ws], req[h].offline))

\* A Workspace no Worker was ever chosen for is deleted without one.
DeleteUnassigned(w) ==
  /\ row[w].state = "CREATED"
  /\ row' = [row EXCEPT ![w] = deleteOwnedWorkspace(@)]
  /\ UNCHANGED <<status, link, req, rec, queue, box, upsets>>

-----------------------------------------------------------------------------
(* The Worker executes the head of its queue.                              *)

Serve(cmd) == queue # <<>> /\ Head(queue).cmd = cmd

\* daemon.ts #send: an answer leaves only on an open socket, and is accepted
\* only from a Worker whose credential is still valid.
Answer(reply, state, image) ==
  LET h == Head(queue).by IN
  /\ queue' = Tail(queue)
  /\ link' = IF link = "revoked" THEN "closing" ELSE link
  /\ IF link = "up" /\ h \in Requests
       THEN req' = [req EXCEPT ![h] = Answered(req[h], reply, state, image)]
       ELSE UNCHANGED req

Work(cmd, b, reply, state, image) ==
  /\ Serve(cmd)
  /\ box' = [box EXCEPT ![Head(queue).ws] = b]
  /\ Answer(reply, state, image)
  /\ UNCHANGED <<row, status, rec>>

Well == UNCHANGED upsets
Target == box[Head(queue).ws]

\* The Workspace is managed here (requireWorkspacePaths: metadata and real
\* directories) and its container, if any, is the one the metadata describes
\* (verifyManagedContainerIdentity).
Managed(b) == b.meta \in Images /\ ~b.half
Identified(b) == b.ctr = "none" \/ b.img = b.meta
requireManagedContainer(b) == Managed(b) /\ Identified(b) /\ b.ctr # "none"
Observed(b) == IF b.ctr = "running" THEN "RUNNING" ELSE "STOPPED"

WorkerEgress ==
  /\ Serve("egress") /\ Head(queue).ws # NoWorkspace
  /\ \/ Work("egress", Target, "ok", "none", NoImage) /\ Well
     \/ Work("egress", Target, "error", "none", NoImage) /\ Upset("fault")

\* ensureWorkspacePaths makes the directories again, wherever one is missing.
Prepared(b, image) == [b EXCEPT !.meta = image, !.half = FALSE]
Ensured(b, image) == [Prepared(b, image) EXCEPT !.ctr = "stopped", !.img = image]
InterruptedEnsure(b, image) ==
  {b} \cup (IF b = NoBox THEN {TornBox} ELSE {})
      \cup (IF b = NoBox \/ (b.meta = image /\ b.ctr = "none")
              THEN {Prepared(b, image), Ensured(b, image)} ELSE {})

WorkerEnsure ==
  /\ Serve("ensure")
  /\ LET image == Head(queue).image
         b == Target
         known == b.meta = image /\ Identified(b) IN
     \/ /\ b = NoBox \/ (known /\ b.ctr = "none")
        /\ Work("ensure", Ensured(b, image), "ok", "STOPPED", image) /\ Well
     \/ /\ known /\ b.ctr # "none"
        /\ Work("ensure", b, "ok", Observed(b), image) /\ Well
     \/ /\ b # NoBox /\ ~known
        /\ Work("ensure", b, "error", "none", NoImage) /\ Well
     \/ /\ \E c \in InterruptedEnsure(b, image) : Work("ensure", c, "error", "none", NoImage)
        /\ Upset("fault")

InterruptedStart(b) == IF Managed(b) /\ Identified(b) /\ b.ctr = "stopped"
                         THEN {b, [b EXCEPT !.ctr = "running"]} ELSE {b}

WorkerStart ==
  /\ Serve("start")
  /\ LET b == Target
         able == requireManagedContainer(b) IN
     \/ able /\ Work("start", [b EXCEPT !.ctr = "running"], "ok", "RUNNING", b.meta) /\ Well
     \/ ~able /\ Work("start", b, "error", "none", NoImage) /\ Well
     \/ /\ \E c \in InterruptedStart(b) : Work("start", c, "error", "none", NoImage)
        /\ Upset("fault")

InterruptedStop(b) == IF requireManagedContainer(b) THEN {b, [b EXCEPT !.ctr = "stopped"]} ELSE {b}

WorkerStop ==
  /\ Serve("stop")
  /\ LET b == Target
         able == requireManagedContainer(b) IN
     \/ able /\ Work("stop", [b EXCEPT !.ctr = "stopped"], "ok", "STOPPED", b.meta) /\ Well
     \/ ~able /\ Work("stop", b, "error", "none", NoImage) /\ Well
     \/ /\ \E c \in InterruptedStop(b) : Work("stop", c, "error", "none", NoImage)
        /\ Upset("fault")

\* Container, network and then the directory, file by file: the metadata or
\* what it describes may be the first to go.
Uncontained(b) == [b EXCEPT !.ctr = "none", !.img = NoImage]
InterruptedDelete(b) ==
  IF Managed(b) /\ Identified(b)
    THEN {b, Uncontained(b), [Uncontained(b) EXCEPT !.half = TRUE], TornBox} ELSE {b}
CrashedDelete(b) ==        \* or nothing is left, and nobody is told
  InterruptedDelete(b) \cup IF Managed(b) /\ Identified(b) THEN {NoBox} ELSE {}

WorkerDelete ==
  /\ Serve("delete")
  /\ LET b == Target
         able == Managed(b) /\ Identified(b) IN
     \/ able /\ Work("delete", NoBox, "ok", "CREATED", b.meta) /\ Well
     \/ ~able /\ Work("delete", b, "error", "none", NoImage) /\ Well
     \/ /\ \E c \in InterruptedDelete(b) : Work("delete", c, "error", "none", NoImage)
        /\ Upset("fault")

\* setRuntime: metadata first, then the old container goes, then the new one.
Switched(b, from, to) == IF b.meta = to THEN b ELSE [b EXCEPT !.meta = to, !.was = from]
Emptied(b, from, to) == Uncontained(Switched(b, from, to))
Switchable(b, from, to) ==
  b.meta \in {from, to} /\ ~b.half /\ (b.ctr = "none" \/ b.img \in {b.meta, b.was}) /\ b.ctr # "running"
InterruptedSwitch(b, from, to) ==
  IF ~Switchable(b, from, to) THEN {b}
  ELSE {b, Switched(b, from, to), Emptied(b, from, to), Ensured(Emptied(b, from, to), to)}

WorkerSetRuntime ==
  /\ Serve("runtime.set")
  /\ LET from == Head(queue).from
         to == Head(queue).image
         b == Target
         able == Switchable(b, from, to)
         foreign == b.meta \in {from, to} /\ b.ctr # "none" /\ b.img \notin {b.meta, b.was}
         unsure == b.half \/ foreign IN
     \/ /\ able
        /\ Work("runtime.set", Ensured(Emptied(b, from, to), to), "ok", "STOPPED", to) /\ Well
     \/ /\ ~able /\ Work("runtime.set", b, IF unsure THEN "error" ELSE "refused", "none", NoImage)
        /\ Well
     \/ Work("runtime.set", b, "refused", "none", NoImage) /\ Upset("withdrawn")
     \/ /\ able
        /\ Work("runtime.set", Emptied(b, from, to), "refused", "none", NoImage)
        /\ Upset("moved")
     \/ /\ \E c \in InterruptedSwitch(b, from, to) :
             Work("runtime.set", c, "error", "none", NoImage)
        /\ Upset("fault")

-----------------------------------------------------------------------------
(* Recovery: onHelloAccepted and reconcileWorkerWorkspaces.                *)

\* Only the credential of an enabled Worker opens a connection.
Admitted == status # "DISABLED"

\* A hello registers its socket, whatever happened to the one before: the
\* commands pending on that one are not rejected.
Hello(c) ==
  /\ link \in {"down", "lost", "closing"}
  /\ Admitted
  /\ rec[c].pc = "idle"
  /\ link' = "up"
  /\ status' = "ONLINE"
  /\ rec' = [rec EXCEPT ![c].pc = "greet"]
  /\ UNCHANGED <<row, req, queue, box, upsets>>

\* The egress policy goes out first; whatever comes of it, recovery begins.
Greet(c) ==
  /\ rec[c].pc = "greet"
  /\ \/ /\ Connected
        /\ queue' = Append(queue, [cmd |-> "egress", by |-> c, ws |-> NoWorkspace,
                                   image |-> NoImage, from |-> NoImage])
        /\ rec' = [rec EXCEPT ![c].pc = "greeted"]
     \/ /\ ~Connected
        /\ rec' = [rec EXCEPT ![c].pc = "begin"]
        /\ UNCHANGED queue
  /\ UNCHANGED <<row, status, link, req, box, upsets>>

WorkerGreeted ==
  /\ Serve("egress") /\ Head(queue).ws = NoWorkspace
  /\ LET c == Head(queue).by IN
       rec' = IF link = "up" /\ c \in Recoveries THEN [rec EXCEPT ![c].pc = "begin"] ELSE rec
  /\ Answer("ok", "none", NoImage)
  /\ UNCHANGED <<row, status, box, upsets>>

\* beginWorkerReconciliation: every Workspace of the Worker, whatever it is in.
Offline(w) == [row[w] EXCEPT !.state = "WORKER_OFFLINE"]
Assigned == {w \in Workspaces : row[w].state \notin Unassigned}

\* The rows a sweep, a revocation or a rotation touches.
Swept == [w \in Workspaces |->
            IF row[w].state \in {"STARTING", "RUNNING", "STOPPING", "STOPPED", "ERROR", "UPGRADING"}
              THEN Offline(w) ELSE row[w]]

\* Mutant: the rows that are WORKER_OFFLINE already are skipped.
BeginRecoveryOfOthers(c) ==
  LET others == {w \in Assigned : row[w].state # "WORKER_OFFLINE"} IN
  /\ rec[c].pc = "begin"
  /\ row' = [w \in Workspaces |-> IF w \in others THEN Offline(w) ELSE row[w]]
  /\ rec' = [rec EXCEPT ![c].pc = "call", ![c].seen = row', ![c].left = others]
  /\ UNCHANGED <<status, link, req, queue, box, upsets>>

BeginRecovery(c) ==
  /\ rec[c].pc = "begin"
  /\ row' = [w \in Workspaces |-> IF w \in Assigned THEN Offline(w) ELSE row[w]]
  /\ rec' = [rec EXCEPT ![c].pc = "call", ![c].seen = row', ![c].left = Assigned]
  /\ UNCHANGED <<status, link, req, queue, box, upsets>>

CallReconcile(c) ==
  /\ rec[c].pc = "call"
  /\ \/ /\ Connected
        /\ queue' = Append(queue, [cmd |-> "reconcile", by |-> c, ws |-> NoWorkspace,
                                   image |-> NoImage, from |-> NoImage])
        /\ rec' = [rec EXCEPT ![c].pc = "wait"]
     \/ /\ ~Connected
        /\ rec' = [rec EXCEPT ![c] = NoRecovery]
        /\ UNCHANGED queue
  /\ UNCHANGED <<row, status, link, req, box, upsets>>

\* reconcile and inspectForRecovery: an observation of each assignment.
Inspection(b, image) ==
  CASE b = NoBox -> "MISSING"
    [] b.half -> "RETRY"     \* a raw ENOENT, which #engineError calls retryable
    [] ~b.half /\ b.meta = image /\ b.ctr # "none" /\ Identified(b) -> Observed(b)
    [] OTHER -> "INVALID"

WorkerReconcile ==
  /\ Serve("reconcile")
  /\ LET c == Head(queue).by
         heard == link = "up" /\ c \in Recoveries
         honest == IF c = Nobody THEN NoRecovery.report
                   ELSE [w \in Workspaces |-> IF w \in rec[c].left
                                                THEN Inspection(box[w], rec[c].seen[w].image)
                                                ELSE "NONE"] IN
     \/ /\ rec' = IF heard THEN [rec EXCEPT ![c].pc = "apply", ![c].report = honest] ELSE rec
        /\ Well
     \/ /\ \E w \in Workspaces :     \* a Runtime that cannot be inspected now
             /\ heard /\ w \in rec[c].left
             /\ rec' = [rec EXCEPT ![c].pc = "apply",
                                   ![c].report = [honest EXCEPT ![w] = "RETRY"]]
        /\ Upset("fault")
  /\ Answer("ok", "none", NoImage)
  /\ UNCHANGED <<row, status, box>>

RecoveryTimeout(c) ==
  /\ rec[c].pc \in {"greeted", "wait"}
  /\ TimedOut({c})
  /\ rec' = [rec EXCEPT ![c] = IF @.pc = "greeted" THEN [@ EXCEPT !.pc = "begin"] ELSE NoRecovery]
  /\ UNCHANGED <<row, status, link, req, box>>

\* The state a Workspace with this intent recovers to when this is observed.
RecoveredAsReported(seen, report) == report   \* Mutant.

Recovered(seen, report) ==
  IF report \in {"RUNNING", "STOPPED"} /\ seen.desired \in {report, "UNKNOWN"}
    THEN report ELSE "ERROR"

\* Mutants: the condition of the UPDATE without the state, without the intent.
SameImageAndIntent(w, seen) ==
  row[w].state \notin Unassigned /\ row[w].image = seen.image /\ row[w].desired = seen.desired
StillOffline(w, seen) == row[w].state = "WORKER_OFFLINE" /\ row[w].image = seen.image

\* Only a row that is still WORKER_OFFLINE with the image and intent the
\* recovery started from.
StillAsSeen(w, seen) ==
  /\ row[w].state = "WORKER_OFFLINE"
  /\ row[w].image = seen.image
  /\ row[w].desired = seen.desired

\* reconcileWorkspaceRecovery, deleteRecoveredWorkspace.
ApplyOne(c, w) ==
  LET seen == rec[c].seen[w]
      report == rec[c].report[w]
      state == Recovered(seen, report)
      settled == state # "ERROR"
      same == StillAsSeen(w, seen)
      r == [row[w] EXCEPT
              !.state = state,
              !.desired = IF @ = "UNKNOWN" /\ settled THEN state ELSE @,
              !.changed = @ \/ (settled /\ row[w].prev # NoImage)] IN
  /\ rec[c].pc = "apply"
  /\ w \in rec[c].left
  /\ Connected
  /\ row' = CASE report = "RETRY" \/ ~same -> row
              [] report = "MISSING" /\ seen.desired = "DELETED" /\ same
                   -> [row EXCEPT ![w] = NoRow]
              [] OTHER -> [row EXCEPT ![w] = r]
  /\ rec' = [rec EXCEPT ![c].left = @ \ {w}]
  /\ UNCHANGED <<status, link, req, queue, box, upsets>>

\* Mutant: a recovery whose Worker is gone waits for it.
EndRecoveryWhenDone(c) ==
  /\ rec[c].pc = "apply"
  /\ rec[c].left = {}
  /\ rec' = [rec EXCEPT ![c] = NoRecovery]
  /\ UNCHANGED <<row, status, link, req, queue, box, upsets>>

EndRecovery(c) ==
  /\ rec[c].pc = "apply"
  /\ rec[c].left = {} \/ ~Connected
  /\ rec' = [rec EXCEPT ![c] = NoRecovery]
  /\ UNCHANGED <<row, status, link, req, queue, box, upsets>>

-----------------------------------------------------------------------------
(* What goes wrong, and what an administrator does.                        *)

\* The connection breaks with the last n commands still on the way.
Drop ==
  /\ Upset("drop")
  /\ link = "up"
  /\ link' = "lost"
  /\ \E n \in 0..Len(queue) : queue' = SubSeq(queue, 1, n)
  /\ UNCHANGED <<row, status, req, rec, box>>

\* markWorkersOffline: no heartbeat for too long, which a connected Worker
\* may bring about as well.
Sweep ==
  /\ status = "ONLINE"
  /\ IF link = "up" THEN Upset("stall") ELSE UNCHANGED upsets
  /\ status' = "OFFLINE"
  /\ row' = Swept
  /\ UNCHANGED <<link, req, rec, queue, box>>

Heartbeat ==
  /\ link = "up"
  /\ status = "OFFLINE"
  /\ status' = "ONLINE"
  /\ UNCHANGED <<row, link, req, rec, queue, box, upsets>>

\* disableWorker and its trigger; rotateWorkerCredential.
Revoke ==
  /\ Upset("revoke")
  /\ status # "DISABLED"
  /\ status' \in {"DISABLED", "OFFLINE"}
  /\ row' = Swept
  /\ link' = IF link = "up" THEN "revoked" ELSE link
  /\ UNCHANGED <<req, rec, queue, box>>

\* enforceWorkerRevocations, or the next message of the revoked Worker.
CloseRevoked ==
  /\ link = "revoked"
  /\ link' = "closing"
  /\ UNCHANGED <<row, status, req, rec, queue, box, upsets>>

\* enableWorker: under a new credential, so the old socket stays invalid.
Enable ==
  /\ status = "DISABLED"
  /\ status' = "OFFLINE"
  /\ UNCHANGED <<row, link, req, rec, queue, box, upsets>>

\* The daemon dies, perhaps in the middle of a command; containers survive.
WorkerCrash ==
  /\ Upset("crash")
  /\ queue' = <<>>
  /\ link' = IF link \in {"up", "revoked"} THEN "lost" ELSE link
  /\ \/ UNCHANGED box
     \/ /\ queue # <<>> /\ Head(queue).ws # NoWorkspace
        /\ LET i == Head(queue)
               b == box[i.ws] IN
           \E c \in CASE i.cmd = "ensure" -> InterruptedEnsure(b, i.image)
                      [] i.cmd = "start" -> InterruptedStart(b)
                      [] i.cmd = "stop" -> InterruptedStop(b)
                      [] i.cmd = "delete" -> CrashedDelete(b)
                      [] i.cmd = "runtime.set" -> InterruptedSwitch(b, i.from, i.image)
                      [] OTHER -> {b} :
             box' = [box EXCEPT ![i.ws] = c]
  /\ UNCHANGED <<row, status, req, rec>>

\* stopRunningWorkspaces: egress or quotas are lost; nobody is told.
FailClosed ==
  /\ Upset("failclosed")
  /\ box' = [w \in Workspaces |->
               IF box[w].ctr = "running" THEN [box[w] EXCEPT !.ctr = "stopped"] ELSE box[w]]
  /\ UNCHANGED <<row, status, link, req, rec, queue>>

\* The Control Plane restarts: markAllWorkersOfflineForRecovery.
ControlPlaneRestart ==
  /\ Upset("restart")
  /\ req' = [h \in Requests |-> NoTask]
  /\ rec' = [c \in Recoveries |-> NoRecovery]
  /\ \E n \in 0..Len(queue) : queue' = Abandon(SubSeq(queue, 1, n), Requests \cup Recoveries)
  /\ link' = "down"
  /\ status' = IF status = "ONLINE" THEN "OFFLINE" ELSE status
  /\ row' = IF status = "ONLINE"
              THEN [w \in Workspaces |-> IF w \in Assigned THEN Offline(w) ELSE row[w]]
              ELSE row
  /\ UNCHANGED box

-----------------------------------------------------------------------------

\* A new Workspace; with the Worker connected, one that is stopped or running;
\* with no connection yet, one from before intents were recorded (migration
\* 0004).
FreshRow(state, desired, i) ==
  [state |-> state, desired |-> desired, image |-> i, prev |-> NoImage, changed |-> FALSE]
BoxOf(ctr, i) == [meta |-> i, was |-> NoImage, half |-> FALSE, ctr |-> ctr, img |-> i]
Beginnings(connected) ==
  UNION {
    {[row |-> FreshRow("CREATED", "STOPPED", i), box |-> NoBox]} \cup
    IF connected
      THEN {[row |-> FreshRow("STOPPED", "STOPPED", i), box |-> BoxOf("stopped", i)],
            [row |-> FreshRow("RUNNING", "RUNNING", i), box |-> BoxOf("running", i)]}
      ELSE {[row |-> FreshRow("WORKER_OFFLINE", "UNKNOWN", i), box |-> BoxOf(ctr, i)] :
              ctr \in {"stopped", "running"}} : i \in Images}

Init ==
  /\ link \in {"down", "up"}
  /\ status = IF link = "up" THEN "ONLINE" ELSE "OFFLINE"
  /\ \E begun \in [Workspaces -> Beginnings(link = "up")] :
       /\ row = [w \in Workspaces |-> begun[w].row]
       /\ box = [w \in Workspaces |-> begun[w].box]
  /\ req = [h \in Requests |-> NoTask]
  /\ rec = [c \in Recoveries |-> NoRecovery]
  /\ queue = <<>>
  /\ upsets = 0

Progress(h) ==
  \/ BeginStart(h) \/ BeginStop(h) \/ BeginDelete(h) \/ BeginChange(h)
  \/ Call(h) \/ Timeout(h) \/ MarkFailure(h) \/ RevertChange(h)
  \/ FinishStart(h) \/ FinishStop(h) \/ FinishDelete(h) \/ FinishChange(h)

WorkerStep ==
  \/ WorkerEgress \/ WorkerEnsure \/ WorkerStart \/ WorkerStop \/ WorkerDelete
  \/ WorkerSetRuntime \/ WorkerGreeted \/ WorkerReconcile

Recover(c) ==
  \/ Greet(c) \/ BeginRecovery(c) \/ CallReconcile(c) \/ RecoveryTimeout(c) \/ EndRecovery(c)
  \/ \E w \in Workspaces : ApplyOne(c, w)

Next ==
  \/ \E h \in Requests :
       \/ Progress(h)
       \/ \E w \in Workspaces :
            \/ AskStart(h, w) \/ AskStop(h, w) \/ AskDelete(h, w)
            \/ \E target \in Images : AskChange(h, w, target)
  \/ \E w \in Workspaces : DeleteUnassigned(w)
  \/ \E c \in Recoveries : Hello(c) \/ Recover(c)
  \/ WorkerStep
  \/ NoticeClose \/ CloseRevoked \/ Heartbeat
  \/ Drop \/ Sweep \/ Revoke \/ Enable \/ WorkerCrash \/ FailClosed \/ ControlPlaneRestart

Spec == Init /\ [][Next]_vars

\* Handlers, the Worker's queue and the channel's events go on; every wait has
\* a timer; the daemon reconnects for as long as its credential is valid.
Fairness ==
  /\ \A h \in Requests : WF_vars(Progress(h))
  /\ \A c \in Recoveries : WF_vars(Recover(c))
  /\ WF_vars(WorkerStep) /\ WF_vars(NoticeClose) /\ WF_vars(CloseRevoked)
  /\ WF_vars(\E c \in Recoveries : Hello(c))

FairSpec == Spec /\ Fairness

-----------------------------------------------------------------------------
(* Safety.                                                                 *)

\* However requests, recoveries, sweeps and restarts interleave, the intent
\* that recovery compares with what it observes is the one of the operation
\* the row shows.
IntentMatchesState ==
  \A w \in Workspaces :
    /\ row[w].state \in {"STARTING", "RUNNING"} => row[w].desired = "RUNNING"
    /\ row[w].state \in {"STOPPING", "STOPPED", "UPGRADING"} => row[w].desired = "STOPPED"
    /\ row[w].state \in {"DELETING", "GONE"} => row[w].desired = "DELETED"

\* No Workspace is left in a transitional state, which no begin accepts: the
\* request that will end it is still being served, or the Worker's next recovery
\* resets it.
Owner(h, w) ==
  /\ req[h].ws = w
  /\ req[h].pc \notin {"idle", "begin"}
  /\ CASE row[w].state = "STARTING" -> req[h].cmd \in {"egress", "ensure", "start"}
       [] row[w].state = "STOPPING" -> req[h].cmd = "stop"
       [] row[w].state = "DELETING" -> req[h].cmd = "delete"
       [] row[w].state = "UPGRADING" -> req[h].cmd = "runtime.set" /\ req[h].image = row[w].image
       [] OTHER -> FALSE
RecoveryAhead == link = "down" \/ \E c \in Recoveries : rec[c].pc \in {"greet", "greeted", "begin"}
TransitionsOwned ==
  \A w \in Workspaces :
    row[w].state \in Transitional => (\E h \in Requests : Owner(h, w)) \/ RecoveryAhead

\* Of a Workspace whose row was deleted the Worker has nothing left, and no
\* command of an earlier request that timed out brings anything back.
DeletionIsClean == \A w \in Workspaces : row[w].state = "GONE" => box[w] = NoBox

\* With the Worker connected, RUNNING and STOPPED are what the container is,
\* whatever requests race, fail or time out.
RunningTellsTruth ==
  link = "up" => \A w \in Workspaces : row[w].state = "RUNNING" => box[w].ctr = "running"
StoppedTellsTruth ==
  link = "up" => \A w \in Workspaces : row[w].state = "STOPPED" => box[w].ctr # "running"

\* What a recovery says of a Workspace is so.
DecidesTruly ==
  \A w \in Workspaces, c \in Recoveries :
    ApplyOne(c, w) /\ row'[w] # row[w] =>
      CASE row'[w].state = "RUNNING" -> box[w].ctr = "running" /\ box[w].img = row'[w].image
        [] row'[w].state = "STOPPED" -> box[w].ctr # "running" /\ box[w].meta = row'[w].image
        [] row'[w].state = "GONE" -> box[w] = NoBox
        [] OTHER -> TRUE

\* A recovery shows a Workspace as RUNNING, STOPPED or deleted only if that is
\* so when it says it.
RecoveryTellsTruth == [][DecidesTruly]_vars

-----------------------------------------------------------------------------
(* Claims of the documentation that the code does not keep.                *)

\* "An interrupted change is ERROR with a previous image and no completion
\* time; it can be retried or rolled back" (runtime-changes.ts): the guard of
\* beginWorkspaceRuntimeChange accepts it.
InterruptedChangeCanBeRetried ==
  \A w \in Workspaces : RuntimeChangeIncomplete(row[w]) => row[w].desired = "STOPPED"

\* "Worker refusals that guarantee nothing was changed: the Workspace goes back
\* to exactly what it was" (workspace-runtime.ts): a revert leaves the row with
\* the image the Worker has.
RevertedImageIsInstalled ==
  [][\A h \in Requests :
       RevertChange(h) /\ row' # row =>
         LET w == req[h].ws IN row'[w].state = "STOPPED" => box[w].meta = row'[w].image]_vars

-----------------------------------------------------------------------------
(* Liveness.                                                               *)

\* Every request and every reconciliation is answered, whatever is lost.
RequestsEnd == \A h \in Requests : []<>(req[h].pc = "idle")
ReconciliationsEnd == \A c \in Recoveries : []<>(rec[c].pc = "idle")

\* No Workspace stays in a transitional state.
TransitionsEnd == \A w \in Workspaces : []<>(row[w].state \notin Transitional)

\* Once nothing more goes wrong, the Workspaces of a Worker that was cut off do
\* not stay WORKER_OFFLINE, unless the Worker was disabled or a delete left their
\* directories half removed.  The report has those as retryable at every hello
\* (#assertRealDirectories, #engineError), and their rows stay as they are.
CutOff(w) == row[w].state = "WORKER_OFFLINE" /\ link = "down" /\ upsets = MaxUpsets
BackAgain(w) == row[w].state # "WORKER_OFFLINE" \/ status = "DISABLED"
Reappears == \A w \in Workspaces : CutOff(w) /\ ~box[w].half ~> BackAgain(w)
=============================================================================
