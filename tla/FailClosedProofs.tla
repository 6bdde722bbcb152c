-------------------------- MODULE FailClosedProofs --------------------------
(* Proofs about FailClosed, for any Workspaces, administrators, projects,    *)
(* limits, checks and first states: what runs is contained, and limits        *)
(* settle.                                                                   *)
EXTENDS FailClosed, WellFoundedInduction, TLAPS

Quotas == [project : Projects, bytes : Limits]
Boxes ==
  [dir : {"none", "bare", "managed"}, quota : Quotas \cup {NoQuota}, tag : Projects \cup {0},
   home : {"empty", "partial", "copied", "lost"}, seeded : BOOLEAN,
   network : {"none", "legacy", "current"}, container : {"none", "stopped", "running"},
   shape : {"legacy", "current"}, fits : BOOLEAN]
States ==
  {"CREATED", "STARTING", "RUNNING", "STOPPING", "STOPPED", "DELETING", "ERROR", "RECOVERING", "gone"}
StartRequests == [at : Starting \cup {"failed"}, bytes : Limits, fresh : BOOLEAN]
OtherRequests == [at : {"idle", "stop", "stopped", "delete", "deleted", "failed"}]
Patches == [at : {"idle"}] \cup [at : {"send", "wait"}, w : Workspaces, bytes : Limits]
Kinds == {"ensure", "start", "stop", "delete"}
CommandSet ==
  [kind : {"start", "stop", "delete"}, w : Workspaces]
    \cup [kind : {"ensure"}, w : Workspaces, bytes : Limits]
    \cup [kind : {"set"}, w : Workspaces, bytes : Limits, admin : Admins]
    \cup [kind : {"reconcile"}, bytes : UNION {[W -> Limits] : W \in SUBSET Workspaces}]

Typed ==
  /\ enforced \in [Guards -> BOOLEAN] /\ up \in BOOLEAN
  /\ check \in [Checks -> [at : {"idle", "egress", "storage"}, left : SUBSET Workspaces]]
  /\ ws \in [Workspaces -> Boxes] /\ limit \in [Projects -> Limits \cup {0}]
  /\ row \in [Workspaces -> [state : States, limit : Limits]]
  /\ request \in [Workspaces -> StartRequests \cup OtherRequests]
  /\ patch \in [Admins -> Patches]
  /\ queue \in Seq(CommandSet)
  /\ step \in {"idle", "gated", "prepared", "wait"}
  /\ stale \in [Workspaces -> BOOLEAN]

HostKnown == host \in [Guards -> BOOLEAN]

\* A project belongs to one Workspace.
OwnProjects ==
  \A v, w \in Workspaces : ws[v].quota # NoQuota /\ ws[w].quota # NoQuota /\ v # w =>
    ws[v].quota.project # ws[w].quota.project

\* A container, running or not, is there once everything is that contains it, and
\* one of an earlier release still has its home.
Sound(s, l) ==
  /\ s.quota # NoQuota => s.dir = "managed"
  /\ s.container # "none" => s.dir = "managed" /\ s.network # "none"
  /\ s.home \in {"empty", "partial"} => s.container # "none" /\ s.shape = "legacy"
  /\ s.container # "none" /\ s.shape = "current" =>
       /\ s.network = "current" /\ s.quota # NoQuota /\ s.tag = s.quota.project
       /\ l[s.quota.project] # 0 /\ s.seeded
Boxed == \A w \in Workspaces : Sound(ws[w], limit)

\* Such a one runs only until the Worker's first reconciliation.
Leaving ==
  \A w \in Workspaces : ws[w].container = "running" /\ ws[w].shape = "legacy" =>
    row[w].state = "RECOVERING" \/ mismatched(ws[w])

\* The commands are what their senders wait for, each one of a kind; a
\* reconciliation comes first, and finds its rows as it left them.
Asked ==
  /\ \A i \in DOMAIN queue :
       /\ queue[i].kind \in Kinds => request[queue[i].w].at = queue[i].kind
       /\ queue[i].kind = "ensure" => queue[i].bytes = request[queue[i].w].bytes
       /\ queue[i].kind = "set" =>
            patch[queue[i].admin] = [at |-> "wait", w |-> queue[i].w, bytes |-> queue[i].bytes]
       /\ queue[i].kind = "reconcile" =>
            i = 1 /\ \A w \in DOMAIN queue[i].bytes : row[w].state = "RECOVERING"
  /\ \A i, j \in DOMAIN queue :
       /\ queue[i].kind \in Kinds /\ queue[j].kind \in Kinds /\ queue[i].w = queue[j].w => i = j
       /\ queue[i].kind = "set" /\ queue[j].kind = "set" /\ queue[i].admin = queue[j].admin => i = j
  /\ \A w \in Workspaces : request[w].at \in Kinds =>
       \E i \in DOMAIN queue : queue[i].kind = request[w].at /\ queue[i].w = w
  /\ \A w \in Workspaces : row[w].state = "RECOVERING" => request[w].at = "idle"
  /\ ~up => /\ queue = <<>> /\ step = "idle"
            /\ \A w \in Workspaces : request[w].at = "idle" /\ (Assigned(w) => row[w].state = "RECOVERING")

\* A start that has passed the gate is of a container made by this release.
Gated ==
  /\ step # "idle" => Executes("start")
  /\ step \in {"gated", "prepared"} => ws[Command.w].container # "none" /\ ws[Command.w].shape = "current"

\* As long as nothing is stale, every change and every start on its way carries
\* the row's limit, and so does the container that runs.
InForce(w) ==
  /\ ws[w].quota # NoQuota
  /\ ws[w].quota.bytes = row[w].limit /\ limit[ws[w].quota.project] = row[w].limit
Current(w) ==
  /\ ~stale[w] =>
       /\ \A a \in Admins : patch[a].at # "idle" /\ patch[a].w = w => patch[a].bytes = row[w].limit
       /\ NoPatch(w) => \A i \in DOMAIN queue : queue[i].kind = "reconcile" /\ w \in DOMAIN queue[i].bytes =>
            queue[i].bytes[w] = row[w].limit
       /\ NoPatch(w) /\ ws[w].container = "running" /\ ws[w].quota # NoQuota =>
            limit[ws[w].quota.project] = row[w].limit
  /\ request[w].at \in Starting =>
       /\ request[w].fresh => NoPatch(w)
       /\ ~stale[w] \/ request[w].fresh =>
            IF request[w].at \in {"scheduled", "ensure"} THEN request[w].bytes = row[w].limit ELSE InForce(w)
LimitsAreCurrent == \A w \in Workspaces : Current(w)

IndInv == Typed /\ OwnProjects /\ Boxed /\ Leaving /\ Asked /\ Gated /\ LimitsAreCurrent

-----------------------------------------------------------------------------
(* The invariant says what the properties say.                              *)

LEMMA InvariantSaysSo == IndInv => TypeOK /\ RunningIsContained /\ LimitsSettle
  <1>. SUFFICES ASSUME IndInv PROVE TypeOK /\ RunningIsContained /\ LimitsSettle
    OBVIOUS
  <1>1. TypeOK
    BY DEF IndInv, Typed, Boxed, Sound, Asked, Gated, TypeOK, Boxes, Quotas, Kinds
  <1>2. RunningIsContained
    <2>. SUFFICES ASSUME NEW w \in Workspaces, ws[w].container = "running"
                  PROVE  \/ Contained(w)
                         \/ ws[w].shape = "legacy" /\ ~gatewayTarget(w)
                              /\ (row[w].state = "RECOVERING" \/ mismatched(ws[w]))
      BY DEF RunningIsContained, Running
    <2>1. ws[w] \in Boxes /\ Sound(ws[w], limit)
      BY DEF IndInv, Typed, Boxed
    <2>2. CASE ws[w].shape = "current"
      <3>1. ws[w].home \in {"copied", "lost"}
        BY <2>1, <2>2 DEF Boxes, Sound
      <3>2. \A v \in Workspaces \ {w} : ws[v].quota = NoQuota \/ ws[v].quota.project # ws[w].quota.project
        BY <2>1, <2>2 DEF IndInv, OwnProjects, Sound
      <3>. QED BY <2>1, <2>2, <3>1, <3>2 DEF Sound, Contained
    <2>3. CASE ws[w].shape = "legacy"
      BY <2>3 DEF IndInv, Leaving, gatewayTarget, needsMigration
    <2>. QED BY <2>1, <2>2, <2>3 DEF Boxes
  <1>3. LimitsSettle
    BY DEF IndInv, LimitsAreCurrent, Current, LimitsSettle, Running
  <1>. QED BY <1>1, <1>2, <1>3

-----------------------------------------------------------------------------
(* Sequences: queues and stages.                                            *)

\* Every element of a sequence put together is one of its parts'.
LEMMA Joins ==
  ASSUME NEW S, NEW s \in Seq(S), NEW t \in Seq(S)
  PROVE  /\ s \o t \in Seq(S)
         /\ t # <<>> => s \o t # <<>> /\ Last(s \o t) = Last(t)
  BY DEF Last

\* The last of some stages is one of them.
LEMMA LastIsOne ==
  ASSUME NEW S, NEW s \in Seq(S), s # <<>>
  PROVE  Last(s) \in S
  BY DEF Last

LEMMA Tails ==
  ASSUME NEW S, NEW s \in Seq(S), s # <<>>
  PROVE  /\ Tail(s) \in Seq(S) /\ Head(s) = s[1] /\ 1 \in DOMAIN s /\ s[1] \in S
         /\ \A i \in DOMAIN Tail(s) : i + 1 \in DOMAIN s /\ Tail(s)[i] = s[i + 1] /\ i \in Nat
         /\ \A i \in DOMAIN s : i # 1 => i - 1 \in DOMAIN Tail(s) /\ s[i] = Tail(s)[i - 1]
  OBVIOUS

LEMMA Appends ==
  ASSUME NEW S, NEW s \in Seq(S), NEW c \in S
  PROVE  /\ Append(s, c) \in Seq(S) /\ Append(s, c) # <<>>
         /\ \A i \in DOMAIN s : i \in DOMAIN Append(s, c) /\ Append(s, c)[i] = s[i]
         /\ Len(s) + 1 \in DOMAIN Append(s, c) /\ Append(s, c)[Len(s) + 1] = c
         /\ \A i \in DOMAIN Append(s, c) : i \in DOMAIN s \/ (i = Len(s) + 1 /\ i \notin DOMAIN s)
         /\ s # <<>> => Head(Append(s, c)) = Head(s)
  OBVIOUS

-----------------------------------------------------------------------------
(* A project for a Workspace without one.                                   *)

\* Some number of a set of them is the least.
LEMMA Least ==
  ASSUME NEW S \in SUBSET Nat, S # {}
  PROVE  \E p \in S : \A q \in S : p <= q
  <1>1. PICK p \in S : \A q \in S : <<q, p>> \notin OpToRel(<, Nat)
    BY NatLessThanWellFounded, WFMin
  <1>2. ASSUME NEW q \in S PROVE p <= q
    <2>1. ~(q < p)
      BY <1>1, <1>2 DEF OpToRel
    <2>. QED BY <2>1
  <1>. QED BY <1>2

\* What unusedProjectIds returns is a project, and nobody's.
LEMMA UnusedIsFree ==
  ASSUME ws \in [Workspaces -> Boxes], NEW w \in Workspaces, ws[w].quota = NoQuota
  PROVE  /\ unusedProjectIds \in Projects
         /\ \A v \in Workspaces : ws[v].quota # NoQuota => ws[v].quota.project # unusedProjectIds
  <1>1. PICK p0 \in Projects : TRUE
    BY FailClosedAssumption
  <1>. DEFINE project == [v \in Workspaces \ {w} |-> IF ws[v].quota = NoQuota THEN p0 ELSE ws[v].quota.project]
  <1>2. \A v \in Workspaces : ws[v].quota # NoQuota => ws[v].quota.project \in Projects
    BY DEF Boxes, Quotas
  <1>3. project \in [Workspaces \ {w} -> Projects]
    BY <1>2
  <1>4. PICK p \in Projects : \A v \in Workspaces \ {w} : project[v] # p
    <2>1. \A f \in [Workspaces \ {w} -> Projects] :
            \E p \in Projects : \A v \in Workspaces \ {w} : f[v] # p
      BY FailClosedAssumption, Zenon
    <2>. HIDE DEF project
    <2>. QED BY <1>3, <2>1, Zenon
  <1>5. p \notin Used
    BY <1>4 DEF Used
  <1>6. PICK q \in Projects \ Used : \A r \in Projects \ Used : q <= r
    BY <1>5, Least, FailClosedAssumption
  <1>7. unusedProjectIds \in Projects \ Used
    BY <1>6 DEF unusedProjectIds
  <1>. QED BY <1>7 DEF Used

-----------------------------------------------------------------------------
(* What a call may bring a Workspace to: a sound state, in a project no      *)
(* other Workspace has, that leaves their limits alone and starts nothing.   *)
(* What runs keeps its project, whose limit is as before or the call's.       *)

Stages == [ws : Boxes, limit : [Projects -> Limits \cup {0}]]
Good(w, bytes) ==
  {g \in Stages :
     /\ Sound(g.ws, g.limit)
     /\ \A v \in Workspaces \ {w} : ws[v].quota # NoQuota =>
          /\ g.limit[ws[v].quota.project] = limit[ws[v].quota.project]
          /\ g.ws.quota # NoQuota => g.ws.quota.project # ws[v].quota.project
     /\ g.ws.container = "running" =>
          /\ ws[w].container = "running" /\ g.ws.shape = ws[w].shape /\ g.ws.fits = ws[w].fits
          /\ g.ws.quota # NoQuota =>
               /\ ws[w].quota # NoQuota /\ g.ws.quota.project = ws[w].quota.project
               /\ g.limit[g.ws.quota.project] \in {limit[g.ws.quota.project], bytes}}

BoxInv == ws \in [Workspaces -> Boxes] /\ limit \in [Projects -> Limits \cup {0}] /\ OwnProjects /\ Boxed

\* prepareStorage, of a Workspace whose directory is there and whose container, if
\* it has one, is of this release: its project gets the limit, and nothing else changes.
SameButQuota(s, t) ==
  /\ s.home = t.home /\ s.seeded = t.seeded /\ s.network = t.network
  /\ s.container = t.container /\ s.shape = t.shape /\ s.fits = t.fits
Prepared(s, g, bytes) ==
  /\ SameButQuota(g.ws, s) /\ g.ws.dir = "managed"
  /\ g.ws.quota # NoQuota /\ g.ws.quota.bytes = bytes /\ g.ws.tag = g.ws.quota.project
  /\ g.limit[g.ws.quota.project] = bytes

LEMMA PreparesStorage ==
  ASSUME BoxInv, NEW w \in Workspaces, NEW bytes \in Limits, NEW s \in Boxes,
         s.dir = "managed", SameButQuota(s, ws[w]), s.quota = ws[w].quota, s.tag = ws[w].tag, ~needsMigration(s)
  PROVE  /\ prepareStorage(s, bytes) \in Seq(Good(w, bytes)) /\ prepareStorage(s, bytes) # <<>>
         /\ Prepared(s, Last(prepareStorage(s, bytes)), bytes)
  <1>. DEFINE project == IF s.quota = NoQuota THEN unusedProjectIds ELSE s.quota.project
  <1>1. /\ project \in Projects
        /\ \A v \in Workspaces \ {w} : ws[v].quota # NoQuota => project # ws[v].quota.project
        /\ s.quota # NoQuota => s.quota.project = project
    <2>1. CASE s.quota = NoQuota
      BY <2>1, UnusedIsFree DEF BoxInv
    <2>2. CASE s.quota # NoQuota
      BY <2>2 DEF BoxInv, OwnProjects, Boxes, Quotas
    <2>. QED BY <2>1, <2>2
  <1>. HIDE DEF project
  <1>. DEFINE quota == [project |-> project, bytes |-> bytes]
              recorded == [s EXCEPT !.quota = quota]
              tagged == [recorded EXCEPT !.tag = project]
              set == [limit EXCEPT ![project] = bytes]
  <1>2. quota \in Quotas /\ quota # NoQuota /\ quota.project = project /\ quota.bytes = bytes
    BY <1>1, FailClosedAssumption DEF Quotas
  <1>. HIDE DEF quota
  <1>3. /\ recorded \in Boxes /\ SameButQuota(recorded, s) /\ recorded.quota = quota
        /\ recorded.dir = "managed" /\ recorded.tag = s.tag
    BY <1>2 DEF Boxes, SameButQuota
  <1>. HIDE DEF recorded
  <1>4. /\ tagged \in Boxes /\ SameButQuota(tagged, s) /\ tagged.quota = quota
        /\ tagged.dir = "managed" /\ tagged.tag = project
    BY <1>1, <1>3 DEF Boxes, SameButQuota
  <1>. HIDE DEF tagged
  <1>5. /\ set \in [Projects -> Limits \cup {0}] /\ set[project] = bytes
        /\ \A p \in Projects : p # project => set[p] = limit[p]
    BY <1>1 DEF BoxInv
  <1>. HIDE DEF set
  <1>6. Sound(ws[w], limit) /\ bytes # 0
    BY FailClosedAssumption DEF BoxInv, Boxed
  <1>7. \A v \in Workspaces : ws[v].quota # NoQuota => ws[v].quota.project \in Projects
    BY DEF BoxInv, Boxes, Quotas
  <1>8. s.container # "none" => s.shape = "current"
    BY DEF needsMigration, Boxes
  <1>9. s.home \in {"empty", "partial"} => s.container # "none" /\ s.shape = "legacy"
    BY <1>6 DEF Sound, SameButQuota
  <1>10. s.container # "none" =>
           s.network = "current" /\ s.seeded /\ s.quota # NoQuota /\ s.tag = s.quota.project /\ limit[s.quota.project] # 0
    BY <1>6, <1>8 DEF Sound, SameButQuota
  <1>11. At(recorded, limit) \in Good(w, bytes)
    <2>1. Sound(recorded, limit)
      BY <1>1, <1>2, <1>3, <1>8, <1>9, <1>10 DEF Sound, SameButQuota
    <2>. QED BY <1>1, <1>2, <1>3, <1>7, <1>8, <1>10, <2>1 DEF Good, Stages, At, BoxInv, SameButQuota
  <1>12. At(tagged, limit) \in Good(w, bytes)
    <2>1. Sound(tagged, limit)
      BY <1>1, <1>2, <1>4, <1>8, <1>9, <1>10 DEF Sound, SameButQuota
    <2>. QED BY <1>1, <1>2, <1>4, <1>7, <1>8, <1>10, <2>1 DEF Good, Stages, At, BoxInv, SameButQuota
  <1>13. At(tagged, set) \in Good(w, bytes)
    <2>1. Sound(tagged, set)
      BY <1>1, <1>2, <1>4, <1>5, <1>6, <1>8, <1>9, <1>10 DEF Sound, SameButQuota
    <2>. QED BY <1>1, <1>2, <1>4, <1>5, <1>7, <1>8, <1>10, <2>1 DEF Good, Stages, At, SameButQuota
  <1>. DEFINE first == <<At(recorded, limit)>>
              rest == <<At(tagged, limit), At(tagged, set)>>
  <1>14. prepareStorage(s, bytes) = first \o rest
    BY DEF prepareStorage, prepareWorkspace, setProject, setLimit, project, quota, recorded, tagged, set
  <1>15. /\ first \in Seq(Good(w, bytes)) /\ rest \in Seq(Good(w, bytes)) /\ rest # <<>>
         /\ Last(rest) = At(tagged, set)
    BY <1>11, <1>12, <1>13 DEF Last
  <1>. HIDE DEF first, rest
  <1>16. /\ prepareStorage(s, bytes) \in Seq(Good(w, bytes)) /\ prepareStorage(s, bytes) # <<>>
         /\ Last(prepareStorage(s, bytes)) = At(tagged, set)
    BY <1>14, <1>15, Joins
  <1>. QED BY <1>2, <1>4, <1>5, <1>16 DEF Prepared, At

\* created, after that: the network, and a container if there is none.
InForceIn(g, bytes) ==
  g.ws.quota # NoQuota /\ g.ws.quota.bytes = bytes /\ g.limit[g.ws.quota.project] = bytes

LEMMA Creates ==
  ASSUME BoxInv, NEW w \in Workspaces, NEW bytes \in Limits, NEW from \in Good(w, bytes),
         from.ws.dir = "managed", InForceIn(from, bytes), from.ws.tag = from.ws.quota.project,
         ~needsMigration(from.ws), ~networkRefused(from.ws)
  PROVE  /\ created(from) \in Seq(Good(w, bytes)) /\ created(from) # <<>>
         /\ InForceIn(Last(created(from)), bytes)
  <1>. DEFINE connected == ensureNetwork(from.ws)
              homely == initializeHome(connected)
              new == createContainer(homely)
  <1>1. /\ from.ws \in Boxes /\ from.limit \in [Projects -> Limits \cup {0}]
        /\ Sound(from.ws, from.limit) /\ bytes # 0
    BY FailClosedAssumption DEF Good, Stages
  <1>2. /\ connected \in Boxes /\ connected.network = "current" /\ connected.quota = from.ws.quota
        /\ connected.tag = from.ws.tag /\ connected.dir = "managed" /\ connected.home = from.ws.home
        /\ connected.seeded = from.ws.seeded /\ connected.container = from.ws.container
        /\ connected.shape = from.ws.shape /\ connected.fits = from.ws.fits
    BY <1>1 DEF Boxes, ensureNetwork
  <1>. HIDE DEF connected
  <1>3. /\ homely \in Boxes /\ homely.seeded /\ homely.quota = connected.quota
        /\ homely.tag = connected.tag /\ homely.dir = "managed" /\ homely.home = connected.home
        /\ homely.container = connected.container /\ homely.network = "current"
    BY <1>2 DEF Boxes, initializeHome
  <1>. HIDE DEF homely
  <1>4. /\ new \in Boxes /\ new.seeded /\ new.quota = connected.quota
        /\ new.tag = connected.tag /\ new.dir = "managed" /\ new.home = connected.home
        /\ new.container = "stopped" /\ new.shape = "current" /\ new.network = "current"
    BY <1>3 DEF Boxes, createContainer
  <1>. HIDE DEF new
  <1>5. At(connected, from.limit) \in Good(w, bytes)
    <2>1. Sound(connected, from.limit)
      BY <1>1, <1>2 DEF Sound
    <2>. QED BY <1>1, <1>2, <2>1 DEF Good, Stages, At
  <1>6. ASSUME connected.container = "none"
        PROVE  At(homely, from.limit) \in Good(w, bytes) /\ At(new, from.limit) \in Good(w, bytes)
    <2>1. connected.home \notin {"empty", "partial"}
      BY <1>1, <1>2, <1>6 DEF Sound
    <2>2. Sound(homely, from.limit)
      BY <1>1, <1>2, <1>3, <1>6, <2>1 DEF Sound, InForceIn
    <2>3. Sound(new, from.limit)
      BY <1>1, <1>2, <1>4, <1>6, <2>1 DEF Sound, InForceIn
    <2>4. At(homely, from.limit) \in Good(w, bytes)
      BY <1>1, <1>2, <1>3, <1>6, <2>2 DEF Good, Stages, At
    <2>5. At(new, from.limit) \in Good(w, bytes)
      BY <1>1, <1>2, <1>4, <1>6, <2>3 DEF Good, Stages, At
    <2>. QED BY <2>4, <2>5
  <1>. DEFINE first == <<At(connected, from.limit)>>
              rest == IF connected.container # "none" THEN <<>>
                      ELSE <<At(homely, from.limit), At(new, from.limit)>>
  <1>7. created(from) = first \o rest
    BY DEF created, connected, homely, new
  <1>8. first \in Seq(Good(w, bytes)) /\ rest \in Seq(Good(w, bytes)) /\ first # <<>>
    BY <1>5, <1>6
  <1>9. CASE connected.container # "none"
    <2>1. created(from) = first
      BY <1>7, <1>8, <1>9
    <2>2. Last(first) = At(connected, from.limit)
      BY DEF Last
    <2>. QED BY <1>2, <1>8, <2>1, <2>2 DEF InForceIn, At
  <1>10. CASE connected.container = "none"
    <2>1. rest # <<>> /\ Last(rest) = At(new, from.limit)
      BY <1>10 DEF Last
    <2>. HIDE DEF first, rest
    <2>2. first \o rest \in Seq(Good(w, bytes)) /\ first \o rest # <<>> /\ Last(first \o rest) = Last(rest)
      BY <1>8, <2>1, Joins
    <2>. QED BY <1>2, <1>4, <1>7, <2>1, <2>2 DEF InForceIn, At
  <1>. QED BY <1>9, <1>10

\* ensure: every stage is a good one, and if it is not refused the last has the
\* limit in force that came with the command.
LEMMA Ensures ==
  ASSUME BoxInv, NEW w \in Workspaces, NEW bytes \in Limits
  PROVE  /\ ensureStages(w, bytes) \in Seq(Good(w, bytes))
         /\ ~ensureRefused(w) => /\ ensureStages(w, bytes) # <<>>
                                 /\ InForceIn(Last(ensureStages(w, bytes)), bytes)
  <1>. DEFINE paths == ensureWorkspacePaths(ws[w])
              made == [ws[w] EXCEPT !.dir = "managed"]
              bare == [ws[w] EXCEPT !.dir = "bare"]
              prepared == prepareStorage(made, bytes)
  <1>1. ws[w] \in Boxes /\ Sound(ws[w], limit) /\ limit \in [Projects -> Limits \cup {0}]
    BY DEF BoxInv, Boxed
  <1>2. CASE pathsRefused(ws[w])
    <2>1. ensureStages(w, bytes) = <<>>
      BY <1>2 DEF ensureStages
    <2>. QED BY <1>2, <2>1 DEF ensureRefused
  <1>3. CASE ~pathsRefused(ws[w])
    <2>1. /\ made \in Boxes /\ made.dir = "managed" /\ SameButQuota(made, ws[w])
          /\ made.quota = ws[w].quota /\ made.tag = ws[w].tag
          /\ bare \in Boxes /\ SameButQuota(bare, ws[w]) /\ bare.quota = ws[w].quota /\ bare.tag = ws[w].tag
      BY <1>1 DEF Boxes, SameButQuota
    <2>2. paths \in Seq(Good(w, bytes))
      <3>1. CASE ws[w].dir = "none"
        <4>1. ws[w].quota = NoQuota /\ ws[w].container = "none"
          BY <1>1, <3>1 DEF Sound, Boxes
        <4>2. Sound(made, limit) /\ Sound(bare, limit)
          BY <1>1, <2>1, <4>1 DEF Sound, SameButQuota
        <4>. HIDE DEF made, bare
        <4>3. At(made, limit) \in Good(w, bytes) /\ At(bare, limit) \in Good(w, bytes)
          BY <1>1, <2>1, <4>1, <4>2 DEF Good, Stages, At, SameButQuota
        <4>4. paths = <<At(bare, limit), At(made, limit)>>
          BY <3>1 DEF ensureWorkspacePaths, made, bare
        <4>. QED BY <4>3, <4>4
      <3>2. CASE ws[w].dir # "none"
        BY <3>2 DEF ensureWorkspacePaths
      <3>. QED BY <3>1, <3>2
    <2>. HIDE DEF paths, made, bare
    <2>3. needsMigration(made) <=> needsMigration(ws[w])
      BY <2>1 DEF needsMigration, SameButQuota
    <2>4. CASE needsMigration(ws[w]) \/ ~enforced.storage
      <3>1. ensureStages(w, bytes) = paths
        BY <1>3, <2>4 DEF ensureStages, paths
      <3>. QED BY <2>2, <2>4, <3>1 DEF ensureRefused
    <2>5. CASE ~needsMigration(ws[w]) /\ enforced.storage
      <3>1. /\ prepared \in Seq(Good(w, bytes)) /\ prepared # <<>>
            /\ Prepared(made, Last(prepared), bytes)
        BY <2>1, <2>3, <2>5, PreparesStorage
      <3>. HIDE DEF prepared
      <3>2. paths \o prepared \in Seq(Good(w, bytes))
        BY <2>2, <3>1, Joins
      <3>3. CASE networkRefused(ws[w])
        <4>1. ensureStages(w, bytes) = paths \o prepared
          BY <1>3, <2>5, <3>3 DEF ensureStages, paths, made, prepared
        <4>. QED BY <3>2, <3>3, <4>1 DEF ensureRefused
      <3>4. CASE ~networkRefused(ws[w])
        <4>1. PICK from \in Good(w, bytes) : from = Last(prepared)
          BY <3>1, LastIsOne
        <4>2. /\ from.ws.dir = "managed" /\ InForceIn(from, bytes) /\ from.ws.tag = from.ws.quota.project
              /\ ~needsMigration(from.ws) /\ ~networkRefused(from.ws)
          BY <2>1, <2>5, <3>1, <3>4, <4>1 DEF Prepared, InForceIn, SameButQuota, needsMigration, networkRefused
        <4>3. /\ created(from) \in Seq(Good(w, bytes)) /\ created(from) # <<>>
              /\ InForceIn(Last(created(from)), bytes)
          BY <4>2, Creates
        <4>4. ensureStages(w, bytes) = (paths \o prepared) \o created(from)
          BY <1>3, <2>5, <3>4, <4>1 DEF ensureStages, paths, made, prepared
        <4>5. PICK before, after :
                before = paths \o prepared /\ after = created(from)
          OBVIOUS
        <4>6. /\ before \o after \in Seq(Good(w, bytes)) /\ before \o after # <<>>
              /\ Last(before \o after) = Last(after)
          BY <3>2, <4>3, <4>5, Joins
        <4>. QED BY <4>3, <4>4, <4>5, <4>6
      <3>. QED BY <3>3, <3>4
    <2>. QED BY <2>4, <2>5
  <1>. QED BY <1>2, <1>3

\* delete: every stage is without a container.
LEMMA Deletes ==
  ASSUME BoxInv, NEW w \in Workspaces, NEW bytes \in Limits
  PROVE  deleteStages(w) \in Seq(Good(w, bytes))
  <1>. DEFINE home == IF needsMigration(ws[w]) /\ ws[w].home # "copied" THEN "lost" ELSE ws[w].home
              stopped == [ws[w] EXCEPT !.container = "none", !.home = home]
              gone == [stopped EXCEPT !.network = "none"]
              bare == [gone EXCEPT !.dir = "bare", !.quota = NoQuota, !.seeded = FALSE]
  <1>1. ws[w] \in Boxes /\ Sound(ws[w], limit) /\ limit \in [Projects -> Limits \cup {0}]
    BY DEF BoxInv, Boxed
  <1>2. home \in {"copied", "lost"}
    BY <1>1 DEF Sound, Boxes, needsMigration
  <1>. HIDE DEF home
  <1>3. /\ stopped \in Boxes /\ stopped.container = "none" /\ stopped.home = home
        /\ stopped.quota = ws[w].quota /\ stopped.dir = ws[w].dir
    BY <1>1, <1>2 DEF Boxes
  <1>. HIDE DEF stopped
  <1>4. /\ gone \in Boxes /\ gone.container = "none" /\ gone.home = home
        /\ gone.quota = ws[w].quota /\ gone.dir = ws[w].dir
    BY <1>3 DEF Boxes
  <1>. HIDE DEF gone
  <1>5. /\ bare \in Boxes /\ bare.container = "none" /\ bare.home = home /\ bare.quota = NoQuota
    BY <1>2, <1>4 DEF Boxes
  <1>. HIDE DEF bare
  <1>6. Removed \in Boxes /\ Removed.container = "none" /\ Removed.home = "lost" /\ Removed.quota = NoQuota
    BY DEF Removed, Boxes
  <1>7. ASSUME NEW s \in Boxes, s.container = "none", s.home \in {"copied", "lost"},
               s.quota = NoQuota \/ (s.quota = ws[w].quota /\ s.dir = ws[w].dir)
        PROVE  At(s, limit) \in Good(w, bytes)
    <2>1. Sound(s, limit)
      BY <1>1, <1>7 DEF Sound
    <2>. QED BY <1>1, <1>7, <2>1 DEF Good, Stages, At, BoxInv, OwnProjects
  <1>8. /\ At(stopped, limit) \in Good(w, bytes) /\ At(gone, limit) \in Good(w, bytes)
        /\ At(bare, limit) \in Good(w, bytes) /\ At(Removed, limit) \in Good(w, bytes)
    BY <1>2, <1>3, <1>4, <1>5, <1>6, <1>7
  <1>9. deleteStages(w) = <<At(stopped, limit), At(gone, limit), At(bare, limit), At(Removed, limit)>>
    BY DEF deleteStages, home, stopped, gone, bare
  <1>. QED BY <1>8, <1>9

\* And so is the end, whether or not the project's limit is released.
LEMMA Releases ==
  ASSUME BoxInv, NEW w \in Workspaces, NEW bytes \in Limits
  PROVE  At(Removed, limit) \in Good(w, bytes) /\ At(Removed, releaseWorkspace(w)) \in Good(w, bytes)
  <1>1. Removed \in Boxes /\ Removed.container = "none" /\ Removed.home = "lost" /\ Removed.quota = NoQuota
    BY DEF Removed, Boxes
  <1>2. /\ releaseWorkspace(w) \in [Projects -> Limits \cup {0}]
        /\ \A v \in Workspaces \ {w} : ws[v].quota # NoQuota =>
             releaseWorkspace(w)[ws[v].quota.project] = limit[ws[v].quota.project]
    BY DEF releaseWorkspace, setLimit, BoxInv, OwnProjects, Boxes, Quotas
  <1>3. \A l : Sound(Removed, l)
    BY <1>1 DEF Sound
  <1>. QED BY <1>1, <1>2, <1>3 DEF Good, Stages, At, BoxInv

\* setDiskLimit: the project is the same, the limit in force the old one or the new.
LEMMA SetsLimit ==
  ASSUME BoxInv, NEW w \in Workspaces, NEW bytes \in Limits
  PROVE  /\ setDiskLimitStages(w, bytes) \in Seq(Good(w, bytes))
         /\ \A n \in DOMAIN setDiskLimitStages(w, bytes) :
              InForceIn(At(ws[w], limit), bytes) => InForceIn(setDiskLimitStages(w, bytes)[n], bytes)
         /\ setDiskLimitStages(w, bytes) # <<>> => InForceIn(Last(setDiskLimitStages(w, bytes)), bytes)
         /\ setDiskLimitStages(w, bytes) = <<>> => ws[w].quota = NoQuota \/ ~enforced.storage
  <1>1. ws[w] \in Boxes /\ Sound(ws[w], limit) /\ limit \in [Projects -> Limits \cup {0}]
    BY DEF BoxInv, Boxed
  <1>2. CASE ws[w].quota = NoQuota \/ ~enforced.storage
    BY <1>2 DEF setDiskLimitStages
  <1>3. CASE ws[w].quota # NoQuota /\ enforced.storage
    <2>. DEFINE set == [limit EXCEPT ![ws[w].quota.project] = bytes]
                quota == [ws[w].quota EXCEPT !.bytes = bytes]
                new == [ws[w] EXCEPT !.quota = quota]
    <2>1. /\ set \in [Projects -> Limits \cup {0}] /\ set[ws[w].quota.project] = bytes /\ bytes # 0
          /\ \A p \in Projects : p # ws[w].quota.project => set[p] = limit[p]
      BY <1>1, <1>3, FailClosedAssumption DEF Boxes, Quotas
    <2>. HIDE DEF set
    <2>2. quota \in Quotas /\ quota # NoQuota /\ quota.project = ws[w].quota.project /\ quota.bytes = bytes
      BY <1>1, <1>3, FailClosedAssumption DEF Boxes, Quotas
    <2>. HIDE DEF quota
    <2>3. /\ new \in Boxes /\ SameButQuota(new, ws[w]) /\ new.quota = quota
          /\ new.dir = ws[w].dir /\ new.tag = ws[w].tag
      BY <1>1, <2>2 DEF Boxes, SameButQuota
    <2>. HIDE DEF new
    <2>4. Sound(ws[w], set) /\ Sound(new, set)
      BY <1>1, <1>3, <2>1, <2>2, <2>3 DEF Sound, SameButQuota
    <2>5. \A v \in Workspaces \ {w} : ws[v].quota # NoQuota =>
            ws[v].quota.project \in Projects /\ ws[v].quota.project # ws[w].quota.project
      BY <1>3 DEF BoxInv, OwnProjects, Boxes, Quotas
    <2>6. At(ws[w], set) \in Good(w, bytes) /\ At(new, set) \in Good(w, bytes)
      BY <1>1, <1>3, <2>1, <2>2, <2>3, <2>4, <2>5 DEF Good, Stages, At, SameButQuota
    <2>7. setDiskLimitStages(w, bytes) = <<At(ws[w], set), At(new, set)>>
      <3>1. new = [ws[w] EXCEPT !.quota.bytes = bytes]
        BY DEF new, quota
      <3>. QED BY <1>3, <3>1 DEF setDiskLimitStages, setLimit, set
    <2>8. InForceIn(At(new, set), bytes)
      BY <2>1, <2>2, <2>3 DEF InForceIn, At
    <2>9. InForceIn(At(ws[w], limit), bytes) => InForceIn(At(ws[w], set), bytes)
      BY <1>3, <2>1 DEF InForceIn, At
    <2>. QED BY <2>6, <2>7, <2>8, <2>9 DEF Last
  <1>. QED BY <1>2, <1>3

-----------------------------------------------------------------------------
(* What a step leaves as it was.                                            *)

\* The step touches no Workspace but w, which it does not start.
Touches(w, bytes) ==
  /\ \A v \in Workspaces \ {w} :
       /\ ws'[v] = ws[v]
       /\ ws[v].quota # NoQuota => limit'[ws[v].quota.project] = limit[ws[v].quota.project]
  /\ ws'[w].container = "running" =>
       /\ ws[w].container = "running" /\ ws'[w].shape = ws[w].shape /\ ws'[w].fits = ws[w].fits
       /\ ws'[w].quota # NoQuota =>
            /\ ws[w].quota # NoQuota /\ ws'[w].quota.project = ws[w].quota.project
            /\ limit'[ws'[w].quota.project] \in {limit[ws[w].quota.project], bytes}

LEMMA Reached ==
  ASSUME BoxInv, NEW w \in Workspaces, NEW bytes,
         UNCHANGED local \/ \E g \in Good(w, bytes) : Reaches(w, g)
  PROVE  BoxInv' /\ Touches(w, bytes)
  <1>1. CASE UNCHANGED local
    BY <1>1 DEF local, BoxInv, OwnProjects, Boxed, Sound, Touches
  <1>2. ASSUME NEW g \in Good(w, bytes), Reaches(w, g) PROVE BoxInv' /\ Touches(w, bytes)
    <2>1. /\ g.ws \in Boxes /\ g.limit \in [Projects -> Limits \cup {0}] /\ Sound(g.ws, g.limit)
          /\ limit' = g.limit /\ ws' \in [Workspaces -> Boxes] /\ ws'[w] = g.ws
          /\ \A v \in Workspaces \ {w} : ws'[v] = ws[v]
      BY <1>2 DEF Good, Stages, Reaches, BoxInv
    <2>2. Touches(w, bytes)
      BY <1>2, <2>1 DEF Good, Touches
    <2>3. OwnProjects'
      <3>1. \A v \in Workspaces \ {w} : ws[v].quota # NoQuota /\ g.ws.quota # NoQuota =>
              g.ws.quota.project # ws[v].quota.project
        BY <1>2 DEF Good
      <3>2. OwnProjects /\ ws'[w] = g.ws /\ \A v \in Workspaces \ {w} : ws'[v] = ws[v]
        BY <2>1 DEF BoxInv
      <3>. QED BY <3>1, <3>2 DEF OwnProjects
    <2>4. Boxed'
      <3>. SUFFICES ASSUME NEW v \in Workspaces PROVE Sound(ws'[v], limit')
        BY DEF Boxed
      <3>1. CASE v = w
        BY <2>1, <3>1
      <3>2. CASE v # w
        <4>1. ws'[v] = ws[v] /\ Sound(ws[v], limit)
          BY <2>1, <3>2 DEF BoxInv, Boxed
        <4>. QED BY <2>2, <3>2, <4>1 DEF Touches, Sound
      <3>. QED BY <3>1, <3>2
    <2>. QED BY <2>1, <2>2, <2>3, <2>4 DEF BoxInv
  <1>. QED BY <1>1, <1>2

LEMMA StagesReach ==
  ASSUME NEW w \in Workspaces, NEW bytes, NEW stages \in Seq(Good(w, bytes)),
         Does(w, stages) \/ DoesSome(w, stages)
  PROVE  UNCHANGED local \/ \E g \in Good(w, bytes) : Reaches(w, g)
  <1>1. CASE Does(w, stages)
    BY <1>1, LastIsOne DEF Does
  <1>2. CASE DoesSome(w, stages)
    BY <1>2 DEF DoesSome
  <1>. QED BY <1>1, <1>2

\* What starts no container of an earlier release and settles no row under one
\* leaves those that run leaving.
LEMMA StillLeaving ==
  ASSUME Leaving,
         \A w \in Workspaces : ws'[w].container = "running" /\ ws'[w].shape = "legacy" =>
           ws[w].container = "running" /\ ws[w].shape = "legacy" /\ ws'[w].fits = ws[w].fits,
         \A w \in Workspaces : row[w].state = "RECOVERING" => row'[w].state = "RECOVERING"
  PROVE  Leaving'
  BY DEF Leaving, mismatched

LEMMA TouchedLeaving ==
  ASSUME Leaving, NEW w \in Workspaces, NEW bytes, Touches(w, bytes),
         \A v \in Workspaces : row[v].state = "RECOVERING" => row'[v].state = "RECOVERING"
  PROVE  Leaving'
  BY StillLeaving DEF Touches

\* Nothing about the limit of v becomes any staler.
Early == {"scheduled", "ensure"}
Steady(v) ==
  /\ row'[v].limit = row[v].limit /\ (stale[v] => stale'[v])
  /\ \A a \in Admins : patch'[a].at # "idle" /\ patch'[a].w = v =>
       patch[a].at # "idle" /\ patch[a].w = v /\ patch'[a].bytes = patch[a].bytes
  /\ NoPatch(v)' => NoPatch(v) \/ stale'[v]
  /\ \A i \in DOMAIN queue' : queue'[i].kind = "reconcile" => \E j \in DOMAIN queue : queue[j] = queue'[i]
  /\ ~stale'[v] /\ ws'[v].container = "running" /\ ws'[v].quota # NoQuota =>
       \/ limit'[ws'[v].quota.project] = row[v].limit
       \/ /\ ws[v].container = "running" /\ ws[v].quota # NoQuota
          /\ limit'[ws'[v].quota.project] = limit[ws[v].quota.project]
  /\ request'[v].at \in Starting =>
       /\ request[v].at \in Starting /\ request'[v].fresh = request[v].fresh
       /\ request'[v].bytes = request[v].bytes
       /\ request'[v].at \in Early => request[v].at \in Early
       /\ request'[v].at \notin Early =>
            IF request[v].at \in Early THEN request[v].bytes = row[v].limit => InForce(v)'
            ELSE InForce(v) => InForce(v)'

LEMMA StaysCurrent ==
  ASSUME Typed, Typed', NEW v \in Workspaces, Current(v), Steady(v)
  PROVE  Current(v)'
  <1>1. NoPatch(v) => NoPatch(v)'
    BY DEF Steady, NoPatch
  <1>2. stale'[v] \in BOOLEAN /\ stale[v] \in BOOLEAN
    BY DEF Typed
  <1>3. ASSUME ~stale'[v]
        PROVE  /\ \A a \in Admins : patch'[a].at # "idle" /\ patch'[a].w = v => patch'[a].bytes = row'[v].limit
               /\ NoPatch(v)' => \A i \in DOMAIN queue' : queue'[i].kind = "reconcile" /\ v \in DOMAIN queue'[i].bytes =>
                    queue'[i].bytes[v] = row'[v].limit
               /\ NoPatch(v)' /\ ws'[v].container = "running" /\ ws'[v].quota # NoQuota =>
                    limit'[ws'[v].quota.project] = row'[v].limit
    <2>1. ~stale[v] /\ (NoPatch(v)' => NoPatch(v)) /\ row'[v].limit = row[v].limit
      BY <1>3 DEF Steady
    <2>2. \A a \in Admins : patch'[a].at # "idle" /\ patch'[a].w = v => patch'[a].bytes = row'[v].limit
      BY <2>1 DEF Steady, Current
    <2>3. NoPatch(v)' => \A i \in DOMAIN queue' : queue'[i].kind = "reconcile" /\ v \in DOMAIN queue'[i].bytes =>
            queue'[i].bytes[v] = row'[v].limit
      BY <2>1 DEF Steady, Current
    <2>4. NoPatch(v)' /\ ws'[v].container = "running" /\ ws'[v].quota # NoQuota =>
            limit'[ws'[v].quota.project] = row'[v].limit
      BY <1>3, <2>1 DEF Steady, Current
    <2>. QED BY <2>2, <2>3, <2>4
  <1>4. ASSUME request'[v].at \in Starting
        PROVE  /\ request'[v].fresh => NoPatch(v)'
               /\ ~stale'[v] \/ request'[v].fresh =>
                    IF request'[v].at \in Early THEN request'[v].bytes = row'[v].limit ELSE InForce(v)'
    <2>1. /\ request[v].at \in Starting /\ request'[v].fresh = request[v].fresh
          /\ request'[v].bytes = request[v].bytes /\ row'[v].limit = row[v].limit
      BY <1>4 DEF Steady
    <2>2. /\ request[v].fresh => NoPatch(v)
          /\ ~stale[v] \/ request[v].fresh =>
               IF request[v].at \in Early THEN request[v].bytes = row[v].limit ELSE InForce(v)
      BY <2>1 DEF Current, Early
    <2>3. stale[v] => stale'[v]
      BY DEF Steady
    <2>. QED BY <1>1, <1>2, <1>4, <2>1, <2>2, <2>3 DEF Steady
  <1>. QED BY <1>3, <1>4 DEF Current, Early

-----------------------------------------------------------------------------
(* Requests and their commands.                                             *)

Requests == StartRequests \cup OtherRequests
SameRecovering ==
  \A v \in Workspaces : row'[v].state = "RECOVERING" <=> row[v].state = "RECOVERING"

LEMMA StartsAreStartRequests ==
  ASSUME NEW r \in Requests, r.at \in Starting
  PROVE  r \in StartRequests /\ r.bytes \in Limits /\ r.fresh \in BOOLEAN
  BY DEF Requests, OtherRequests, StartRequests, Starting

\* What each kind of command carries.
LEMMA CommandsCarry ==
  ASSUME NEW c \in CommandSet
  PROVE  /\ c.kind \in Kinds => c.w \in Workspaces
         /\ c.kind = "ensure" => c.kind \in Kinds /\ c.bytes \in Limits
         /\ c.kind = "set" => c.w \in Workspaces /\ c.bytes \in Limits /\ c.admin \in Admins
         /\ c.kind = "reconcile" => \A v \in DOMAIN c.bytes : v \in Workspaces /\ c.bytes[v] \in Limits
  <1>1. CASE c \in [kind : {"start", "stop", "delete"}, w : Workspaces]
    BY <1>1 DEF Kinds
  <1>2. CASE c \in [kind : {"ensure"}, w : Workspaces, bytes : Limits]
    BY <1>2 DEF Kinds
  <1>3. CASE c \in [kind : {"set"}, w : Workspaces, bytes : Limits, admin : Admins]
    BY <1>3 DEF Kinds
  <1>4. CASE c \in [kind : {"reconcile"}, bytes : UNION {[W -> Limits] : W \in SUBSET Workspaces}]
    <2>1. PICK W \in SUBSET Workspaces : c.bytes \in [W -> Limits]
      BY <1>4
    <2>. QED BY <1>4, <2>1 DEF Kinds
  <1>. QED BY <1>1, <1>2, <1>3, <1>4 DEF CommandSet

LEMMA QueueCarries ==
  ASSUME Typed, NEW i \in DOMAIN queue
  PROVE  /\ queue[i] \in CommandSet
         /\ queue[i].kind \in Kinds => queue[i].w \in Workspaces
         /\ queue[i].kind = "ensure" => queue[i].kind \in Kinds /\ queue[i].bytes \in Limits
         /\ queue[i].kind = "set" => queue[i].w \in Workspaces /\ queue[i].bytes \in Limits /\ queue[i].admin \in Admins
         /\ queue[i].kind = "reconcile" =>
              \A v \in DOMAIN queue[i].bytes : v \in Workspaces /\ queue[i].bytes[v] \in Limits
  <1>1. queue[i] \in CommandSet
    BY DEF Typed
  <1>. QED BY <1>1, CommandsCarry

\* A request that is under way shows that the Worker is connected.
LEMMA AskedIsUp ==
  ASSUME Typed, Asked, NEW w \in Workspaces, request[w].at # "idle"
  PROVE  up /\ row[w].state # "RECOVERING"
  BY DEF Typed, Asked

\* A command sent with the request that waits for it.
LEMMA Sends ==
  ASSUME Typed, Asked, Gated, up, NEW w \in Workspaces, row[w].state # "RECOVERING",
         request[w].at \notin Kinds, NEW r \in Requests, NEW c \in CommandSet,
         c.kind \in Kinds, c.w = w, r.at = c.kind, c.kind = "ensure" => c.bytes = r.bytes,
         request' = [request EXCEPT ![w] = r], queue' = Append(queue, c),
         patch' = patch, up' = up, step' = step, ws' = ws, SameRecovering
  PROVE  request' \in [Workspaces -> Requests] /\ queue' \in Seq(CommandSet) /\ Asked' /\ Gated'
  <1>1. /\ queue \in Seq(CommandSet) /\ request \in [Workspaces -> Requests]
    BY DEF Typed, Requests
  <1>2. /\ queue' \in Seq(CommandSet) /\ queue' # <<>>
        /\ \A i \in DOMAIN queue : i \in DOMAIN queue' /\ queue'[i] = queue[i]
        /\ Len(queue) + 1 \in DOMAIN queue' /\ queue'[Len(queue) + 1] = c
        /\ \A i \in DOMAIN queue' : i \in DOMAIN queue \/ (i = Len(queue) + 1 /\ i \notin DOMAIN queue)
        /\ queue # <<>> => Head(queue') = Head(queue)
    BY <1>1, Appends
  <1>3. /\ request' \in [Workspaces -> Requests] /\ request'[w] = r
        /\ \A v \in Workspaces : v # w => request'[v] = request[v]
    BY <1>1
  <1>4. \A i \in DOMAIN queue : queue[i].kind \in Kinds => queue[i].w # w /\ queue[i].w \in Workspaces
    <2>. TAKE i \in DOMAIN queue
    <2>. HAVE queue[i].kind \in Kinds
    <2>1. queue[i].w \in Workspaces
      BY QueueCarries
    <2>2. request[queue[i].w].at = queue[i].kind
      BY DEF Asked
    <2>. QED BY <2>1, <2>2
  <1>5. Kinds = {"ensure", "start", "stop", "delete"}
    BY DEF Kinds
  <1>6. Asked'
    <2>1. ASSUME NEW i \in DOMAIN queue'
          PROVE  /\ queue'[i].kind \in Kinds => request'[queue'[i].w].at = queue'[i].kind
                 /\ queue'[i].kind = "ensure" => queue'[i].bytes = request'[queue'[i].w].bytes
                 /\ queue'[i].kind = "set" =>
                      patch'[queue'[i].admin] = [at |-> "wait", w |-> queue'[i].w, bytes |-> queue'[i].bytes]
                 /\ queue'[i].kind = "reconcile" =>
                      i = 1 /\ \A v \in DOMAIN queue'[i].bytes : row'[v].state = "RECOVERING"
      <3>1. CASE i \in DOMAIN queue
        <4>1. queue[i].kind = "reconcile" => \A v \in DOMAIN queue[i].bytes : v \in Workspaces
          BY <3>1, QueueCarries
        <4>. QED BY <1>2, <1>3, <1>4, <1>5, <3>1, <4>1 DEF Asked, SameRecovering
      <3>2. CASE i \notin DOMAIN queue
        <4>1. queue'[i] = c
          BY <1>2, <3>2
        <4>. QED BY <1>3, <1>5, <4>1
      <3>. QED BY <3>1, <3>2
    <2>2. \A i, j \in DOMAIN queue' :
            /\ queue'[i].kind \in Kinds /\ queue'[j].kind \in Kinds /\ queue'[i].w = queue'[j].w => i = j
            /\ queue'[i].kind = "set" /\ queue'[j].kind = "set" /\ queue'[i].admin = queue'[j].admin => i = j
      <3>. SUFFICES ASSUME NEW i \in DOMAIN queue', NEW j \in DOMAIN queue'
                    PROVE  /\ queue'[i].kind \in Kinds /\ queue'[j].kind \in Kinds /\ queue'[i].w = queue'[j].w => i = j
                           /\ queue'[i].kind = "set" /\ queue'[j].kind = "set" /\ queue'[i].admin = queue'[j].admin => i = j
        OBVIOUS
      <3>1. CASE i \in DOMAIN queue /\ j \in DOMAIN queue
        BY <1>2, <3>1 DEF Asked
      <3>2. CASE i \notin DOMAIN queue
        BY <1>2, <1>4, <1>5, <3>2
      <3>3. CASE j \notin DOMAIN queue
        BY <1>2, <1>4, <1>5, <3>3
      <3>. QED BY <3>1, <3>2, <3>3
    <2>3. ASSUME NEW v \in Workspaces, request'[v].at \in Kinds
          PROVE  \E i \in DOMAIN queue' : queue'[i].kind = request'[v].at /\ queue'[i].w = v
      <3>1. CASE v = w
        BY <1>2, <1>3, <3>1
      <3>2. CASE v # w
        BY <1>2, <1>3, <2>3, <3>2 DEF Asked
      <3>. QED BY <3>1, <3>2
    <2>4. \A v \in Workspaces : row'[v].state = "RECOVERING" => request'[v].at = "idle"
      BY <1>3 DEF Asked, SameRecovering
    <2>. QED BY <2>1, <2>2, <2>3, <2>4 DEF Asked
  <1>7. Gated'
    BY <1>2 DEF Gated, Executes, Command
  <1>. QED BY <1>2, <1>3, <1>6, <1>7

\* A request that goes on while the queue stays as it is.
LEMMA MovesOn ==
  ASSUME Typed, Asked, Gated, up, NEW w \in Workspaces, row[w].state # "RECOVERING",
         request[w].at \notin Kinds, NEW r \in Requests, r.at \notin Kinds,
         request' = [request EXCEPT ![w] = r],
         queue' = queue, patch' = patch, up' = up, step' = step, ws' = ws, SameRecovering
  PROVE  request' \in [Workspaces -> Requests] /\ Asked' /\ Gated'
  <1>1. /\ request' \in [Workspaces -> Requests] /\ request'[w] = r
        /\ \A v \in Workspaces : v # w => request'[v] = request[v]
    BY DEF Typed, Requests
  <1>3. \A i \in DOMAIN queue :
          /\ queue[i].kind \in Kinds => queue[i].w # w /\ queue[i].w \in Workspaces
          /\ queue[i].kind = "ensure" => queue[i].kind \in Kinds
          /\ queue[i].kind = "reconcile" => \A v \in DOMAIN queue[i].bytes : v \in Workspaces
    <2>. TAKE i \in DOMAIN queue
    <2>1. queue[i].kind \in Kinds => request[queue[i].w].at = queue[i].kind
      BY DEF Asked
    <2>. QED BY <2>1, QueueCarries
  <1>4. Asked'
    <2>1. \A i \in DOMAIN queue :
            /\ queue[i].kind \in Kinds => request'[queue[i].w].at = queue[i].kind
            /\ queue[i].kind = "ensure" => queue[i].bytes = request'[queue[i].w].bytes
            /\ queue[i].kind = "reconcile" => \A v \in DOMAIN queue[i].bytes : row'[v].state = "RECOVERING"
      <3>. TAKE i \in DOMAIN queue
      <3>1. /\ queue[i].kind \in Kinds => request[queue[i].w].at = queue[i].kind
            /\ queue[i].kind = "ensure" => queue[i].bytes = request[queue[i].w].bytes
            /\ queue[i].kind = "reconcile" => \A v \in DOMAIN queue[i].bytes : row[v].state = "RECOVERING"
        BY DEF Asked
      <3>. QED BY <1>1, <1>3, <3>1 DEF SameRecovering
    <2>2. \A v \in Workspaces : request'[v].at \in Kinds =>
            \E i \in DOMAIN queue : queue[i].kind = request'[v].at /\ queue[i].w = v
      BY <1>1 DEF Asked
    <2>3. \A v \in Workspaces : row'[v].state = "RECOVERING" => request'[v].at = "idle"
      BY <1>1 DEF Asked, SameRecovering
    <2>. QED BY <2>1, <2>2, <2>3 DEF Asked
  <1>. QED BY <1>1, <1>4 DEF Gated, Executes, Command

\* An answer goes to the request that waits for it.
Answering(w, what) ==
  /\ up /\ queue # <<>> /\ Command.kind \in Kinds /\ Command.w = w
  /\ what \in IF Command.kind \in Starting THEN {"ensured", "started", "failed"} ELSE {"stopped", "deleted", "failed"}
  /\ request' = [request EXCEPT ![w].at = what] /\ queue' = Tail(queue) /\ step' = "idle"

LEMMA Answers ==
  ASSUME Typed, Asked, NEW w, NEW what, Answering(w, what),
         patch' = patch, up' = up, row' = row
  PROVE  /\ w \in Workspaces /\ request[w].at = Command.kind
         /\ request' \in [Workspaces -> Requests] /\ queue' \in Seq(CommandSet) /\ Asked' /\ Gated'
         /\ request'[w] = [request[w] EXCEPT !.at = what]
         /\ \A v \in Workspaces : v # w => request'[v] = request[v]
         /\ \A i \in DOMAIN queue' : \E j \in DOMAIN queue : queue[j] = queue'[i]
  <1>1. queue \in Seq(CommandSet) /\ request \in [Workspaces -> Requests]
    BY DEF Typed, Requests
  <1>2. /\ queue' \in Seq(CommandSet) /\ Command = queue[1] /\ 1 \in DOMAIN queue /\ queue[1] \in CommandSet
        /\ \A i \in DOMAIN queue' : i + 1 \in DOMAIN queue /\ queue'[i] = queue[i + 1] /\ i \in Nat
        /\ \A i \in DOMAIN queue : i # 1 => i - 1 \in DOMAIN queue' /\ queue[i] = queue'[i - 1]
    BY <1>1, Tails DEF Answering, Command
  <1>3. \A i \in DOMAIN queue' : i + 1 # 1 /\ i + 1 \in DOMAIN queue /\ queue'[i] = queue[i + 1]
    BY <1>2, <1>1
  <1>4. w \in Workspaces /\ request[w].at = Command.kind
    <2>1. w \in Workspaces
      BY <1>2, QueueCarries DEF Answering
    <2>. QED BY <1>2, <2>1 DEF Answering, Asked
  <1>5. what \notin Kinds /\ what # "idle"
    BY DEF Answering, Kinds
  <1>6. /\ request'[w] = [request[w] EXCEPT !.at = what]
        /\ \A v \in Workspaces : v # w => request'[v] = request[v]
    BY <1>1, <1>4 DEF Answering
  <1>7. request'[w] \in Requests /\ request'[w].at = what
    <2>1. CASE Command.kind \in Starting
      <3>1. request[w] \in StartRequests
        BY <1>1, <1>4, <2>1, StartsAreStartRequests
      <3>. QED BY <1>6, <2>1, <3>1 DEF Answering, Requests, StartRequests, Starting
    <2>2. CASE Command.kind \notin Starting
      <3>1. request[w] \in OtherRequests
        <4>1. Command.kind # "failed"
          BY DEF Answering, Kinds
        <4>. QED BY <1>1, <1>4, <2>2, <4>1 DEF Requests, StartRequests
      <3>. QED BY <1>6, <2>2, <3>1 DEF Answering, Requests, OtherRequests
    <2>. QED BY <2>1, <2>2
  <1>8. request' \in [Workspaces -> Requests]
    BY <1>1, <1>4, <1>7 DEF Answering
  <1>9. \A i \in DOMAIN queue : i # 1 /\ queue[i].kind \in Kinds => queue[i].w # w /\ queue[i].w \in Workspaces
    BY <1>2, QueueCarries DEF Asked, Answering
  <1>10. Asked'
    <2>1. ASSUME NEW i \in DOMAIN queue'
          PROVE  /\ queue'[i].kind \in Kinds => request'[queue'[i].w].at = queue'[i].kind
                 /\ queue'[i].kind = "ensure" => queue'[i].bytes = request'[queue'[i].w].bytes
                 /\ queue'[i].kind = "set" =>
                      patch'[queue'[i].admin] = [at |-> "wait", w |-> queue'[i].w, bytes |-> queue'[i].bytes]
                 /\ queue'[i].kind # "reconcile"
      <3>1. PICK j \in DOMAIN queue : j # 1 /\ j = i + 1 /\ queue'[i] = queue[j]
        BY <1>3
      <3>2. queue[j].kind = "ensure" => queue[j].kind \in Kinds
        BY DEF Kinds
      <3>. QED BY <1>6, <1>9, <3>1, <3>2 DEF Asked
    <2>2. ASSUME NEW i \in DOMAIN queue', NEW j \in DOMAIN queue'
          PROVE  /\ queue'[i].kind \in Kinds /\ queue'[j].kind \in Kinds /\ queue'[i].w = queue'[j].w => i = j
                 /\ queue'[i].kind = "set" /\ queue'[j].kind = "set" /\ queue'[i].admin = queue'[j].admin => i = j
      <3>1. i + 1 = j + 1 => i = j
        BY <1>2
      <3>. QED BY <1>3, <3>1 DEF Asked
    <2>3. ASSUME NEW v \in Workspaces, request'[v].at \in Kinds
          PROVE  \E i \in DOMAIN queue' : queue'[i].kind = request'[v].at /\ queue'[i].w = v
      <3>1. v # w
        BY <1>5, <1>7, <2>3
      <3>2. PICK i \in DOMAIN queue : queue[i].kind = request[v].at /\ queue[i].w = v
        BY <1>6, <2>3, <3>1 DEF Asked
      <3>3. i # 1
        BY <1>2, <3>1, <3>2 DEF Answering
      <3>. QED BY <1>2, <1>6, <3>1, <3>2, <3>3
    <2>4. \A v \in Workspaces : row'[v].state = "RECOVERING" => request'[v].at = "idle"
      BY <1>4, <1>6 DEF Asked, Answering, Kinds
    <2>5. up'
      BY DEF Answering
    <2>. QED BY <2>1, <2>2, <2>3, <2>4, <2>5 DEF Asked
  <1>11. Gated'
    BY DEF Gated, Answering
  <1>12. \A i \in DOMAIN queue' : \E j \in DOMAIN queue : queue[j] = queue'[i]
    BY <1>3
  <1>. QED BY <1>2, <1>4, <1>6, <1>8, <1>10, <1>11, <1>12

-----------------------------------------------------------------------------
(* The Control Plane's steps.                                               *)

LEMMA InvariantParts ==
  ASSUME IndInv
  PROVE  /\ Typed /\ BoxInv /\ Leaving /\ Asked /\ Gated
         /\ \A v \in Workspaces : Current(v)
  BY DEF IndInv, Typed, BoxInv, LimitsAreCurrent

LEMMA PartsMakeIt ==
  ASSUME Typed', BoxInv', Leaving', Asked', Gated', \A v \in Workspaces : Current(v)'
  PROVE  IndInv'
  BY DEF IndInv, BoxInv, LimitsAreCurrent

LEMMA SameLocal ==
  ASSUME BoxInv, ws' = ws, limit' = limit
  PROVE  BoxInv'
  BY DEF BoxInv, OwnProjects, Boxed, Sound

\* Where no Workspace, limit or change moves, a request may go on.
LEMMA OnlyRequests ==
  ASSUME NEW v \in Workspaces, ws' = ws, limit' = limit, patch' = patch, stale[v] => stale'[v],
         row'[v].limit = row[v].limit,
         \A i \in DOMAIN queue' : queue'[i].kind = "reconcile" => \E j \in DOMAIN queue : queue[j] = queue'[i],
         request'[v].at \in Starting =>
           /\ request[v].at \in Starting /\ request'[v].fresh = request[v].fresh
           /\ request'[v].bytes = request[v].bytes /\ (request'[v].at \in Early <=> request[v].at \in Early)
  PROVE  Steady(v)
  <1>1. NoPatch(v)' => NoPatch(v)
    BY DEF NoPatch
  <1>2. InForce(v) => InForce(v)'
    BY DEF InForce
  <1>. QED BY <1>1, <1>2 DEF Steady

\* A row gets another state, but for RECOVERING.
LEMMA NewState ==
  ASSUME Typed, NEW w \in Workspaces, NEW s \in States,
         row[w].state # "RECOVERING", s # "RECOVERING", row' = [row EXCEPT ![w].state = s]
  PROVE  /\ row' \in [Workspaces -> [state : States, limit : Limits]] /\ SameRecovering
         /\ \A v \in Workspaces : row'[v].limit = row[v].limit
  BY DEF Typed, SameRecovering

LEMMA BeginStartStep == IndInv /\ (\E w \in Workspaces : BeginStart(w)) => IndInv'
  <1>. SUFFICES ASSUME IndInv, NEW w \in Workspaces, BeginStart(w) PROVE IndInv'
    OBVIOUS
  <1>1. /\ Typed /\ BoxInv /\ Leaving /\ Asked /\ Gated /\ \A v \in Workspaces : Current(v)
    BY InvariantParts
  <1>2. /\ up /\ request[w].at = "idle" /\ row[w].state # "RECOVERING"
        /\ row' = [row EXCEPT ![w].state = "STARTING"]
        /\ enforced' = enforced /\ check' = check /\ up' = up /\ ws' = ws /\ limit' = limit
        /\ patch' = patch /\ queue' = queue /\ step' = step /\ stale' = stale
    BY DEF BeginStart, local, work
  <1>3. PICK fresh \in BOOLEAN : (fresh <=> NoPatch(w)) /\
          request' = [request EXCEPT ![w] = [at |-> "scheduled", bytes |-> row[w].limit, fresh |-> fresh]]
    <2>1. CASE NoPatch(w)
      <3>1. NoPatch(w) = TRUE
        BY <2>1 DEF NoPatch
      <3>. QED BY <2>1, <3>1 DEF BeginStart
    <2>2. CASE ~NoPatch(w)
      <3>1. NoPatch(w) = FALSE
        BY <2>2 DEF NoPatch
      <3>. QED BY <2>2, <3>1 DEF BeginStart
    <2>. QED BY <2>1, <2>2
  <1>. DEFINE r == [at |-> "scheduled", bytes |-> row[w].limit, fresh |-> fresh]
  <1>4. /\ r \in Requests /\ r.at = "scheduled" /\ r.bytes = row[w].limit /\ (r.fresh <=> NoPatch(w))
        /\ request' = [request EXCEPT ![w] = r]
    BY <1>1, <1>3 DEF Requests, StartRequests, Starting, Typed
  <1>. HIDE DEF r
  <1>5. /\ row' \in [Workspaces -> [state : States, limit : Limits]] /\ SameRecovering
        /\ \A v \in Workspaces : row'[v].limit = row[v].limit
    BY <1>1, <1>2, NewState DEF States
  <1>6. request' \in [Workspaces -> Requests] /\ Asked' /\ Gated'
    BY <1>1, <1>2, <1>4, <1>5, MovesOn DEF Kinds
  <1>7. Typed'
    BY <1>1, <1>2, <1>5, <1>6 DEF Typed, Requests
  <1>8. BoxInv'
    BY <1>1, <1>2, SameLocal
  <1>9. Leaving'
    BY <1>1, <1>2, <1>5, StillLeaving DEF SameRecovering
  <1>10. request'[w] = r /\ \A v \in Workspaces : v # w => request'[v] = request[v]
    BY <1>1, <1>4 DEF Typed
  <1>11. ASSUME NEW v \in Workspaces PROVE Current(v)'
    <2>1. CASE v # w
      <3>1. Steady(v)
        BY <1>2, <1>5, <1>10, <2>1, OnlyRequests
      <3>. QED BY <1>1, <1>7, <3>1, StaysCurrent
    <2>2. CASE v = w
      <3>1. ~stale[w] => /\ \A a \in Admins : patch[a].at # "idle" /\ patch[a].w = w => patch[a].bytes = row[w].limit
                         /\ NoPatch(w) => \A i \in DOMAIN queue : queue[i].kind = "reconcile" /\ w \in DOMAIN queue[i].bytes =>
                              queue[i].bytes[w] = row[w].limit
                         /\ NoPatch(w) /\ ws[w].container = "running" /\ ws[w].quota # NoQuota =>
                              limit[ws[w].quota.project] = row[w].limit
        BY <1>1 DEF Current
      <3>2. NoPatch(w)' <=> NoPatch(w)
        BY <1>2 DEF NoPatch
      <3>3. /\ request'[w].at = "scheduled" /\ request'[w].bytes = row'[w].limit
            /\ request'[w].fresh => NoPatch(w)'
        BY <1>4, <1>5, <1>10, <3>2
      <3>. QED BY <1>2, <1>5, <2>2, <3>1, <3>2, <3>3 DEF Current
    <2>. QED BY <2>1, <2>2
  <1>. QED BY <1>1, <1>6, <1>7, <1>8, <1>9, <1>11, PartsMakeIt

LEMMA BeginOtherStep == IndInv /\ (\E w \in Workspaces : BeginStop(w) \/ BeginDelete(w)) => IndInv'
  <1>. SUFFICES ASSUME IndInv, NEW w \in Workspaces, BeginStop(w) \/ BeginDelete(w) PROVE IndInv'
    OBVIOUS
  <1>1. /\ Typed /\ BoxInv /\ Leaving /\ Asked /\ Gated /\ \A v \in Workspaces : Current(v)
    BY InvariantParts
  <1>2. PICK kind \in {"stop", "delete"}, s \in {"STOPPING", "DELETING"} :
          /\ row' = [row EXCEPT ![w].state = s]
          /\ request' = [request EXCEPT ![w] = [at |-> kind]]
          /\ queue' = Append(queue, [kind |-> kind, w |-> w])
    BY DEF BeginStop, BeginDelete
  <1>3. /\ up /\ request[w].at = "idle" /\ row[w].state # "RECOVERING"
        /\ enforced' = enforced /\ check' = check /\ up' = up /\ ws' = ws /\ limit' = limit
        /\ patch' = patch /\ step' = step /\ stale' = stale
    BY DEF BeginStop, BeginDelete, local
  <1>. DEFINE r == [at |-> kind]
              c == [kind |-> kind, w |-> w]
  <1>4. /\ r \in Requests /\ r.at = kind /\ c \in CommandSet /\ c.kind = kind /\ c.w = w
    BY DEF Requests, OtherRequests, CommandSet
  <1>. HIDE DEF r, c
  <1>5. /\ row' \in [Workspaces -> [state : States, limit : Limits]] /\ SameRecovering
        /\ \A v \in Workspaces : row'[v].limit = row[v].limit
    BY <1>1, <1>2, <1>3, NewState DEF States
  <1>6. request' = [request EXCEPT ![w] = r] /\ queue' = Append(queue, c)
    BY <1>2 DEF r, c
  <1>7. request' \in [Workspaces -> Requests] /\ queue' \in Seq(CommandSet) /\ Asked' /\ Gated'
    BY <1>1, <1>3, <1>4, <1>5, <1>6, Sends DEF Kinds
  <1>8. Typed'
    BY <1>1, <1>3, <1>5, <1>7 DEF Typed, Requests
  <1>9. BoxInv'
    BY <1>1, <1>3, SameLocal
  <1>10. Leaving'
    BY <1>1, <1>3, <1>5, StillLeaving DEF SameRecovering
  <1>11. \A i \in DOMAIN queue' : queue'[i].kind = "reconcile" => \E j \in DOMAIN queue : queue[j] = queue'[i]
    <2>1. queue \in Seq(CommandSet)
      BY <1>1 DEF Typed
    <2>. QED BY <1>4, <1>6, <2>1, Appends
  <1>12. ASSUME NEW v \in Workspaces PROVE Current(v)'
    <2>1. request'[v] = request[v] \/ request'[v].at \notin Starting
      BY <1>1, <1>4, <1>6 DEF Typed, Starting
    <2>2. Steady(v)
      BY <1>3, <1>5, <1>11, <2>1, OnlyRequests
    <2>. QED BY <1>1, <1>8, <2>2, StaysCurrent
  <1>. QED BY <1>7, <1>8, <1>9, <1>10, <1>12, PartsMakeIt

LEMMA DispatchStep ==
  IndInv /\ (\E w \in Workspaces : Continue(w) /\ (DispatchEnsure(w) \/ DispatchStart(w))) => IndInv'
  <1>. SUFFICES ASSUME IndInv, NEW w \in Workspaces, Continue(w), DispatchEnsure(w) \/ DispatchStart(w)
                PROVE IndInv'
    OBVIOUS
  <1>1. /\ Typed /\ BoxInv /\ Leaving /\ Asked /\ Gated /\ \A v \in Workspaces : Current(v)
    BY InvariantParts
  <1>2. /\ enforced' = enforced /\ check' = check /\ up' = up /\ ws' = ws /\ limit' = limit
        /\ patch' = patch /\ step' = step /\ stale' = stale /\ row' = row
        /\ request[w].at \in {"scheduled", "ensured"}
    BY DEF Continue, DispatchEnsure, DispatchStart, local
  <1>3. /\ up /\ row[w].state # "RECOVERING"
    BY <1>1, <1>2, AskedIsUp
  <1>4. PICK r \in Requests, c \in CommandSet :
          /\ request' = [request EXCEPT ![w] = r] /\ queue' = Append(queue, c)
          /\ c.kind \in {"ensure", "start"} /\ c.w = w /\ r.at = c.kind
          /\ r.bytes = request[w].bytes /\ r.fresh = request[w].fresh
          /\ c.kind = "ensure" => c.bytes = r.bytes
          /\ r.at = "ensure" <=> request[w].at = "scheduled"
    <2>1. request[w] \in StartRequests /\ request[w].bytes \in Limits
      <3>1. request[w] \in Requests
        BY <1>1 DEF Typed, Requests
      <3>. QED BY <1>2, <3>1, StartsAreStartRequests DEF Starting
    <2>2. CASE DispatchEnsure(w)
      <3>. DEFINE r == [request[w] EXCEPT !.at = "ensure"]
                  c == [kind |-> "ensure", w |-> w, bytes |-> request[w].bytes]
      <3>1. /\ r \in Requests /\ r.at = "ensure" /\ r.bytes = request[w].bytes /\ r.fresh = request[w].fresh
            /\ c \in CommandSet /\ c.kind = "ensure" /\ c.w = w /\ c.bytes = request[w].bytes
        BY <2>1 DEF Requests, StartRequests, Starting, CommandSet
      <3>2. request' = [request EXCEPT ![w] = r] /\ queue' = Append(queue, c) /\ request[w].at = "scheduled"
        BY <1>1, <2>2 DEF DispatchEnsure, Typed
      <3>. QED BY <3>1, <3>2
    <2>3. CASE DispatchStart(w)
      <3>. DEFINE r == [request[w] EXCEPT !.at = "start"]
                  c == [kind |-> "start", w |-> w]
      <3>1. /\ r \in Requests /\ r.at = "start" /\ r.bytes = request[w].bytes /\ r.fresh = request[w].fresh
            /\ c \in CommandSet /\ c.kind = "start" /\ c.w = w
        BY <2>1 DEF Requests, StartRequests, Starting, CommandSet
      <3>2. request' = [request EXCEPT ![w] = r] /\ queue' = Append(queue, c) /\ request[w].at = "ensured"
        BY <1>1, <2>3 DEF DispatchStart, Typed
      <3>. QED BY <3>1, <3>2
    <2>. QED BY <2>2, <2>3
  <1>5. /\ row' \in [Workspaces -> [state : States, limit : Limits]] /\ SameRecovering
    BY <1>1, <1>2 DEF Typed, SameRecovering
  <1>6. c.kind \in Kinds /\ request[w].at \notin Kinds
    BY <1>2, <1>4 DEF Kinds
  <1>7. request' \in [Workspaces -> Requests] /\ queue' \in Seq(CommandSet) /\ Asked' /\ Gated'
    BY <1>1, <1>2, <1>3, <1>4, <1>5, <1>6, Sends
  <1>8. Typed'
    BY <1>1, <1>2, <1>5, <1>7 DEF Typed, Requests
  <1>9. BoxInv'
    BY <1>1, <1>2, SameLocal
  <1>10. Leaving'
    BY <1>1, <1>2, StillLeaving
  <1>11. \A i \in DOMAIN queue' : queue'[i].kind = "reconcile" => \E j \in DOMAIN queue : queue[j] = queue'[i]
    <2>1. queue \in Seq(CommandSet)
      BY <1>1 DEF Typed
    <2>. QED BY <1>4, <2>1, Appends
  <1>12. ASSUME NEW v \in Workspaces PROVE Current(v)'
    <2>1. request'[v].at \in Starting =>
           /\ request[v].at \in Starting /\ request'[v].fresh = request[v].fresh
           /\ request'[v].bytes = request[v].bytes /\ (request'[v].at \in Early <=> request[v].at \in Early)
      <3>1. CASE v = w
        <4>1. request'[w] = r
          BY <1>1, <1>4 DEF Typed
        <4>. QED BY <1>2, <1>4, <3>1, <4>1 DEF Starting, Early
      <3>2. CASE v # w
        BY <1>1, <1>4, <3>2 DEF Typed
      <3>. QED BY <3>1, <3>2
    <2>2. Steady(v)
      BY <1>2, <1>11, <2>1, OnlyRequests
    <2>. QED BY <1>1, <1>8, <2>2, StaysCurrent
  <1>. QED BY <1>7, <1>8, <1>9, <1>10, <1>12, PartsMakeIt

\* A request is over: its row has a new state.
LEMMA FinishStep ==
  IndInv /\ (\E w \in Workspaces : Continue(w) /\ (FinishStart(w) \/ FinishOther(w))) => IndInv'
  <1>. SUFFICES ASSUME IndInv, NEW w \in Workspaces, Continue(w), FinishStart(w) \/ FinishOther(w)
                PROVE IndInv'
    OBVIOUS
  <1>1. /\ Typed /\ BoxInv /\ Leaving /\ Asked /\ Gated /\ \A v \in Workspaces : Current(v)
    BY InvariantParts
  <1>2. /\ enforced' = enforced /\ check' = check /\ up' = up /\ ws' = ws /\ limit' = limit
        /\ patch' = patch /\ step' = step /\ queue' = queue
        /\ request' = [request EXCEPT ![w] = Idle]
        /\ request[w].at \in {"started", "stopped", "deleted", "failed"}
    BY DEF Continue, FinishStart, FinishOther, local
  <1>3. up /\ row[w].state # "RECOVERING"
    BY <1>1, <1>2, AskedIsUp
  <1>4. PICK s \in {"RUNNING", "STOPPED", "gone", "ERROR"} : row' = [row EXCEPT ![w].state = s]
    BY DEF FinishStart, FinishOther
  <1>5. /\ row' \in [Workspaces -> [state : States, limit : Limits]] /\ SameRecovering
        /\ \A v \in Workspaces : row'[v].limit = row[v].limit
    BY <1>1, <1>3, <1>4, NewState DEF States
  <1>6. Idle \in Requests /\ Idle.at = "idle"
    BY DEF Requests, OtherRequests, Idle
  <1>7. request' \in [Workspaces -> Requests] /\ Asked' /\ Gated'
    BY <1>1, <1>2, <1>3, <1>5, <1>6, MovesOn DEF Kinds
  <1>8. /\ stale' \in [Workspaces -> BOOLEAN]
        /\ \A v \in Workspaces : v # w => stale'[v] = stale[v]
        /\ FinishOther(w) => stale'[w] = stale[w]
        /\ FinishStart(w) => (stale'[w] <=> stale[w] /\ ~request[w].fresh)
    <2>1. CASE FinishOther(w)
      <3>1. ~FinishStart(w)
        BY <2>1 DEF FinishOther, FinishStart
      <3>. QED BY <1>1, <2>1, <3>1 DEF FinishOther, Typed
    <2>2. CASE FinishStart(w)
      <3>1. ~FinishOther(w)
        BY <2>2 DEF FinishOther, FinishStart
      <3>2. stale' = [stale EXCEPT ![w] = stale[w] /\ ~request[w].fresh]
        BY <2>2 DEF FinishStart
      <3>. QED BY <1>1, <3>1, <3>2 DEF Typed
    <2>. QED BY <2>1, <2>2
  <1>9. Typed'
    BY <1>1, <1>2, <1>5, <1>7, <1>8 DEF Typed, Requests
  <1>10. BoxInv'
    BY <1>1, <1>2, SameLocal
  <1>11. Leaving'
    BY <1>1, <1>2, <1>5, StillLeaving DEF SameRecovering
  <1>12. request'[w] = Idle /\ \A v \in Workspaces : v # w => request'[v] = request[v]
    BY <1>1, <1>2 DEF Typed
  <1>13. ASSUME NEW v \in Workspaces, v # w \/ FinishOther(w) PROVE Current(v)'
    <2>1. request'[v] = request[v] \/ request'[v].at \notin Starting
      BY <1>6, <1>12 DEF Starting
    <2>2. stale[v] => stale'[v]
      BY <1>8, <1>13
    <2>3. Steady(v)
      BY <1>2, <1>5, <2>1, <2>2, OnlyRequests
    <2>. QED BY <1>1, <1>9, <2>3, StaysCurrent
  <1>14. ASSUME FinishStart(w) PROVE Current(w)'
    <2>1. request[w].at = "started"
      BY <1>14 DEF FinishStart
    <2>2. /\ request[w].fresh => NoPatch(w)
          /\ ~stale[w] \/ request[w].fresh => InForce(w)
      BY <1>1, <2>1 DEF Current, Starting
    <2>3. \A i \in DOMAIN queue : queue[i].kind = "reconcile" => w \notin DOMAIN queue[i].bytes
      BY <1>1, <1>3 DEF Asked
    <2>4. NoPatch(w) => \A a \in Admins : patch[a].at # "idle" => patch[a].w # w
      BY DEF NoPatch
    <2>5. ~stale[w] => \A a \in Admins : patch[a].at # "idle" /\ patch[a].w = w => patch[a].bytes = row[w].limit
      BY <1>1 DEF Current
    <2>6. ~stale'[w] => ~stale[w] \/ request[w].fresh
      BY <1>1, <1>8, <1>14 DEF Typed
    <2>7. request'[w].at \notin Starting
      BY <1>6, <1>12 DEF Starting
    <2>. QED BY <1>2, <1>5, <2>2, <2>3, <2>4, <2>5, <2>6, <2>7 DEF Current, InForce
  <1>15. \A v \in Workspaces : Current(v)'
    BY <1>13, <1>14
  <1>. QED BY <1>7, <1>9, <1>10, <1>11, <1>15, PartsMakeIt

LEMMA UpdateLimitStep ==
  IndInv /\ (\E a \in Admins, w \in Workspaces, bytes \in Limits : UpdateLimit(a, w, bytes)) => IndInv'
  <1>. SUFFICES ASSUME IndInv, NEW a \in Admins, NEW w \in Workspaces, NEW bytes \in Limits, UpdateLimit(a, w, bytes)
                PROVE IndInv'
    OBVIOUS
  <1>1. /\ Typed /\ BoxInv /\ Leaving /\ Asked /\ Gated /\ \A v \in Workspaces : Current(v)
    BY InvariantParts
  <1>2. /\ patch[a].at = "idle"
        /\ row' = [row EXCEPT ![w].limit = bytes]
        /\ patch' = [patch EXCEPT ![a] = [at |-> "send", w |-> w, bytes |-> bytes]]
        /\ enforced' = enforced /\ check' = check /\ up' = up /\ ws' = ws /\ limit' = limit
        /\ queue' = queue /\ step' = step
    BY DEF UpdateLimit, local, work
  <1>3. /\ row' \in [Workspaces -> [state : States, limit : Limits]]
        /\ row'[w].limit = bytes /\ \A v \in Workspaces : row'[v].state = row[v].state
        /\ \A v \in Workspaces : v # w => row'[v] = row[v]
    BY <1>1, <1>2 DEF Typed
  <1>4. /\ patch' \in [Admins -> Patches] /\ patch'[a] = [at |-> "send", w |-> w, bytes |-> bytes]
        /\ \A b \in Admins : b # a => patch'[b] = patch[b]
    BY <1>1, <1>2 DEF Typed, Patches
  <1>5. /\ stale' \in [Workspaces -> BOOLEAN]
        /\ \A v \in Workspaces : v # w => stale'[v] = stale[v]
        /\ stale'[w] <=> stale[w] \/ ~NoPatch(w) \/ request[w].at # "idle"
    <2>1. stale' = [stale EXCEPT ![w] = stale[w] \/ ~NoPatch(w) \/ request[w].at # "idle"]
      BY DEF UpdateLimit
    <2>2. (stale[w] \/ ~NoPatch(w) \/ request[w].at # "idle") \in BOOLEAN
      OBVIOUS
    <2>. QED BY <1>1, <2>1, <2>2 DEF Typed
  <1>6. /\ request' \in [Workspaces -> Requests]
        /\ \A v \in Workspaces : v # w => request'[v] = request[v]
        /\ request'[w].at = request[w].at /\ (request[w].at = "ensure" => request'[w].bytes = request[w].bytes)
        /\ request[w].at \in Starting => ~request'[w].fresh
    <2>0. request \in [Workspaces -> Requests]
      BY <1>1 DEF Typed, Requests
    <2>1. CASE request[w].at \in Starting
      <3>1. request[w] \in StartRequests
        BY <2>0, <2>1, StartsAreStartRequests
      <3>. DEFINE r == [request[w] EXCEPT !.fresh = FALSE]
      <3>2. r \in Requests /\ r.at = request[w].at /\ r.bytes = request[w].bytes /\ r.fresh = FALSE
        BY <3>1 DEF Requests, StartRequests
      <3>3. request' = [request EXCEPT ![w] = r]
        BY <2>0, <2>1 DEF UpdateLimit
      <3>. HIDE DEF r
      <3>. QED BY <2>0, <3>2, <3>3
    <2>2. CASE request[w].at \notin Starting
      BY <2>0, <2>2 DEF UpdateLimit, Starting
    <2>. QED BY <2>1, <2>2
  <1>7. Typed'
    BY <1>1, <1>2, <1>3, <1>4, <1>5, <1>6 DEF Typed, Requests
  <1>8. BoxInv'
    BY <1>1, <1>2, SameLocal
  <1>9. Leaving'
    BY <1>1, <1>2, <1>3, StillLeaving
  <1>10. \A v \in Workspaces : request'[v].at = request[v].at /\ (request[v].at = "ensure" => request'[v].bytes = request[v].bytes)
    BY <1>6
  <1>11. Asked'
    <2>1. ASSUME NEW i \in DOMAIN queue
          PROVE  /\ queue[i].kind \in Kinds => request'[queue[i].w].at = queue[i].kind
                 /\ queue[i].kind = "ensure" => queue[i].bytes = request'[queue[i].w].bytes
                 /\ queue[i].kind = "set" =>
                      patch'[queue[i].admin] = [at |-> "wait", w |-> queue[i].w, bytes |-> queue[i].bytes]
                 /\ queue[i].kind = "reconcile" =>
                      i = 1 /\ \A v \in DOMAIN queue[i].bytes : row'[v].state = "RECOVERING"
      <3>1. /\ queue[i].kind \in Kinds => request[queue[i].w].at = queue[i].kind
            /\ queue[i].kind = "ensure" => queue[i].bytes = request[queue[i].w].bytes
            /\ queue[i].kind = "set" =>
                 patch[queue[i].admin] = [at |-> "wait", w |-> queue[i].w, bytes |-> queue[i].bytes]
            /\ queue[i].kind = "reconcile" =>
                 i = 1 /\ \A v \in DOMAIN queue[i].bytes : row[v].state = "RECOVERING"
        BY <1>1 DEF Asked
      <3>2. /\ queue[i].kind \in Kinds => queue[i].w \in Workspaces
            /\ queue[i].kind = "ensure" => queue[i].kind \in Kinds
            /\ queue[i].kind = "set" => queue[i].admin \in Admins
            /\ queue[i].kind = "reconcile" => \A v \in DOMAIN queue[i].bytes : v \in Workspaces
        BY <1>1, QueueCarries
      <3>3. queue[i].kind = "set" => queue[i].admin # a
        BY <1>2, <3>1
      <3>4. queue[i].kind = "ensure" => request'[queue[i].w].bytes = request[queue[i].w].bytes
        BY <1>10, <3>1, <3>2
      <3>. QED BY <1>3, <1>4, <1>10, <3>1, <3>2, <3>3, <3>4
    <2>2. \A v \in Workspaces : request'[v].at \in Kinds =>
            \E i \in DOMAIN queue : queue[i].kind = request'[v].at /\ queue[i].w = v
      BY <1>1, <1>10 DEF Asked
    <2>3. \A v \in Workspaces : row'[v].state = "RECOVERING" => request'[v].at = "idle"
      BY <1>1, <1>3, <1>10 DEF Asked
    <2>4. ~up' => /\ queue' = <<>> /\ step' = "idle"
                  /\ \A v \in Workspaces : request'[v].at = "idle" /\ (Assigned(v)' => row'[v].state = "RECOVERING")
      BY <1>1, <1>2, <1>3, <1>10 DEF Asked, Assigned
    <2>5. \A i, j \in DOMAIN queue :
            /\ queue[i].kind \in Kinds /\ queue[j].kind \in Kinds /\ queue[i].w = queue[j].w => i = j
            /\ queue[i].kind = "set" /\ queue[j].kind = "set" /\ queue[i].admin = queue[j].admin => i = j
      BY <1>1 DEF Asked
    <2>. QED BY <1>2, <2>1, <2>2, <2>3, <2>4, <2>5 DEF Asked
  <1>12. Gated'
    BY <1>1, <1>2 DEF Gated, Executes, Command
  <1>13. ASSUME NEW v \in Workspaces PROVE Current(v)'
    <2>1. CASE v # w
      <3>1. NoPatch(v)' <=> NoPatch(v)
        <4>1. \A b \in Admins : (patch'[b].at = "idle" \/ patch'[b].w # v) <=> (patch[b].at = "idle" \/ patch[b].w # v)
          BY <1>2, <1>4, <2>1
        <4>. QED BY <4>1 DEF NoPatch
      <3>2. InForce(v) => InForce(v)'
        BY <1>2, <1>3, <2>1 DEF InForce
      <3>3. Steady(v)
        BY <1>2, <1>3, <1>4, <1>5, <1>6, <2>1, <3>1, <3>2 DEF Steady
      <3>. QED BY <1>1, <1>7, <3>3, StaysCurrent
    <2>2. CASE v = w
      <3>1. ~NoPatch(w)'
        BY <1>4 DEF NoPatch
      <3>2. CASE ~stale'[w]
        <4>1. NoPatch(w) /\ request[w].at = "idle"
          BY <1>5, <3>2
        <4>2. \A b \in Admins : patch'[b].at # "idle" /\ patch'[b].w = w => b = a
          BY <1>4, <4>1 DEF NoPatch
        <4>. QED BY <1>3, <1>4, <1>6, <2>2, <3>1, <4>1, <4>2 DEF Current, Starting
      <3>3. CASE stale'[w]
        BY <1>6, <2>2, <3>3 DEF Current
      <3>. QED BY <3>2, <3>3
    <2>. QED BY <2>1, <2>2
  <1>. QED BY <1>7, <1>8, <1>9, <1>11, <1>12, <1>13, PartsMakeIt

LEMMA DispatchLimitStep == IndInv /\ (\E a \in Admins : DispatchLimit(a)) => IndInv'
  <1>. SUFFICES ASSUME IndInv, NEW a \in Admins, DispatchLimit(a) PROVE IndInv'
    OBVIOUS
  <1>1. /\ Typed /\ BoxInv /\ Leaving /\ Asked /\ Gated /\ \A v \in Workspaces : Current(v)
    BY InvariantParts
  <1>2. /\ patch[a].at = "send" /\ row' = row /\ request' = request
        /\ enforced' = enforced /\ check' = check /\ up' = up /\ ws' = ws /\ limit' = limit /\ step' = step
    BY DEF DispatchLimit, local
  <1>3. /\ patch[a].w \in Workspaces /\ patch[a].bytes \in Limits
        /\ patch[a] = [at |-> "send", w |-> patch[a].w, bytes |-> patch[a].bytes]
    BY <1>1, <1>2 DEF Typed, Patches
  <1>4. BoxInv'
    BY <1>1, <1>2, SameLocal
  <1>5. Leaving'
    BY <1>1, <1>2, StillLeaving
  <1>6. CASE up
    <2>. DEFINE c == [kind |-> "set", w |-> patch[a].w, bytes |-> patch[a].bytes, admin |-> a]
    <2>1. /\ patch' = [patch EXCEPT ![a].at = "wait"] /\ queue' = Append(queue, c) /\ stale' = stale
      BY <1>6 DEF DispatchLimit
    <2>2. /\ c \in CommandSet /\ c.kind = "set" /\ c.w = patch[a].w /\ c.bytes = patch[a].bytes /\ c.admin = a
      BY <1>3 DEF CommandSet
    <2>. HIDE DEF c
    <2>3. /\ patch' \in [Admins -> Patches] /\ patch'[a] = [at |-> "wait", w |-> patch[a].w, bytes |-> patch[a].bytes]
          /\ \A b \in Admins : b # a => patch'[b] = patch[b]
      BY <1>1, <1>3, <2>1 DEF Typed, Patches
    <2>4. queue \in Seq(CommandSet)
      BY <1>1 DEF Typed
    <2>5. /\ queue' \in Seq(CommandSet) /\ queue' # <<>>
          /\ \A i \in DOMAIN queue : i \in DOMAIN queue' /\ queue'[i] = queue[i]
          /\ Len(queue) + 1 \in DOMAIN queue' /\ queue'[Len(queue) + 1] = c
          /\ \A i \in DOMAIN queue' : i \in DOMAIN queue \/ (i = Len(queue) + 1 /\ i \notin DOMAIN queue)
          /\ queue # <<>> => Head(queue') = Head(queue)
      BY <2>1, <2>2, <2>4, Appends
    <2>6. Typed'
      BY <1>1, <1>2, <2>1, <2>3, <2>5 DEF Typed
    <2>7. \A i \in DOMAIN queue : queue[i].kind = "set" => queue[i].admin # a /\ queue[i].admin \in Admins
      <3>. TAKE i \in DOMAIN queue
      <3>1. queue[i].kind = "set" => patch[queue[i].admin] = [at |-> "wait", w |-> queue[i].w, bytes |-> queue[i].bytes]
        BY <1>1 DEF Asked
      <3>. QED BY <1>1, <1>2, <3>1, QueueCarries
    <2>8. Asked'
      <3>1. ASSUME NEW i \in DOMAIN queue'
            PROVE  /\ queue'[i].kind \in Kinds => request'[queue'[i].w].at = queue'[i].kind
                   /\ queue'[i].kind = "ensure" => queue'[i].bytes = request'[queue'[i].w].bytes
                   /\ queue'[i].kind = "set" =>
                        patch'[queue'[i].admin] = [at |-> "wait", w |-> queue'[i].w, bytes |-> queue'[i].bytes]
                   /\ queue'[i].kind = "reconcile" =>
                        i = 1 /\ \A v \in DOMAIN queue'[i].bytes : row'[v].state = "RECOVERING"
        <4>1. CASE i \in DOMAIN queue
          <5>1. /\ queue[i].kind \in Kinds => request[queue[i].w].at = queue[i].kind
                /\ queue[i].kind = "ensure" => queue[i].bytes = request[queue[i].w].bytes
                /\ queue[i].kind = "set" =>
                     patch[queue[i].admin] = [at |-> "wait", w |-> queue[i].w, bytes |-> queue[i].bytes]
                /\ queue[i].kind = "reconcile" =>
                     i = 1 /\ \A v \in DOMAIN queue[i].bytes : row[v].state = "RECOVERING"
            BY <1>1, <4>1 DEF Asked
          <5>. QED BY <1>2, <2>3, <2>5, <2>7, <4>1, <5>1
        <4>2. CASE i \notin DOMAIN queue
          <5>1. queue'[i] = c
            BY <2>5, <4>2
          <5>. QED BY <2>2, <2>3, <5>1 DEF Kinds
        <4>. QED BY <4>1, <4>2
      <3>2. ASSUME NEW i \in DOMAIN queue', NEW j \in DOMAIN queue'
            PROVE  /\ queue'[i].kind \in Kinds /\ queue'[j].kind \in Kinds /\ queue'[i].w = queue'[j].w => i = j
                   /\ queue'[i].kind = "set" /\ queue'[j].kind = "set" /\ queue'[i].admin = queue'[j].admin => i = j
        <4>1. CASE i \in DOMAIN queue /\ j \in DOMAIN queue
          BY <1>1, <2>5, <4>1 DEF Asked
        <4>2. CASE i \notin DOMAIN queue
          BY <2>2, <2>5, <2>7, <4>2 DEF Kinds
        <4>3. CASE j \notin DOMAIN queue
          BY <2>2, <2>5, <2>7, <4>3 DEF Kinds
        <4>. QED BY <4>1, <4>2, <4>3
      <3>3. \A v \in Workspaces : request'[v].at \in Kinds =>
              \E i \in DOMAIN queue' : queue'[i].kind = request'[v].at /\ queue'[i].w = v
        <4>. TAKE v \in Workspaces
        <4>. HAVE request'[v].at \in Kinds
        <4>1. PICK i \in DOMAIN queue : queue[i].kind = request[v].at /\ queue[i].w = v
          BY <1>1, <1>2 DEF Asked
        <4>. QED BY <1>2, <2>5, <4>1
      <3>4. \A v \in Workspaces : row'[v].state = "RECOVERING" => request'[v].at = "idle"
        BY <1>1, <1>2 DEF Asked
      <3>5. up'
        BY <1>2, <1>6
      <3>. QED BY <3>1, <3>2, <3>3, <3>4, <3>5 DEF Asked
    <2>9. Gated'
      BY <1>1, <1>2, <2>5 DEF Gated, Executes, Command
    <2>10. ASSUME NEW v \in Workspaces PROVE Current(v)'
      <3>1. NoPatch(v)' <=> NoPatch(v)
        <4>1. \A b \in Admins : (patch'[b].at = "idle" \/ patch'[b].w # v) <=> (patch[b].at = "idle" \/ patch[b].w # v)
          BY <1>2, <2>3
        <4>. QED BY <4>1 DEF NoPatch
      <3>2. InForce(v) => InForce(v)'
        BY <1>2 DEF InForce
      <3>3. \A b \in Admins : patch'[b].at # "idle" /\ patch'[b].w = v =>
              patch[b].at # "idle" /\ patch[b].w = v /\ patch'[b].bytes = patch[b].bytes
        BY <1>2, <2>3
      <3>4. \A i \in DOMAIN queue' : queue'[i].kind = "reconcile" => \E j \in DOMAIN queue : queue[j] = queue'[i]
        BY <2>2, <2>5
      <3>5. Steady(v)
        BY <1>2, <2>1, <3>1, <3>2, <3>3, <3>4 DEF Steady
      <3>. QED BY <1>1, <2>6, <3>5, StaysCurrent
    <2>. QED BY <1>4, <1>5, <2>6, <2>8, <2>9, <2>10, PartsMakeIt
  <1>7. CASE ~up
    <2>1. patch' = [patch EXCEPT ![a] = Idle] /\ queue' = queue /\ stale' = [stale EXCEPT ![patch[a].w] = TRUE]
      BY <1>7 DEF DispatchLimit
    <2>2. /\ patch' \in [Admins -> Patches] /\ patch'[a].at = "idle"
          /\ \A b \in Admins : b # a => patch'[b] = patch[b]
      BY <1>1, <2>1 DEF Typed, Patches, Idle
    <2>3. /\ stale' \in [Workspaces -> BOOLEAN] /\ stale'[patch[a].w]
          /\ \A v \in Workspaces : v # patch[a].w => stale'[v] = stale[v]
      BY <1>1, <1>3, <2>1 DEF Typed
    <2>4. Typed'
      BY <1>1, <1>2, <2>1, <2>2, <2>3 DEF Typed
    <2>5. queue = <<>> /\ step = "idle"
      BY <1>1, <1>7 DEF Asked
    <2>6. Asked'
      <3>1. DOMAIN queue' = {}
        BY <2>1, <2>5
      <3>. QED BY <1>1, <1>2, <2>1, <2>5, <3>1 DEF Asked, Assigned
    <2>7. Gated'
      BY <1>2, <2>5 DEF Gated
    <2>8. ASSUME NEW v \in Workspaces PROVE Current(v)'
      <3>1. NoPatch(v)' => NoPatch(v) \/ stale'[v]
        <4>1. CASE v = patch[a].w
          BY <2>3, <4>1
        <4>2. CASE v # patch[a].w
          <5>1. \A b \in Admins : (patch'[b].at = "idle" \/ patch'[b].w # v) => (patch[b].at = "idle" \/ patch[b].w # v)
            BY <2>2, <4>2
          <5>. QED BY <5>1 DEF NoPatch
        <4>. QED BY <4>1, <4>2
      <3>2. InForce(v) => InForce(v)'
        BY <1>2 DEF InForce
      <3>3. \A b \in Admins : patch'[b].at # "idle" /\ patch'[b].w = v =>
              patch[b].at # "idle" /\ patch[b].w = v /\ patch'[b].bytes = patch[b].bytes
        BY <2>2
      <3>4. stale[v] => stale'[v]
        BY <2>3
      <3>5. Steady(v)
        BY <1>2, <2>1, <3>1, <3>2, <3>3, <3>4 DEF Steady
      <3>. QED BY <1>1, <2>4, <3>5, StaysCurrent
    <2>. QED BY <1>4, <1>5, <2>4, <2>6, <2>7, <2>8, PartsMakeIt
  <1>. QED BY <1>6, <1>7

\* A step that changes no request, command or change keeps them asked.
LEMMA StillAsked ==
  ASSUME Typed, Asked, request' = request, queue' = queue, patch' = patch, up' = up,
         SameRecovering, up \/ (row' = row /\ step' = step)
  PROVE  Asked'
  <1>1. \A i \in DOMAIN queue : queue[i].kind = "reconcile" =>
          i = 1 /\ \A v \in DOMAIN queue[i].bytes : row'[v].state = "RECOVERING"
    <2>. TAKE i \in DOMAIN queue
    <2>1. queue[i].kind = "reconcile" => i = 1 /\ \A v \in DOMAIN queue[i].bytes : row[v].state = "RECOVERING"
      BY DEF Asked
    <2>. QED BY <2>1, QueueCarries DEF SameRecovering
  <1>2. \A v \in Workspaces : row'[v].state = "RECOVERING" => request[v].at = "idle"
    BY DEF Asked, SameRecovering
  <1>3. ~up => \A v \in Workspaces : Assigned(v)' => row'[v].state = "RECOVERING"
    BY DEF Asked, SameRecovering, Assigned
  <1>. QED BY <1>1, <1>2, <1>3 DEF Asked

LEMMA HeartbeatStep == IndInv /\ Heartbeat => IndInv'
  <1>. SUFFICES ASSUME IndInv, Heartbeat PROVE IndInv'
    OBVIOUS
  <1>1. /\ Typed /\ BoxInv /\ Leaving /\ Asked /\ Gated /\ \A v \in Workspaces : Current(v)
    BY InvariantParts
  <1>2. /\ up /\ row' = recordWorkerStatus
        /\ enforced' = enforced /\ check' = check /\ up' = up /\ ws' = ws /\ limit' = limit
        /\ patch' = patch /\ queue' = queue /\ step' = step /\ stale' = stale /\ request' = request
    BY DEF Heartbeat, local, work
  <1>3. ASSUME NEW r \in [state : States, limit : Limits]
        PROVE  /\ NotRunning(r) \in [state : States, limit : Limits] /\ NotRunning(r).limit = r.limit
               /\ NotRunning(r).state = "RECOVERING" <=> r.state = "RECOVERING"
    BY DEF NotRunning, States
  <1>4. ASSUME NEW r \in [state : States, limit : Limits]
        PROVE  LET s == recordWorkerStorage(recordWorkerEgress(r)) IN
               /\ s \in [state : States, limit : Limits] /\ s.limit = r.limit
               /\ s.state = "RECOVERING" <=> r.state = "RECOVERING"
    BY <1>3 DEF recordWorkerStorage, recordWorkerEgress
  <1>5. \A v \in Workspaces : row[v] \in [state : States, limit : Limits]
    BY <1>1 DEF Typed
  <1>6. /\ row' \in [Workspaces -> [state : States, limit : Limits]] /\ SameRecovering
        /\ \A v \in Workspaces : row'[v].limit = row[v].limit
    <2>. HIDE <1>1
    <2>. QED BY <1>2, <1>4, <1>5 DEF recordWorkerStatus, SameRecovering
  <1>7. Typed' /\ BoxInv' /\ Leaving' /\ Asked' /\ Gated'
    <2>1. Typed'
      BY <1>1, <1>2, <1>6 DEF Typed
    <2>2. BoxInv' /\ Leaving'
      BY <1>1, <1>2, <1>6, SameLocal, StillLeaving DEF SameRecovering
    <2>3. Asked'
      BY <1>1, <1>2, <1>6, StillAsked
    <2>4. Gated'
      BY <1>1, <1>2 DEF Gated, Executes, Command
    <2>. QED BY <2>1, <2>2, <2>3, <2>4
  <1>8. ASSUME NEW v \in Workspaces PROVE Current(v)'
    <2>1. Steady(v)
      BY <1>2, <1>6, OnlyRequests
    <2>. QED BY <1>1, <1>7, <2>1, StaysCurrent
  <1>. QED BY <1>7, <1>8, PartsMakeIt

-----------------------------------------------------------------------------
(* The Worker's steps.                                                      *)

\* The Workspaces a step does not touch stay as current as they were.
LEMMA UntouchedAreSteady ==
  ASSUME NEW w \in Workspaces, NEW bytes, Touches(w, bytes), NEW v \in Workspaces, v # w,
         row'[v].limit = row[v].limit, stale[v] => stale'[v], request'[v] = request[v],
         \A a \in Admins : patch'[a].at # "idle" /\ patch'[a].w = v =>
           patch[a].at # "idle" /\ patch[a].w = v /\ patch'[a].bytes = patch[a].bytes,
         NoPatch(v)' => NoPatch(v) \/ stale'[v],
         \A i \in DOMAIN queue' : queue'[i].kind = "reconcile" => \E j \in DOMAIN queue : queue[j] = queue'[i]
  PROVE  Steady(v)
  <1>1. ws'[v] = ws[v] /\ (ws[v].quota # NoQuota => limit'[ws[v].quota.project] = limit[ws[v].quota.project])
    BY DEF Touches
  <1>2. InForce(v) => InForce(v)'
    BY <1>1 DEF InForce
  <1>. QED BY <1>1, <1>2 DEF Steady

\* Nor does the one it touches become staler, if what it brings is the row's limit.
LEMMA TouchedIsSteady ==
  ASSUME NEW w \in Workspaces, NEW bytes, Touches(w, bytes), row' = row, patch' = patch, stale[w] => stale'[w],
         ~stale'[w] /\ ws'[w].container = "running" /\ ws'[w].quota # NoQuota => bytes = row[w].limit,
         \A i \in DOMAIN queue' : queue'[i].kind = "reconcile" => \E j \in DOMAIN queue : queue[j] = queue'[i],
         request'[w].at \in Starting =>
           /\ request[w].at \in Starting /\ request'[w].fresh = request[w].fresh
           /\ request'[w].bytes = request[w].bytes /\ request'[w].at \notin Early
           /\ IF request[w].at \in Early THEN request[w].bytes = row[w].limit => InForce(w)'
              ELSE InForce(w) => InForce(w)'
  PROVE  Steady(w)
  <1>1. NoPatch(w)' => NoPatch(w)
    BY DEF NoPatch
  <1>2. ~stale'[w] /\ ws'[w].container = "running" /\ ws'[w].quota # NoQuota =>
          \/ limit'[ws'[w].quota.project] = row[w].limit
          \/ /\ ws[w].container = "running" /\ ws[w].quota # NoQuota
             /\ limit'[ws'[w].quota.project] = limit[ws[w].quota.project]
    BY DEF Touches
  <1>. QED BY <1>1, <1>2 DEF Steady

\* An answer, with what the command did to its Workspace.
LEMMA AnswerStep ==
  ASSUME IndInv, NEW w \in Workspaces, NEW what, Answering(w, what), NEW bytes, Touches(w, bytes), BoxInv',
         enforced' \in [Guards -> BOOLEAN], check' = check, up' = up, row' = row, patch' = patch, stale' = stale,
         ~stale[w] /\ ws'[w].container = "running" /\ ws'[w].quota # NoQuota => bytes = row[w].limit,
         what \in {"ensured", "started"} =>
           IF Command.kind = "ensure" THEN request[w].bytes = row[w].limit => InForce(w)'
           ELSE what = "started" /\ (InForce(w) => InForce(w)')
  PROVE  IndInv'
  <1>1. /\ Typed /\ BoxInv /\ Leaving /\ Asked /\ Gated /\ \A v \in Workspaces : Current(v)
    BY InvariantParts
  <1>2. /\ request[w].at = Command.kind
        /\ request' \in [Workspaces -> Requests] /\ queue' \in Seq(CommandSet) /\ Asked' /\ Gated'
        /\ request'[w] = [request[w] EXCEPT !.at = what]
        /\ \A v \in Workspaces : v # w => request'[v] = request[v]
        /\ \A i \in DOMAIN queue' : \E j \in DOMAIN queue : queue[j] = queue'[i]
    BY <1>1, Answers
  <1>3. Typed'
    <2>1. step' \in {"idle", "gated", "prepared", "wait"}
      BY DEF Answering
    <2>. QED BY <1>1, <1>2, <2>1 DEF Typed, Requests, BoxInv
  <1>4. Leaving'
    BY <1>1, TouchedLeaving
  <1>5. Steady(w)
    <2>1. request[w] \in Requests
      BY <1>1 DEF Typed, Requests
    <2>2. CASE request'[w].at \in Starting
      <3>1. request[w] \in StartRequests /\ Command.kind \in {"ensure", "start"}
        <4>1. what \in {"ensured", "started"} /\ Command.kind \in Starting
          <5>1. request'[w].at = what
            BY <1>2, <2>1 DEF Requests, StartRequests, OtherRequests
          <5>. QED BY <2>2, <5>1 DEF Answering, Starting
        <4>. QED BY <1>2, <2>1, <4>1, StartsAreStartRequests DEF Answering, Kinds, Starting
      <3>2. request'[w].at = what /\ request'[w].fresh = request[w].fresh /\ request'[w].bytes = request[w].bytes
        BY <1>2, <3>1 DEF StartRequests
      <3>3. what \in {"ensured", "started"}
        BY <2>2, <3>2 DEF Answering, Starting
      <3>4. request[w].at \in Starting /\ request'[w].at \notin Early /\ (request[w].at \in Early <=> Command.kind = "ensure")
        BY <1>2, <3>1, <3>2, <3>3 DEF Starting, Early
      <3>. QED BY <1>2, <3>2, <3>3, <3>4, TouchedIsSteady
    <2>3. CASE request'[w].at \notin Starting
      BY <1>2, <2>3, TouchedIsSteady
    <2>. QED BY <2>2, <2>3
  <1>6. ASSUME NEW v \in Workspaces, v # w PROVE Steady(v)
    <2>1. NoPatch(v)' => NoPatch(v)
      BY DEF NoPatch
    <2>. QED BY <1>2, <1>6, <2>1, UntouchedAreSteady
  <1>7. \A v \in Workspaces : Current(v)'
    BY <1>1, <1>3, <1>5, <1>6, StaysCurrent
  <1>. QED BY <1>2, <1>3, <1>4, <1>7, PartsMakeIt

\* The command at the head, and who waits for it.
LEMMA AtTheHead ==
  ASSUME Typed, Asked, up, queue # <<>>
  PROVE  /\ 1 \in DOMAIN queue /\ Command = queue[1]
         /\ Command \in CommandSet
         /\ Command.kind \in Kinds => Command.w \in Workspaces /\ request[Command.w].at = Command.kind
         /\ Command.kind = "ensure" => Command.bytes \in Limits /\ Command.bytes = request[Command.w].bytes
  <1>1. queue \in Seq(CommandSet)
    BY DEF Typed
  <1>2. 1 \in DOMAIN queue /\ Command = queue[1] /\ queue[1] \in CommandSet
    BY <1>1, Tails DEF Command
  <1>3. /\ queue[1].kind \in Kinds => request[queue[1].w].at = queue[1].kind
        /\ queue[1].kind = "ensure" => queue[1].bytes = request[queue[1].w].bytes
    BY <1>2 DEF Asked
  <1>. QED BY <1>2, <1>3, QueueCarries

LEMMA Untouched ==
  ASSUME NEW w \in Workspaces, NEW bytes, BoxInv, ws' = ws, limit' = limit
  PROVE  BoxInv' /\ Touches(w, bytes)
  BY Reached DEF local

LEMMA EnsureStep == IndInv /\ ensure => IndInv'
  <1>. SUFFICES ASSUME IndInv, ensure PROVE IndInv'
    OBVIOUS
  <1>1. /\ Typed /\ BoxInv /\ Leaving /\ Asked /\ Gated /\ \A v \in Workspaces : Current(v)
    BY InvariantParts
  <1>2. /\ up /\ queue # <<>> /\ Command.kind = "ensure"
        /\ enforced' = enforced /\ check' = check /\ up' = up /\ row' = row /\ patch' = patch /\ stale' = stale
    BY DEF ensure, Executes
  <1>3. PICK w \in Workspaces, bytes \in Limits :
          w = Command.w /\ bytes = Command.bytes /\ bytes = request[w].bytes /\ request[w].at = "ensure"
    BY <1>1, <1>2, AtTheHead DEF Kinds
  <1>4. PICK what \in {"ensured", "failed"} :
          /\ Answer(w, what)
          /\ Does(w, ensureStages(w, bytes)) \/ DoesSome(w, ensureStages(w, bytes))
          /\ what = "ensured" => Does(w, ensureStages(w, bytes)) /\ ~ensureRefused(w)
    BY <1>3 DEF ensure
  <1>5. /\ ensureStages(w, bytes) \in Seq(Good(w, bytes))
        /\ ~ensureRefused(w) => /\ ensureStages(w, bytes) # <<>>
                                /\ InForceIn(Last(ensureStages(w, bytes)), bytes)
    BY <1>1, Ensures
  <1>6. BoxInv' /\ Touches(w, bytes)
    <2>1. UNCHANGED local \/ \E g \in Good(w, bytes) : Reaches(w, g)
      BY <1>4, <1>5, StagesReach
    <2>. QED BY <1>1, <2>1, Reached
  <1>7. Answering(w, what)
    BY <1>2, <1>3, <1>4 DEF Answering, Answer, Kinds, Starting
  <1>8. what = "ensured" => InForceIn(At(ws'[w], limit'), bytes)
    <2>. HAVE what = "ensured"
    <2>1. Reaches(w, Last(ensureStages(w, bytes))) /\ InForceIn(Last(ensureStages(w, bytes)), bytes)
      BY <1>4, <1>5 DEF Does
    <2>2. ws'[w] = Last(ensureStages(w, bytes)).ws /\ limit' = Last(ensureStages(w, bytes)).limit
      BY <1>1, <2>1 DEF Reaches, BoxInv
    <2>. QED BY <2>1, <2>2 DEF InForceIn, At
  <1>9. what \in {"ensured", "started"} => (request[w].bytes = row[w].limit => InForce(w)')
    BY <1>2, <1>3, <1>4, <1>8 DEF InForceIn, At, InForce
  <1>10. ~stale[w] => bytes = row[w].limit
    BY <1>1, <1>3 DEF Current, Starting
  <1>11. enforced' \in [Guards -> BOOLEAN]
    BY <1>1, <1>2 DEF Typed
  <1>. QED BY <1>2, <1>6, <1>7, <1>9, <1>10, <1>11, AnswerStep

\* Where start goes on to its next step, nothing else moves.
LEMMA StartGoesOn ==
  ASSUME IndInv, NEW w \in Workspaces, w = Command.w, Executes("start"), ws[w].container # "none", ws[w].shape = "current",
         step' \in {"gated", "prepared", "wait"}, queue' = queue, request' = request,
         enforced' \in [Guards -> BOOLEAN], check' = check, up' = up, row' = row, patch' = patch, stale' = stale,
         BoxInv', Leaving', ws'[w].container # "none", ws'[w].shape = "current",
         Steady(w), \A v \in Workspaces : v # w => Steady(v)
  PROVE  IndInv'
  <1>1. /\ Typed /\ BoxInv /\ Leaving /\ Asked /\ Gated /\ \A v \in Workspaces : Current(v)
    BY InvariantParts
  <1>2. Typed'
    BY <1>1 DEF Typed, BoxInv
  <1>3. Asked'
    BY <1>1, StillAsked DEF Executes, SameRecovering
  <1>4. Gated'
    BY DEF Gated, Executes, Command
  <1>5. \A v \in Workspaces : Current(v)'
    BY <1>1, <1>2, StaysCurrent
  <1>. QED BY <1>2, <1>3, <1>4, <1>5, PartsMakeIt

\* What the steps of start are about.
LEMMA StartIsAbout ==
  ASSUME IndInv, Executes("start")
  PROVE  /\ Command.w \in Workspaces /\ request[Command.w].at = "start" /\ Command.kind \in Kinds /\ Command.kind \in Starting
         /\ ~stale[Command.w] => InForce(Command.w)
  <1>1. Typed /\ Asked /\ \A v \in Workspaces : Current(v)
    BY InvariantParts
  <1>2. PICK w \in Workspaces : w = Command.w /\ request[w].at = "start"
    BY <1>1, AtTheHead DEF Executes, Kinds
  <1>3. ~stale[w] => InForce(w)
    BY <1>1, <1>2 DEF Current, Starting
  <1>. QED BY <1>2, <1>3 DEF Executes, Kinds, Starting

LEMMA StartStep == IndInv /\ HostKnown /\ start => IndInv'
  <1>. SUFFICES ASSUME IndInv, HostKnown, start PROVE IndInv'
    OBVIOUS
  <1>1. /\ Typed /\ BoxInv /\ Leaving /\ Asked /\ Gated /\ \A v \in Workspaces : Current(v)
    BY InvariantParts
  <1>2. /\ Executes("start") /\ up /\ queue # <<>> /\ Command.kind = "start"
        /\ check' = check /\ up' = up /\ row' = row /\ patch' = patch /\ stale' = stale
    BY DEF start, Executes
  <1>3. PICK w \in Workspaces : w = Command.w /\ request[w].at = "start" /\ (~stale[w] => InForce(w))
    BY <1>2, StartIsAbout
  <1>4. ws[w] \in Boxes /\ Sound(ws[w], limit)
    BY <1>1 DEF BoxInv, Boxed
  <1>5. ws' = ws /\ limit' = limit
    <2>1. CASE startRefused(w)
      BY <1>3, <2>1 DEF start, local
    <2>2. CASE ~startRefused(w)
      <3>1. ws[w].network = "current"
        BY <1>4, <2>2 DEF startRefused, needsMigration, Sound, Boxes
      <3>2. ensureNetwork(ws[w]) = ws[w]
        BY <1>4, <3>1 DEF ensureNetwork, Boxes
      <3>. QED BY <1>1, <1>3, <2>2, <3>2 DEF start, BoxInv
    <2>. QED BY <2>1, <2>2
  <1>6. BoxInv' /\ Touches(w, row[w].limit)
    BY <1>1, <1>5, Untouched
  <1>7. enforced' \in [Guards -> BOOLEAN]
    <2>1. enforced' = enforced \/ assertEgressEnforced
      BY <1>3 DEF start
    <2>2. enforced \in [Guards -> BOOLEAN]
      BY <1>1 DEF Typed
    <2>3. CASE assertEgressEnforced
      <3>1. host.egress \in BOOLEAN
        BY DEF HostKnown, Guards
      <3>. QED BY <2>2, <2>3, <3>1 DEF assertEgressEnforced, Guards
    <2>. QED BY <2>1, <2>2, <2>3
  <1>8. CASE Answer(w, "failed")
    <2>1. Answering(w, "failed")
      BY <1>2, <1>3, <1>8 DEF Answering, Answer, Kinds, Starting
    <2>. QED BY <1>2, <1>6, <1>7, <2>1, AnswerStep
  <1>9. CASE ~startRefused(w) /\ step' \in {"wait", "gated"} /\ UNCHANGED <<queue, request>>
    <2>1. ws[w].container # "none" /\ ws[w].shape = "current"
      BY <1>4, <1>9 DEF startRefused, needsMigration, Boxes
    <2>2. \A v \in Workspaces : Steady(v)
      BY <1>2, <1>5, <1>9, OnlyRequests
    <2>3. Leaving'
      BY <1>1, <1>2, <1>5, StillLeaving
    <2>. QED BY <1>2, <1>3, <1>5, <1>6, <1>7, <1>9, <2>1, <2>2, <2>3, StartGoesOn
  <1>. QED BY <1>3, <1>8, <1>9 DEF start

LEMMA StartPrepareStep == IndInv /\ startPrepare => IndInv'
  <1>. SUFFICES ASSUME IndInv, startPrepare PROVE IndInv'
    OBVIOUS
  <1>1. /\ Typed /\ BoxInv /\ Leaving /\ Asked /\ Gated /\ \A v \in Workspaces : Current(v)
    BY InvariantParts
  <1>2. /\ Executes("start") /\ up /\ queue # <<>> /\ Command.kind = "start" /\ step = "gated"
        /\ enforced' = enforced /\ check' = check /\ up' = up /\ row' = row /\ patch' = patch /\ stale' = stale
    BY DEF startPrepare, Executes
  <1>3. PICK w \in Workspaces : w = Command.w /\ request[w].at = "start" /\ (~stale[w] => InForce(w))
    BY <1>2, StartIsAbout
  <1>4. /\ ws[w] \in Boxes /\ Sound(ws[w], limit) /\ ws[w].container # "none" /\ ws[w].shape = "current"
    BY <1>1, <1>2, <1>3 DEF BoxInv, Boxed, Gated
  <1>5. PICK bytes \in Limits : bytes = ws[w].quota.bytes
    BY <1>4 DEF Sound, Boxes, Quotas
  <1>. DEFINE stages == IF enforced.storage THEN prepareStorage(ws[w], bytes) ELSE <<>>
  <1>6. /\ prepareStorage(ws[w], bytes) \in Seq(Good(w, bytes)) /\ prepareStorage(ws[w], bytes) # <<>>
        /\ Prepared(ws[w], Last(prepareStorage(ws[w], bytes)), bytes)
    <2>1. ws[w].dir = "managed" /\ ~needsMigration(ws[w]) /\ SameButQuota(ws[w], ws[w])
      BY <1>4 DEF Sound, needsMigration, SameButQuota
    <2>. QED BY <1>1, <1>4, <2>1, PreparesStorage
  <1>7. stages \in Seq(Good(w, bytes))
    BY <1>6
  <1>8. \/ /\ Does(w, stages) /\ enforced.storage /\ step' = "prepared" /\ UNCHANGED <<queue, request>>
        \/ (Does(w, stages) \/ DoesSome(w, stages)) /\ Answer(w, "failed")
    BY <1>3, <1>5 DEF startPrepare
  <1>. HIDE DEF stages
  <1>9. BoxInv' /\ Touches(w, bytes)
    <2>1. UNCHANGED local \/ \E g \in Good(w, bytes) : Reaches(w, g)
      BY <1>7, <1>8, StagesReach
    <2>. QED BY <1>1, <2>1, Reached
  <1>10. ~stale[w] => bytes = row[w].limit
    BY <1>3, <1>5 DEF InForce
  <1>11. enforced' \in [Guards -> BOOLEAN]
    BY <1>1, <1>2 DEF Typed
  <1>12. CASE Answer(w, "failed")
    <2>1. Answering(w, "failed")
      BY <1>2, <1>3, <1>12 DEF Answering, Answer, Kinds, Starting
    <2>. QED BY <1>2, <1>9, <1>10, <1>11, <2>1, AnswerStep
  <1>13. CASE Does(w, stages) /\ enforced.storage /\ step' = "prepared" /\ UNCHANGED <<queue, request>>
    <2>1. PICK g \in Good(w, bytes) : g = Last(prepareStorage(ws[w], bytes))
      BY <1>6, LastIsOne
    <2>2. ws'[w] = g.ws /\ limit' = g.limit /\ Prepared(ws[w], g, bytes)
      <3>1. Reaches(w, g)
        BY <1>6, <1>13, <2>1 DEF Does, stages
      <3>. QED BY <1>1, <1>6, <2>1, <3>1 DEF Reaches, BoxInv
    <2>3. ws'[w].container # "none" /\ ws'[w].shape = "current"
      BY <1>4, <2>2 DEF Prepared, SameButQuota
    <2>4. InForce(w) => InForce(w)'
      BY <1>2, <1>5, <2>2 DEF InForce, Prepared
    <2>5. Steady(w)
      <3>1. request[w].at \in Starting /\ request[w].at \notin Early
        BY <1>3 DEF Starting, Early
      <3>. QED BY <1>2, <1>9, <1>10, <1>13, <2>4, <3>1, TouchedIsSteady
    <2>6. ASSUME NEW v \in Workspaces, v # w PROVE Steady(v)
      <3>1. NoPatch(v)' => NoPatch(v)
        BY <1>2 DEF NoPatch
      <3>. QED BY <1>2, <1>9, <1>13, <2>6, <3>1, UntouchedAreSteady
    <2>7. Leaving'
      BY <1>1, <1>2, <1>9, TouchedLeaving
    <2>. QED BY <1>2, <1>3, <1>4, <1>9, <1>11, <1>13, <2>3, <2>5, <2>6, <2>7, StartGoesOn
  <1>. QED BY <1>8, <1>12, <1>13

LEMMA StartContainerStep == IndInv /\ startContainer => IndInv'
  <1>. SUFFICES ASSUME IndInv, startContainer PROVE IndInv'
    OBVIOUS
  <1>1. /\ Typed /\ BoxInv /\ Leaving /\ Asked /\ Gated /\ \A v \in Workspaces : Current(v)
    BY InvariantParts
  <1>2. /\ Executes("start") /\ step = "prepared" /\ step' = "wait"
        /\ enforced' = enforced /\ check' = check /\ up' = up /\ limit' = limit /\ queue' = queue
        /\ row' = row /\ request' = request /\ patch' = patch /\ stale' = stale
    BY DEF startContainer, control
  <1>3. PICK w \in Workspaces : w = Command.w /\ request[w].at = "start" /\ (~stale[w] => InForce(w))
    BY <1>2, StartIsAbout
  <1>4. /\ ws[w] \in Boxes /\ Sound(ws[w], limit) /\ ws[w].container # "none" /\ ws[w].shape = "current"
    BY <1>1, <1>2, <1>3 DEF BoxInv, Boxed, Gated
  <1>. DEFINE new == [ws[w] EXCEPT !.container = "running"]
  <1>5. new \in Boxes /\ new.container = "running" /\ new.shape = "current" /\ new.quota = ws[w].quota /\ Sound(new, limit)
    BY <1>4 DEF Boxes, Sound
  <1>6. /\ ws' \in [Workspaces -> Boxes] /\ ws'[w] = new
        /\ \A v \in Workspaces : v # w => ws'[v] = ws[v]
    <2>1. ws' = [ws EXCEPT ![w] = new]
      BY <1>3 DEF startContainer
    <2>. HIDE DEF new
    <2>. QED BY <1>1, <1>5, <2>1 DEF BoxInv
  <1>. HIDE DEF new
  <1>7. BoxInv'
    BY <1>1, <1>2, <1>5, <1>6 DEF BoxInv, OwnProjects, Boxed
  <1>8. Leaving'
    BY <1>1, <1>2, <1>5, <1>6 DEF Leaving, mismatched
  <1>9. Steady(w)
    <2>1. InForce(w) => InForce(w)'
      BY <1>2, <1>5, <1>6 DEF InForce
    <2>2. ~stale[w] => limit[ws'[w].quota.project] = row[w].limit
      BY <1>3, <1>5, <1>6 DEF InForce
    <2>3. NoPatch(w)' => NoPatch(w)
      BY <1>2 DEF NoPatch
    <2>. QED BY <1>2, <1>3, <2>1, <2>2, <2>3 DEF Steady, Early
  <1>10. ASSUME NEW v \in Workspaces, v # w PROVE Steady(v)
    <2>1. InForce(v) => InForce(v)'
      BY <1>2, <1>6, <1>10 DEF InForce
    <2>2. NoPatch(v)' => NoPatch(v)
      BY <1>2 DEF NoPatch
    <2>. QED BY <1>2, <1>6, <1>10, <2>1, <2>2 DEF Steady
  <1>11. enforced' \in [Guards -> BOOLEAN]
    BY <1>1, <1>2 DEF Typed
  <1>. QED BY <1>2, <1>3, <1>4, <1>5, <1>6, <1>7, <1>8, <1>9, <1>10, <1>11, StartGoesOn

LEMMA StartReadyStep == IndInv /\ startReady => IndInv'
  <1>. SUFFICES ASSUME IndInv, startReady PROVE IndInv'
    OBVIOUS
  <1>1. /\ Typed /\ BoxInv
    BY InvariantParts
  <1>2. /\ Executes("start") /\ up /\ queue # <<>> /\ Command.kind = "start"
        /\ enforced' = enforced /\ check' = check /\ up' = up /\ row' = row /\ patch' = patch /\ stale' = stale
        /\ ws' = ws /\ limit' = limit
    BY DEF startReady, Executes, local
  <1>3. PICK w \in Workspaces : w = Command.w /\ request[w].at = "start"
    BY <1>2, StartIsAbout
  <1>4. PICK what \in {"started", "failed"} : Answer(w, what)
    BY <1>3 DEF startReady
  <1>5. Answering(w, what)
    BY <1>2, <1>3, <1>4 DEF Answering, Answer, Kinds, Starting
  <1>6. BoxInv' /\ Touches(w, row[w].limit)
    BY <1>1, <1>2, Untouched
  <1>7. InForce(w) => InForce(w)'
    BY <1>2 DEF InForce
  <1>8. enforced' \in [Guards -> BOOLEAN]
    BY <1>1, <1>2 DEF Typed
  <1>. QED BY <1>2, <1>4, <1>5, <1>6, <1>7, <1>8, AnswerStep

LEMMA StopStep == IndInv /\ stop => IndInv'
  <1>. SUFFICES ASSUME IndInv, stop PROVE IndInv'
    OBVIOUS
  <1>1. /\ Typed /\ BoxInv /\ Asked
    BY InvariantParts
  <1>2. /\ up /\ queue # <<>> /\ Command.kind = "stop"
        /\ enforced' = enforced /\ check' = check /\ up' = up /\ row' = row /\ patch' = patch /\ stale' = stale
        /\ limit' = limit
    BY DEF stop, Executes
  <1>3. PICK w \in Workspaces : w = Command.w /\ request[w].at = "stop"
    BY <1>1, <1>2, AtTheHead DEF Kinds
  <1>. DEFINE new == [ws[w] EXCEPT !.container = "stopped"]
  <1>4. PICK what \in {"stopped", "failed"} :
          /\ Answer(w, what)
          /\ ws' = ws \/ (ws[w].container # "none" /\ ws' = [ws EXCEPT ![w] = new])
    BY <1>3 DEF stop
  <1>5. Answering(w, what)
    BY <1>2, <1>3, <1>4 DEF Answering, Answer, Kinds, Starting
  <1>6. BoxInv' /\ Touches(w, row[w].limit)
    <2>1. CASE ws' = ws
      BY <1>1, <1>2, <2>1, Untouched
    <2>2. CASE ws[w].container # "none" /\ ws' = [ws EXCEPT ![w] = new]
      <3>1. ws[w] \in Boxes /\ Sound(ws[w], limit)
        BY <1>1 DEF BoxInv, Boxed
      <3>2. new \in Boxes /\ new.container = "stopped" /\ new.quota = ws[w].quota /\ Sound(new, limit)
        BY <2>2, <3>1 DEF Boxes, Sound
      <3>. HIDE DEF new
      <3>3. /\ ws' \in [Workspaces -> Boxes] /\ ws'[w] = new
            /\ \A v \in Workspaces : v # w => ws'[v] = ws[v]
        BY <1>1, <2>2, <3>2 DEF BoxInv
      <3>. QED BY <1>1, <1>2, <3>2, <3>3 DEF BoxInv, OwnProjects, Boxed, Touches
    <2>. QED BY <1>4, <2>1, <2>2
  <1>7. enforced' \in [Guards -> BOOLEAN]
    BY <1>1, <1>2 DEF Typed
  <1>. QED BY <1>2, <1>4, <1>5, <1>6, <1>7, AnswerStep

LEMMA DeleteStep == IndInv /\ delete => IndInv'
  <1>. SUFFICES ASSUME IndInv, delete PROVE IndInv'
    OBVIOUS
  <1>1. /\ Typed /\ BoxInv /\ Asked
    BY InvariantParts
  <1>2. /\ up /\ queue # <<>> /\ Command.kind = "delete"
        /\ enforced' = enforced /\ check' = check /\ up' = up /\ row' = row /\ patch' = patch /\ stale' = stale
    BY DEF delete, Executes
  <1>3. PICK w \in Workspaces : w = Command.w /\ request[w].at = "delete"
    BY <1>1, <1>2, AtTheHead DEF Kinds
  <1>4. PICK bytes \in Limits : bytes = row[w].limit
    BY <1>1 DEF Typed
  <1>5. PICK what \in {"deleted", "failed"} :
          /\ Answer(w, what)
          /\ \/ UNCHANGED local
             \/ ws' = [ws EXCEPT ![w] = Removed] /\ (limit' = releaseWorkspace(w) \/ limit' = limit)
             \/ DoesSome(w, deleteStages(w))
    BY <1>3 DEF delete
  <1>6. BoxInv' /\ Touches(w, bytes)
    <2>1. UNCHANGED local \/ \E g \in Good(w, bytes) : Reaches(w, g)
      <3>1. ASSUME ws' = [ws EXCEPT ![w] = Removed], limit' = releaseWorkspace(w) \/ limit' = limit
            PROVE  \E g \in Good(w, bytes) : Reaches(w, g)
        <4>1. /\ At(Removed, limit) \in Good(w, bytes) /\ At(Removed, releaseWorkspace(w)) \in Good(w, bytes)
          BY <1>1, Releases
        <4>2. Reaches(w, At(Removed, limit)) \/ Reaches(w, At(Removed, releaseWorkspace(w)))
          BY <3>1 DEF Reaches, At
        <4>. QED BY <4>1, <4>2
      <3>2. ASSUME DoesSome(w, deleteStages(w))
            PROVE  UNCHANGED local \/ \E g \in Good(w, bytes) : Reaches(w, g)
        <4>1. deleteStages(w) \in Seq(Good(w, bytes))
          BY <1>1, Deletes
        <4>. QED BY <3>2, <4>1, StagesReach
      <3>. QED BY <1>5, <3>1, <3>2
    <2>. QED BY <1>1, <2>1, Reached
  <1>7. Answering(w, what)
    BY <1>2, <1>3, <1>5 DEF Answering, Answer, Kinds, Starting
  <1>8. enforced' \in [Guards -> BOOLEAN]
    BY <1>1, <1>2 DEF Typed
  <1>. QED BY <1>2, <1>4, <1>5, <1>6, <1>7, <1>8, AnswerStep

\* A change or a reconciliation is done with: what is left of the queue is asked.
LEMMA Consumes ==
  ASSUME Typed, Asked, Gated, up, queue # <<>>, queue' = Tail(queue), request' = request, up' = up, step' = step,
         \/ Command.kind = "reconcile" /\ patch' = patch
         \/ Command.kind = "set" /\ patch' = [patch EXCEPT ![Command.admin] = Idle],
         \A v \in Workspaces : row'[v].state = "RECOVERING" => row[v].state = "RECOVERING"
  PROVE  /\ queue' \in Seq(CommandSet) /\ Asked' /\ Gated' /\ patch' \in [Admins -> Patches]
         /\ \A i \in DOMAIN queue' : queue'[i].kind # "reconcile"
  <1>1. queue \in Seq(CommandSet)
    BY DEF Typed
  <1>2. /\ queue' \in Seq(CommandSet) /\ Command = queue[1] /\ 1 \in DOMAIN queue /\ queue[1] \in CommandSet
        /\ \A i \in DOMAIN queue' : i + 1 \in DOMAIN queue /\ queue'[i] = queue[i + 1] /\ i \in Nat
        /\ \A i \in DOMAIN queue : i # 1 => i - 1 \in DOMAIN queue' /\ queue[i] = queue'[i - 1]
    BY <1>1, Tails DEF Command
  <1>3. \A i \in DOMAIN queue' : i + 1 # 1 /\ i + 1 \in DOMAIN queue /\ queue'[i] = queue[i + 1]
    BY <1>1, <1>2
  <1>4. Command.kind \notin Kinds
    BY DEF Kinds
  <1>5. /\ patch' \in [Admins -> Patches]
        /\ \A a \in Admins : (Command.kind = "set" => a # Command.admin) => patch'[a] = patch[a]
    BY DEF Typed, Patches, Idle
  <1>6. ASSUME NEW i \in DOMAIN queue'
        PROVE  /\ queue'[i].kind \in Kinds => request[queue'[i].w].at = queue'[i].kind
               /\ queue'[i].kind = "ensure" => queue'[i].bytes = request[queue'[i].w].bytes
               /\ queue'[i].kind = "set" =>
                    patch'[queue'[i].admin] = [at |-> "wait", w |-> queue'[i].w, bytes |-> queue'[i].bytes]
               /\ queue'[i].kind # "reconcile"
    <2>1. PICK j \in DOMAIN queue : j # 1 /\ queue'[i] = queue[j]
      BY <1>3
    <2>2. /\ queue[j].kind \in Kinds => request[queue[j].w].at = queue[j].kind
          /\ queue[j].kind = "ensure" => queue[j].bytes = request[queue[j].w].bytes
          /\ queue[j].kind = "set" =>
               patch[queue[j].admin] = [at |-> "wait", w |-> queue[j].w, bytes |-> queue[j].bytes]
          /\ queue[j].kind = "reconcile" => j = 1
          /\ queue[j].kind = "set" /\ queue[1].kind = "set" /\ queue[j].admin = queue[1].admin => j = 1
      BY <1>2 DEF Asked
    <2>3. queue[j].kind = "set" => queue[j].admin \in Admins
      BY QueueCarries
    <2>. QED BY <1>2, <1>5, <2>1, <2>2, <2>3
  <1>7. ASSUME NEW i \in DOMAIN queue', NEW j \in DOMAIN queue'
        PROVE  /\ queue'[i].kind \in Kinds /\ queue'[j].kind \in Kinds /\ queue'[i].w = queue'[j].w => i = j
               /\ queue'[i].kind = "set" /\ queue'[j].kind = "set" /\ queue'[i].admin = queue'[j].admin => i = j
    <2>1. i + 1 = j + 1 => i = j
      BY <1>2
    <2>. QED BY <1>3, <2>1 DEF Asked
  <1>8. ASSUME NEW v \in Workspaces, request[v].at \in Kinds
        PROVE  \E i \in DOMAIN queue' : queue'[i].kind = request[v].at /\ queue'[i].w = v
    <2>1. PICK i \in DOMAIN queue : queue[i].kind = request[v].at /\ queue[i].w = v
      BY <1>8 DEF Asked
    <2>2. i # 1
      BY <1>2, <1>4, <1>8, <2>1
    <2>. QED BY <1>2, <2>1, <2>2
  <1>9. \A v \in Workspaces : row'[v].state = "RECOVERING" => request[v].at = "idle"
    BY DEF Asked
  <1>10. Asked'
    BY <1>6, <1>7, <1>8, <1>9 DEF Asked
  <1>11. Gated'
    <2>1. step = "idle"
      BY <1>4 DEF Gated, Executes, Kinds
    <2>. QED BY <2>1 DEF Gated
  <1>. QED BY <1>2, <1>5, <1>6, <1>10, <1>11

LEMMA SetDiskLimitStep == IndInv /\ setDiskLimit => IndInv'
  <1>. SUFFICES ASSUME IndInv, setDiskLimit PROVE IndInv'
    OBVIOUS
  <1>1. /\ Typed /\ BoxInv /\ Leaving /\ Asked /\ Gated /\ \A v \in Workspaces : Current(v)
    BY InvariantParts
  <1>2. /\ up /\ queue # <<>> /\ Command.kind = "set" /\ queue' = Tail(queue)
        /\ patch' = [patch EXCEPT ![Command.admin] = Idle]
        /\ enforced' = enforced /\ check' = check /\ up' = up /\ row' = row /\ request' = request /\ step' = step
    BY DEF setDiskLimit, Executes
  <1>3. PICK w \in Workspaces, bytes \in Limits, a \in Admins :
          /\ w = Command.w /\ bytes = Command.bytes /\ a = Command.admin
          /\ patch[a] = [at |-> "wait", w |-> w, bytes |-> bytes]
    <2>1. 1 \in DOMAIN queue /\ Command = queue[1]
      BY <1>1, <1>2, AtTheHead
    <2>2. queue[1].kind = "set" =>
            patch[queue[1].admin] = [at |-> "wait", w |-> queue[1].w, bytes |-> queue[1].bytes]
      BY <1>1, <2>1 DEF Asked
    <2>. QED BY <1>1, <1>2, <2>1, <2>2, QueueCarries
  <1>4. /\ setDiskLimitStages(w, bytes) \in Seq(Good(w, bytes))
        /\ \A n \in DOMAIN setDiskLimitStages(w, bytes) :
             InForceIn(At(ws[w], limit), bytes) => InForceIn(setDiskLimitStages(w, bytes)[n], bytes)
        /\ setDiskLimitStages(w, bytes) # <<>> => InForceIn(Last(setDiskLimitStages(w, bytes)), bytes)
        /\ setDiskLimitStages(w, bytes) = <<>> => ws[w].quota = NoQuota \/ ~enforced.storage
    BY <1>1, SetsLimit
  <1>5. /\ stale' \in [Workspaces -> BOOLEAN] /\ (stale[w] => stale'[w])
        /\ \A v \in Workspaces : v # w => stale'[v] = stale[v]
        /\ Does(w, setDiskLimitStages(w, bytes)) \/ DoesSome(w, setDiskLimitStages(w, bytes))
        /\ ~stale'[w] => Does(w, setDiskLimitStages(w, bytes)) /\ ~setDiskLimitRefused(w)
    <2>1. CASE /\ Does(w, setDiskLimitStages(w, bytes))
               /\ stale' = [stale EXCEPT ![w] = stale[w] \/ setDiskLimitRefused(w)]
      <3>1. (stale[w] \/ setDiskLimitRefused(w)) \in BOOLEAN
        BY DEF setDiskLimitRefused
      <3>. QED BY <1>1, <2>1, <3>1 DEF Typed
    <2>2. CASE /\ DoesSome(w, setDiskLimitStages(w, bytes))
               /\ stale' = [stale EXCEPT ![w] = TRUE]
      BY <1>1, <2>2 DEF Typed
    <2>. QED BY <1>3, <2>1, <2>2 DEF setDiskLimit
  <1>6. BoxInv' /\ Touches(w, bytes)
    <2>1. UNCHANGED local \/ \E g \in Good(w, bytes) : Reaches(w, g)
      BY <1>4, <1>5, StagesReach
    <2>. QED BY <1>1, <2>1, Reached
  <1>7. /\ queue' \in Seq(CommandSet) /\ Asked' /\ Gated' /\ patch' \in [Admins -> Patches]
        /\ \A i \in DOMAIN queue' : queue'[i].kind # "reconcile"
    BY <1>1, <1>2, Consumes
  <1>8. patch'[a].at = "idle" /\ \A b \in Admins : b # a => patch'[b] = patch[b]
    BY <1>1, <1>2, <1>3 DEF Typed, Idle
  <1>9. Typed'
    BY <1>1, <1>2, <1>5, <1>6, <1>7 DEF Typed, BoxInv
  <1>10. Leaving'
    BY <1>1, <1>2, <1>6, TouchedLeaving
  <1>11. ASSUME NEW v \in Workspaces, v # w PROVE Current(v)'
    <2>1. NoPatch(v)' => NoPatch(v)
      <3>1. \A b \in Admins : (patch'[b].at = "idle" \/ patch'[b].w # v) => (patch[b].at = "idle" \/ patch[b].w # v)
        BY <1>3, <1>8, <1>11
      <3>. QED BY <3>1 DEF NoPatch
    <2>2. \A b \in Admins : patch'[b].at # "idle" /\ patch'[b].w = v =>
            patch[b].at # "idle" /\ patch[b].w = v /\ patch'[b].bytes = patch[b].bytes
      BY <1>8
    <2>3. Steady(v)
      BY <1>2, <1>5, <1>6, <1>7, <1>11, <2>1, <2>2, UntouchedAreSteady
    <2>. QED BY <1>1, <1>9, <2>3, StaysCurrent
  <1>12. Current(w)'
    <2>1. ~NoPatch(w)
      BY <1>3 DEF NoPatch
    <2>2. ~stale'[w] => ~stale[w] /\ bytes = row[w].limit
      BY <1>1, <1>3, <1>5 DEF Current
    <2>3. ASSUME ~stale'[w], ws'[w].container = "running", ws'[w].quota # NoQuota
          PROVE  limit'[ws'[w].quota.project] = row[w].limit
      <3>1. Does(w, setDiskLimitStages(w, bytes)) /\ ~setDiskLimitRefused(w)
        BY <1>5, <2>3
      <3>2. CASE setDiskLimitStages(w, bytes) = <<>>
        <4>1. ws' = ws
          BY <3>1, <3>2 DEF Does, local
        <4>. QED BY <1>4, <2>3, <3>1, <3>2, <4>1 DEF setDiskLimitRefused
      <3>3. CASE setDiskLimitStages(w, bytes) # <<>>
        <4>1. Reaches(w, Last(setDiskLimitStages(w, bytes)))
          BY <3>1, <3>3 DEF Does
        <4>2. /\ ws'[w] = Last(setDiskLimitStages(w, bytes)).ws
              /\ limit' = Last(setDiskLimitStages(w, bytes)).limit
          BY <1>1, <4>1 DEF Reaches, BoxInv
        <4>. QED BY <1>4, <2>2, <2>3, <3>3, <4>2 DEF InForceIn
      <3>. QED BY <3>2, <3>3
    <2>4. \A b \in Admins : ~stale'[w] /\ patch'[b].at # "idle" /\ patch'[b].w = w => patch'[b].bytes = row[w].limit
      BY <1>1, <1>8, <2>2 DEF Current
    <2>5. ASSUME ~stale'[w], InForce(w) PROVE InForce(w)'
      <3>1. InForceIn(At(ws[w], limit), bytes)
        BY <2>2, <2>5 DEF InForce, InForceIn, At
      <3>2. Does(w, setDiskLimitStages(w, bytes))
        BY <1>5, <2>5
      <3>3. CASE setDiskLimitStages(w, bytes) = <<>>
        BY <1>2, <2>5, <3>2, <3>3 DEF Does, local, InForce
      <3>4. CASE setDiskLimitStages(w, bytes) # <<>>
        <4>1. Reaches(w, Last(setDiskLimitStages(w, bytes)))
          BY <3>2, <3>4 DEF Does
        <4>2. /\ ws'[w] = Last(setDiskLimitStages(w, bytes)).ws
              /\ limit' = Last(setDiskLimitStages(w, bytes)).limit
          BY <1>1, <4>1 DEF Reaches, BoxInv
        <4>. QED BY <1>2, <1>4, <2>2, <2>5, <3>4, <4>2 DEF InForceIn, InForce
      <3>. QED BY <3>3, <3>4
    <2>6. request[w].at \in Starting =>
            /\ ~request[w].fresh
            /\ ~stale'[w] => IF request[w].at \in Early THEN request[w].bytes = row[w].limit ELSE InForce(w)'
      BY <1>1, <2>1, <2>2, <2>5 DEF Current, Early
    <2>. QED BY <1>2, <1>7, <2>3, <2>4, <2>6 DEF Current, Early
  <1>. QED BY <1>6, <1>7, <1>9, <1>10, <1>11, <1>12, PartsMakeIt

LEMMA ReconcileStep == IndInv /\ reconcile => IndInv'
  <1>. SUFFICES ASSUME IndInv, reconcile PROVE IndInv'
    OBVIOUS
  <1>1. /\ Typed /\ BoxInv /\ Leaving /\ Asked /\ Gated /\ \A v \in Workspaces : Current(v)
    BY InvariantParts
  <1>2. /\ up /\ queue # <<>> /\ Command.kind = "reconcile" /\ queue' = Tail(queue)
        /\ patch' = patch
        /\ enforced' = enforced /\ check' = check /\ up' = up /\ request' = request /\ step' = step
    BY DEF reconcile, Executes
  <1>3. PICK bytes :
          /\ bytes = Command.bytes
          /\ \A v \in DOMAIN bytes : v \in Workspaces /\ bytes[v] \in Limits /\ bytes[v] # 0 /\ row[v].state = "RECOVERING"
          /\ \A v \in DOMAIN bytes : ~stale[v] /\ NoPatch(v) => bytes[v] = row[v].limit
    <2>1. 1 \in DOMAIN queue /\ Command = queue[1]
      BY <1>1, <1>2, AtTheHead
    <2>2. \A v \in DOMAIN queue[1].bytes : row[v].state = "RECOVERING"
      BY <1>1, <1>2, <2>1 DEF Asked
    <2>3. \A v \in DOMAIN queue[1].bytes : v \in Workspaces /\ queue[1].bytes[v] \in Limits
      BY <1>1, <1>2, <2>1, QueueCarries
    <2>4. \A v \in DOMAIN queue[1].bytes : ~stale[v] /\ NoPatch(v) => queue[1].bytes[v] = row[v].limit
      BY <1>1, <1>2, <2>1, <2>3 DEF Current
    <2>. QED BY <2>1, <2>2, <2>3, <2>4, FailClosedAssumption
  <1>. DEFINE inspected == {v \in DOMAIN bytes : Inspectable(v)}
              stopped == {v \in inspected \cap Running : Unguarded(v)}
              recorded == {v \in inspected : Recovers(v, bytes[v])}
  <1>4. /\ ws' = [w \in Workspaces |->
                    [ws[w] EXCEPT !.container = IF w \in stopped THEN "stopped" ELSE @,
                                  !.quota = IF w \in recorded THEN [@ EXCEPT !.bytes = bytes[w]] ELSE @]]
        /\ limit' = [p \in Projects |->
                       IF \E w \in recorded : ws[w].quota.project = p
                         THEN bytes[CHOOSE w \in recorded : ws[w].quota.project = p] ELSE limit[p]]
        /\ row' = [w \in Workspaces |->
                     IF w \notin DOMAIN bytes THEN row[w]
                     ELSE [row[w] EXCEPT !.state =
                             IF w \in stopped \/ w \notin inspected THEN "ERROR"
                             ELSE IF w \in Running THEN "RUNNING" ELSE "STOPPED"]]
        /\ stale' = [w \in Workspaces |-> stale[w] /\ ~(w \in inspected /\ Recovered(w, bytes[w]))]
    BY <1>3 DEF reconcile
  <1>5. /\ inspected \subseteq DOMAIN bytes /\ stopped \subseteq inspected /\ recorded \subseteq inspected
        /\ \A v \in stopped : ws[v].container = "running"
        /\ \A v \in recorded : ws[v].quota # NoQuota /\ enforced.storage
        /\ \A v \in inspected : Recovered(v, bytes[v]) /\ v \notin recorded => limit[ws[v].quota.project] = bytes[v]
        /\ \A v \in Workspaces : Recovered(v, bytes[v]) => NoPatch(v) /\ row[v].limit = bytes[v]
        /\ \A v \in DOMAIN bytes :
             /\ Sound(ws[v], limit) /\ ws[v].container = "running" /\ ws[v].shape = "legacy" /\ ws[v].fits => v \in stopped
    <2>1. /\ inspected \subseteq DOMAIN bytes /\ stopped \subseteq inspected /\ recorded \subseteq inspected
          /\ \A v \in stopped : ws[v].container = "running"
          /\ \A v \in recorded : ws[v].quota # NoQuota /\ enforced.storage
      BY DEF Running, Recovers
    <2>2. \A v \in inspected : Recovered(v, bytes[v]) /\ v \notin recorded => limit[ws[v].quota.project] = bytes[v]
      BY DEF Recovers, Recovered
    <2>3. \A v \in Workspaces : Recovered(v, bytes[v]) => NoPatch(v) /\ row[v].limit = bytes[v]
      BY DEF Recovered
    <2>4. ASSUME NEW v \in DOMAIN bytes,
                 Sound(ws[v], limit), ws[v].container = "running", ws[v].shape = "legacy", ws[v].fits
          PROVE  v \in stopped
      <3>1. v \in Workspaces /\ ws[v].container # "none" /\ ws[v].container = "running"
        BY <1>3, <2>4
      <3>2. ws[v].dir = "managed" /\ ws[v].network # "none"
        BY <2>4, <3>1 DEF Sound
      <3>3. Inspectable(v)
        BY <2>4, <3>1, <3>2 DEF Inspectable, mismatched
      <3>4. Unguarded(v)
        BY <2>4, <3>1 DEF Unguarded, needsMigration
      <3>. QED BY <3>1, <3>3, <3>4 DEF Running
    <2>. QED BY <2>1, <2>2, <2>3, <2>4
  <1>. HIDE DEF inspected, stopped, recorded
  <1>6. ASSUME NEW v \in Workspaces
        PROVE  /\ ws'[v] \in Boxes /\ Sound(ws[v], limit) /\ ws[v] \in Boxes
               /\ ws'[v].dir = ws[v].dir /\ ws'[v].tag = ws[v].tag /\ ws'[v].home = ws[v].home
               /\ ws'[v].seeded = ws[v].seeded /\ ws'[v].network = ws[v].network
               /\ ws'[v].shape = ws[v].shape /\ ws'[v].fits = ws[v].fits
               /\ ws'[v].container = IF v \in stopped THEN "stopped" ELSE ws[v].container
               /\ ws'[v].quota # NoQuota <=> ws[v].quota # NoQuota
               /\ ws[v].quota # NoQuota =>
                    ws'[v].quota.project = ws[v].quota.project /\ ws[v].quota.project \in Projects
               /\ v \notin recorded => ws'[v].quota = ws[v].quota
    <2>1. ws[v] \in Boxes /\ Sound(ws[v], limit)
      BY <1>1 DEF BoxInv, Boxed
    <2>2. PICK container : container = IF v \in stopped THEN "stopped" ELSE ws[v].container
      OBVIOUS
    <2>3. PICK quota : quota = IF v \in recorded THEN [ws[v].quota EXCEPT !.bytes = bytes[v]] ELSE ws[v].quota
      OBVIOUS
    <2>4. ws'[v] = [ws[v] EXCEPT !.container = container, !.quota = quota]
      BY <1>4, <2>2, <2>3
    <2>5. container \in {"none", "stopped", "running"}
      BY <2>1, <2>2 DEF Boxes
    <2>6. /\ quota \in Quotas \cup {NoQuota} /\ (quota # NoQuota <=> ws[v].quota # NoQuota)
          /\ ws[v].quota # NoQuota => quota.project = ws[v].quota.project /\ ws[v].quota.project \in Projects
      <3>1. ws[v].quota \in Quotas \cup {NoQuota}
        BY <2>1 DEF Boxes
      <3>2. CASE v \in recorded
        <4>1. bytes[v] \in Limits /\ ws[v].quota \in Quotas
          BY <1>3, <1>5, <3>1, <3>2
        <4>. QED BY <1>5, <2>3, <3>2, <4>1, FailClosedAssumption DEF Quotas
      <3>3. CASE v \notin recorded
        BY <2>3, <3>1, <3>3 DEF Quotas
      <3>. QED BY <3>2, <3>3
    <2>7. v \notin recorded => quota = ws[v].quota
      BY <2>3
    <2>8. /\ ws'[v].dir = ws[v].dir /\ ws'[v].tag = ws[v].tag /\ ws'[v].home = ws[v].home
          /\ ws'[v].seeded = ws[v].seeded /\ ws'[v].network = ws[v].network
          /\ ws'[v].shape = ws[v].shape /\ ws'[v].fits = ws[v].fits
          /\ ws'[v].container = container /\ ws'[v].quota = quota
      BY <2>1, <2>4 DEF Boxes
    <2>9. quota \in Quotas \cup {NoQuota}
      BY <2>6
    <2>10. ws'[v] \in Boxes
      BY <2>1, <2>4, <2>5, <2>9 DEF Boxes
    <2>. QED BY <2>1, <2>2, <2>6, <2>7, <2>8, <2>10
  <1>7. ASSUME NEW v \in Workspaces, ws[v].quota # NoQuota
        PROVE  limit'[ws[v].quota.project] = IF v \in recorded THEN bytes[v] ELSE limit[ws[v].quota.project]
    <2>1. \A u \in recorded : u \in Workspaces /\ (ws[u].quota.project = ws[v].quota.project => u = v)
      BY <1>1, <1>3, <1>5, <1>7 DEF BoxInv, OwnProjects
    <2>2. PICK p \in Projects : p = ws[v].quota.project
      BY <1>6, <1>7
    <2>3. CASE v \in recorded
      <3>1. (CHOOSE w \in recorded : ws[w].quota.project = p) = v
        BY <2>1, <2>2, <2>3
      <3>2. \E w \in recorded : ws[w].quota.project = p
        BY <2>2, <2>3
      <3>3. limit'[p] = bytes[CHOOSE w \in recorded : ws[w].quota.project = p]
        BY <1>4, <3>2
      <3>. QED BY <2>2, <2>3, <3>1, <3>3
    <2>4. CASE v \notin recorded
      <3>1. ~\E w \in recorded : ws[w].quota.project = p
        BY <2>1, <2>2, <2>4
      <3>. QED BY <1>4, <2>2, <2>4, <3>1
    <2>. QED BY <2>3, <2>4
  <1>8. limit' \in [Projects -> Limits \cup {0}]
    <2>1. ASSUME NEW p \in Projects PROVE limit'[p] \in Limits \cup {0}
      <3>1. CASE \E w \in recorded : ws[w].quota.project = p
        <4>1. (CHOOSE w \in recorded : ws[w].quota.project = p) \in recorded
          BY <3>1
        <4>. QED BY <1>3, <1>4, <1>5, <3>1, <4>1
      <3>2. CASE ~\E w \in recorded : ws[w].quota.project = p
        BY <1>1, <1>4, <3>2 DEF BoxInv
      <3>. QED BY <3>1, <3>2
    <2>2. limit' = [p \in Projects |-> limit'[p]]
      BY <1>4
    <2>. QED BY <2>1, <2>2
  <1>9. BoxInv'
    <2>1. ws' \in [Workspaces -> Boxes]
      BY <1>4, <1>6
    <2>2. OwnProjects'
      BY <1>1, <1>6 DEF OwnProjects, BoxInv
    <2>3. ASSUME NEW v \in Workspaces PROVE Sound(ws'[v], limit')
      <3>1. ws[v].quota # NoQuota /\ limit[ws[v].quota.project] # 0 => limit'[ws[v].quota.project] # 0
        BY <1>3, <1>5, <1>7
      <3>2. ws'[v].container = "none" <=> ws[v].container = "none"
        BY <1>5, <1>6
      <3>. QED BY <1>6, <3>1, <3>2 DEF Sound
    <2>. QED BY <1>8, <2>1, <2>2, <2>3 DEF BoxInv, Boxed
  <1>10. ASSUME NEW v \in Workspaces
         PROVE  /\ row'[v] \in [state : States, limit : Limits] /\ row'[v].limit = row[v].limit
                /\ row'[v].state = "RECOVERING" => row[v].state = "RECOVERING"
                /\ v \notin DOMAIN bytes => row'[v] = row[v]
    <2>1. row[v] \in [state : States, limit : Limits]
      BY <1>1 DEF Typed
    <2>2. CASE v \notin DOMAIN bytes
      BY <1>4, <2>1, <2>2
    <2>3. CASE v \in DOMAIN bytes
      <3>1. PICK s \in {"ERROR", "RUNNING", "STOPPED"} : row'[v] = [row[v] EXCEPT !.state = s]
        BY <1>4, <2>3
      <3>. QED BY <2>1, <2>3, <3>1 DEF States
    <2>. QED BY <2>2, <2>3
  <1>11. /\ queue' \in Seq(CommandSet) /\ Asked' /\ Gated' /\ patch' \in [Admins -> Patches]
         /\ \A i \in DOMAIN queue' : queue'[i].kind # "reconcile"
    BY <1>1, <1>2, <1>10, Consumes
  <1>12. stale' \in [Workspaces -> BOOLEAN]
    BY <1>4
  <1>13. Typed'
    <2>1. row' \in [Workspaces -> [state : States, limit : Limits]]
      <3>1. row' = [v \in Workspaces |-> row'[v]]
        BY <1>4
      <3>. QED BY <1>10, <3>1
    <2>. QED BY <1>1, <1>2, <1>9, <1>11, <1>12, <2>1 DEF Typed, BoxInv
  <1>14. Leaving'
    <2>. SUFFICES ASSUME NEW v \in Workspaces, ws'[v].container = "running", ws'[v].shape = "legacy", ws'[v].fits
                  PROVE  row'[v].state = "RECOVERING"
      BY DEF Leaving, mismatched
    <2>1. v \notin stopped /\ ws[v].container = "running" /\ ws[v].shape = "legacy" /\ ws[v].fits /\ Sound(ws[v], limit)
      BY <1>6
    <2>2. v \notin DOMAIN bytes
      BY <1>5, <2>1
    <2>. QED BY <1>1, <1>10, <2>1, <2>2 DEF Leaving, mismatched
  <1>15. ASSUME NEW v \in Workspaces PROVE Current(v)'
    <2>1. NoPatch(v)' <=> NoPatch(v)
      BY <1>2 DEF NoPatch
    <2>2. ~stale'[v] => ~stale[v] \/ (v \in inspected /\ Recovered(v, bytes[v]))
      BY <1>1, <1>4 DEF Typed
    <2>3. ASSUME ~stale'[v]
          PROVE  \A a \in Admins : patch'[a].at # "idle" /\ patch'[a].w = v => patch'[a].bytes = row'[v].limit
      <3>1. CASE ~stale[v]
        BY <1>1, <1>2, <1>10, <3>1 DEF Current
      <3>2. CASE Recovered(v, bytes[v])
        BY <1>2, <1>5, <3>2 DEF NoPatch
      <3>. QED BY <2>2, <2>3, <3>1, <3>2
    <2>4. ASSUME ~stale'[v], NoPatch(v), ws'[v].container = "running", ws'[v].quota # NoQuota
          PROVE  limit'[ws'[v].quota.project] = row'[v].limit
      <3>1. /\ ws[v].container = "running" /\ ws[v].quota # NoQuota /\ ws'[v].quota.project = ws[v].quota.project
            /\ limit'[ws[v].quota.project] = IF v \in recorded THEN bytes[v] ELSE limit[ws[v].quota.project]
        BY <1>6, <1>7, <2>4
      <3>2. CASE ~stale[v]
        <4>1. limit[ws[v].quota.project] = row[v].limit
          BY <1>1, <2>4, <3>1, <3>2 DEF Current
        <4>2. v \in recorded => bytes[v] = row[v].limit
          BY <1>3, <1>5, <2>4, <3>2
        <4>. QED BY <1>10, <3>1, <4>1, <4>2
      <3>3. CASE v \in inspected /\ Recovered(v, bytes[v])
        BY <1>5, <1>10, <3>1, <3>3
      <3>. QED BY <2>2, <2>4, <3>2, <3>3
    <2>5. ASSUME request[v].at \in Starting
          PROVE  /\ v \notin DOMAIN bytes /\ (~stale'[v] => ~stale[v]) /\ (InForce(v) => InForce(v)')
                 /\ row'[v].limit = row[v].limit
      <3>1. v \notin DOMAIN bytes
        BY <1>1, <1>3, <2>5 DEF Asked, Starting
      <3>2. v \notin inspected /\ v \notin recorded
        BY <1>5, <3>1
      <3>3. ws'[v].quota = ws[v].quota
        BY <1>6, <3>2
      <3>. QED BY <1>7, <1>10, <2>2, <3>1, <3>2, <3>3 DEF InForce
    <2>6. request'[v].at \in Starting =>
            /\ request'[v].fresh => NoPatch(v)'
            /\ ~stale'[v] \/ request'[v].fresh =>
                 IF request'[v].at \in Early THEN request'[v].bytes = row'[v].limit ELSE InForce(v)'
      <3>. HAVE request'[v].at \in Starting
      <3>1. /\ request[v].fresh => NoPatch(v)
            /\ ~stale[v] \/ request[v].fresh =>
                 IF request[v].at \in Early THEN request[v].bytes = row[v].limit ELSE InForce(v)
        BY <1>1, <1>2 DEF Current, Early
      <3>. QED BY <1>2, <2>1, <2>5, <3>1
    <2>. QED BY <1>11, <2>1, <2>3, <2>4, <2>6 DEF Current, Early
  <1>. QED BY <1>9, <1>11, <1>13, <1>14, <1>15, PartsMakeIt

-----------------------------------------------------------------------------
(* Beside the commands: the timed checks, the operator's tool, the host.    *)

\* A container may stop, or one of an earlier release go; networks, projects and
\* limits stay, and so does what the Control Plane and the queue know.
Slackens(v) ==
  /\ ws'[v] \in Boxes /\ Sound(ws'[v], limit) /\ ws'[v].quota = ws[v].quota
  /\ ws'[v].container = "running" =>
       ws[v].container = "running" /\ ws'[v].shape = ws[v].shape /\ ws'[v].fits = ws[v].fits
  /\ ws[v].container # "none" /\ ws[v].shape = "current" =>
       ws'[v].container # "none" /\ ws'[v].shape = "current"

LEMMA BesideStep ==
  ASSUME IndInv, ws' = [v \in Workspaces |-> ws'[v]], \A v \in Workspaces : Slackens(v),
         enforced' \in [Guards -> BOOLEAN],
         check' \in [Checks -> [at : {"idle", "egress", "storage"}, left : SUBSET Workspaces]],
         limit' = limit, row' = row, request' = request, patch' = patch, stale' = stale,
         queue' = queue, step' = step, up' = up
  PROVE  IndInv'
  <1>1. /\ Typed /\ BoxInv /\ Leaving /\ Asked /\ Gated /\ \A v \in Workspaces : Current(v)
    BY InvariantParts
  <1>2. BoxInv'
    <2>1. ws' \in [Workspaces -> Boxes]
      BY DEF Slackens
    <2>2. OwnProjects'
      BY <1>1 DEF BoxInv, OwnProjects, Slackens
    <2>3. Boxed'
      BY DEF Boxed, Slackens
    <2>. QED BY <1>1, <2>1, <2>2, <2>3 DEF BoxInv
  <1>3. Typed'
    BY <1>1, <1>2 DEF Typed, BoxInv
  <1>4. Leaving'
    BY <1>1 DEF Leaving, mismatched, Slackens
  <1>5. Asked'
    BY <1>1, StillAsked DEF SameRecovering
  <1>6. Gated'
    <2>1. ASSUME step' \in {"gated", "prepared"}
          PROVE  ws'[Command'.w].container # "none" /\ ws'[Command'.w].shape = "current"
      <3>1. /\ up /\ queue # <<>> /\ Command.kind = "start" /\ Command' = Command
            /\ ws[Command.w].container # "none" /\ ws[Command.w].shape = "current"
        BY <1>1, <2>1 DEF Gated, Executes, Command
      <3>2. Command.w \in Workspaces
        BY <1>1, <3>1, AtTheHead DEF Kinds
      <3>. QED BY <3>1, <3>2 DEF Slackens
    <2>2. step' # "idle" => Executes("start")'
      BY <1>1 DEF Gated, Executes, Command
    <2>. QED BY <2>1, <2>2 DEF Gated
  <1>7. ASSUME NEW v \in Workspaces PROVE Current(v)'
    <2>1. Slackens(v) /\ (InForce(v) => InForce(v)') /\ (NoPatch(v)' <=> NoPatch(v))
      BY DEF Slackens, InForce, NoPatch
    <2>2. Steady(v)
      BY <2>1 DEF Steady, Slackens
    <2>. QED BY <1>1, <1>3, <2>2, StaysCurrent
  <1>. QED BY <1>2, <1>3, <1>4, <1>5, <1>6, <1>7, PartsMakeIt

\* One Workspace slackens.
LEMMA OneSlackens ==
  ASSUME BoxInv, NEW w \in Workspaces, NEW s \in Boxes, ws' = [ws EXCEPT ![w] = s],
         Sound(s, limit), s.quota = ws[w].quota,
         s.container = "running" =>
           ws[w].container = "running" /\ s.shape = ws[w].shape /\ s.fits = ws[w].fits,
         ws[w].container # "none" /\ ws[w].shape = "current" => s.container # "none" /\ s.shape = "current"
  PROVE  ws' = [v \in Workspaces |-> ws'[v]] /\ \A v \in Workspaces : Slackens(v)
  <1>1. /\ ws' = [v \in Workspaces |-> ws'[v]] /\ ws'[w] = s
        /\ \A v \in Workspaces : v # w => ws'[v] = ws[v]
    BY DEF BoxInv
  <1>2. \A v \in Workspaces : ws[v] \in Boxes /\ Sound(ws[v], limit)
    BY DEF BoxInv, Boxed
  <1>. QED BY <1>1, <1>2 DEF Slackens

LEMMA NoneSlackens ==
  ASSUME BoxInv, ws' = ws
  PROVE  ws' = [v \in Workspaces |-> ws'[v]] /\ \A v \in Workspaces : Slackens(v)
  BY DEF BoxInv, Boxed, Slackens

\* A check that moves on.
LEMMA ChecksMove ==
  ASSUME Typed, NEW c \in Checks, NEW at \in {"idle", "egress", "storage"}, NEW failed, Moves(c, at, failed)
  PROVE  check' \in [Checks -> [at : {"idle", "egress", "storage"}, left : SUBSET Workspaces]]
  <1>1. Running \subseteq Workspaces
    BY DEF Running
  <1>2. PICK left \in SUBSET Workspaces : check' = [check EXCEPT ![c] = [at |-> at, left |-> left]]
    <2>1. (IF failed THEN Running ELSE {}) \in SUBSET Workspaces
      BY <1>1
    <2>. QED BY <2>1 DEF Moves
  <1>. QED BY <1>2 DEF Typed

LEMMA CheckStep == IndInv /\ HostKnown /\ (\E c \in Checks : Check(c)) => IndInv' /\ HostKnown'
  <1>. SUFFICES ASSUME IndInv, HostKnown, NEW c \in Checks, Check(c) PROVE IndInv' /\ HostKnown'
    OBVIOUS
  <1>1. /\ Typed /\ BoxInv /\ Leaving /\ Asked /\ Gated /\ \A v \in Workspaces : Current(v)
    BY InvariantParts
  <1>2. host' = host /\ limit' = limit /\ step' = step /\ HostKnown'
    BY DEF Check, HostKnown
  <1>3. CASE checkEgress(c) \/ checkStorage(c)
    <2>1. /\ ws' = ws /\ row' = row /\ request' = request /\ patch' = patch /\ stale' = stale
          /\ queue' = queue /\ up' = up
      BY <1>3 DEF checkEgress, checkStorage, control
    <2>2. enforced' \in [Guards -> BOOLEAN]
      BY <1>1, <1>3 DEF checkEgress, checkStorage, Typed, HostKnown, Guards
    <2>3. check' \in [Checks -> [at : {"idle", "egress", "storage"}, left : SUBSET Workspaces]]
      BY <1>1, <1>3, ChecksMove DEF checkEgress, checkStorage
    <2>4. ws' = [v \in Workspaces |-> ws'[v]] /\ \A v \in Workspaces : Slackens(v)
      BY <1>1, <2>1, NoneSlackens
    <2>. QED BY <1>2, <2>1, <2>2, <2>3, <2>4, BesideStep
  <1>4. CASE stopRunning(c)
    <2>1. /\ row' = row /\ request' = request /\ patch' = patch /\ stale' = stale
          /\ queue' = queue /\ up' = up /\ enforced' = enforced
      BY <1>4 DEF stopRunning, control
    <2>2. PICK w \in check[c].left :
            /\ ws' = [ws EXCEPT ![w].container = IF @ = "running" THEN "stopped" ELSE @]
            /\ check' = [check EXCEPT ![c].left = @ \ {w}]
      BY <1>4 DEF stopRunning
    <2>3. w \in Workspaces /\ check' \in [Checks -> [at : {"idle", "egress", "storage"}, left : SUBSET Workspaces]]
      BY <1>1, <2>2 DEF Typed
    <2>. DEFINE s == [ws[w] EXCEPT !.container = IF @ = "running" THEN "stopped" ELSE @]
    <2>4. ws[w] \in Boxes /\ Sound(ws[w], limit)
      BY <1>1, <2>3 DEF BoxInv, Boxed
    <2>5. /\ s \in Boxes /\ s.dir = ws[w].dir /\ s.quota = ws[w].quota /\ s.tag = ws[w].tag
          /\ s.home = ws[w].home /\ s.seeded = ws[w].seeded /\ s.network = ws[w].network
          /\ s.shape = ws[w].shape /\ s.fits = ws[w].fits /\ s.container # "running"
          /\ s.container = "none" <=> ws[w].container = "none"
      BY <2>4 DEF Boxes
    <2>6. ws' = [ws EXCEPT ![w] = s]
      BY <1>1, <2>2, <2>3 DEF BoxInv
    <2>. HIDE DEF s
    <2>7. Sound(s, limit)
      BY <2>4, <2>5 DEF Sound
    <2>8. ws' = [v \in Workspaces |-> ws'[v]] /\ \A v \in Workspaces : Slackens(v)
      BY <1>1, <2>3, <2>5, <2>6, <2>7, OneSlackens
    <2>9. enforced' \in [Guards -> BOOLEAN]
      BY <1>1, <2>1 DEF Typed
    <2>. QED BY <1>2, <2>1, <2>3, <2>8, <2>9, BesideStep
  <1>5. CASE checked(c) /\ up
    <2>1. /\ ws' = ws /\ row' = row /\ request' = request /\ patch' = patch /\ stale' = stale
          /\ queue' = queue /\ up' = up /\ enforced' = enforced
      BY <1>1, <1>5 DEF checked, control, Typed
    <2>2. enforced' \in [Guards -> BOOLEAN]
      BY <1>1, <2>1 DEF Typed
    <2>3. check' \in [Checks -> [at : {"idle", "egress", "storage"}, left : SUBSET Workspaces]]
      BY <1>1, <1>5, ChecksMove DEF checked
    <2>4. ws' = [v \in Workspaces |-> ws'[v]] /\ \A v \in Workspaces : Slackens(v)
      BY <1>1, <2>1, NoneSlackens
    <2>. QED BY <1>2, <2>1, <2>2, <2>3, <2>4, BesideStep
  <1>6. CASE checked(c) /\ ~up
    <2>1. /\ ws' = ws /\ row' = row /\ request' = request /\ patch' = patch /\ stale' = stale
          /\ enforced' = enforced /\ up' = TRUE
          /\ step = "idle" /\ \A v \in Workspaces : request[v].at = "idle" /\ (Assigned(v) => row[v].state = "RECOVERING")
      BY <1>1, <1>6 DEF checked, control, Asked
    <2>2. PICK bytes \in UNION {[W -> Limits] : W \in SUBSET Workspaces} :
            /\ queue' = <<[kind |-> "reconcile", bytes |-> bytes]>>
            /\ \A v \in DOMAIN bytes : v \in Workspaces /\ Assigned(v) /\ bytes[v] = row[v].limit
      <3>. DEFINE W == {v \in Workspaces : Assigned(v)}
                  bytes == [v \in W |-> row[v].limit]
      <3>1. bytes \in [W -> Limits] /\ W \in SUBSET Workspaces
        BY <1>1 DEF Typed
      <3>2. queue' = <<[kind |-> "reconcile", bytes |-> bytes]>>
        BY <1>6 DEF checked
      <3>3. \A v \in DOMAIN bytes : v \in Workspaces /\ Assigned(v) /\ bytes[v] = row[v].limit
        OBVIOUS
      <3>. HIDE DEF bytes
      <3>4. bytes \in UNION {[X -> Limits] : X \in SUBSET Workspaces}
        BY <3>1
      <3>. QED BY <3>2, <3>3, <3>4
    <2>. DEFINE c1 == [kind |-> "reconcile", bytes |-> bytes]
    <2>3. /\ c1 \in CommandSet /\ c1.kind = "reconcile" /\ c1.bytes = bytes /\ queue' = <<c1>>
      BY <2>2 DEF CommandSet
    <2>. HIDE DEF c1
    <2>4. queue' \in Seq(CommandSet) /\ \A i \in DOMAIN queue' : i = 1 /\ queue'[i] = c1
      BY <2>3
    <2>5. check' \in [Checks -> [at : {"idle", "egress", "storage"}, left : SUBSET Workspaces]]
      BY <1>1, <1>6, ChecksMove DEF checked
    <2>6. Typed'
      BY <1>1, <1>2, <2>1, <2>4, <2>5 DEF Typed
    <2>7. BoxInv' /\ Leaving'
      BY <1>1, <1>2, <2>1, SameLocal DEF Leaving
    <2>8. Asked'
      <3>1. \A v \in DOMAIN bytes : row'[v].state = "RECOVERING"
        BY <2>1, <2>2
      <3>2. \A v \in Workspaces : request'[v].at = "idle"
        BY <2>1
      <3>. QED BY <2>1, <2>3, <2>4, <3>1, <3>2 DEF Asked, Kinds
    <2>9. Gated'
      BY <1>2, <2>1 DEF Gated
    <2>10. ASSUME NEW v \in Workspaces PROVE Current(v)'
      <3>1. NoPatch(v)' <=> NoPatch(v)
        BY <2>1 DEF NoPatch
      <3>2. request'[v].at \notin Starting
        BY <2>1 DEF Starting
      <3>3. \A i \in DOMAIN queue' : v \in DOMAIN queue'[i].bytes => queue'[i].bytes[v] = row'[v].limit
        BY <2>1, <2>2, <2>3, <2>4
      <3>4. Current(v)
        BY <1>1
      <3>. QED BY <1>2, <2>1, <3>1, <3>2, <3>3, <3>4 DEF Current
    <2>. QED BY <1>2, <2>6, <2>7, <2>8, <2>9, <2>10, PartsMakeIt
  <1>. QED BY <1>2, <1>3, <1>4, <1>5, <1>6 DEF Check

LEMMA ToolStep ==
  IndInv /\ (\E w \in Workspaces : CopyHome(w) \/ RemoveLegacyContainer(w)) => IndInv'
  <1>. SUFFICES ASSUME IndInv, NEW w \in Workspaces, CopyHome(w) \/ RemoveLegacyContainer(w) PROVE IndInv'
    OBVIOUS
  <1>1. Typed /\ BoxInv
    BY InvariantParts
  <1>2. /\ enforced' = enforced /\ check' = check /\ up' = up /\ limit' = limit /\ row' = row
        /\ request' = request /\ patch' = patch /\ stale' = stale /\ queue' = queue /\ step' = step
    BY DEF CopyHome, RemoveLegacyContainer, control, work
  <1>3. /\ ws[w] \in Boxes /\ Sound(ws[w], limit)
        /\ ws[w].container = "stopped" /\ ws[w].shape = "legacy"
    BY <1>1 DEF CopyHome, RemoveLegacyContainer, BoxInv, Boxed
  <1>4. ws' = [v \in Workspaces |-> ws'[v]] /\ \A v \in Workspaces : Slackens(v)
    <2>1. CASE CopyHome(w)
      <3>1. PICK home \in {"partial", "copied"} : ws' = [ws EXCEPT ![w].home = home]
        BY <2>1 DEF CopyHome
      <3>. DEFINE s == [ws[w] EXCEPT !.home = home]
      <3>2. /\ s \in Boxes /\ s.dir = ws[w].dir /\ s.quota = ws[w].quota /\ s.tag = ws[w].tag
            /\ s.seeded = ws[w].seeded /\ s.network = ws[w].network
            /\ s.shape = ws[w].shape /\ s.container = ws[w].container
        BY <1>3, <3>1 DEF Boxes
      <3>3. ws' = [ws EXCEPT ![w] = s]
        BY <1>1, <3>1 DEF BoxInv
      <3>. HIDE DEF s
      <3>4. Sound(s, limit)
        BY <1>3, <3>2 DEF Sound
      <3>. QED BY <1>1, <1>3, <3>2, <3>3, <3>4, OneSlackens
    <2>2. CASE RemoveLegacyContainer(w)
      <3>1. ws' = [ws EXCEPT ![w].container = "none"] /\ ws[w].home = "copied"
        BY <2>2 DEF RemoveLegacyContainer
      <3>. DEFINE s == [ws[w] EXCEPT !.container = "none"]
      <3>2. /\ s \in Boxes /\ s.dir = ws[w].dir /\ s.quota = ws[w].quota /\ s.home = "copied"
            /\ s.container = "none"
        BY <1>3, <3>1 DEF Boxes
      <3>3. ws' = [ws EXCEPT ![w] = s]
        BY <1>1, <3>1 DEF BoxInv
      <3>. HIDE DEF s
      <3>4. Sound(s, limit)
        BY <1>3, <3>2 DEF Sound
      <3>. QED BY <1>1, <1>3, <3>2, <3>3, <3>4, OneSlackens
    <2>. QED BY <2>1, <2>2
  <1>5. /\ enforced' \in [Guards -> BOOLEAN]
        /\ check' \in [Checks -> [at : {"idle", "egress", "storage"}, left : SUBSET Workspaces]]
    BY <1>1, <1>2 DEF Typed
  <1>. QED BY <1>2, <1>4, <1>5, BesideStep

LEMMA HostStep == IndInv /\ HostKnown /\ (\E g \in Guards : Lose(g) \/ Regain(g)) => IndInv' /\ HostKnown'
  <1>. SUFFICES ASSUME IndInv, HostKnown, NEW g \in Guards, Lose(g) \/ Regain(g) PROVE IndInv' /\ HostKnown'
    OBVIOUS
  <1>1. Typed /\ BoxInv
    BY InvariantParts
  <1>2. /\ enforced' = enforced /\ check' = check /\ up' = up /\ ws' = ws /\ limit' = limit /\ row' = row
        /\ request' = request /\ patch' = patch /\ stale' = stale /\ queue' = queue /\ step' = step
    BY DEF Lose, Regain, local, control, work
  <1>3. ws' = [v \in Workspaces |-> ws'[v]] /\ \A v \in Workspaces : Slackens(v)
    BY <1>1, <1>2, NoneSlackens
  <1>4. /\ enforced' \in [Guards -> BOOLEAN]
        /\ check' \in [Checks -> [at : {"idle", "egress", "storage"}, left : SUBSET Workspaces]]
    BY <1>1, <1>2 DEF Typed
  <1>5. HostKnown'
    BY DEF HostKnown, Lose, Regain
  <1>. QED BY <1>2, <1>3, <1>4, <1>5, BesideStep

-----------------------------------------------------------------------------
(* A restart, in the middle of whatever the Worker does.                    *)

\* What the daemon leaves behind: the limit of the row, or one that is known not to be.
LEMMA RestartLeaves ==
  ASSUME IndInv, Restart
  PROVE  \/ UNCHANGED local
         \/ \E w \in Workspaces, bytes \in Limits :
              /\ \E g \in Good(w, bytes) : Reaches(w, g)
              /\ ~stale'[w] => bytes = row[w].limit
  <1>1. /\ Typed /\ BoxInv /\ Asked /\ \A v \in Workspaces : Current(v)
    BY InvariantParts
  <1>. SUFFICES ASSUME ~UNCHANGED local
                PROVE  \E w \in Workspaces, bytes \in Limits :
                         /\ \E g \in Good(w, bytes) : Reaches(w, g)
                         /\ ~stale'[w] => bytes = row[w].limit
    OBVIOUS
  <1>2. /\ up /\ queue # <<>> /\ Begun # <<>> /\ DoesSome(Command.w, Begun)
        /\ stale' = [w \in Workspaces |-> stale[w] \/ \E a \in Admins : patch[a].at = "wait" /\ patch[a].w = w]
    BY DEF Restart, Begun
  <1>3. Command.kind \in {"ensure", "delete", "set"}
    BY <1>2 DEF Begun
  <1>4. 1 \in DOMAIN queue /\ Command = queue[1]
    BY <1>1, <1>2, AtTheHead
  <1>5. CASE Command.kind = "ensure"
    <2>1. PICK w \in Workspaces, bytes \in Limits :
            w = Command.w /\ bytes = Command.bytes /\ bytes = request[w].bytes /\ request[w].at = "ensure"
      BY <1>1, <1>2, <1>5, AtTheHead DEF Kinds
    <2>2. DoesSome(w, ensureStages(w, bytes))
      BY <1>2, <1>5, <2>1 DEF Begun
    <2>3. ensureStages(w, bytes) \in Seq(Good(w, bytes))
      BY <1>1, Ensures
    <2>4. \E g \in Good(w, bytes) : Reaches(w, g)
      BY <2>2, <2>3, StagesReach
    <2>5. ~stale'[w] => bytes = row[w].limit
      BY <1>1, <1>2, <2>1 DEF Current, Starting, Early
    <2>. QED BY <2>4, <2>5
  <1>6. CASE Command.kind = "delete"
    <2>1. PICK w \in Workspaces : w = Command.w
      BY <1>1, <1>2, <1>6, AtTheHead DEF Kinds
    <2>2. PICK bytes \in Limits : bytes = row[w].limit
      BY <1>1 DEF Typed
    <2>3. DoesSome(w, deleteStages(w))
      BY <1>2, <1>6, <2>1 DEF Begun
    <2>4. deleteStages(w) \in Seq(Good(w, bytes))
      BY <1>1, Deletes
    <2>5. \E g \in Good(w, bytes) : Reaches(w, g)
      BY <2>3, <2>4, StagesReach
    <2>. QED BY <2>2, <2>5
  <1>7. CASE Command.kind = "set"
    <2>1. PICK w \in Workspaces, bytes \in Limits, a \in Admins :
            /\ w = Command.w /\ bytes = Command.bytes
            /\ patch[a] = [at |-> "wait", w |-> w, bytes |-> bytes]
      <3>1. queue[1].kind = "set" =>
              patch[queue[1].admin] = [at |-> "wait", w |-> queue[1].w, bytes |-> queue[1].bytes]
        BY <1>1, <1>4 DEF Asked
      <3>. QED BY <1>1, <1>4, <1>7, <3>1, QueueCarries
    <2>2. DoesSome(w, setDiskLimitStages(w, bytes))
      BY <1>2, <1>7, <2>1 DEF Begun
    <2>3. setDiskLimitStages(w, bytes) \in Seq(Good(w, bytes))
      BY <1>1, SetsLimit
    <2>4. \E g \in Good(w, bytes) : Reaches(w, g)
      BY <2>2, <2>3, StagesReach
    <2>5. stale'[w]
      <3>1. (stale[w] \/ \E b \in Admins : patch[b].at = "wait" /\ patch[b].w = w) = TRUE
        BY <2>1
      <3>2. stale'[w] = TRUE
        BY <1>2, <3>1
      <3>. QED BY <3>2
    <2>. QED BY <2>4, <2>5
  <1>. QED BY <1>3, <1>5, <1>6, <1>7

LEMMA RestartStep == IndInv /\ Restart => IndInv'
  <1>. SUFFICES ASSUME IndInv, Restart PROVE IndInv'
    OBVIOUS
  <1>1. /\ Typed /\ BoxInv /\ Leaving /\ Asked /\ Gated /\ \A v \in Workspaces : Current(v)
    BY InvariantParts
  <1>2. /\ up' = FALSE /\ queue' = <<>> /\ step' = "idle"
        /\ enforced' = [g \in Guards |-> FALSE]
        /\ check' = [c \in Checks |-> [at |-> "idle", left |-> {}]]
        /\ row' = [w \in Workspaces |-> IF Assigned(w) THEN [row[w] EXCEPT !.state = "RECOVERING"] ELSE row[w]]
        /\ request' = [w \in Workspaces |-> Idle]
        /\ patch' = [a \in Admins |-> IF patch[a].at = "wait" THEN Idle ELSE patch[a]]
        /\ stale' = [w \in Workspaces |-> stale[w] \/ \E a \in Admins : patch[a].at = "wait" /\ patch[a].w = w]
    BY DEF Restart
  <1>3. /\ BoxInv'
        /\ \A v \in Workspaces :
             /\ ws'[v].container = "running" /\ ws'[v].shape = "legacy" =>
                  ws[v].container = "running" /\ ws[v].shape = "legacy" /\ ws'[v].fits = ws[v].fits
             /\ ~stale'[v] /\ ws'[v].container = "running" /\ ws'[v].quota # NoQuota =>
                  \/ limit'[ws'[v].quota.project] = row[v].limit
                  \/ /\ ws[v].container = "running" /\ ws[v].quota # NoQuota
                     /\ limit'[ws'[v].quota.project] = limit[ws[v].quota.project]
    <2>1. CASE UNCHANGED local
      BY <1>1, <2>1, SameLocal DEF local
    <2>2. ASSUME NEW w \in Workspaces, NEW bytes \in Limits,
                 \E g \in Good(w, bytes) : Reaches(w, g), ~stale'[w] => bytes = row[w].limit
          PROVE  /\ BoxInv'
                 /\ \A v \in Workspaces :
                      /\ ws'[v].container = "running" /\ ws'[v].shape = "legacy" =>
                           ws[v].container = "running" /\ ws[v].shape = "legacy" /\ ws'[v].fits = ws[v].fits
                      /\ ~stale'[v] /\ ws'[v].container = "running" /\ ws'[v].quota # NoQuota =>
                           \/ limit'[ws'[v].quota.project] = row[v].limit
                           \/ /\ ws[v].container = "running" /\ ws[v].quota # NoQuota
                              /\ limit'[ws'[v].quota.project] = limit[ws[v].quota.project]
      <3>1. BoxInv' /\ Touches(w, bytes)
        BY <1>1, <2>2, Reached
      <3>. QED BY <2>2, <3>1 DEF Touches
    <2>. QED BY <2>1, <2>2, RestartLeaves
  <1>4. ASSUME NEW v \in Workspaces
        PROVE  /\ row'[v] \in [state : States, limit : Limits] /\ row'[v].limit = row[v].limit
               /\ row[v].state = "RECOVERING" => row'[v].state = "RECOVERING"
               /\ Assigned(v)' => row'[v].state = "RECOVERING"
    <2>1. row[v] \in [state : States, limit : Limits]
      BY <1>1 DEF Typed
    <2>2. CASE Assigned(v)
      <3>1. row'[v] = [row[v] EXCEPT !.state = "RECOVERING"]
        BY <1>2, <2>2
      <3>. QED BY <2>1, <3>1 DEF States
    <2>3. CASE ~Assigned(v)
      <3>1. row'[v] = row[v]
        BY <1>2, <2>3
      <3>. QED BY <2>1, <2>3, <3>1 DEF Assigned
    <2>. QED BY <2>2, <2>3
  <1>5. \A v \in Workspaces : request'[v].at = "idle" /\ request'[v] \in OtherRequests
    BY <1>2 DEF Idle, OtherRequests
  <1>6. ASSUME NEW a \in Admins
        PROVE  /\ patch'[a] \in Patches
               /\ patch'[a].at # "idle" => patch[a].at # "wait" /\ patch'[a] = patch[a]
               /\ patch[a].at # "wait" => patch'[a] = patch[a]
    <2>1. patch[a] \in Patches
      BY <1>1 DEF Typed
    <2>2. Idle \in Patches /\ Idle.at = "idle"
      BY DEF Idle, Patches
    <2>3. patch'[a] = IF patch[a].at = "wait" THEN Idle ELSE patch[a]
      BY <1>2
    <2>. QED BY <2>1, <2>2, <2>3
  <1>7. Typed'
    <2>1. row' \in [Workspaces -> [state : States, limit : Limits]]
      <3>1. row' = [v \in Workspaces |-> row'[v]]
        BY <1>2
      <3>. QED BY <1>4, <3>1
    <2>2. request' \in [Workspaces -> StartRequests \cup OtherRequests]
      <3>1. request' = [v \in Workspaces |-> request'[v]]
        BY <1>2
      <3>. QED BY <1>5, <3>1
    <2>3. patch' \in [Admins -> Patches]
      <3>1. patch' = [a \in Admins |-> patch'[a]]
        BY <1>2
      <3>. QED BY <1>6, <3>1
    <2>4. stale' \in [Workspaces -> BOOLEAN]
      <3>1. \A v \in Workspaces :
              (stale[v] \/ \E a \in Admins : patch[a].at = "wait" /\ patch[a].w = v) \in BOOLEAN
        BY <1>1 DEF Typed
      <3>. QED BY <1>2, <3>1
    <2>5. check' \in [Checks -> [at : {"idle", "egress", "storage"}, left : SUBSET Workspaces]]
      BY <1>2
    <2>6. queue' \in Seq(CommandSet)
      BY <1>2
    <2>. QED BY <1>2, <1>3, <2>1, <2>2, <2>3, <2>4, <2>5, <2>6 DEF Typed, BoxInv
  <1>8. Leaving'
    BY <1>1, <1>3, <1>4, StillLeaving
  <1>9. Asked' /\ Gated'
    <2>1. DOMAIN queue' = {}
      BY <1>2
    <2>2. \A v \in Workspaces : request'[v].at \notin Kinds
      BY <1>5 DEF Kinds
    <2>3. Asked'
      BY <1>2, <1>4, <1>5, <2>1, <2>2 DEF Asked
    <2>4. Gated'
      BY <1>2 DEF Gated
    <2>. QED BY <2>3, <2>4
  <1>10. ASSUME NEW v \in Workspaces PROVE Current(v)'
    <2>1. stale'[v] <=> stale[v] \/ \E a \in Admins : patch[a].at = "wait" /\ patch[a].w = v
      BY <1>2
    <2>2. NoPatch(v)' => NoPatch(v) \/ stale'[v]
      <3>1. ASSUME NoPatch(v)', ~stale'[v], NEW a \in Admins PROVE patch[a].at = "idle" \/ patch[a].w # v
        <4>1. CASE patch[a].at = "wait"
          BY <2>1, <3>1, <4>1
        <4>2. CASE patch[a].at # "wait"
          BY <1>6, <3>1, <4>2 DEF NoPatch
        <4>. QED BY <4>1, <4>2
      <3>. QED BY <3>1 DEF NoPatch
    <2>3. \A a \in Admins : patch'[a].at # "idle" /\ patch'[a].w = v =>
            patch[a].at # "idle" /\ patch[a].w = v /\ patch'[a].bytes = patch[a].bytes
      BY <1>6
    <2>4. DOMAIN queue' = {} /\ request'[v].at \notin Starting
      BY <1>2, <1>5 DEF Starting
    <2>5. Steady(v)
      BY <1>3, <1>4, <2>1, <2>2, <2>3, <2>4 DEF Steady
    <2>. QED BY <1>1, <1>7, <2>5, StaysCurrent
  <1>. QED BY <1>3, <1>7, <1>8, <1>9, <1>10, PartsMakeIt

-----------------------------------------------------------------------------
(* The first state, any step, and the theorems.                             *)

LEMMA InitHolds == Init => IndInv /\ HostKnown
  <1>. SUFFICES ASSUME Init PROVE IndInv /\ HostKnown
    OBVIOUS
  <1>1. /\ host = [g \in Guards |-> TRUE] /\ enforced = [g \in Guards |-> FALSE]
        /\ check = [c \in Checks |-> [at |-> "idle", left |-> {}]] /\ up = FALSE
        /\ limit = [p \in Projects |-> 0]
        /\ request = [w \in Workspaces |-> Idle] /\ patch = [a \in Admins |-> Idle]
        /\ queue = <<>> /\ step = "idle" /\ stale = [w \in Workspaces |-> FALSE]
    BY DEF Init
  <1>2. PICK first \in AtFirst :
          /\ ws = [w \in Workspaces |-> IF w \in DOMAIN first THEN Earlier(first[w]) ELSE Removed]
          /\ row = [w \in Workspaces |->
                      [state |-> IF w \notin DOMAIN first THEN "gone"
                                 ELSE IF first[w].network = "none" THEN "CREATED" ELSE "RECOVERING",
                       limit |-> DefaultLimit]]
    BY DEF Init
  <1>3. /\ Removed \in Boxes /\ Removed.quota = NoQuota /\ Removed.container = "none" /\ Removed.home = "lost"
    BY DEF Removed, Boxes
  <1>4. ASSUME NEW w \in Workspaces
        PROVE  /\ ws[w] \in Boxes /\ Sound(ws[w], limit) /\ ws[w].quota = NoQuota
               /\ row[w] \in [state : {"gone", "CREATED", "RECOVERING"}, limit : {DefaultLimit}]
               /\ ws[w].container = "running" => row[w].state = "RECOVERING"
    <2>1. row[w] \in [state : {"gone", "CREATED", "RECOVERING"}, limit : {DefaultLimit}]
      BY <1>2
    <2>2. CASE w \notin DOMAIN first \/ first[w].network = "none"
      <3>1. ws[w] = Removed
        BY <1>2, <2>2 DEF Earlier
      <3>. QED BY <1>3, <2>1, <3>1 DEF Sound
    <2>3. CASE w \in DOMAIN first /\ first[w].network # "none"
      <3>1. first[w] \in [network : {"none", "legacy", "current"}, fits : BOOLEAN]
        BY <2>3, FailClosedAssumption
      <3>2. ws[w] = [Removed EXCEPT !.dir = "managed", !.home = "empty", !.network = first[w].network,
                                    !.container = "running", !.shape = "legacy", !.fits = first[w].fits]
        BY <1>2, <2>3 DEF Earlier
      <3>3. /\ ws[w] \in Boxes /\ ws[w].dir = "managed" /\ ws[w].home = "empty"
            /\ ws[w].network = first[w].network /\ ws[w].shape = "legacy" /\ ws[w].quota = NoQuota
            /\ ws[w].container = "running"
        BY <2>3, <3>1, <3>2 DEF Removed, Boxes
      <3>4. row[w].state = "RECOVERING"
        BY <1>2, <2>3
      <3>. QED BY <2>1, <2>3, <3>3, <3>4 DEF Sound
    <2>. QED BY <2>2, <2>3
  <1>5. DefaultLimit \in Limits
    BY FailClosedAssumption
  <1>6. Typed
    <2>1. ws \in [Workspaces -> Boxes]
      <3>1. ws = [w \in Workspaces |-> ws[w]]
        BY <1>2
      <3>. QED BY <1>4, <3>1
    <2>2. row \in [Workspaces -> [state : States, limit : Limits]]
      <3>1. row = [w \in Workspaces |-> row[w]]
        BY <1>2
      <3>2. \A w \in Workspaces : row[w] \in [state : States, limit : Limits]
        BY <1>4, <1>5 DEF States
      <3>. QED BY <3>1, <3>2
    <2>3. Idle \in OtherRequests /\ Idle \in Patches
      BY DEF Idle, OtherRequests, Patches
    <2>4. queue \in Seq(CommandSet)
      BY <1>1
    <2>. QED BY <1>1, <2>1, <2>2, <2>3, <2>4 DEF Typed
  <1>7. OwnProjects /\ Boxed
    BY <1>4 DEF OwnProjects, Boxed
  <1>8. Leaving
    BY <1>4 DEF Leaving
  <1>9. DOMAIN queue = {} /\ \A w \in Workspaces : request[w].at = "idle"
    BY <1>1 DEF Idle
  <1>10. Asked
    <2>1. \A w \in Workspaces : request[w].at \notin Kinds
      BY <1>9 DEF Kinds
    <2>2. \A w \in Workspaces : Assigned(w) => row[w].state = "RECOVERING"
      BY <1>4 DEF Assigned
    <2>. QED BY <1>1, <1>9, <2>1, <2>2 DEF Asked
  <1>11. Gated
    BY <1>1 DEF Gated
  <1>12. LimitsAreCurrent
    <2>1. \A a \in Admins : patch[a].at = "idle"
      BY <1>1 DEF Idle
    <2>2. \A w \in Workspaces : request[w].at \notin Starting
      BY <1>9 DEF Starting
    <2>. QED BY <1>4, <1>9, <2>1, <2>2 DEF LimitsAreCurrent, Current
  <1>. QED BY <1>1, <1>6, <1>7, <1>8, <1>10, <1>11, <1>12 DEF IndInv, HostKnown

LEMMA NothingHappens == IndInv /\ HostKnown /\ UNCHANGED vars => IndInv' /\ HostKnown'
  <1>. SUFFICES ASSUME IndInv, HostKnown, UNCHANGED vars PROVE IndInv' /\ HostKnown'
    OBVIOUS
  <1>1. Typed /\ BoxInv
    BY InvariantParts
  <1>2. /\ host' = host /\ enforced' = enforced /\ check' = check /\ up' = up /\ ws' = ws /\ limit' = limit
        /\ row' = row /\ request' = request /\ patch' = patch /\ stale' = stale /\ queue' = queue /\ step' = step
    BY DEF vars
  <1>3. ws' = [v \in Workspaces |-> ws'[v]] /\ \A v \in Workspaces : Slackens(v)
    BY <1>1, <1>2, NoneSlackens
  <1>4. /\ enforced' \in [Guards -> BOOLEAN]
        /\ check' \in [Checks -> [at : {"idle", "egress", "storage"}, left : SUBSET Workspaces]]
    BY <1>1, <1>2 DEF Typed
  <1>5. HostKnown'
    BY <1>2 DEF HostKnown
  <1>. QED BY <1>2, <1>3, <1>4, <1>5, BesideStep

LEMMA NextStep == IndInv /\ HostKnown /\ [Next]_vars => IndInv' /\ HostKnown'
  <1>. SUFFICES ASSUME IndInv, HostKnown, [Next]_vars PROVE IndInv' /\ HostKnown'
    OBVIOUS
  <1>1. CASE \E w \in Workspaces : BeginStart(w) \/ BeginStop(w) \/ BeginDelete(w) \/ Continue(w)
    <2>1. IndInv'
      BY <1>1, BeginStartStep, BeginOtherStep, DispatchStep, FinishStep DEF Continue
    <2>2. host' = host
      BY <1>1 DEF BeginStart, BeginStop, BeginDelete, Continue
    <2>. QED BY <2>1, <2>2 DEF HostKnown
  <1>2. CASE \E a \in Admins :
               \/ DispatchLimit(a)
               \/ \E w \in Workspaces, bytes \in Limits : UpdateLimit(a, w, bytes)
    <2>1. IndInv'
      BY <1>2, DispatchLimitStep, UpdateLimitStep
    <2>2. host' = host
      BY <1>2 DEF DispatchLimit, UpdateLimit
    <2>. QED BY <2>1, <2>2 DEF HostKnown
  <1>3. CASE Heartbeat
    BY <1>3, HeartbeatStep DEF Heartbeat, HostKnown
  <1>4. CASE Commands
    <2>1. IndInv'
      BY <1>4, EnsureStep, StartStep, StartPrepareStep, StartContainerStep, StartReadyStep,
         StopStep, DeleteStep, SetDiskLimitStep, ReconcileStep DEF Commands
    <2>2. host' = host
      BY <1>4 DEF Commands, ensure, start, startPrepare, startContainer, startReady, stop, delete,
         setDiskLimit, reconcile
    <2>. QED BY <2>1, <2>2 DEF HostKnown
  <1>5. CASE \E w \in Workspaces : CopyHome(w) \/ RemoveLegacyContainer(w)
    BY <1>5, ToolStep DEF CopyHome, RemoveLegacyContainer, HostKnown
  <1>6. CASE Restart
    BY <1>6, RestartStep DEF Restart, HostKnown
  <1>7. CASE UNCHANGED vars
    BY <1>7, NothingHappens
  <1>. QED BY <1>1, <1>2, <1>3, <1>4, <1>5, <1>6, <1>7, CheckStep, HostStep DEF Next

\* Whatever was deleted, interrupted, changed or reused before, projects belong to
\* one Workspace each, no container is there before what contains it, one of an
\* earlier release is on its way out, and every limit on its way is the row's as
\* long as nothing is stale.
THEOREM FailClosedInvariant == Spec => []IndInv
  <1>1. Init => IndInv /\ HostKnown
    BY InitHolds
  <1>2. IndInv /\ HostKnown /\ [Next]_vars => (IndInv /\ HostKnown)'
    BY NextStep
  <1>. QED BY <1>1, <1>2, PTL DEF Spec

\* A command is on its way for every request that waits for one, a start under way
\* is executed, and project IDs are recorded in managed directories.
THEOREM TypeCorrect == Spec => []TypeOK
  BY FailClosedInvariant, InvariantSaysSo, PTL

\* A container that runs is contained, for any number of Workspaces: its directories
\* are of its own project, which has a limit and is nobody else's, its network is one
\* the rules match, its home is there; or it is of an earlier release, is not served,
\* and the first reconciliation will stop it.
THEOREM RunningAlwaysContained == Spec => []RunningIsContained
  BY FailClosedInvariant, InvariantSaysSo, PTL

\* The limit in force is the row's, once changes have settled without a fault or a
\* race that the rows know of.
THEOREM LimitsAlwaysSettle == Spec => []LimitsSettle
  BY FailClosedInvariant, InvariantSaysSo, PTL

=============================================================================
