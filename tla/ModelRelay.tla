----------------------------- MODULE ModelRelay -----------------------------
(* The model relay of a Worker (worker/src/model-relay/relay.ts): whose      *)
(* request it forwards with whose key, while the Worker's commands start,    *)
(* stop and delete Workspaces (daemon.ts, runtime.ts).                       *)
(*                                                                          *)
(* A Workspace is known by the two addresses of its connection, which its    *)
(* Docker network gives it: here the network stands for both.  Docker may    *)
(* give the addresses of a removed network to the next one.  Which addresses *)
(* are whose the relay has from a list of the running containers, one list   *)
(* at a time; whoever asks for one meanwhile gets that one.                  *)
(*                                                                          *)
(* Requests on other paths, with a declared body that is too large and of    *)
(* networks from before the egress rules are left out; what becomes of the   *)
(* keys themselves is ModelKeys'.                                            *)
EXTENDS Integers, FiniteSets

CONSTANTS
  Workspaces,
  Networks,       \* pairs of gateway and container addresses
  Connections,    \* connections to the relay
  AtFirst,        \* the networks there may be at first, and whose container
                  \* each connection may be opened from
  maxConcurrentPerWorkspace,
  MaxCommands,    \* bound: commands the Worker executes
  MaxUpsets,      \* bound: failures and restarts
  NoWorkspace, NoNetwork

ASSUME RelayAssumption ==
  /\ {MaxCommands, MaxUpsets} \subseteq Nat /\ maxConcurrentPerWorkspace \in Nat \ {0}
  /\ NoWorkspace \notin Workspaces /\ NoNetwork \notin Networks
  /\ AtFirst \subseteq [network : [Workspaces -> Networks \cup {NoNetwork}], from : [Connections -> Workspaces]]
  /\ \A a \in AtFirst, v, w \in Workspaces :
       v # w /\ a.network[v] # NoNetwork => a.network[v] # a.network[w]

VARIABLES
  box,         \* per Workspace: its container and directory
  network,     \* per Workspace: its Docker network
  command,     \* what the Worker executes, and how far it is
  held,        \* ModelKeyStore.#keys: Workspaces whose key the relay serves
  endpoints,   \* ModelRelay.#endpoints
  refreshing,  \* ModelRelay.#refreshing: idle, asking Docker, or what Docker said
  recent,      \* less than refreshIntervalMs since #lastRefresh
  active,      \* ModelRelay.#active
  from,        \* whose container a connection is from
  conn,        \* per connection: its request, and the Workspace it is known as
  orphaned,    \* networks known for a Workspace that lost them and has its key
  budget       \* commands and upsets left

worker == <<box, network, command, orphaned, from>>
map == <<endpoints, refreshing, recent>>
vars == <<worker, held, map, active, conn, budget>>

Spend(what) == budget[what] > 0 /\ budget' = [budget EXCEPT ![what] = @ - 1]

Runs(w) == box[w] \in {"starting", "ready", "unready"}
Forwarding == {"connecting", "streaming"}
Closed == [at |-> "closed", as |-> NoWorkspace, excused |-> FALSE]

\* relayEndpoints: the running containers by the addresses of their networks.
relayEndpoints ==
  [n \in Networks |->
     IF \E w \in Workspaces : Runs(w) /\ network[w] = n
     THEN CHOOSE w \in Workspaces : Runs(w) /\ network[w] = n ELSE NoWorkspace]

-----------------------------------------------------------------------------
(* refresh *)

\* What waited for a refresh goes on before another one or a command begins.
Settled == \A c \in Connections : conn[c].at # "refreshed"

NoRefresh == [at |-> "idle"]

\* Networks that were w's: the map has them for w, or the list that will replace it.
Lost(w) ==
  {n \in Networks \ {network[w]} :
     endpoints[n] = w \/ (refreshing.at = "listed" /\ refreshing.map[n] = w)}
refresh == refreshing' = IF refreshing = NoRefresh THEN [at |-> "asking"] ELSE refreshing

DockerLists ==
  /\ refreshing.at = "asking" /\ Settled
  /\ refreshing' = [at |-> "listed", map |-> relayEndpoints]
  /\ UNCHANGED <<worker, held, endpoints, recent, active, conn, budget>>

\* Whoever waited for it goes on.
Refreshed(known) ==
  /\ endpoints' = known /\ refreshing' = NoRefresh /\ recent' = TRUE
  /\ command' = IF command.at = "refreshing" THEN [at |-> "idle"] ELSE command
  /\ conn' = [c \in Connections |->
                IF conn[c].at = "identifying" THEN [conn[c] EXCEPT !.at = "refreshed"] ELSE conn[c]]
  /\ orphaned' = {n \in orphaned : known[n] # NoWorkspace /\ network[known[n]] # n}
  /\ UNCHANGED <<box, network, from, held, active>>

SetEndpoints == refreshing.at = "listed" /\ Refreshed(refreshing.map) /\ UNCHANGED budget
RefreshFails == refreshing.at = "asking" /\ Settled /\ Refreshed(endpoints) /\ Spend("upsets")

IntervalPasses ==
  /\ recent /\ recent' = FALSE
  /\ UNCHANGED <<worker, held, endpoints, refreshing, active, conn, budget>>

-----------------------------------------------------------------------------
(* The Worker's commands, one at a time.                                    *)

Idle == [at |-> "idle"]
Begins == command = Idle /\ Settled /\ Spend("commands")
Free == {n \in Networks : \A w \in Workspaces : network[w] # n}

ensure(w) ==
  /\ Begins /\ ~Runs(w)
  /\ box' = [box EXCEPT ![w] = "stopped"]
  /\ IF network[w] # NoNetwork THEN UNCHANGED network
     ELSE \E n \in Free : network' = [network EXCEPT ![w] = n]
  /\ UNCHANGED <<command, orphaned, from, held, map, active, conn>>

\* The container runs, and may ask, before it is ready.
start(w) ==
  /\ Begins /\ box[w] = "stopped" /\ network[w] # NoNetwork
  /\ box' = [box EXCEPT ![w] = "starting"]
  /\ command' = [at |-> "start", w |-> w]
  /\ UNCHANGED <<network, orphaned, from, held, map, active, conn>>

startReady ==
  /\ command.at = "start"
  /\ \/ /\ box[command.w] = "starting"
        /\ box' = [box EXCEPT ![command.w] = "ready"]
        /\ command' = [at |-> "refreshing"] /\ refresh /\ UNCHANGED budget
     \/ /\ box' = [box EXCEPT ![command.w] = IF @ = "starting" THEN "unready" ELSE @]
        /\ command' = Idle /\ UNCHANGED refreshing /\ Spend("upsets")
  /\ UNCHANGED <<network, orphaned, from, held, endpoints, recent, active, conn>>

stop(w) ==
  /\ Begins /\ (Runs(w) \/ box[w] = "stopped")
  /\ box' = [box EXCEPT ![w] = "stopped"]
  /\ command' = [at |-> "refreshing"] /\ refresh
  /\ UNCHANGED <<network, orphaned, from, held, endpoints, recent, active, conn>>

\* worker.reconcile lists what there is, and stops nothing that may run.
reconcile ==
  /\ Begins
  /\ command' = [at |-> "refreshing"] /\ refresh
  /\ UNCHANGED <<box, network, orphaned, from, held, endpoints, recent, active, conn>>

\* delete: the container, the network, the directory, each of which may fail.
\* A Workspace that is shown as running is stopped first.
delete(w) ==
  /\ Begins /\ box[w] \in {"stopped", "unready", "cut"}
  /\ command' = [at |-> "container", w |-> w]
  /\ UNCHANGED <<box, network, orphaned, from, held, map, active, conn>>

removeContainer ==
  /\ command.at = "container"
  /\ box' = [box EXCEPT ![command.w] = "cut"]
  /\ command' = [command EXCEPT !.at = "network"]
  /\ UNCHANGED <<network, orphaned, from, held, map, active, conn, budget>>

removeNetwork ==
  /\ command.at = "network"
  /\ network' = [network EXCEPT ![command.w] = NoNetwork]
  /\ command' = [command EXCEPT !.at = "directory"]
  /\ UNCHANGED <<box, orphaned, from, held, map, active, conn, budget>>

\* The key goes with the directory: nobody is served with it from here on.  A
\* bug would be to leave it to the clear that follows.
keepKey(w) == UNCHANGED held
forget(w) == held' = held \ {w}

removeDirectory ==
  /\ command.at = "directory"
  /\ box' = [box EXCEPT ![command.w] = "none"]
  /\ forget(command.w)
  /\ command' = [at |-> "refreshing"] /\ refresh
  /\ UNCHANGED <<network, orphaned, from, endpoints, recent, active, conn, budget>>

\* An error is the answer: what comes after it in the command is left undone.
deleteFails ==
  /\ command.at \in {"container", "network", "directory"} /\ Spend("upsets")
  /\ command' = Idle
  /\ orphaned' = orphaned \cup Lost(command.w)
  /\ UNCHANGED <<box, network, from, held, map, active, conn>>

setKey(w) ==
  /\ Begins /\ box[w] # "none" /\ w \notin held
  /\ held' = held \cup {w} /\ orphaned' = orphaned \cup Lost(w)
  /\ UNCHANGED <<box, network, command, from, map, active, conn>>
clearKey(w) ==
  /\ Begins /\ w \in held
  /\ held' = held \ {w}
  /\ UNCHANGED <<worker, map, active, conn>>

Command ==
  \/ startReady \/ removeContainer \/ removeNetwork \/ removeDirectory

\* It ends by itself, or a check stops it: nobody tells the relay.
Exit(w) ==
  /\ Runs(w) /\ Spend("upsets")
  /\ box' = [box EXCEPT ![w] = "stopped"]
  /\ UNCHANGED <<network, command, orphaned, from, held, map, active, conn>>

-----------------------------------------------------------------------------
(* Requests *)

Moves(c, to) == conn' = [conn EXCEPT ![c] = to]

\* #handle, once it is known or not known whose the request is.
known(c, via) == IF conn[c].as # NoWorkspace THEN conn[c].as ELSE endpoints[via]
Handle(c, w, via) ==
  IF w = NoWorkspace \/ w \notin held \/ active[w] >= maxConcurrentPerWorkspace
  THEN Moves(c, Closed) /\ UNCHANGED active
  ELSE /\ Moves(c, [at |-> "connecting", as |-> w,
                   excused |-> conn[c].excused \/ via \in orphaned \/ via # network[from[c]]])
       /\ active' = [active EXCEPT ![w] = @ + 1]

\* #identify: somebody unknown has the map refreshed, once per interval.  A bug
\* would be to leave that to the commands.
refuseUnknown(c, via) == Moves(c, Closed) /\ UNCHANGED refreshing
lookAgain(c, via) ==
  IF recent THEN Moves(c, Closed) /\ UNCHANGED refreshing
  ELSE Moves(c, [at |-> "identifying", as |-> NoWorkspace, excused |-> FALSE, via |-> via]) /\ refresh

\* A request, on a new connection or on one that was kept alive.
Ask(c) ==
  LET via == network[from[c]] IN
  /\ conn[c].at \in {"closed", "kept"} /\ Runs(from[c])
  /\ IF known(c, via) # NoWorkspace THEN Handle(c, known(c, via), via) /\ UNCHANGED refreshing
     ELSE lookAgain(c, via) /\ UNCHANGED active
  /\ UNCHANGED <<worker, held, endpoints, recent, budget>>

IdentifyAgain(c) ==
  /\ conn[c].at = "refreshed"
  /\ Handle(c, known(c, conn[c].via), conn[c].via)
  /\ UNCHANGED <<worker, held, map, budget>>

\* #forward: the gateway answers, or its end is reached, or either side goes
\* away, falls silent for too long or sends too much.  Each request gives its
\* slot back once.
release(w) == active' = [active EXCEPT ![w] = @ - 1]
GatewayAnswers(c) ==
  /\ conn[c].at = "connecting"
  /\ Moves(c, [conn[c] EXCEPT !.at = "streaming"])
  /\ UNCHANGED <<worker, held, map, active, budget>>
Complete(c) ==
  /\ conn[c].at = "streaming"
  /\ release(conn[c].as)
  /\ Moves(c, [conn[c] EXCEPT !.at = "kept"])
  /\ UNCHANGED <<worker, held, map, budget>>
Break(c) ==
  /\ conn[c].at \in Forwarding
  /\ release(conn[c].as)
  /\ Moves(c, Closed)
  /\ UNCHANGED <<worker, held, map, budget>>

\* Kept alive for a while, or its container has gone.
CloseIdle(c) ==
  /\ conn[c].at = "kept"
  /\ Moves(c, Closed)
  /\ UNCHANGED <<worker, held, map, active, budget>>

-----------------------------------------------------------------------------
(* The daemon dies and starts again: keys from their files, of which a      *)
(* delete that failed may have removed its own, and the map from a list.    *)
Restart ==
  /\ Spend("upsets")
  /\ command' = Idle
  /\ \E lost \in SUBSET {w \in held : box[w] = "cut" /\ network[w] = NoNetwork} : held' = held \ lost
  /\ endpoints' \in {relayEndpoints, [n \in Networks |-> NoWorkspace]}
  /\ refreshing' = NoRefresh /\ recent' = TRUE
  /\ active' = [w \in Workspaces |-> 0] /\ conn' = [c \in Connections |-> Closed]
  /\ box' = [w \in Workspaces |-> IF box[w] = "starting" THEN "unready" ELSE box[w]]
  /\ orphaned' = {}
  /\ UNCHANGED <<network, from>>

-----------------------------------------------------------------------------
\* A Worker with some Workspaces, running with their keys or not there yet.
Init ==
  /\ \E a \in AtFirst : network = a.network /\ from = a.from
  /\ box = [w \in Workspaces |-> IF network[w] = NoNetwork THEN "none" ELSE "ready"]
  /\ command = Idle /\ orphaned = {}
  /\ held = {w \in Workspaces : box[w] = "ready"}
  /\ endpoints = relayEndpoints /\ refreshing = NoRefresh /\ recent = TRUE
  /\ active = [w \in Workspaces |-> 0] /\ conn = [c \in Connections |-> Closed]
  /\ budget = [commands |-> MaxCommands, upsets |-> MaxUpsets]

Next ==
  \/ DockerLists \/ SetEndpoints \/ RefreshFails \/ IntervalPasses
  \/ \E w \in Workspaces :
       ensure(w) \/ start(w) \/ stop(w) \/ delete(w) \/ setKey(w) \/ clearKey(w) \/ Exit(w)
  \/ reconcile \/ Command \/ deleteFails \/ Restart
  \/ \E c \in Connections :
       \/ Ask(c) \/ IdentifyAgain(c) \/ GatewayAnswers(c) \/ Complete(c) \/ Break(c) \/ CloseIdle(c)

\* Docker answers, commands and requests go on, time passes, every request has
\* timers that end it, and Workspaces keep asking.
Fairness ==
  /\ WF_vars(DockerLists) /\ WF_vars(SetEndpoints) /\ WF_vars(IntervalPasses) /\ WF_vars(Command)
  /\ \A c \in Connections : WF_vars(Ask(c)) /\ WF_vars(IdentifyAgain(c)) /\ WF_vars(Break(c))

Spec == Init /\ [][Next]_vars /\ Fairness

-----------------------------------------------------------------------------
\* A request is forwarded with the key of the Workspace it comes from, and no
\* Workspace has more of them than it may, whatever networks are reused and
\* whatever list the map is from ("identifies the Workspace from the TCP
\* connection itself", relay.ts).  Left out are the networks of deletes that
\* failed with the directory still to be removed, and of Workspaces deleted and
\* given a key again, for as long as the map, or a list made before the delete
\* and installed after it, has them for the one that lost them; and requests
\* that wait for a list while their own Workspace is deleted, which nobody
\* reads the answer of.
KeysStayHome ==
  /\ \A c \in Connections :
       conn[c].at \in Forwarding /\ conn[c].as # from[c] => conn[c].excused
  /\ \A w \in Workspaces :
       /\ active[w] = Cardinality({c \in Connections : conn[c].at \in Forwarding /\ conn[c].as = w})
       /\ active[w] <= maxConcurrentPerWorkspace

\* A Workspace that has been started, holds a key and keeps asking is served
\* again and again, even if the list it should be in was made before it ran.
\* Not so one whose addresses the map has for another Workspace: nobody asks for
\* another list then.
Recognisable(w) == box[w] = "ready" /\ w \in held /\ endpoints[network[w]] \in {w, NoWorkspace}
RunningIsServed ==
  \A w \in Workspaces :
    <>[](Recognisable(w) /\ \E c \in Connections : from[c] = w) => []<>(\E c \in Connections : from[c] = w /\ conn[c].at \in Forwarding)
=============================================================================
