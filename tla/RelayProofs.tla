----------------------------- MODULE RelayProofs -----------------------------
(* Proofs about ModelRelay, for any Workspaces, networks and connections, any *)
(* limit, and any numbers of commands and upsets.                            *)
EXTENDS ModelRelay, FiniteSetTheorems, TLAPS

-----------------------------------------------------------------------------
(* The inductive invariant.                                                 *)

Anyone == Workspaces \cup {NoWorkspace}
Lists == [Networks -> Anyone]
Boxes == {"none", "stopped", "starting", "ready", "unready", "cut"}
CommandStates ==
  [at : {"idle", "refreshing"}] \cup [at : {"start", "container", "network", "directory"}, w : Workspaces]
Requests ==
  [at : {"closed", "connecting", "streaming", "kept"}, as : Anyone, excused : BOOLEAN]
    \cup [at : {"identifying", "refreshed"}, as : {NoWorkspace}, excused : {FALSE}, via : Networks]

Typed ==
  /\ box \in [Workspaces -> Boxes] /\ network \in [Workspaces -> Networks \cup {NoNetwork}]
  /\ command \in CommandStates /\ held \subseteq Workspaces
  /\ endpoints \in Lists
  /\ refreshing \in [at : {"idle", "asking"}] \cup [at : {"listed"}, map : Lists]
  /\ active \in [Workspaces -> Nat] /\ from \in [Connections -> Workspaces]
  /\ conn \in [Connections -> Requests]
  /\ orphaned \subseteq Networks

\* No network is of two Workspaces, and what runs has one.
OwnNetworks ==
  \A v, w \in Workspaces : v # w /\ network[v] # NoNetwork => network[v] # network[w]
Attached ==
  /\ \A w \in Workspaces : Runs(w) => network[w] # NoNetwork
  /\ command.at \in {"network", "directory"} => box[command.w] = "cut"

\* What a list has for a Workspace that holds a key is its network, or was until the
\* delete that is in progress and is nobody else's yet; but for the orphaned ones.
Truthful(list) ==
  \A n \in Networks : list[n] \in held /\ n \notin orphaned =>
    \/ network[list[n]] = n
    \/ command.at = "directory" /\ command.w = list[n] /\ n \in Free
ListsAreTrue == Truthful(endpoints) /\ (refreshing.at = "listed" => Truthful(refreshing.map))

\* Whoever is known is known as who it is, or is excused.
KnownForGood ==
  \A c \in Connections : conn[c].as \notin {NoWorkspace, from[c]} => conn[c].excused

\* Every request that is being forwarded has its slot.
Serving(w) == {c \in Connections : conn[c].at \in Forwarding /\ conn[c].as = w}
SlotsAreHeld ==
  /\ \A c \in Connections : conn[c].at \in Forwarding => conn[c].as # NoWorkspace
  /\ \A w \in Workspaces :
       /\ IsFiniteSet(Serving(w)) /\ active[w] = Cardinality(Serving(w))
       /\ active[w] <= maxConcurrentPerWorkspace

IndInv ==
  Typed /\ OwnNetworks /\ Attached /\ ListsAreTrue /\ KnownForGood /\ SlotsAreHeld

-----------------------------------------------------------------------------
(* The invariant says what the property says.                               *)

LEMMA InvariantSaysSo == IndInv => KeysStayHome
  <1>. SUFFICES ASSUME IndInv PROVE KeysStayHome
    OBVIOUS
  <1>1. ASSUME NEW c \in Connections, conn[c].at \in Forwarding, conn[c].as # from[c]
        PROVE  conn[c].excused
    BY <1>1 DEF IndInv, KnownForGood, SlotsAreHeld
  <1>2. ASSUME NEW w \in Workspaces
        PROVE  /\ active[w] = Cardinality({c \in Connections : conn[c].at \in Forwarding /\ conn[c].as = w})
               /\ active[w] <= maxConcurrentPerWorkspace
    BY DEF IndInv, SlotsAreHeld, Serving
  <1>. QED BY <1>1, <1>2 DEF KeysStayHome

-----------------------------------------------------------------------------
(* Lists of the running containers.                                         *)

\* What Docker lists is true.
LEMMA DockerTellsTruth ==
  ASSUME Typed
  PROVE  /\ relayEndpoints \in Lists
         /\ \A n \in Networks : relayEndpoints[n] # NoWorkspace => network[relayEndpoints[n]] = n
  <1>1. ASSUME NEW n \in Networks
        PROVE  /\ relayEndpoints[n] \in Anyone
               /\ relayEndpoints[n] # NoWorkspace => network[relayEndpoints[n]] = n
    <2>1. CASE \E w \in Workspaces : Runs(w) /\ network[w] = n
      <3>. DEFINE w == CHOOSE w \in Workspaces : Runs(w) /\ network[w] = n
      <3>1. w \in Workspaces /\ network[w] = n
        BY <2>1
      <3>2. relayEndpoints[n] = w
        BY <2>1 DEF relayEndpoints
      <3>. QED BY <3>1, <3>2 DEF Anyone
    <2>2. CASE ~\E w \in Workspaces : Runs(w) /\ network[w] = n
      BY <2>2 DEF relayEndpoints, Anyone
    <2>. QED BY <2>1, <2>2
  <1>2. relayEndpoints = [n \in Networks |-> relayEndpoints[n]]
    BY DEF relayEndpoints
  <1>. QED BY <1>1, <1>2 DEF Lists

-----------------------------------------------------------------------------
(* Steps that leave the requests alone.                                     *)

RequestsStay == conn' = conn /\ active' = active /\ from' = from

LEMMA RequestsRemain ==
  ASSUME IndInv, RequestsStay
  PROVE  /\ KnownForGood' /\ SlotsAreHeld'
         /\ active' \in [Workspaces -> Nat] /\ from' \in [Connections -> Workspaces]
         /\ conn' \in [Connections -> Requests]
  <1>1. \A w \in Workspaces : Serving(w)' = Serving(w)
    BY DEF RequestsStay, Serving
  <1>. QED BY <1>1 DEF RequestsStay, IndInv, Typed, KnownForGood, SlotsAreHeld


-----------------------------------------------------------------------------
(* The refreshes.                                                           *)

LEMMA DockerListsKeeps == IndInv /\ DockerLists => IndInv'
  <1>. SUFFICES ASSUME IndInv, DockerLists PROVE IndInv'
    OBVIOUS
  <1>. USE DEF DockerLists, worker
  <1>1. RequestsStay
    BY DEF RequestsStay
  <1>2. /\ relayEndpoints \in Lists
        /\ \A n \in Networks : relayEndpoints[n] # NoWorkspace => network[relayEndpoints[n]] = n
    BY DockerTellsTruth DEF IndInv
  <1>3. refreshing'.at = "listed" /\ refreshing'.map = relayEndpoints
    OBVIOUS
  <1>4. Typed'
    BY <1>1, <1>2, RequestsRemain DEF Typed, IndInv
  <1>5. OwnNetworks' /\ Attached'
    BY DEF IndInv, OwnNetworks, Attached, Runs
  <1>6. Truthful(endpoints)'
    BY DEF IndInv, ListsAreTrue, Truthful, Free
  <1>7. Truthful(refreshing.map)'
    BY <1>2, <1>3, RelayAssumption DEF IndInv, Typed, Truthful
  <1>. QED BY <1>1, <1>4, <1>5, <1>6, <1>7, RequestsRemain DEF IndInv, ListsAreTrue

\* Whatever list takes effect, if it tells the truth.
LEMMA RefreshedKeeps ==
  ASSUME IndInv, NEW list \in Lists, Truthful(list), Refreshed(list)
  PROVE  IndInv'
  <1>. USE DEF Refreshed
  <1>1. Typed'
    <2>1. conn' \in [Connections -> Requests]
      <3>1. ASSUME NEW c \in Connections PROVE conn'[c] \in Requests
        <4>1. conn[c] \in Requests
          BY DEF IndInv, Typed
        <4>. QED BY <4>1 DEF Requests
      <3>. QED BY <3>1
    <2>2. command' \in CommandStates
      BY DEF IndInv, Typed, CommandStates
    <2>3. orphaned' \subseteq Networks
      BY DEF IndInv, Typed
    <2>. QED BY <2>1, <2>2, <2>3 DEF IndInv, Typed, NoRefresh
  <1>2. OwnNetworks' /\ Attached'
    BY DEF IndInv, OwnNetworks, Attached, Runs
  <1>3. Truthful(endpoints)'
    <2>. SUFFICES ASSUME NEW n \in Networks, list[n] \in held, n \notin orphaned'
                  PROVE  \/ network[list[n]] = n
                         \/ command'.at = "directory" /\ command'.w = list[n] /\ n \in Free
      BY DEF Truthful, Free
    <2>1. list[n] # NoWorkspace
      BY RelayAssumption DEF IndInv, Typed
    <2>2. CASE n \in orphaned
      BY <2>1, <2>2
    <2>3. CASE n \notin orphaned
      BY <2>3 DEF Truthful
    <2>. QED BY <2>2, <2>3
  <1>4. refreshing'.at # "listed"
    BY DEF NoRefresh
  <1>5. \A c \in Connections :
          /\ conn'[c].as = conn[c].as /\ conn'[c].excused = conn[c].excused
          /\ conn'[c].at \in Forwarding <=> conn[c].at \in Forwarding
    <2>. TAKE c \in Connections
    <2>1. conn[c] \in Requests
      BY DEF IndInv, Typed
    <2>. QED BY <2>1 DEF Requests, Forwarding
  <1>6. KnownForGood'
    BY <1>5 DEF IndInv, KnownForGood
  <1>7. \A w \in Workspaces : Serving(w)' = Serving(w)
    BY <1>5 DEF Serving
  <1>8. SlotsAreHeld'
    BY <1>5, <1>7 DEF IndInv, SlotsAreHeld
  <1>. QED BY <1>1, <1>2, <1>3, <1>4, <1>6, <1>8 DEF IndInv, ListsAreTrue

LEMMA SetEndpointsKeeps == IndInv /\ SetEndpoints => IndInv'
  <1>. SUFFICES ASSUME IndInv, SetEndpoints PROVE IndInv'
    OBVIOUS
  <1>1. PICK list : list = refreshing.map
    OBVIOUS
  <1>2. list \in Lists /\ Truthful(list) /\ Refreshed(list)
    BY <1>1 DEF SetEndpoints, IndInv, Typed, ListsAreTrue
  <1>. QED BY <1>2, RefreshedKeeps

LEMMA RefreshFailsKeeps == IndInv /\ RefreshFails => IndInv'
  <1>. SUFFICES ASSUME IndInv, RefreshFails PROVE IndInv'
    OBVIOUS
  <1>1. PICK list : list = endpoints
    OBVIOUS
  <1>2. list \in Lists /\ Truthful(list) /\ Refreshed(list)
    BY <1>1 DEF RefreshFails, IndInv, Typed, ListsAreTrue
  <1>. QED BY <1>2, RefreshedKeeps

-----------------------------------------------------------------------------
(* The commands.                                                            *)

\* What most commands leave: the lists, or one that is being asked for, the keys, and
\* where nobody's network goes what was true stays true.
Beside ==
  /\ RequestsStay /\ endpoints' = endpoints
  /\ refreshing' \in {refreshing, [at |-> "asking"]}
ListsStay ==
  /\ held' \subseteq held /\ orphaned \subseteq orphaned'
  /\ network' = network
  /\ command.at = "directory" => command' = command \/ command.w \notin held'

LEMMA ListsRemain ==
  ASSUME IndInv, Beside, ListsStay
  PROVE  ListsAreTrue'
  <1>1. Truthful(endpoints)'
    BY DEF IndInv, ListsAreTrue, Truthful, Free, Beside, ListsStay
  <1>2. ASSUME refreshing'.at = "listed" PROVE Truthful(refreshing.map)'
    <2>1. refreshing' = refreshing
      BY <1>2 DEF Beside
    <2>. QED BY <1>2, <2>1 DEF IndInv, ListsAreTrue, Truthful, Free, ListsStay
  <1>. QED BY <1>1, <1>2 DEF ListsAreTrue

LEMMA BesideTyped ==
  ASSUME IndInv, Beside
  PROVE  /\ endpoints' \in Lists
         /\ refreshing' \in [at : {"idle", "asking"}] \cup [at : {"listed"}, map : Lists]
         /\ active' \in [Workspaces -> Nat] /\ from' \in [Connections -> Workspaces]
         /\ conn' \in [Connections -> Requests]
         /\ KnownForGood' /\ SlotsAreHeld'
  BY RequestsRemain DEF Beside, IndInv, Typed

\* A step that leaves networks and the held keys that are there.
LEMMA CommandKeeps ==
  ASSUME IndInv, Beside, ListsStay,
         box' \in [Workspaces -> Boxes], command' \in CommandStates, orphaned' \subseteq Networks,
         Attached'
  PROVE  IndInv'
  <1>1. Typed'
    BY BesideTyped DEF ListsStay, IndInv, Typed
  <1>2. OwnNetworks'
    BY DEF ListsStay, IndInv, OwnNetworks
  <1>. QED BY <1>1, <1>2, BesideTyped, ListsRemain DEF IndInv

LEMMA IntervalPassesKeeps == IndInv /\ IntervalPasses => IndInv'
  <1>. SUFFICES ASSUME IndInv, IntervalPasses PROVE IndInv'
    OBVIOUS
  <1>. USE DEF IntervalPasses, worker
  <1>1. Beside /\ ListsStay
    BY DEF Beside, RequestsStay, ListsStay
  <1>2. Attached'
    BY DEF IndInv, Attached, Runs
  <1>. QED BY <1>1, <1>2, CommandKeeps DEF IndInv, Typed

LEMMA EnsureKeeps ==
  ASSUME IndInv, NEW w \in Workspaces, ensure(w)
  PROVE  IndInv'
  <1>. USE DEF ensure, map, Begins
  <1>1. Beside
    BY DEF Beside, RequestsStay
  <1>2. command.at = "idle"
    BY DEF Idle
  <1>3. box' \in [Workspaces -> Boxes] /\ box'[w] = "stopped" /\ \A v \in Workspaces \ {w} : box'[v] = box[v]
    BY DEF IndInv, Typed, Boxes
  <1>4. CASE network[w] # NoNetwork
    <2>1. Attached'
      BY <1>2, <1>3, <1>4 DEF IndInv, Attached, Runs
    <2>2. ListsStay
      BY <1>4 DEF ListsStay
    <2>. QED BY <1>1, <1>3, <2>1, <2>2, CommandKeeps DEF IndInv, Typed
  <1>5. CASE network[w] = NoNetwork
    <2>1. PICK n \in Free : network' = [network EXCEPT ![w] = n]
      BY <1>5
    <2>2. n \in Networks /\ \A v \in Workspaces : network[v] # n
      BY DEF Free
    <2>3. /\ network' \in [Workspaces -> Networks \cup {NoNetwork}] /\ network'[w] = n
          /\ \A v \in Workspaces \ {w} : network'[v] = network[v]
      BY <2>1, <2>2 DEF IndInv, Typed
    <2>4. Typed'
      BY <1>1, <1>3, <2>3, BesideTyped DEF IndInv, Typed
    <2>5. OwnNetworks'
      BY <2>2, <2>3, RelayAssumption DEF IndInv, OwnNetworks
    <2>6. Attached'
      BY <1>2, <1>3, <2>2, <2>3, RelayAssumption DEF IndInv, Attached, Runs
    <2>7. Truthful(endpoints)'
      BY <1>2, <1>5, <2>3, RelayAssumption DEF IndInv, Typed, ListsAreTrue, Truthful
    <2>8. refreshing'.at = "listed" => Truthful(refreshing.map)'
      BY <1>2, <1>5, <2>3, RelayAssumption DEF IndInv, Typed, ListsAreTrue, Truthful
    <2>. QED BY <1>1, <2>4, <2>5, <2>6, <2>7, <2>8, BesideTyped DEF IndInv, ListsAreTrue
  <1>. QED BY <1>4, <1>5

LEMMA StartKeeps ==
  ASSUME IndInv, NEW w \in Workspaces, start(w)
  PROVE  IndInv'
  <1>. USE DEF start, map, Begins
  <1>1. Beside /\ ListsStay
    BY DEF Beside, RequestsStay, ListsStay, Idle
  <1>2. box' \in [Workspaces -> Boxes] /\ command' \in CommandStates
    BY DEF IndInv, Typed, Boxes, CommandStates
  <1>3. Attached'
    BY DEF IndInv, Typed, Attached, Runs, Idle
  <1>. QED BY <1>1, <1>2, <1>3, CommandKeeps DEF IndInv, Typed

LEMMA StartReadyKeeps == IndInv /\ startReady => IndInv'
  <1>. SUFFICES ASSUME IndInv, startReady PROVE IndInv'
    OBVIOUS
  <1>. USE DEF startReady, refresh, Idle
  <1>1. Beside /\ ListsStay
    BY DEF Beside, RequestsStay, ListsStay, NoRefresh
  <1>2. box' \in [Workspaces -> Boxes] /\ command' \in CommandStates
    BY DEF IndInv, Typed, Boxes, CommandStates
  <1>3. command.w \in Workspaces
    BY DEF IndInv, Typed, CommandStates
  <1>4. Attached'
    BY <1>3 DEF IndInv, Typed, Attached, Runs
  <1>. QED BY <1>1, <1>2, <1>4, CommandKeeps DEF IndInv, Typed

LEMMA StopKeeps ==
  ASSUME IndInv, NEW w \in Workspaces, stop(w)
  PROVE  IndInv'
  <1>. USE DEF stop, Begins, refresh, Idle
  <1>1. Beside /\ ListsStay
    BY DEF Beside, RequestsStay, ListsStay, NoRefresh
  <1>2. box' \in [Workspaces -> Boxes] /\ command' \in CommandStates
    BY DEF IndInv, Typed, Boxes, CommandStates
  <1>3. Attached'
    BY DEF IndInv, Typed, Attached, Runs
  <1>. QED BY <1>1, <1>2, <1>3, CommandKeeps DEF IndInv, Typed

LEMMA ReconcileKeeps == IndInv /\ reconcile => IndInv'
  <1>. SUFFICES ASSUME IndInv, reconcile PROVE IndInv'
    OBVIOUS
  <1>. USE DEF reconcile, Begins, refresh, Idle
  <1>1. Beside /\ ListsStay
    BY DEF Beside, RequestsStay, ListsStay, NoRefresh
  <1>2. command' \in CommandStates /\ Attached'
    BY DEF IndInv, CommandStates, Attached, Runs
  <1>. QED BY <1>1, <1>2, CommandKeeps DEF IndInv, Typed

LEMMA DeleteKeeps ==
  ASSUME IndInv, NEW w \in Workspaces, delete(w)
  PROVE  IndInv'
  <1>. USE DEF delete, map, Begins, Idle
  <1>1. Beside /\ ListsStay
    BY DEF Beside, RequestsStay, ListsStay
  <1>2. command' \in CommandStates /\ Attached'
    BY DEF IndInv, CommandStates, Attached, Runs
  <1>. QED BY <1>1, <1>2, CommandKeeps DEF IndInv, Typed

LEMMA RemoveContainerKeeps == IndInv /\ removeContainer => IndInv'
  <1>. SUFFICES ASSUME IndInv, removeContainer PROVE IndInv'
    OBVIOUS
  <1>. USE DEF removeContainer, map
  <1>1. command \in [at : {"container"}, w : Workspaces]
    BY DEF IndInv, Typed, CommandStates
  <1>2. command' = [at |-> "network", w |-> command.w]
    BY <1>1
  <1>3. Beside /\ ListsStay
    BY DEF Beside, RequestsStay, ListsStay
  <1>4. box' \in [Workspaces -> Boxes] /\ command' \in CommandStates
    BY <1>1, <1>2 DEF IndInv, Typed, Boxes, CommandStates
  <1>5. Attached'
    BY <1>1, <1>2 DEF IndInv, Typed, Attached, Runs
  <1>. QED BY <1>3, <1>4, <1>5, CommandKeeps DEF IndInv, Typed

\* What the list has for the Workspace is nobody's from here on.
LEMMA RemoveNetworkKeeps == IndInv /\ removeNetwork => IndInv'
  <1>. SUFFICES ASSUME IndInv, removeNetwork PROVE IndInv'
    OBVIOUS
  <1>. USE DEF removeNetwork, map
  <1>1. command \in [at : {"network"}, w : Workspaces]
    BY DEF IndInv, Typed, CommandStates
  <1>. DEFINE w == command.w
  <1>2. w \in Workspaces /\ command' = [at |-> "directory", w |-> w]
    BY <1>1
  <1>3. Beside
    BY DEF Beside, RequestsStay
  <1>4. /\ network' \in [Workspaces -> Networks \cup {NoNetwork}] /\ network'[w] = NoNetwork
        /\ \A v \in Workspaces \ {w} : network'[v] = network[v]
    BY <1>2 DEF IndInv, Typed
  <1>5. Typed'
    BY <1>2, <1>3, <1>4, BesideTyped DEF IndInv, Typed, CommandStates
  <1>6. OwnNetworks'
    BY <1>4 DEF IndInv, OwnNetworks
  <1>7. Attached'
    BY <1>1, <1>2, <1>4 DEF IndInv, Attached, Runs
  <1>8. ASSUME NEW n \in Networks, network[w] = n PROVE n \in Free'
    <2>1. \A v \in Workspaces \ {w} : network[v] # n
      BY <1>2, <1>8, RelayAssumption DEF IndInv, OwnNetworks
    <2>. QED BY <1>4, <2>1, RelayAssumption DEF Free
  <1>. HIDE DEF w
  <1>9. Truthful(endpoints)'
    BY <1>1, <1>2, <1>4, <1>8 DEF IndInv, Typed, ListsAreTrue, Truthful
  <1>10. refreshing'.at = "listed" => Truthful(refreshing.map)'
    BY <1>1, <1>2, <1>4, <1>8 DEF IndInv, Typed, ListsAreTrue, Truthful
  <1>. QED BY <1>3, <1>5, <1>6, <1>7, <1>9, <1>10, BesideTyped DEF IndInv, ListsAreTrue

\* The key goes: what the list has for the Workspace is of no use to anybody.
LEMMA RemoveDirectoryKeeps == IndInv /\ removeDirectory => IndInv'
  <1>. SUFFICES ASSUME IndInv, removeDirectory PROVE IndInv'
    OBVIOUS
  <1>. USE DEF removeDirectory, refresh, forget
  <1>1. command \in [at : {"directory"}, w : Workspaces]
    BY DEF IndInv, Typed, CommandStates
  <1>2. Beside /\ ListsStay
    BY DEF Beside, RequestsStay, ListsStay, NoRefresh
  <1>3. box' \in [Workspaces -> Boxes] /\ command' \in CommandStates
    BY <1>1 DEF IndInv, Typed, Boxes, CommandStates
  <1>4. Attached'
    BY <1>1 DEF IndInv, Typed, Attached, Runs
  <1>. QED BY <1>2, <1>3, <1>4, CommandKeeps DEF IndInv, Typed

\* What is still listed for the Workspace is orphaned.
LEMMA DeleteFailsKeeps == IndInv /\ deleteFails => IndInv'
  <1>. SUFFICES ASSUME IndInv, deleteFails PROVE IndInv'
    OBVIOUS
  <1>. USE DEF deleteFails, map, Idle
  <1>1. Beside
    BY DEF Beside, RequestsStay
  <1>2. Typed'
    BY <1>1, BesideTyped DEF IndInv, Typed, CommandStates, Lost
  <1>3. OwnNetworks' /\ Attached'
    BY DEF IndInv, OwnNetworks, Attached, Runs
  <1>4. Truthful(endpoints)'
    BY DEF IndInv, ListsAreTrue, Truthful, Lost
  <1>5. refreshing'.at = "listed" => Truthful(refreshing.map)'
    BY DEF IndInv, ListsAreTrue, Truthful, Lost
  <1>. QED BY <1>1, <1>2, <1>3, <1>4, <1>5, BesideTyped DEF IndInv, ListsAreTrue

LEMMA SetKeyKeeps ==
  ASSUME IndInv, NEW w \in Workspaces, setKey(w)
  PROVE  IndInv'
  <1>. USE DEF setKey, map, Begins, Idle
  <1>1. Beside
    BY DEF Beside, RequestsStay
  <1>2. Typed'
    BY <1>1, BesideTyped DEF IndInv, Typed, Lost
  <1>3. OwnNetworks' /\ Attached'
    BY DEF IndInv, OwnNetworks, Attached, Runs
  <1>4. Truthful(endpoints)'
    BY DEF IndInv, ListsAreTrue, Truthful, Lost
  <1>5. refreshing'.at = "listed" => Truthful(refreshing.map)'
    BY DEF IndInv, ListsAreTrue, Truthful, Lost
  <1>. QED BY <1>1, <1>2, <1>3, <1>4, <1>5, BesideTyped DEF IndInv, ListsAreTrue

LEMMA ClearKeyKeeps ==
  ASSUME IndInv, NEW w \in Workspaces, clearKey(w)
  PROVE  IndInv'
  <1>. USE DEF clearKey, map, worker
  <1>1. Beside /\ ListsStay
    BY DEF Beside, RequestsStay, ListsStay
  <1>2. Attached'
    BY DEF IndInv, Attached, Runs
  <1>. QED BY <1>1, <1>2, CommandKeeps DEF IndInv, Typed

LEMMA ExitKeeps ==
  ASSUME IndInv, NEW w \in Workspaces, Exit(w)
  PROVE  IndInv'
  <1>. USE DEF Exit, map
  <1>1. Beside /\ ListsStay
    BY DEF Beside, RequestsStay, ListsStay
  <1>2. box' \in [Workspaces -> Boxes]
    BY DEF IndInv, Typed, Boxes
  <1>3. Attached'
    BY DEF IndInv, Typed, Attached, Runs
  <1>. QED BY <1>1, <1>2, <1>3, CommandKeeps DEF IndInv, Typed

LEMMA RestartKeeps == IndInv /\ Restart => IndInv'
  <1>. SUFFICES ASSUME IndInv, Restart PROVE IndInv'
    OBVIOUS
  <1>. USE DEF Restart, Idle, NoRefresh
  <1>1. /\ relayEndpoints \in Lists
        /\ \A n \in Networks : relayEndpoints[n] # NoWorkspace => network[relayEndpoints[n]] = n
    BY DockerTellsTruth DEF IndInv
  <1>2. held' \subseteq held
    OBVIOUS
  <1>3. Typed'
    BY <1>1, <1>2 DEF IndInv, Typed, Boxes, CommandStates, Requests, Closed, Lists, Anyone
  <1>4. OwnNetworks' /\ Attached'
    BY DEF IndInv, Typed, OwnNetworks, Attached, Runs
  <1>5. Truthful(endpoints)'
    <2>1. \A n \in Networks : endpoints'[n] # NoWorkspace => network[endpoints'[n]] = n
      BY <1>1
    <2>. QED BY <1>2, <2>1, RelayAssumption DEF IndInv, Typed, Truthful
  <1>6. KnownForGood'
    BY DEF KnownForGood, Closed
  <1>7. SlotsAreHeld'
    <2>1. \A w \in Workspaces : Serving(w)' = {}
      BY DEF Serving, Closed, Forwarding
    <2>2. \A c \in Connections : conn'[c].at \notin Forwarding
      BY DEF Closed, Forwarding
    <2>. QED BY <2>1, <2>2, FS_EmptySet, RelayAssumption DEF SlotsAreHeld
  <1>. QED BY <1>3, <1>4, <1>5, <1>6, <1>7 DEF IndInv, ListsAreTrue

-----------------------------------------------------------------------------
(* The requests.                                                            *)

\* What no request disturbs.
LEMMA WorkerRemains ==
  ASSUME IndInv, UNCHANGED <<worker, held, endpoints>>, refreshing' \in {refreshing, [at |-> "asking"]}
  PROVE  /\ OwnNetworks' /\ Attached' /\ ListsAreTrue'
         /\ box' \in [Workspaces -> Boxes] /\ network' \in [Workspaces -> Networks \cup {NoNetwork}]
         /\ command' \in CommandStates /\ held' \subseteq Workspaces
         /\ endpoints' \in Lists
         /\ refreshing' \in [at : {"idle", "asking"}] \cup [at : {"listed"}, map : Lists]
         /\ from' \in [Connections -> Workspaces] /\ orphaned' \subseteq Networks
  <1>. USE DEF worker
  <1>1. OwnNetworks' /\ Attached'
    BY DEF IndInv, OwnNetworks, Attached, Runs
  <1>2. Truthful(endpoints)'
    BY DEF IndInv, ListsAreTrue, Truthful, Free
  <1>3. ASSUME refreshing'.at = "listed" PROVE Truthful(refreshing.map)'
    <2>1. refreshing' = refreshing
      BY <1>3
    <2>. QED BY <1>3, <2>1 DEF IndInv, ListsAreTrue, Truthful, Free
  <1>. QED BY <1>1, <1>2, <1>3 DEF IndInv, Typed, ListsAreTrue

\* One connection moves: what it is known as is right or excused, and it takes or
\* gives back its slot.
LEMMA MoveKeeps ==
  ASSUME IndInv, NEW c \in Connections, NEW to \in Requests,
         UNCHANGED <<worker, held, endpoints>>, refreshing' \in {refreshing, [at |-> "asking"]},
         Moves(c, to),
         to.as \notin {NoWorkspace, from[c]} => to.excused,
         to.at \in Forwarding => to.as # NoWorkspace,
         \/ conn[c].at \notin Forwarding /\ to.at \notin Forwarding /\ active' = active
         \/ conn[c].at \in Forwarding /\ to.at \in Forwarding /\ to.as = conn[c].as /\ active' = active
         \/ /\ conn[c].at \notin Forwarding /\ to.at \in Forwarding
            /\ active[to.as] < maxConcurrentPerWorkspace
            /\ active' = [active EXCEPT ![to.as] = @ + 1]
         \/ /\ conn[c].at \in Forwarding /\ to.at \notin Forwarding
            /\ active' = [active EXCEPT ![conn[c].as] = @ - 1]
  PROVE  IndInv'
  <1>1. /\ conn' \in [Connections -> Requests] /\ conn'[c] = to
        /\ \A d \in Connections \ {c} : conn'[d] = conn[d]
    BY DEF Moves, IndInv, Typed
  <1>2. from' = from
    BY DEF worker
  <1>3. KnownForGood'
    BY <1>1, <1>2 DEF IndInv, KnownForGood
  <1>4. \A d \in Connections : conn'[d].at \in Forwarding => conn'[d].as # NoWorkspace
    BY <1>1 DEF IndInv, SlotsAreHeld
  <1>5. ASSUME NEW w \in Workspaces
        PROVE  /\ IsFiniteSet(Serving(w))' /\ active'[w] = Cardinality(Serving(w))'
               /\ active'[w] <= maxConcurrentPerWorkspace /\ active'[w] \in Nat
    <2>. DEFINE S == Serving(w)
                T == Serving(w)'
    <2>1. /\ IsFiniteSet(S) /\ active[w] = Cardinality(S) /\ active[w] <= maxConcurrentPerWorkspace
          /\ active[w] \in Nat /\ active \in [Workspaces -> Nat] /\ maxConcurrentPerWorkspace \in Nat
      BY RelayAssumption DEF IndInv, SlotsAreHeld, Typed
    <2>2. T \ {c} = S \ {c}
      BY <1>1 DEF Serving
    <2>3. c \in S <=> conn[c].at \in Forwarding /\ conn[c].as = w
      BY DEF Serving
    <2>4. c \in T <=> to.at \in Forwarding /\ to.as = w
      BY <1>1 DEF Serving
    <2>5. CASE c \in S <=> c \in T
      <3>1. T = S
        BY <2>2, <2>5
      <3>2. active'[w] = active[w]
        BY <2>1, <2>3, <2>4, <2>5
      <3>. QED BY <2>1, <3>1, <3>2
    <2>6. CASE c \notin S /\ c \in T
      <3>1. T = S \cup {c}
        BY <2>2, <2>6
      <3>2. IsFiniteSet(T) /\ Cardinality(T) = Cardinality(S) + 1
        BY <2>1, <2>6, <3>1, FS_AddElement
      <3>3. active'[w] = active[w] + 1 /\ active[w] < maxConcurrentPerWorkspace
        BY <2>1, <2>3, <2>4, <2>6
      <3>. HIDE DEF S, T
      <3>4. active'[w] = Cardinality(T) /\ active'[w] <= maxConcurrentPerWorkspace /\ active'[w] \in Nat
        BY <2>1, <3>2, <3>3
      <3>. QED BY <3>2, <3>4 DEF T
    <2>7. CASE c \in S /\ c \notin T
      <3>1. T = S \ {c}
        BY <2>2, <2>7
      <3>2. IsFiniteSet(T) /\ Cardinality(T) = Cardinality(S) - 1 /\ Cardinality(T) \in Nat
        BY <2>1, <2>7, <3>1, FS_RemoveElement, FS_CardinalityType
      <3>3. active'[w] = active[w] - 1
        BY <2>1, <2>3, <2>4, <2>7
      <3>. HIDE DEF S, T
      <3>4. active'[w] = Cardinality(T) /\ active'[w] <= maxConcurrentPerWorkspace /\ active'[w] \in Nat
        BY <2>1, <3>2, <3>3
      <3>. QED BY <3>2, <3>4 DEF T
    <2>. QED BY <2>5, <2>6, <2>7
  <1>6. SlotsAreHeld'
    BY <1>4, <1>5 DEF SlotsAreHeld
  <1>7. active' \in [Workspaces -> Nat]
    <2>1. \E f \in [Workspaces -> Int] : active' = f
      BY DEF IndInv, Typed, Requests, Anyone, SlotsAreHeld, Forwarding
    <2>. QED BY <1>5, <2>1
  <1>8. Typed'
    BY <1>1, <1>7, WorkerRemains DEF Typed
  <1>. QED BY <1>3, <1>6, <1>8, WorkerRemains DEF IndInv

\* A request is handled: forwarded for whoever it is known as.
LEMMA HandleKeeps ==
  ASSUME IndInv, NEW c \in Connections, NEW via \in Networks,
         conn[c].at \in {"closed", "kept", "refreshed"},
         UNCHANGED <<worker, held, map>>, Handle(c, known(c, via), via)
  PROVE  IndInv'
  <1>. DEFINE w == known(c, via)
  <1>1. conn[c] \in Requests /\ held \subseteq Workspaces /\ orphaned \subseteq Networks
    BY DEF IndInv, Typed
  <1>2. CASE w = NoWorkspace \/ w \notin held \/ active[w] >= maxConcurrentPerWorkspace
    <2>1. Moves(c, Closed) /\ active' = active
      BY <1>2 DEF Handle
    <2>2. Closed \in Requests
      BY DEF Closed, Requests, Anyone
    <2>. QED BY <2>1, <2>2, MoveKeeps DEF Closed, Forwarding, map
  <1>3. CASE ~(w = NoWorkspace \/ w \notin held \/ active[w] >= maxConcurrentPerWorkspace)
    <2>. DEFINE excused == conn[c].excused \/ via \in orphaned \/ via # network[from[c]]
                to == [at |-> "connecting", as |-> w, excused |-> excused]
    <2>1. w \in Workspaces /\ w \in held /\ w # NoWorkspace
      BY <1>1, <1>3
    <2>2. Moves(c, to) /\ active' = [active EXCEPT ![w] = @ + 1]
      BY <1>3 DEF Handle
    <2>3. to \in Requests
      BY <1>1, <2>1 DEF Requests, Anyone
    <2>4. active[w] < maxConcurrentPerWorkspace
      BY <1>3, <2>1, RelayAssumption DEF IndInv, Typed
    <2>5. ASSUME w # from[c] PROVE excused
      <3>1. CASE conn[c].as # NoWorkspace
        BY <2>5, <3>1 DEF known, IndInv, KnownForGood
      <3>2. CASE conn[c].as = NoWorkspace /\ via \notin orphaned /\ via = network[from[c]]
        <4>1. endpoints[via] = w
          BY <3>2 DEF known
        <4>2. network[w] = via \/ via \in Free
          BY <2>1, <3>2, <4>1 DEF IndInv, ListsAreTrue, Truthful
        <4>3. from[c] \in Workspaces /\ via # NoNetwork
          BY RelayAssumption DEF IndInv, Typed
        <4>4. network[w] # via
          BY <2>1, <2>5, <3>2, <4>3 DEF IndInv, OwnNetworks
        <4>. QED BY <3>2, <4>2, <4>3, <4>4 DEF Free
      <3>. QED BY <3>1, <3>2
    <2>. HIDE DEF w, excused
    <2>6. /\ to.as = w /\ to.at \in Forwarding /\ to.excused = excused
          /\ conn[c].at \notin Forwarding
      BY DEF Forwarding
    <2>. HIDE DEF to
    <2>. QED BY <2>1, <2>2, <2>3, <2>4, <2>5, <2>6, MoveKeeps DEF map
  <1>. QED BY <1>2, <1>3

LEMMA AskKeeps ==
  ASSUME IndInv, NEW c \in Connections, Ask(c)
  PROVE  IndInv'
  <1>. DEFINE via == network[from[c]]
  <1>1. via \in Networks
    BY DEF Ask, IndInv, Typed, Attached
  <1>2. CASE known(c, via) # NoWorkspace
    BY <1>1, <1>2, HandleKeeps DEF Ask, map
  <1>3. CASE known(c, via) = NoWorkspace
    <2>1. lookAgain(c, via) /\ active' = active /\ conn[c].at \notin Forwarding /\ UNCHANGED <<worker, held, endpoints>>
      BY <1>3 DEF Ask, Forwarding
    <2>2. CASE recent
      <3>1. Closed \in Requests
        BY DEF Closed, Requests, Anyone
      <3>. QED BY <2>1, <2>2, <3>1, MoveKeeps DEF lookAgain, Closed, Forwarding
    <2>3. CASE ~recent
      <3>. DEFINE to == [at |-> "identifying", as |-> NoWorkspace, excused |-> FALSE, via |-> via]
      <3>1. to \in Requests /\ Moves(c, to) /\ refreshing' \in {refreshing, [at |-> "asking"]}
        BY <1>1, <2>1, <2>3 DEF Requests, lookAgain, refresh
      <3>2. to.as = NoWorkspace /\ to.at \notin Forwarding
        BY DEF Forwarding
      <3>. HIDE DEF to
      <3>. QED BY <2>1, <3>1, <3>2, MoveKeeps
    <2>. QED BY <2>2, <2>3
  <1>. QED BY <1>2, <1>3

LEMMA IdentifyAgainKeeps ==
  ASSUME IndInv, NEW c \in Connections, IdentifyAgain(c)
  PROVE  IndInv'
  <1>1. conn[c].via \in Networks
    BY DEF IdentifyAgain, IndInv, Typed, Requests
  <1>2. PICK via \in Networks : via = conn[c].via
    BY <1>1
  <1>. QED BY <1>2, HandleKeeps DEF IdentifyAgain

LEMMA GatewayAnswersKeeps ==
  ASSUME IndInv, NEW c \in Connections, GatewayAnswers(c)
  PROVE  IndInv'
  <1>. DEFINE to == [conn[c] EXCEPT !.at = "streaming"]
  <1>1. conn[c] \in [at : {"connecting"}, as : Anyone, excused : BOOLEAN]
    BY DEF GatewayAnswers, IndInv, Typed, Requests
  <1>2. to \in Requests /\ to.as = conn[c].as /\ to.excused = conn[c].excused /\ to.at = "streaming"
    BY <1>1 DEF Requests
  <1>3. Moves(c, to) /\ UNCHANGED <<worker, held, endpoints, refreshing, active>>
    BY DEF GatewayAnswers, map
  <1>4. conn[c].at \in Forwarding /\ to.at \in Forwarding
    BY <1>1, <1>2 DEF Forwarding
  <1>5. /\ conn[c].as # NoWorkspace
        /\ conn[c].as # from[c] => conn[c].excused
    BY <1>4 DEF IndInv, SlotsAreHeld, KnownForGood
  <1>. HIDE DEF to
  <1>. QED BY <1>2, <1>3, <1>4, <1>5, MoveKeeps

\* It ends, and gives its slot back.
LEMMA CompleteKeeps ==
  ASSUME IndInv, NEW c \in Connections, Complete(c)
  PROVE  IndInv'
  <1>. DEFINE to == [conn[c] EXCEPT !.at = "kept"]
  <1>1. conn[c] \in [at : {"streaming"}, as : Anyone, excused : BOOLEAN]
    BY DEF Complete, IndInv, Typed, Requests
  <1>2. to \in Requests /\ to.as = conn[c].as /\ to.excused = conn[c].excused /\ to.at = "kept"
    BY <1>1 DEF Requests
  <1>3. /\ Moves(c, to) /\ UNCHANGED <<worker, held, endpoints, refreshing>>
        /\ active' = [active EXCEPT ![conn[c].as] = @ - 1]
    BY DEF Complete, map, release
  <1>4. conn[c].at \in Forwarding /\ to.at \notin Forwarding
    BY <1>1, <1>2 DEF Forwarding
  <1>5. /\ conn[c].as # NoWorkspace
        /\ conn[c].as # from[c] => conn[c].excused
    BY <1>4 DEF IndInv, SlotsAreHeld, KnownForGood
  <1>. HIDE DEF to
  <1>. QED BY <1>2, <1>3, <1>4, <1>5, MoveKeeps

LEMMA ClosedKeeps ==
  ASSUME IndInv, NEW c \in Connections, Break(c) \/ CloseIdle(c)
  PROVE  IndInv'
  <1>1. Closed \in Requests /\ Closed.at \notin Forwarding /\ Closed.as = NoWorkspace
    BY DEF Closed, Requests, Anyone, Forwarding
  <1>2. Moves(c, Closed) /\ UNCHANGED <<worker, held, endpoints, refreshing>>
    BY DEF Break, CloseIdle, map
  <1>3. CASE Break(c)
    BY <1>1, <1>2, <1>3, MoveKeeps DEF Break, release
  <1>4. CASE CloseIdle(c)
    BY <1>1, <1>2, <1>4, MoveKeeps DEF CloseIdle, Forwarding
  <1>. QED BY <1>3, <1>4

-----------------------------------------------------------------------------
(* The theorems.                                                            *)

LEMMA IndInit == Init => IndInv
  <1>. SUFFICES ASSUME Init PROVE IndInv
    OBVIOUS
  <1>. USE DEF Init
  <1>1. PICK a \in AtFirst : network = a.network /\ from = a.from
    OBVIOUS
  <1>2. /\ network \in [Workspaces -> Networks \cup {NoNetwork}] /\ from \in [Connections -> Workspaces]
        /\ \A v, w \in Workspaces : v # w /\ network[v] # NoNetwork => network[v] # network[w]
    BY <1>1, RelayAssumption
  <1>3. /\ box \in [Workspaces -> Boxes] /\ held \subseteq Workspaces
        /\ \A w \in Workspaces : Runs(w) => network[w] # NoNetwork
    BY DEF Boxes, Runs
  <1>. HIDE DEF Init
  <1>4. /\ command = [at |-> "idle"] /\ orphaned = {}
        /\ endpoints = relayEndpoints /\ refreshing = [at |-> "idle"]
        /\ active = [w \in Workspaces |-> 0] /\ conn = [c \in Connections |-> Closed]
    BY DEF Init, Idle, NoRefresh
  <1>5. /\ relayEndpoints \in Lists
        /\ \A n \in Networks : relayEndpoints[n] # NoWorkspace => network[relayEndpoints[n]] = n
    <2>1. ASSUME NEW n \in Networks
          PROVE  /\ relayEndpoints[n] \in Anyone
                 /\ relayEndpoints[n] # NoWorkspace => network[relayEndpoints[n]] = n
      BY DEF relayEndpoints, Anyone
    <2>2. relayEndpoints = [n \in Networks |-> relayEndpoints[n]]
      BY DEF relayEndpoints
    <2>. QED BY <2>1, <2>2 DEF Lists
  <1>6. Typed
    BY <1>2, <1>3, <1>4, <1>5 DEF Typed, CommandStates, Requests, Closed, Anyone
  <1>7. OwnNetworks /\ Attached
    BY <1>2, <1>3, <1>4 DEF OwnNetworks, Attached
  <1>8. ListsAreTrue
    BY <1>3, <1>4, <1>5, RelayAssumption DEF ListsAreTrue, Truthful
  <1>9. KnownForGood
    BY <1>4 DEF KnownForGood, Closed
  <1>10. SlotsAreHeld
    <2>1. \A c \in Connections : conn[c].at \notin Forwarding
      BY <1>4 DEF Closed, Forwarding
    <2>2. ASSUME NEW w \in Workspaces
          PROVE  /\ IsFiniteSet(Serving(w)) /\ active[w] = Cardinality(Serving(w))
                 /\ active[w] <= maxConcurrentPerWorkspace
      <3>1. Serving(w) = {} /\ active[w] = 0
        BY <1>4, <2>1 DEF Serving
      <3>2. 0 <= maxConcurrentPerWorkspace
        BY RelayAssumption
      <3>. QED BY <3>1, <3>2, FS_EmptySet
    <2>. QED BY <2>1, <2>2 DEF SlotsAreHeld
  <1>. QED BY <1>6, <1>7, <1>8, <1>9, <1>10 DEF IndInv

LEMMA IndNext == IndInv /\ [Next]_vars => IndInv'
  <1>. SUFFICES ASSUME IndInv, [Next]_vars PROVE IndInv'
    OBVIOUS
  <1>1. CASE DockerLists \/ SetEndpoints \/ RefreshFails \/ IntervalPasses
    BY <1>1, DockerListsKeeps, SetEndpointsKeeps, RefreshFailsKeeps, IntervalPassesKeeps
  <1>2. ASSUME NEW w \in Workspaces,
               ensure(w) \/ start(w) \/ stop(w) \/ delete(w) \/ setKey(w) \/ clearKey(w) \/ Exit(w)
        PROVE  IndInv'
    BY <1>2, EnsureKeeps, StartKeeps, StopKeeps, DeleteKeeps, SetKeyKeeps, ClearKeyKeeps, ExitKeeps
  <1>3. CASE reconcile \/ Command \/ deleteFails \/ Restart
    BY <1>3, ReconcileKeeps, StartReadyKeeps, RemoveContainerKeeps, RemoveNetworkKeeps,
       RemoveDirectoryKeeps, DeleteFailsKeeps, RestartKeeps DEF Command
  <1>4. ASSUME NEW c \in Connections,
               Ask(c) \/ IdentifyAgain(c) \/ GatewayAnswers(c) \/ Complete(c) \/ Break(c) \/ CloseIdle(c)
        PROVE  IndInv'
    BY <1>4, AskKeeps, IdentifyAgainKeeps, GatewayAnswersKeeps, CompleteKeeps, ClosedKeeps
  <1>5. CASE UNCHANGED vars
    <2>1. RequestsStay /\ UNCHANGED <<worker, held, endpoints, refreshing>>
      BY <1>5 DEF vars, map, worker, RequestsStay
    <2>. QED BY <2>1, RequestsRemain, WorkerRemains DEF IndInv, Typed
  <1>. QED BY <1>1, <1>2, <1>3, <1>4, <1>5 DEF Next

\* Whatever networks are reused and lists installed late, what the relay knows of a
\* Workspace that holds a key is true, but for what it lost by a failed delete.
THEOREM RelayInvariant == Spec => []IndInv
  BY IndInit, IndNext, PTL DEF Spec

\* A request goes out with the key of the Workspace it comes from, or is one of
\* those the property excuses, and no Workspace has more of them than it may.
THEOREM KeysAlwaysStayHome == Spec => []KeysStayHome
  BY RelayInvariant, InvariantSaysSo, PTL
=============================================================================
