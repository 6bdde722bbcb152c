------------------------------ MODULE ModelKeys ------------------------------
(***************************************************************************)
(* The virtual keys of one Workspace at the model gateway: issue, delivery *)
(* to the Worker, revocation, reconciliation.                              *)
(*                                                                         *)
(* A key exists in three places that change independently: a row of        *)
(* model_keys, the gateway, and the Worker's key store.  The Control Plane *)
(* moves it with three kinds of activity that interleave at every await:   *)
(* calls of ensureWorkspaceKey, one maintenance pass at a time, and the    *)
(* reconciliation after a Worker's hello (key-manager.ts); administrators  *)
(* and deletions change the row under them through triggers.               *)
(*                                                                         *)
(* Abstractions.                                                           *)
(*  - A key is its alias arw-<workspace>-<n>, here n: ensureWorkspaceKey   *)
(*    is followed by the alias it reserved.                                *)
(*  - Every SQL statement or transaction is one step, and so is every      *)
(*    stretch of code between two awaits.  The locks of beginModelKeyIssue *)
(*    (the owner and the Workspace FOR SHARE) make its transaction one     *)
(*    step with respect to the disable and the delete it must exclude.     *)
(*  - The Worker executes commands one at a time, connected or not.  Its   *)
(*    answer arrives in the same step; a caller that stopped waiting just  *)
(*    before is a caller whose answer was lost.  The key file is written   *)
(*    before the memory and removed after it, so a restarted Worker holds  *)
(*    what it held, give or take the command it was executing: a restart   *)
(*    is a lost connection that loses the commands not executed.           *)
(*  - kick() starts a pass unless one is running, in which case it is      *)
(*    ignored: an early tick of the timer, so it is no step of its own.    *)
(*    The second pass after rotate is another tick as well.                *)
(*  - One reconciliation runs at a time: one that a lost connection finds  *)
(*    past its last command is two steps from its end.                     *)
(*  - Budgets, usage, audit rows and failing SQL statements are left out.  *)
(*  - The Worker has its relay enabled.                                    *)
(*  - Adverse events are limited in number by MaxUpsets, what others do to *)
(*    the rows by MaxChanges, the aliases by MaxKeys, all by MaxEvents.    *)
(***************************************************************************)
EXTENDS Integers, Sequences, FiniteSets

CONSTANTS
  MaxKeys,      \* how many keys the Workspace is ever issued
  MaxUpsets,    \* how many timeouts, failures, lost connections and restarts
  MaxChanges,   \* how many acts of users, administrators and deletions
  MaxEvents     \* how many of all these together

ASSUME ModelKeysAssumption == {MaxKeys, MaxUpsets, MaxChanges, MaxEvents} \subseteq Nat

VARIABLES
  keys,      \* model_keys.status by alias; "none": no row
  ripe,      \* issuing rows older than ISSUE_STALE_MS, revoking rows due now
  ws,        \* the Workspace; "erased": its directory is gone, its row is not
  active,    \* users.status = 'active' for its owner
  enabled,   \* workers.enabled for its Worker
  link,      \* the control connection; "greeted": not reconciled yet
  gateway,   \* keys that exist at the model gateway
  creating,  \* /key/generate requests the gateway has not decided yet
  sent,      \* keys whose secret has left the Control Plane
  held,      \* the key the Worker serves and has on disk
  queue,     \* commands on their way to the Worker or in its command queue
  issuer,    \* the call of ensureWorkspaceKey that reserved the alias
  pass,      \* the maintenance pass
  rec,       \* the reconciliation of the Worker
  upsets,    \* adverse events so far
  changes    \* acts of others so far

world == <<ws, active, enabled, changes>>
vars == <<keys, ripe, ws, active, enabled, link, gateway, creating, sent, held,
          queue, issuer, pass, rec, upsets, changes>>

Keys == 1..MaxKeys
NoKey == 0

Pass == [at : {"idle", "expire", "next", "wait", "delete", "record", "need", "ensure", "issue"},
         list : SUBSET Keys, key : Keys \cup {NoKey}, down : BOOLEAN]
NoPass == [at |-> "idle", list |-> {}, key |-> NoKey, down |-> FALSE]

Rec == [at : {"idle", "asked", "compare", "clear", "lost"},
        held : Keys \cup {NoKey}, lost : Keys \cup {NoKey}]
NoRec == [at |-> "idle", held |-> NoKey, lost |-> NoKey]

\* by: who waits for the answer, if anybody still does.
Command == [do : {"set", "clear", "report"}, key : Keys \cup {NoKey},
            by : {"issuer", "pass", "rec", "nobody"}]

TypeOK ==
  /\ keys \in [Keys -> {"none", "issuing", "active", "revoking", "revoked"}]
  /\ ripe \in SUBSET Keys
  /\ ws \in {"kept", "deleting", "erased", "deleted"}
  /\ active \in BOOLEAN /\ enabled \in BOOLEAN
  /\ link \in {"down", "greeted", "up"}
  /\ gateway \in SUBSET Keys /\ creating \in SUBSET Keys /\ sent \in SUBSET Keys
  /\ held \in Keys \cup {NoKey}
  /\ queue \in Seq(Command)
  /\ issuer \in [Keys -> {"none", "generating", "activated", "setting", "undelivered"}]
  /\ pass \in Pass
  /\ rec \in Rec
  /\ upsets \in 0..MaxUpsets /\ changes \in 0..MaxChanges

Init ==
  /\ keys = [k \in Keys |-> "none"] /\ ripe = {}
  /\ ws = "kept" /\ active = TRUE /\ enabled = TRUE /\ link = "up"
  /\ gateway = {} /\ creating = {} /\ sent = {} /\ held = NoKey /\ queue = <<>>
  /\ issuer = [k \in Keys |-> "none"] /\ pass = NoPass /\ rec = NoRec
  /\ upsets = 0 /\ changes = 0

Connected == link # "down"

\* One more key, upset or change: the bounds spend their events from one budget.
Within == Cardinality({k \in Keys : keys[k] # "none"}) + upsets + changes < MaxEvents
Upset == upsets < MaxUpsets /\ Within /\ upsets' = upsets + 1

Live(k) == keys[k] \in {"issuing", "active"}
ActiveKeys == {k \in Keys : keys[k] = "active"}

\* Live rows among S become revoking and due at once; others are left alone.
RequestModelKeyRevoke(S) ==
  /\ keys' = [k \in Keys |-> IF k \in S /\ Live(k) THEN "revoking" ELSE keys[k]]
  /\ ripe' = ripe \cup {k \in S : Live(k)}

Send(do, key, by) == queue' = Append(queue, [do |-> do, key |-> key, by |-> by])

-----------------------------------------------------------------------------
(* ensureWorkspaceKey.                                                     *)

\* What beginModelKeyIssue finds in its transaction when it reserves an alias.
Issuable ==
  /\ active
  /\ ws = "kept"
  /\ \A k \in Keys : ~Live(k)

NextAlias(k) == Within /\ keys[k] = "none" /\ \A j \in 1..(k-1) : keys[j] # "none"

\* The request to the gateway follows; one that is never sent is one that the
\* gateway has not decided when the call fails.
BeginModelKeyIssue(k) ==
  /\ Issuable
  /\ NextAlias(k)
  /\ keys' = [keys EXCEPT ![k] = "issuing"]
  /\ issuer' = [issuer EXCEPT ![k] = "generating"]
  /\ creating' = creating \cup {k}

\* The start request issues a key after the Worker ensured the directory.
StartIssuesKey(k) ==
  /\ BeginModelKeyIssue(k)
  /\ UNCHANGED <<ripe, world, link, gateway, sent, held, queue, pass, rec, upsets>>

\* The gateway, at its own pace: whether or not anybody still waits for it.
GatewayCreates(k) ==
  /\ k \in creating
  /\ creating' = creating \ {k}
  /\ gateway' = gateway \cup {k}
  /\ UNCHANGED <<keys, ripe, world, link, sent, held, queue, issuer, pass, rec, upsets>>

\* ensureUser or generateKey throws: refused, unusable, or not answered in time.
IssueFails(k) ==
  /\ issuer[k] = "generating"
  /\ Upset
  /\ creating' \in {creating, creating \ {k}}
  /\ pass' = IF pass.at = "issue" /\ pass.key = k THEN [pass EXCEPT !.down = TRUE] ELSE pass
  /\ RequestModelKeyRevoke({k})
  /\ issuer' = [issuer EXCEPT ![k] = "none"]
  /\ UNCHANGED <<world, link, gateway, sent, held, queue, rec>>

\* Mutant: the key is delivered even when its row could not be activated.
DeliverRevokedKey(k) ==
  /\ issuer[k] = "generating" /\ k \notin creating
  /\ keys' = IF keys[k] = "issuing" THEN [keys EXCEPT ![k] = "active"] ELSE keys
  /\ issuer' = [issuer EXCEPT ![k] = "activated"]
  /\ UNCHANGED <<ripe, world, link, gateway, creating, sent, held, queue, pass, rec, upsets>>

ActivateModelKey(k) ==
  /\ issuer[k] = "generating" /\ k \notin creating
  /\ IF keys[k] = "issuing"
     THEN /\ keys' = [keys EXCEPT ![k] = "active"]
          /\ issuer' = [issuer EXCEPT ![k] = "activated"]
     ELSE /\ issuer' = [issuer EXCEPT ![k] = "none"]
          /\ UNCHANGED keys
  /\ UNCHANGED <<ripe, world, link, gateway, creating, sent, held, queue, pass, rec, upsets>>

DeliverKey(k) ==
  /\ issuer[k] = "activated"
  /\ IF Connected
     THEN /\ Send("set", k, "issuer")
          /\ sent' = sent \cup {k}
          /\ issuer' = [issuer EXCEPT ![k] = "setting"]
          /\ UNCHANGED <<keys, ripe>>
     ELSE /\ RequestModelKeyRevoke({k})
          /\ issuer' = [issuer EXCEPT ![k] = "none"]
          /\ UNCHANGED <<queue, sent>>
  /\ UNCHANGED <<world, link, gateway, creating, held, pass, rec, upsets>>

RevokeUndelivered(k) ==
  /\ issuer[k] = "undelivered"
  /\ RequestModelKeyRevoke({k})
  /\ issuer' = [issuer EXCEPT ![k] = "none"]
  /\ UNCHANGED <<world, link, gateway, creating, sent, held, queue, pass, rec, upsets>>

-----------------------------------------------------------------------------
(* The maintenance pass.                                                   *)

PassOnly == UNCHANGED <<world, link, gateway, creating, sent, held, rec, upsets>>

\* Mutant: an inner join with workspaces loses the keys of deleted ones.
DueRevocationsOfWorkspaces(status, due) ==
  IF ws = "deleted" THEN {} ELSE {k \in due : status[k] = "revoking"}

\* listDueModelKeyRevocations.
DueRevocations(status, due) == {k \in due : status[k] = "revoking"}

\* Every 30 seconds, or sooner after a kick: which issues look interrupted?
BeginPass ==
  /\ pass.at = "idle"
  /\ LET stale == {k \in ripe : keys[k] = "issuing"} IN
     pass' = IF stale = {} THEN [NoPass EXCEPT !.at = "next", !.list = DueRevocations(keys, ripe)]
                           ELSE [NoPass EXCEPT !.at = "expire", !.list = stale]
  /\ PassOnly /\ UNCHANGED <<keys, ripe, queue, issuer>>

\* Those rows are revoked whatever they have become, then the due ones listed.
ExpireStaleModelKeyIssues ==
  /\ pass.at = "expire"
  /\ RequestModelKeyRevoke(pass.list)
  /\ pass' = [pass EXCEPT !.at = "next", !.list = DueRevocations(keys', ripe')]
  /\ PassOnly /\ UNCHANGED <<queue, issuer>>

\* The Worker is told first, if it can be; its answer does not matter.
RevokeNext(k) ==
  /\ pass.at = "next" /\ k \in pass.list
  /\ \/ /\ ws # "deleted" /\ Connected
        /\ Send("clear", k, "pass")
        /\ pass' = [pass EXCEPT !.at = "wait", !.key = k, !.list = @ \ {k}]
     \/ /\ ws = "deleted" \/ ~Connected
        /\ pass' = [pass EXCEPT !.at = "delete", !.key = k, !.list = @ \ {k}]
        /\ UNCHANGED queue
  /\ PassOnly /\ UNCHANGED <<keys, ripe, issuer>>

\* 200, or 404 for an alias the gateway does not know.
GatewayDeletes ==
  /\ pass.at = "delete"
  /\ gateway' = gateway \ {pass.key}
  /\ pass' = [pass EXCEPT !.at = "record"]
  /\ UNCHANGED <<keys, ripe, world, link, creating, sent, held, queue, issuer, rec, upsets>>

\* recordModelKeyRevokeResult for a confirmed deletion ...
RecordRevoked ==
  /\ pass.at = "record"
  /\ keys' = IF keys[pass.key] = "revoking" THEN [keys EXCEPT ![pass.key] = "revoked"] ELSE keys
  /\ ripe' = ripe \ {pass.key}
  /\ pass' = [pass EXCEPT !.at = "next", !.key = NoKey]
  /\ PassOnly /\ UNCHANGED <<queue, issuer>>

\* Mutant: a failed deletion ends the revocation.
DeleteFailureIsFinal ==
  /\ pass.at = "delete"
  /\ Upset
  /\ keys' = [keys EXCEPT ![pass.key] = "failed"]
  /\ ripe' = ripe \ {pass.key}
  /\ pass' = [pass EXCEPT !.at = "next", !.key = NoKey]
  /\ UNCHANGED <<gateway, world, link, creating, sent, held, queue, issuer, rec>>

\* ... and for a failed one, whose effect at the gateway is anybody's guess.
DeleteFails ==
  /\ pass.at = "delete"
  /\ Upset
  /\ gateway' \in {gateway, gateway \ {pass.key}}
  /\ ripe' = ripe \ {pass.key}
  /\ \E down \in BOOLEAN :
       pass' = [pass EXCEPT !.at = "next", !.key = NoKey, !.down = @ \/ down]
  /\ UNCHANGED <<keys, world, link, creating, sent, held, queue, issuer, rec>>

\* listWorkspacesNeedingModelKey, unless the gateway was unreachable.  The list
\* has the Workspace only if it is RUNNING and the Worker ONLINE, which it need
\* not be.
FinishRevocations ==
  /\ pass.at = "next" /\ pass.list = {}
  /\ \/ /\ ~pass.down
        /\ ws = "kept" /\ active /\ enabled /\ \A k \in Keys : ~Live(k)
        /\ pass' = [NoPass EXCEPT !.at = "ensure"]
     \/ pass' = NoPass
  /\ PassOnly /\ UNCHANGED <<keys, ripe, queue, issuer>>

\* The list may be out of date by now: beginModelKeyIssue looks again.
PassIssuesKey(k) ==
  /\ pass.at = "ensure" /\ Connected
  /\ BeginModelKeyIssue(k)
  /\ pass' = [pass EXCEPT !.at = "issue", !.key = k]
  /\ UNCHANGED <<ripe, world, link, gateway, sent, held, queue, rec, upsets>>

EndPass ==
  /\ \/ pass.at = "ensure" /\ (~Connected \/ \A k \in Keys : ~(Issuable /\ NextAlias(k)))
     \/ pass.at = "issue" /\ issuer[pass.key] = "none"
  /\ pass' = NoPass
  /\ PassOnly /\ UNCHANGED <<keys, ripe, queue, issuer>>

\* ISSUE_STALE_MS after the insert, or the backoff after a failed deletion.
TimePasses(k) ==
  /\ k \notin ripe /\ keys[k] \in {"issuing", "revoking"}
  /\ ripe' = ripe \cup {k}
  /\ UNCHANGED <<keys, world, link, gateway, creating, sent, held, queue, issuer, pass, rec, upsets>>

-----------------------------------------------------------------------------
(* reconcileWorker, once per hello.                                        *)

RecOnly == UNCHANGED <<world, gateway, creating, sent, held, issuer, pass, upsets>>

AskForHoldings ==
  /\ link = "greeted" /\ rec.at = "idle"
  /\ link' = "up"
  /\ Send("report", NoKey, "rec")
  /\ rec' = [NoRec EXCEPT !.at = "asked"]
  /\ RecOnly /\ UNCHANGED <<keys, ripe>>

\* listActiveModelKeysForWorker: at most one row, none once the Workspace is gone.
Expected == IF ws = "deleted" \/ ActiveKeys = {} THEN NoKey ELSE CHOOSE k \in ActiveKeys : TRUE

\* What it holds and should not is cleared first; what it has lost is revoked then.
CompareHoldings ==
  /\ rec.at = "compare"
  /\ LET lost == IF Expected = rec.held THEN NoKey ELSE Expected IN
     IF rec.held \notin {NoKey, Expected} /\ Connected
     THEN /\ Send("clear", rec.held, "rec")
          /\ rec' = [NoRec EXCEPT !.at = "clear", !.lost = lost]
     ELSE /\ rec' = IF lost = NoKey THEN NoRec ELSE [NoRec EXCEPT !.at = "lost", !.lost = lost]
          /\ UNCHANGED queue
  /\ RecOnly /\ UNCHANGED <<keys, ripe, link>>

RevokeLost ==
  /\ rec.at = "lost"
  /\ RequestModelKeyRevoke({rec.lost} \ {NoKey})
  /\ rec' = NoRec
  /\ RecOnly /\ UNCHANGED <<link, queue>>

-----------------------------------------------------------------------------
(* The Worker's key store.                                                 *)

WorkerOnly == UNCHANGED <<keys, ripe, world, link, gateway, creating, sent, upsets>>

\* dispatch rejects: its caller goes on as after a negative answer.
IssuerUnanswered(k) == IF issuer[k] = "setting" THEN "undelivered" ELSE issuer[k]
PassUnanswered == IF pass.at = "wait" THEN [pass EXCEPT !.at = "delete"] ELSE pass
RecUnanswered ==
  CASE rec.at = "asked" -> NoRec
    [] rec.at = "clear" -> [rec EXCEPT !.at = "lost"]
    [] OTHER -> rec

HasDirectory == ws \notin {"erased", "deleted"}

\* The Control Plane drops what a revoked Worker says, and closes its connection.
SetKey ==
  /\ queue # <<>> /\ Head(queue).do = "set"
  /\ queue' = Tail(queue)
  /\ held' = IF HasDirectory THEN Head(queue).key ELSE held
  /\ issuer' = IF Head(queue).by = "issuer"
               THEN [issuer EXCEPT ![Head(queue).key] =
                       IF HasDirectory /\ enabled THEN "none" ELSE "undelivered"]
               ELSE issuer
  /\ WorkerOnly /\ UNCHANGED <<pass, rec>>

\* Mutant: whatever the Workspace holds is cleared.
ClearedBlindly(key) == NoKey

\* Only the named key is cleared.
Cleared(key) == IF held = key THEN NoKey ELSE held

\* What a clear answers does not matter to those who send it.
ClearKey ==
  /\ queue # <<>> /\ Head(queue).do = "clear"
  /\ queue' = Tail(queue)
  /\ held' = Cleared(Head(queue).key)
  /\ pass' = IF Head(queue).by = "pass" THEN PassUnanswered ELSE pass
  /\ rec' = IF Head(queue).by = "rec" THEN RecUnanswered ELSE rec
  /\ WorkerOnly /\ UNCHANGED issuer

ReportHoldings ==
  /\ queue # <<>> /\ Head(queue).do = "report"
  /\ queue' = Tail(queue)
  /\ rec' = IF Head(queue).by # "rec" THEN rec
            ELSE IF enabled THEN [rec EXCEPT !.at = "compare", !.held = held]
            ELSE RecUnanswered
  /\ WorkerOnly /\ UNCHANGED <<held, issuer, pass>>

-----------------------------------------------------------------------------
(* Connections, timeouts, restarts.                                        *)

CommandTimesOut(n) ==
  /\ queue[n].by # "nobody"
  /\ Upset
  /\ queue' = [queue EXCEPT ![n].by = "nobody"]
  /\ issuer' = IF queue[n].by = "issuer" THEN [issuer EXCEPT ![queue[n].key] = "undelivered"] ELSE issuer
  /\ pass' = IF queue[n].by = "pass" THEN PassUnanswered ELSE pass
  /\ rec' = IF queue[n].by = "rec" THEN RecUnanswered ELSE rec
  /\ UNCHANGED <<keys, ripe, world, link, gateway, creating, sent, held>>

\* Some of the commands have reached the Worker, which will execute them.
SomeArrive ==
  \E n \in 0..Len(queue) :
    queue' = [m \in 1..n |-> [queue[m] EXCEPT !.by = "nobody"]]

\* A revoked Worker is cut off when it speaks, or by the next sweep.
Disconnect ==
  /\ Connected
  /\ IF enabled THEN Upset ELSE UNCHANGED upsets
  /\ link' = "down"
  /\ SomeArrive
  /\ issuer' = [k \in Keys |-> IssuerUnanswered(k)]
  /\ pass' = PassUnanswered /\ rec' = RecUnanswered
  /\ UNCHANGED <<keys, ripe, world, gateway, creating, sent, held>>

Connect ==
  /\ ~Connected /\ enabled
  /\ link' = "greeted"
  /\ UNCHANGED <<keys, ripe, world, gateway, creating, sent, held, queue, issuer, pass, rec, upsets>>

\* Whatever was in progress is gone; requests that reached the gateway are not.
ControlPlaneRestarts ==
  /\ Upset
  /\ link' = "down"
  /\ SomeArrive
  /\ issuer' = [k \in Keys |-> "none"] /\ pass' = NoPass /\ rec' = NoRec
  /\ creating' \in SUBSET creating
  /\ UNCHANGED <<keys, ripe, world, gateway, sent, held>>

-----------------------------------------------------------------------------
(* What others do to the rows the keys depend on.                          *)

\* What completes or undoes a counted change is not counted.
Change == changes < MaxChanges /\ Within /\ changes' = changes + 1
WorldOnly == UNCHANGED <<link, gateway, creating, sent, queue, issuer, pass, rec, upsets>>

\* Mutant: the key is left to the trigger on the row's deletion.
BeginDeleteKeepsKeys ==
  /\ ws = "kept"
  /\ ws' = "deleting"
  /\ Change /\ WorldOnly /\ UNCHANGED <<keys, ripe, active, enabled, held>>

BeginWorkspaceDelete ==
  /\ ws = "kept"
  /\ ws' = "deleting"
  /\ RequestModelKeyRevoke(Keys)
  /\ Change /\ WorldOnly /\ UNCHANGED <<active, enabled, held>>

\* The Worker deletes the directory, key file included, and forgets the key.
WorkerErases ==
  /\ ws = "deleting"
  /\ ws' = "erased"
  /\ held' = NoKey
  /\ WorldOnly /\ UNCHANGED <<changes, keys, ripe, active, enabled>>

\* The delete failed or its answer was lost: the Workspace may start again.
DeleteGivenUp ==
  /\ ws \in {"deleting", "erased"}
  /\ ws' = "kept"
  /\ WorldOnly /\ UNCHANGED <<changes, keys, ripe, active, enabled, held>>

DeleteConfirmed ==
  /\ ws = "erased"
  /\ ws' = "deleted"
  /\ RequestModelKeyRevoke(Keys)
  /\ WorldOnly /\ UNCHANGED <<changes, active, enabled, held>>

DisableUser ==
  /\ active /\ active' = FALSE
  /\ RequestModelKeyRevoke(Keys)
  /\ Change /\ WorldOnly /\ UNCHANGED <<ws, enabled, held>>

EnableUser ==
  /\ ~active /\ active' = TRUE
  /\ WorldOnly /\ UNCHANGED <<changes, keys, ripe, ws, enabled, held>>

DisableWorker ==
  /\ enabled /\ enabled' = FALSE
  /\ RequestModelKeyRevoke(Keys)
  /\ Change /\ WorldOnly /\ UNCHANGED <<ws, active, held>>

\* worker:enable rotates the credential as well, so the Worker connects anew.
EnableWorker ==
  /\ ~Connected
  /\ ~enabled /\ enabled' = TRUE
  /\ WorldOnly /\ UNCHANGED <<changes, keys, ripe, ws, active, held>>

Rotate ==
  /\ \E k \in Keys : Live(k)
  /\ RequestModelKeyRevoke(Keys)
  /\ Change /\ WorldOnly /\ UNCHANGED <<ws, active, enabled, held>>

-----------------------------------------------------------------------------
(* Specification.                                                          *)

Issue(k) == ActivateModelKey(k) \/ DeliverKey(k) \/ RevokeUndelivered(k)

MaintenancePass ==
  \/ BeginPass \/ ExpireStaleModelKeyIssues \/ GatewayDeletes \/ RecordRevoked
  \/ FinishRevocations \/ EndPass
  \/ \E k \in Keys : RevokeNext(k) \/ PassIssuesKey(k)

ReconcileWorker == AskForHoldings \/ CompareHoldings \/ RevokeLost
Worker == SetKey \/ ClearKey \/ ReportHoldings

Others ==
  \/ BeginWorkspaceDelete \/ WorkerErases \/ DeleteGivenUp \/ DeleteConfirmed
  \/ DisableUser \/ EnableUser \/ DisableWorker \/ EnableWorker \/ Rotate

Next ==
  \/ \E k \in Keys : StartIssuesKey(k) \/ Issue(k) \/ GatewayCreates(k) \/ IssueFails(k)
                     \/ TimePasses(k)
  \/ MaintenancePass \/ DeleteFails \/ ReconcileWorker \/ Worker
  \/ \E n \in DOMAIN queue : CommandTimesOut(n)
  \/ Disconnect \/ Connect \/ ControlPlaneRestarts
  \/ Others

Spec == Init /\ [][Next]_vars

\* Handlers that can go on do, the timers and the Worker's queue move, and the
\* gateway decides requests; nothing is assumed of administrators and users.
Fairness ==
  /\ WF_vars(MaintenancePass) /\ WF_vars(Worker)
  /\ \A k \in Keys : WF_vars(Issue(k)) /\ WF_vars(GatewayCreates(k)) /\ WF_vars(TimePasses(k))

FairSpec == Spec /\ Fairness

-----------------------------------------------------------------------------
(* Properties.                                                             *)

\* A live row belongs to an active user and to a Workspace that is not being
\* deleted, and there is at most one: beginModelKeyIssue against every path
\* that disables or deletes.
LiveKeysAreOwned ==
  \A k \in Keys : Live(k) =>
    /\ active /\ ws = "kept"
    /\ \A j \in Keys : Live(j) => j = k

\* A key whose secret left the Control Plane is not recorded as revoked as long
\* as the gateway accepts it: activateModelKey, #pass and the late answers of
\* the gateway, in any order.
NoUsableKeyIsRevoked == \A k \in sent \cap gateway : keys[k] # "revoked"

\* A clear that arrives late, or that was decided on an old report, never takes
\* the active key away from the Worker.
ClearsSpareTheActiveKey ==
  [][\A k \in ActiveKeys : held = k /\ held' = NoKey => ws' = "erased"]_vars

\* No key stays half issued or half revoked, whatever fails on the way: a call
\* that dies or is overtaken, a backoff, a row whose Workspace is gone.
TransientKeysEnd ==
  \A k \in Keys : keys[k] \in {"issuing", "revoking"} ~> keys[k] \in {"active", "revoked"}

\* What the migration and the comment of activateModelKey say: a key recorded
\* as revoked is gone from the gateway.
RevokedKeysAreGone == \A k \in gateway : keys[k] # "revoked"
=============================================================================
