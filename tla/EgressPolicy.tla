---------------------------- MODULE EgressPolicy ----------------------------
(* The egress policy from the administrators' edits to the live table of a *)
(* Worker: database/src/egress.ts, routes/admin-egress.ts, applyWorker-    *)
(* Egress and broadcastEgressPolicy in runtime-commands.ts, and the        *)
(* Worker's EgressController.                                              *)
(*                                                                         *)
(* Edits run in one transaction under a row lock.  Every edit starts a     *)
(* broadcast, which reads the policy again before it sends it; a start or  *)
(* a greeting does the same and waits for the answer.  The Worker answers  *)
(* commands one by one; its controller installs the table, writes the      *)
(* policy to disk and reads the table back, and may die in between.        *)
EXTENDS EgressRules, Sequences

CONSTANTS
  Admins,            \* administrators editing concurrently
  RuleChoices,       \* the rules they may add
  Protected,         \* what the Control Plane's resolver answers
  Unresolved,        \* and what it answers when a name does not resolve
  LocalProtected,    \* what the Worker's own resolver answers
  InitialRules,      \* the rules the policy begins with
  Starts,            \* applications a start or a greeting waits for
  MaxRevision,       \* bound: edits
  MaxUpsets,         \* bound: things that go wrong
  NoPolicy, NoTable

ASSUME EgressPolicyAssumption ==
  /\ RuleChoices \subseteq Rule
  /\ InitialRules \subseteq RuleChoices /\ validateEgressRules(InitialRules, {})
  /\ MaxRevision \in Nat /\ MaxUpsets \in Nat
  /\ Unresolved \subseteq Protected /\ Protected \cup LocalProtected \subseteq Cidr
  /\ Starts \cap 1..MaxRevision = {}

VARIABLES
  rules,      \* egress_rules
  revision,   \* egress_policy_state.revision
  admin,      \* per administrator: the edit being served
  task,       \* applyWorkerEgress: one per committed revision, and Starts
  queue,      \* the Worker's command queue
  ctl,        \* EgressController: #policy, #localProtected, #enforced
  apply,      \* the controller operation in progress
  table,      \* the live nftables table
  disk,       \* policy.json and ruleset.json, and what each held before its last write
  confirmed,  \* revisions applyWorkerEgress returned true for, since the last restart
              \* that lost, or could not read, what the files held
  upsets

vars == <<rules, revision, admin, task, queue, ctl, apply, table, disk, confirmed, upsets>>
worker == <<ctl, apply, table, disk>>
store == <<rules, revision, admin>>

Tasks == 1..MaxRevision \cup Starts
Policies == {egressPolicyForWorkers(r, rs, p) : r \in 0..MaxRevision, rs \in SUBSET RuleChoices, p \in {Protected, Unresolved}}
Upset == upsets < MaxUpsets /\ upsets' = upsets + 1
Calm == UNCHANGED upsets

\* protectedAddressResolver: an unresolvable name protects nothing.
Resolves(p) == (p = Protected /\ Calm) \/ (p = Unresolved /\ Upset)

Idle == [step |-> "idle"]
NoTask == [pc |-> "idle", policy |-> NoPolicy]
Done == [pc |-> "done", policy |-> NoPolicy]

\* What a policy and the local addresses may come to.
Allows == SUBSET {r \in RuleChoices : r.action = "allow"}
Denials == SUBSET Networks(RuleChoices, "deny")
Shields == {p \cup l : p \in {Protected, Unresolved, {}}, l \in {LocalProtected, {}}}
Contents ==
  {[allow |-> allow, denyExtra |-> denyExtra, protected |-> protected] :
     allow \in Allows, denyExtra \in Denials, protected \in Shields}
Content(policy, local) ==
  [allow |-> policy.allow, denyExtra |-> policy.denyExtra, protected |-> policy.protected \cup local]

\* Its rendering, the contents a listing of that rendering verifies for, the
\* packets it lets pass and those the content promises to let pass.
Effective == [c \in Contents |-> effectiveEgressRules(c, {})]
Rendering == [c \in Contents |-> renderEgressTransaction(Effective[c])]
Verified == [c \in Contents |-> {d \in Contents : verifyEgressListing(Rendering[c], Effective[d])}]
Passed == [c \in Contents |-> {p \in Packet : Passes(Rendering[c], p)}]
Promise == [c \in Contents |-> {p \in Packet : Promised(c, {}, p)}]

Tables == [content : Contents, revision : -1..MaxRevision]
ASSUME NothingYet == NoPolicy \notin Policies /\ NoTable \notin Tables

\* A table is named by the content it is the rendering of, and remembers the
\* revision it was made from; the code does not.
TableOf(policy, local) == [content |-> Content(policy, local), revision |-> policy.revision]
Known(policy) == IF policy = NoPolicy THEN BasePolicy ELSE policy
Reported == [enforced |-> ctl.enforced, revision |-> Known(ctl.policy).revision]

-----------------------------------------------------------------------------
(* Administrators.                                                         *)

\* An administrator acts on the list as it was shown; the handler resolves the
\* protected addresses before the transaction.
AskAdd(a, rule) ==
  /\ admin[a].step = "idle" /\ revision < MaxRevision /\ rule \notin rules
  /\ \E p \in {Protected, Unresolved} :
       /\ Resolves(p)
       /\ admin' = [admin EXCEPT ![a] = [step |-> "add", rule |-> rule, protected |-> p]]
  /\ UNCHANGED <<rules, revision, task, queue, worker, confirmed>>

AskDelete(a, rule) ==
  /\ admin[a].step = "idle" /\ revision < MaxRevision /\ rule \in rules
  /\ admin' = [admin EXCEPT ![a] = [step |-> "delete", rule |-> rule, protected |-> {}]]
  /\ Calm /\ UNCHANGED <<rules, revision, task, queue, worker, confirmed>>

\* What the transaction leaves: the edited rules, or the old ones if they are
\* refused.
createEgressRule(rule, protected) ==
  IF rule \notin rules /\ validateEgressRules(rules \cup {rule}, protected) THEN rules \cup {rule} ELSE rules
deleteEgressRuleUnchecked(rule) == rules \ {rule}
deleteEgressRule(rule) ==
  IF rule \in rules /\ validateEgressRules(rules \ {rule}, {}) THEN rules \ {rule} ELSE rules

\* The transaction, and the broadcast a committed edit starts.
Commit(a) ==
  /\ admin[a].step \in {"add", "delete"} /\ revision < MaxRevision
  /\ LET edited == IF admin[a].step = "add" THEN createEgressRule(admin[a].rule, admin[a].protected)
                   ELSE deleteEgressRule(admin[a].rule) IN
     /\ rules' = edited
     /\ IF edited = rules THEN UNCHANGED <<revision, task>>
        ELSE /\ revision' = revision + 1
             /\ task' = [task EXCEPT ![revision + 1].pc = "read"]
  /\ admin' = [admin EXCEPT ![a] = Idle]
  /\ Calm /\ UNCHANGED <<queue, worker, confirmed>>

-----------------------------------------------------------------------------
(* applyWorkerEgress.                                                      *)

BeginStart(t) ==
  /\ task[t].pc = "idle"
  /\ task' = [task EXCEPT ![t].pc = "read"]
  /\ Calm /\ UNCHANGED <<store, queue, worker, confirmed>>

\* The policy is read FOR SHARE in one transaction, the protected addresses
\* beside it.
ReadPolicy(t) ==
  /\ task[t].pc = "read"
  /\ \E p \in {Protected, Unresolved} :
       /\ Resolves(p)
       /\ task' = [task EXCEPT ![t] = [pc |-> "send", policy |-> egressPolicyForWorkers(revision, rules, p)]]
  /\ UNCHANGED <<store, queue, worker, confirmed>>

\* dispatch, or no connection, which the caller only logs.
Dispatch(t) ==
  /\ task[t].pc = "send"
  /\ \/ /\ task' = [task EXCEPT ![t].pc = "wait"]
        /\ queue' = Append(queue, t)
        /\ Calm
     \/ task' = [task EXCEPT ![t] = Done] /\ Upset /\ UNCHANGED queue
  /\ UNCHANGED <<store, worker, confirmed>>

\* recordWorkerEgress, and true only for the revision that was read.
Answered(t, ok) ==
  /\ task' = [task EXCEPT ![t] = Done]
  /\ LET told == IF ok /\ Reported' = [enforced |-> TRUE, revision |-> task[t].policy.revision]
                   THEN {task[t].policy.revision} ELSE {} IN
     confirmed' = confirmed \cup told

-----------------------------------------------------------------------------
(* The Worker's EgressController.  Operations are serialized: a step below *)
(* "idle" belongs to the one in progress.                                  *)

Verifies(tbl, policy, local) ==
  tbl # NoTable /\ Content(Known(policy), local) \in Verified[tbl.content]

\* #ensure: the table is verified, or installed, written and verified again.
\* Gives the new table, disk and verdict; where something fails, all that was
\* done before stays.
Result(tbl, dsk, enforced) == [table |-> tbl, disk |-> dsk, enforced |-> enforced]
\* Files are renamed into place and not synced: the one that was there before is
\* remembered.  NoPolicy and NoTable stand for a file that is not there or cannot
\* be read.  Without a policy only ruleset.json is written.
PolicyWritten(dsk, policy) ==
  IF policy = NoPolicy THEN dsk ELSE [dsk EXCEPT !.policy = policy, !.policyBefore = dsk.policy]
RulesetWritten(dsk, tbl) == [dsk EXCEPT !.ruleset = tbl, !.rulesetBefore = dsk.ruleset]
Written(policy, tbl) == RulesetWritten(PolicyWritten(disk, policy), tbl)
ensureSucceeds(policy, local) ==
  IF Verifies(table, policy, local) THEN Result(table, disk, TRUE)
  ELSE LET new == TableOf(Known(policy), local) IN Result(new, Written(policy, new), TRUE)
ensureFails(policy, local) ==
  LET new == TableOf(Known(policy), local) IN
  {Result(table, disk, FALSE)}                                \* nft: nothing changed
    \cup {Result(new, dsk, FALSE) :                           \* disk, or the read-back
            dsk \in {disk, PolicyWritten(disk, policy), Written(policy, new)}}

Ensured(policy, local, result) ==
  /\ ctl' = [policy |-> policy, local |-> local, enforced |-> result.enforced]
  /\ table' = result.table
  /\ disk' = result.disk
Ensures(policy, local) ==
  \/ Ensured(policy, local, ensureSucceeds(policy, local)) /\ Calm
  \/ (\E result \in ensureFails(policy, local) : Ensured(policy, local, result)) /\ Upset

\* #refreshLocalProtected keeps the old answer when the resolver fails.
Refreshes(local) == (local = LocalProtected /\ Calm) \/ (local = ctl.local /\ Upset)

\* ensure(): every heartbeat interval, and before a container starts.
Ensure ==
  /\ apply.step = "idle"
  /\ Ensures(ctl.policy, ctl.local)
  /\ UNCHANGED <<store, task, queue, apply, confirmed>>

NeverOlder(policy) == FALSE
IsOlder(policy) == ctl.policy # NoPolicy /\ policy.revision < ctl.policy.revision

\* apply(): an older revision than the applied one is ignored.
IgnoreOlder ==
  /\ apply.step = "idle" /\ queue # <<>>
  /\ LET t == Head(queue) IN
     /\ IsOlder(task[t].policy)
     /\ Ensures(ctl.policy, ctl.local)
     /\ Answered(t, TRUE)
  /\ queue' = Tail(queue)
  /\ UNCHANGED <<store, apply>>

\* One atomic nft transaction; if it fails, the old policy is kept.
Install ==
  /\ apply.step = "idle" /\ queue # <<>>
  /\ LET policy == task[Head(queue)].policy IN
     /\ ~IsOlder(policy)
     /\ \/ \E local \in {LocalProtected, ctl.local} :
             /\ Refreshes(local)
             /\ table' = TableOf(policy, local)
             /\ ctl' = [ctl EXCEPT !.policy = policy, !.local = local]
             /\ apply' = [step |-> "persist"]
             /\ UNCHANGED <<task, queue, disk, confirmed>>
        \/ /\ \E result \in ensureFails(ctl.policy, LocalProtected)
                              \cup {ensureSucceeds(ctl.policy, LocalProtected)} :
                 Ensured(ctl.policy, LocalProtected, result)
           /\ Answered(Head(queue), FALSE)
           /\ queue' = Tail(queue)
           /\ Upset /\ UNCHANGED apply
  /\ UNCHANGED store

\* policy.json, then ruleset.json; either may fail, and apply() with it.
PersistSteps == {"persist", "persistRuleset"}
Persist ==
  /\ apply.step \in PersistSteps
  /\ \/ /\ IF apply.step = "persist"
             THEN /\ disk' = PolicyWritten(disk, ctl.policy)
                  /\ apply' = [step |-> "persistRuleset"]
             ELSE /\ disk' = RulesetWritten(disk, TableOf(ctl.policy, ctl.local))
                  /\ apply' = [step |-> "verify"]
        /\ Calm /\ UNCHANGED <<task, queue, confirmed>>
     \/ /\ Answered(Head(queue), FALSE)
        /\ queue' = Tail(queue)
        /\ apply' = Idle
        /\ Upset /\ UNCHANGED disk
  /\ UNCHANGED <<store, ctl, table>>

\* The read-back: success is answered only for a table that verified.
Confirm ==
  /\ apply.step = "verify"
  /\ Ensures(ctl.policy, ctl.local)
  /\ Answered(Head(queue), ctl'.enforced)
  /\ queue' = Tail(queue)
  /\ apply' = Idle
  /\ UNCHANGED store

-----------------------------------------------------------------------------
(* Faults.                                                                 *)

\* Somebody flushes the table or one of its sets, unnoticed until the next check.
Drift ==
  /\ table # NoTable
  /\ \/ table' = NoTable
     \/ \E emptied \in {"protected", "denyExtra"} :
          /\ table.content[emptied] # {}
          /\ table' = [table EXCEPT !.content[emptied] = {}]
  /\ Upset /\ UNCHANGED <<store, task, queue, ctl, apply, disk, confirmed>>

\* What the files hold when the Worker starts again: what was written, unless it
\* lost power, which may undo the last write of either or leave it unreadable.
Files(policy, tbl) == [policy |-> policy, policyBefore |-> policy, ruleset |-> tbl, rulesetBefore |-> tbl]
Found(rebooted) ==
  IF ~rebooted THEN {disk}
  ELSE {Files(policy, tbl) : policy \in {disk.policy, disk.policyBefore, NoPolicy},
                             tbl \in {disk.ruleset, disk.rulesetBefore, NoTable}}

\* agent-runtime-egress.service loads ruleset.json, or else the base rules, which
\* know no relay: where there is one they never verify, and are as good as none.
Booted(ruleset) ==
  IF ruleset = NoTable /\ RelayPort = NoPort THEN TableOf(BasePolicy, {}) ELSE ruleset

\* The daemon dies: the commands it had are lost, their callers get no answer.
\* initialize() begins with the policy of policy.json; a file that cannot be read,
\* parsed or validated is no policy (#loadPolicy).
StillAwaited(ts) == task
Abandoned(ts) == [t \in Tasks |-> IF t \in ts THEN Done ELSE task[t]]
Restart(rebooted) ==
  /\ task' = Abandoned({queue[i] : i \in DOMAIN queue})
  /\ queue' = <<>>
  /\ apply' = [step |-> "initialize"]
  /\ disk' \in Found(rebooted)
  /\ table' = IF rebooted THEN Booted(disk'.ruleset) ELSE table
  /\ \E loaded \in {disk'.policy, NoPolicy} :
       /\ ctl' = [policy |-> loaded, local |-> {}, enforced |-> FALSE]
       /\ confirmed' = IF loaded = disk.policy /\ disk'.ruleset = disk.ruleset THEN confirmed ELSE {}
  /\ Upset /\ UNCHANGED store

Initialize ==
  /\ apply.step = "initialize"
  /\ \/ \E local \in {LocalProtected, ctl.local} :
          Refreshes(local) /\ Ensured(ctl.policy, local, ensureSucceeds(ctl.policy, local))
     \/ /\ \E result \in ensureFails(ctl.policy, LocalProtected) : Ensured(ctl.policy, LocalProtected, result)
        /\ Upset
  /\ apply' = Idle
  /\ UNCHANGED <<store, task, queue, confirmed>>

-----------------------------------------------------------------------------

\* A Worker that was just set up: no policy yet.
Init ==
  /\ rules = InitialRules /\ revision = 0
  /\ admin = [a \in Admins |-> Idle]
  /\ task = [t \in Tasks |-> NoTask]
  /\ queue = <<>>
  /\ ctl = [policy |-> NoPolicy, local |-> {}, enforced |-> FALSE]
  /\ apply = [step |-> "initialize"]
  /\ table = NoTable
  /\ disk = Files(NoPolicy, NoTable)
  /\ confirmed = {}
  /\ upsets = 0

Controller == Initialize \/ IgnoreOlder \/ Install \/ Persist \/ Confirm

Next ==
  \/ \E a \in Admins :
       \/ Commit(a)
       \/ \E rule \in RuleChoices : AskAdd(a, rule) \/ AskDelete(a, rule)
  \/ \E t \in Starts : BeginStart(t)
  \/ \E t \in Tasks : ReadPolicy(t) \/ Dispatch(t)
  \/ Controller \/ Ensure
  \/ Drift \/ \E rebooted \in BOOLEAN : Restart(rebooted)

Spec == Init /\ [][Next]_vars

-----------------------------------------------------------------------------

TypeOK ==
  /\ rules \subseteq RuleChoices /\ revision \in 0..MaxRevision
  /\ \A t \in Tasks : task[t].pc \in {"idle", "read", "send", "wait", "done"}
  /\ \A t \in Tasks : (task[t].pc = "wait") <=> \E i \in DOMAIN queue : queue[i] = t
  /\ ctl.policy \in Policies \cup {NoPolicy} /\ disk.policy \in Policies \cup {NoPolicy}

\* However administrators race, no allow rule opens what is not denied: the
\* delete of a deny rule and the allow rule that needs it never both commit.
AllowsStayCovered == \A r \in rules : r.action = "allow" => AllowCovered(r, rules)

\* Whatever becomes of the live table and of what it should hold: if reading it
\* back says "enforced", every packet is treated as the Worker's policy and its
\* own protected addresses promise.
VerifiedTableKeepsPromise ==
  Verifies(table, ctl.policy, ctl.local) =>
    Passed[table.content] = Promise[Content(Known(ctl.policy), ctl.local)]

\* What applyWorkerEgress has confirmed to a start is not undone by a late
\* older policy, a failed application, a crash or a reboot: neither the
\* controller, the disk nor a loaded table goes back before it, for as long as
\* each restart finds the files as they were left and can read policy.json.
ConfirmedPolicyHolds ==
  \A r \in confirmed :
    /\ Known(ctl.policy).revision >= r
    /\ Known(disk.policy).revision >= r
    /\ table # NoTable => table.revision >= r
    /\ disk.ruleset # NoTable /\ disk.ruleset.revision >= r

\* Broadcasts read and send in any order, and nobody sends one again: still,
\* unless something failed, the last of them leaves the Worker with the last
\* committed revision.
InFlight == queue # <<>> \/ \E t \in Tasks : task[t].pc \in {"read", "send"}
BroadcastsConverge ==
  upsets = 0 /\ revision > 0 /\ apply.step = "idle" /\ ~InFlight =>
    Known(ctl.policy).revision = revision
=============================================================================
