---------------------------- MODULE EgressProofs ----------------------------
(* Proofs about EgressRules and EgressPolicy, for addresses of any width,   *)
(* any rules, administrators and starts, and any bounds.                    *)
EXTENDS EgressPolicy, FiniteSetTheorems, WellFoundedInduction, TLAPS

-----------------------------------------------------------------------------
(* Blocks of addresses.                                                     *)

\* A non-empty set of natural numbers has a least one.
LEMMA LeastExists ==
  ASSUME NEW S \in SUBSET Nat, S # {}
  PROVE  \E m \in S : \A k \in S : m <= k
  <1>1. PICK m \in S : \A k \in S : <<k, m>> \notin OpToRel(<, Nat)
    BY WFMin, NatLessThanWellFounded, Zenon
  <1>2. \A k \in S : ~(k < m)
    BY <1>1, Zenon DEF OpToRel
  <1>. QED BY <1>2

\* And one that is bounded has a greatest.
LEMMA GreatestExists ==
  ASSUME NEW S \in SUBSET Nat, S # {}, NEW top \in Nat, \A k \in S : k <= top
  PROVE  \E m \in S : \A k \in S : k <= m
  <1>. DEFINE D == {d \in Nat : top - d \in S}
  <1>1. D \in SUBSET Nat /\ D # {}
    <2>1. PICK k \in S : TRUE
      OBVIOUS
    <2>2. top - k \in Nat /\ top - (top - k) = k
      OBVIOUS
    <2>. QED BY <2>2
  <1>2. PICK d \in D : \A e \in D : d <= e
    BY <1>1, LeastExists
  <1>3. ASSUME NEW k \in S PROVE k <= top - d
    <2>1. top - k \in Nat /\ top - (top - k) = k
      OBVIOUS
    <2>2. d <= top - k
      BY <1>2, <2>1
    <2>. QED BY <2>2
  <1>. QED BY <1>2, <1>3

\* A power of two is that of the number below, twice: there are as many sets with
\* the last element as without it.
LEMMA PowersOfTwo ==
  ASSUME NEW n \in Nat
  PROVE  2 ^ n \in Nat /\ 2 ^ n = Cardinality(SUBSET (1..n))
  <1>1. IsFiniteSet(1..n) /\ Cardinality(1..n) = n
    BY FS_Interval
  <1>2. IsFiniteSet(SUBSET (1..n)) /\ Cardinality(SUBSET (1..n)) = 2 ^ n
    BY <1>1, FS_SUBSET
  <1>. QED BY <1>2, FS_CardinalityType

LEMMA PowersGrow ==
  ASSUME NEW m \in Nat, NEW n \in Nat, m < n
  PROVE  2 ^ m < 2 ^ n
  <1>1. IsFiniteSet(SUBSET (1..n))
    <2>1. IsFiniteSet(1..n)
      BY FS_Interval
    <2>. QED BY <2>1, FS_SUBSET
  <1>2. SUBSET (1..m) \in SUBSET (SUBSET (1..n))
    OBVIOUS
  <1>3. SUBSET (1..m) # SUBSET (1..n)
    <2>1. 1..n \in SUBSET (1..n) /\ n \in 1..n /\ n \notin 1..m
      OBVIOUS
    <2>. QED BY <2>1
  <1>4. /\ IsFiniteSet(SUBSET (1..m))
        /\ Cardinality(SUBSET (1..m)) <= Cardinality(SUBSET (1..n))
        /\ Cardinality(SUBSET (1..m)) # Cardinality(SUBSET (1..n))
    BY <1>1, <1>2, <1>3, FS_Subset
  <1>. QED BY <1>4, PowersOfTwo

\* The size of a block is positive and no larger than there are addresses.
LEMMA SizesAreBounded ==
  ASSUME NEW prefix \in 0..Bits
  PROVE  /\ prefixSize(prefix) \in Nat /\ 0 < prefixSize(prefix)
         /\ prefixSize(prefix) <= 2 ^ Bits /\ 2 ^ Bits \in Nat
         /\ prefix > 0 => prefixSize(prefix) < prefixSize(prefix - 1)
  <1>. USE EgressRulesAssumption
  <1>1. Bits - prefix \in Nat /\ Bits \in Nat
    OBVIOUS
  <1>2. 2 ^ (Bits - prefix) \in Nat /\ 2 ^ Bits \in Nat
    BY <1>1, PowersOfTwo
  <1>3. 0 < 2 ^ (Bits - prefix)
    <2>1. IsFiniteSet(SUBSET (1..(Bits - prefix)))
      <3>1. IsFiniteSet(1..(Bits - prefix))
        BY <1>1, FS_Interval
      <3>. QED BY <3>1, FS_SUBSET
    <2>2. {} \in SUBSET (1..(Bits - prefix))
      OBVIOUS
    <2>3. Cardinality(SUBSET (1..(Bits - prefix))) # 0
      BY <2>1, <2>2, FS_EmptySet
    <2>. QED BY <1>1, <2>3, PowersOfTwo
  <1>4. 2 ^ (Bits - prefix) <= 2 ^ Bits
    BY <1>1, <1>2, PowersGrow
  <1>5. ASSUME prefix > 0 PROVE 2 ^ (Bits - prefix) < 2 ^ (Bits - (prefix - 1))
    <2>1. Bits - (prefix - 1) \in Nat /\ Bits - prefix < Bits - (prefix - 1)
      BY <1>5
    <2>. QED BY <1>1, <2>1, PowersGrow
  <1>. QED BY <1>2, <1>3, <1>4, <1>5 DEF prefixSize

\* A block is an interval of natural numbers.
LEMMA BlocksAreIntervals ==
  ASSUME NEW c \in Cidr
  PROVE  /\ cidrInterval(c).start \in Nat /\ cidrInterval(c).end \in Nat
         /\ cidrInterval(c).start = c.address
         /\ cidrInterval(c).end = c.address + prefixSize(c.prefix) - 1
         /\ cidrInterval(c).start <= cidrInterval(c).end
         /\ cidrInterval(c).end <= 2 * (2 ^ Bits) /\ 2 ^ Bits \in Nat
  <1>. USE EgressRulesAssumption
  <1>1. c.address \in Address /\ c.prefix \in 0..Bits
    BY DEF Cidr
  <1>2. /\ prefixSize(c.prefix) \in Nat /\ 0 < prefixSize(c.prefix)
        /\ prefixSize(c.prefix) <= 2 ^ Bits /\ 2 ^ Bits \in Nat
    BY <1>1, SizesAreBounded
  <1>3. c.address \in Nat /\ c.address <= 2 ^ Bits
    BY <1>1, <1>2 DEF Address
  <1>. QED BY <1>2, <1>3 DEF cidrInterval

-----------------------------------------------------------------------------
(* What merging intervals keeps, and what a verified listing means.         *)

\* What a block and a set of blocks hold.
LEMMA HoldsIsCovered ==
  ASSUME NEW blocks, NEW dst
  PROVE  InSet(blocks, dst) <=> dst \in Covered(Intervals(blocks))
  BY DEF InSet, Holds, Covered, Intervals

\* Blocks hold bounded sets of addresses.
LEMMA CoveredIsBounded ==
  ASSUME NEW blocks, blocks \subseteq Cidr
  PROVE  /\ Covered(Intervals(blocks)) \subseteq Nat
         /\ \A x \in Covered(Intervals(blocks)) : x <= 2 * (2 ^ Bits)
         /\ 2 ^ Bits \in Nat
  <1>1. 2 ^ Bits \in Nat
    BY EgressRulesAssumption, PowersOfTwo
  <1>2. ASSUME NEW x \in Covered(Intervals(blocks)) PROVE x \in Nat /\ x <= 2 * (2 ^ Bits)
    <2>1. PICK c \in blocks : x \in cidrInterval(c).start..cidrInterval(c).end
      BY DEF Covered, Intervals
    <2>2. /\ cidrInterval(c).start \in Nat /\ cidrInterval(c).end \in Nat
          /\ cidrInterval(c).end <= 2 * (2 ^ Bits)
      BY BlocksAreIntervals
    <2>. QED BY <1>1, <2>1, <2>2
  <1>. QED BY <1>1, <1>2

\* Merging overlapping and adjacent intervals neither adds nor loses an address
\* (mergeIntervals): around each one there is a longest interval.
LEMMA MergingKeepsAddresses ==
  ASSUME NEW intervals, NEW top \in Nat, Covered(intervals) \subseteq Nat,
         \A x \in Covered(intervals) : x <= top
  PROVE  Covered(mergeIntervals(intervals)) = Covered(intervals)
  <1>. DEFINE C == Covered(intervals)
  <1>1. Covered(mergeIntervals(intervals)) \subseteq C
    BY DEF mergeIntervals, Covered
  <1>2. ASSUME NEW x \in C PROVE x \in Covered(mergeIntervals(intervals))
    <2>. DEFINE Below == {a \in Nat : a <= x /\ a..x \subseteq C}
                Above == {b \in Nat : x <= b /\ x..b \subseteq C}
    <2>1. x \in Nat /\ x \in Below /\ x \in Above
      OBVIOUS
    <2>2. PICK a \in Below : \A k \in Below : a <= k
      <3>. HIDE DEF C
      <3>. QED BY <2>1, LeastExists
    <2>3. \A k \in Above : k <= top
      <3>1. \A k \in Above : k \in C
        OBVIOUS
      <3>. QED BY <3>1
    <2>4. PICK b \in Above : \A k \in Above : k <= b
      <3>. HIDE DEF C
      <3>. QED BY <2>1, <2>3, GreatestExists
    <2>5. a \in Nat /\ b \in Nat /\ a <= x /\ x <= b
      OBVIOUS
    <2>6. a..b \subseteq C /\ a \in C /\ b \in C
      <3>1. a..x \subseteq C /\ x..b \subseteq C
        OBVIOUS
      <3>. HIDE DEF C
      <3>. QED BY <2>1, <2>5, <3>1
    <2>7. a - 1 \notin C
      <3>. SUFFICES ASSUME a - 1 \in C PROVE FALSE
        OBVIOUS
      <3>1. a - 1 \in Nat
        OBVIOUS
      <3>2. (a - 1)..x \subseteq C
        <4>. HIDE DEF C
        <4>. QED BY <2>1, <2>5, <2>6
      <3>3. a - 1 \in Below
        BY <2>5, <3>1, <3>2
      <3>. QED BY <2>2, <2>5, <3>3
    <2>8. b + 1 \notin C
      <3>. SUFFICES ASSUME b + 1 \in C PROVE FALSE
        OBVIOUS
      <3>1. x..(b + 1) \subseteq C
        <4>. HIDE DEF C
        <4>. QED BY <2>1, <2>5, <2>6
      <3>2. b + 1 \in Above
        BY <2>5, <3>1
      <3>. QED BY <2>4, <2>5, <3>2
    <2>. DEFINE i == [start |-> a, end |-> b]
    <2>9. i \in mergeIntervals(intervals)
      BY <2>6, <2>7, <2>8 DEF mergeIntervals
    <2>10. x \in i.start..i.end
      BY <2>1, <2>5
    <2>. QED BY <2>9, <2>10 DEF Covered
  <1>. QED BY <1>1, <1>2

\* Blocks that merge to the same intervals hold the same addresses.
LEMMA SameMergedSameHeld ==
  ASSUME NEW listed, NEW meant, meant \subseteq Cidr, listed \subseteq Cidr, NEW dst,
         mergeIntervals(Intervals(listed)) = mergeIntervals(Intervals(meant))
  PROVE  InSet(listed, dst) <=> dst \in Covered(Intervals(meant))
  <1>1. 2 * (2 ^ Bits) \in Nat
    BY CoveredIsBounded
  <1>2. Covered(mergeIntervals(Intervals(listed))) = Covered(Intervals(listed))
    BY <1>1, CoveredIsBounded, MergingKeepsAddresses
  <1>3. Covered(mergeIntervals(Intervals(meant))) = Covered(Intervals(meant))
    BY <1>1, CoveredIsBounded, MergingKeepsAddresses
  <1>. QED BY <1>2, <1>3, HoldsIsCovered

\* A block is one of those its own interval is rendered as, and the others are
\* inside it (intervalToCidrs).
LEMMA BlockIsRendered ==
  ASSUME NEW c \in Cidr
  PROVE  /\ c \in intervalToCidrs(cidrInterval(c))
         /\ \A d \in intervalToCidrs(cidrInterval(c)) :
              d \in Cidr /\ \A dst : Holds(d, dst) => Holds(c, dst)
  <1>1. c.address \in Nat /\ c.prefix \in 0..Bits
    <2>1. 2 ^ Bits \in Nat
      BY CoveredIsBounded
    <2>. QED BY <2>1 DEF Cidr, Address
  <1>2. Inside(c, cidrInterval(c))
    BY BlocksAreIntervals DEF Inside
  <1>3. ASSUME c.prefix > 0, Inside(Parent(c), cidrInterval(c)) PROVE FALSE
    <2>. DEFINE S == prefixSize(c.prefix)
                T == prefixSize(c.prefix - 1)
    <2>1. c.prefix - 1 \in 0..Bits
      BY <1>1, <1>3, EgressRulesAssumption
    <2>2. S \in Nat /\ T \in Nat /\ 0 < T /\ S < T
      BY <1>1, <1>3, <2>1, SizesAreBounded
    <2>3. /\ cidrInterval(Parent(c)).start = Parent(c).address
          /\ cidrInterval(Parent(c)).end = Parent(c).address + T - 1
      BY DEF cidrInterval, Parent
    <2>4. Parent(c).address = c.address - (c.address % T)
      BY DEF Parent
    <2>. HIDE DEF S, T
    <2>5. c.address % T \in Nat
      BY <1>1, <2>2
    <2>6. Parent(c).address \in Int
      BY <1>1, <2>4, <2>5
    <2>7. c.address <= Parent(c).address /\ Parent(c).address + T - 1 <= c.address + S - 1
      BY <1>3, <2>3, BlocksAreIntervals DEF Inside, S
    <2>. QED BY <1>1, <2>2, <2>6, <2>7
  <1>4. c \in intervalToCidrs(cidrInterval(c))
    BY <1>2, <1>3 DEF intervalToCidrs
  <1>5. ASSUME NEW d \in intervalToCidrs(cidrInterval(c)), NEW dst, Holds(d, dst)
        PROVE  d \in Cidr /\ Holds(c, dst)
    <2>1. d \in Cidr /\ Inside(d, cidrInterval(c))
      BY <1>5 DEF intervalToCidrs
    <2>. QED BY <1>5, <2>1, BlocksAreIntervals DEF Inside, Holds
  <1>. QED BY <1>4, <1>5 DEF intervalToCidrs

\* The elements of the service set match what the rules they come from admit.
LEMMA ServicesAreRendered ==
  ASSUME NEW entries, entries \subseteq {r \in Rule : r.service # AnyService}, NEW p \in Packet
  PROVE  InService(serviceElements(entries), p) <=> (\E r \in entries : Admits(r, p))
  <1>. DEFINE Meets(e) ==
         /\ Holds(e.network, p.dst)
         /\ e.service.protocol = p.protocol
         /\ p.port \in e.service.portMin..e.service.portMax
  <1>1. ASSUME NEW r \in entries PROVE Admits(r, p) <=> Meets(r)
    <2>1. /\ r.service \in Service /\ r.service.portMin \in Nat /\ r.service.portMax \in Nat
          /\ p.port \in Nat
      BY EgressRulesAssumption DEF Rule, Service, Packet
    <2>2. Holds(r.network, p.dst) <=> p.dst \in Covered({cidrInterval(r.network)})
      BY DEF Holds, Covered
    <2>. QED BY <2>1, <2>2 DEF Admits
  <1>2. ASSUME NEW r \in entries, Meets(r) PROVE InService(serviceElements(entries), p)
    <2>. DEFINE e == [network |-> r.network, service |-> r.service]
    <2>1. r.network \in Cidr
      BY DEF Rule
    <2>2. e \in serviceElements(entries)
      BY <2>1, BlockIsRendered DEF serviceElements
    <2>. QED BY <1>2, <2>2 DEF InService
  <1>3. ASSUME InService(serviceElements(entries), p) PROVE \E r \in entries : Meets(r)
    <2>1. PICK e \in serviceElements(entries) : Meets(e)
      BY <1>3 DEF InService
    <2>2. PICK r \in entries : e \in {[network |-> c, service |-> r.service] :
                                        c \in intervalToCidrs(cidrInterval(r.network))}
      BY DEF serviceElements
    <2>3. PICK c \in intervalToCidrs(cidrInterval(r.network)) :
            e = [network |-> c, service |-> r.service]
      BY <2>2
    <2>4. Holds(r.network, p.dst)
      <3>1. r.network \in Cidr
        BY DEF Rule
      <3>. QED BY <2>1, <2>3, <3>1, BlockIsRendered
    <2>. QED BY <2>1, <2>3, <2>4
  <1>. QED BY <1>1, <1>2, <1>3

\* What a policy can say.
Meaningful(policy) ==
  /\ policy.allow \subseteq Rule
  /\ policy.denyExtra \subseteq Cidr
  /\ policy.protected \subseteq Cidr

\* A listing whose sets are blocks.
Blocks(listing) ==
  /\ listing.deny_default_v4 \subseteq Cidr /\ listing.deny_extra_v4 \subseteq Cidr
  /\ listing.protected_v4 \subseteq Cidr /\ listing.allow_net_v4 \subseteq Cidr

\* The table as a whole: a listing that verifies treats every packet as promised
\* (verifyEgressListing), whatever blocks nft prints its sets as.
LEMMA VerifiedListingKeepsPromise ==
  ASSUME NEW listing, Blocks(listing), NEW policy, Meaningful(policy),
         verifyEgressListing(listing, effectiveEgressRules(policy, {})), NEW p \in Packet
  PROVE  Passes(listing, p) <=> Promised(policy, {}, p)
  <1>. DEFINE free == {r \in policy.allow : r.service = AnyService}
              bound == {r \in policy.allow : r.service # AnyService}
              freeNets == {r.network : r \in free}
  <1>1. InSet(listing.protected_v4, p.dst) <=> p.dst \in Covered(Intervals(policy.protected \cup {}))
    BY SameMergedSameHeld DEF verifyEgressListing, effectiveEgressRules, Blocks, Meaningful
  <1>2. InSet(listing.deny_default_v4 \cup listing.deny_extra_v4, p.dst)
          <=> p.dst \in Covered(Intervals(DefaultDeny \cup policy.denyExtra))
    <2>1. InSet(listing.deny_default_v4, p.dst) <=> p.dst \in Covered(Intervals(DefaultDeny))
      BY SameMergedSameHeld, EgressRulesAssumption
         DEF verifyEgressListing, effectiveEgressRules, Blocks, Meaningful
    <2>2. InSet(listing.deny_extra_v4, p.dst) <=> p.dst \in Covered(Intervals(policy.denyExtra))
      BY SameMergedSameHeld DEF verifyEgressListing, effectiveEgressRules, Blocks, Meaningful
    <2>3. InSet(listing.deny_default_v4 \cup listing.deny_extra_v4, p.dst)
            <=> InSet(listing.deny_default_v4, p.dst) \/ InSet(listing.deny_extra_v4, p.dst)
      BY DEF InSet
    <2>4. p.dst \in Covered(Intervals(DefaultDeny \cup policy.denyExtra))
            <=> \/ p.dst \in Covered(Intervals(DefaultDeny))
                \/ p.dst \in Covered(Intervals(policy.denyExtra))
      BY DEF Covered, Intervals
    <2>. QED BY <2>1, <2>2, <2>3, <2>4
  <1>3. InSet(listing.allow_net_v4, p.dst) <=> (\E r \in free : Admits(r, p))
    <2>1. freeNets \subseteq Cidr
      BY DEF Meaningful, Rule
    <2>2. Intervals(freeNets) = {cidrInterval(r.network) : r \in free}
      BY DEF Intervals
    <2>3. mergeIntervals(Intervals(listing.allow_net_v4)) = mergeIntervals(Intervals(freeNets))
      BY <2>2 DEF verifyEgressListing, effectiveEgressRules
    <2>4. InSet(listing.allow_net_v4, p.dst) <=> p.dst \in Covered(Intervals(freeNets))
      <3>. HIDE DEF freeNets
      <3>. QED BY <2>1, <2>3, SameMergedSameHeld DEF Blocks
    <2>5. p.dst \in Covered(Intervals(freeNets)) <=> (\E r \in free : p.dst \in Covered({cidrInterval(r.network)}))
      BY <2>2 DEF Covered
    <2>. QED BY <2>4, <2>5 DEF Admits
  <1>4. InService(listing.allow_svc_v4, p) <=> (\E r \in bound : Admits(r, p))
    <2>1. bound \subseteq {r \in Rule : r.service # AnyService}
      BY DEF Meaningful
    <2>2. listing.allow_svc_v4 = serviceElements(bound)
      BY DEF verifyEgressListing, effectiveEgressRules
    <2>. HIDE DEF bound
    <2>. QED BY <2>1, <2>2, ServicesAreRendered
  <1>5. (\E r \in policy.allow : Admits(r, p)) <=> ((\E r \in free : Admits(r, p)) \/ (\E r \in bound : Admits(r, p)))
    OBVIOUS
  <1>6. p.bridge \in BOOLEAN /\ p.reply \in BOOLEAN /\ p.v6 \in BOOLEAN
    BY DEF Packet
  <1>. HIDE DEF free, bound
  <1>. QED BY <1>1, <1>2, <1>3, <1>4, <1>5, <1>6
           DEF Passes, Promised, PreroutingDrops, ForwardDrops, InputDrops, Exempt, ToRelay

-----------------------------------------------------------------------------
(* The inductive invariant of EgressPolicy.                                 *)

AdminStates ==
  [step : {"idle"}]
    \cup [step : {"add", "delete"}, rule : RuleChoices, protected : {Protected, Unresolved, {}}]
TaskStates == [pc : {"idle", "read", "send", "wait", "done"}, policy : Policies \cup {NoPolicy}]
Locals == {LocalProtected, {}}
CtlStates == [policy : Policies \cup {NoPolicy}, local : Locals, enforced : BOOLEAN]
DiskStates ==
  [policy : Policies \cup {NoPolicy}, policyBefore : Policies \cup {NoPolicy},
   ruleset : Tables \cup {NoTable}, rulesetBefore : Tables \cup {NoTable}]
Installing == {"persist", "persistRuleset", "verify"}

Typed ==
  /\ rules \subseteq RuleChoices /\ revision \in 0..MaxRevision
  /\ admin \in [Admins -> AdminStates]
  /\ task \in [Tasks -> TaskStates]
  /\ queue \in Seq(Tasks)
  /\ ctl \in CtlStates
  /\ apply \in [step : {"idle", "initialize"} \cup Installing]
  /\ table \in Tables \cup {NoTable}
  /\ disk \in DiskStates
  /\ confirmed \subseteq 0..MaxRevision
  /\ upsets \in Nat

\* A task waits exactly while it is queued, which it is once, with a policy to
\* apply; the tasks of later revisions have not begun.
QueueIsOfWaiting ==
  /\ \A t \in Tasks : task[t].pc = "wait" <=> (\E i \in DOMAIN queue : queue[i] = t)
  /\ \A i, j \in DOMAIN queue : queue[i] = queue[j] => i = j
  /\ \A t \in Tasks : task[t].pc \in {"send", "wait"} => task[t].policy \in Policies
  /\ \A t \in 1..MaxRevision : t > revision => task[t].pc = "idle"

\* What is being installed is the policy of the command in hand, and the live
\* table, while it is there, was made from it; then policy.json is it, and then
\* ruleset.json.
InstallsInOrder ==
  apply.step \in Installing =>
    /\ queue # <<>> /\ ctl.policy = task[Head(queue)].policy
    /\ table # NoTable => table.revision = ctl.policy.revision
    /\ apply.step # "persist" => disk.policy = ctl.policy
    /\ apply.step = "verify" => disk.ruleset # NoTable /\ disk.ruleset.revision = ctl.policy.revision

\* Nobody knows a revision that was not committed.
RevisionsAreCommitted ==
  /\ \A t \in Tasks : Known(task[t].policy).revision <= revision
  /\ Known(ctl.policy).revision <= revision
  /\ Known(disk.policy).revision <= revision
  /\ Known(disk.policyBefore).revision <= revision

\* As long as nothing failed the last revision is there or on its way.
LastIsOnItsWay ==
  upsets = 0 /\ revision > 0 =>
    \/ Known(ctl.policy).revision = revision
    \/ \E t \in Tasks : task[t].pc = "read"
    \/ \E t \in Tasks : task[t].pc \in {"send", "wait"} /\ task[t].policy.revision = revision

IndInv ==
  /\ Typed /\ QueueIsOfWaiting /\ InstallsInOrder /\ RevisionsAreCommitted
  /\ ConfirmedPolicyHolds /\ LastIsOnItsWay

-----------------------------------------------------------------------------
(* Policies, tables and what #ensure does to them.                          *)

\* The contents a table can have.
LEMMA IsContent ==
  ASSUME NEW allow \in SUBSET {r \in RuleChoices : r.action = "allow"},
         NEW denyExtra \in SUBSET Networks(RuleChoices, "deny"),
         NEW p \in {Protected, Unresolved, {}}, NEW l \in Locals
  PROVE  [allow |-> allow, denyExtra |-> denyExtra, protected |-> p \cup l] \in Contents
  <1>1. allow \in Allows /\ denyExtra \in Denials
    BY DEF Allows, Denials
  <1>2. p \cup l \in Shields
    BY DEF Shields, Locals
  <1>3. ASSUME NEW shield \in Shields
        PROVE  [allow |-> allow, denyExtra |-> denyExtra, protected |-> shield] \in Contents
    BY <1>1 DEF Contents
  <1>. QED BY <1>2, <1>3

\* A policy has a revision from the bounds, rules from the choices and blocks.
LEMMA PoliciesAreTyped ==
  ASSUME NEW policy \in Policies \cup {NoPolicy}, NEW local \in Locals
  PROVE  /\ Known(policy).revision \in -1..MaxRevision
         /\ policy # NoPolicy => policy.revision \in 0..MaxRevision /\ Known(policy) = policy
         /\ Known(policy).revision >= 0 => policy # NoPolicy
         /\ Content(Known(policy), local) \in Contents
         /\ TableOf(Known(policy), local) \in Tables
         /\ TableOf(Known(policy), local).revision = Known(policy).revision
  <1>. USE EgressPolicyAssumption
  <1>1. CASE policy = NoPolicy
    <2>1. /\ Known(policy).revision = -1 /\ Known(policy).allow = {}
          /\ Known(policy).denyExtra = {} /\ Known(policy).protected = {}
      BY <1>1 DEF Known, BasePolicy, egressPolicyForWorkers, Networks
    <2>2. Content(Known(policy), local) \in Contents
      BY <2>1, IsContent DEF Content
    <2>. QED BY <1>1, <2>1, <2>2 DEF TableOf, Tables
  <1>2. CASE policy # NoPolicy
    <2>1. PICK r \in 0..MaxRevision, rs \in SUBSET RuleChoices, p \in {Protected, Unresolved} :
            policy = egressPolicyForWorkers(r, rs, p)
      BY <1>2 DEF Policies
    <2>2. /\ policy.revision = r /\ policy.allow = {x \in rs : x.action = "allow"}
          /\ policy.denyExtra = Networks(rs, "deny") /\ policy.protected = p
      BY <2>1 DEF egressPolicyForWorkers
    <2>3. /\ policy.allow \in SUBSET {x \in RuleChoices : x.action = "allow"}
          /\ policy.denyExtra \in SUBSET Networks(RuleChoices, "deny")
      BY <2>2 DEF Networks
    <2>4. Content(policy, local) \in Contents
      BY <2>2, <2>3, IsContent DEF Content
    <2>5. Known(policy) = policy
      BY <1>2 DEF Known
    <2>. QED BY <1>2, <2>2, <2>4, <2>5 DEF TableOf, Tables
  <1>. QED BY <1>1, <1>2

\* What a policy read from the rows is.
LEMMA ReadIsPolicy ==
  ASSUME Typed, NEW p \in {Protected, Unresolved}
  PROVE  /\ egressPolicyForWorkers(revision, rules, p) \in Policies
         /\ egressPolicyForWorkers(revision, rules, p).revision = revision
  <1>1. revision \in 0..MaxRevision /\ rules \in SUBSET RuleChoices
    BY DEF Typed
  <1>2. egressPolicyForWorkers(revision, rules, p) \in Policies
    BY <1>1 DEF Policies
  <1>. QED BY <1>2 DEF egressPolicyForWorkers

\* What #ensure may leave, whether it succeeds or fails: the table, policy.json and
\* ruleset.json are each as they were or as the policy wants them.
Outcome(policy, local) ==
  /\ ctl' \in CtlStates /\ ctl'.policy = policy /\ ctl'.local = local
  /\ table' \in {table, TableOf(Known(policy), local)}
  /\ disk' \in DiskStates
  /\ disk'.policy \in {disk.policy, policy}
  /\ disk'.policyBefore \in {disk.policyBefore, disk.policy}
  /\ disk'.ruleset \in {disk.ruleset, TableOf(Known(policy), local)}

\* Writing one of the files keeps what it held before, and leaves the other alone.
LEMMA WritesAreTyped ==
  ASSUME NEW dsk \in DiskStates, NEW policy \in Policies \cup {NoPolicy}, NEW tbl \in Tables
  PROVE  /\ PolicyWritten(dsk, policy) \in DiskStates
         /\ PolicyWritten(dsk, policy).policy \in {dsk.policy, policy}
         /\ policy # NoPolicy => PolicyWritten(dsk, policy).policy = policy
         /\ PolicyWritten(dsk, policy).policyBefore \in {dsk.policyBefore, dsk.policy}
         /\ PolicyWritten(dsk, policy).ruleset = dsk.ruleset
         /\ RulesetWritten(dsk, tbl) \in DiskStates
         /\ RulesetWritten(dsk, tbl).policy = dsk.policy
         /\ RulesetWritten(dsk, tbl).policyBefore = dsk.policyBefore
         /\ RulesetWritten(dsk, tbl).ruleset = tbl
  BY DEF PolicyWritten, RulesetWritten, DiskStates

LEMMA EnsureOutcomes ==
  ASSUME Typed, NEW policy \in Policies \cup {NoPolicy}, NEW local \in Locals,
         \E result \in ensureFails(policy, local) \cup {ensureSucceeds(policy, local)} :
           Ensured(policy, local, result)
  PROVE  Outcome(policy, local)
  <1>. DEFINE new == TableOf(Known(policy), local)
  <1>1. new \in Tables
    BY PoliciesAreTyped
  <1>2. PICK result \in ensureFails(policy, local) \cup {ensureSucceeds(policy, local)} :
          Ensured(policy, local, result)
    OBVIOUS
  <1>3. /\ result.table \in {table, new} /\ result.enforced \in BOOLEAN
        /\ result.disk \in DiskStates
        /\ result.disk.policy \in {disk.policy, policy}
        /\ result.disk.policyBefore \in {disk.policyBefore, disk.policy}
        /\ result.disk.ruleset \in {disk.ruleset, new}
    <2>. DEFINE Fits(dsk) ==
           /\ dsk \in DiskStates
           /\ dsk.policy \in {disk.policy, policy}
           /\ dsk.policyBefore \in {disk.policyBefore, disk.policy}
           /\ dsk.ruleset \in {disk.ruleset, new}
    <2>1. Fits(disk)
      BY DEF Typed
    <2>2. Fits(PolicyWritten(disk, policy))
      <3>. HIDE DEF new
      <3>. QED BY <1>1, WritesAreTyped DEF Typed
    <2>3. Fits(Written(policy, new))
      <3>1. PolicyWritten(disk, policy) \in DiskStates
        BY <2>2
      <3>. QED BY <1>1, <2>2, <3>1, WritesAreTyped DEF Written
    <2>. HIDE DEF Fits
    <2>4. CASE result = ensureSucceeds(policy, local)
      <3>1. result = Result(table, disk, TRUE) \/ result = Result(new, Written(policy, new), TRUE)
        BY <2>4 DEF ensureSucceeds
      <3>2. result.disk \in {disk, Written(policy, new)} /\ result.table \in {table, new} /\ result.enforced
        BY <3>1 DEF Result
      <3>3. Fits(result.disk)
        BY <2>1, <2>3, <3>2
      <3>. QED BY <3>2, <3>3 DEF Fits
    <2>5. CASE result \in ensureFails(policy, local)
      <3>1. \/ result = Result(table, disk, FALSE)
            \/ \E dsk \in {disk, PolicyWritten(disk, policy), Written(policy, new)} : result = Result(new, dsk, FALSE)
        BY <2>5 DEF ensureFails
      <3>2. /\ result.disk \in {disk, PolicyWritten(disk, policy), Written(policy, new)}
            /\ result.table \in {table, new} /\ result.enforced = FALSE
        BY <3>1 DEF Result
      <3>3. Fits(result.disk)
        BY <2>1, <2>2, <2>3, <3>2
      <3>. QED BY <3>2, <3>3 DEF Fits
    <2>. QED BY <1>2, <2>4, <2>5
  <1>4. ctl' = [policy |-> policy, local |-> local, enforced |-> result.enforced]
    BY <1>2 DEF Ensured
  <1>. QED BY <1>2, <1>3, <1>4 DEF Ensured, Outcome, CtlStates

LEMMA EnsuresOutcomes ==
  ASSUME Typed, NEW policy \in Policies \cup {NoPolicy}, NEW local \in Locals, Ensures(policy, local)
  PROVE  Outcome(policy, local)
  BY EnsureOutcomes DEF Ensures

\* What stays of a table somebody emptied a set of.
LEMMA EmptiedIsTable ==
  ASSUME NEW tbl \in Tables, NEW emptied \in {"protected", "denyExtra"}
  PROVE  /\ [tbl EXCEPT !.content[emptied] = {}] \in Tables
         /\ [tbl EXCEPT !.content[emptied] = {}].revision = tbl.revision
  <1>1. tbl.content \in Contents
    BY DEF Tables
  <1>2. PICK allow \in Allows, denyExtra \in Denials, shield \in Shields :
          tbl.content = [allow |-> allow, denyExtra |-> denyExtra, protected |-> shield]
    BY <1>1 DEF Contents
  <1>3. {} \in Denials /\ {} \in Shields
    BY DEF Denials, Shields
  <1>4. ASSUME NEW d \in Denials, NEW s \in Shields
        PROVE  [allow |-> allow, denyExtra |-> d, protected |-> s] \in Contents
    BY DEF Contents
  <1>5. [tbl.content EXCEPT ![emptied] = {}] \in Contents
    <2>1. CASE emptied = "protected"
      <3>1. [tbl.content EXCEPT ![emptied] = {}] = [allow |-> allow, denyExtra |-> denyExtra, protected |-> {}]
        BY <1>2, <2>1
      <3>. QED BY <1>3, <1>4, <3>1
    <2>2. CASE emptied = "denyExtra"
      <3>1. [tbl.content EXCEPT ![emptied] = {}] = [allow |-> allow, denyExtra |-> {}, protected |-> shield]
        BY <1>2, <2>2
      <3>. QED BY <1>3, <1>4, <3>1
    <2>. QED BY <2>1, <2>2
  <1>. QED BY <1>5 DEF Tables

-----------------------------------------------------------------------------
(* Steps that several actions share.                                        *)

\* The base policy has a revision below every committed one.
LEMMA KnownIsInt ==
  ASSUME NEW policy \in Policies \cup {NoPolicy}
  PROVE  /\ Known(policy).revision \in Int
         /\ policy \in Policies => policy # NoPolicy /\ Known(policy) = policy
         /\ Known(NoPolicy).revision = -1
  <1>1. {} \in Locals
    BY DEF Locals
  <1>2. Known(NoPolicy).revision = -1
    BY DEF Known, BasePolicy, egressPolicyForWorkers
  <1>3. policy \in Policies => policy # NoPolicy
    BY NothingYet
  <1>. QED BY <1>1, <1>2, <1>3, PoliciesAreTyped

\* The command in hand is a task that waits, with a policy.
LEMMA HeadWaits ==
  ASSUME Typed, QueueIsOfWaiting, queue # <<>>
  PROVE  /\ Head(queue) \in Tasks /\ task[Head(queue)].pc = "wait"
         /\ task[Head(queue)].policy \in Policies
         /\ Tail(queue) \in Seq(Tasks)
  <1>1. queue \in Seq(Tasks) /\ 1 \in DOMAIN queue /\ Head(queue) = queue[1]
    BY DEF Typed
  <1>2. Head(queue) \in Tasks
    BY <1>1
  <1>. QED BY <1>1, <1>2 DEF QueueIsOfWaiting

\* An answer ends the command in hand.
LEMMA AnswerEnds ==
  ASSUME Typed, QueueIsOfWaiting, queue # <<>>, NEW ok, Answered(Head(queue), ok),
         queue' = Tail(queue), revision' = revision
  PROVE  /\ QueueIsOfWaiting'
         /\ task' \in [Tasks -> TaskStates] /\ queue' \in Seq(Tasks)
         /\ task' = [task EXCEPT ![Head(queue)] = Done]
         /\ confirmed' \in {confirmed, confirmed \cup {task[Head(queue)].policy.revision}}
  <1>1. /\ task' = [task EXCEPT ![Head(queue)] = Done]
        /\ confirmed' \in {confirmed, confirmed \cup {task[Head(queue)].policy.revision}}
    BY DEF Answered
  <1>2. task \in [Tasks -> TaskStates] /\ queue \in Seq(Tasks)
    BY DEF Typed
  <1>3. Done \in TaskStates
    BY DEF Done, TaskStates
  <1>4. \A t \in Tasks : task'[t] = IF t = Head(queue) THEN Done ELSE task[t]
    BY <1>1, <1>2
  <1>5. /\ DOMAIN queue' = 1..(Len(queue) - 1) /\ DOMAIN queue = 1..Len(queue)
        /\ \A i \in DOMAIN queue' : queue'[i] = queue[i + 1] /\ i + 1 \in DOMAIN queue /\ i \in Nat
        /\ Len(queue) \in Nat \ {0} /\ Head(queue) = queue[1]
    BY <1>2
  <1>6. \A t \in Tasks : task'[t].pc = "wait" <=> (\E i \in DOMAIN queue' : queue'[i] = t)
    <2>. SUFFICES ASSUME NEW t \in Tasks
                  PROVE  task'[t].pc = "wait" <=> (\E i \in DOMAIN queue' : queue'[i] = t)
      OBVIOUS
    <2>1. CASE t = Head(queue)
      <3>1. task'[t].pc = "done"
        BY <1>4, <2>1 DEF Done
      <3>2. ASSUME NEW i \in DOMAIN queue', queue'[i] = t PROVE FALSE
        <4>1. i + 1 = 1
          BY <1>5, <2>1, <3>2 DEF QueueIsOfWaiting
        <4>. QED BY <1>5, <4>1
      <3>. QED BY <3>1, <3>2
    <2>2. CASE t # Head(queue)
      <3>1. ASSUME NEW i \in DOMAIN queue, queue[i] = t PROVE \E j \in DOMAIN queue' : queue'[j] = t
        <4>1. i # 1 /\ i \in 1..Len(queue)
          BY <1>5, <2>2, <3>1
        <4>2. i - 1 \in DOMAIN queue' /\ i - 1 + 1 = i
          BY <1>5, <4>1
        <4>3. queue'[i - 1] = queue[i]
          BY <1>5, <4>2
        <4>. QED BY <3>1, <4>2, <4>3
      <3>2. ASSUME NEW j \in DOMAIN queue', queue'[j] = t PROVE \E i \in DOMAIN queue : queue[i] = t
        BY <1>5, <3>2
      <3>3. task[t].pc = "wait" <=> (\E i \in DOMAIN queue : queue[i] = t)
        BY DEF QueueIsOfWaiting
      <3>. QED BY <1>4, <2>2, <3>1, <3>2, <3>3
    <2>. QED BY <2>1, <2>2
  <1>7. \A i, j \in DOMAIN queue' : queue'[i] = queue'[j] => i = j
    <2>. SUFFICES ASSUME NEW i \in DOMAIN queue', NEW j \in DOMAIN queue', queue'[i] = queue'[j]
                  PROVE  i = j
      OBVIOUS
    <2>1. i + 1 = j + 1
      BY <1>5 DEF QueueIsOfWaiting
    <2>. QED BY <1>5, <2>1
  <1>8. /\ \A t \in Tasks : task'[t].pc \in {"send", "wait"} => task'[t].policy \in Policies
        /\ \A t \in 1..MaxRevision : t > revision' => task'[t].pc = "idle"
    <2>1. Head(queue) \in Tasks /\ task[Head(queue)].pc = "wait"
      BY HeadWaits
    <2>2. \A t \in 1..MaxRevision : t \in Tasks
      BY DEF Tasks
    <2>. QED BY <1>4, <2>1, <2>2 DEF QueueIsOfWaiting, Done
  <1>9. task' \in [Tasks -> TaskStates] /\ queue' \in Seq(Tasks)
    BY <1>1, <1>2, <1>3
  <1>. QED BY <1>1, <1>6, <1>7, <1>8, <1>9 DEF QueueIsOfWaiting

\* What is confirmed holds through whatever #ensure does to the policy in force.
LEMMA EnsureKeepsConfirmed ==
  ASSUME Typed, ConfirmedPolicyHolds, NEW local \in Locals, Outcome(ctl.policy, local),
         confirmed' = confirmed
  PROVE  ConfirmedPolicyHolds'
  <1>. SUFFICES ASSUME NEW r \in confirmed
                PROVE  /\ Known(ctl'.policy).revision >= r
                       /\ Known(disk'.policy).revision >= r
                       /\ table' # NoTable => table'.revision >= r
                       /\ disk'.ruleset # NoTable /\ disk'.ruleset.revision >= r
    BY DEF ConfirmedPolicyHolds
  <1>1. ctl.policy \in Policies \cup {NoPolicy}
    BY DEF Typed, CtlStates
  <1>2. TableOf(Known(ctl.policy), local).revision = Known(ctl.policy).revision
    BY <1>1, PoliciesAreTyped
  <1>3. TableOf(Known(ctl.policy), local) # NoTable
    BY <1>1, PoliciesAreTyped, NothingYet
  <1>. QED BY <1>2, <1>3 DEF Outcome, ConfirmedPolicyHolds

\* Revisions in the store only grow, and a step that leaves the policy in force and
\* the tasks alone leaves the last policy where it is.
LEMMA PolicyStays ==
  ASSUME Typed, RevisionsAreCommitted, LastIsOnItsWay, NEW local \in Locals,
         Outcome(ctl.policy, local), UNCHANGED <<task, revision>>, upsets' \in {upsets, upsets + 1}
  PROVE  RevisionsAreCommitted' /\ LastIsOnItsWay'
  <1>1. upsets \in Nat /\ (upsets' = 0 => upsets = 0)
    BY DEF Typed
  <1>2. RevisionsAreCommitted'
    BY DEF RevisionsAreCommitted, Outcome
  <1>3. LastIsOnItsWay'
    BY <1>1 DEF LastIsOnItsWay, Outcome
  <1>. QED BY <1>2, <1>3

\* What can go wrong is counted.
LEMMA UpsetsAreCounted ==
  ASSUME Typed, Calm \/ Upset
  PROVE  upsets' \in {upsets, upsets + 1} /\ upsets' \in Nat
  BY DEF Typed, Calm, Upset

-----------------------------------------------------------------------------
(* Each action keeps the invariant.                                         *)

\* Two kinds of steps leave the Worker alone: those that leave the tasks alone too,
\* and those that change one task that is not waiting.
LEMMA WorkerIsLeft ==
  ASSUME IndInv, UNCHANGED <<queue, worker, confirmed>>,
         \A t \in Tasks : task[t].pc = "wait" => task'[t] = task[t]
  PROVE  InstallsInOrder' /\ ConfirmedPolicyHolds'
  <1>. USE DEF IndInv, worker
  <1>1. ConfirmedPolicyHolds'
    BY DEF ConfirmedPolicyHolds
  <1>2. InstallsInOrder'
    BY HeadWaits DEF InstallsInOrder
  <1>. QED BY <1>1, <1>2

LEMMA AskKeeps ==
  ASSUME IndInv, NEW a \in Admins, NEW rule \in RuleChoices, AskAdd(a, rule) \/ AskDelete(a, rule)
  PROVE  IndInv'
  <1>. USE DEF IndInv, worker
  <1>1. /\ UNCHANGED <<rules, revision, task, queue, worker, confirmed>>
        /\ upsets' \in {upsets, upsets + 1} /\ upsets' \in Nat
    BY UpsetsAreCounted DEF AskAdd, AskDelete, Resolves
  <1>2. admin' \in [Admins -> AdminStates]
    <2>1. PICK edit \in AdminStates : admin' = [admin EXCEPT ![a] = edit]
      BY DEF AskAdd, AskDelete, AdminStates
    <2>. QED BY <2>1 DEF Typed
  <1>3. Typed'
    BY <1>1, <1>2 DEF Typed
  <1>4. QueueIsOfWaiting' /\ RevisionsAreCommitted'
    BY <1>1 DEF QueueIsOfWaiting, RevisionsAreCommitted
  <1>5. InstallsInOrder' /\ ConfirmedPolicyHolds'
    BY <1>1, WorkerIsLeft
  <1>6. LastIsOnItsWay'
    BY <1>1 DEF LastIsOnItsWay, Typed
  <1>. QED BY <1>3, <1>4, <1>5, <1>6

\* The task of a revision begins when the revision is committed.
LEMMA CommitKeeps ==
  ASSUME IndInv, NEW a \in Admins, Commit(a)
  PROVE  IndInv'
  <1>. USE DEF IndInv, worker
  <1>1. /\ UNCHANGED <<queue, worker, confirmed, upsets>> /\ admin' = [admin EXCEPT ![a] = Idle]
        /\ revision < MaxRevision
    BY DEF Commit, Calm
  <1>2. revision \in 0..MaxRevision /\ MaxRevision \in Nat
    BY EgressPolicyAssumption DEF Typed
  <1>3. revision + 1 \in 1..MaxRevision /\ revision + 1 \in Tasks
    BY <1>1, <1>2 DEF Tasks
  <1>4. \/ UNCHANGED <<rules, revision, task>>
        \/ /\ revision' = revision + 1
           /\ task' = [task EXCEPT ![revision + 1].pc = "read"]
    BY DEF Commit
  <1>5. rules' \subseteq RuleChoices
    <2>1. CASE admin[a].step = "add"
      <3>1. admin[a] \in AdminStates
        BY DEF Typed
      <3>2. admin[a].rule \in RuleChoices
        BY <2>1, <3>1 DEF AdminStates
      <3>. QED BY <2>1, <3>2 DEF Commit, createEgressRule, Typed
    <2>2. CASE admin[a].step # "add"
      BY <2>2 DEF Commit, deleteEgressRule, Typed
    <2>. QED BY <2>1, <2>2
  <1>6. admin' \in [Admins -> AdminStates]
    BY <1>1 DEF Typed, AdminStates, Idle
  <1>7. task \in [Tasks -> TaskStates]
    BY DEF Typed
  <1>8. CASE UNCHANGED <<rules, revision, task>>
    BY <1>1, <1>5, <1>6, <1>8, WorkerIsLeft
    DEF Typed, QueueIsOfWaiting, RevisionsAreCommitted, LastIsOnItsWay
  <1>9. CASE /\ revision' = revision + 1
             /\ task' = [task EXCEPT ![revision + 1].pc = "read"]
    <2>. DEFINE n == revision + 1
    <2>1. task[n].pc = "idle" /\ task[n] \in TaskStates
      BY <1>2, <1>3, <1>7 DEF QueueIsOfWaiting
    <2>2. /\ task' \in [Tasks -> TaskStates]
          /\ task'[n].pc = "read" /\ task'[n].policy = task[n].policy
          /\ \A t \in Tasks : t # n => task'[t] = task[t]
      BY <1>3, <1>7, <1>9, <2>1 DEF TaskStates
    <2>3. Typed'
      BY <1>1, <1>2, <1>3, <1>5, <1>6, <1>9, <2>2 DEF Typed
    <2>4. QueueIsOfWaiting'
      <3>1. \A t \in Tasks : task'[t].pc = "wait" <=> task[t].pc = "wait"
        BY <2>1, <2>2
      <3>2. \A t \in Tasks : task'[t].pc \in {"send", "wait"} => task'[t].policy \in Policies
        BY <2>2 DEF QueueIsOfWaiting
      <3>3. \A t \in 1..MaxRevision : t > revision' => task'[t].pc = "idle"
        BY <1>2, <1>9, <2>2 DEF QueueIsOfWaiting, Tasks
      <3>. QED BY <1>1, <3>1, <3>2, <3>3 DEF QueueIsOfWaiting
    <2>5. RevisionsAreCommitted'
      <3>1. /\ \A t \in Tasks : Known(task[t].policy).revision \in Int
            /\ Known(ctl.policy).revision \in Int
            /\ Known(disk.policy).revision \in Int /\ Known(disk.policyBefore).revision \in Int
        BY <1>7, KnownIsInt DEF Typed, TaskStates, CtlStates, DiskStates
      <3>2. \A t \in Tasks : task'[t].policy = task[t].policy
        BY <2>2
      <3>. QED BY <1>1, <1>2, <1>9, <3>1, <3>2 DEF RevisionsAreCommitted
    <2>6. InstallsInOrder' /\ ConfirmedPolicyHolds'
      BY <1>1, <2>1, <2>2, WorkerIsLeft
    <2>7. LastIsOnItsWay'
      BY <1>3, <2>2 DEF LastIsOnItsWay
    <2>. QED BY <2>3, <2>4, <2>5, <2>6, <2>7
  <1>. QED BY <1>4, <1>8, <1>9

LEMMA BeginStartKeeps ==
  ASSUME IndInv, NEW t \in Starts, BeginStart(t)
  PROVE  IndInv'
  <1>. USE DEF IndInv, worker, store
  <1>1. /\ UNCHANGED <<rules, revision, admin, queue, worker, confirmed, upsets>>
        /\ task[t].pc = "idle" /\ task' = [task EXCEPT ![t].pc = "read"]
    BY DEF BeginStart, Calm
  <1>2. t \in Tasks /\ t \notin 1..MaxRevision /\ task \in [Tasks -> TaskStates]
    BY EgressPolicyAssumption DEF Typed, Tasks
  <1>3. /\ task' \in [Tasks -> TaskStates]
        /\ task'[t].pc = "read" /\ task'[t].policy = task[t].policy
        /\ \A u \in Tasks : u # t => task'[u] = task[u]
    BY <1>1, <1>2 DEF TaskStates
  <1>4. Typed'
    BY <1>1, <1>3 DEF Typed
  <1>5. QueueIsOfWaiting'
    <2>1. \A u \in Tasks : task'[u].pc = "wait" <=> task[u].pc = "wait"
      BY <1>1, <1>3
    <2>2. \A u \in Tasks : task'[u].pc \in {"send", "wait"} => task'[u].policy \in Policies
      BY <1>3 DEF QueueIsOfWaiting
    <2>3. \A u \in 1..MaxRevision : u > revision' => task'[u].pc = "idle"
      BY <1>1, <1>2, <1>3 DEF QueueIsOfWaiting, Tasks
    <2>. QED BY <1>1, <2>1, <2>2, <2>3 DEF QueueIsOfWaiting
  <1>6. RevisionsAreCommitted'
    <2>1. \A u \in Tasks : task'[u].policy = task[u].policy
      BY <1>3
    <2>. QED BY <1>1, <2>1 DEF RevisionsAreCommitted
  <1>7. InstallsInOrder' /\ ConfirmedPolicyHolds'
    BY <1>1, <1>3, WorkerIsLeft
  <1>8. LastIsOnItsWay'
    BY <1>2, <1>3 DEF LastIsOnItsWay
  <1>. QED BY <1>4, <1>5, <1>6, <1>7, <1>8

\* What is read is the last committed revision.
LEMMA ReadPolicyKeeps ==
  ASSUME IndInv, NEW t \in Tasks, ReadPolicy(t)
  PROVE  IndInv'
  <1>. USE DEF IndInv, worker, store
  <1>1. /\ UNCHANGED <<rules, revision, admin, queue, worker, confirmed>>
        /\ task[t].pc = "read" /\ upsets' \in Nat
    BY UpsetsAreCounted DEF ReadPolicy, Resolves
  <1>2. PICK p \in {Protected, Unresolved} :
          task' = [task EXCEPT ![t] = [pc |-> "send", policy |-> egressPolicyForWorkers(revision, rules, p)]]
    BY DEF ReadPolicy
  <1>. DEFINE new == egressPolicyForWorkers(revision, rules, p)
  <1>3. new \in Policies /\ new.revision = revision /\ Known(new) = new
    BY ReadIsPolicy, KnownIsInt
  <1>4. task \in [Tasks -> TaskStates] /\ revision \in 0..MaxRevision
    BY DEF Typed
  <1>5. /\ task' \in [Tasks -> TaskStates]
        /\ task'[t].pc = "send" /\ task'[t].policy = new
        /\ \A u \in Tasks : u # t => task'[u] = task[u]
    BY <1>2, <1>3, <1>4 DEF TaskStates
  <1>. HIDE DEF new
  <1>6. Typed'
    BY <1>1, <1>5 DEF Typed
  <1>7. QueueIsOfWaiting'
    <2>1. \A u \in Tasks : task'[u].pc = "wait" <=> task[u].pc = "wait"
      BY <1>1, <1>5
    <2>2. \A u \in Tasks : task'[u].pc \in {"send", "wait"} => task'[u].policy \in Policies
      BY <1>3, <1>5 DEF QueueIsOfWaiting
    <2>3. \A u \in 1..MaxRevision : u > revision' => task'[u].pc = "idle"
      BY <1>1, <1>5 DEF QueueIsOfWaiting, Tasks
    <2>. QED BY <1>1, <2>1, <2>2, <2>3 DEF QueueIsOfWaiting
  <1>8. RevisionsAreCommitted'
    BY <1>1, <1>3, <1>4, <1>5 DEF RevisionsAreCommitted
  <1>9. InstallsInOrder' /\ ConfirmedPolicyHolds'
    BY <1>1, <1>5, WorkerIsLeft
  <1>10. LastIsOnItsWay'
    BY <1>1, <1>3, <1>5 DEF LastIsOnItsWay
  <1>. QED BY <1>6, <1>7, <1>8, <1>9, <1>10

LEMMA DispatchKeeps ==
  ASSUME IndInv, NEW t \in Tasks, Dispatch(t)
  PROVE  IndInv'
  <1>. USE DEF IndInv, worker, store
  <1>1. /\ UNCHANGED <<rules, revision, admin, worker, confirmed>>
        /\ task[t].pc = "send" /\ upsets' \in Nat
    BY UpsetsAreCounted DEF Dispatch
  <1>2. task \in [Tasks -> TaskStates] /\ queue \in Seq(Tasks) /\ task[t] \in TaskStates
    BY DEF Typed
  <1>3. ~\E i \in DOMAIN queue : queue[i] = t
    BY <1>1 DEF QueueIsOfWaiting
  <1>4. CASE task' = [task EXCEPT ![t].pc = "wait"] /\ queue' = Append(queue, t) /\ Calm
    <2>1. /\ task' \in [Tasks -> TaskStates]
          /\ task'[t].pc = "wait" /\ task'[t].policy = task[t].policy
          /\ \A u \in Tasks : u # t => task'[u] = task[u]
      BY <1>2, <1>4 DEF TaskStates
    <2>2. /\ queue' \in Seq(Tasks) /\ DOMAIN queue' = 1..(Len(queue) + 1)
          /\ DOMAIN queue = 1..Len(queue) /\ Len(queue) \in Nat
          /\ queue'[Len(queue) + 1] = t /\ \A i \in DOMAIN queue : queue'[i] = queue[i]
          /\ queue # <<>> => Head(queue') = Head(queue)
      BY <1>2, <1>4
    <2>3. Typed'
      BY <1>1, <2>1, <2>2 DEF Typed
    <2>4. QueueIsOfWaiting'
      <3>1. \A u \in Tasks : task'[u].pc = "wait" <=> (\E i \in DOMAIN queue' : queue'[i] = u)
        <4>1. \A u \in Tasks : u # t => (task'[u].pc = "wait" <=> (\E i \in DOMAIN queue : queue[i] = u))
          BY <2>1 DEF QueueIsOfWaiting
        <4>2. \A i \in DOMAIN queue' : i \in DOMAIN queue \/ i = Len(queue) + 1
          BY <2>2
        <4>3. Len(queue) + 1 \in DOMAIN queue' /\ \A i \in DOMAIN queue : i \in DOMAIN queue'
          BY <2>2
        <4>4. queue'[Len(queue) + 1] = t /\ \A i \in DOMAIN queue : queue'[i] = queue[i]
          BY <2>2
        <4>. QED BY <2>1, <4>1, <4>2, <4>3, <4>4
      <3>2. \A i, j \in DOMAIN queue' : queue'[i] = queue'[j] => i = j
        BY <1>3, <2>2 DEF QueueIsOfWaiting
      <3>3. \A u \in Tasks : task'[u].pc \in {"send", "wait"} => task'[u].policy \in Policies
        BY <1>1, <2>1 DEF QueueIsOfWaiting
      <3>4. \A u \in 1..MaxRevision : u > revision' => task'[u].pc = "idle"
        BY <1>1, <2>1 DEF QueueIsOfWaiting, Tasks
      <3>. QED BY <3>1, <3>2, <3>3, <3>4 DEF QueueIsOfWaiting
    <2>5. RevisionsAreCommitted'
      <3>1. \A u \in Tasks : task'[u].policy = task[u].policy
        BY <2>1
      <3>. QED BY <1>1, <3>1 DEF RevisionsAreCommitted
    <2>6. ConfirmedPolicyHolds'
      BY <1>1 DEF ConfirmedPolicyHolds
    <2>7. InstallsInOrder'
      <3>1. queue # <<>> => Head(queue) \in Tasks /\ Head(queue) # t
        BY <1>1, HeadWaits
      <3>. QED BY <1>1, <2>1, <2>2, <3>1 DEF InstallsInOrder
    <2>8. LastIsOnItsWay'
      <3>1. ASSUME upsets' = 0, revision' > 0
            PROVE  \/ Known(ctl.policy).revision = revision
                   \/ \E u \in Tasks : task[u].pc = "read"
                   \/ \E u \in Tasks : task[u].pc \in {"send", "wait"} /\ task[u].policy.revision = revision
        BY <1>1, <1>4, <3>1 DEF LastIsOnItsWay, Calm
      <3>2. ASSUME NEW u \in Tasks, task[u].pc = "read" PROVE task'[u].pc = "read"
        BY <1>1, <2>1, <3>2
      <3>3. ASSUME NEW u \in Tasks, task[u].pc \in {"send", "wait"}
            PROVE  task'[u].pc \in {"send", "wait"} /\ task'[u].policy = task[u].policy
        BY <2>1, <3>3
      <3>. QED BY <1>1, <3>1, <3>2, <3>3 DEF LastIsOnItsWay
    <2>. QED BY <2>3, <2>4, <2>5, <2>6, <2>7, <2>8
  <1>5. CASE task' = [task EXCEPT ![t] = Done] /\ Upset /\ UNCHANGED queue
    <2>1. /\ task' \in [Tasks -> TaskStates]
          /\ task'[t].pc = "done" /\ task'[t].policy = NoPolicy
          /\ \A u \in Tasks : u # t => task'[u] = task[u]
      BY <1>2, <1>5 DEF TaskStates, Done
    <2>2. Typed'
      BY <1>1, <1>5, <2>1 DEF Typed
    <2>3. QueueIsOfWaiting'
      <3>1. \A u \in Tasks : task'[u].pc = "wait" <=> task[u].pc = "wait"
        BY <1>1, <2>1
      <3>2. \A u \in Tasks : task'[u].pc \in {"send", "wait"} => task'[u].policy \in Policies
        BY <2>1 DEF QueueIsOfWaiting
      <3>3. \A u \in 1..MaxRevision : u > revision' => task'[u].pc = "idle"
        BY <1>1, <2>1 DEF QueueIsOfWaiting, Tasks
      <3>. QED BY <1>5, <3>1, <3>2, <3>3 DEF QueueIsOfWaiting
    <2>4. RevisionsAreCommitted'
      <3>1. Known(NoPolicy).revision = -1 /\ revision \in 0..MaxRevision
        BY KnownIsInt DEF Typed
      <3>2. -1 <= revision
        BY <3>1
      <3>. QED BY <1>1, <2>1, <3>1, <3>2 DEF RevisionsAreCommitted
    <2>5. InstallsInOrder' /\ ConfirmedPolicyHolds'
      BY <1>1, <1>5, <2>1, WorkerIsLeft
    <2>6. LastIsOnItsWay'
      BY <1>5 DEF Upset, Typed, LastIsOnItsWay
    <2>. QED BY <2>2, <2>3, <2>4, <2>5, <2>6
  <1>. QED BY <1>4, <1>5 DEF Dispatch

-----------------------------------------------------------------------------
(* The controller.                                                          *)

\* Where #ensure leaves table and disk typed, the rest is as it was.
LEMMA EnsureKeeps ==
  ASSUME IndInv, NEW local \in Locals, Outcome(ctl.policy, local), Calm \/ Upset,
         UNCHANGED <<store, task, queue, confirmed>>, apply' \in [step : {"idle"}]
  PROVE  IndInv'
  <1>. USE DEF IndInv, store
  <1>1. ctl.policy \in Policies \cup {NoPolicy}
    BY DEF Typed, CtlStates
  <1>2. table' \in Tables \cup {NoTable}
    BY <1>1, PoliciesAreTyped DEF Outcome, Typed
  <1>3. upsets' \in Nat /\ upsets' \in {upsets, upsets + 1}
    BY UpsetsAreCounted
  <1>4. Typed'
    BY <1>2, <1>3 DEF Typed, Outcome
  <1>5. QueueIsOfWaiting'
    BY DEF QueueIsOfWaiting
  <1>6. InstallsInOrder'
    BY DEF InstallsInOrder, Installing
  <1>7. RevisionsAreCommitted' /\ LastIsOnItsWay'
    BY <1>3, PolicyStays
  <1>8. ConfirmedPolicyHolds'
    BY EnsureKeepsConfirmed
  <1>. QED BY <1>4, <1>5, <1>6, <1>7, <1>8

LEMMA StepEnsureKeeps ==
  ASSUME IndInv, Ensure
  PROVE  IndInv'
  <1>1. ctl.policy \in Policies \cup {NoPolicy} /\ ctl.local \in Locals
    BY DEF IndInv, Typed, CtlStates
  <1>2. Outcome(ctl.policy, ctl.local) /\ (Calm \/ Upset)
    BY <1>1, EnsuresOutcomes DEF Ensure, IndInv, Ensures
  <1>3. apply' \in [step : {"idle"}]
    BY DEF Ensure, IndInv, Typed
  <1>. QED BY <1>1, <1>2, <1>3, EnsureKeeps DEF Ensure

LEMMA InitializeKeeps ==
  ASSUME IndInv, Initialize
  PROVE  IndInv'
  <1>1. ctl.policy \in Policies \cup {NoPolicy} /\ ctl.local \in Locals
    BY DEF IndInv, Typed, CtlStates
  <1>2. LocalProtected \in Locals
    BY DEF Locals
  <1>3. \E local \in Locals : Outcome(ctl.policy, local) /\ (Calm \/ Upset)
    <2>1. CASE \E local \in {LocalProtected, ctl.local} :
                 Refreshes(local) /\ Ensured(ctl.policy, local, ensureSucceeds(ctl.policy, local))
      <3>1. PICK local \in Locals :
                 Refreshes(local) /\ Ensured(ctl.policy, local, ensureSucceeds(ctl.policy, local))
        BY <1>1, <1>2, <2>1
      <3>2. Outcome(ctl.policy, local)
        BY <1>1, <3>1, EnsureOutcomes DEF IndInv
      <3>. QED BY <3>1, <3>2 DEF Refreshes
    <2>2. CASE /\ \E result \in ensureFails(ctl.policy, LocalProtected) :
                    Ensured(ctl.policy, LocalProtected, result)
               /\ Upset
      <3>1. Outcome(ctl.policy, LocalProtected)
        BY <1>1, <1>2, <2>2, EnsureOutcomes DEF IndInv
      <3>. QED BY <1>2, <2>2, <3>1
    <2>. QED BY <2>1, <2>2 DEF Initialize
  <1>4. apply' \in [step : {"idle"}] /\ UNCHANGED <<store, task, queue, confirmed>>
    BY DEF Initialize, Idle
  <1>. QED BY <1>3, <1>4, EnsureKeeps

\* An answer that confirms nothing: the command in hand is gone.
LEMMA AnswerKeeps ==
  ASSUME IndInv, queue # <<>>, NEW ok, Answered(Head(queue), ok), queue' = Tail(queue),
         UNCHANGED store, Calm \/ Upset
  PROVE  /\ QueueIsOfWaiting'
         /\ task' \in [Tasks -> TaskStates] /\ queue' \in Seq(Tasks)
         /\ \A t \in Tasks : Known(task'[t].policy).revision <= revision
         /\ \A t \in Tasks : t # Head(queue) => task'[t] = task[t]
         /\ upsets' \in {upsets, upsets + 1} /\ upsets' \in Nat
         /\ confirmed' \subseteq 0..MaxRevision
  <1>. USE DEF IndInv, store
  <1>1. /\ QueueIsOfWaiting' /\ task' \in [Tasks -> TaskStates] /\ queue' \in Seq(Tasks)
        /\ task' = [task EXCEPT ![Head(queue)] = Done]
        /\ confirmed' \in {confirmed, confirmed \cup {task[Head(queue)].policy.revision}}
    BY AnswerEnds
  <1>2. task \in [Tasks -> TaskStates] /\ revision \in 0..MaxRevision
    BY DEF Typed
  <1>3. \A t \in Tasks : task'[t] = IF t = Head(queue) THEN Done ELSE task[t]
    BY <1>1, <1>2
  <1>4. Known(Done.policy).revision <= revision
    BY <1>2, KnownIsInt DEF Done
  <1>5. \A t \in Tasks : Known(task'[t].policy).revision <= revision
    BY <1>3, <1>4 DEF RevisionsAreCommitted
  <1>6. confirmed' \subseteq 0..MaxRevision
    <2>1. {} \in Locals
      BY DEF Locals
    <2>2. task[Head(queue)].policy.revision \in 0..MaxRevision
      BY <2>1, HeadWaits, PoliciesAreTyped, NothingYet
    <2>. QED BY <1>1, <2>2 DEF Typed
  <1>. QED BY <1>1, <1>3, <1>5, <1>6, UpsetsAreCounted

\* A witness of LastIsOnItsWay other than the command in hand stays one.
LEMMA OthersStayOnTheirWay ==
  ASSUME IndInv, queue # <<>>, revision' = revision, upsets' \in {upsets, upsets + 1},
         task' \in [Tasks -> TaskStates],
         \A t \in Tasks : t # Head(queue) => task'[t] = task[t],
         Known(ctl.policy).revision = revision => Known(ctl'.policy).revision = revision,
         task[Head(queue)].policy.revision = revision => Known(ctl'.policy).revision = revision
  PROVE  LastIsOnItsWay'
  <1>. USE DEF IndInv
  <1>1. upsets' = 0 => upsets = 0
    BY DEF Typed
  <1>2. task[Head(queue)].pc = "wait"
    BY HeadWaits
  <1>3. ASSUME NEW t \in Tasks, task[t].pc = "read" PROVE task'[t].pc = "read"
    BY <1>2, <1>3
  <1>4. ASSUME NEW t \in Tasks, task[t].pc \in {"send", "wait"}, task[t].policy.revision = revision
        PROVE  \/ Known(ctl'.policy).revision = revision
               \/ task'[t].pc \in {"send", "wait"} /\ task'[t].policy.revision = revision
    BY <1>4
  <1>. QED BY <1>1, <1>3, <1>4 DEF LastIsOnItsWay

\* An ignored policy is older than the one reported, so that nothing is confirmed.
LEMMA IgnoreOlderKeeps ==
  ASSUME IndInv, IgnoreOlder
  PROVE  IndInv'
  <1>. USE DEF IndInv
  <1>. DEFINE t == Head(queue)
  <1>1. /\ apply.step = "idle" /\ queue # <<>> /\ IsOlder(task[t].policy)
        /\ Ensures(ctl.policy, ctl.local) /\ Answered(t, TRUE) /\ queue' = Tail(queue)
        /\ UNCHANGED <<store, apply>> /\ (Calm \/ Upset)
    BY DEF IgnoreOlder, Ensures
  <1>2. ctl.policy \in Policies \cup {NoPolicy} /\ ctl.local \in Locals
    BY DEF Typed, CtlStates
  <1>3. Outcome(ctl.policy, ctl.local)
    BY <1>1, <1>2, EnsuresOutcomes
  <1>4. table' \in Tables \cup {NoTable}
    BY <1>2, <1>3, PoliciesAreTyped DEF Outcome, Typed
  <1>5. /\ Known(ctl.policy) = ctl.policy /\ ctl'.policy = ctl.policy
        /\ Known(ctl.policy).revision \in Int /\ Known(ctl.policy).revision <= revision
        /\ task[t].policy.revision \in Int
    <2>1. task[t].policy \in Policies
      BY <1>1, HeadWaits
    <2>. QED BY <1>1, <1>2, <1>3, <2>1, KnownIsInt DEF Outcome, IsOlder, Known, RevisionsAreCommitted
  <1>6. task[t].policy.revision # Known(ctl'.policy).revision /\ task[t].policy.revision < revision
    <2>1. task[t].policy.revision < ctl.policy.revision /\ revision \in Int
      BY <1>1 DEF IsOlder, Typed
    <2>. QED BY <1>5, <2>1
  <1>7. UNCHANGED confirmed
    BY <1>1, <1>6 DEF Answered, Reported
  <1>8. /\ QueueIsOfWaiting'
        /\ task' \in [Tasks -> TaskStates] /\ queue' \in Seq(Tasks)
        /\ \A u \in Tasks : Known(task'[u].policy).revision <= revision
        /\ \A u \in Tasks : u # t => task'[u] = task[u]
        /\ upsets' \in {upsets, upsets + 1} /\ upsets' \in Nat
    BY <1>1, AnswerKeeps
  <1>9. Typed'
    BY <1>1, <1>3, <1>4, <1>7, <1>8 DEF Typed, Outcome, store
  <1>10. InstallsInOrder'
    BY <1>1 DEF InstallsInOrder, Installing
  <1>11. RevisionsAreCommitted'
    BY <1>1, <1>3, <1>8 DEF RevisionsAreCommitted, Outcome, store
  <1>12. ConfirmedPolicyHolds'
    BY <1>2, <1>3, <1>7, EnsureKeepsConfirmed
  <1>13. LastIsOnItsWay'
    <2>1. revision' = revision
      BY <1>1 DEF store
    <2>2. task[t].policy.revision # revision
      BY <1>5, <1>6 DEF Typed
    <2>. QED BY <1>1, <1>5, <1>8, <2>1, <2>2, OthersStayOnTheirWay
  <1>. QED BY <1>8, <1>9, <1>10, <1>11, <1>12, <1>13

\* A policy that is not older than the one in force has no smaller revision.
LEMMA NotOlder ==
  ASSUME Typed, QueueIsOfWaiting, RevisionsAreCommitted, queue # <<>>,
         ~IsOlder(task[Head(queue)].policy)
  PROVE  /\ task[Head(queue)].policy.revision >= Known(ctl.policy).revision
         /\ task[Head(queue)].policy.revision <= revision
         /\ task[Head(queue)].policy.revision \in 0..MaxRevision
         /\ Known(task[Head(queue)].policy) = task[Head(queue)].policy
  <1>. DEFINE policy == task[Head(queue)].policy
  <1>1. policy \in Policies /\ Head(queue) \in Tasks
    BY HeadWaits
  <1>2. ctl.policy \in Policies \cup {NoPolicy} /\ {} \in Locals
    BY DEF Typed, CtlStates, Locals
  <1>3. policy.revision \in 0..MaxRevision /\ Known(policy) = policy
    BY <1>1, <1>2, PoliciesAreTyped, NothingYet
  <1>4. Known(policy).revision <= revision
    BY <1>1 DEF RevisionsAreCommitted
  <1>5. CASE ctl.policy = NoPolicy
    BY <1>3, <1>4, <1>5, KnownIsInt
  <1>6. CASE ctl.policy # NoPolicy
    <2>1. Known(ctl.policy) = ctl.policy /\ ctl.policy.revision \in Int
      BY <1>2, <1>6, KnownIsInt
    <2>2. ~(policy.revision < ctl.policy.revision)
      BY <1>6 DEF IsOlder
    <2>. QED BY <1>3, <1>4, <2>1, <2>2
  <1>. QED BY <1>5, <1>6

LEMMA InstallKeeps ==
  ASSUME IndInv, Install
  PROVE  IndInv'
  <1>. USE DEF IndInv
  <1>. DEFINE policy == task[Head(queue)].policy
  <1>1. /\ apply.step = "idle" /\ queue # <<>> /\ ~IsOlder(policy) /\ UNCHANGED store
    BY DEF Install
  <1>2. ctl \in CtlStates /\ ctl.policy \in Policies \cup {NoPolicy} /\ ctl.local \in Locals
    BY DEF Typed, CtlStates
  <1>3. LocalProtected \in Locals
    BY DEF Locals
  <1>4. policy \in Policies /\ Head(queue) \in Tasks
    BY <1>1, HeadWaits
  <1>5. /\ policy.revision >= Known(ctl.policy).revision /\ policy.revision <= revision
        /\ policy.revision \in Int /\ Known(policy) = policy
        /\ Known(ctl.policy).revision \in Int
    BY <1>1, <1>2, NotOlder, KnownIsInt
  <1>6. CASE /\ \E local \in {LocalProtected, ctl.local} :
                  /\ Refreshes(local)
                  /\ table' = TableOf(policy, local)
                  /\ ctl' = [ctl EXCEPT !.policy = policy, !.local = local]
                  /\ apply' = [step |-> "persist"]
                  /\ UNCHANGED <<task, queue, disk, confirmed>>
    <2>1. PICK local \in Locals :
                  /\ Refreshes(local)
                  /\ table' = TableOf(policy, local)
                  /\ ctl' = [ctl EXCEPT !.policy = policy, !.local = local]
                  /\ apply' = [step |-> "persist"]
                  /\ UNCHANGED <<task, queue, disk, confirmed>>
      BY <1>2, <1>3, <1>6
    <2>2. table' \in Tables /\ table'.revision = policy.revision
      BY <1>4, <1>5, <2>1, PoliciesAreTyped
    <2>3. ctl' \in CtlStates /\ ctl'.policy = policy
      BY <1>2, <1>4, <2>1 DEF CtlStates
    <2>4. upsets' \in Nat /\ upsets' \in {upsets, upsets + 1}
      BY <2>1, UpsetsAreCounted DEF Refreshes
    <2>. HIDE DEF policy
    <2>5. Typed'
      BY <1>1, <2>1, <2>2, <2>3, <2>4 DEF Typed, Installing, store
    <2>6. QueueIsOfWaiting'
      BY <1>1, <2>1 DEF QueueIsOfWaiting, store
    <2>7. InstallsInOrder'
      BY <1>1, <2>1, <2>2, <2>3 DEF InstallsInOrder, policy
    <2>8. RevisionsAreCommitted'
      BY <1>1, <1>5, <2>1, <2>3 DEF RevisionsAreCommitted, store
    <2>9. ConfirmedPolicyHolds'
      <3>. SUFFICES ASSUME NEW r \in confirmed
                    PROVE  /\ Known(ctl'.policy).revision >= r
                           /\ Known(disk'.policy).revision >= r
                           /\ table' # NoTable => table'.revision >= r
                           /\ disk'.ruleset # NoTable /\ disk'.ruleset.revision >= r
        BY <2>1 DEF ConfirmedPolicyHolds
      <3>1. r \in Int /\ Known(ctl.policy).revision >= r
        BY DEF ConfirmedPolicyHolds, Typed
      <3>2. policy.revision >= r
        BY <1>5, <3>1
      <3>. QED BY <1>5, <2>1, <2>2, <2>3, <3>2 DEF ConfirmedPolicyHolds
    <2>10. LastIsOnItsWay'
      <3>1. Known(ctl.policy).revision = revision => Known(ctl'.policy).revision = revision
        <4>1. revision \in Int
          BY DEF Typed
        <4>. QED BY <1>5, <2>3, <4>1
      <3>2. upsets' = 0 => upsets = 0
        BY <2>4 DEF Typed
      <3>. QED BY <1>1, <2>1, <3>1, <3>2 DEF LastIsOnItsWay, store
    <2>. QED BY <2>5, <2>6, <2>7, <2>8, <2>9, <2>10
  <1>7. CASE /\ \E result \in ensureFails(ctl.policy, LocalProtected)
                                \cup {ensureSucceeds(ctl.policy, LocalProtected)} :
                   Ensured(ctl.policy, LocalProtected, result)
             /\ Answered(Head(queue), FALSE)
             /\ queue' = Tail(queue)
             /\ Upset /\ UNCHANGED apply
    <2>1. Outcome(ctl.policy, LocalProtected)
      BY <1>2, <1>3, <1>7, EnsureOutcomes
    <2>2. table' \in Tables \cup {NoTable}
      BY <1>2, <1>3, <2>1, PoliciesAreTyped DEF Outcome, Typed
    <2>3. UNCHANGED confirmed
      BY <1>7 DEF Answered
    <2>4. /\ QueueIsOfWaiting'
          /\ task' \in [Tasks -> TaskStates] /\ queue' \in Seq(Tasks)
          /\ \A u \in Tasks : Known(task'[u].policy).revision <= revision
          /\ upsets' \in Nat
      BY <1>1, <1>7, AnswerKeeps
    <2>5. Typed'
      BY <1>1, <1>7, <2>1, <2>2, <2>3, <2>4 DEF Typed, Outcome, store
    <2>6. InstallsInOrder'
      BY <1>1, <1>7 DEF InstallsInOrder, Installing
    <2>7. RevisionsAreCommitted'
      BY <1>1, <2>1, <2>4 DEF RevisionsAreCommitted, Outcome, store
    <2>8. ConfirmedPolicyHolds'
      BY <1>3, <2>1, <2>3, EnsureKeepsConfirmed
    <2>9. LastIsOnItsWay'
      BY <1>7 DEF LastIsOnItsWay, Upset, Typed
    <2>. QED BY <2>4, <2>5, <2>6, <2>7, <2>8, <2>9
  <1>. QED BY <1>6, <1>7 DEF Install

LEMMA PersistKeeps ==
  ASSUME IndInv, Persist
  PROVE  IndInv'
  <1>. USE DEF IndInv
  <1>1. /\ apply.step \in PersistSteps /\ UNCHANGED <<store, ctl, table>>
        /\ queue # <<>> /\ ctl.policy = task[Head(queue)].policy
        /\ table # NoTable => table.revision = ctl.policy.revision
    BY DEF Persist, PersistSteps, InstallsInOrder, Installing
  <1>2. ctl.policy \in Policies /\ ctl.local \in Locals /\ Known(ctl.policy) = ctl.policy
    BY <1>1, HeadWaits, KnownIsInt DEF Typed, CtlStates
  <1>3. TableOf(ctl.policy, ctl.local) \in Tables
        /\ TableOf(ctl.policy, ctl.local).revision = ctl.policy.revision
    BY <1>2, PoliciesAreTyped
  <1>4. disk \in DiskStates
    BY DEF Typed
  <1>5. CASE /\ IF apply.step = "persist"
                  THEN /\ disk' = PolicyWritten(disk, ctl.policy)
                       /\ apply' = [step |-> "persistRuleset"]
                  ELSE /\ disk' = RulesetWritten(disk, TableOf(ctl.policy, ctl.local))
                       /\ apply' = [step |-> "verify"]
             /\ Calm /\ UNCHANGED <<task, queue, confirmed>>
    <2>1. /\ disk' \in DiskStates
          /\ disk'.policy \in {disk.policy, ctl.policy}
          /\ disk'.policyBefore \in {disk.policyBefore, disk.policy}
          /\ \/ disk'.ruleset = disk.ruleset
             \/ disk'.ruleset # NoTable /\ disk'.ruleset.revision = ctl.policy.revision
      BY <1>2, <1>3, <1>4, <1>5, NothingYet, WritesAreTyped
    <2>2. Typed'
      <3>1. apply' \in [step : {"idle", "initialize"} \cup Installing]
        <4>1. apply' = [step |-> "persistRuleset"] \/ apply' = [step |-> "verify"]
          BY <1>5
        <4>. QED BY <4>1 DEF Installing
      <3>. QED BY <1>1, <1>5, <2>1, <3>1 DEF Typed, Calm, store
    <2>3. QueueIsOfWaiting'
      BY <1>1, <1>5 DEF QueueIsOfWaiting, store
    <2>4. InstallsInOrder'
      <3>1. CASE apply.step = "persist"
        <4>1. disk' = PolicyWritten(disk, ctl.policy) /\ apply' = [step |-> "persistRuleset"]
          BY <1>5, <3>1
        <4>2. disk'.policy = ctl.policy /\ apply'.step = "persistRuleset"
          BY <1>2, <1>4, <4>1, NothingYet DEF PolicyWritten, DiskStates
        <4>. QED BY <1>1, <1>5, <4>2 DEF InstallsInOrder
      <3>2. CASE apply.step # "persist"
        <4>1. disk.policy = ctl.policy
          BY <1>1, <3>2 DEF InstallsInOrder, PersistSteps, Installing
        <4>2. disk'.policy = ctl.policy /\ disk'.ruleset = TableOf(ctl.policy, ctl.local)
          BY <1>3, <1>4, <1>5, <3>2, <4>1 DEF RulesetWritten, DiskStates
        <4>3. disk'.ruleset # NoTable /\ disk'.ruleset.revision = ctl.policy.revision
          BY <1>3, <4>2, NothingYet
        <4>. QED BY <1>1, <1>5, <4>2, <4>3 DEF InstallsInOrder
      <3>. QED BY <3>1, <3>2
    <2>5. RevisionsAreCommitted'
      BY <1>1, <1>5, <2>1 DEF RevisionsAreCommitted, store
    <2>6. ConfirmedPolicyHolds'
      BY <1>1, <1>2, <1>5, <2>1 DEF ConfirmedPolicyHolds
    <2>7. LastIsOnItsWay'
      BY <1>1, <1>5 DEF LastIsOnItsWay, Calm, store
    <2>. QED BY <2>2, <2>3, <2>4, <2>5, <2>6, <2>7
  <1>6. CASE /\ Answered(Head(queue), FALSE)
             /\ queue' = Tail(queue)
             /\ apply' = Idle
             /\ Upset /\ UNCHANGED disk
    <2>1. UNCHANGED confirmed
      BY <1>6 DEF Answered
    <2>2. /\ QueueIsOfWaiting'
          /\ task' \in [Tasks -> TaskStates] /\ queue' \in Seq(Tasks)
          /\ \A u \in Tasks : Known(task'[u].policy).revision <= revision
          /\ upsets' \in Nat
      BY <1>1, <1>6, AnswerKeeps
    <2>3. Typed'
      BY <1>1, <1>6, <2>1, <2>2 DEF Typed, Idle, store
    <2>4. InstallsInOrder'
      BY <1>6 DEF InstallsInOrder, Installing, Idle
    <2>5. RevisionsAreCommitted'
      BY <1>1, <1>6, <2>2 DEF RevisionsAreCommitted, store
    <2>6. ConfirmedPolicyHolds'
      BY <1>1, <1>6, <2>1 DEF ConfirmedPolicyHolds
    <2>7. LastIsOnItsWay'
      BY <1>6 DEF LastIsOnItsWay, Upset, Typed
    <2>. QED BY <2>2, <2>3, <2>4, <2>5, <2>6, <2>7
  <1>. QED BY <1>1, <1>5, <1>6 DEF Persist

\* What is confirmed was installed, is on disk, and was read back.
LEMMA ConfirmKeeps ==
  ASSUME IndInv, Confirm
  PROVE  IndInv'
  <1>. USE DEF IndInv
  <1>1. /\ apply.step = "verify" /\ queue # <<>> /\ ctl.policy = task[Head(queue)].policy
        /\ table # NoTable => table.revision = ctl.policy.revision
        /\ disk.policy = ctl.policy
        /\ disk.ruleset # NoTable /\ disk.ruleset.revision = ctl.policy.revision
    BY DEF Confirm, InstallsInOrder, Installing
  <1>2. /\ Ensures(ctl.policy, ctl.local) /\ Answered(Head(queue), ctl'.enforced)
        /\ queue' = Tail(queue) /\ apply' = Idle /\ UNCHANGED store /\ (Calm \/ Upset)
    BY DEF Confirm, Ensures
  <1>3. ctl.policy \in Policies /\ ctl.local \in Locals /\ Known(ctl.policy) = ctl.policy
    BY <1>1, HeadWaits, KnownIsInt DEF Typed, CtlStates
  <1>4. Outcome(ctl.policy, ctl.local)
    BY <1>2, <1>3, EnsuresOutcomes
  <1>5. /\ TableOf(ctl.policy, ctl.local) \in Tables
        /\ TableOf(ctl.policy, ctl.local).revision = ctl.policy.revision
        /\ ctl.policy.revision \in 0..MaxRevision
    BY <1>3, PoliciesAreTyped, NothingYet
  <1>6. /\ QueueIsOfWaiting'
        /\ task' \in [Tasks -> TaskStates] /\ queue' \in Seq(Tasks)
        /\ \A u \in Tasks : Known(task'[u].policy).revision <= revision
        /\ \A u \in Tasks : u # Head(queue) => task'[u] = task[u]
        /\ upsets' \in {upsets, upsets + 1} /\ upsets' \in Nat
        /\ confirmed' \subseteq 0..MaxRevision
    BY <1>1, <1>2, AnswerKeeps
  <1>7. table' \in Tables \cup {NoTable}
    BY <1>3, <1>4, <1>5 DEF Outcome, Typed
  <1>8. Typed'
    BY <1>2, <1>4, <1>6, <1>7 DEF Typed, Outcome, Idle, store
  <1>9. InstallsInOrder'
    BY <1>2 DEF InstallsInOrder, Installing, Idle
  <1>10. RevisionsAreCommitted'
    BY <1>2, <1>4, <1>6 DEF RevisionsAreCommitted, Outcome, store
  <1>11. ConfirmedPolicyHolds'
    <2>1. confirmed' \subseteq confirmed \cup {ctl.policy.revision}
      BY <1>1, <1>2 DEF Answered
    <2>2. ASSUME NEW r \in confirmed PROVE ctl.policy.revision >= r
      BY <1>3 DEF ConfirmedPolicyHolds
    <2>3. ASSUME NEW r \in confirmed' PROVE ctl.policy.revision >= r
      BY <1>5, <2>1, <2>2
    <2>4. /\ ctl'.policy = ctl.policy /\ disk'.policy = ctl.policy
          /\ table' # NoTable => table'.revision = ctl.policy.revision
          /\ disk'.ruleset # NoTable /\ disk'.ruleset.revision = ctl.policy.revision
      BY <1>1, <1>3, <1>4, <1>5, NothingYet DEF Outcome
    <2>. QED BY <1>3, <2>3, <2>4 DEF ConfirmedPolicyHolds
  <1>12. LastIsOnItsWay'
    <2>1. revision' = revision /\ ctl'.policy = ctl.policy
      BY <1>2, <1>4 DEF store, Outcome
    <2>. QED BY <1>1, <1>3, <1>6, <2>1, OthersStayOnTheirWay
  <1>. QED BY <1>6, <1>8, <1>9, <1>10, <1>11, <1>12

LEMMA DriftKeeps ==
  ASSUME IndInv, Drift
  PROVE  IndInv'
  <1>. USE DEF IndInv
  <1>1. /\ table # NoTable /\ Upset
        /\ UNCHANGED <<rules, revision, admin, task, queue, ctl, apply, disk, confirmed>>
    BY DEF Drift, store
  <1>2. table' = NoTable \/ (table' \in Tables /\ table'.revision = table.revision)
    <2>1. table \in Tables
      BY <1>1 DEF Typed
    <2>2. ASSUME NEW emptied \in {"protected", "denyExtra"}
          PROVE  /\ [table EXCEPT !.content[emptied] = {}] \in Tables
                 /\ [table EXCEPT !.content[emptied] = {}].revision = table.revision
      BY <2>1, EmptiedIsTable
    <2>3. \/ table' = NoTable
          \/ \E emptied \in {"protected", "denyExtra"} : table' = [table EXCEPT !.content[emptied] = {}]
      BY Zenon DEF Drift
    <2>4. CASE \E emptied \in {"protected", "denyExtra"} : table' = [table EXCEPT !.content[emptied] = {}]
      <3>1. PICK emptied \in {"protected", "denyExtra"} : table' = [table EXCEPT !.content[emptied] = {}]
        BY <2>4
      <3>. QED BY <2>2, <3>1
    <2>. QED BY <2>3, <2>4
  <1>3. upsets' \in Nat /\ upsets' # 0
    BY <1>1 DEF Upset, Typed
  <1>4. Typed'
    BY <1>1, <1>2, <1>3 DEF Typed
  <1>5. QueueIsOfWaiting' /\ RevisionsAreCommitted'
    BY <1>1 DEF QueueIsOfWaiting, RevisionsAreCommitted
  <1>6. InstallsInOrder'
    BY <1>1, <1>2 DEF InstallsInOrder
  <1>7. ConfirmedPolicyHolds'
    BY <1>1, <1>2 DEF ConfirmedPolicyHolds
  <1>8. LastIsOnItsWay'
    BY <1>3 DEF LastIsOnItsWay
  <1>. QED BY <1>4, <1>5, <1>6, <1>7, <1>8

\* What a restart finds in the files is what was written, before or at last, or
\* nothing; if it is what was written at last, it is not older than what was confirmed.
LEMMA RestartKeeps ==
  ASSUME IndInv, NEW rebooted \in BOOLEAN, Restart(rebooted)
  PROVE  IndInv'
  <1>. USE DEF IndInv
  <1>. DEFINE lost == {queue[i] : i \in DOMAIN queue}
  <1>1. /\ task' = [t \in Tasks |-> IF t \in lost THEN Done ELSE task[t]]
        /\ queue' = <<>> /\ apply' = [step |-> "initialize"]
        /\ disk' \in Found(rebooted)
        /\ table' = IF rebooted THEN Booted(disk'.ruleset) ELSE table
        /\ Upset /\ UNCHANGED <<rules, revision, admin>>
    BY DEF Restart, Abandoned, store
  <1>2. PICK loaded \in {disk'.policy, NoPolicy} :
          /\ ctl' = [policy |-> loaded, local |-> {}, enforced |-> FALSE]
          /\ confirmed' = IF loaded = disk.policy /\ disk'.ruleset = disk.ruleset THEN confirmed ELSE {}
    BY DEF Restart
  <1>3. task \in [Tasks -> TaskStates] /\ Done \in TaskStates
    BY DEF Typed, Done, TaskStates
  <1>4. \A t \in Tasks : t \in lost <=> task[t].pc = "wait"
    BY DEF QueueIsOfWaiting
  <1>. HIDE DEF lost
  <1>5. /\ task' \in [Tasks -> TaskStates]
        /\ \A t \in Tasks : task'[t] = IF task[t].pc = "wait" THEN Done ELSE task[t]
    BY <1>1, <1>3, <1>4
  <1>6. upsets' \in Nat /\ upsets' # 0
    BY <1>1 DEF Upset, Typed
  <1>7. /\ disk' \in DiskStates
        /\ disk'.policy \in {disk.policy, disk.policyBefore, NoPolicy}
        /\ disk'.policyBefore \in {disk.policy, disk.policyBefore, NoPolicy}
    <2>1. disk \in DiskStates
      BY DEF Typed
    <2>2. CASE disk' = disk
      BY <2>1, <2>2
    <2>3. CASE disk' # disk
      <3>1. PICK policy \in {disk.policy, disk.policyBefore, NoPolicy}, tbl \in {disk.ruleset, disk.rulesetBefore, NoTable} :
              disk' = Files(policy, tbl)
        BY <1>1, <2>3 DEF Found
      <3>2. policy \in Policies \cup {NoPolicy} /\ tbl \in Tables \cup {NoTable}
        BY <2>1 DEF DiskStates
      <3>. QED BY <3>1, <3>2 DEF Files, DiskStates
    <2>. QED BY <2>2, <2>3
  <1>8. /\ loaded \in Policies \cup {NoPolicy}
        /\ ctl' \in CtlStates /\ ctl'.policy = loaded
    BY <1>2, <1>7 DEF DiskStates, CtlStates, Locals
  <1>9. Booted(disk'.ruleset) \in Tables \cup {NoTable}
    <2>1. TableOf(BasePolicy, {}) \in Tables
      <3>1. {} \in Locals
        BY DEF Locals
      <3>. QED BY <3>1, PoliciesAreTyped DEF Known
    <2>. QED BY <1>7, <2>1 DEF Booted, DiskStates
  <1>10. Typed'
    <2>1. table' \in Tables \cup {NoTable} /\ confirmed' \subseteq 0..MaxRevision
      BY <1>1, <1>2, <1>9 DEF Typed
    <2>. QED BY <1>1, <1>5, <1>6, <1>7, <1>8, <2>1 DEF Typed
  <1>11. QueueIsOfWaiting'
    <2>1. \A t \in Tasks : task'[t].pc # "wait"
      BY <1>5 DEF Done
    <2>2. DOMAIN queue' = {}
      BY <1>1
    <2>3. \A t \in Tasks : task'[t].pc \in {"send", "wait"} => task'[t].policy \in Policies
      BY <1>5 DEF QueueIsOfWaiting, Done
    <2>4. \A t \in 1..MaxRevision : t > revision' => task'[t].pc = "idle"
      BY <1>1, <1>5 DEF QueueIsOfWaiting, Tasks
    <2>. QED BY <2>1, <2>2, <2>3, <2>4 DEF QueueIsOfWaiting
  <1>12. InstallsInOrder'
    BY <1>1 DEF InstallsInOrder, Installing
  <1>13. RevisionsAreCommitted'
    <2>1. Known(NoPolicy).revision <= revision
      BY KnownIsInt DEF Typed
    <2>2. \A t \in Tasks : Known(task'[t].policy).revision <= revision
      BY <1>5, <2>1 DEF RevisionsAreCommitted, Done
    <2>3. \A policy \in {disk.policy, disk.policyBefore, NoPolicy} : Known(policy).revision <= revision
      BY <2>1 DEF RevisionsAreCommitted
    <2>. QED BY <1>1, <1>2, <1>7, <1>8, <2>2, <2>3 DEF RevisionsAreCommitted
  <1>14. ConfirmedPolicyHolds'
    <2>. SUFFICES ASSUME NEW r \in confirmed'
                  PROVE  /\ Known(ctl'.policy).revision >= r
                         /\ Known(disk'.policy).revision >= r
                         /\ table' # NoTable => table'.revision >= r
                         /\ disk'.ruleset # NoTable /\ disk'.ruleset.revision >= r
      BY DEF ConfirmedPolicyHolds
    <2>1. r \in confirmed /\ r \in Nat /\ loaded = disk.policy /\ disk'.ruleset = disk.ruleset
      BY <1>2 DEF Typed
    <2>2. Known(disk.policy).revision >= r /\ disk.policy # NoPolicy
      BY <2>1, KnownIsInt DEF ConfirmedPolicyHolds
    <2>3. disk'.policy = disk.policy
      BY <1>2, <2>1, <2>2
    <2>. QED BY <1>1, <1>8, <2>1, <2>2, <2>3 DEF Booted, ConfirmedPolicyHolds
  <1>15. LastIsOnItsWay'
    BY <1>6 DEF LastIsOnItsWay
  <1>. QED BY <1>10, <1>11, <1>12, <1>13, <1>14, <1>15

-----------------------------------------------------------------------------
(* The invariant, and what it says.                                         *)

\* The Worker that was just set up.
LEMMA IndInit == Init => IndInv
  <1> SUFFICES ASSUME Init PROVE IndInv
    OBVIOUS
  <1>. USE EgressPolicyAssumption DEF Init
  <1>1. Typed
    <2>1. rules \subseteq RuleChoices /\ revision \in 0..MaxRevision /\ upsets \in Nat /\ confirmed \subseteq 0..MaxRevision
      OBVIOUS
    <2>2. admin \in [Admins -> AdminStates] /\ task \in [Tasks -> TaskStates] /\ queue \in Seq(Tasks)
      BY DEF AdminStates, TaskStates, Idle, NoTask
    <2>3. ctl \in CtlStates /\ disk \in DiskStates /\ table \in Tables \cup {NoTable}
      BY DEF CtlStates, DiskStates, Locals, Files
    <2>4. apply \in [step : {"idle", "initialize"} \cup Installing]
      OBVIOUS
    <2>. QED BY <2>1, <2>2, <2>3, <2>4 DEF Typed
  <1>2. \A t \in Tasks : task[t].pc = "idle" /\ task[t].policy = NoPolicy
    BY DEF NoTask
  <1>3. QueueIsOfWaiting
    <2>1. DOMAIN queue = {} /\ \A t \in 1..MaxRevision : t \in Tasks
      BY DEF Tasks
    <2>. QED BY <1>2, <2>1 DEF QueueIsOfWaiting
  <1>4. InstallsInOrder /\ ConfirmedPolicyHolds /\ LastIsOnItsWay
    BY DEF InstallsInOrder, ConfirmedPolicyHolds, LastIsOnItsWay, Installing
  <1>5. RevisionsAreCommitted
    BY <1>2, KnownIsInt DEF RevisionsAreCommitted, Files
  <1>. QED BY <1>1, <1>3, <1>4, <1>5 DEF IndInv

LEMMA IndNext == IndInv /\ [Next]_vars => IndInv'
  <1> SUFFICES ASSUME IndInv, [Next]_vars PROVE IndInv'
    OBVIOUS
  <1>1. CASE UNCHANGED vars
    BY <1>1 DEF vars, worker, IndInv, Typed, QueueIsOfWaiting, InstallsInOrder, RevisionsAreCommitted,
                ConfirmedPolicyHolds, LastIsOnItsWay
  <1>2. ASSUME NEW a \in Admins, Commit(a) PROVE IndInv'
    BY <1>2, CommitKeeps
  <1>3. ASSUME NEW a \in Admins, NEW rule \in RuleChoices, AskAdd(a, rule) \/ AskDelete(a, rule) PROVE IndInv'
    BY <1>3, AskKeeps
  <1>4. ASSUME NEW t \in Starts, BeginStart(t) PROVE IndInv'
    BY <1>4, BeginStartKeeps
  <1>5. ASSUME NEW t \in Tasks, ReadPolicy(t) PROVE IndInv'
    BY <1>5, ReadPolicyKeeps
  <1>6. ASSUME NEW t \in Tasks, Dispatch(t) PROVE IndInv'
    BY <1>6, DispatchKeeps
  <1>7. CASE Controller
    BY <1>7, InitializeKeeps, IgnoreOlderKeeps, InstallKeeps, PersistKeeps, ConfirmKeeps DEF Controller
  <1>8. CASE Ensure
    BY <1>8, StepEnsureKeeps
  <1>9. CASE Drift
    BY <1>9, DriftKeeps
  <1>10. ASSUME NEW rebooted \in BOOLEAN, Restart(rebooted) PROVE IndInv'
    BY <1>10, RestartKeeps
  <1>. QED BY <1>1, <1>2, <1>3, <1>4, <1>5, <1>6, <1>7, <1>8, <1>9, <1>10 DEF Next

\* In every reachable state.
THEOREM EgressInvariant == Spec => []IndInv
  BY IndInit, IndNext, PTL DEF Spec

\* Types, and a task waits exactly while its command is queued.
THEOREM TypeCorrect == Spec => []TypeOK
  <1>1. IndInv => TypeOK
    <2> SUFFICES ASSUME IndInv PROVE TypeOK
      OBVIOUS
    <2>1. \A t \in Tasks : task[t].pc \in {"idle", "read", "send", "wait", "done"}
      BY DEF IndInv, Typed, TaskStates
    <2>2. ctl.policy \in Policies \cup {NoPolicy} /\ disk.policy \in Policies \cup {NoPolicy}
      BY DEF IndInv, Typed, CtlStates, DiskStates
    <2>. QED BY <2>1, <2>2 DEF TypeOK, IndInv, Typed, QueueIsOfWaiting
  <1>. QED BY <1>1, EgressInvariant, PTL

\* What a start was told is enforced is not undone (apply, #ensure and initialize), as
\* long as restarts find the files as they were left and can read them.
THEOREM ConfirmedPolicyAlwaysHolds == Spec => []ConfirmedPolicyHolds
  <1>1. IndInv => ConfirmedPolicyHolds
    BY DEF IndInv
  <1>. QED BY <1>1, EgressInvariant, PTL

\* Without failures the last of the broadcasts wins, in whatever order they read and
\* send (broadcastEgressPolicy).
THEOREM BroadcastsAlwaysConverge == Spec => []BroadcastsConverge
  <1>1. IndInv => BroadcastsConverge
    <2> SUFFICES ASSUME IndInv, upsets = 0, revision > 0, queue = <<>>,
                        ~\E t \in Tasks : task[t].pc \in {"read", "send"}
                 PROVE  Known(ctl.policy).revision = revision
      BY DEF BroadcastsConverge, InFlight
    <2>1. DOMAIN queue = {}
      OBVIOUS
    <2>2. \A t \in Tasks : task[t].pc # "wait"
      BY <2>1 DEF IndInv, QueueIsOfWaiting
    <2>. QED BY <2>2 DEF IndInv, LastIsOnItsWay
  <1>. QED BY <1>1, EgressInvariant, PTL

\* An edit is committed only with a rule set that passed the checks, inside the
\* transaction that locks it (createEgressRule, deleteEgressRule).
LEMMA EditsStayCovered == AllowsStayCovered /\ [Next]_vars => AllowsStayCovered'
  <1> SUFFICES ASSUME AllowsStayCovered, [Next]_vars PROVE AllowsStayCovered'
    OBVIOUS
  <1>1. ASSUME NEW rs, NEW p, validateEgressRules(rs, p)
        PROVE  \A r \in rs : r.action = "allow" => AllowCovered(r, rs)
    BY <1>1 DEF validateEgressRules
  <1>2. CASE rules' = rules
    BY <1>2 DEF AllowsStayCovered
  <1>3. CASE \E a \in Admins : Commit(a)
    <2>1. PICK a \in Admins : Commit(a)
      BY <1>3
    <2>2. rules' = rules \/ \E p : validateEgressRules(rules', p)
      BY <2>1 DEF Commit, createEgressRule, deleteEgressRule
    <2>. QED BY <1>1, <1>2, <2>2 DEF AllowsStayCovered
  <1>. QED BY <1>2, <1>3
           DEF Next, vars, store, Controller, AskAdd, AskDelete, BeginStart, ReadPolicy, Dispatch, IgnoreOlder,
               Install, Persist, Confirm, Ensure, Drift, Restart, Initialize

\* No interleaving of edits leaves an allow rule that opens what nothing denies.
THEOREM AllowsAlwaysCovered == Spec => []AllowsStayCovered
  <1>1. Init => AllowsStayCovered
    BY EgressPolicyAssumption DEF Init, AllowsStayCovered, validateEgressRules
  <1>. QED BY <1>1, EditsStayCovered, PTL DEF Spec

\* A content means something, and its rendering is of blocks.
LEMMA ContentsAreMeaningful ==
  ASSUME NEW c \in Contents
  PROVE  Meaningful(c) /\ Blocks(Rendering[c])
  <1>1. PICK allow \in Allows, denyExtra \in Denials, shield \in Shields :
          c = [allow |-> allow, denyExtra |-> denyExtra, protected |-> shield]
    BY DEF Contents
  <1>2. allow \subseteq Rule /\ denyExtra \subseteq Cidr /\ shield \subseteq Cidr
    BY EgressPolicyAssumption DEF Allows, Denials, Shields, Networks, Rule
  <1>3. Meaningful(c)
    BY <1>1, <1>2 DEF Meaningful
  <1>4. \A intervals : prefixElements(intervals) \subseteq Cidr
    BY DEF prefixElements, intervalToCidrs
  <1>5. Rendering[c] = renderEgressTransaction(Effective[c])
    BY DEF Rendering
  <1>6. Blocks(Rendering[c])
    BY <1>4, <1>5 DEF Blocks, renderEgressTransaction
  <1>. QED BY <1>3, <1>6

\* Whatever was done to the live table: if the read-back says it is enforced, every
\* packet is treated as the policy promises (verifyEgressListing, #ensure).
THEOREM VerifiedTableAlwaysKeepsPromise == Spec => []VerifiedTableKeepsPromise
  <1>1. ASSUME IndInv, Verifies(table, ctl.policy, ctl.local)
        PROVE  Passed[table.content] = Promise[Content(Known(ctl.policy), ctl.local)]
    <2>. DEFINE c == table.content
                d == Content(Known(ctl.policy), ctl.local)
    <2>1. c \in Contents /\ d \in Verified[c]
      BY <1>1 DEF Verifies, IndInv, Typed, Tables
    <2>2. d \in Contents /\ verifyEgressListing(Rendering[c], effectiveEgressRules(d, {}))
      BY <2>1 DEF Verified, Effective
    <2>3. \A p \in Packet : Passes(Rendering[c], p) <=> Promised(d, {}, p)
      BY <2>1, <2>2, ContentsAreMeaningful, VerifiedListingKeepsPromise
    <2>4. Passed[c] = {p \in Packet : Passes(Rendering[c], p)} /\ Promise[d] = {p \in Packet : Promised(d, {}, p)}
      BY <2>1, <2>2 DEF Passed, Promise
    <2>. QED BY <2>3, <2>4
  <1>2. IndInv => VerifiedTableKeepsPromise
    BY <1>1 DEF VerifiedTableKeepsPromise
  <1>. QED BY <1>2, EgressInvariant, PTL
=============================================================================
