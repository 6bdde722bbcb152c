----------------------------- MODULE EgressRules -----------------------------
(* What an egress rule set means: the address arithmetic of                *)
(* packages/protocol/src/egress.ts, the checks of a candidate rule set in  *)
(* apps/control-plane/src/egress.ts, and the nftables table the Worker     *)
(* renders and reads back (apps/worker/src/egress/ruleset.ts).  Addresses  *)
(* have Bits bits instead of 32.                                           *)
EXTENDS Integers, FiniteSets, FiniteSetsExt

CONSTANTS
  Bits,            \* the width of an address
  DefaultDeny,     \* EGRESS_DEFAULT_DENY_V4: blocks every Worker denies
  HostAddresses,   \* the Worker host's own addresses
  GroupAddresses,  \* broadcast and multicast addresses
  Ports,           \* destination ports
  RelayPort,       \* the model relay's port, or NoPort
  NoPort,
  MaxEntries,      \* EGRESS_MAX_ENTRIES
  AnyService       \* the service of a rule without protocol and ports

Address == 0..(2 ^ Bits - 1)

-----------------------------------------------------------------------------
(* Blocks and intervals.                                                   *)

prefixSize(prefix) == 2 ^ (Bits - prefix)

\* Host bits are zero (parseIpv4Cidr).
Cidr == {c \in [address : Address, prefix : 0..Bits] : c.address % prefixSize(c.prefix) = 0}

ASSUME EgressRulesAssumption ==
  /\ Bits \in Nat \ {0}
  /\ Ports \subseteq Nat /\ RelayPort \in Ports \cup {NoPort}
  /\ DefaultDeny \subseteq Cidr

cidrInterval(c) == [start |-> c.address, end |-> c.address + prefixSize(c.prefix) - 1]
Intervals(cidrs) == {cidrInterval(c) : c \in cidrs}
Covered(intervals) == UNION {i.start..i.end : i \in intervals}

\* Overlapping and adjacent intervals become one.
mergeIntervals(intervals) ==
  LET covered == Covered(intervals) IN
  {i \in [start : covered, end : covered] :
     /\ i.start..i.end \subseteq covered
     /\ i.start - 1 \notin covered
     /\ i.end + 1 \notin covered}

intervalCovered(inner, outer) ==
  \E candidate \in mergeIntervals(outer) : candidate.start <= inner.start /\ inner.end <= candidate.end

intervalsOverlap(left, right) == left.start <= right.end /\ right.start <= left.end

\* The minimal list of aligned blocks: those inside whose parent is not.
Inside(c, interval) ==
  LET i == cidrInterval(c) IN interval.start <= i.start /\ i.end <= interval.end
Parent(c) ==
  [address |-> c.address - (c.address % prefixSize(c.prefix - 1)), prefix |-> c.prefix - 1]
intervalToCidrs(interval) ==
  {c \in Cidr : Inside(c, interval) /\ (c.prefix > 0 => ~Inside(Parent(c), interval))}

-----------------------------------------------------------------------------
(* Rule sets and policies.                                                 *)

Service == [protocol : {"tcp", "udp"}, portMin : Ports, portMax : Ports]
Rule == [action : {"allow", "deny"}, network : Cidr, service : Service \cup {AnyService}]
Networks(rs, action) == {r.network : r \in {x \in rs : x.action = action}}

\* The checks of a complete rule set; an allow rule opens only what is denied.
AllowCovered(rule, rs) ==
  intervalCovered(cidrInterval(rule.network), Intervals(DefaultDeny \cup Networks(rs, "deny")))
validateEgressRules(rs, protected) ==
  /\ \A action \in {"allow", "deny"} : Cardinality({r \in rs : r.action = action}) <= MaxEntries
  /\ \A rule \in {r \in rs : r.action = "allow"} :
       /\ AllowCovered(rule, rs)
       /\ \A p \in protected : ~intervalsOverlap(cidrInterval(p), cidrInterval(rule.network))

egressPolicyForWorkers(rev, rs, protected) ==
  [revision  |-> rev,
   allow     |-> {r \in rs : r.action = "allow"},
   denyExtra |-> Networks(rs, "deny"),
   protected |-> protected]

\* What a Worker without a policy enforces: its base rules.
BasePolicy == egressPolicyForWorkers(-1, {}, {})

effectiveEgressRules(policy, localProtected) ==
  [protected    |-> mergeIntervals(Intervals(policy.protected \cup localProtected)),
   allowNet     |-> mergeIntervals({cidrInterval(r.network) :
                                      r \in {x \in policy.allow : x.service = AnyService}}),
   allowService |-> {r \in policy.allow : r.service # AnyService},
   denyExtra    |-> mergeIntervals(Intervals(policy.denyExtra))]

-----------------------------------------------------------------------------
(* The table: what one transaction installs and a listing shows.           *)

prefixElements(intervals) == UNION {intervalToCidrs(i) : i \in intervals}
serviceElements(entries) ==
  UNION {{[network |-> c, service |-> r.service] : c \in intervalToCidrs(cidrInterval(r.network))} :
           r \in entries}

renderEgressTransaction(effective) ==
  [deny_default_v4 |-> prefixElements(mergeIntervals(Intervals(DefaultDeny))),
   deny_extra_v4   |-> prefixElements(effective.denyExtra),
   protected_v4    |-> prefixElements(effective.protected),
   allow_net_v4    |-> prefixElements(effective.allowNet),
   allow_svc_v4    |-> serviceElements(effective.allowService)]

\* A bug would be to leave one set out of the comparison.
verifyWithoutProtected(listing, effective) ==
  /\ mergeIntervals(Intervals(listing.deny_default_v4)) = mergeIntervals(Intervals(DefaultDeny))
  /\ mergeIntervals(Intervals(listing.deny_extra_v4)) = effective.denyExtra
  /\ mergeIntervals(Intervals(listing.allow_net_v4)) = effective.allowNet
  /\ listing.allow_svc_v4 = serviceElements(effective.allowService)

\* nft may print elements in other blocks: sets are compared by what they hold.
verifyEgressListing(listing, effective) ==
  /\ mergeIntervals(Intervals(listing.deny_default_v4)) = mergeIntervals(Intervals(DefaultDeny))
  /\ mergeIntervals(Intervals(listing.deny_extra_v4)) = effective.denyExtra
  /\ mergeIntervals(Intervals(listing.protected_v4)) = effective.protected
  /\ mergeIntervals(Intervals(listing.allow_net_v4)) = effective.allowNet
  /\ listing.allow_svc_v4 = serviceElements(effective.allowService)

-----------------------------------------------------------------------------
(* What the chains do with a packet.  A chain's verdict is that of its     *)
(* first matching rule, and accept where none matches.                     *)

Packet == [bridge : BOOLEAN, reply : BOOLEAN, v6 : BOOLEAN,
           dst : Address, protocol : {"tcp", "udp"}, port : Ports]

Holds(element, dst) == dst \in LET i == cidrInterval(element) IN i.start..i.end
InSet(elements, dst) == \E e \in elements : Holds(e, dst)
InService(elements, p) ==
  \E e \in elements :
    /\ Holds(e.network, p.dst)
    /\ e.service.protocol = p.protocol
    /\ p.port \in e.service.portMin..e.service.portMax

\* workspaceTrafficOnly and repliesPass, the first rules of both chains.
Exempt(p) == ~p.bridge \/ p.reply
ToRelay(p) == p.dst \in HostAddresses /\ p.protocol = "tcp" /\ p.port = RelayPort

\* Each chain as: no earlier rule accepts, and a drop rule matches.
PreroutingDrops(p) ==
  /\ ~Exempt(p)
  /\ p.v6 \/ (~ToRelay(p) /\ p.dst \in HostAddresses \cup GroupAddresses)

ForwardDrops(t, p) ==
  /\ ~Exempt(p)
  /\ \/ p.v6
     \/ InSet(t.protected_v4, p.dst)
     \/ /\ ~InService(t.allow_svc_v4, p)
        /\ ~InSet(t.allow_net_v4, p.dst)
        /\ InSet(t.deny_default_v4 \cup t.deny_extra_v4, p.dst)

InputDrops(p) == p.protocol = "tcp" /\ p.port = RelayPort /\ ~p.bridge

\* The hooks a packet crosses: prerouting, then input or forward.
Passes(t, p) ==
  /\ ~PreroutingDrops(p)
  /\ IF p.dst \in HostAddresses THEN ~InputDrops(p) ELSE ~ForwardDrops(t, p)

-----------------------------------------------------------------------------
(* The reference: what the policy promises, rule by rule.                  *)

Admits(rule, p) ==
  /\ p.dst \in Covered({cidrInterval(rule.network)})
  /\ rule.service # AnyService =>
       /\ rule.service.protocol = p.protocol
       /\ rule.service.portMin <= p.port /\ p.port <= rule.service.portMax

\* A Workspace reaches the model relay, whatever is not denied, and the
\* exceptions from what is denied; never a protected or group address, never
\* the host otherwise, never anything over IPv6.  Replies, and traffic that
\* is no Workspace's, are left alone, except that only a Workspace reaches
\* the relay.
Promised(policy, localProtected, p) ==
  IF ~p.bridge THEN ~ToRelay(p)
  ELSE \/ p.reply
       \/ /\ ~p.v6
          /\ \/ ToRelay(p)
             \/ /\ p.dst \notin HostAddresses \cup GroupAddresses
                /\ p.dst \notin Covered(Intervals(policy.protected \cup localProtected))
                /\ \/ p.dst \notin Covered(Intervals(DefaultDeny \cup policy.denyExtra))
                   \/ \E rule \in policy.allow : Admits(rule, p)
=============================================================================
