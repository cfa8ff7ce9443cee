------------------------------ MODULE EgressRules ------------------------------
(***************************************************************************)
(* generate_egress_rules.py and the bundle validation of                   *)
(* check_egress_rules.py: what the generator accepts as the vault and the  *)
(* policy, the manifest and the rules it writes for them, and when the     *)
(* checker takes the bundle.                                               *)
(*                                                                         *)
(* The records are those of TargetPolicy.  A LAN scope is the identifier   *)
(* of a canonical private CIDR; Lan[id] is the set of its addresses.  The  *)
(* lists of a manifest are sets: the order they are sorted into, and the   *)
(* checker's test of it, are left out.  A rule accepts a protocol and a    *)
(* range of ports for a set of destinations.                               *)
(***************************************************************************)
EXTENDS ReadPolicy, Functions

CONSTANTS Address, Name, Lan, MaxItems, MaxRanges

MaxPort == 65535
Port  == 1..MaxPort
Flags == {"yes", "no"}

-----------------------------------------------------------------------------
(* What the generator accepts.                                             *)

GBounded(list) == Len(list) <= MaxItems
GUnique(list)  == Len(list) = Cardinality(Range(list))

\* _normalize_global.
GlobalAccepted(g) ==
  /\ g.shape = "exact"
  /\ g.profile \in {"strict-target", "lan-constrained"}
  /\ GBounded(g.resolvers) /\ GUnique(g.resolvers) /\ Range(g.resolvers) \subseteq Address
  /\ GBounded(g.lans) /\ GUnique(g.lans) /\ Range(g.lans) \subseteq DOMAIN Lan
  /\ g.profile = "strict-target" <=> g.lans = <<>>

\* _ports and _port_ranges.
PortsAccepted(list) == GBounded(list) /\ GUnique(list) /\ \A port \in Range(list) : port \in Port
RangesAccepted(list) ==
  /\ Len(list) <= MaxRanges
  /\ \A i \in DOMAIN list : list[i][1] >= 1 /\ list[i][2] >= list[i][1] /\ list[i][2] <= MaxPort
  /\ \A i, j \in DOMAIN list : i < j => \/ list[i][1] > list[j][2]
                                        \/ list[j][1] > list[i][2]
Overlap(ports, ranges) == \E port \in ports, r \in ranges : r[1] <= port /\ port <= r[2]

RecordAccepted(r) ==
  /\ r.shape = "exact"
  /\ r.host # "blank" /\ r.port \in Port /\ r.login # "blank" /\ r.password # "short"
  /\ r.community # "none" => r.community \notin {"short", r.password}

InventoryAccepted(inventory) ==
  \A category \in DOMAIN inventory :
    /\ GBounded(inventory[category]) /\ GUnique(inventory[category])
    /\ \A v \in Range(inventory[category]) : InventoryItem(category, v) = {v}

\* The addresses and the host, with the DNS it needs.
DestinationsAccepted(r, e, resolvers) ==
  /\ GBounded(e.addresses) /\ GUnique(e.addresses) /\ Range(e.addresses) \subseteq Address
  /\ \/ r.host \in Range(e.addresses)
     \/ r.host \in Name \ Address /\ e.dns = "yes"
  /\ e.dns \in Flags
  /\ e.addresses # <<>>
  /\ e.dns = "yes" => resolvers # <<>>

QueriesAccepted(p) ==
  LET platforms == IF p.platform = "null" THEN {} ELSE NormalizePlatform(p.platform)
  IN /\ p.platform = "null" \/ platforms # {}
     /\ GBounded(p.queries) /\ GUnique(p.queries)
     /\ Range(p.queries) \subseteq UNION {Queries(platform) : platform \in platforms}
     /\ QueryInventory(platforms, Range(p.queries), Range(p.inventory["interfaces"]))

RootsAccepted(roots) ==
  /\ GBounded(roots) /\ GUnique(roots)
  /\ \A root \in Range(roots) : root.lead = 1 /\ root.parts # <<>> /\ ".." \notin Range(root.parts)

\* Mutant: a target with roots only gets no credential port.
MutantEffectiveTcp(r, p) ==
  Range(p.egress.tcp) \cup IF p.platform # "null" /\ p.queries # <<>> THEN {r.port} ELSE {}

\* The TCP ports of the target: its own, and the credential's where a query or a
\* root needs it.
EffectiveTcp(r, p) ==
  Range(p.egress.tcp) \cup
  IF (p.platform # "null" /\ p.queries # <<>>) \/ p.roots # <<>> THEN {r.port} ELSE {}

\* _normalize_target.
TargetAccepted(r, p, resolvers) ==
  LET e == p.egress IN
  /\ RecordAccepted(r)
  /\ p.shape = "exact" /\ p.role = "read-only"
  /\ InventoryAccepted(p.inventory)
  /\ p.verified \in Flags /\ p.requests \in 1..60 /\ p.window \in 1..3600
  /\ e.shape = "exact"
  /\ DestinationsAccepted(r, e, resolvers)
  /\ PortsAccepted(e.tcp) /\ PortsAccepted(e.udp)
  /\ RangesAccepted(e.tcpRanges) /\ RangesAccepted(e.udpRanges)
  /\ ~Overlap(Range(e.tcp), Range(e.tcpRanges)) /\ ~Overlap(Range(e.udp), Range(e.udpRanges))
  /\ QueriesAccepted(p) /\ RootsAccepted(p.roots)
  /\ ~Overlap(EffectiveTcp(r, p), Range(e.tcpRanges))
  /\ e.icmp \in Flags
  /\ GBounded(e.names) /\ GUnique(e.names) /\ Range(e.names) \subseteq Name

TargetScope(r, p) ==
  [destinations |-> Range(p.egress.addresses),
   tcp |-> EffectiveTcp(r, p), udp |-> Range(p.egress.udp),
   tcpRanges |-> Range(p.egress.tcpRanges), udpRanges |-> Range(p.egress.udpRanges),
   icmp |-> p.egress.icmp = "yes"]

-----------------------------------------------------------------------------
(* The manifest and its rules.                                             *)

LanOf(lans) == UNION {Lan[id] : id \in lans}

\* build_manifest: when it does not raise, and what it returns.  A policy without a
\* record in the vault is refused.
ManifestAccepted(vault, policy, global) ==
  /\ GlobalAccepted(global)
  /\ DOMAIN policy # {} /\ Cardinality(DOMAIN policy) <= MaxItems
  /\ \A alias \in DOMAIN policy :
       /\ alias \in DOMAIN vault
       /\ TargetAccepted(vault[alias], policy[alias], global.resolvers)
       /\ global.profile = "lan-constrained" =>
            Range(policy[alias].egress.addresses) \subseteq LanOf(Range(global.lans))

Manifest(vault, policy, global) ==
  [profile   |-> global.profile,
   allowDns  |-> \E alias \in DOMAIN policy : policy[alias].egress.dns = "yes",
   resolvers |-> Range(global.resolvers),
   lans      |-> Range(global.lans),
   targets   |-> {TargetScope(vault[alias], policy[alias]) : alias \in DOMAIN policy}]

Rule(to, protocol, low, high) == [to |-> to, protocol |-> protocol, low |-> low, high |-> high]

\* Mutant: a range is one port too long.
MutantScopeRules(to, scope) ==
  {Rule(to, "tcp", port, port) : port \in scope.tcp}
  \cup {Rule(to, "udp", port, port) : port \in scope.udp}
  \cup {Rule(to, "tcp", r[1], r[2] + 1) : r \in scope.tcpRanges}
  \cup {Rule(to, "udp", r[1], r[2] + 1) : r \in scope.udpRanges}
  \cup IF scope.icmp THEN {Rule(to, "icmp", 0, 0)} ELSE {}

\* _scope_rules.
ScopeRules(to, scope) ==
  {Rule(to, "tcp", port, port) : port \in scope.tcp}
  \cup {Rule(to, "udp", port, port) : port \in scope.udp}
  \cup {Rule(to, "tcp", r[1], r[2]) : r \in scope.tcpRanges}
  \cup {Rule(to, "udp", r[1], r[2]) : r \in scope.udpRanges}
  \cup IF scope.icmp THEN {Rule(to, "icmp", 0, 0)} ELSE {}

DnsRules(m) ==
  IF m.allowDns
  THEN {Rule({resolver}, protocol, 53, 53) : resolver \in m.resolvers, protocol \in {"tcp", "udp"}}
  ELSE {}

\* build_ruleset: target by target, or every scope towards every LAN.
Ruleset(m) ==
  DnsRules(m) \cup
  IF m.profile = "strict-target"
  THEN UNION {UNION {ScopeRules({to}, scope) : to \in scope.destinations} : scope \in m.targets}
  ELSE UNION {ScopeRules(Lan[id], scope) : id \in m.lans, scope \in m.targets}

\* build_bundle: the digest of a manifest identifies it.
Bundle(vault, policy, global) ==
  LET m == Manifest(vault, policy, global)
  IN [manifest |-> m, digest |-> m, ruleset |-> Ruleset(m)]

Accepts(rules, to, protocol, port) ==
  \E rule \in rules : /\ to \in rule.to /\ rule.protocol = protocol
                      /\ rule.low <= port /\ port <= rule.high

-----------------------------------------------------------------------------
(* check_egress_rules.py.                                                  *)

\* validate_bundle.
BundleValid(b) ==
  LET m == b.manifest IN
  /\ m.profile \in {"strict-target", "lan-constrained"}
  /\ m.resolvers \subseteq Address
  /\ m.allowDns => m.resolvers # {}
  /\ m.lans \subseteq DOMAIN Lan
  /\ m.profile = "strict-target" <=> m.lans = {}
  /\ \A scope \in m.targets :
       /\ scope.destinations # {} /\ scope.destinations \subseteq Address
       /\ m.profile = "lan-constrained" => scope.destinations \subseteq LanOf(m.lans)
       /\ scope.tcp \cup scope.udp \subseteq Port
       /\ \A ports \in {scope.tcp, scope.udp} : Cardinality(ports) <= MaxItems
       /\ \A ranges \in {scope.tcpRanges, scope.udpRanges} : Cardinality(ranges) <= MaxRanges
       /\ \A r \in scope.tcpRanges \cup scope.udpRanges : 1 <= r[1] /\ r[1] <= r[2] /\ r[2] <= MaxPort
       /\ ~Overlap(scope.tcp, scope.tcpRanges) /\ ~Overlap(scope.udp, scope.udpRanges)
  /\ b.digest = m
  /\ b.ruleset = Ruleset(m)
=============================================================================
