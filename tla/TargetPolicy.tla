------------------------------ MODULE TargetPolicy ------------------------------
(***************************************************************************)
(* remote_mcp_proxy.py: what the proxy accepts as a credential record, as  *)
(* a policy of a target and as the two together, what it accepts as the    *)
(* arguments of a tool, which calls it authorizes, and the envelope it     *)
(* forwards.                                                               *)
(*                                                                         *)
(* A list of the policy is a sequence.  A value of the wrong JSON type is  *)
(* any value outside the range the check allows: "other" for a boolean, 0  *)
(* for a port.  A path is a record: how many slashes it starts with, its   *)
(* components, whether it is its own PurePosixPath text ("tidy"), whether  *)
(* it is free of control characters and at most 2000 long ("plain").       *)
(*                                                                         *)
(* Left out: the lengths of texts other than paths, the order the          *)
(* validated lists are sorted into, and the reading of the two files.      *)
(***************************************************************************)
EXTENDS ReadPolicy, Functions

CONSTANTS Address,     \* canonical IPv4 addresses
          Name,        \* canonical host names
          MaxItems,    \* the bound of 256 entries of a list
          MaxRanges    \* the bound of 64 port ranges

MaxPort == 65535
Port  == 1..MaxPort
Flags == {"yes", "no"}
Absent == -1
MaxOffset == 8000000
MaxBytes == 48000

-----------------------------------------------------------------------------
(* The credential record.                                                  *)

\* _validate_record: the category of its error, or "none".
RecordError(r) ==
  IF r.shape # "exact" THEN "vault_schema"
  ELSE IF /\ r.host # "blank" /\ r.port \in Port /\ r.login # "blank" /\ r.password # "short"
          /\ r.community = "none" \/ (r.community # "short" /\ r.community # r.password)
       THEN "none"
       ELSE "auth_material"

-----------------------------------------------------------------------------
(* The policy of a target.                                                 *)

SafeDnsName(text) == text \in Name

Bounded(list) == Len(list) <= MaxItems /\ IsInjective(list)

ValidAddresses(list) == Bounded(list) /\ Range(list) \subseteq Address
ValidPorts(list)     == Bounded(list) /\ Range(list) \subseteq Port

\* Mutant: ranges may share a port.
MutantValidRanges(list) ==
  /\ Len(list) <= MaxRanges
  /\ \A i \in DOMAIN list : 1 <= list[i][1] /\ list[i][1] <= list[i][2] /\ list[i][2] <= MaxPort
  /\ \A i, j \in DOMAIN list : i # j => list[i][2] <= list[j][1] \/ list[j][2] <= list[i][1]

ValidRanges(list) ==
  /\ Len(list) <= MaxRanges
  /\ \A i \in DOMAIN list : 1 <= list[i][1] /\ list[i][1] <= list[i][2] /\ list[i][2] <= MaxPort
  /\ \A i, j \in DOMAIN list : i # j => list[i][2] < list[j][1] \/ list[j][2] < list[i][1]
Within(port, ranges) == \E i \in DOMAIN ranges : port \in ranges[i][1]..ranges[i][2]
Apart(ports, ranges) == \A port \in Range(ports) : ~Within(port, ranges)

\* _validate_egress.
ValidEgress(e) ==
  /\ e.shape = "exact"
  /\ ValidAddresses(e.addresses)
  /\ ValidPorts(e.tcp) /\ ValidPorts(e.udp)
  /\ ValidRanges(e.tcpRanges) /\ ValidRanges(e.udpRanges)
  /\ Apart(e.tcp, e.tcpRanges) /\ Apart(e.udp, e.udpRanges)
  /\ e.icmp \in Flags /\ e.dns \in Flags
  /\ Bounded(e.names) /\ \A name \in Range(e.names) : SafeDnsName(name)

ValidQueries(platform, queries) ==
  /\ platform = "null" \/ platform \in DOMAIN PlatformMap
  /\ Bounded(queries)
  /\ IF platform = "null" THEN queries = <<>>
     ELSE Range(queries) \subseteq Queries(PlatformMap[platform])

ValidRoots(roots) ==
  /\ Bounded(roots)
  /\ \A root \in Range(roots) :
       root.lead = 1 /\ root.parts # <<>> /\ root.tidy /\ root.plain /\ ".." \notin Range(root.parts)

\* The proxy's copies of the canonicalizers and patterns of read_policy.py, the
\* same text, and _valid_typed_inventory_value over them.
VendorCanonicalizer(kind, v)   == VendorText(kind, v)
SlotKindPattern(kind, v)       == TokenPattern(kind, v)
TypedInventoryValue(kind, v) ==
  CASE kind \in AddressKinds -> CanonicalAddress(kind, v)
    [] kind \in VendorKinds  -> VendorCanonicalizer(kind, v) # {}
    [] kind \in TokenKinds   -> SlotKindPattern(kind, v)

\* _validate_query_interface_inventory.
InterfacesFitQueries(platform, queries, interfaces) ==
  \/ platform = "null"
  \/ LET kinds == InterfaceKinds(PlatformMap[platform], queries)
     IN kinds = {} \/ \A v \in interfaces : \E kind \in kinds : TypedInventoryValue(kind, v)

ValidInventory(platform, queries, inventory) ==
  /\ \A category \in Categories :
       /\ Bounded(inventory[category])
       /\ \A v \in Range(inventory[category]) : TypedInventoryValue(GenericKind[category], v)
  /\ InterfacesFitQueries(platform, queries, Range(inventory["interfaces"]))

\* The budget a policy may give: calls, and the seconds they are counted over.
Limited(p) == p.requests \in 1..60 /\ p.window \in 1..3600

\* _validate_target_policy: the category of its error, or "none".
PolicyError(p) ==
  IF p.shape \in {"extra", "no_egress"} THEN "policy_schema"
  ELSE IF p.role # "read-only" THEN "role_rejected"
  ELSE IF /\ p.shape = "exact"
          /\ ValidQueries(p.platform, p.queries) /\ ValidEgress(p.egress) /\ ValidRoots(p.roots)
          /\ ValidInventory(p.platform, Range(p.queries), p.inventory)
          /\ p.verified \in Flags
          /\ Limited(p)
       THEN "none"
       ELSE "policy_schema"

\* What it returns: the policy with the platform it maps to.
NormalPolicy(p) ==
  [p EXCEPT !.platform = IF p.platform = "null" THEN "null" ELSE PlatformMap[p.platform]]

\* _validate_target_binding.
BindingError(r, p) ==
  IF \/ r.host \in Address /\ r.host \in Range(p.egress.addresses)
     \/ /\ r.host \notin Address \cup {"ipv6"}
        /\ SafeDnsName(r.host) /\ p.egress.dns = "yes" /\ p.egress.addresses # <<>>
  THEN "none" ELSE "policy_schema"

-----------------------------------------------------------------------------
(* known_hosts.  A token of a line names a host, alone or with a port; it  *)
(* is plain, hashed or has wildcards, and may be negated.  A line may have *)
(* a marker, "@revoked" or "@cert-authority".                              *)

KnownHostCandidates(r) ==
  IF r.port = 22 THEN {<<r.host>>, <<r.host, 22>>} ELSE {<<r.host, r.port>>}

FoldToken(text) == [text EXCEPT ![1] = Fold(text[1])]

\* _host_token_match.
TokenMatches(token, candidates) ==
  CASE token.style = "wildcard" -> FALSE
    [] token.style = "hashed"   -> token.text \in candidates
    [] token.style = "plain"    -> FoldToken(token.text) \in {FoldToken(c) : c \in candidates}

\* _select_known_hosts: the names, the keys and the markers of the lines that match.
SelectKnownHosts(lines, r) ==
  LET matching(line) == {token \in line.tokens : TokenMatches(token, KnownHostCandidates(r))}
  IN {[names |-> {token.text : token \in matching(line)}, key |-> line.key,
       marker |-> line.marker] :
        line \in {l \in lines : /\ matching(l) # {} /\ l.key # "bad"
                                /\ \A token \in matching(l) : ~token.negated}}

-----------------------------------------------------------------------------
(* The arguments of a call, and its authorization.                         *)

DeviceTools == {"dns_probe", "tcp_probe", "icmp_probe", "tls_probe", "ssh_read", "snmp_get",
                "sftp_stat", "ftp_list"}

\* The number a tool takes: timeout in tenths of a second, count, max_bytes, the
\* number of OIDs.
NumberBounds == [tcp_probe |-> 2..150, icmp_probe |-> 1..8, ssh_read |-> 1000..MaxBytes,
                 snmp_get |-> 1..20]

\* _validate_tool_arguments.
ValidArguments(tool, args) ==
  /\ tool \in DeviceTools /\ args.shape = "exact"
  /\ args.target \notin {"blank", "_egress", "master"}
  /\ args.port = Absent \/ args.port \in Port
  /\ tool \in DOMAIN NumberBounds =>
       (args.number = Absent /\ tool # "snmp_get") \/ args.number \in NumberBounds[tool]
  /\ args.offset \in 0..MaxOffset
  /\ args.tls \in Flags /\ args.acknowledged \in Flags
  /\ args.path.plain
  /\ args.name # "blank"
  /\ tool = "ssh_read" => args.platform \in DOMAIN PlatformMap /\ args.query # "Hostname"

NormalArguments(tool, args) ==
  IF tool = "ssh_read" THEN [args EXCEPT !.platform = PlatformMap[args.platform]] ELSE args

\* _port_allowed and _path_in_roots.
PortAllowed(port, ports, ranges) == port \in Port /\ (port \in Range(ports) \/ Within(port, ranges))
IsUnder(root, path) ==
  /\ Len(root.parts) <= Len(path.parts)
  /\ \A i \in DOMAIN root.parts : path.parts[i] = root.parts[i]
\* Mutant: a path under a root may climb out of it.
MutantPathInRoots(path, roots) ==
  path.lead = 1 /\ path.tidy /\ \E root \in Range(roots) : IsUnder(root, path)
PathInRoots(path, roots) ==
  /\ path.lead = 1 /\ path.tidy /\ ".." \notin Range(path.parts)
  /\ \E root \in Range(roots) : IsUnder(root, path)

PortOr(args, default) == IF args.port = Absent THEN default ELSE args.port

\* The slots of the query are the parameters, each typed and enrolled.
ParametersAllowed(args, p) ==
  LET slots == Slots[args.platform][args.query]
  IN /\ Cardinality(slots) = Cardinality(args.parameter)
     /\ \A slot \in slots, v \in args.parameter :
          TypedInventoryValue(slot[2], v) /\ v \in Range(p.inventory[slot[1]])

\* _authorize_tool.
Authorized(tool, args, r, p) ==
  LET e == p.egress
      tcp(default) == PortAllowed(PortOr(args, default), e.tcp, e.tcpRanges)
  IN CASE tool = "dns_probe"  -> e.dns = "yes"
       [] tool = "icmp_probe" -> e.icmp = "yes"
       [] tool = "ssh_read"   -> /\ p.platform # "null" /\ args.platform = p.platform
                                 /\ args.query \in Range(p.queries)
                                 /\ ParametersAllowed(args, p)
       [] tool = "sftp_stat"  -> PathInRoots(args.path, p.roots)
       [] tool = "snmp_get"   -> PortAllowed(PortOr(args, 161), e.udp, e.udpRanges)
       [] tool = "tcp_probe"  -> PortAllowed(args.port, e.tcp, e.tcpRanges)
       [] tool = "tls_probe"  -> /\ tcp(443)
                                 /\ args.name \in {"null", r.host} \cup Range(e.names)
       [] tool = "ftp_list"   -> tcp(21) /\ e.tcpRanges # <<>> /\ PathInRoots(args.path, p.roots)

\* _auth_context: the category of its error, or "none", and the envelope.
EnvelopeError(r, lines, tool) ==
  IF \/ tool \in {"ssh_read", "sftp_stat"} /\ SelectKnownHosts(lines, r) = {}
     \/ tool = "snmp_get" /\ r.community = "none"
  THEN "auth_material" ELSE "none"

AuthContext(alias, r, p, lines, tool) ==
  [shape |-> "exact", alias |-> alias, host |-> r.host, port |-> r.port, login |-> r.login,
   password |-> r.password, role |-> p.role, platform |-> p.platform, queries |-> p.queries,
   inventory |-> p.inventory, roots |-> p.roots, verified |-> p.verified, egress |-> p.egress,
   community |-> IF tool = "snmp_get" THEN r.community ELSE "none",
   keys |-> IF tool \in {"ssh_read", "sftp_stat"} THEN SelectKnownHosts(lines, r) ELSE {}]
=============================================================================
