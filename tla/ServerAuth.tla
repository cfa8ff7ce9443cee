------------------------------- MODULE ServerAuth -------------------------------
(***************************************************************************)
(* auth.py and engine.py of netops-helper: how the server decodes the      *)
(* envelope of a call, what each tool requires of it and of its arguments, *)
(* and the addresses and ports it may then open.                           *)
(*                                                                         *)
(* The records are those of TargetPolicy; the envelope carries the lists   *)
(* of the policy as sequences.  The keys of an envelope are the known_hosts*)
(* lines it carries; an envelope without any has no known_hosts field.     *)
(*                                                                         *)
(* Left out: base64 and JSON, the lengths of texts, the values the devices *)
(* answer with.                                                            *)
(***************************************************************************)
EXTENDS ReadPolicy, Functions

CONSTANTS Address, Name, MaxItems, MaxRanges

MaxPort == 65535
Port  == 1..MaxPort
Flags == {"yes", "no"}
Absent == -1
MaxOffset == 8000000
MaxBytes == 48000

-----------------------------------------------------------------------------
(* Decoding.  A normalizer returns the set of its results: none where it   *)
(* raises.                                                                 *)

\* _canonical_ipv4: an IPv6 literal is refused, other texts are no address.
IsLiteral(text) == text \in Address

\* _normalize_dns_name: in lower case.
NormalizeDnsName(text) == {Fold(text)} \cap Name

\* _normalize_host.
NormalizeHost(text) ==
  IF text = "ipv6" THEN {} ELSE IF IsLiteral(text) THEN {text} ELSE NormalizeDnsName(text)

BoundedList(list) == Len(list) <= MaxItems
Unique(list)      == Cardinality(Range(list)) = Len(list)

\* _normalize_ports and _normalize_port_ranges.
NormalPorts(list) == BoundedList(list) /\ Range(list) \subseteq Port /\ Unique(list)
NormalRanges(list) ==
  /\ Len(list) <= MaxRanges
  /\ \A range \in Range(list) : range[1] \in Port /\ range[2] \in range[1]..MaxPort
  /\ \A i \in DOMAIN list, j \in DOMAIN list :
       i # j /\ list[i][1] <= list[j][1] => list[i][2] < list[j][1]

InSome(port, ranges) == \E range \in Range(ranges) : range[1] <= port /\ port <= range[2]

\* _normalize_egress.
DecodesEgress(e) ==
  /\ e.shape = "exact"
  /\ BoundedList(e.addresses) /\ Unique(e.addresses) /\ Range(e.addresses) \subseteq Address
  /\ BoundedList(e.names) /\ Unique(e.names)
  /\ \A name \in Range(e.names) : NormalizeDnsName(name) = {name}
  /\ e.icmp \in Flags /\ e.dns \in Flags
  /\ NormalPorts(e.tcp) /\ NormalPorts(e.udp)
  /\ NormalRanges(e.tcpRanges) /\ NormalRanges(e.udpRanges)
  /\ ~ \E port \in Range(e.tcp) : InSome(port, e.tcpRanges)
  /\ ~ \E port \in Range(e.udp) : InSome(port, e.udpRanges)

\* _normalize_inventory: values that are valid and their own rendering.
DecodesInventory(inventory) ==
  \A category \in Categories :
    LET list == inventory[category]
    IN /\ BoundedList(list) /\ Unique(list)
       /\ \A v \in Range(list) : InventoryItem(category, v) = {v}

\* _normalize_ssh_policy: the platforms it stands for, one or none.
NormalizeSshPolicy(platform, queries) ==
  LET platforms == IF platform = "null" THEN {"null"} ELSE NormalizePlatform(platform)
      available(p) == IF p = "null" THEN {} ELSE Queries(p)
  IN {p \in platforms : /\ BoundedList(queries) /\ Unique(queries)
                        /\ Range(queries) \subseteq available(p)}

DecodesIdentity(env) ==
  /\ env.alias # "blank" /\ env.port \in Port /\ env.login # "blank" /\ env.password # "short"
  /\ env.verified \in Flags

DecodesRoots(roots) ==
  /\ BoundedList(roots) /\ Unique(roots)
  /\ \A root \in Range(roots) :
       /\ root.lead = 1 /\ root.parts # <<>> /\ root.tidy
       /\ \A i \in DOMAIN root.parts : root.parts[i] # ".."
       /\ root.plain

\* The destination the envelope itself must enroll.
HostEnrolled(host, e) ==
  IF IsLiteral(host) THEN host \in Range(e.addresses)
  ELSE e.dns = "yes" /\ e.addresses # <<>>

\* TargetAuth.decode, in a set: the envelope with its host and platform normalized.
Decode(alias, env) ==
  {[env EXCEPT !.host = host, !.platform = platform] :
     host     \in {h \in NormalizeHost(env.host) : HostEnrolled(h, env.egress)},
     platform \in {p \in NormalizeSshPolicy(env.platform, env.queries) :
                     /\ env.shape = "exact"
                     /\ DecodesIdentity(env) /\ DecodesEgress(env.egress)
                     /\ DecodesInventory(env.inventory)
                     /\ QueryInventory({p} \ {"null"}, Range(env.queries),
                                       Range(env.inventory["interfaces"]))
                     /\ DecodesRoots(env.roots)
                     /\ env.community # "short"
                     /\ env.alias = alias /\ env.role = "read-only"
                     /\ env.community # env.password}}

-----------------------------------------------------------------------------
(* What a tool requires before it opens anything.                          *)

AllowsTcp(auth, port) == port \in Range(auth.egress.tcp) \/ InSome(port, auth.egress.tcpRanges)
AllowsUdp(auth, port) == port \in Range(auth.egress.udp) \/ InSome(port, auth.egress.udpRanges)

\* require_ssh_query and render_read_query.
AdmitsQuery(auth, args) ==
  /\ NormalizePlatform(args.platform) = {auth.platform}
  /\ args.query \in Range(auth.queries)
  /\ QueryRenders(auth.platform, args.query, args.parameter,
                  [category \in Categories |-> Range(auth.inventory[category])])

\* _safe_remote_path.
AdmitsPath(auth, path) ==
  /\ path.lead = 1 /\ path.tidy /\ path.plain /\ ".." \notin Range(path.parts)
  /\ \E root \in Range(auth.roots) :
       \/ path.parts = root.parts
       \/ /\ Len(root.parts) < Len(path.parts)
          /\ SubSeq(path.parts, 1, Len(root.parts)) = root.parts

\* require_tls_server_name: the target's own name, or a listed one.
AdmitsServerName(auth, name) ==
  name \in {"null", auth.host} \/ name \in Range(auth.egress.names) \cap NormalizeDnsName(name)

\* server.py: the defaults of the ports.
DefaultPort == [tls_probe |-> 443, snmp_get |-> 161, ftp_list |-> 21]
PortOf(tool, args) ==
  IF args.port = Absent /\ tool \in DOMAIN DefaultPort THEN DefaultPort[tool] ELSE args.port
NumberOr(args, default) == IF args.number = Absent THEN default ELSE args.number

AdmitsSshRead(auth, args) ==
  /\ args.offset \in 0..MaxOffset /\ NumberOr(args, 16000) \in 1000..MaxBytes
  /\ AdmitsQuery(auth, args)
AdmitsDnsProbe(auth, args)  == auth.egress.dns = "yes"
AdmitsTcpProbe(auth, args)  ==
  args.port \in Port /\ AllowsTcp(auth, args.port) /\ NumberOr(args, 50) \in 2..150
AdmitsIcmpProbe(auth, args) == NumberOr(args, 4) \in 1..8 /\ auth.egress.icmp = "yes"
AdmitsTlsProbe(auth, args)  ==
  LET port == PortOf("tls_probe", args)
  IN port \in Port /\ args.name # "blank" /\ AllowsTcp(auth, port) /\ AdmitsServerName(auth, args.name)
AdmitsSnmpGet(auth, args)   ==
  LET port == PortOf("snmp_get", args)
  IN /\ port \in Port /\ args.number \in 1..20
     /\ auth.community \notin {"none", auth.password}
     /\ AllowsUdp(auth, port)
AdmitsSftpStat(auth, args)  == AdmitsPath(auth, args.path)
AdmitsFtpList(auth, args)   ==
  LET port == PortOf("ftp_list", args)
  IN /\ {args.tls, args.acknowledged} \subseteq Flags
     /\ port \in Port /\ AdmitsPath(auth, args.path)
     /\ args.tls = "yes" \/ args.acknowledged = "yes"
     /\ AllowsTcp(auth, port) /\ auth.egress.tcpRanges # <<>>

Admits(tool, auth, args) ==
  CASE tool = "ssh_read"   -> AdmitsSshRead(auth, args)
    [] tool = "dns_probe"  -> AdmitsDnsProbe(auth, args)
    [] tool = "tcp_probe"  -> AdmitsTcpProbe(auth, args)
    [] tool = "icmp_probe" -> AdmitsIcmpProbe(auth, args)
    [] tool = "tls_probe"  -> AdmitsTlsProbe(auth, args)
    [] tool = "snmp_get"   -> AdmitsSnmpGet(auth, args)
    [] tool = "sftp_stat"  -> AdmitsSftpStat(auth, args)
    [] tool = "ftp_list"   -> AdmitsFtpList(auth, args)

-----------------------------------------------------------------------------
(* What it may open.                                                       *)

NeedsDns(auth) == ~IsLiteral(auth.host)

\* Mutant: one enrolled address among the answers is enough.
MutantResolvesTo(auth, answers) ==
  LET addresses == IF NeedsDns(auth) THEN answers ELSE {auth.host}
  IN IF addresses \cap Range(auth.egress.addresses) # {} THEN addresses ELSE {}

\* _resolve_target_ipv4: every address the host resolves to must be enrolled.
ResolvesTo(auth, answers) ==
  LET addresses == IF NeedsDns(auth) THEN answers ELSE {auth.host}
  IN IF addresses # {} /\ addresses \subseteq Range(auth.egress.addresses)
        /\ (NeedsDns(auth) => auth.egress.dns = "yes")
     THEN addresses ELSE {}

\* _open_verified_socket for the tools over SSH; netmiko_connection refuses a
\* FortiOS target that is not verified, and a later page comes from the cache.
SshMayConnect(tool, auth, args) ==
  tool = "ssh_read" => /\ args.offset = 0
                       /\ auth.platform = "fortinet" => auth.verified = "yes"

\* The connection a tool opens to the address it chose: protocol and port.
Opens(tool, auth, args) ==
  CASE tool \in {"ssh_read", "sftp_stat"} -> <<"tcp", auth.port>>
    [] tool \in {"tcp_probe", "tls_probe", "ftp_list"} -> <<"tcp", PortOf(tool, args)>>
    [] tool = "snmp_get"   -> <<"udp", PortOf(tool, args)>>
    [] tool = "icmp_probe" -> <<"icmp", 0>>

\* What the peer of a connection may show: its SSH host key, and its certificate,
\* "trusted" by the system for this host, the "pinned" one, "chained" to it, or other.
\* A marked line does not make a host key known.  Whether it makes the SSH library take
\* a host certificate, or refuse a key, is the library's and left out.
KnownKeys(auth) == {line.key : line \in {k \in auth.keys : k.marker = "none"}}

\* _ftps_context: a pin replaces the trust of the system by its certificate.
Handshake(pin, certificate) ==
  certificate \in IF pin = "none" THEN {"trusted"} ELSE {"pinned", "chained"}
PinMatches(pin, certificate) == pin = "none" \/ certificate = "pinned"

\* Whether the tool gets to send the password: the SSH libraries take a host key of the
\* known_hosts file only, ftp_list checks the pin after the handshake.
LogsIn(tool, auth, args, pin, peer) ==
  CASE tool \in {"ssh_read", "sftp_stat"} -> peer.key \in KnownKeys(auth)
    [] tool = "ftp_list" -> \/ args.tls = "no"
                            \/ Handshake(pin, peer.certificate) /\ PinMatches(pin, peer.certificate)
    [] OTHER             -> FALSE

\* guarded_makepasv: a passive port inside the ranges, at the control address; a
\* host that is no address must be the target's own name.
PassiveAllowed(auth, control, host, port) ==
  LET candidate == IF host \in Address THEN host ELSE control
  IN /\ port \in Port /\ InSome(port, auth.egress.tcpRanges)
     /\ host \in Address \/ Fold(host) = Fold(auth.host)
     /\ candidate = control /\ candidate \in Range(auth.egress.addresses)
=============================================================================
