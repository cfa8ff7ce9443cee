----------------------------- MODULE MCEnrollment -----------------------------
(* An instance of Enrollment for TLC: three enrollments, and each of them with *)
(* one field changed, in the manner of tests/test_policy_parity.py; a second   *)
(* target; and calls of every tool, each with an argument changed.             *)
EXTENDS Enrollment

A1 == "192.0.2.10"
A2 == "192.0.2.20"
MCAddress == {A1, A2, "192.0.2.53"}
MCName    == {"router", "device"}
MCLan     == [site |-> {A1, A2}, annex |-> {A2}]

Path(lead, parts, tidy, plain) == [lead |-> lead, parts |-> parts, tidy |-> tidy, plain |-> plain]
Root(parts) == Path(1, parts, TRUE, TRUE)

Word(prefix)    == P!Plain(prefix, <<>>)
Ip(v, version)  == P!Value(v, <<>>, <<>>, {}, FALSE, version)
Sub(prefix, parts, sub) == P!Value(prefix, parts, sub, {}, FALSE, "no")
Inventory(interfaces, services, addresses, switches) ==
  [interfaces |-> interfaces, services |-> services, addresses |-> addresses,
   switches |-> switches]

-----------------------------------------------------------------------------
(* Enrollments.                                                            *)

Record(host, port) ==
  [shape |-> "exact", host |-> host, port |-> port, login |-> "reader",
   password |-> "secret", community |-> "separate"]
Egress(addresses, dns) ==
  [shape |-> "exact", addresses |-> addresses, tcp |-> <<21, 443>>, udp |-> <<161>>,
   tcpRanges |-> << <<50000, 50002>> >>, udpRanges |-> <<>>, icmp |-> "yes", dns |-> dns,
   names |-> <<"device">>]
Entry(platform, queries, inventory, addresses, dns) ==
  [shape |-> "exact", role |-> "read-only", platform |-> platform, queries |-> queries,
   roots |-> <<Root(<<"safe">>)>>, inventory |-> inventory, verified |-> "no",
   requests |-> 30, window |-> 60, egress |-> Egress(addresses, dns)]

Linux == Entry("linux", <<"hostname", "interface_link">>,
               Inventory(<<Word("eth0")>>, <<Word("sshd")>>, <<Ip("h1", "ipv4")>>, <<Word("edge")>>),
               <<A1>>, "no")
Fortios == Entry("fortios", <<"interface_details", "route_lookup">>,
                 Inventory(<<Word("port1")>>, <<>>, <<Ip("h1", "ipv4")>>, <<>>), <<A1, A2>>, "yes")
CiscoXe == Entry("cisco_xe", <<"interface_errors">>,
                 Inventory(<<P!Plain("Gi", <<1, 0, 1>>)>>, <<>>, <<>>, <<>>), <<A2>>, "no")

\* A target enrolled for a TLS probe only.
Other == [Entry("null", <<>>, Inventory(<<>>, <<>>, <<>>, <<>>), <<A2>>, "no") EXCEPT
            !.roots = <<>>, !.egress.tcp = <<8443>>, !.egress.tcpRanges = <<>>,
            !.egress.udp = <<>>, !.egress.icmp = "no", !.egress.names = <<>>]

Global(profile, lans) ==
  [shape |-> "exact", profile |-> profile, resolvers |-> <<"192.0.2.53">>, lans |-> lans]

Line(tokens, key) == [tokens |-> tokens, key |-> key, marker |-> "none"]
Marked(marker, line) == [line EXCEPT !.marker = marker]
Token(style, text, negated) == [style |-> style, text |-> text, negated |-> negated]
KeyOf(r) == Line({Token("plain", IF r.port = 22 THEN <<r.host>> ELSE <<r.host, r.port>>, FALSE)}, "k")

Enroll(record, entry, global) ==
  [vault |-> [t |-> record, u |-> Record(A2, 22)], policy |-> [t |-> entry, u |-> Other],
   global |-> global, known |-> {KeyOf(record), Line({Token("plain", <<"elsewhere">>, FALSE)}, "j")}]

-----------------------------------------------------------------------------
(* One change to one of them.                                              *)

\* Field f of a record r set to each of its changed values.
Changed(r, changes) ==
  UNION {{[r EXCEPT ![f] = v] : v \in changes[f]} : f \in DOMAIN changes}

RecordChanges ==
  [shape |-> {"extra"}, host |-> {A2, "ipv6", "blank", "device"}, port |-> {0, 50000, 65536},
   login |-> {"blank"}, password |-> {"short"}, community |-> {"none", "short", "secret"}]
EgressChanges ==
  [shape |-> {"extra"},
   addresses |-> {<<>>, <<A2>>, <<A1, A1>>, <<A1, "ipv6">>, <<A1, A2, "192.0.2.53", "x">>},
   tcp |-> {<<>>, <<0>>, <<50000>>, <<443, 443>>, <<65535, 1>>, <<21, 80, 443>>}, udp |-> {<<65536>>, <<53>>},
   tcpRanges |-> {<<>>, << <<2, 1>> >>, << <<50000, 50001>>, <<50001, 50002>> >>,
                  << <<50001, 50002>>, <<50000, 50000>> >>, << <<2222, 2230>> >>,
                  << <<1, 2>>, <<3, 4>>, <<5, 6>> >>},
   udpRanges |-> {<< <<161, 161>> >>, << <<1000, 65535>> >>}, icmp |-> {"no", "other"},
   dns |-> {"yes", "other"}, names |-> {<<"ROUTER">>, <<"device", "device">>, <<>>}]
LinuxChanges ==
  [shape |-> {"extra", "no_egress", "no_platform"}, role |-> {"admin"},
   platform |-> {"null", "LINUX", "cisco_ios", "cisco_nxos"}, queries |-> {<<>>, <<"hostname">>},
   roots |-> {<<>>, <<Path(1, <<"safe">>, FALSE, TRUE)>>, <<Path(2, <<"safe">>, TRUE, TRUE)>>,
              <<Path(1, <<>>, TRUE, TRUE)>>, <<Root(<<"safe", "..">>)>>,
              <<Path(1, <<"safe">>, TRUE, FALSE)>>},
   verified |-> {"other"}, requests |-> {0, 61}, window |-> {0},
   egress |-> Changed(Linux.egress, EgressChanges)]

\* A FortiOS target known by its name.
NameChanges == [host |-> {"ROUTER", "device", A1}, port |-> {2222}]
FortiosChanges ==
  [platform |-> {"null", "fortinet", "solaris"}, verified |-> {"yes"},
   queries |-> {<<>>, <<"route_lookup", "route_lookup">>, <<"hostname">>},
   inventory |-> {[Fortios.inventory EXCEPT !.interfaces = list] :
                    list \in {<<>>, <<Word("ALL")>>, <<P!Value("port 1", <<>>, <<>>, {" "}, FALSE, "no")>>}}
                 \cup {[Fortios.inventory EXCEPT !.addresses = <<Ip("h1", "padded")>>],
                       [Fortios.inventory EXCEPT !.switches = <<P!Plain("a", <<1, 2>>)>>]},
   egress |-> {[Fortios.egress EXCEPT !.dns = "no"], [Fortios.egress EXCEPT !.addresses = <<>>]}]

\* The interfaces of Cisco platforms.
Interfaces ==
  {P!Plain("Gi", <<1, 2, 1>>), P!Plain("Te", <<1, 0, 30>>), P!Plain("Te", <<1, 1, 40>>),
   P!Plain("Vlan", <<4095>>), P!Plain("Po", <<100>>), P!Plain("GigabitEthernet", <<0, 0>>),
   P!Plain("Ethernet", <<1, P!Padded>>), Sub("Ethernet", <<1, 1>>, <<5>>), P!Plain("Gi", <<0, 1>>)}
CiscoChanges ==
  [platform |-> {"cisco_ios", "cisco_nxos"},
   queries |-> {<<"interface_details">>, <<"interface_errors", "route_lookup">>},
   inventory |-> {[CiscoXe.inventory EXCEPT !.interfaces = <<v>>] : v \in Interfaces}
                 \cup {[CiscoXe.inventory EXCEPT !.interfaces = @ \o @],
                       [CiscoXe.inventory EXCEPT
                          !.addresses = <<Ip("h6", "ipv6"), Ip("h1", "ipv4")>>]},
   egress |-> {[CiscoXe.egress EXCEPT !.addresses = <<A1>>]}]

GlobalChanges ==
  [shape |-> {"extra"}, profile |-> {"lan-constrained", "open"}, resolvers |-> {<<>>, <<A2, A2>>},
   lans |-> {<<"annex">>, <<"internet">>}]
KnownChanges(r) ==
  {{}, {Line({Token("hashed", <<r.host, r.port>>, FALSE)}, "k")},
   {Line({Token("plain", <<r.host, r.port>>, FALSE), Token("plain", <<"elsewhere">>, FALSE)}, "k")},
   {Line({Token("plain", <<r.host, r.port>>, FALSE)}, "bad")},
   {Line({Token("wildcard", <<"*">>, FALSE)}, "k")},
   {Marked("@cert-authority", KeyOf(r)), Marked("@revoked", KeyOf([r EXCEPT !.port = 2222]))},
   {Line({Token("plain", <<"ROUTER">>, FALSE)}, "k"),
    Line({Token("hashed", <<r.host, 22>>, FALSE), Token("plain", <<r.host>>, TRUE)}, "j")}}

Without(f, alias) == [a \in DOMAIN f \ {alias} |-> f[a]]
FilesChanged(f, record, entry) ==
  {[f EXCEPT !.vault["t"] = r] : r \in Changed(f.vault["t"], record)}
  \cup {[f EXCEPT !.policy["t"] = p] : p \in Changed(f.policy["t"], entry)}
  \cup {[f EXCEPT !.known = lines] : lines \in KnownChanges(f.vault["t"])}

LinuxFiles   == Enroll(Record(A1, 2222), Linux, Global("strict-target", <<>>))
FortiosFiles == Enroll(Record("router", 22), Fortios, Global("strict-target", <<>>))
CiscoFiles   == Enroll(Record(A2, 22), CiscoXe, Global("lan-constrained", <<"site">>))

MCFirstFiles == {LinuxFiles, FortiosFiles, CiscoFiles}
MCFiles ==
  FilesChanged(LinuxFiles, RecordChanges, LinuxChanges)
  \cup FilesChanged(FortiosFiles, NameChanges, FortiosChanges)
  \cup {[CiscoFiles EXCEPT !.policy["t"] = p] : p \in Changed(CiscoXe, CiscoChanges)}
  \cup {[f EXCEPT !.global = g] : f \in {FortiosFiles, CiscoFiles},
                                  g \in Changed(CiscoFiles.global, GlobalChanges)}
  \cup {[LinuxFiles EXCEPT !.vault = Without(@, "t")],
        [LinuxFiles EXCEPT !.policy = Without(@, "t")]}

-----------------------------------------------------------------------------
(* Calls.                                                                  *)

Args ==
  [shape |-> "exact", target |-> "t", port |-> -1, number |-> -1, offset |-> 0, tls |-> "yes",
   acknowledged |-> "no", path |-> Root(<<"safe", "log">>), name |-> "null",
   platform |-> "linux", query |-> "hostname", parameter |-> {}]
Ssh(platform, query, parameter) ==
  [Args EXCEPT !.platform = platform, !.query = query, !.parameter = parameter]

MCCalls ==
  {<<"dns_probe", Args>>, <<"dns_probe", [Args EXCEPT !.target = "u"]>>,
   <<"dns_probe", [Args EXCEPT !.target = "_egress"]>>, <<"icmp_probe", Args>>,
   <<"icmp_probe", [Args EXCEPT !.number = 9]>>, <<"shell", Args>>}
  \cup {<<"tcp_probe", [Args EXCEPT !.port = port]>> : port \in {0, 22, 443, 50002, 50003}}
  \cup {<<"tls_probe", [Args EXCEPT !.name = name]>> : name \in {"null", "device", "router", "blank"}}
  \cup {<<"tls_probe", [Args EXCEPT !.target = "u", !.port = 8443]>>}
  \cup {<<"snmp_get", [Args EXCEPT !.number = 1, !.port = port]>> : port \in {-1, 53, 162}}
  \cup {<<"snmp_get", [Args EXCEPT !.number = 21]>>}
  \cup {<<"sftp_stat", [Args EXCEPT !.path = path]>> :
          path \in {Root(<<"safe">>), Root(<<"safe", "..", "etc">>), Root(<<"safer">>),
                    Path(1, <<"safe", "log">>, FALSE, TRUE), Path(2, <<"safe">>, TRUE, TRUE)}}
  \cup {<<"ftp_list", [Args EXCEPT !.tls = tls, !.acknowledged = acknowledged]>> :
          tls \in {"yes", "no"}, acknowledged \in {"yes", "no"}}
  \cup {<<"ssh_read", args>> :
          args \in {Ssh("linux", "hostname", {}), Ssh("linux", "interface_link", {Word("eth0")}),
                    Ssh("linux", "interface_link", {}), Ssh("linux", "service_status", {Word("sshd")}),
                    Ssh("fortinet", "route_lookup", {Ip("h1", "ipv4")}),
                    Ssh("fortios", "interface_details", {Word("port2")}),
                    Ssh("fortios", "interface_details", {Word("port1")}),
                    Ssh("cisco_xe", "interface_errors", {P!Plain("Gi", <<1, 0, 1>>)}),
                    Ssh("cisco_xe", "interface_errors", {P!Plain("GigabitEthernet", <<1, 0, 1>>)}),
                    [Ssh("linux", "hostname", {}) EXCEPT !.offset = 16000],
                    Ssh("LINUX", "hostname", {}), Ssh("linux", "Hostname", {})}}

MCAnswers   == {{}, {A1}, {A1, A2}, {A1, "192.0.2.53"}}
MCEndpoints == {<<A1, 50000>>, <<A2, 50002>>, <<"ROUTER", 50001>>, <<"device", 50001>>, <<A1, 443>>,
                <<"203.0.113.9", 50000>>}

Peer(key, certificate) == [key |-> key, certificate |-> certificate]
MCPeers == {Peer("k", "trusted"), Peer("j", "pinned"), Peer("x", "chained")}
MCPins  == {"none", "invalid", "pinned"}
===============================================================================
