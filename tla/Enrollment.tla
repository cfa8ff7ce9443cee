------------------------------ MODULE Enrollment ------------------------------
(***************************************************************************)
(* The files that enroll a target, and the three programs that read them:  *)
(* the proxy, which validates the credential record and the policy and     *)
(* authorizes a call (TargetPolicy); the server, which decodes the         *)
(* envelope and opens connections (ServerAuth); and the egress generator,  *)
(* which writes the rules of the container's network (EgressRules).        *)
(*                                                                         *)
(* The operator edits the files and installs a bundle at any time.  The    *)
(* proxy reads the vault, the policy and known_hosts one after the other;  *)
(* the server resolves a host name to whatever DNS answers, and a device   *)
(* names whatever it likes as its passive FTP endpoint.                    *)
(*                                                                         *)
(* The rate window, the page cache, the audit and the answers on stdout    *)
(* are the modules RateLimit, PageCache, AuditLog and Proxy.               *)
(***************************************************************************)
EXTENDS Integers, Sequences, FiniteSets

CONSTANTS
  Address, Name, Lan, MaxItems, MaxRanges,  \* as in TargetPolicy and EgressRules
  FirstFiles,  \* the files at the start
  Files,       \* the files an edit may leave
  MaxEdits,    \* edits of the operator
  Calls,       \* tools and arguments a client may send, <<tool, args>>
  Answers,     \* sets of addresses DNS may answer
  Endpoints,   \* passive endpoints a device may name, <<host, port>>
  Pins,        \* what tls-pins.json may say of the target: "none", "invalid", "pinned"
  Peers        \* who may answer at an address: its host key and its certificate

VARIABLES
  files,   \* the vault, the policy, its global part and the known_hosts lines
  edits,   \* edits so far
  chain,   \* the rules of the chain, {} while none is installed
  source,  \* the files the chain was generated from, in a set
  call,    \* the call under way
  opened,  \* the connections it opened
  told     \* ghost: the peers it sent the password to, each with the pin of the moment

vars == <<files, edits, chain, source, call, opened, told>>

P == INSTANCE TargetPolicy
S == INSTANCE ServerAuth
G == INSTANCE EgressRules

-----------------------------------------------------------------------------
(* What the constants are.  The values of a file are of the JSON types the *)
(* readers test first, but otherwise any: the constants stand for files    *)
(* that are right and wrong in every other way.                            *)

Values  == [prefix : STRING, parts : Seq(Int), sub : Seq(Int), marks : SUBSET STRING,
            long : BOOLEAN, ip : STRING]
Paths   == [lead : Int, parts : Seq(STRING), tidy : BOOLEAN, plain : BOOLEAN]
\* "none" is the community of a record that has no such field.
Records == [shape : STRING, host : STRING, port : Int, login : STRING,
            password : STRING \ {"none"}, community : STRING]
Egresses == [shape : STRING, addresses : Seq(STRING), names : Seq(STRING), icmp : STRING,
             dns : STRING, tcp : Seq(Int), udp : Seq(Int),
             tcpRanges : Seq(Int \X Int), udpRanges : Seq(Int \X Int)]
Entries == [shape : STRING, role : STRING, platform : STRING, queries : Seq(STRING),
            roots : Seq(Paths), inventory : [P!Categories -> Seq(Values)], verified : STRING,
            requests : Int, window : Int, egress : Egresses]
Globals == [shape : STRING, profile : STRING, resolvers : Seq(Address), lans : Seq(STRING)]
Arguments == [shape : STRING, target : STRING, port : Int, number : Int, offset : Int,
              tls : STRING, acknowledged : STRING, path : Paths, name : STRING,
              platform : STRING, query : STRING, parameter : SUBSET Values]

\* A token of known_hosts names a host, alone or with a port.
IsToken(token) ==
  /\ token.style \in {"plain", "hashed", "wildcard"} /\ token.negated \in BOOLEAN
  /\ \/ token.text = <<token.text[1]>>
     \/ token.text = <<token.text[1], token.text[2]>>

\* What is canonical is its own normal form.
ASSUME NamesAssumption ==
  /\ {"blank", "ipv6"} \cap (Address \cup Name) = {}
  /\ \A text \in Address \cup Name : P!Fold(text) = text
ASSUME LimitsAssumption == MaxItems \in Nat /\ MaxRanges \in Nat /\ MaxEdits \in Nat
ASSUME LanAssumption == \A id \in DOMAIN Lan : Lan[id] \subseteq Address
ASSUME FilesAssumption ==
  \A f \in FirstFiles \cup Files :
    /\ \A alias \in DOMAIN f.vault : f.vault[alias] \in Records
    /\ \A alias \in DOMAIN f.policy : f.policy[alias] \in Entries
    /\ f.global \in Globals
    /\ \A line \in f.known : \A token \in line.tokens : IsToken(token)
ASSUME CallsAssumption ==
  \A c \in Calls : c[2] \in Arguments /\ IsFiniteSet(c[2].parameter)
ASSUME PinsAssumption == "none" \in Pins /\ Pins \subseteq {"none", "invalid", "pinned"}

-----------------------------------------------------------------------------
Nothing == [none |-> TRUE]
Idle == [stage |-> "idle", tool |-> "none", args |-> Nothing, record |-> Nothing,
         entry |-> Nothing, auth |-> Nothing, control |-> "none", answer |-> "none"]

Init ==
  /\ files \in FirstFiles
  /\ edits = 0 /\ chain = {} /\ source = {}
  /\ call = Idle /\ opened = {} /\ told = {}

-----------------------------------------------------------------------------
(* The operator.                                                           *)

Edit ==
  /\ edits < MaxEdits
  /\ files' \in Files
  /\ edits' = edits + 1
  /\ UNCHANGED <<chain, source, call, opened, told>>

\* The generator writes a bundle and the apply script, which validates it first,
\* replaces the chain; either refuses and the chain stays.
Install ==
  /\ G!ManifestAccepted(files.vault, files.policy, files.global)
  /\ G!BundleValid(G!Bundle(files.vault, files.policy, files.global))
  /\ chain' = G!Bundle(files.vault, files.policy, files.global).ruleset
  /\ source' = {files}
  /\ UNCHANGED <<files, edits, call, opened, told>>

-----------------------------------------------------------------------------
(* The proxy.                                                              *)

Answer(result) == call' = [call EXCEPT !.stage = "answered", !.answer = result]

\* A new call: its arguments are checked before any file is read.
Request ==
  /\ call.stage = "idle"
  /\ \E c \in Calls :
       LET tool == c[1]
           args == c[2]
       IN call' = IF P!ValidArguments(tool, args)
                  THEN [Idle EXCEPT !.stage = "vault", !.tool = tool,
                                    !.args = P!NormalArguments(tool, args)]
                  ELSE [Idle EXCEPT !.stage = "answered", !.answer = "invalid_params"]
  /\ UNCHANGED <<files, edits, chain, source, opened, told>>

\* _load_record.
LoadRecord ==
  /\ call.stage = "vault"
  /\ LET target == call.args.target IN
     IF target \notin DOMAIN files.vault THEN Answer("unknown_alias")
     ELSE LET record == files.vault[target] IN
          IF P!RecordError(record) # "none" THEN Answer(P!RecordError(record))
          ELSE call' = [call EXCEPT !.stage = "policy", !.record = record]
  /\ UNCHANGED <<files, edits, chain, source, opened, told>>

\* _load_target_policy, _validate_target_binding, _authorize_tool.
LoadTargetPolicy ==
  /\ call.stage = "policy"
  /\ LET target == call.args.target IN
     IF target \notin DOMAIN files.policy THEN Answer("policy_rejected")
     ELSE LET entry == files.policy[target] IN
          IF P!PolicyError(entry) # "none" THEN Answer(P!PolicyError(entry))
          ELSE LET policy == P!NormalPolicy(entry) IN
               IF P!BindingError(call.record, policy) # "none"
               THEN Answer(P!BindingError(call.record, policy))
               ELSE IF ~P!Authorized(call.tool, call.args, call.record, policy)
               THEN Answer("policy_scope")
               ELSE call' = [call EXCEPT !.stage = "authorized", !.entry = policy]
  /\ UNCHANGED <<files, edits, chain, source, opened, told>>

\* _auth_context reads known_hosts; the call is forwarded with its envelope.
Forward ==
  /\ call.stage = "authorized"
  /\ LET error == P!EnvelopeError(call.record, files.known, call.tool) IN
     IF error # "none" THEN Answer(error)
     ELSE call' = [call EXCEPT !.stage = "forwarded",
                     !.auth = P!AuthContext(call.args.target, call.record, call.entry,
                                            files.known, call.tool)]
  /\ UNCHANGED <<files, edits, chain, source, opened, told>>

-----------------------------------------------------------------------------
(* The server.                                                             *)

\* _auth, and the tool's checks before it opens anything.
Serve ==
  /\ call.stage = "forwarded"
  /\ LET decoded == S!Decode(call.args.target, call.auth) IN
     IF \E auth \in decoded : S!Admits(call.tool, auth, call.args)
     THEN \E auth \in decoded : call' = [call EXCEPT !.stage = "admitted", !.auth = auth]
     ELSE Answer("refused")
  /\ UNCHANGED <<files, edits, chain, source, opened, told>>

Connection(to, protocol, port) == [to |-> to, protocol |-> protocol, port |-> port]

\* _resolve_target_ipv4: a name is looked up at one of the resolvers, which answers
\* with any addresses; the tool takes one of them if all are enrolled.
Resolve ==
  /\ call.stage = "admitted" /\ S!SshMayConnect(call.tool, call.auth, call.args)
  /\ \E answers \in Answers :
       LET addresses == S!ResolvesTo(call.auth, answers) IN
       IF addresses = {} THEN Answer("refused")
       ELSE IF call.tool = "dns_probe" THEN Answer("ok")
       ELSE \E to \in addresses : call' = [call EXCEPT !.stage = "resolved", !.control = to]
  /\ opened' = IF S!NeedsDns(call.auth)
               THEN {Connection(files.global.resolvers[i], "udp", 53) :
                       i \in DOMAIN files.global.resolvers}
               ELSE {}
  /\ UNCHANGED <<files, edits, chain, source, told>>

\* An unverified FortiOS target, or a page that must come from the cache.
NoConnection ==
  /\ call.stage = "admitted" /\ ~S!SshMayConnect(call.tool, call.auth, call.args)
  /\ Answer("refused")
  /\ UNCHANGED <<files, edits, chain, source, opened, told>>

\* The tool opens its connection and, where it logs in, sends the password to a peer
\* that has shown its key or certificate; FTP goes on to a data connection.  The pins are
\* read before the connection is opened.
Connect ==
  /\ call.stage = "resolved"
  /\ \E peer \in Peers, pin \in IF call.tool = "ftp_list" /\ call.args.tls = "yes" THEN Pins
                               ELSE {"none"} :
       LET to  == S!Opens(call.tool, call.auth, call.args)
           in  == S!LogsIn(call.tool, call.auth, call.args, pin, peer)
       IN IF pin = "invalid" THEN Answer("refused") /\ UNCHANGED <<opened, told>>
          ELSE /\ opened' = opened \cup {Connection(call.control, to[1], to[2])}
               /\ told' = IF in THEN {<<peer, pin>>} ELSE {}
               /\ IF in /\ call.tool = "ftp_list"
                  THEN call' = [call EXCEPT !.stage = "passive"]
                  ELSE Answer(IF in \/ call.tool \notin {"ssh_read", "sftp_stat", "ftp_list"}
                              THEN "ok" ELSE "refused")
  /\ UNCHANGED <<files, edits, chain, source>>

\* guarded_makepasv.
Passive ==
  /\ call.stage = "passive"
  /\ \E endpoint \in Endpoints :
       IF S!PassiveAllowed(call.auth, call.control, endpoint[1], endpoint[2])
       THEN /\ Answer("ok")
            /\ opened' = opened \cup {Connection(call.control, "tcp", endpoint[2])}
       ELSE Answer("refused") /\ UNCHANGED opened
  /\ UNCHANGED <<files, edits, chain, source, told>>

\* The answer goes back to the client; the next call starts afresh.
Return ==
  /\ call.stage = "answered"
  /\ call' = Idle /\ opened' = {} /\ told' = {}
  /\ UNCHANGED <<files, edits, chain, source>>

Next == \/ Edit \/ Install
        \/ Request \/ LoadRecord \/ LoadTargetPolicy \/ Forward
        \/ Serve \/ Resolve \/ NoConnection \/ Connect \/ Passive \/ Return

Spec == Init /\ [][Next]_vars

-----------------------------------------------------------------------------
(* Properties.                                                             *)

Stages == {"idle", "vault", "policy", "authorized", "forwarded", "admitted", "resolved", "passive",
           "answered"}
Results == {"none", "ok", "refused", "invalid_params", "unknown_alias", "policy_rejected",
             "vault_schema", "auth_material", "policy_schema", "role_rejected", "policy_scope"}

\* The ports of a packet; 0 stands for none.
PacketPort == 0..P!MaxPort

\* The files are among those an operator writes, a call is at one of its stages, and
\* what it opened has an address and a port a packet can carry.
TypeOK ==
  /\ \A f \in {files} \cup source : f \in FirstFiles \/ f \in Files
  /\ edits \in 0..MaxEdits
  /\ \A rule \in chain : rule.to \subseteq Address /\ {rule.low, rule.high} \subseteq PacketPort
  /\ call.stage \in Stages /\ call.answer \in Results
  /\ call.control \in Address \cup {"none"}
  /\ \A c \in opened : /\ c.to \in Address /\ c.port \in PacketPort
                       /\ c.port = 0 <=> c.protocol = "icmp"
  /\ told \subseteq Peers \X Pins

InRanges(port, ranges) == \E i \in DOMAIN ranges : port >= ranges[i][1] /\ port <= ranges[i][2]
Listed(x, list)        == \E i \in DOMAIN list : list[i] = x
TcpInScope(port, p)    == Listed(port, p.egress.tcp) \/ InRanges(port, p.egress.tcpRanges)
UdpInScope(port, p)    == Listed(port, p.egress.udp) \/ InRanges(port, p.egress.udpRanges)
DerivesPort(p)         == (p.platform # "null" /\ p.queries # <<>>) \/ p.roots # <<>>

ProxyAccepts(r, p) ==
  /\ P!RecordError(r) = "none" /\ P!PolicyError(p) = "none"
  /\ P!BindingError(r, P!NormalPolicy(p)) = "none"
ServerAccepts(alias, r, p) ==
  S!Decode(alias, [P!AuthContext(alias, r, p, {}, "snmp_get") EXCEPT !.shape = p.shape]) # {}
GeneratorAccepts(r, p) == G!TargetAccepted(r, p, files.global.resolvers)

\* What the three validators say of a record and a policy.
ReadersAgree(alias, r, p) ==
  LET canonical == p.platform \in {"null"} \cup DOMAIN P!PlatformMap
  IN /\ ProxyAccepts(r, p) => ServerAccepts(alias, r, p)
     /\ /\ ServerAccepts(alias, r, p) /\ canonical /\ r.host \in Address \cup Name
        /\ r.shape = "exact" /\ P!Limited(p)
        => ProxyAccepts(r, p)
     /\ ProxyAccepts(r, p) =>
          (GeneratorAccepts(r, p) <=>
            /\ p.egress.dns = "yes" => files.global.resolvers # <<>>
            /\ ~(DerivesPort(p) /\ InRanges(r.port, p.egress.tcpRanges)))
     /\ /\ GeneratorAccepts(r, p) /\ canonical
        /\ \A i \in DOMAIN p.roots : p.roots[i].tidy /\ p.roots[i].plain
        => ProxyAccepts(r, p)

\* The three validators, written separately in remote_mcp_proxy.py, auth.py and
\* generate_egress_rules.py, accept the same records and policies, up to what they
\* are meant to differ in: the proxy takes only canonical platforms, hosts and roots
\* and checks the rate limit; the generator also wants resolvers for DNS and no range
\* over the credential port it derives.  What the generator writes, its checker takes,
\* unless that port is one more than a list may hold: the generator bounds the list it
\* reads and the checker the list it finds.
\* (It is about the files alone, so it is looked at while no call is under way, and
\* about the aliases a call can name.)
ValidatorsAgree ==
  call = Idle =>
  /\ \A alias \in (DOMAIN files.vault \cap DOMAIN files.policy) \ {"blank"} :
       ReadersAgree(alias, files.vault[alias], files.policy[alias])
  /\ G!ManifestAccepted(files.vault, files.policy, files.global)
       => (G!BundleValid(G!Bundle(files.vault, files.policy, files.global)) <=>
             \A alias \in DOMAIN files.policy :
               Cardinality(G!EffectiveTcp(files.vault[alias], files.policy[alias])) <= MaxItems)

\* The scope docs/configuration.md requires of each tool.
RequiredScope(tool, args, r, p) ==
  CASE tool = "dns_probe"  -> p.egress.dns = "yes"
    [] tool = "icmp_probe" -> p.egress.icmp = "yes"
    [] tool = "tcp_probe"  -> TcpInScope(args.port, p)
    [] tool = "tls_probe"  -> /\ TcpInScope(S!PortOf(tool, args), p)
                              /\ args.name \in {"null", r.host} \/ Listed(args.name, p.egress.names)
    [] tool = "ssh_read"   -> /\ args.platform = p.platform /\ Listed(args.query, p.queries)
                              /\ \A v \in args.parameter :
                                   \E category \in P!Categories : Listed(v, p.inventory[category])
    [] tool = "sftp_stat"  -> p.roots # <<>>
    [] tool = "snmp_get"   -> /\ UdpInScope(S!PortOf(tool, args), p)
                              /\ r.community \notin {"none", r.password}
    [] tool = "ftp_list"   -> /\ TcpInScope(S!PortOf(tool, args), p)
                              /\ p.egress.tcpRanges # <<>> /\ p.roots # <<>>

\* The two gates of a call agree: the server decodes every envelope the proxy forwards
\* and admits the call, but for plain FTP nobody acknowledged, and a call past both
\* gates is within the scope the configuration guide requires, in the policy the proxy
\* read, whatever was edited since.
GatesAgree ==
  /\ call.stage = "forwarded" =>
       /\ S!Decode(call.args.target, call.auth) # {}
       /\ \A auth \in S!Decode(call.args.target, call.auth) :
            \/ S!Admits(call.tool, auth, call.args)
            \/ call.tool = "ftp_list" /\ call.args.tls = "no" /\ call.args.acknowledged = "no"
  /\ call.stage \in {"admitted", "resolved", "passive"} =>
       RequiredScope(call.tool, call.args, call.record, call.entry)

\* Whatever DNS answers and whatever endpoint a device names, every connection of a
\* call goes to an address its policy enrolls, at a port in its scope: the credential
\* port for the tools over SSH; all connections of an FTP listing go to one address, the
\* data connection inside the passive ranges.  And whoever answers there, the password
\* is sent to a peer with a host key that an unmarked line of known_hosts has for this
\* target and port, with the pinned certificate where there is a pin, with a trusted one
\* where there is none, or over plain FTP that was acknowledged.
ConnectionsEnrolled ==
  /\ \A c \in opened :
       \/ c.protocol = "udp" /\ c.port = 53 /\ call.entry.egress.dns = "yes"
       \/ /\ Listed(c.to, call.entry.egress.addresses) /\ c.to = call.control
          /\ CASE c.protocol = "icmp" -> call.entry.egress.icmp = "yes"
               [] c.protocol = "udp"  -> UdpInScope(c.port, call.entry)
               [] c.protocol = "tcp"  ->
                    IF call.tool \in {"ssh_read", "sftp_stat"} THEN c.port = call.record.port
                    ELSE TcpInScope(c.port, call.entry)
  /\ \A t \in told :
       IF call.tool \in {"ssh_read", "sftp_stat"}
       THEN \E line \in call.auth.keys :
              /\ line.key = t[1].key /\ line.marker = "none"
              /\ \A text \in line.names :
                   /\ P!Fold(text[1]) = call.record.host
                   /\ call.record.port = 22 \/ (Len(text) = 2 /\ text[2] = call.record.port)
       ELSE /\ call.tool = "ftp_list"
            /\ IF call.args.tls = "no" THEN call.args.acknowledged = "yes"
               ELSE t[1].certificate = IF t[2] = "pinned" THEN "pinned" ELSE "trusted"

\* A chain generated from the record and the policy a call was authorized by lets every
\* connection of the call through; a strict-target chain lets nothing else through than
\* the scopes and the credential ports of the enrolled targets, and DNS to the resolvers.
ChainFitsCalls ==
  \A f \in source :
    /\ LET target == call.args.target IN
       opened # {} /\ target \in DOMAIN f.policy /\ f.vault[target] = call.record
         /\ P!PolicyError(f.policy[target]) = "none"
         /\ P!NormalPolicy(f.policy[target]) = call.entry =>
       \A c \in opened :
         \/ G!Accepts(chain, c.to, c.protocol, c.port)
         \/ c.protocol = "udp" /\ c.port = 53 /\ ~Listed(c.to, f.global.resolvers)
    /\ f.global.profile = "strict-target" =>
       \A rule \in chain : \A port \in {rule.low, rule.high} :
         \/ port = 53 /\ \A to \in rule.to : Listed(to, f.global.resolvers)
         \/ \E alias \in DOMAIN f.policy :
              LET p == f.policy[alias] IN
              /\ \A to \in rule.to : Listed(to, p.egress.addresses)
              /\ CASE rule.protocol = "icmp" -> p.egress.icmp = "yes"
                   [] rule.protocol = "udp"  -> UdpInScope(port, p)
                   [] rule.protocol = "tcp"  ->
                        TcpInScope(port, p) \/ (DerivesPort(p) /\ port = f.vault[alias].port)
=============================================================================
