-------------------------------- MODULE Rules ---------------------------------
(***************************************************************************)
(* netops-auditor: the checks of the FortiOS catalogue, the engine that    *)
(* runs them over a tree, and the completeness gate of a collection.       *)
(*                                                                         *)
(* A finding is its rule, its object, its section and its line; severity,  *)
(* evidence and wording are left out.  The fingerprint leaves the place    *)
(* out: it is the rule and the object (the version of the rule and the     *)
(* device are constants here).                                             *)
(***************************************************************************)
EXTENDS FortiOS, FiniteSets

Vdom      == <<"vdom">>
Policy    == <<"firewall policy">>
Interface == <<"system interface">>
Syslog    == <<"log syslogd setting">>
Ntp       == <<"system ntp">>

Builtin         == {<<"all">>, <<"none">>, <<"any">>, <<"always">>}
BuiltinServices == {<<"ALL">>, <<"HTTPS">>, <<"DNS">>, <<"PING">>, <<"SSH">>}

Addresses  == {<<<<"firewall address">>>>, <<<<"firewall addrgrp">>>>}
Services   == {<<<<"firewall service custom">>>>, <<<<"firewall service group">>>>}
Schedules  == {<<<<"firewall schedule recurring">>>>, <<<<"firewall schedule onetime">>>>,
               <<<<"firewall schedule group">>>>}
Interfaces == {<<Interface>>, <<<<"system zone">>>>, <<<<"system sdwan">>, <<"zone">>>>}

\* Where the value of an attribute of a policy may be defined, and the names
\* that need no definition.
References ==
  [srcaddr  |-> [sources |-> Addresses,  builtins |-> Builtin],
   dstaddr  |-> [sources |-> Addresses,  builtins |-> Builtin],
   service  |-> [sources |-> Services,   builtins |-> Builtin \cup BuiltinServices],
   schedule |-> [sources |-> Schedules,  builtins |-> Builtin],
   srcintf  |-> [sources |-> Interfaces, builtins |-> Builtin],
   dstintf  |-> [sources |-> Interfaces, builtins |-> Builtin]]

AdminServices == {<<"http">>, <<"https">>, <<"ssh">>, <<"telnet">>}

-----------------------------------------------------------------------------
(* The checks: what each finds in a tree                                   *)

Hit(key, section, line) == [key |-> key, section |-> section, line |-> line]

ObjectKey(path) == Joined(PathNames(path), "/")

VdomUnsupported(tree) ==
  IF HasSection(tree, <<Vdom>>) THEN {Hit(Vdom, Vdom, tree[Section(<<Vdom>>)].line)} ELSE {}

Defined(tree, attribute) ==
  UNION {EntryNames(tree, source) : source \in References[attribute].sources}

DanglingReference(tree) ==
  UNION {
    {Hit(Joined(<<ObjectKey(policy), <<attribute>>, value>>, "/"), Policy,
         LineOf(tree, policy, <<attribute>>)) :
       value \in Range(Values(tree, policy, <<attribute>>))
                   \ (References[attribute].builtins \cup Defined(tree, attribute))} :
    policy \in Entries(tree, <<Policy>>), attribute \in DOMAIN References}

AdminAccessOnUntrustedInterface(tree) ==
  {Hit(ObjectKey(interface), Interface, LineOf(tree, interface, <<"allowaccess">>)) :
     interface \in {i \in Entries(tree, <<Interface>>) :
       /\ Value(tree, i, <<"role">>) = <<"wan">>
       /\ Range(Values(tree, i, <<"allowaccess">>)) \cap AdminServices # {}}}

UtmWithoutSslProfile(tree) ==
  {Hit(ObjectKey(policy), Policy, LineOf(tree, policy, <<"utm-status">>)) :
     policy \in {p \in Entries(tree, <<Policy>>) :
       /\ Value(tree, p, <<"utm-status">>) = <<"enable">>
       /\ Value(tree, p, <<"ssl-ssh-profile">>) = <<>>}}

NoSyslogTarget(tree) ==
  LET section    == Section(<<Syslog>>)
      Lacks(name) == {Hit(Syslog, Syslog, LineOr(tree, section, name))}
  IN
  IF ~HasSection(tree, <<Syslog>>) THEN {Hit(Syslog, Syslog, 0)}
  ELSE IF Value(tree, section, <<"status">>) # <<"enable">> THEN Lacks(<<"status">>)
  ELSE IF Value(tree, section, <<"server">>) = <<>> THEN Lacks(<<"server">>)
  ELSE {}

NoNtpSync(tree) ==
  LET section == Section(<<Ntp>>)
      servers == <<Ntp, <<"ntpserver">>>>
      served  == \E entry \in Entries(tree, servers) :
                   Value(tree, entry, <<"server">>) # <<>>
      nearest == IF HasSection(tree, servers) THEN Section(servers) ELSE section
  IN
  IF ~HasSection(tree, <<Ntp>>) THEN {Hit(Ntp, Ntp, 0)}
  ELSE IF Value(tree, section, <<"ntpsync">>) # <<"enable">>
    THEN {Hit(Ntp, Ntp, LineOr(tree, section, <<"ntpsync">>))}
  ELSE IF Value(tree, section, <<"type">>) = <<"custom">> /\ ~served
    THEN {Hit(Ntp, Ntp, tree[nearest].line)}
  ELSE {}

-----------------------------------------------------------------------------
(* The engine                                                              *)

ScopeGates == {"vdom-unsupported"}
OtherRules == {"dangling", "wan-admin-access", "utm-without-ssl", "no-syslog-target",
               "no-ntp-sync"}

Check(rule, tree) ==
  CASE rule = "vdom-unsupported" -> VdomUnsupported(tree)
    [] rule = "dangling"         -> DanglingReference(tree)
    [] rule = "wan-admin-access" -> AdminAccessOnUntrustedInterface(tree)
    [] rule = "utm-without-ssl"  -> UtmWithoutSslProfile(tree)
    [] rule = "no-syslog-target" -> NoSyslogTarget(tree)
    [] rule = "no-ntp-sync"      -> NoNtpSync(tree)

Collect(tree, rules) ==
  UNION {{[rule |-> rule, key |-> hit.key, section |-> hit.section, line |-> hit.line] :
            hit \in Check(rule, tree)} : rule \in rules}

\* A gate that finds something silences the other rules.
Unless(gated, tree) == IF gated # {} THEN gated ELSE Collect(tree, OtherRules)
RunRules(tree)      == Unless(Collect(tree, ScopeGates), tree)

Fingerprint(finding) == [rule |-> finding.rule, key |-> finding.key]

-----------------------------------------------------------------------------
(* The completeness gate                                                   *)

\* The words of a line; quotes mean nothing here, and no block is looked at.
Words(line) == SelectSeq(line, LAMBDA c : c # Blank)

\* The sections that some line of the text begins.
Begun(text) ==
  {Tail(Words(line)) : line \in {l \in Range(text) :
     Len(Words(l)) > 1 /\ Head(Words(l)) = "config"}}

MissingSections(text, required) == required \ Begun(text)

Incomplete == [rule |-> "snapshot.incomplete", key |-> <<"snapshot">>]

\* What an execution records of a text: "run" goes without the gate.  There are
\* no findings of a text that does not parse; Readable tells.
Readable(text) == Parse(text).ok

FingerprintsOf(text) == {Fingerprint(f) : f \in RunRules(Parse(text).tree)}

Collected(text, required) ==
  IF MissingSections(text, required) # {} THEN {Incomplete} ELSE FingerprintsOf(text)

=============================================================================
