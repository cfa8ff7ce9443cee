--------------------------- MODULE Configurations ----------------------------
(***************************************************************************)
(* A reference for the auditor's rules: devices by their settings, what is *)
(* wrong with each by the titles of the catalogue, and the texts that may  *)
(* be exported from it.  The devices differ from a clean one in one        *)
(* setting; every one of them is written in every style.                   *)
(***************************************************************************)
EXTENDS Rules

Address == <<"firewall address">>
Group   == <<"firewall addrgrp">>
Service == <<"firewall service custom">>
Sdwan   == <<"system sdwan">>

Clean ==
  [vdom       |-> FALSE,
   addresses  |-> {<<"lan">>, <<"10.0.0.0", "/", "8">>},
   groups     |-> {},
   policies   |-> {<<"1">>, <<"2">>},
   srcaddr    |-> <<<<"lan">>, <<"10.0.0.0", "/", "8">>>>,
   service    |-> <<<<"HTTPS">>>>,
   srcintf    |-> <<<<"wan1">>>>,
   zones      |-> {},
   role       |-> <<"wan">>,
   access     |-> <<<<"ping">>>>,
   utm        |-> TRUE,
   ssl        |-> "set",
   syslog     |-> "set",
   ntp        |-> "fortiguard"]

\* What may be wrong or unusual, one setting at a time; the settings of a
\* policy are those of each of them.
Devices ==
  {Clean, [Clean EXCEPT !.vdom = TRUE]}
  \cup {[Clean EXCEPT !.addresses = a, !.groups = g] :
          a \in SUBSET Clean.addresses, g \in {{}, {<<"lan">>}}}
  \cup {[Clean EXCEPT !.srcaddr = a] :
          a \in {<<>>, <<<<"all">>>>, <<<<"HTTPS">>>>, <<<<"lan">>, <<"away">>, <<"away">>>>}}
  \cup {[Clean EXCEPT !.service = <<<<"web">>, s>>] : s \in {<<"ALL">>, <<"lan">>}}
  \cup {[Clean EXCEPT !.srcintf = <<<<"overlay">>>>, !.zones = z] : z \in {{}, {<<"overlay">>}}}
  \cup {[Clean EXCEPT !.role = r, !.access = a] :
          r \in {<<"wan">>, <<"lan">>},
          a \in {<<>>, <<<<"ping">>, <<"ssh">>>>, <<<<"telnet">>, <<"https">>>>}}
  \cup {[Clean EXCEPT !.utm = u, !.ssl = s] :
          u \in BOOLEAN, s \in {"set", "empty", "unset", "absent"}}
  \cup {[Clean EXCEPT !.syslog = s] : s \in {"absent", "off", "unset", "empty"}}
  \cup {[Clean EXCEPT !.ntp = n] :
          n \in {"absent", "off", "custom", "custom without servers",
                 "custom with empty servers"}}

-----------------------------------------------------------------------------
(* What is wrong with a device                                             *)

Undefined(d) ==
  {<<"srcaddr", n>> : n \in Range(d.srcaddr) \ (d.addresses \cup d.groups \cup {<<"all">>})}
  \cup {<<"service", n>> : n \in Range(d.service) \ {<<"HTTPS">>, <<"ALL">>, <<"web">>}}
  \cup {<<"srcintf", n>> : n \in Range(d.srcintf) \ ({<<"wan1">>} \cup d.zones)}

IsExposed(d) ==
  d.role = <<"wan">> /\ Range(d.access) \cap {<<"https">>, <<"ssh">>, <<"telnet">>} # {}

\* Each with its rule and the path of its object.
Defects(d) ==
  IF d.vdom THEN {[rule |-> "vdom-unsupported", object |-> <<Vdom>>]}
  ELSE
    {[rule |-> "dangling", object |-> <<Policy, p, <<u[1]>>, u[2]>>] :
        p \in d.policies, u \in Undefined(d)}
    \cup (IF IsExposed(d)
            THEN {[rule |-> "wan-admin-access", object |-> <<Interface, <<"wan1">>>>]} ELSE {})
    \cup {[rule |-> "utm-without-ssl", object |-> <<Policy, p>>] :
            p \in IF d.utm /\ d.ssl # "set" THEN d.policies ELSE {}}
    \cup (IF d.syslog # "set" THEN {[rule |-> "no-syslog-target", object |-> <<Syslog>>]} ELSE {})
    \cup (IF d.ntp \notin {"fortiguard", "custom"}
            THEN {[rule |-> "no-ntp-sync", object |-> <<Ntp>>]} ELSE {})

FingerprintOf(defect) == [rule |-> defect.rule, key |-> Joined(defect.object, "/")]

-----------------------------------------------------------------------------
(* Its text                                                                *)

\* How a text is written: "spaced" has indentation, comments and empty lines,
\* "repeated" opens a section twice per entry, the second time for the first of
\* its settings, which was another one before, and "quoted" has a comment of several
\* lines that look like blocks.  A value of "backslash" ends with one.
Styles == {"plain", "spaced", "reversed", "repeated", "quoted"}

Quoted(name) == <<Quote>> \o name \o <<Quote>>

Config(section)  == <<"config", Blank>> \o section
Edit(name)       == <<"edit", Blank>> \o Quoted(name)
Set(attr, values) ==
  <<"set", Blank, attr>>
    \o FlattenSeq([i \in DOMAIN values |-> <<Blank>> \o Quoted(values[i])])
Unset(attr)      == <<"unset", Blank, attr>>

Block(section, lines) == <<Config(section)>> \o lines \o <<<<"end">>>>
EntryLines(name, lines) == <<Edit(name)>> \o lines \o <<<<"next">>>>

\* The attribute that is set, unset, empty or absent.
Attribute(attr, value, how) ==
  CASE how = "absent" -> <<>>
    [] how = "unset"  -> <<Unset(attr)>>
    [] how = "empty"  -> <<Set(attr, <<<<>>>>)>>
    [] OTHER          -> <<Set(attr, <<value>>)>>

\* The blocks of a section with entries of the same lines.
Entried(section, names, stale, lines, style) ==
  LET each  == SetToSeq(names)
      first == IF lines = <<>> THEN <<>> ELSE <<Head(lines)>>
  IN
  IF style = "repeated"
    THEN <<Block(section, <<>>)>> \o FlattenSeq([i \in DOMAIN each |->
           <<Block(section, EntryLines(each[i], stale \o SubSeq(lines, 2, Len(lines)))),
             Block(section, EntryLines(each[i], first))>>])
    ELSE <<Block(section, FlattenSeq([i \in DOMAIN each |-> EntryLines(each[i], lines)]))>>

CommentLines(style) ==
  CASE style = "quoted" ->
         <<<<"set", Blank, "comment", Blank, Quote, "site">>,
           <<"config", Blank, "firewall policy">>,
           <<"edit", Blank, Backslash, Quote, "3", Backslash, Quote>>,
           <<"end", Quote>>>>
    [] style = "backslash" -> <<<<"set", Blank, "comment", Blank, Quote, Backslash, Backslash, Quote>>>>
    [] OTHER -> <<>>

Enabled(b) == <<IF b THEN "enable" ELSE "disable">>

PolicyLines(d) ==
  <<Set("srcaddr", d.srcaddr), Set("service", d.service), Set("srcintf", d.srcintf),
    Set("utm-status", <<Enabled(d.utm)>>)>>
  \o Attribute("ssl-ssh-profile", <<"deep">>, d.ssl)

SyslogBlocks(d) ==
  IF d.syslog = "absent" THEN <<>>
  ELSE <<Block(Syslog, <<Set("status", <<Enabled(d.syslog # "off")>>)>>
                         \o Attribute("server", <<"log">>, d.syslog))>>

ServerLines(d) ==
  CASE d.ntp = "custom" -> EntryLines(<<"1">>, <<Set("server", <<<<"ntp">>>>)>>)
    [] d.ntp = "custom with empty servers" -> EntryLines(<<"1">>, <<Unset("server")>>)
    [] OTHER -> <<>>

NtpBlocks(d) ==
  CASE d.ntp = "absent" -> <<>>
    [] d.ntp = "off" -> <<Block(Ntp, <<Set("ntpsync", <<Enabled(FALSE)>>)>>)>>
    [] d.ntp = "fortiguard" ->
         <<Block(Ntp, <<Set("ntpsync", <<Enabled(TRUE)>>), Set("type", <<<<"fortiguard">>>>)>>)>>
    [] OTHER ->
         <<Block(Ntp, <<Set("ntpsync", <<Enabled(TRUE)>>), Set("type", <<<<"custom">>>>)>>
                        \o IF d.ntp = "custom without servers" THEN <<>>
                           ELSE Block(<<"ntpserver">>, ServerLines(d)))>>

Blocks(d, style) ==
  Entried(Address, d.addresses, <<>>, CommentLines(style), style)
  \o Entried(Group, d.groups, <<>>, <<>>, style)
  \o Entried(Service, {<<"web">>}, <<>>, <<>>, style)
  \o <<Block(Sdwan, Block(<<"zone">>, FlattenSeq(
         [i \in 1..Cardinality(d.zones) |-> EntryLines(SetToSeq(d.zones)[i], <<>>)])))>>
  \o Entried(Interface, {<<"wan1">>}, <<Set("role", <<<<"wan">>>>), Set("allowaccess", <<<<"ssh">>>>)>>,
             <<Set("role", <<d.role>>), Set("allowaccess", d.access)>>, style)
  \o SyslogBlocks(d) \o NtpBlocks(d)
  \o Entried(Policy, d.policies, <<Set("srcaddr", <<<<"stale">>>>)>>, PolicyLines(d), style)

Scoped(d, lines) ==
  IF d.vdom THEN Block(Vdom, EntryLines(<<"root">>, lines)) ELSE lines

Ordered(blocks, style) == IF style = "reversed" THEN Reverse(blocks) ELSE blocks
Spaced(lines, style) ==
  IF style = "spaced"
    THEN <<<<Comment, "config-version">>, <<>>>>
           \o [i \in DOMAIN lines |-> <<Blank, Blank>> \o lines[i]]
    ELSE lines

TextOf(d, style) ==
  Spaced(Scoped(d, FlattenSeq(Ordered(Blocks(d, style), style))), style)

\* What an inventory would require of the device: every section it has.
RequiredOf(d) == Begun(TextOf(d, "plain"))

-----------------------------------------------------------------------------

\* Every text of a device yields the findings of what is wrong with the device.
Agrees(text, required, fingerprints) ==
  /\ Readable(text)
  /\ FingerprintsOf(text) = fingerprints /\ Collected(text, required) = fingerprints
EveryStyleAgrees ==
  \A d \in Devices, style \in Styles :
    Agrees(TextOf(d, style), RequiredOf(d), {FingerprintOf(x) : x \in Defects(d)})

\* Two things that are wrong have two fingerprints, on whatever device.
FingerprintsTellApart ==
  \A x, y \in UNION {Defects(d) : d \in Devices} :
    FingerprintOf(x) = FingerprintOf(y) => x = y

\* A finding points at an assignment or at the head of its section.
LinesPoint ==
  \A d \in Devices, style \in Styles :
    \A f \in RunRules(Parse(TextOf(d, style)).tree) :
      f.line # 0 =>
        LET words == Words(TextOf(d, style)[f.line]) IN
        \/ words[1] \in {"set", "unset"}
        \/ words = <<"config">> \o f.section
        \/ words = <<"config", "ntpserver">>

\* Of a text that was cut the gate or the parser takes notice, or it says the
\* same; unless sections repeat or a value looks like one.
CutsAreNoticed ==
  \A d \in {Clean, [Clean EXCEPT !.vdom = TRUE], [Clean EXCEPT !.role = <<"lan">>]},
     style \in {"plain", "spaced", "reversed"} :
    LET text == TextOf(d, style) IN
    \A n \in 0..Len(text) :
      LET cut == SubSeq(text, 1, n) IN
      \/ ~Readable(cut)
      \/ Collected(cut, RequiredOf(d)) \in {{Incomplete}, FingerprintsOf(text)}

\* A value that ends with a backslash is refused, not misread.
BackslashIsRefused ==
  ~Readable(TextOf([Clean EXCEPT !.addresses = {<<"lan">>}], "backslash"))

CorpusAgrees ==
  /\ EveryStyleAgrees /\ FingerprintsTellApart /\ LinesPoint
  /\ CutsAreNoticed /\ BackslashIsRefused

=============================================================================
