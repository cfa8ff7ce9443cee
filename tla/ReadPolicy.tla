------------------------------ MODULE ReadPolicy ------------------------------
(***************************************************************************)
(* src/netops_helper/read_policy.py: the platforms, the typed slots of     *)
(* their queries, and the forms of the values that fill them.              *)
(*                                                                         *)
(* A value of the inventory is a record: the letters it starts with, the   *)
(* numbers after them (between slashes), the number of a subinterface, the *)
(* characters in it other than letters, digits, "_", "." and "-" (but for  *)
(* the slashes), whether it is longer than 15 characters, and which        *)
(* canonical IP literal it is.  A number with leading zeros is Padded.     *)
(*                                                                         *)
(* A renderer returns the set of texts for the command: none for a value   *)
(* that is refused, one otherwise.                                         *)
(***************************************************************************)
EXTENDS Integers, Sequences, FiniteSets

Padded == -1

Value(prefix, parts, sub, marks, long, ip) ==
  [prefix |-> prefix, parts |-> parts, sub |-> sub, marks |-> marks, long |-> long, ip |-> ip]

Plain(prefix, parts)   == Value(prefix, parts, <<>>, {}, FALSE, "no")
Render(prefix, parts)  == Plain(prefix, parts)
When(condition, value) == IF condition THEN {value} ELSE {}

-----------------------------------------------------------------------------
(* Platforms and queries.  Five platforms of the nine, with the queries    *)
(* that have slots and, for two of them, one that has none.                *)

\* Texts that strip(), lower() and casefold() change.
Fold(text) == CASE text = "LINUX"  -> "linux"
                [] text = "ALL"    -> "all"
                [] text = "ROUTER" -> "router"
                [] OTHER           -> text

PlatformMap == [linux |-> "linux", fortinet |-> "fortinet", fortios |-> "fortinet",
                cisco_ios |-> "cisco_ios", cisco_xe |-> "cisco_xe",
                cisco_nxos |-> "cisco_nxos"]
Platforms == {PlatformMap[text] : text \in DOMAIN PlatformMap}

\* normalize_platform: the platform in a set, or none.
NormalizePlatform(text) ==
  {PlatformMap[t] : t \in {Fold(text)} \cap DOMAIN PlatformMap}

LinuxSlots ==
  [hostname |-> {}, interface_link |-> {<<"interfaces", "interface">>},
   interface_addresses |-> {<<"interfaces", "interface">>},
   service_status |-> {<<"services", "service">>},
   service_logs_recent |-> {<<"services", "service">>}]
FortinetSlots ==
  [ha_status |-> {}, bridge_mac_table |-> {<<"switches", "switch">>},
   interface_details |-> {<<"interfaces", "fortios_interface">>},
   interface_hardware |-> {<<"interfaces", "fortios_physical_interface">>},
   route_lookup |-> {<<"addresses", "ipv4_address">>}]
CiscoSlots(anyInterface, errorsInterface) ==
  [interface_details |-> {<<"interfaces", anyInterface>>},
   interface_errors |-> {<<"interfaces", errorsInterface>>},
   ipv6_route_lookup |-> {<<"addresses", "ipv6_address">>},
   route_lookup |-> {<<"addresses", "ipv4_address">>}]
CiscoIosSlots  == CiscoSlots("cisco_ios_interface", "cisco_ios_physical_interface")
CiscoXeSlots   == CiscoSlots("cisco_xe_interface", "cisco_xe_physical_interface")
CiscoNxosSlots == CiscoSlots("cisco_nxos_interface", "cisco_nxos_errors_interface")

\* Slots[platform][query]: the slots of the query, <<category, kind>>.
Slots == [linux |-> LinuxSlots, fortinet |-> FortinetSlots, cisco_ios |-> CiscoIosSlots,
          cisco_xe |-> CiscoXeSlots, cisco_nxos |-> CiscoNxosSlots]
Queries(platform) == DOMAIN Slots[platform]
Categories == {"interfaces", "services", "addresses", "switches"}
GenericKind == [interfaces |-> "interface", services |-> "service",
                addresses |-> "address", switches |-> "switch"]

-----------------------------------------------------------------------------
(* Interfaces with a canonical form.  The reserved words of the Cisco      *)
(* platforms match none of their forms.                                    *)

\* _canonical_decimal: a number in its shortest form, within bounds.
Decimal(number, minimum, maximum) == number \in minimum..maximum

Numbered(v, prefixes, count) ==
  v.prefix \in prefixes /\ Len(v.parts) = count /\ v.marks = {}
Whole(v) == v.sub = <<>>

\* One number, and the name it is rendered with.
One(v, prefixes, minimum, maximum, name) ==
  When(Numbered(v, prefixes, 1) /\ Whole(v) /\ Decimal(v.parts[1], minimum, maximum),
       Render(name, v.parts))

FortiosReserved ==
  {"all", "any", "none", "clear", "list", "packet-rate", "speed-test", "speed-test-result",
   "speed-test-result-clear", "speed-test-shaping-reset", "speed-test-tunnel"}
FortiosInterface(v) ==
  LET word == v.parts = <<>> /\ Whole(v)
  IN When(/\ v.marks = {} /\ Len(v.parts) <= 1 /\ ~v.long
          /\ ~(word /\ Fold(v.prefix) \in FortiosReserved), v)

CiscoIosGigabit(v) ==
  LET p == v.parts IN
  When(/\ Whole(v)
       /\ \/ /\ Numbered(v, {"GigabitEthernet", "Gi"}, 2)
             /\ p[1] = 0 /\ Decimal(p[2], 1, 99)
          \/ /\ Numbered(v, {"GigabitEthernet", "Gi"}, 3)
             /\ Decimal(p[1], 1, 8) /\ p[2] = 0 /\ Decimal(p[3], 1, 99),
       Render("GigabitEthernet", p))
CiscoIosInterface(v, physicalOnly) ==
  CiscoIosGigabit(v) \cup
  IF physicalOnly THEN {}
  ELSE One(v, {"Port-channel", "Po"}, 1, 48, "Port-channel")
       \cup One(v, {"Vlan", "Vl"}, 1, 4094, "vlan")

XePrefix == [Gi |-> "GigabitEthernet", Tw |-> "TwoGigabitEthernet",
             Fi |-> "FiveGigabitEthernet", Te |-> "TenGigabitEthernet",
             Twe |-> "TwentyFiveGigE", Fo |-> "FortyGigabitEthernet", Hu |-> "HundredGigE"]
XeNames == {XePrefix[p] : p \in DOMAIN XePrefix}

\* The modules of the supported switches: slot and port by type of port.
XePortExists(name, slot, port) ==
  \/ name \in {"GigabitEthernet", "HundredGigE"} /\ slot \in {0, 1}
  \/ name = "TwoGigabitEthernet" /\ slot = 0 /\ port <= 36
  \/ name = "FiveGigabitEthernet" /\ slot = 0
  \/ name = "TenGigabitEthernet" /\ slot \in {0, 1} /\ (port <= 24 \/ port >= 37)
  \/ name \in {"TwentyFiveGigE", "FortyGigabitEthernet"} /\ slot = 1 /\ port <= 2

CiscoXePhysical(v) ==
  LET name == IF v.prefix \in DOMAIN XePrefix THEN XePrefix[v.prefix] ELSE v.prefix
      p    == v.parts
  IN When(/\ name \in XeNames /\ v.marks = {} /\ Whole(v)
          /\ \/ name = "GigabitEthernet" /\ p = <<0, 0>>
             \/ /\ Len(p) = 3
                /\ Decimal(p[1], 1, 8) /\ Decimal(p[2], 0, 1) /\ Decimal(p[3], 1, 48)
                /\ XePortExists(name, p[2], p[3]),
          Render(name, p))
CiscoXeInterface(v, physicalOnly) ==
  CiscoXePhysical(v) \cup
  IF physicalOnly THEN {}
  ELSE One(v, {"Port-channel", "Po"}, 1, 128, "Port-channel")
       \cup One(v, {"Vlan", "Vl"}, 1, 4094, "vlan")
       \cup One(v, {"Loopback", "Tunnel"}, 0, 2147483647, v.prefix)

NxosEthernet(v, errorsOnly) ==
  When(/\ v.prefix = "Ethernet" /\ v.marks = {} /\ Len(v.parts) \in 2..3
       /\ \A i \in DOMAIN v.parts : Decimal(v.parts[i], 1, 999)
       /\ \/ Whole(v)
          \/ ~errorsOnly /\ Len(v.sub) = 1 /\ Decimal(v.sub[1], 1, 4094), v)
CiscoNxosInterface(v, errorsOnly) ==
  NxosEthernet(v, errorsOnly) \cup One(v, {"Loopback"}, 0, 1023, "Loopback") \cup
  IF errorsOnly THEN {}
  ELSE When(v = Plain("mgmt", <<0>>), v)
       \cup When(/\ Numbered(v, {"Port-channel"}, 1) /\ Decimal(v.parts[1], 1, 4096)
                 /\ Whole(v) \/ (Len(v.sub) = 1 /\ Decimal(v.sub[1], 1, 4094)), v)
       \cup One(v, {"Vlan"}, 1, 4094, "Vlan")
       \cup One(v, {"Tunnel"}, 0, 9999, "Tunnel")

VendorKinds == {"fortios_interface", "fortios_physical_interface", "cisco_ios_interface",
                "cisco_ios_physical_interface", "cisco_xe_interface",
                "cisco_xe_physical_interface", "cisco_nxos_interface",
                "cisco_nxos_errors_interface"}
VendorText(kind, v) ==
  CASE kind \in {"fortios_interface", "fortios_physical_interface"} -> FortiosInterface(v)
    [] kind = "cisco_ios_interface"          -> CiscoIosInterface(v, FALSE)
    [] kind = "cisco_ios_physical_interface" -> CiscoIosInterface(v, TRUE)
    [] kind = "cisco_xe_interface"           -> CiscoXeInterface(v, FALSE)
    [] kind = "cisco_xe_physical_interface"  -> CiscoXeInterface(v, TRUE)
    [] kind = "cisco_nxos_interface"         -> CiscoNxosInterface(v, FALSE)
    [] kind = "cisco_nxos_errors_interface"  -> CiscoNxosInterface(v, TRUE)

-----------------------------------------------------------------------------
(* The other kinds: a pattern, and the value as it is.                     *)

Slashes(v) == IF Len(v.parts) >= 2 THEN {"/"} ELSE {}
TokenKinds == {"interface", "service", "switch"}
TokenPattern(kind, v) ==
  CASE kind = "interface" -> v.marks \cup Slashes(v) \subseteq {":", "/"}
    [] kind = "service"   -> v.marks \cup Slashes(v) \subseteq {"@"}
    [] kind = "switch"    -> v.marks \cup Slashes(v) \subseteq {":"}

\* _canonical_address: canonical literals of the right family only.
AddressKinds == {"address", "ipv4_address", "ipv6_address"}
CanonicalAddress(kind, v) ==
  CASE kind = "address"      -> v.ip \in {"ipv4", "ipv6"}
    [] kind = "ipv4_address" -> v.ip = "ipv4"
    [] kind = "ipv6_address" -> v.ip = "ipv6"

\* _validate_slot.
SlotText(kind, v) ==
  CASE kind \in AddressKinds -> When(CanonicalAddress(kind, v), v)
    [] kind \in VendorKinds  -> VendorText(kind, v)
    [] kind \in TokenKinds   -> When(TokenPattern(kind, v), v)

\* validate_inventory_item: the generic kind of the category.
InventoryItem(category, v) == SlotText(GenericKind[category], v)

InterfaceKinds(platform, queries) ==
  {slot[2] : slot \in {s \in UNION {Slots[platform][q] : q \in queries} : s[1] = "interfaces"}}

\* validate_query_inventory: every enrolled interface fits an enabled query.
QueryInventory(platforms, queries, interfaces) ==
  \A platform \in platforms :
    LET kinds == InterfaceKinds(platform, queries)
    IN kinds = {} \/ \A v \in interfaces : \E kind \in kinds : SlotText(kind, v) # {}

\* render_read_query, for a query with at most one slot: parameter is the set of
\* values supplied for it, and every one must be enrolled as it is.
QueryRenders(platform, query, parameter, inventory) ==
  /\ Cardinality(parameter) = Cardinality(Slots[platform][query])
  /\ \A slot \in Slots[platform][query], v \in parameter :
       SlotText(slot[2], v) # {} /\ v \in inventory[slot[1]]

\* What the command says of the slot.
CommandText(platform, query, parameter) ==
  UNION {SlotText(slot[2], v) : slot \in Slots[platform][query], v \in parameter}
=============================================================================
