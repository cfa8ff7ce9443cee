--------------------------- MODULE EnrollmentProofs ---------------------------
(***************************************************************************)
(* The enrollment of targets, for all files, calls, answers of DNS, devices*)
(* and bounds of the lists.                                                *)
(*                                                                         *)
(* First the three readers of a file: they state the same conditions in    *)
(* different ways, and each lemma of the first part brings one condition to*)
(* the proxy's words.  Then the two gates of a call, then the invariant of *)
(* the calls and the chain, then the properties.                           *)
(***************************************************************************)
EXTENDS Enrollment, FiniteSetTheorems, TLAPS

-----------------------------------------------------------------------------
(* Lists.                                                                  *)

\* A list of different values has as many values as places, and no list has more.
LEMMA ListValues ==
  ASSUME NEW T, NEW list \in Seq(T)
  PROVE  LET values == {list[i] : i \in DOMAIN list} IN
         /\ IsFiniteSet(values)
         /\ Cardinality(values) \in Nat
         /\ Cardinality(values) <= Len(list)
         /\ Cardinality(values) = Len(list) <=>
              \A i, j \in DOMAIN list : list[i] = list[j] => i = j
<1> DEFINE values == {list[i] : i \in DOMAIN list}
<1>1. Len(list) \in Nat /\ DOMAIN list = 1..Len(list)
  OBVIOUS
<1>2. IsFiniteSet(1..Len(list)) /\ Cardinality(1..Len(list)) = Len(list)
  BY <1>1, FS_Interval
<1>3. list \in Surjection(1..Len(list), values)
  BY <1>1 DEF Surjection
<1>4. /\ IsFiniteSet(values)
      /\ Cardinality(values) <= Len(list)
      /\ Cardinality(values) = Len(list) <=> list \in Injection(1..Len(list), values)
  BY <1>2, <1>3, FS_Surjection
<1>5. list \in Injection(1..Len(list), values) <=>
        \A i, j \in DOMAIN list : list[i] = list[j] => i = j
  BY <1>1 DEF Injection, IsInjective
<1>6. Cardinality(values) \in Nat
  BY <1>4, FS_CardinalityType
<1> QED
  BY <1>4, <1>5, <1>6

\* The instances of the library say the same.
LEMMA CardinalitiesAgree ==
  \A T : P!Cardinality(T) = Cardinality(T) /\ S!Cardinality(T) = Cardinality(T)
                                          /\ G!Cardinality(T) = Cardinality(T)
<1>1. \A T : P!Cardinality(T) = Cardinality(T)
  BY DEF P!Cardinality, Cardinality
<1>2. \A T : S!Cardinality(T) = Cardinality(T)
  BY DEF S!Cardinality, Cardinality
<1>3. \A T : G!Cardinality(T) = Cardinality(T)
  BY DEF G!Cardinality, Cardinality
<1> QED
  BY <1>1, <1>2, <1>3

LEMMA RangesAgree ==
  \A f : /\ P!Range(f) = {f[x] : x \in DOMAIN f}
         /\ S!Range(f) = {f[x] : x \in DOMAIN f}
         /\ G!Range(f) = {f[x] : x \in DOMAIN f}
  BY DEF P!Range, S!Range, G!Range

\* A list without values is the empty one.
LEMMA EmptyLists ==
  ASSUME NEW T, NEW list \in Seq(T)
  PROVE  /\ P!Range(list) = {} <=> list = <<>>
         /\ S!Range(list) = {} <=> list = <<>>
         /\ G!Range(list) = {} <=> list = <<>>
<1>1. DOMAIN list = 1..Len(list) /\ Len(list) \in Nat
  OBVIOUS
<1>2. list = <<>> <=> Len(list) = 0
  OBVIOUS
<1>3. Len(list) = 0 <=> 1..Len(list) = {}
  <2>1. \A n \in Nat : n # 0 => 1 \in 1..n
    BY SMT
  <2>2. 1..0 = {}
    BY SMT
  <2> QED
    BY <1>1, <2>1, <2>2
<1>4. {list[i] : i \in DOMAIN list} = {} <=> DOMAIN list = {}
  OBVIOUS
<1> QED
  BY <1>1, <1>2, <1>3, <1>4, RangesAgree

\* The three programs ask the same of a list: it is short, and its values differ.
LEMMA ListsAgree ==
  ASSUME NEW T, NEW list \in Seq(T)
  PROVE  /\ S!BoundedList(list) /\ S!Unique(list) <=> P!Bounded(list)
         /\ G!GBounded(list) /\ G!GUnique(list) <=> P!Bounded(list)
<1> DEFINE values == {list[i] : i \in DOMAIN list}
<1>1. Cardinality(values) = Len(list) <=>
        \A i, j \in DOMAIN list : list[i] = list[j] => i = j
  BY ListValues
<1>2. S!Unique(list) <=> Cardinality(values) = Len(list)
  BY CardinalitiesAgree, RangesAgree DEF S!Unique
<1>3. G!GUnique(list) <=> Cardinality(values) = Len(list)
  BY CardinalitiesAgree, RangesAgree DEF G!GUnique
<1>4. P!Bounded(list) <=> /\ Len(list) <= MaxItems
                          /\ \A i, j \in DOMAIN list : list[i] = list[j] => i = j
  BY DEF P!Bounded, P!IsInjective
<1> HIDE DEF values
<1> QED
  BY <1>1, <1>2, <1>3, <1>4 DEF S!BoundedList, G!GBounded

-----------------------------------------------------------------------------
(* The scopes.                                                             *)

\* The three readers know the same ports.
LEMMA MaxPorts ==
  /\ S!MaxPort = P!MaxPort /\ G!MaxPort = P!MaxPort
  /\ P!MaxPort \in Nat /\ 53 <= P!MaxPort
  /\ S!Port = P!Port /\ G!Port = P!Port
<1>1. S!MaxPort = P!MaxPort /\ G!MaxPort = P!MaxPort
  BY DEF S!MaxPort, P!MaxPort, G!MaxPort
<1>2. P!MaxPort \in Nat /\ 53 <= P!MaxPort
  BY SMT DEF P!MaxPort
<1> QED
  BY <1>1, <1>2 DEF S!Port, P!Port, G!Port

\* The lists of ports and of ranges the three readers take.
LEMMA PortsAgree ==
  ASSUME NEW list \in Seq(Int)
  PROVE  /\ S!NormalPorts(list) <=> P!ValidPorts(list)
         /\ G!PortsAccepted(list) <=> P!ValidPorts(list)
<1>1. /\ S!BoundedList(list) /\ S!Unique(list) <=> P!Bounded(list)
      /\ G!GBounded(list) /\ G!GUnique(list) <=> P!Bounded(list)
  BY ListsAgree
<1>2. S!Range(list) = P!Range(list) /\ G!Range(list) = P!Range(list)
  BY RangesAgree
<1>3. S!Port = P!Port /\ G!Port = P!Port
  BY MaxPorts
<1>4. S!NormalPorts(list) <=> P!ValidPorts(list)
  BY <1>1, <1>2, <1>3 DEF S!NormalPorts, P!ValidPorts
<1>5. G!PortsAccepted(list) <=> P!ValidPorts(list)
  BY <1>1, <1>2, <1>3 DEF G!PortsAccepted, P!ValidPorts
<1> QED
  BY <1>4, <1>5

\* A range as the proxy and the generator test it, and as the server does.
IsRange(x, y)    == 1 <= x /\ x <= y /\ y <= P!MaxPort
IsRangeToo(x, y) == x \in S!Port /\ y \in x..S!MaxPort

LEMMA RangeOfPorts ==
  ASSUME NEW x \in Int, NEW y \in Int
  PROVE  IsRange(x, y) <=> IsRangeToo(x, y)
<1> DEFINE inPort  == x \in S!Port
           inRange == y \in x..P!MaxPort
           first   == 1 <= x
           ordered == x <= y
           last    == y <= P!MaxPort
           under   == x <= P!MaxPort
<1>1. inRange <=> ordered /\ last
  BY MaxPorts, SMT
<1>2. inPort <=> first /\ under
  BY MaxPorts, SMT DEF S!Port
<1>3. ordered /\ last => under
  BY MaxPorts, SMT
<1>4. inPort /\ inRange <=> first /\ ordered /\ last
  <2> HIDE DEF inPort, inRange, first, ordered, last, under
  <2> QED
    BY <1>1, <1>2, <1>3
<1> QED
  BY <1>4, MaxPorts DEF IsRange, IsRangeToo

LEMMA PortRangesAgree ==
  ASSUME NEW list \in Seq(Int \X Int)
  PROVE  /\ S!NormalRanges(list) <=> P!ValidRanges(list)
         /\ G!RangesAccepted(list) <=> P!ValidRanges(list)
<1> DEFINE D == DOMAIN list
           Before(i, j) == list[i][2] < list[j][1]
           Apart(i, j)  == Before(i, j) \/ Before(j, i)
<1>1. \A i \in D : list[i][1] \in Int /\ list[i][2] \in Int
  OBVIOUS
<1>2. D = 1..Len(list) /\ Len(list) \in Nat
  OBVIOUS
<1>3. P!ValidRanges(list) <=> /\ Len(list) <= MaxRanges
                              /\ \A i \in D : IsRange(list[i][1], list[i][2])
                              /\ \A i, j \in D : i # j => Apart(i, j)
  BY SMT DEF P!ValidRanges, IsRange
<1>4. S!NormalRanges(list) <=>
        /\ Len(list) <= MaxRanges
        /\ \A i \in D : IsRange(list[i][1], list[i][2])
        /\ \A i, j \in D : i # j /\ list[i][1] <= list[j][1] => Before(i, j)
  <2>1. (\A range \in S!Range(list) : IsRangeToo(range[1], range[2])) <=>
          \A i \in D : IsRange(list[i][1], list[i][2])
    BY <1>1, RangesAgree, RangeOfPorts, Zenon
  <2> QED
    BY <2>1, SMT DEF S!NormalRanges, IsRangeToo
<1>5. (\A i \in D : IsRange(list[i][1], list[i][2])) =>
        ((\A i, j \in D : i # j /\ list[i][1] <= list[j][1] => Before(i, j)) <=>
         \A i, j \in D : i # j => Apart(i, j))
  <2> SUFFICES ASSUME \A i \in D : IsRange(list[i][1], list[i][2]), NEW i \in D, NEW j \in D
               PROVE  /\ list[i][1] <= list[j][1] /\ Apart(i, j) => Before(i, j)
                      /\ list[i][1] <= list[j][1] \/ list[j][1] <= list[i][1]
    BY Zenon
  <2> QED
    BY <1>1, SMT DEF IsRange
<1>6. G!RangesAccepted(list) <=> P!ValidRanges(list)
  <2>1. \A i, j \in D : i # j <=> i < j \/ j < i
    BY <1>2, SMT
  <2>2. \A i, j \in D : list[i][1] > list[j][2] \/ list[j][1] > list[i][2] <=> Apart(i, j)
    BY <1>1, SMT
  <2>3. \A i \in D : (list[i][1] >= 1 /\ list[i][2] >= list[i][1] /\ list[i][2] <= G!MaxPort)
                      <=> IsRange(list[i][1], list[i][2])
    BY <1>1, MaxPorts, SMT DEF IsRange
  <2>4. G!RangesAccepted(list) <=> /\ Len(list) <= MaxRanges
                                   /\ \A i \in D : IsRange(list[i][1], list[i][2])
                                   /\ \A i, j \in D : i < j => Apart(i, j)
    <3> HIDE DEF Apart
    <3> QED
      BY <2>2, <2>3, SMT DEF G!RangesAccepted
  <2>5. \A i, j \in D : Apart(i, j) <=> Apart(j, i)
    BY Zenon
  <2> HIDE DEF Apart
  <2> QED
    BY <1>3, <2>1, <2>4, <2>5, Zenon
<1> HIDE DEF Apart, Before
<1> QED
  BY <1>3, <1>4, <1>5, <1>6, Zenon

\* No port is also in a range.
LEMMA OverlapsAgree ==
  ASSUME NEW ports \in Seq(Int), NEW ranges \in Seq(Int \X Int)
  PROVE  /\ (~ \E port \in S!Range(ports) : S!InSome(port, ranges)) <=> P!Apart(ports, ranges)
         /\ ~G!Overlap(G!Range(ports), G!Range(ranges)) <=> P!Apart(ports, ranges)
<1>1. \A i \in DOMAIN ranges : ranges[i][1] \in Int /\ ranges[i][2] \in Int
  OBVIOUS
<1>2. \A i \in DOMAIN ports : ports[i] \in Int
  OBVIOUS
<1> DEFINE Meets(i, j) == ranges[j][1] <= ports[i] /\ ports[i] <= ranges[j][2]
<1>3. \A i \in DOMAIN ports, j \in DOMAIN ranges :
        ports[i] \in ranges[j][1]..ranges[j][2] <=> Meets(i, j)
  BY <1>1, <1>2, SMT
<1>4. P!Apart(ports, ranges) <=> \A i \in DOMAIN ports, j \in DOMAIN ranges : ~Meets(i, j)
  <2> HIDE DEF Meets
  <2> QED
    BY <1>3, RangesAgree, Zenon DEF P!Apart, P!Within
<1>5. (~ \E port \in S!Range(ports) : S!InSome(port, ranges)) <=>
        \A i \in DOMAIN ports, j \in DOMAIN ranges : ~Meets(i, j)
  BY RangesAgree, Zenon DEF S!InSome
<1>6. ~G!Overlap(G!Range(ports), G!Range(ranges)) <=>
        \A i \in DOMAIN ports, j \in DOMAIN ranges : ~Meets(i, j)
  BY RangesAgree, Zenon DEF G!Overlap
<1> QED
  BY <1>4, <1>5, <1>6

\* Flags, case and names.
LEMMA FlagsAgree == S!Flags = P!Flags /\ G!Flags = P!Flags
  BY DEF S!Flags, P!Flags, G!Flags

LEMMA FoldsAgree ==
  /\ \A text : S!Fold(text) = P!Fold(text) /\ G!Fold(text) = P!Fold(text)
  /\ \A text \in Address \cup Name : P!Fold(text) = text
<1>1. \A text : S!Fold(text) = P!Fold(text)
  BY Zenon DEF S!Fold, P!Fold
<1>2. \A text : G!Fold(text) = P!Fold(text)
  BY Zenon DEF G!Fold, P!Fold
<1> QED
  BY <1>1, <1>2, NamesAssumption, Zenon

LEMMA DnsNames == \A text : S!NormalizeDnsName(text) = {text} <=> text \in Name
<1> SUFFICES ASSUME NEW text
             PROVE  {P!Fold(text)} \cap Name = {text} <=> text \in Name
  BY FoldsAgree DEF S!NormalizeDnsName
<1>1. text \in Name => P!Fold(text) = text
  BY FoldsAgree
<1> QED
  BY <1>1

\* The three agree on the scopes of a target; the generator bounds them in two places,
\* here joined.
ScopesAccepted(e) ==
  /\ e.shape = "exact"
  /\ G!GBounded(e.addresses) /\ G!GUnique(e.addresses) /\ G!Range(e.addresses) \subseteq Address
  /\ G!PortsAccepted(e.tcp) /\ G!PortsAccepted(e.udp)
  /\ G!RangesAccepted(e.tcpRanges) /\ G!RangesAccepted(e.udpRanges)
  /\ ~G!Overlap(G!Range(e.tcp), G!Range(e.tcpRanges))
  /\ ~G!Overlap(G!Range(e.udp), G!Range(e.udpRanges))
  /\ e.icmp \in G!Flags /\ e.dns \in G!Flags
  /\ G!GBounded(e.names) /\ G!GUnique(e.names) /\ G!Range(e.names) \subseteq Name

\* The scope of a target, field by field, in the three readers.
LEMMA EgressesAgree ==
  ASSUME NEW e \in Egresses
  PROVE  /\ S!DecodesEgress(e) <=> P!ValidEgress(e)
         /\ ScopesAccepted(e) <=> P!ValidEgress(e)
<1>1. /\ e.addresses \in Seq(STRING) /\ e.names \in Seq(STRING)
      /\ e.tcp \in Seq(Int) /\ e.udp \in Seq(Int)
      /\ e.tcpRanges \in Seq(Int \X Int) /\ e.udpRanges \in Seq(Int \X Int)
  BY DEF Egresses
<1>2. /\ S!BoundedList(e.addresses) /\ S!Unique(e.addresses) <=> P!Bounded(e.addresses)
      /\ G!GBounded(e.addresses) /\ G!GUnique(e.addresses) <=> P!Bounded(e.addresses)
  BY <1>1, ListsAgree
<1>3. /\ S!BoundedList(e.names) /\ S!Unique(e.names) <=> P!Bounded(e.names)
      /\ G!GBounded(e.names) /\ G!GUnique(e.names) <=> P!Bounded(e.names)
  BY <1>1, ListsAgree
<1>4. /\ S!NormalPorts(e.tcp) <=> P!ValidPorts(e.tcp)
      /\ G!PortsAccepted(e.tcp) <=> P!ValidPorts(e.tcp)
      /\ S!NormalPorts(e.udp) <=> P!ValidPorts(e.udp)
      /\ G!PortsAccepted(e.udp) <=> P!ValidPorts(e.udp)
  BY <1>1, PortsAgree
<1>5. /\ S!NormalRanges(e.tcpRanges) <=> P!ValidRanges(e.tcpRanges)
      /\ G!RangesAccepted(e.tcpRanges) <=> P!ValidRanges(e.tcpRanges)
      /\ S!NormalRanges(e.udpRanges) <=> P!ValidRanges(e.udpRanges)
      /\ G!RangesAccepted(e.udpRanges) <=> P!ValidRanges(e.udpRanges)
  BY <1>1, PortRangesAgree
<1>6. /\ (~ \E port \in S!Range(e.tcp) : S!InSome(port, e.tcpRanges)) <=>
           P!Apart(e.tcp, e.tcpRanges)
      /\ ~G!Overlap(G!Range(e.tcp), G!Range(e.tcpRanges)) <=> P!Apart(e.tcp, e.tcpRanges)
      /\ (~ \E port \in S!Range(e.udp) : S!InSome(port, e.udpRanges)) <=>
           P!Apart(e.udp, e.udpRanges)
      /\ ~G!Overlap(G!Range(e.udp), G!Range(e.udpRanges)) <=> P!Apart(e.udp, e.udpRanges)
  BY <1>1, OverlapsAgree
<1>7. /\ (\A name \in S!Range(e.names) : S!NormalizeDnsName(name) = {name}) <=>
           \A name \in P!Range(e.names) : P!SafeDnsName(name)
      /\ G!Range(e.names) \subseteq Name <=> \A name \in P!Range(e.names) : P!SafeDnsName(name)
  BY DnsNames, RangesAgree DEF P!SafeDnsName
<1>8. /\ S!Range(e.addresses) \subseteq Address <=> P!Range(e.addresses) \subseteq Address
      /\ G!Range(e.addresses) \subseteq Address <=> P!Range(e.addresses) \subseteq Address
  BY RangesAgree
<1>9. S!DecodesEgress(e) <=> P!ValidEgress(e)
  BY <1>2, <1>3, <1>4, <1>5, <1>6, <1>7, <1>8, FlagsAgree, Zenon
  DEF S!DecodesEgress, P!ValidEgress, P!ValidAddresses
<1>10. ScopesAccepted(e) <=> P!ValidEgress(e)
  BY <1>2, <1>3, <1>4, <1>5, <1>6, <1>7, <1>8, FlagsAgree, Zenon
  DEF ScopesAccepted, P!ValidEgress, P!ValidAddresses
<1> QED
  BY <1>9, <1>10

-----------------------------------------------------------------------------
(* The inventory and the queries.                                          *)

\* The three copies of the forms of a value are the same text.
LEMMA FormsAgree ==
  ASSUME NEW kind, NEW v
  PROVE  /\ S!VendorText(kind, v) = P!VendorText(kind, v)
         /\ G!VendorText(kind, v) = P!VendorText(kind, v)
         /\ S!TokenPattern(kind, v) <=> P!TokenPattern(kind, v)
         /\ G!TokenPattern(kind, v) <=> P!TokenPattern(kind, v)
         /\ S!CanonicalAddress(kind, v) <=> P!CanonicalAddress(kind, v)
         /\ G!CanonicalAddress(kind, v) <=> P!CanonicalAddress(kind, v)
<1>1. S!CanonicalAddress(kind, v) <=> P!CanonicalAddress(kind, v)
  BY DEF S!CanonicalAddress, P!CanonicalAddress
<1>2. G!CanonicalAddress(kind, v) <=> P!CanonicalAddress(kind, v)
  BY DEF G!CanonicalAddress, P!CanonicalAddress
<1>3. S!TokenPattern(kind, v) <=> P!TokenPattern(kind, v)
  BY DEF S!TokenPattern, P!TokenPattern, S!Slashes, P!Slashes
<1>4. G!TokenPattern(kind, v) <=> P!TokenPattern(kind, v)
  BY DEF G!TokenPattern, P!TokenPattern, G!Slashes, P!Slashes
<1>5. S!VendorText(kind, v) = P!VendorText(kind, v)
  <2>1. S!FortiosInterface(v) = P!FortiosInterface(v)
    BY SMT
    DEF S!FortiosInterface, P!FortiosInterface, S!FortiosReserved, P!FortiosReserved, S!Fold,
        P!Fold, S!When, P!When, S!Render, P!Render, S!Plain, P!Plain, S!Value, P!Value,
        S!Decimal, P!Decimal, S!Numbered, P!Numbered, S!Whole, P!Whole
  <2>2. S!CiscoIosInterface(v, TRUE) = P!CiscoIosInterface(v, TRUE)
    BY SMT
    DEF S!CiscoIosInterface, P!CiscoIosInterface, S!CiscoIosGigabit, P!CiscoIosGigabit, S!One,
        P!One, S!When, P!When, S!Render, P!Render, S!Plain, P!Plain, S!Value, P!Value, S!Decimal,
        P!Decimal, S!Numbered, P!Numbered, S!Whole, P!Whole
  <2>3. S!CiscoIosInterface(v, FALSE) = P!CiscoIosInterface(v, FALSE)
    BY SMT
    DEF S!CiscoIosInterface, P!CiscoIosInterface, S!CiscoIosGigabit, P!CiscoIosGigabit, S!One,
        P!One, S!When, P!When, S!Render, P!Render, S!Plain, P!Plain, S!Value, P!Value, S!Decimal,
        P!Decimal, S!Numbered, P!Numbered, S!Whole, P!Whole
  <2>4. S!CiscoNxosInterface(v, TRUE) = P!CiscoNxosInterface(v, TRUE)
    BY SMT
    DEF S!CiscoNxosInterface, P!CiscoNxosInterface, S!NxosEthernet, P!NxosEthernet, S!One, P!One,
        S!When, P!When, S!Render, P!Render, S!Plain, P!Plain, S!Value, P!Value, S!Decimal,
        P!Decimal, S!Numbered, P!Numbered, S!Whole, P!Whole
  <2>5. S!CiscoNxosInterface(v, FALSE) = P!CiscoNxosInterface(v, FALSE)
    BY SMT
    DEF S!CiscoNxosInterface, P!CiscoNxosInterface, S!NxosEthernet, P!NxosEthernet, S!One, P!One,
        S!When, P!When, S!Render, P!Render, S!Plain, P!Plain, S!Value, P!Value, S!Decimal,
        P!Decimal, S!Numbered, P!Numbered, S!Whole, P!Whole
  <2>6. S!CiscoXePhysical(v) = P!CiscoXePhysical(v)
    BY SMT
    DEF S!CiscoXePhysical, P!CiscoXePhysical, S!XePrefix, P!XePrefix, S!XeNames, P!XeNames,
        S!XePortExists, P!XePortExists, S!When, P!When, S!Render, P!Render, S!Plain, P!Plain,
        S!Value, P!Value, S!Decimal, P!Decimal, S!Numbered, P!Numbered, S!Whole, P!Whole
  <2>7. \A p, l, h, n : S!One(v, p, l, h, n) = P!One(v, p, l, h, n)
    BY SMT
    DEF S!One, P!One, S!When, P!When, S!Render, P!Render, S!Plain, P!Plain, S!Value, P!Value,
        S!Decimal, P!Decimal, S!Numbered, P!Numbered, S!Whole, P!Whole
  <2>8. S!CiscoXeInterface(v, TRUE) = P!CiscoXeInterface(v, TRUE)
    BY <2>6, SMT
    DEF S!CiscoXeInterface, P!CiscoXeInterface
  <2>9. S!CiscoXeInterface(v, FALSE) = P!CiscoXeInterface(v, FALSE)
    <3>1. S!One(v, {"Port-channel", "Po"}, 1, 128, "Port-channel") =
          P!One(v, {"Port-channel", "Po"}, 1, 128, "Port-channel")
      BY <2>7, SMT
    <3>2. S!One(v, {"Vlan", "Vl"}, 1, 4094, "vlan") =
          P!One(v, {"Vlan", "Vl"}, 1, 4094, "vlan")
      BY <2>7, SMT
    <3>3. S!One(v, {"Loopback", "Tunnel"}, 0, 2147483647, v.prefix) =
          P!One(v, {"Loopback", "Tunnel"}, 0, 2147483647, v.prefix)
      BY <2>7, SMT
    <3> QED
      BY <2>6, <3>1, <3>2, <3>3, SMT DEF S!CiscoXeInterface, P!CiscoXeInterface
  <2> QED
    BY <2>1, <2>2, <2>3, <2>4, <2>5, <2>8, <2>9, Zenon DEF S!VendorText, P!VendorText
<1>6. G!VendorText(kind, v) = P!VendorText(kind, v)
  <2>1. G!FortiosInterface(v) = P!FortiosInterface(v)
    BY SMT
    DEF G!FortiosInterface, P!FortiosInterface, G!FortiosReserved, P!FortiosReserved, G!Fold,
        P!Fold, G!When, P!When, G!Render, P!Render, G!Plain, P!Plain, G!Value, P!Value,
        G!Decimal, P!Decimal, G!Numbered, P!Numbered, G!Whole, P!Whole
  <2>2. G!CiscoIosInterface(v, TRUE) = P!CiscoIosInterface(v, TRUE)
    BY SMT
    DEF G!CiscoIosInterface, P!CiscoIosInterface, G!CiscoIosGigabit, P!CiscoIosGigabit, G!One,
        P!One, G!When, P!When, G!Render, P!Render, G!Plain, P!Plain, G!Value, P!Value, G!Decimal,
        P!Decimal, G!Numbered, P!Numbered, G!Whole, P!Whole
  <2>3. G!CiscoIosInterface(v, FALSE) = P!CiscoIosInterface(v, FALSE)
    BY SMT
    DEF G!CiscoIosInterface, P!CiscoIosInterface, G!CiscoIosGigabit, P!CiscoIosGigabit, G!One,
        P!One, G!When, P!When, G!Render, P!Render, G!Plain, P!Plain, G!Value, P!Value, G!Decimal,
        P!Decimal, G!Numbered, P!Numbered, G!Whole, P!Whole
  <2>4. G!CiscoNxosInterface(v, TRUE) = P!CiscoNxosInterface(v, TRUE)
    BY SMT
    DEF G!CiscoNxosInterface, P!CiscoNxosInterface, G!NxosEthernet, P!NxosEthernet, G!One, P!One,
        G!When, P!When, G!Render, P!Render, G!Plain, P!Plain, G!Value, P!Value, G!Decimal,
        P!Decimal, G!Numbered, P!Numbered, G!Whole, P!Whole
  <2>5. G!CiscoNxosInterface(v, FALSE) = P!CiscoNxosInterface(v, FALSE)
    BY SMT
    DEF G!CiscoNxosInterface, P!CiscoNxosInterface, G!NxosEthernet, P!NxosEthernet, G!One, P!One,
        G!When, P!When, G!Render, P!Render, G!Plain, P!Plain, G!Value, P!Value, G!Decimal,
        P!Decimal, G!Numbered, P!Numbered, G!Whole, P!Whole
  <2>6. G!CiscoXePhysical(v) = P!CiscoXePhysical(v)
    BY SMT
    DEF G!CiscoXePhysical, P!CiscoXePhysical, G!XePrefix, P!XePrefix, G!XeNames, P!XeNames,
        G!XePortExists, P!XePortExists, G!When, P!When, G!Render, P!Render, G!Plain, P!Plain,
        G!Value, P!Value, G!Decimal, P!Decimal, G!Numbered, P!Numbered, G!Whole, P!Whole
  <2>7. \A p, l, h, n : G!One(v, p, l, h, n) = P!One(v, p, l, h, n)
    BY SMT
    DEF G!One, P!One, G!When, P!When, G!Render, P!Render, G!Plain, P!Plain, G!Value, P!Value,
        G!Decimal, P!Decimal, G!Numbered, P!Numbered, G!Whole, P!Whole
  <2>8. G!CiscoXeInterface(v, TRUE) = P!CiscoXeInterface(v, TRUE)
    BY <2>6, SMT
    DEF G!CiscoXeInterface, P!CiscoXeInterface
  <2>9. G!CiscoXeInterface(v, FALSE) = P!CiscoXeInterface(v, FALSE)
    <3>1. G!One(v, {"Port-channel", "Po"}, 1, 128, "Port-channel") =
          P!One(v, {"Port-channel", "Po"}, 1, 128, "Port-channel")
      BY <2>7, SMT
    <3>2. G!One(v, {"Vlan", "Vl"}, 1, 4094, "vlan") =
          P!One(v, {"Vlan", "Vl"}, 1, 4094, "vlan")
      BY <2>7, SMT
    <3>3. G!One(v, {"Loopback", "Tunnel"}, 0, 2147483647, v.prefix) =
          P!One(v, {"Loopback", "Tunnel"}, 0, 2147483647, v.prefix)
      BY <2>7, SMT
    <3> QED
      BY <2>6, <3>1, <3>2, <3>3, SMT DEF G!CiscoXeInterface, P!CiscoXeInterface
  <2> QED
    BY <2>1, <2>2, <2>3, <2>4, <2>5, <2>8, <2>9, Zenon DEF G!VendorText, P!VendorText
<1> QED
  BY <1>1, <1>2, <1>3, <1>4, <1>5, <1>6

Kinds == P!AddressKinds \cup P!VendorKinds \cup P!TokenKinds

\* A kind of value is of one group, and the proxy takes a value of it when the others
\* render it.
LEMMA KindsAgree ==
  ASSUME NEW kind \in Kinds, NEW v
  PROVE  /\ P!TypedInventoryValue(kind, v) <=> S!SlotText(kind, v) # {}
         /\ P!TypedInventoryValue(kind, v) <=> G!SlotText(kind, v) # {}
         /\ kind \notin P!VendorKinds =>
              /\ P!TypedInventoryValue(kind, v) <=> S!SlotText(kind, v) = {v}
              /\ P!TypedInventoryValue(kind, v) <=> G!SlotText(kind, v) = {v}
<1>1. /\ S!AddressKinds = P!AddressKinds /\ S!VendorKinds = P!VendorKinds
      /\ S!TokenKinds = P!TokenKinds
      /\ G!AddressKinds = P!AddressKinds /\ G!VendorKinds = P!VendorKinds
      /\ G!TokenKinds = P!TokenKinds
  BY DEF S!AddressKinds, P!AddressKinds, S!VendorKinds, P!VendorKinds, S!TokenKinds, P!TokenKinds,
         G!AddressKinds, G!VendorKinds, G!TokenKinds
<1>2. /\ P!AddressKinds \cap P!VendorKinds = {} /\ P!AddressKinds \cap P!TokenKinds = {}
      /\ P!VendorKinds \cap P!TokenKinds = {}
  BY DEF P!AddressKinds, P!VendorKinds, P!TokenKinds
<1>3. \A condition \in BOOLEAN :
        /\ S!When(condition, v) = IF condition THEN {v} ELSE {}
        /\ G!When(condition, v) = IF condition THEN {v} ELSE {}
  BY DEF S!When, G!When
<1>4. CASE kind \in P!AddressKinds
  <2>1. P!TypedInventoryValue(kind, v) <=> P!CanonicalAddress(kind, v)
    BY <1>2, <1>4, Zenon DEF P!TypedInventoryValue
  <2>2. S!SlotText(kind, v) = IF S!CanonicalAddress(kind, v) THEN {v} ELSE {}
    BY <1>1, <1>2, <1>4, Zenon DEF S!SlotText, S!When
  <2>3. G!SlotText(kind, v) = IF G!CanonicalAddress(kind, v) THEN {v} ELSE {}
    BY <1>1, <1>2, <1>4, Zenon DEF G!SlotText, G!When
  <2> QED
    BY <2>1, <2>2, <2>3, <1>2, <1>4, FormsAgree, Zenon
<1>5. CASE kind \in P!VendorKinds
  <2>1. P!TypedInventoryValue(kind, v) <=> P!VendorText(kind, v) # {}
    BY <1>2, <1>5, Zenon DEF P!TypedInventoryValue, P!VendorCanonicalizer
  <2>2. S!SlotText(kind, v) = S!VendorText(kind, v)
    BY <1>1, <1>2, <1>5, Zenon DEF S!SlotText
  <2>3. G!SlotText(kind, v) = G!VendorText(kind, v)
    BY <1>1, <1>2, <1>5, Zenon DEF G!SlotText
  <2> QED
    BY <2>1, <2>2, <2>3, <1>5, FormsAgree, Zenon
<1>6. CASE kind \in P!TokenKinds
  <2>1. P!TypedInventoryValue(kind, v) <=> P!TokenPattern(kind, v)
    BY <1>2, <1>6, Zenon DEF P!TypedInventoryValue, P!SlotKindPattern
  <2>2. S!SlotText(kind, v) = IF S!TokenPattern(kind, v) THEN {v} ELSE {}
    BY <1>1, <1>2, <1>6, Zenon DEF S!SlotText, S!When
  <2>3. G!SlotText(kind, v) = IF G!TokenPattern(kind, v) THEN {v} ELSE {}
    BY <1>1, <1>2, <1>6, Zenon DEF G!SlotText, G!When
  <2> QED
    BY <2>1, <2>2, <2>3, <1>2, <1>6, FormsAgree, Zenon
<1> QED
  BY <1>4, <1>5, <1>6 DEF Kinds

\* The tables of queries are one file, read twice.
LEMMA TablesAgree ==
  /\ S!Categories = P!Categories /\ G!Categories = P!Categories
  /\ S!GenericKind = P!GenericKind /\ G!GenericKind = P!GenericKind
  /\ S!PlatformMap = P!PlatformMap /\ G!PlatformMap = P!PlatformMap
  /\ S!Slots = P!Slots /\ G!Slots = P!Slots
<1>1. S!Categories = P!Categories /\ G!Categories = P!Categories
  BY DEF S!Categories, P!Categories, G!Categories
<1>2. S!GenericKind = P!GenericKind /\ G!GenericKind = P!GenericKind
  BY DEF S!GenericKind, P!GenericKind, G!GenericKind
<1>3. S!PlatformMap = P!PlatformMap /\ G!PlatformMap = P!PlatformMap
  BY DEF S!PlatformMap, P!PlatformMap, G!PlatformMap
<1>4. S!Slots = P!Slots
  BY DEF S!Slots, P!Slots, S!LinuxSlots, P!LinuxSlots, S!FortinetSlots, P!FortinetSlots,
     S!CiscoSlots, P!CiscoSlots, S!CiscoIosSlots, P!CiscoIosSlots, S!CiscoXeSlots,
     P!CiscoXeSlots, S!CiscoNxosSlots, P!CiscoNxosSlots
<1>5. G!Slots = P!Slots
  BY DEF G!Slots, P!Slots, G!LinuxSlots, P!LinuxSlots, G!FortinetSlots, P!FortinetSlots,
     G!CiscoSlots, P!CiscoSlots, G!CiscoIosSlots, P!CiscoIosSlots, G!CiscoXeSlots,
     P!CiscoXeSlots, G!CiscoNxosSlots, P!CiscoNxosSlots
<1> QED
  BY <1>1, <1>2, <1>3, <1>4, <1>5

\* Every slot has a category of the inventory and a kind of one group.
LEMMA SlotsTyped ==
  \A platform \in P!Platforms : \A query \in P!Queries(platform) :
    \A slot \in P!Slots[platform][query] : slot[1] \in P!Categories /\ slot[2] \in Kinds
<1> DEFINE Typed(slots) == \A slot \in slots : slot[1] \in P!Categories /\ slot[2] \in Kinds
<1>1. P!Platforms = {"linux", "fortinet", "cisco_ios", "cisco_xe", "cisco_nxos"}
  BY DEF P!Platforms, P!PlatformMap
<1>2. \A query \in DOMAIN P!LinuxSlots : Typed(P!LinuxSlots[query])
  BY DEF P!LinuxSlots, P!Categories, Kinds, P!AddressKinds, P!VendorKinds, P!TokenKinds
<1>3. \A query \in DOMAIN P!FortinetSlots : Typed(P!FortinetSlots[query])
  BY DEF P!FortinetSlots, P!Categories, Kinds, P!AddressKinds, P!VendorKinds, P!TokenKinds
<1>4. \A a, b \in P!VendorKinds : \A query \in DOMAIN P!CiscoSlots(a, b) :
        Typed(P!CiscoSlots(a, b)[query])
  BY DEF P!CiscoSlots, P!Categories, Kinds, P!AddressKinds
<1>5. /\ \A query \in DOMAIN P!CiscoIosSlots : Typed(P!CiscoIosSlots[query])
      /\ \A query \in DOMAIN P!CiscoXeSlots : Typed(P!CiscoXeSlots[query])
      /\ \A query \in DOMAIN P!CiscoNxosSlots : Typed(P!CiscoNxosSlots[query])
  BY <1>4 DEF P!CiscoIosSlots, P!CiscoXeSlots, P!CiscoNxosSlots, P!VendorKinds
<1>6. /\ P!Slots["linux"] = P!LinuxSlots /\ P!Slots["fortinet"] = P!FortinetSlots
      /\ P!Slots["cisco_ios"] = P!CiscoIosSlots /\ P!Slots["cisco_xe"] = P!CiscoXeSlots
      /\ P!Slots["cisco_nxos"] = P!CiscoNxosSlots
  BY DEF P!Slots
<1> HIDE DEF Typed
<1>7. \A platform \in P!Platforms : \A query \in P!Queries(platform) :
        Typed(P!Slots[platform][query])
  BY <1>1, <1>2, <1>3, <1>5, <1>6, Zenon DEF P!Queries
<1> QED
  BY <1>7 DEF Typed

-----------------------------------------------------------------------------
(* Platforms, inventories, queries and roots.                              *)

\* The platform a text stands for, and its queries and interfaces.
Canonical(platform) == IF platform = "null" THEN "null" ELSE P!PlatformMap[platform]

LEMMA PlatformNames ==
  /\ "null" \notin DOMAIN P!PlatformMap /\ "null" \notin P!Platforms
  /\ \A text \in DOMAIN P!PlatformMap :
       /\ P!PlatformMap[text] \in P!Platforms
       /\ P!NormalizePlatform(text) = {P!PlatformMap[text]}
       /\ S!NormalizePlatform(text) = {P!PlatformMap[text]}
       /\ G!NormalizePlatform(text) = {P!PlatformMap[text]}
  /\ \A platform \in P!Platforms :
       platform \in DOMAIN P!PlatformMap /\ P!PlatformMap[platform] = platform
<1>1. DOMAIN P!PlatformMap = {"linux", "fortinet", "fortios", "cisco_ios", "cisco_xe", "cisco_nxos"}
  BY DEF P!PlatformMap
<1>2. P!Platforms = {"linux", "fortinet", "cisco_ios", "cisco_xe", "cisco_nxos"}
  BY DEF P!Platforms, P!PlatformMap
<1>3. \A platform \in P!Platforms :
        platform \in DOMAIN P!PlatformMap /\ P!PlatformMap[platform] = platform
  BY <1>2 DEF P!PlatformMap
<1>4. \A text \in DOMAIN P!PlatformMap : P!PlatformMap[text] \in P!Platforms
  BY DEF P!Platforms
<1>5. \A text \in DOMAIN P!PlatformMap : P!Fold(text) = text
  BY <1>1 DEF P!Fold
<1>6. \A text \in DOMAIN P!PlatformMap : P!NormalizePlatform(text) = {P!PlatformMap[text]}
  BY <1>5 DEF P!NormalizePlatform
<1>7. \A text \in DOMAIN P!PlatformMap : /\ S!NormalizePlatform(text) = {P!PlatformMap[text]}
                                         /\ G!NormalizePlatform(text) = {P!PlatformMap[text]}
  BY <1>5, FoldsAgree, TablesAgree DEF S!NormalizePlatform, G!NormalizePlatform
<1>8. "null" \notin DOMAIN P!PlatformMap /\ "null" \notin P!Platforms
  BY <1>1, <1>2
<1> QED
  BY <1>3, <1>4, <1>6, <1>7, <1>8

\* The inventory: values that are typed for the proxy are their own rendering elsewhere.
LEMMA InventoriesAgree ==
  ASSUME NEW inventory \in [P!Categories -> Seq(Values)]
  PROVE  LET valid == \A category \in P!Categories :
                        /\ P!Bounded(inventory[category])
                        /\ \A v \in P!Range(inventory[category]) :
                             P!TypedInventoryValue(P!GenericKind[category], v)
         IN (S!DecodesInventory(inventory) <=> valid) /\ (G!InventoryAccepted(inventory) <=> valid)
<1>1. \A category \in P!Categories : /\ inventory[category] \in Seq(Values)
                                     /\ P!GenericKind[category] \in Kinds \ P!VendorKinds
  <2>1. \A category \in P!Categories : P!GenericKind[category] \in Kinds \ P!VendorKinds
    BY DEF P!Categories, P!GenericKind, Kinds, P!AddressKinds, P!TokenKinds, P!VendorKinds
  <2> QED
    BY <2>1
<1>2. \A category \in P!Categories : \A v :
        /\ P!TypedInventoryValue(P!GenericKind[category], v) <=> S!InventoryItem(category, v) = {v}
        /\ P!TypedInventoryValue(P!GenericKind[category], v) <=> G!InventoryItem(category, v) = {v}
  BY <1>1, KindsAgree, TablesAgree, Zenon DEF S!InventoryItem, G!InventoryItem
<1>3. \A category \in P!Categories :
        /\ /\ S!BoundedList(inventory[category]) /\ S!Unique(inventory[category])
           <=> P!Bounded(inventory[category])
        /\ /\ G!GBounded(inventory[category]) /\ G!GUnique(inventory[category])
           <=> P!Bounded(inventory[category])
  BY <1>1, ListsAgree, Zenon
<1>4. DOMAIN inventory = P!Categories
  OBVIOUS
<1>5. \A category \in P!Categories :
        /\ S!Range(inventory[category]) = P!Range(inventory[category])
        /\ G!Range(inventory[category]) = P!Range(inventory[category])
  BY RangesAgree
<1>6. S!Categories = P!Categories
  BY TablesAgree
<1> DEFINE valid == \A category \in P!Categories :
                      /\ P!Bounded(inventory[category])
                      /\ \A v \in P!Range(inventory[category]) :
                           P!TypedInventoryValue(P!GenericKind[category], v)
<1> DEFINE server(category) ==
             LET list == inventory[category]
             IN /\ S!BoundedList(list) /\ S!Unique(list)
                /\ \A v \in S!Range(list) : S!InventoryItem(category, v) = {v}
           generator(category) ==
             /\ G!GBounded(inventory[category]) /\ G!GUnique(inventory[category])
             /\ \A v \in G!Range(inventory[category]) : G!InventoryItem(category, v) = {v}
           proxy(category) ==
             /\ P!Bounded(inventory[category])
             /\ \A v \in P!Range(inventory[category]) :
                  P!TypedInventoryValue(P!GenericKind[category], v)
<1>7. ASSUME NEW category \in P!Categories
      PROVE  /\ server(category) <=> proxy(category)
             /\ generator(category) <=> proxy(category)
  <2> DEFINE list == inventory[category]
  <2>1. /\ S!BoundedList(list) /\ S!Unique(list) <=> P!Bounded(list)
        /\ G!GBounded(list) /\ G!GUnique(list) <=> P!Bounded(list)
    BY <1>3
  <2>2. S!Range(list) = P!Range(list) /\ G!Range(list) = P!Range(list)
    BY <1>5
  <2>3. \A v : /\ P!TypedInventoryValue(P!GenericKind[category], v)
                  <=> S!InventoryItem(category, v) = {v}
               /\ P!TypedInventoryValue(P!GenericKind[category], v)
                  <=> G!InventoryItem(category, v) = {v}
    BY <1>2
  <2> QED
    BY <2>1, <2>2, <2>3, Zenon
<1>8. S!DecodesInventory(inventory) <=> \A category \in P!Categories : server(category)
  BY <1>6 DEF S!DecodesInventory
<1>9. G!InventoryAccepted(inventory) <=> \A category \in P!Categories : generator(category)
  BY <1>4 DEF G!InventoryAccepted
<1> HIDE DEF server, generator, proxy
<1>10. /\ S!DecodesInventory(inventory) <=> \A category \in P!Categories : proxy(category)
       /\ G!InventoryAccepted(inventory) <=> \A category \in P!Categories : proxy(category)
  BY <1>7, <1>8, <1>9, Zenon
<1> QED
  BY <1>10 DEF proxy

\* The kinds of interface the queries of a platform take.
LEMMA InterfacesAgree ==
  ASSUME NEW platform \in DOMAIN P!PlatformMap, NEW queries, NEW interfaces,
         queries \subseteq P!Queries(P!PlatformMap[platform])
  PROVE  LET set == {P!PlatformMap[platform]}
             fit == P!InterfacesFitQueries(platform, queries, interfaces)
         IN (S!QueryInventory(set, queries, interfaces) <=> fit)
            /\ (G!QueryInventory(set, queries, interfaces) <=> fit)
<1> DEFINE name  == P!PlatformMap[platform]
           kinds == P!InterfaceKinds(name, queries)
           fit   == P!InterfacesFitQueries(platform, queries, interfaces)
<1>1. S!InterfaceKinds(name, queries) = kinds /\ G!InterfaceKinds(name, queries) = kinds
  BY TablesAgree DEF S!InterfaceKinds, G!InterfaceKinds, P!InterfaceKinds
<1>2. name \in P!Platforms
  BY PlatformNames
<1>3. kinds \subseteq Kinds
  <2>1. \A query \in queries : \A slot \in P!Slots[name][query] : slot[2] \in Kinds
    BY <1>2, SlotsTyped
  <2> HIDE DEF name
  <2> QED
    BY <2>1, Zenon DEF P!InterfaceKinds
<1>4. platform # "null"
  BY PlatformNames
<1>5. fit <=> kinds = {} \/ \A v \in interfaces : \E kind \in kinds : P!TypedInventoryValue(kind, v)
  BY <1>4 DEF P!InterfacesFitQueries
<1>6. \A kind \in kinds : \A v : /\ P!TypedInventoryValue(kind, v) <=> S!SlotText(kind, v) # {}
                                 /\ P!TypedInventoryValue(kind, v) <=> G!SlotText(kind, v) # {}
  BY <1>3, KindsAgree
<1> HIDE DEF kinds, fit, name
<1>7. S!QueryInventory({name}, queries, interfaces) <=> fit
  BY <1>1, <1>5, <1>6, Zenon DEF S!QueryInventory
<1>8. G!QueryInventory({name}, queries, interfaces) <=> fit
  BY <1>1, <1>5, <1>6, Zenon DEF G!QueryInventory
<1> QED
  BY <1>7, <1>8 DEF name, fit

\* Platforms and queries.
LEMMA QueriesAgree ==
  ASSUME NEW platform \in {"null"} \cup DOMAIN P!PlatformMap, NEW queries \in Seq(STRING)
  PROVE  /\ S!NormalizeSshPolicy(platform, queries) =
              IF P!ValidQueries(platform, queries) THEN {Canonical(platform)} ELSE {}
         /\ platform # "null" /\ P!ValidQueries(platform, queries) =>
              P!Range(queries) \subseteq P!Queries(P!PlatformMap[platform])
<1>1. S!BoundedList(queries) /\ S!Unique(queries) <=> P!Bounded(queries)
  BY ListsAgree
<1>2. S!Range(queries) = P!Range(queries)
  BY RangesAgree
<1>3. CASE platform = "null"
  <2>1. P!Range(queries) \subseteq {} <=> queries = <<>>
    <3>1. P!Range(queries) \subseteq {} <=> P!Range(queries) = {}
      OBVIOUS
    <3> QED
      BY <3>1, EmptyLists
  <2>2. S!NormalizeSshPolicy(platform, queries) =
          {q \in {"null"} : P!Bounded(queries) /\ P!Range(queries) \subseteq {}}
    BY <1>1, <1>2, <1>3 DEF S!NormalizeSshPolicy
  <2>3. P!ValidQueries(platform, queries) <=> P!Bounded(queries) /\ queries = <<>>
    BY <1>3 DEF P!ValidQueries
  <2> QED
    BY <2>1, <2>2, <2>3, <1>3 DEF Canonical
<1>4. CASE platform # "null"
  <2>1. platform \in DOMAIN P!PlatformMap
    BY <1>4
  <2>2. /\ S!NormalizePlatform(platform) = {P!PlatformMap[platform]}
        /\ P!PlatformMap[platform] # "null"
    BY <2>1, PlatformNames
  <2>3. S!Queries(P!PlatformMap[platform]) = P!Queries(P!PlatformMap[platform])
    BY TablesAgree DEF S!Queries, P!Queries
  <2>4. P!ValidQueries(platform, queries) <=>
          P!Bounded(queries) /\ P!Range(queries) \subseteq P!Queries(P!PlatformMap[platform])
    BY <1>4, <2>1 DEF P!ValidQueries
  <2>5. S!NormalizeSshPolicy(platform, queries) =
          {q \in {P!PlatformMap[platform]} :
             P!Bounded(queries) /\ P!Range(queries) \subseteq S!Queries(q)}
    <3>1. \A q \in {P!PlatformMap[platform]} : q # "null"
      BY <2>2
    <3> QED
      BY <1>1, <1>2, <1>4, <2>2, <3>1 DEF S!NormalizeSshPolicy
  <2> QED
    BY <2>3, <2>4, <2>5, <1>4 DEF Canonical
<1> QED
  BY <1>3, <1>4

\* Roots.
LEMMA RootsAgree ==
  ASSUME NEW roots \in Seq(Paths)
  PROVE  /\ S!DecodesRoots(roots) <=> P!ValidRoots(roots)
         /\ P!ValidRoots(roots) <=>
              /\ G!RootsAccepted(roots)
              /\ \A i \in DOMAIN roots : roots[i].tidy /\ roots[i].plain
<1>1. /\ S!BoundedList(roots) /\ S!Unique(roots) <=> P!Bounded(roots)
      /\ G!GBounded(roots) /\ G!GUnique(roots) <=> P!Bounded(roots)
  BY ListsAgree
<1>2. \A f : /\ S!Range(f) = P!Range(f)
             /\ G!Range(f) = P!Range(f)
             /\ P!Range(f) = {f[x] : x \in DOMAIN f}
  BY RangesAgree
<1>3. \A f : ".." \notin P!Range(f) <=> \A i \in DOMAIN f : f[i] # ".."
  BY <1>2
<1>4. S!DecodesRoots(roots) <=> P!ValidRoots(roots)
  BY <1>1, <1>2, <1>3, Zenon DEF S!DecodesRoots, P!ValidRoots
<1>5. (\A root \in P!Range(roots) : root.tidy /\ root.plain) <=>
        \A i \in DOMAIN roots : roots[i].tidy /\ roots[i].plain
  BY <1>2, Zenon
<1>6. P!ValidRoots(roots) <=>
        G!RootsAccepted(roots) /\ \A root \in P!Range(roots) : root.tidy /\ root.plain
  BY <1>1, <1>2, Zenon DEF G!RootsAccepted, P!ValidRoots
<1> QED
  BY <1>4, <1>5, <1>6

-----------------------------------------------------------------------------
(* Records, policies and envelopes.                                        *)

\* Records.
LEMMA RecordsAgree ==
  ASSUME NEW r \in Records
  PROVE  P!RecordError(r) = "none" <=> G!RecordAccepted(r)
<1>1. P!Port = G!Port
  BY MaxPorts
<1>2. P!RecordError(r) = "none" <=>
        /\ r.shape = "exact" /\ r.host # "blank" /\ r.port \in P!Port /\ r.login # "blank"
        /\ r.password # "short"
        /\ r.community = "none" \/ (r.community # "short" /\ r.community # r.password)
  BY DEF P!RecordError
<1> QED
  BY <1>1, <1>2, Zenon DEF G!RecordAccepted

\* A policy without an error.
AcceptedPolicy(p) ==
  /\ p.shape = "exact" /\ p.role = "read-only"
  /\ P!ValidQueries(p.platform, p.queries) /\ P!ValidEgress(p.egress) /\ P!ValidRoots(p.roots)
  /\ P!ValidInventory(p.platform, P!Range(p.queries), p.inventory)
  /\ p.verified \in P!Flags /\ P!Limited(p)

\* The results of the proxy's validation of a policy.
LEMMA PoliciesAccepted ==
  \A p : /\ P!PolicyError(p) = "none" <=> AcceptedPolicy(p)
         /\ P!PolicyError(p) \in {"none", "policy_schema", "role_rejected"}
<1> SUFFICES ASSUME NEW p
             PROVE  /\ P!PolicyError(p) = "none" <=> AcceptedPolicy(p)
                    /\ P!PolicyError(p) \in {"none", "policy_schema", "role_rejected"}
  OBVIOUS
<1> DEFINE early == p.shape \in {"extra", "no_egress"}
           role  == p.role # "read-only"
           rest  == /\ p.shape = "exact"
                    /\ P!ValidQueries(p.platform, p.queries) /\ P!ValidEgress(p.egress)
                    /\ P!ValidRoots(p.roots)
                    /\ P!ValidInventory(p.platform, P!Range(p.queries), p.inventory)
                    /\ p.verified \in P!Flags
                    /\ P!Limited(p)
<1>1. P!PolicyError(p) = IF early THEN "policy_schema"
                         ELSE IF role THEN "role_rejected"
                         ELSE IF rest THEN "none" ELSE "policy_schema"
  BY DEF P!PolicyError
<1>2. rest => ~early
  OBVIOUS
<1>3. AcceptedPolicy(p) <=> rest /\ ~role
  BY DEF AcceptedPolicy
<1> HIDE DEF early, role, rest
<1> QED
  BY <1>1, <1>2, <1>3

\* The destination of a record, as its policy enrolls it.
HostFits(host, e) ==
  \/ host \in P!Range(e.addresses)
  \/ host \in Name \ Address /\ e.dns = "yes" /\ e.addresses # <<>>

\* The destination: the proxy binds, the server enrolls, the generator lists it.
LEMMA BindingsAgree ==
  ASSUME NEW r \in Records, NEW p, P!Range(p.egress.addresses) \subseteq Address
  PROVE  P!BindingError(r, p) = "none" <=> HostFits(r.host, p.egress)
<1>1. "ipv6" \notin Address \cup Name
  BY NamesAssumption
<1>2. P!BindingError(r, p) = "none" <=>
        \/ r.host \in Address /\ r.host \in P!Range(p.egress.addresses)
        \/ /\ r.host \notin Address \cup {"ipv6"}
           /\ r.host \in Name /\ p.egress.dns = "yes" /\ p.egress.addresses # <<>>
  BY DEF P!BindingError, P!SafeDnsName
<1> QED
  BY <1>1, <1>2 DEF HostFits

LEMMA HostsAgree ==
  ASSUME NEW host \in Address \cup Name, NEW e, P!Range(e.addresses) \subseteq Address
  PROVE  {h \in S!NormalizeHost(host) : S!HostEnrolled(h, e)} =
           IF HostFits(host, e) THEN {host} ELSE {}
<1>1. host # "ipv6" /\ P!Fold(host) = host
  BY NamesAssumption
<1>2. S!NormalizeHost(host) = {host}
  BY <1>1, FoldsAgree DEF S!NormalizeHost, S!IsLiteral, S!NormalizeDnsName
<1>3. S!HostEnrolled(host, e) <=> HostFits(host, e)
  BY RangesAgree DEF S!HostEnrolled, S!IsLiteral, HostFits
<1> QED
  BY <1>2, <1>3

\* What the server asks of an envelope besides its alias and its destination.
Fits(env) ==
  /\ env.shape = "exact" /\ S!DecodesIdentity(env) /\ P!ValidEgress(env.egress)
  /\ P!ValidQueries(env.platform, env.queries) /\ P!ValidRoots(env.roots)
  /\ P!ValidInventory(env.platform, P!Range(env.queries), env.inventory)
  /\ env.community \notin {"short", env.password} /\ env.role = "read-only"

\* An envelope is decoded, and its platform is made canonical, when it fits.
LEMMA EnvelopesDecode ==
  ASSUME NEW env, NEW alias,
         env.host \in Address \cup Name, env.platform \in {"null"} \cup DOMAIN P!PlatformMap,
         env.queries \in Seq(STRING), env.inventory \in [P!Categories -> Seq(Values)],
         env.roots \in Seq(Paths), env.egress \in Egresses
  PROVE  S!Decode(alias, env) =
           IF Fits(env) /\ env.alias = alias /\ HostFits(env.host, env.egress)
           THEN {[env EXCEPT !.host = env.host, !.platform = Canonical(env.platform)]}
           ELSE {}
<1> DEFINE name == Canonical(env.platform)
           valid == P!ValidQueries(env.platform, env.queries)
           asked(q) == /\ env.shape = "exact"
                       /\ S!DecodesIdentity(env) /\ S!DecodesEgress(env.egress)
                       /\ S!DecodesInventory(env.inventory)
                       /\ S!QueryInventory({q} \ {"null"}, S!Range(env.queries),
                                           S!Range(env.inventory["interfaces"]))
                       /\ S!DecodesRoots(env.roots)
                       /\ env.community # "short"
                       /\ env.alias = alias /\ env.role = "read-only"
                       /\ env.community # env.password
           hosts == {h \in S!NormalizeHost(env.host) : S!HostEnrolled(h, env.egress)}
           names == {q \in S!NormalizeSshPolicy(env.platform, env.queries) : asked(q)}
           envelope(h, q) == [env EXCEPT !.host = h, !.platform = q]
<1>1. S!Decode(alias, env) = {envelope(h, q) : h \in hosts, q \in names}
  BY DEF S!Decode
<1>2. names = IF valid /\ asked(name) THEN {name} ELSE {}
  <2>1. S!NormalizeSshPolicy(env.platform, env.queries) = IF valid THEN {name} ELSE {}
    BY QueriesAgree
  <2> HIDE DEF asked, valid, name
  <2> QED
    BY <2>1
<1>3. valid => (S!QueryInventory({name} \ {"null"}, S!Range(env.queries),
                                 S!Range(env.inventory["interfaces"])) <=>
                P!InterfacesFitQueries(env.platform, P!Range(env.queries),
                                       P!Range(env.inventory["interfaces"])))
  <2> SUFFICES ASSUME valid
               PROVE  S!QueryInventory({name} \ {"null"}, P!Range(env.queries),
                                       P!Range(env.inventory["interfaces"])) <=>
                      P!InterfacesFitQueries(env.platform, P!Range(env.queries),
                                             P!Range(env.inventory["interfaces"]))
    BY RangesAgree, Zenon
  <2>1. CASE env.platform = "null"
    <3>1. {name} \ {"null"} = {}
      BY <2>1 DEF Canonical
    <3> QED
      BY <2>1, <3>1 DEF S!QueryInventory, P!InterfacesFitQueries
  <2>2. CASE env.platform # "null"
    <3>1. env.platform \in DOMAIN P!PlatformMap
      BY <2>2
    <3>2. name = P!PlatformMap[env.platform] /\ {name} \ {"null"} = {P!PlatformMap[env.platform]}
      BY <2>2, <3>1, PlatformNames DEF Canonical
    <3>3. P!Range(env.queries) \subseteq P!Queries(P!PlatformMap[env.platform])
      BY <2>2, QueriesAgree
    <3>4. S!QueryInventory({P!PlatformMap[env.platform]}, P!Range(env.queries),
                           P!Range(env.inventory["interfaces"])) <=>
          P!InterfacesFitQueries(env.platform, P!Range(env.queries),
                                 P!Range(env.inventory["interfaces"]))
      BY <3>1, <3>3, InterfacesAgree
    <3> QED
      BY <3>2, <3>4, Zenon
  <2> QED
    BY <2>1, <2>2
<1>4. S!DecodesInventory(env.inventory) <=>
        \A category \in P!Categories :
          /\ P!Bounded(env.inventory[category])
          /\ \A v \in P!Range(env.inventory[category]) :
               P!TypedInventoryValue(P!GenericKind[category], v)
  BY InventoriesAgree
<1>5. valid /\ asked(name) <=> Fits(env) /\ env.alias = alias
  <2>1. S!DecodesEgress(env.egress) <=> P!ValidEgress(env.egress)
    BY EgressesAgree
  <2>2. S!DecodesRoots(env.roots) <=> P!ValidRoots(env.roots)
    BY RootsAgree
  <2>3. valid => (/\ S!DecodesInventory(env.inventory)
                  /\ S!QueryInventory({name} \ {"null"}, S!Range(env.queries),
                                      S!Range(env.inventory["interfaces"]))
                  <=> P!ValidInventory(env.platform, P!Range(env.queries), env.inventory))
    BY <1>3, <1>4, Zenon DEF P!ValidInventory
  <2> HIDE DEF name
  <2> QED
    BY <2>1, <2>2, <2>3, Zenon DEF Fits
<1>6. Fits(env) => hosts = IF HostFits(env.host, env.egress) THEN {env.host} ELSE {}
  <2>1. Fits(env) => P!Range(env.egress.addresses) \subseteq Address
    BY Zenon DEF Fits, P!ValidEgress, P!ValidAddresses
  <2> QED
    BY <2>1, HostsAgree
<1> HIDE DEF hosts, names, name, valid, asked, envelope
<1>7. CASE Fits(env) /\ env.alias = alias
  <2>1. names = {name} /\ hosts = IF HostFits(env.host, env.egress) THEN {env.host} ELSE {}
    BY <1>2, <1>5, <1>6, <1>7
  <2>2. S!Decode(alias, env) = {envelope(h, q) : h \in hosts, q \in {name}}
    BY <1>1, <2>1
  <2>3. S!Decode(alias, env) =
          IF HostFits(env.host, env.egress) THEN {envelope(env.host, name)} ELSE {}
    BY <2>1, <2>2
  <2> QED
    BY <1>7, <2>3 DEF envelope, name
<1>8. CASE ~(Fits(env) /\ env.alias = alias)
  <2>1. names = {}
    BY <1>2, <1>5, <1>8
  <2> QED
    BY <1>1, <1>8, <2>1
<1> QED
  BY <1>7, <1>8

-----------------------------------------------------------------------------
(* What each program accepts, in the same words.                           *)

\* A record and a policy that fit each other, as the proxy sees them.
Accepted(r, p) ==
  P!RecordError(r) = "none" /\ AcceptedPolicy(p) /\ HostFits(r.host, p.egress)

\* What an accepted policy is known to have.
LEMMA PolicyTyped ==
  ASSUME NEW p, AcceptedPolicy(p)
  PROVE  /\ p.platform \in {"null"} \cup DOMAIN P!PlatformMap
         /\ P!Range(p.egress.addresses) \subseteq Address
<1>1. P!ValidQueries(p.platform, p.queries) /\ P!ValidEgress(p.egress)
  BY Zenon DEF AcceptedPolicy
<1>2. P!Range(p.egress.addresses) \subseteq Address
  BY <1>1, Zenon DEF P!ValidEgress, P!ValidAddresses
<1>3. p.platform \in {"null"} \cup DOMAIN P!PlatformMap
  BY <1>1 DEF P!ValidQueries
<1> QED
  BY <1>2, <1>3

\* The three readers, in the words above.
LEMMA ProxyAccepted ==
  ASSUME NEW r \in Records, NEW p \in Entries
  PROVE  ProxyAccepts(r, p) <=> Accepted(r, p)
<1>1. P!NormalPolicy(p).egress = p.egress
  BY DEF P!NormalPolicy, Entries
<1>2. AcceptedPolicy(p) =>
        (P!BindingError(r, P!NormalPolicy(p)) = "none" <=> HostFits(r.host, p.egress))
  <2>1. AcceptedPolicy(p) => (P!BindingError(r, P!NormalPolicy(p)) = "none" <=>
                              HostFits(r.host, P!NormalPolicy(p).egress))
    BY <1>1, PolicyTyped, BindingsAgree
  <2> QED
    BY <1>1, <2>1
<1> QED
  BY <1>2, PoliciesAccepted, Zenon DEF ProxyAccepts, Accepted

\* The server takes the envelope of a record and a policy exactly when they fit.
LEMMA ServerAccepted ==
  ASSUME NEW r \in Records, NEW p \in Entries, NEW alias, alias # "blank",
         r.host \in Address \cup Name, p.platform \in {"null"} \cup DOMAIN P!PlatformMap,
         r.shape = "exact", P!Limited(p)
  PROVE  ServerAccepts(alias, r, p) <=> Accepted(r, p)
<1> DEFINE env == [P!AuthContext(alias, r, p, {}, "snmp_get") EXCEPT !.shape = p.shape]
<1>1. env = [shape |-> p.shape, alias |-> alias, host |-> r.host, port |-> r.port,
             login |-> r.login, password |-> r.password, role |-> p.role,
             platform |-> p.platform, queries |-> p.queries, inventory |-> p.inventory,
             roots |-> p.roots, verified |-> p.verified, egress |-> p.egress,
             community |-> r.community, keys |-> {}]
  BY DEF P!AuthContext
<1> HIDE DEF env
<1>2. /\ env.shape = p.shape /\ env.alias = alias /\ env.host = r.host /\ env.port = r.port
      /\ env.login = r.login /\ env.password = r.password /\ env.role = p.role
      /\ env.platform = p.platform /\ env.queries = p.queries /\ env.inventory = p.inventory
      /\ env.roots = p.roots /\ env.verified = p.verified /\ env.egress = p.egress
      /\ env.community = r.community
  BY <1>1
<1>3. /\ p.queries \in Seq(STRING) /\ p.inventory \in [P!Categories -> Seq(Values)]
      /\ p.roots \in Seq(Paths) /\ p.egress \in Egresses
  BY DEF Entries
<1>4. ServerAccepts(alias, r, p) <=>
        Fits(env) /\ env.alias = alias /\ HostFits(env.host, env.egress)
  <2>1. ServerAccepts(alias, r, p) <=> S!Decode(alias, env) # {}
    BY DEF ServerAccepts, env
  <2>2. /\ env.host \in Address \cup Name /\ env.platform \in {"null"} \cup DOMAIN P!PlatformMap
        /\ env.queries \in Seq(STRING) /\ env.inventory \in [P!Categories -> Seq(Values)]
        /\ env.roots \in Seq(Paths) /\ env.egress \in Egresses
    BY <1>2, <1>3
  <2>3. S!Decode(alias, env) =
          IF Fits(env) /\ env.alias = alias /\ HostFits(env.host, env.egress)
          THEN {[env EXCEPT !.host = env.host, !.platform = Canonical(env.platform)]}
          ELSE {}
    BY <2>2, EnvelopesDecode, Zenon
  <2> QED
    BY <2>1, <2>3
<1>5. S!DecodesIdentity(env) <=> /\ r.port \in P!Port /\ r.login # "blank"
                                 /\ r.password # "short" /\ p.verified \in P!Flags
  <2>1. S!Port = P!Port
    BY MaxPorts
  <2> QED
    BY <1>2, <2>1, FlagsAgree DEF S!DecodesIdentity
<1>6. r.host # "blank"
  BY NamesAssumption
<1>7. r.password # "none"
  BY DEF Records
<1>8. r.community \notin {"short", r.password} <=>
        r.community = "none" \/ (r.community # "short" /\ r.community # r.password)
  BY <1>7
<1>9. P!RecordError(r) = "none" <=>
        /\ r.port \in P!Port /\ r.login # "blank" /\ r.password # "short"
        /\ r.community \notin {"short", r.password}
  BY <1>6, <1>8 DEF P!RecordError
<1>10. Fits(env) <=> P!RecordError(r) = "none" /\ AcceptedPolicy(p)
  BY <1>2, <1>5, <1>9, Zenon DEF Fits, AcceptedPolicy
<1> QED
  BY <1>2, <1>4, <1>10, Zenon DEF Accepted

LEMMA QueriesAccepted ==
  ASSUME NEW p \in Entries, p.platform \in {"null"} \cup DOMAIN P!PlatformMap
  PROVE  G!QueriesAccepted(p) <=>
           /\ P!ValidQueries(p.platform, p.queries)
           /\ P!InterfacesFitQueries(p.platform, P!Range(p.queries),
                                     P!Range(p.inventory["interfaces"]))
<1>1. p.queries \in Seq(STRING)
  BY DEF Entries
<1>2. G!GBounded(p.queries) /\ G!GUnique(p.queries) <=> P!Bounded(p.queries)
  BY <1>1, ListsAgree
<1>3. \A f : G!Range(f) = P!Range(f)
  BY RangesAgree
<1>4. CASE p.platform = "null"
  <2>1. P!ValidQueries(p.platform, p.queries) <=> P!Bounded(p.queries) /\ p.queries = <<>>
    BY <1>4 DEF P!ValidQueries
  <2>2. P!Range(p.queries) \subseteq {} <=> p.queries = <<>>
    BY <1>1, EmptyLists
  <2>3. P!InterfacesFitQueries(p.platform, P!Range(p.queries), P!Range(p.inventory["interfaces"]))
    BY <1>4 DEF P!InterfacesFitQueries
  <2>4. UNION {G!Queries(platform) : platform \in {}} = {}
    OBVIOUS
  <2>5. G!QueryInventory({}, P!Range(p.queries), P!Range(p.inventory["interfaces"]))
    BY DEF G!QueryInventory
  <2>6. G!QueriesAccepted(p) <=> P!Bounded(p.queries) /\ P!Range(p.queries) \subseteq {}
    BY <1>2, <1>3, <1>4, <2>4, <2>5 DEF G!QueriesAccepted
  <2> QED
    BY <2>1, <2>2, <2>3, <2>6
<1>5. CASE p.platform # "null"
  <2> DEFINE name == P!PlatformMap[p.platform]
  <2>1. p.platform \in DOMAIN P!PlatformMap
    BY <1>5
  <2>2. G!NormalizePlatform(p.platform) = {name}
    BY <2>1, PlatformNames
  <2>3. G!Queries(name) = P!Queries(name)
    BY TablesAgree DEF G!Queries, P!Queries
  <2>4. P!ValidQueries(p.platform, p.queries) <=>
          P!Bounded(p.queries) /\ P!Range(p.queries) \subseteq P!Queries(name)
    BY <1>5, <2>1 DEF P!ValidQueries
  <2>5. P!Range(p.queries) \subseteq P!Queries(name) =>
          (G!QueryInventory({name}, P!Range(p.queries), P!Range(p.inventory["interfaces"])) <=>
           P!InterfacesFitQueries(p.platform, P!Range(p.queries),
                                  P!Range(p.inventory["interfaces"])))
    BY <2>1, InterfacesAgree
  <2> HIDE DEF name
  <2>6. UNION {G!Queries(platform) : platform \in {name}} = P!Queries(name)
    BY <2>3
  <2>7. G!QueriesAccepted(p) <=>
          /\ P!Bounded(p.queries) /\ P!Range(p.queries) \subseteq P!Queries(name)
          /\ G!QueryInventory({name}, P!Range(p.queries), P!Range(p.inventory["interfaces"]))
    BY <1>2, <1>3, <1>5, <2>2, <2>6 DEF G!QueriesAccepted
  <2> QED
    BY <2>4, <2>5, <2>7, Zenon
<1> QED
  BY <1>4, <1>5

\* The generator takes them too, with resolvers for DNS and its port outside the ranges.
LEMMA GeneratorAccepted ==
  ASSUME NEW r \in Records, NEW p \in Entries, NEW resolvers \in Seq(Address),
         p.platform \in {"null"} \cup DOMAIN P!PlatformMap,
         \A i \in DOMAIN p.roots : p.roots[i].tidy /\ p.roots[i].plain
  PROVE  G!TargetAccepted(r, p, resolvers) <=>
           /\ Accepted(r, p)
           /\ p.egress.dns = "yes" => resolvers # <<>>
           /\ ~(DerivesPort(p) /\ InRanges(r.port, p.egress.tcpRanges))
<1> DEFINE e == p.egress
<1>1. /\ p.queries \in Seq(STRING) /\ p.inventory \in [P!Categories -> Seq(Values)]
      /\ p.roots \in Seq(Paths) /\ e \in Egresses
  BY DEF Entries
<1>2. e.addresses \in Seq(STRING) /\ e.tcpRanges \in Seq(Int \X Int)
  BY <1>1 DEF Egresses
<1>3. ScopesAccepted(e) <=> P!ValidEgress(e)
  BY <1>1, EgressesAgree
<1>4. P!RecordError(r) = "none" <=> G!RecordAccepted(r)
  BY RecordsAgree
<1>5. G!InventoryAccepted(p.inventory) <=>
        \A category \in P!Categories :
          /\ P!Bounded(p.inventory[category])
          /\ \A v \in P!Range(p.inventory[category]) :
               P!TypedInventoryValue(P!GenericKind[category], v)
  BY <1>1, InventoriesAgree
<1>6. G!QueriesAccepted(p) <=>
        /\ P!ValidQueries(p.platform, p.queries)
        /\ P!InterfacesFitQueries(p.platform, P!Range(p.queries),
                                  P!Range(p.inventory["interfaces"]))
  BY QueriesAccepted
<1>7. G!RootsAccepted(p.roots) <=> P!ValidRoots(p.roots)
  BY <1>1, RootsAgree
<1>8. G!Overlap(G!EffectiveTcp(r, p), G!Range(e.tcpRanges)) <=>
        \/ G!Overlap(G!Range(e.tcp), G!Range(e.tcpRanges))
        \/ DerivesPort(p) /\ InRanges(r.port, e.tcpRanges)
  <2>1. G!Overlap({r.port}, G!Range(e.tcpRanges)) <=> InRanges(r.port, e.tcpRanges)
    <3>1. \A i \in DOMAIN e.tcpRanges : e.tcpRanges[i][1] \in Int /\ e.tcpRanges[i][2] \in Int
      BY <1>2
    <3>2. r.port \in Int
      BY DEF Records
    <3>3. G!Overlap({r.port}, G!Range(e.tcpRanges)) <=>
            \E i \in DOMAIN e.tcpRanges :
              e.tcpRanges[i][1] <= r.port /\ r.port <= e.tcpRanges[i][2]
      BY RangesAgree, Zenon DEF G!Overlap
    <3> QED
      BY <3>1, <3>2, <3>3, SMT DEF InRanges
  <2>2. \A A, B, C : G!Overlap(A \cup B, C) <=> G!Overlap(A, C) \/ G!Overlap(B, C)
    BY Zenon DEF G!Overlap
  <2>3. CASE DerivesPort(p)
    <3>1. G!EffectiveTcp(r, p) = G!Range(e.tcp) \cup {r.port}
      BY <2>3 DEF DerivesPort, G!EffectiveTcp
    <3> QED
      BY <2>1, <2>2, <2>3, <3>1, Zenon
  <2>4. CASE ~DerivesPort(p)
    <3>1. G!EffectiveTcp(r, p) = G!Range(e.tcp)
      BY <2>4 DEF DerivesPort, G!EffectiveTcp
    <3> QED
      BY <2>4, <3>1, Zenon
  <2> QED
    BY <2>3, <2>4
<1>9. (/\ G!GBounded(e.addresses) /\ G!GUnique(e.addresses)
       /\ G!Range(e.addresses) \subseteq Address
       /\ e.dns \in G!Flags) =>
        (G!DestinationsAccepted(r, e, resolvers) <=>
           HostFits(r.host, e) /\ (e.dns = "yes" => resolvers # <<>>))
  <2>1. r.host \in P!Range(e.addresses) => e.addresses # <<>>
    BY <1>2, EmptyLists
  <2>2. G!Range(e.addresses) = P!Range(e.addresses)
    BY RangesAgree
  <2> HIDE DEF e
  <2> QED
    BY <2>1, <2>2, Zenon DEF G!DestinationsAccepted, HostFits
<1>10. G!DestinationsAccepted(r, e, resolvers) =>
         /\ G!GBounded(e.addresses) /\ G!GUnique(e.addresses)
         /\ G!Range(e.addresses) \subseteq Address /\ e.dns \in G!Flags
  BY Zenon DEF G!DestinationsAccepted
<1>11. G!TargetAccepted(r, p, resolvers) <=>
         /\ G!RecordAccepted(r)
         /\ p.shape = "exact" /\ p.role = "read-only"
         /\ G!InventoryAccepted(p.inventory)
         /\ p.verified \in P!Flags /\ P!Limited(p)
         /\ G!DestinationsAccepted(r, e, resolvers) /\ ScopesAccepted(e)
         /\ G!QueriesAccepted(p) /\ G!RootsAccepted(p.roots)
         /\ ~G!Overlap(G!EffectiveTcp(r, p), G!Range(e.tcpRanges))
  BY <1>10, FlagsAgree, SMTT(20) DEF G!TargetAccepted, ScopesAccepted, P!Limited
<1>12. ScopesAccepted(e) => /\ G!GBounded(e.addresses) /\ G!GUnique(e.addresses)
                            /\ G!Range(e.addresses) \subseteq Address /\ e.dns \in G!Flags
                            /\ ~G!Overlap(G!Range(e.tcp), G!Range(e.tcpRanges))
  BY Zenon DEF ScopesAccepted
<1>13. AcceptedPolicy(p) <=>
         /\ p.shape = "exact" /\ p.role = "read-only"
         /\ G!InventoryAccepted(p.inventory)
         /\ p.verified \in P!Flags /\ P!Limited(p)
         /\ ScopesAccepted(e)
         /\ G!QueriesAccepted(p) /\ G!RootsAccepted(p.roots)
  BY <1>3, <1>5, <1>6, <1>7, Zenon DEF AcceptedPolicy, P!ValidInventory
<1> HIDE DEF e
<1>14. G!TargetAccepted(r, p, resolvers) <=>
         /\ Accepted(r, p)
         /\ e.dns = "yes" => resolvers # <<>>
         /\ ~(DerivesPort(p) /\ InRanges(r.port, e.tcpRanges))
  <2>1. Accepted(r, p) <=> G!RecordAccepted(r) /\ AcceptedPolicy(p) /\ HostFits(r.host, e)
    BY <1>4, Zenon DEF Accepted, e
  <2> QED
    BY <1>8, <1>9, <1>11, <1>12, <1>13, <2>1, Zenon
<1> QED
  BY <1>14 DEF e

-----------------------------------------------------------------------------
(* The bundle.                                                             *)

\* A port range with both ends in it.
IsScope(low, high) == 1 <= low /\ low <= high /\ high <= P!MaxPort

\* What the generator's validation of a target has established.
LEMMA TargetParts ==
  ASSUME NEW r, NEW p, NEW resolvers, G!TargetAccepted(r, p, resolvers)
  PROVE  /\ G!RecordAccepted(r) /\ G!DestinationsAccepted(r, p.egress, resolvers)
         /\ G!PortsAccepted(p.egress.tcp) /\ G!PortsAccepted(p.egress.udp)
         /\ G!RangesAccepted(p.egress.tcpRanges) /\ G!RangesAccepted(p.egress.udpRanges)
         /\ ~G!Overlap(G!EffectiveTcp(r, p), G!Range(p.egress.tcpRanges))
         /\ ~G!Overlap(G!Range(p.egress.udp), G!Range(p.egress.udpRanges))
  BY SMT DEF G!TargetAccepted

LEMMA RangesShort ==
  ASSUME NEW list, G!RangesAccepted(list)
  PROVE  Len(list) <= MaxRanges
  BY SMT DEF G!RangesAccepted

\* What the generator writes of a target it accepts.
LEMMA ScopeWritten ==
  ASSUME NEW r \in Records, NEW p \in Entries, NEW resolvers,
         G!TargetAccepted(r, p, resolvers)
  PROVE  LET scope == G!TargetScope(r, p) IN
         /\ scope.destinations # {} /\ scope.destinations \subseteq Address
         /\ scope.tcp \cup scope.udp \subseteq G!Port
         /\ G!Cardinality(scope.udp) <= MaxItems
         /\ G!Cardinality(scope.tcpRanges) <= MaxRanges
         /\ G!Cardinality(scope.udpRanges) <= MaxRanges
         /\ \A range \in scope.tcpRanges \cup scope.udpRanges :
              /\ range[1] \in Int /\ range[2] \in Int
              /\ IsScope(range[1], range[2])
         /\ ~G!Overlap(scope.tcp, scope.tcpRanges) /\ ~G!Overlap(scope.udp, scope.udpRanges)
<1> DEFINE e == p.egress
           scope == G!TargetScope(r, p)
<1>1. /\ scope.destinations = G!Range(e.addresses) /\ scope.tcp = G!EffectiveTcp(r, p)
      /\ scope.udp = G!Range(e.udp) /\ scope.tcpRanges = G!Range(e.tcpRanges)
      /\ scope.udpRanges = G!Range(e.udpRanges)
  BY DEF G!TargetScope
<1>2. /\ e.addresses \in Seq(STRING) /\ e.tcp \in Seq(Int) /\ e.udp \in Seq(Int)
      /\ e.tcpRanges \in Seq(Int \X Int) /\ e.udpRanges \in Seq(Int \X Int)
  BY DEF Entries, Egresses
<1>3. /\ G!RecordAccepted(r) /\ G!DestinationsAccepted(r, e, resolvers)
      /\ G!PortsAccepted(e.tcp) /\ G!PortsAccepted(e.udp)
      /\ G!RangesAccepted(e.tcpRanges) /\ G!RangesAccepted(e.udpRanges)
      /\ ~G!Overlap(G!EffectiveTcp(r, p), G!Range(e.tcpRanges))
      /\ ~G!Overlap(G!Range(e.udp), G!Range(e.udpRanges))
  BY TargetParts, Zenon
<1> HIDE DEF e, scope
<1>4. scope.destinations # {} /\ scope.destinations \subseteq Address
  <2>1. e.addresses # <<>> /\ G!Range(e.addresses) \subseteq Address
    BY <1>3, Zenon DEF G!DestinationsAccepted
  <2> QED
    BY <1>1, <1>2, <2>1, EmptyLists
<1>5. scope.tcp \cup scope.udp \subseteq G!Port
  <2>1. G!Range(e.tcp) \subseteq G!Port /\ G!Range(e.udp) \subseteq G!Port
    BY <1>3, Zenon DEF G!PortsAccepted
  <2>2. r.port \in G!Port
    BY <1>3, Zenon DEF G!RecordAccepted
  <2> QED
    BY <1>1, <2>1, <2>2 DEF G!EffectiveTcp, e
<1>6. G!Cardinality(scope.udp) <= MaxItems
  <2>1. Len(e.udp) <= MaxItems
    BY <1>3, Zenon DEF G!PortsAccepted, G!GBounded
  <2>2. G!Cardinality(scope.udp) \in Nat /\ G!Cardinality(scope.udp) <= Len(e.udp)
    BY <1>1, <1>2, ListValues, CardinalitiesAgree, RangesAgree
  <2> QED
    BY <1>2, <2>1, <2>2, LimitsAssumption
<1>7. ASSUME NEW list \in Seq(Int \X Int), G!RangesAccepted(list)
      PROVE  /\ G!Cardinality(G!Range(list)) <= MaxRanges
             /\ \A range \in G!Range(list) : /\ range[1] \in Int /\ range[2] \in Int
                                             /\ IsScope(range[1], range[2])
  <2>1. Len(list) <= MaxRanges
    BY <1>7, RangesShort, Zenon
  <2>2. G!Cardinality(G!Range(list)) \in Nat /\ G!Cardinality(G!Range(list)) <= Len(list)
    BY ListValues, CardinalitiesAgree, RangesAgree
  <2>3. \A i \in DOMAIN list : list[i][1] \in Int /\ list[i][2] \in Int
    OBVIOUS
  <2>4. \A i \in DOMAIN list : IsScope(list[i][1], list[i][2])
    BY <1>7, <2>3, MaxPorts, SMT DEF G!RangesAccepted, IsScope
  <2>5. \A range \in G!Range(list) : \E i \in DOMAIN list : range = list[i]
    BY RangesAgree
  <2>6. G!Cardinality(G!Range(list)) <= MaxRanges
    BY <2>1, <2>2, LimitsAssumption
  <2> QED
    BY <2>3, <2>4, <2>5, <2>6, Zenon
<1>8. /\ G!Cardinality(scope.tcpRanges) <= MaxRanges
      /\ G!Cardinality(scope.udpRanges) <= MaxRanges
      /\ \A range \in scope.tcpRanges \cup scope.udpRanges :
           /\ range[1] \in Int /\ range[2] \in Int
           /\ IsScope(range[1], range[2])
  BY <1>1, <1>2, <1>3, <1>7
<1>9. ~G!Overlap(scope.tcp, scope.tcpRanges) /\ ~G!Overlap(scope.udp, scope.udpRanges)
  BY <1>1, <1>3
<1> QED
  BY <1>4, <1>5, <1>6, <1>8, <1>9 DEF scope

\* The files of the constants.
IsFiles(f) ==
  /\ \A alias \in DOMAIN f.vault : f.vault[alias] \in Records
  /\ \A alias \in DOMAIN f.policy : f.policy[alias] \in Entries
  /\ f.global \in Globals

\* The checker takes the bundle of the files the generator accepts, but for the lists
\* the derived credential port makes too long.
LEMMA BundlesTaken ==
  ASSUME NEW f, IsFiles(f), G!ManifestAccepted(f.vault, f.policy, f.global)
  PROVE  G!BundleValid(G!Bundle(f.vault, f.policy, f.global)) <=>
           \A alias \in DOMAIN f.policy :
             Cardinality(G!EffectiveTcp(f.vault[alias], f.policy[alias])) <= MaxItems
<1> DEFINE m == G!Manifest(f.vault, f.policy, f.global)
           Scope(alias) == G!TargetScope(f.vault[alias], f.policy[alias])
           b == G!Bundle(f.vault, f.policy, f.global)
<1>1. /\ b.manifest = m /\ b.digest = m /\ b.ruleset = G!Ruleset(m)
  BY DEF G!Bundle
<1>2. /\ m.profile = f.global.profile
      /\ m.allowDns <=> \E alias \in DOMAIN f.policy : f.policy[alias].egress.dns = "yes"
      /\ m.resolvers = G!Range(f.global.resolvers) /\ m.lans = G!Range(f.global.lans)
      /\ m.targets = {Scope(alias) : alias \in DOMAIN f.policy}
  BY DEF G!Manifest
<1>3. ASSUME NEW alias \in DOMAIN f.policy
      PROVE  /\ f.vault[alias] \in Records /\ f.policy[alias] \in Entries
             /\ G!TargetAccepted(f.vault[alias], f.policy[alias], f.global.resolvers)
             /\ f.global.profile = "lan-constrained" =>
                  Scope(alias).destinations \subseteq G!LanOf(m.lans)
  <2>1. /\ alias \in DOMAIN f.vault
        /\ G!TargetAccepted(f.vault[alias], f.policy[alias], f.global.resolvers)
        /\ f.global.profile = "lan-constrained" =>
             G!Range(f.policy[alias].egress.addresses) \subseteq G!LanOf(G!Range(f.global.lans))
    BY Zenon DEF G!ManifestAccepted
  <2>2. Scope(alias).destinations = G!Range(f.policy[alias].egress.addresses)
    BY DEF G!TargetScope
  <2> QED
    BY <1>2, <2>1, <2>2 DEF IsFiles
<1>4. /\ m.profile \in {"strict-target", "lan-constrained"} /\ m.resolvers \subseteq Address
      /\ m.lans \subseteq DOMAIN Lan /\ (m.profile = "strict-target" <=> m.lans = {})
  <2>1. G!GlobalAccepted(f.global)
    BY Zenon DEF G!ManifestAccepted
  <2>2. f.global.lans \in Seq(STRING)
    BY DEF IsFiles, Globals
  <2>3. G!Range(f.global.lans) = {} <=> f.global.lans = <<>>
    BY <2>2, EmptyLists
  <2> HIDE DEF m
  <2> QED
    BY <1>2, <2>1, <2>3 DEF G!GlobalAccepted
<1>5. m.allowDns => m.resolvers # {}
  <2> SUFFICES ASSUME NEW alias \in DOMAIN f.policy, f.policy[alias].egress.dns = "yes"
               PROVE  m.resolvers # {}
    BY <1>2
  <2>1. G!DestinationsAccepted(f.vault[alias], f.policy[alias].egress, f.global.resolvers)
    BY <1>3, TargetParts, Zenon
  <2>2. f.global.resolvers # <<>>
    BY <2>1, Zenon DEF G!DestinationsAccepted
  <2>3. f.global.resolvers \in Seq(Address)
    BY DEF IsFiles, Globals
  <2> QED
    BY <1>2, <2>2, <2>3, EmptyLists
<1> HIDE DEF m, b
<1>6. G!BundleValid(b) <=>
        \A scope \in m.targets :
          /\ scope.destinations # {} /\ scope.destinations \subseteq Address
          /\ m.profile = "lan-constrained" => scope.destinations \subseteq G!LanOf(m.lans)
          /\ scope.tcp \cup scope.udp \subseteq G!Port
          /\ \A ports \in {scope.tcp, scope.udp} : G!Cardinality(ports) <= MaxItems
          /\ \A ranges \in {scope.tcpRanges, scope.udpRanges} : G!Cardinality(ranges) <= MaxRanges
          /\ \A range \in scope.tcpRanges \cup scope.udpRanges : IsScope(range[1], range[2])
          /\ ~G!Overlap(scope.tcp, scope.tcpRanges) /\ ~G!Overlap(scope.udp, scope.udpRanges)
  BY <1>1, <1>4, <1>5, MaxPorts DEF G!BundleValid, IsScope
<1>7. ASSUME NEW alias \in DOMAIN f.policy
      PROVE  LET scope == Scope(alias) IN
             /\ scope.destinations # {} /\ scope.destinations \subseteq Address
             /\ m.profile = "lan-constrained" => scope.destinations \subseteq G!LanOf(m.lans)
             /\ scope.tcp \cup scope.udp \subseteq G!Port
             /\ G!Cardinality(scope.udp) <= MaxItems
             /\ G!Cardinality(scope.tcpRanges) <= MaxRanges
             /\ G!Cardinality(scope.udpRanges) <= MaxRanges
             /\ \A range \in scope.tcpRanges \cup scope.udpRanges : IsScope(range[1], range[2])
             /\ ~G!Overlap(scope.tcp, scope.tcpRanges) /\ ~G!Overlap(scope.udp, scope.udpRanges)
  BY <1>2, <1>3, ScopeWritten
<1>8. \A alias : Scope(alias).tcp = G!EffectiveTcp(f.vault[alias], f.policy[alias])
  BY DEF G!TargetScope
<1> HIDE DEF Scope
<1>9. G!BundleValid(b) <=>
        \A alias \in DOMAIN f.policy : G!Cardinality(Scope(alias).tcp) <= MaxItems
  BY <1>2, <1>6, <1>7
<1> QED
  BY <1>8, <1>9, CardinalitiesAgree DEF b

\* On every pair of files of the right JSON types the three programs agree.
LEMMA ValidatorsHold ==
  ASSUME IsFiles(files)
  PROVE  ValidatorsAgree
<1>1. ASSUME NEW alias \in (DOMAIN files.vault \cap DOMAIN files.policy) \ {"blank"}
      PROVE  ReadersAgree(alias, files.vault[alias], files.policy[alias])
  <2> DEFINE r == files.vault[alias]
             p == files.policy[alias]
             canonical == p.platform \in {"null"} \cup DOMAIN P!PlatformMap
             extra == /\ p.egress.dns = "yes" => files.global.resolvers # <<>>
                      /\ ~(DerivesPort(p) /\ InRanges(r.port, p.egress.tcpRanges))
             tidy == \A i \in DOMAIN p.roots : p.roots[i].tidy /\ p.roots[i].plain
  <2>1. r \in Records /\ p \in Entries /\ alias # "blank"
    BY DEF IsFiles
  <2>2. files.global.resolvers \in Seq(Address) /\ p.roots \in Seq(Paths)
    BY <2>1 DEF IsFiles, Globals, Entries
  <2> HIDE DEF r, p
  <2>3. ProxyAccepts(r, p) <=> Accepted(r, p)
    BY <2>1, ProxyAccepted
  <2>4. Accepted(r, p) =>
          /\ canonical /\ r.host \in Address \cup Name /\ r.shape = "exact" /\ P!Limited(p) /\ tidy
    <3>1. Accepted(r, p) =>
            P!RecordError(r) = "none" /\ AcceptedPolicy(p) /\ HostFits(r.host, p.egress)
      BY Zenon DEF Accepted
    <3>2. P!RecordError(r) = "none" => r.shape = "exact"
      BY DEF P!RecordError
    <3>3. AcceptedPolicy(p) => canonical /\ P!Range(p.egress.addresses) \subseteq Address
      BY PolicyTyped
    <3>4. AcceptedPolicy(p) => P!Limited(p) /\ P!ValidRoots(p.roots)
      BY Zenon DEF AcceptedPolicy
    <3>5. P!ValidRoots(p.roots) => tidy
      BY <2>2, RootsAgree
    <3>6. HostFits(r.host, p.egress) /\ P!Range(p.egress.addresses) \subseteq Address =>
            r.host \in Address \cup Name
      BY DEF HostFits
    <3> QED
      BY <3>1, <3>2, <3>3, <3>4, <3>5, <3>6
  <2>5. canonical /\ r.host \in Address \cup Name /\ r.shape = "exact" /\ P!Limited(p) =>
          (ServerAccepts(alias, r, p) <=> Accepted(r, p))
    BY <2>1, ServerAccepted
  <2>6. canonical /\ tidy => (GeneratorAccepts(r, p) <=> Accepted(r, p) /\ extra)
    BY <2>1, <2>2, GeneratorAccepted DEF GeneratorAccepts
  <2> HIDE DEF canonical, extra, tidy
  <2>7. /\ ProxyAccepts(r, p) => ServerAccepts(alias, r, p)
        /\ /\ ServerAccepts(alias, r, p) /\ canonical /\ r.host \in Address \cup Name
           /\ r.shape = "exact" /\ P!Limited(p)
           => ProxyAccepts(r, p)
        /\ ProxyAccepts(r, p) => (GeneratorAccepts(r, p) <=> extra)
        /\ GeneratorAccepts(r, p) /\ canonical /\ tidy => ProxyAccepts(r, p)
    BY <2>3, <2>4, <2>5, <2>6
  <2>8. ReadersAgree(alias, r, p)
    BY <2>7 DEF ReadersAgree, canonical, extra, tidy
  <2> QED
    BY <2>8 DEF r, p
<1>2. G!ManifestAccepted(files.vault, files.policy, files.global)
        => (G!BundleValid(G!Bundle(files.vault, files.policy, files.global)) <=>
              \A alias \in DOMAIN files.policy :
                Cardinality(G!EffectiveTcp(files.vault[alias], files.policy[alias])) <= MaxItems)
  BY BundlesTaken
<1> QED
  BY <1>1, <1>2, Zenon DEF ValidatorsAgree

-----------------------------------------------------------------------------
(* A call that is authorized.                                              *)

\* The arguments of a call that passed _validate_tool_arguments, normalized.
IsOffset(n) == n \in 0..P!MaxOffset
GoodArguments(tool, args) ==
  /\ tool \in P!DeviceTools
  /\ args.port \in Int /\ args.number \in Int /\ args.path \in Paths
  /\ IsFiniteSet(args.parameter)
  /\ args.target # "blank" /\ args.name # "blank"
  /\ args.port = P!Absent \/ args.port \in P!Port
  /\ tool \in DOMAIN P!NumberBounds =>
       (args.number = P!Absent /\ tool # "snmp_get") \/ args.number \in P!NumberBounds[tool]
  /\ IsOffset(args.offset) /\ args.path.plain
  /\ args.tls \in P!Flags /\ args.acknowledged \in P!Flags
  /\ tool = "ssh_read" => args.platform \in P!Platforms

\* What the proxy's validation of arguments has established.
LEMMA ArgumentParts ==
  ASSUME NEW tool, NEW args, P!ValidArguments(tool, args)
  PROVE  /\ tool \in P!DeviceTools /\ args.target # "blank" /\ args.name # "blank"
         /\ args.port = P!Absent \/ args.port \in P!Port
         /\ tool \in DOMAIN P!NumberBounds =>
              \/ args.number = P!Absent /\ tool # "snmp_get"
              \/ args.number \in P!NumberBounds[tool]
         /\ IsOffset(args.offset) /\ args.path.plain
         /\ args.tls \in P!Flags /\ args.acknowledged \in P!Flags
         /\ tool = "ssh_read" => args.platform \in DOMAIN P!PlatformMap
  BY Zenon DEF P!ValidArguments, IsOffset

\* The arguments of a call past validation.
LEMMA ArgumentsNormalized ==
  ASSUME NEW tool, NEW args \in Arguments, IsFiniteSet(args.parameter),
         P!ValidArguments(tool, args)
  PROVE  GoodArguments(tool, P!NormalArguments(tool, args))
<1> DEFINE normal == P!NormalArguments(tool, args)
<1>0. args.port \in Int /\ args.number \in Int /\ args.path \in Paths
  BY DEF Arguments
<1>1. /\ tool \in P!DeviceTools /\ args.target # "blank" /\ args.name # "blank"
      /\ args.port = P!Absent \/ args.port \in P!Port
      /\ tool \in DOMAIN P!NumberBounds =>
           (args.number = P!Absent /\ tool # "snmp_get") \/ args.number \in P!NumberBounds[tool]
      /\ IsOffset(args.offset) /\ args.path.plain
      /\ args.tls \in P!Flags /\ args.acknowledged \in P!Flags
      /\ tool = "ssh_read" => args.platform \in DOMAIN P!PlatformMap
  BY ArgumentParts, Zenon
<1>2. CASE tool = "ssh_read"
  <2>1. P!PlatformMap[args.platform] \in P!Platforms
    BY <1>1, <1>2, PlatformNames
  <2>2. normal = [args EXCEPT !.platform = P!PlatformMap[args.platform]]
    BY <1>2 DEF P!NormalArguments
  <2>3. /\ normal.platform \in P!Platforms
        /\ normal.parameter = args.parameter /\ normal.target = args.target
        /\ normal.name = args.name /\ normal.port = args.port /\ normal.number = args.number
        /\ normal.offset = args.offset /\ normal.path = args.path
        /\ normal.tls = args.tls /\ normal.acknowledged = args.acknowledged
    BY <2>1, <2>2 DEF Arguments
  <2> HIDE DEF normal
  <2>4. /\ normal.port \in Int /\ normal.number \in Int /\ normal.path \in Paths
        /\ IsFiniteSet(normal.parameter)
    BY <1>0, <2>3
  <2>5. /\ normal.target # "blank" /\ normal.name # "blank"
        /\ normal.port = P!Absent \/ normal.port \in P!Port
        /\ tool \in DOMAIN P!NumberBounds =>
             \/ normal.number = P!Absent /\ tool # "snmp_get"
             \/ normal.number \in P!NumberBounds[tool]
    BY <1>1, <2>3
  <2>6. /\ IsOffset(normal.offset) /\ normal.path.plain
        /\ normal.tls \in P!Flags /\ normal.acknowledged \in P!Flags
    BY <1>1, <2>3
  <2>7. GoodArguments(tool, normal)
    BY <1>1, <2>3, <2>4, <2>5, <2>6, Zenon DEF GoodArguments
  <2> QED
    BY <2>7 DEF normal
<1>3. CASE tool # "ssh_read"
  <2>1. normal = args
    BY <1>3 DEF P!NormalArguments
  <2> QED
    BY <1>0, <1>1, <1>3, <2>1, Zenon DEF GoodArguments
<1> QED
  BY <1>2, <1>3

\* A record and a policy the proxy took, the policy with its canonical platform.
TypedPolicy(q) ==
  /\ q.queries \in Seq(STRING) /\ q.inventory \in [P!Categories -> Seq(Values)]
  /\ q.roots \in Seq(Paths) /\ q.egress \in Egresses
Enrolled(r, q) ==
  /\ r \in Records /\ P!RecordError(r) = "none"
  /\ TypedPolicy(q) /\ AcceptedPolicy(q) /\ q.platform \in {"null"} \cup P!Platforms
  /\ HostFits(r.host, q.egress)

\* Normalizing a policy changes its platform only, to the canonical one.
LEMMA PolicyNormalized ==
  ASSUME NEW p \in Entries, AcceptedPolicy(p)
  PROVE  LET q == P!NormalPolicy(p) IN
         /\ TypedPolicy(q) /\ AcceptedPolicy(q) /\ q.platform \in {"null"} \cup P!Platforms
         /\ q.platform = Canonical(p.platform)
         /\ q.platform = "null" <=> p.platform = "null"
         /\ q.queries = p.queries /\ q.roots = p.roots /\ q.egress = p.egress
<1> DEFINE q == P!NormalPolicy(p)
<1>1. p.platform \in {"null"} \cup DOMAIN P!PlatformMap
  BY PolicyTyped
<1>2. Canonical(p.platform) \in {"null"} \cup P!Platforms
  BY <1>1, PlatformNames DEF Canonical
<1>4. q = [p EXCEPT !.platform = Canonical(p.platform)]
  BY DEF P!NormalPolicy, Canonical
<1>6. /\ q.shape = p.shape /\ q.role = p.role /\ q.platform = Canonical(p.platform)
      /\ q.queries = p.queries /\ q.roots = p.roots /\ q.inventory = p.inventory
      /\ q.verified = p.verified /\ q.requests = p.requests /\ q.window = p.window
      /\ q.egress = p.egress
  BY <1>4 DEF Entries
<1>5. TypedPolicy(q)
  BY <1>6 DEF TypedPolicy, Entries
<1> HIDE DEF q
<1>7. q.platform = "null" <=> p.platform = "null"
  BY <1>1, <1>6, PlatformNames DEF Canonical
<1>8. p.platform # "null" => /\ P!PlatformMap[q.platform] = P!PlatformMap[p.platform]
                             /\ q.platform \in DOMAIN P!PlatformMap
  BY <1>1, <1>6, PlatformNames DEF Canonical
<1>9. P!ValidQueries(q.platform, q.queries) <=> P!ValidQueries(p.platform, p.queries)
  BY <1>1, <1>6, <1>7, <1>8 DEF P!ValidQueries
<1>10. P!ValidInventory(q.platform, P!Range(q.queries), q.inventory) <=>
       P!ValidInventory(p.platform, P!Range(p.queries), p.inventory)
  BY <1>6, <1>7, <1>8 DEF P!ValidInventory, P!InterfacesFitQueries
<1>11. P!Limited(q) <=> P!Limited(p)
  <2>1. q.requests = p.requests /\ q.window = p.window
    BY <1>6, Zenon
  <2> QED
    BY <2>1 DEF P!Limited
<1>12. AcceptedPolicy(q)
  BY <1>6, <1>9, <1>10, <1>11 DEF AcceptedPolicy
<1> QED
  BY <1>2, <1>5, <1>6, <1>7, <1>12 DEF q

\* The envelope of a call, field by field.
Envelope(env, alias, r, q, lines, tool) ==
  /\ env.shape = "exact" /\ env.alias = alias /\ env.host = r.host /\ env.port = r.port
  /\ env.login = r.login /\ env.password = r.password /\ env.role = q.role
  /\ env.platform = q.platform /\ env.queries = q.queries /\ env.inventory = q.inventory
  /\ env.roots = q.roots /\ env.verified = q.verified /\ env.egress = q.egress
  /\ env.community = IF tool = "snmp_get" THEN r.community ELSE "none"
  /\ env.keys = IF tool \in {"ssh_read", "sftp_stat"} THEN P!SelectKnownHosts(lines, r) ELSE {}
  /\ [env EXCEPT !.host = r.host, !.platform = q.platform] = env

LEMMA EnvelopeFields ==
  ASSUME NEW alias, NEW r, NEW q, NEW lines, NEW tool
  PROVE  Envelope(P!AuthContext(alias, r, q, lines, tool), alias, r, q, lines, tool)
<1> DEFINE env == P!AuthContext(alias, r, q, lines, tool)
<1>1. env = [x \in DOMAIN env |-> env[x]]
  BY DEF P!AuthContext
<1>2. /\ env.shape = "exact" /\ env.alias = alias /\ env.host = r.host /\ env.port = r.port
      /\ env.login = r.login /\ env.password = r.password /\ env.role = q.role
      /\ env.platform = q.platform /\ env.queries = q.queries /\ env.inventory = q.inventory
      /\ env.roots = q.roots /\ env.verified = q.verified /\ env.egress = q.egress
  BY DEF P!AuthContext
<1>3. /\ env.community = IF tool = "snmp_get" THEN r.community ELSE "none"
      /\ env.keys = IF tool \in {"ssh_read", "sftp_stat"} THEN P!SelectKnownHosts(lines, r)
                    ELSE {}
  BY DEF P!AuthContext
<1> HIDE DEF env
<1>4. [env EXCEPT !.host = r.host, !.platform = q.platform] = env
  BY <1>1, <1>2
<1> QED
  BY <1>2, <1>3, <1>4, Zenon DEF env, Envelope

\* The server takes the envelope of an authorized call as it was sent.
LEMMA DecodedIsSent ==
  ASSUME NEW alias, NEW r, NEW q, NEW lines, NEW tool, Enrolled(r, q), alias # "blank"
  PROVE  S!Decode(alias, P!AuthContext(alias, r, q, lines, tool)) =
           {P!AuthContext(alias, r, q, lines, tool)}
<1> DEFINE env == P!AuthContext(alias, r, q, lines, tool)
<1> HIDE DEF env
<1>0. Envelope(env, alias, r, q, lines, tool)
  BY EnvelopeFields, Zenon DEF env
<1>1. /\ env.shape = "exact" /\ env.alias = alias /\ env.host = r.host /\ env.port = r.port
      /\ env.login = r.login /\ env.password = r.password /\ env.role = q.role
      /\ env.platform = q.platform /\ env.queries = q.queries /\ env.inventory = q.inventory
      /\ env.roots = q.roots /\ env.verified = q.verified /\ env.egress = q.egress
      /\ env.community = IF tool = "snmp_get" THEN r.community ELSE "none"
      /\ [env EXCEPT !.host = r.host, !.platform = q.platform] = env
  BY <1>0 DEF Envelope
<1>2. /\ r \in Records /\ P!RecordError(r) = "none" /\ TypedPolicy(q) /\ AcceptedPolicy(q)
      /\ q.platform \in {"null"} \cup P!Platforms /\ HostFits(r.host, q.egress)
  BY DEF Enrolled
<1>3. /\ q.queries \in Seq(STRING) /\ q.inventory \in [P!Categories -> Seq(Values)]
      /\ q.roots \in Seq(Paths) /\ q.egress \in Egresses
  BY <1>2 DEF TypedPolicy
<1>4. r.host \in Address \cup Name
  <2>1. P!Range(q.egress.addresses) \subseteq Address
    BY <1>2, PolicyTyped
  <2> QED
    BY <1>2, <2>1 DEF HostFits
<1>5. q.platform \in {"null"} \cup DOMAIN P!PlatformMap /\ Canonical(q.platform) = q.platform
  BY <1>2, PlatformNames DEF Canonical
<1>6. r.password # "none"
  BY <1>2 DEF Records
<1>7. /\ r.port \in P!Port /\ r.login # "blank" /\ r.password # "short"
      /\ r.community = "none" \/ (r.community # "short" /\ r.community # r.password)
  BY <1>2 DEF P!RecordError
<1>8. env.community \notin {"short", env.password}
  BY <1>1, <1>6, <1>7
<1>9. S!DecodesIdentity(env)
  <2>1. S!Port = P!Port
    BY MaxPorts
  <2>2. q.verified \in P!Flags
    BY <1>2, Zenon DEF AcceptedPolicy
  <2> QED
    BY <1>1, <1>7, <2>1, <2>2, FlagsAgree DEF S!DecodesIdentity
<1>10. Fits(env)
  BY <1>1, <1>2, <1>8, <1>9 DEF Fits, AcceptedPolicy
<1>11. S!Decode(alias, env) =
         IF Fits(env) /\ env.alias = alias /\ HostFits(env.host, env.egress)
         THEN {[env EXCEPT !.host = env.host, !.platform = Canonical(env.platform)]}
         ELSE {}
  <2>1. /\ env.host \in Address \cup Name /\ env.platform \in {"null"} \cup DOMAIN P!PlatformMap
        /\ env.queries \in Seq(STRING) /\ env.inventory \in [P!Categories -> Seq(Values)]
        /\ env.roots \in Seq(Paths) /\ env.egress \in Egresses
    BY <1>1, <1>3, <1>4, <1>5
  <2> QED
    BY <2>1, EnvelopesDecode, Zenon
<1>12. [env EXCEPT !.host = env.host, !.platform = Canonical(env.platform)] = env
  BY <1>1, <1>5, Zenon
<1>13. S!Decode(alias, env) = {env}
  BY <1>1, <1>2, <1>10, <1>11, <1>12, Zenon
<1> QED
  BY <1>13 DEF env

-----------------------------------------------------------------------------
(* The two gates.                                                          *)

\* A port in the scope of a list and its ranges, as the two gates and the guide say it.
LEMMA ScopesOfPorts ==
  ASSUME NEW port \in Int, NEW ports \in Seq(Int), NEW ranges \in Seq(Int \X Int)
  PROVE  /\ P!Within(port, ranges) <=> InRanges(port, ranges)
         /\ S!InSome(port, ranges) <=> InRanges(port, ranges)
         /\ port \in P!Range(ports) <=> Listed(port, ports)
         /\ port \in S!Range(ports) <=> Listed(port, ports)
<1>1. \A i \in DOMAIN ranges : ranges[i][1] \in Int /\ ranges[i][2] \in Int
  OBVIOUS
<1> DEFINE Meets(i) == ranges[i][1] <= port /\ port <= ranges[i][2]
<1>2. InRanges(port, ranges) <=> \E i \in DOMAIN ranges : Meets(i)
  BY <1>1, SMT DEF InRanges
<1>3. \A i \in DOMAIN ranges : port \in ranges[i][1]..ranges[i][2] <=> Meets(i)
  BY <1>1, SMT
<1>4. S!InSome(port, ranges) <=> \E i \in DOMAIN ranges : Meets(i)
  BY RangesAgree, Zenon DEF S!InSome
<1> HIDE DEF Meets
<1>5. P!Within(port, ranges) <=> \E i \in DOMAIN ranges : Meets(i)
  BY <1>3, Zenon DEF P!Within
<1>6. /\ port \in P!Range(ports) <=> Listed(port, ports)
      /\ port \in S!Range(ports) <=> Listed(port, ports)
  BY RangesAgree DEF Listed
<1> QED
  BY <1>2, <1>4, <1>5, <1>6

LEMMA ListedAgree ==
  \A x, list : /\ x \in P!Range(list) <=> Listed(x, list)
               /\ x \in S!Range(list) <=> Listed(x, list)
               /\ x \in G!Range(list) <=> Listed(x, list)
  BY RangesAgree DEF Listed

\* A port the proxy allows is one the server allows.
LEMMA PortsAdmitted ==
  ASSUME NEW port \in Int, NEW ports \in Seq(Int), NEW ranges \in Seq(Int \X Int),
         P!PortAllowed(port, ports, ranges)
  PROVE  port \in S!Port /\ (port \in S!Range(ports) \/ S!InSome(port, ranges))
<1>1. S!Port = P!Port
  BY MaxPorts
<1>2. port \in P!Port /\ (port \in P!Range(ports) \/ P!Within(port, ranges))
  BY Zenon DEF P!PortAllowed
<1> QED
  BY <1>1, <1>2, ScopesOfPorts

\* A path under one of the roots, for the proxy, is under it for the server.
LEMMA PathsAdmitted ==
  ASSUME NEW path \in Paths, NEW auth, auth.roots \in Seq(Paths),
         P!PathInRoots(path, auth.roots), path.plain
  PROVE  S!AdmitsPath(auth, path)
<1>1. PICK root \in P!Range(auth.roots) : P!IsUnder(root, path)
  BY DEF P!PathInRoots
<1>2. path.lead = 1 /\ path.tidy /\ ".." \notin S!Range(path.parts)
  BY RangesAgree DEF P!PathInRoots
<1>3. path.parts \in Seq(STRING) /\ root.parts \in Seq(STRING)
  <2>1. \E i \in DOMAIN auth.roots : root = auth.roots[i]
    BY <1>1, RangesAgree
  <2>2. root \in Paths
    BY <2>1
  <2> QED
    BY <2>2 DEF Paths
<1> DEFINE long == path.parts
           short == root.parts
<1>4. /\ Len(short) <= Len(long) /\ \A i \in DOMAIN short : long[i] = short[i]
  BY <1>1 DEF P!IsUnder
<1> HIDE DEF long, short
<1>5. long \in Seq(STRING) /\ short \in Seq(STRING)
  BY <1>3 DEF long, short
<1>6. CASE Len(short) = Len(long)
  <2>1. long = short
    BY <1>4, <1>5, <1>6
  <2> QED
    BY <1>1, <1>2, <2>1, RangesAgree DEF S!AdmitsPath, long, short
<1>7. CASE Len(short) # Len(long)
  <2>1. Len(short) \in Nat /\ Len(long) \in Nat /\ Len(short) < Len(long)
    BY <1>4, <1>5, <1>7
  <2>2. /\ SubSeq(long, 1, Len(short)) \in Seq(STRING)
        /\ Len(SubSeq(long, 1, Len(short))) = Len(short)
        /\ \A i \in 1..Len(short) : SubSeq(long, 1, Len(short))[i] = long[i]
    BY <1>5, <2>1
  <2>3. SubSeq(long, 1, Len(short)) = short
    BY <1>4, <1>5, <2>2
  <2> QED
    BY <1>1, <1>2, <2>1, <2>3, RangesAgree DEF S!AdmitsPath, long, short
<1> QED
  BY <1>6, <1>7

\* A query with its parameter, enrolled by the policy, is rendered by the server.
LEMMA QueriesAdmitted ==
  ASSUME NEW q, AcceptedPolicy(q), TypedPolicy(q), q.platform \in P!Platforms,
         NEW args, args.platform = q.platform, args.query \in P!Range(q.queries),
         P!ParametersAllowed(args, q),
         NEW auth, auth.platform = q.platform, auth.queries = q.queries,
         auth.inventory = q.inventory
  PROVE  S!AdmitsQuery(auth, args)
<1> DEFINE platform == q.platform
           slots == P!Slots[platform][args.query]
<1>1. S!NormalizePlatform(platform) = {platform} /\ platform # "null"
  BY PlatformNames
<1>2. args.query \in P!Queries(platform)
  <2>1. P!ValidQueries(platform, q.queries) /\ q.queries \in Seq(STRING)
    BY Zenon DEF AcceptedPolicy, TypedPolicy
  <2>2. P!Range(q.queries) \subseteq P!Queries(P!PlatformMap[platform])
    BY <1>1, <2>1, PlatformNames, QueriesAgree
  <2> QED
    BY <2>2, PlatformNames
<1>3. /\ P!Cardinality(slots) = P!Cardinality(args.parameter)
      /\ \A slot \in slots, v \in args.parameter :
           P!TypedInventoryValue(slot[2], v) /\ v \in P!Range(q.inventory[slot[1]])
  BY DEF P!ParametersAllowed
<1>4. \A slot \in slots : slot[1] \in P!Categories /\ slot[2] \in Kinds
  BY <1>2, SlotsTyped
<1>5. S!Slots = P!Slots /\ S!Categories = P!Categories
  BY TablesAgree
<1>6. S!QueryRenders(platform, args.query, args.parameter,
                     [category \in S!Categories |-> S!Range(q.inventory[category])])
  <2> DEFINE enrolled == [category \in S!Categories |-> S!Range(q.inventory[category])]
  <2>1. \A category \in P!Categories : enrolled[category] = P!Range(q.inventory[category])
    BY <1>5, RangesAgree
  <2>2. \A slot \in slots, v \in args.parameter : S!SlotText(slot[2], v) # {}
    BY <1>3, <1>4, KindsAgree
  <2>3. S!Cardinality(args.parameter) = S!Cardinality(slots)
    BY <1>3, CardinalitiesAgree
  <2> HIDE DEF enrolled
  <2>4. \A slot \in slots, v \in args.parameter : v \in enrolled[slot[1]]
    BY <1>3, <1>4, <2>1
  <2> HIDE DEF slots, platform
  <2>5. S!QueryRenders(platform, args.query, args.parameter, enrolled)
    BY <1>5, <2>2, <2>3, <2>4 DEF S!QueryRenders, slots
  <2> QED
    BY <2>5 DEF enrolled
<1> QED
  BY <1>1, <1>6, RangesAgree DEF S!AdmitsQuery

\* What _authorize_tool lets through, and _auth_context has an envelope for, the server
\* admits, but for plain FTP nobody acknowledged.
LEMMA AuthorizedIsAdmitted ==
  ASSUME NEW tool, NEW args, NEW alias, NEW r, NEW q, NEW lines, NEW auth,
         Envelope(auth, alias, r, q, lines, tool), Enrolled(r, q), GoodArguments(tool, args),
         P!Authorized(tool, args, r, q), P!EnvelopeError(r, lines, tool) = "none"
  PROVE  \/ S!Admits(tool, auth, args)
         \/ tool = "ftp_list" /\ args.tls = "no" /\ args.acknowledged = "no"
<1> DEFINE e == q.egress
<1>1. /\ auth.host = r.host /\ auth.password = r.password /\ auth.platform = q.platform
      /\ auth.queries = q.queries /\ auth.inventory = q.inventory /\ auth.roots = q.roots
      /\ auth.egress = e /\ auth.community = IF tool = "snmp_get" THEN r.community ELSE "none"
  BY DEF Envelope
<1>2. /\ q.roots \in Seq(Paths) /\ e.tcp \in Seq(Int) /\ e.udp \in Seq(Int)
      /\ e.tcpRanges \in Seq(Int \X Int) /\ e.udpRanges \in Seq(Int \X Int)
  BY DEF Enrolled, TypedPolicy, Egresses
<1>3. AcceptedPolicy(q) /\ TypedPolicy(q) /\ P!RecordError(r) = "none" /\ r \in Records
  BY Zenon DEF Enrolled
<1>4. /\ tool \in P!DeviceTools
      /\ args.port \in Int /\ args.number \in Int /\ args.path \in Paths /\ args.name # "blank"
      /\ args.port = P!Absent \/ args.port \in P!Port
      /\ tool \in DOMAIN P!NumberBounds =>
           (args.number = P!Absent /\ tool # "snmp_get") \/ args.number \in P!NumberBounds[tool]
      /\ IsOffset(args.offset) /\ args.path.plain
      /\ args.tls \in P!Flags /\ args.acknowledged \in P!Flags
  BY Zenon DEF GoodArguments
<1>5. /\ P!Absent = S!Absent /\ P!MaxOffset = S!MaxOffset /\ P!Port = S!Port
  BY MaxPorts DEF P!Absent, S!Absent, P!MaxOffset, S!MaxOffset
<1>6. \A default \in Int : P!PortOr(args, default) \in Int
  BY <1>4 DEF P!PortOr
<1> HIDE DEF e
<1>7. ASSUME NEW port \in Int
      PROVE  /\ P!PortAllowed(port, e.tcp, e.tcpRanges) =>
                  port \in S!Port /\ S!AllowsTcp(auth, port)
             /\ P!PortAllowed(port, e.udp, e.udpRanges) =>
                  port \in S!Port /\ S!AllowsUdp(auth, port)
  BY <1>1, <1>2, PortsAdmitted DEF S!AllowsTcp, S!AllowsUdp
<1>8. P!PathInRoots(args.path, q.roots) => S!AdmitsPath(auth, args.path)
  BY <1>1, <1>2, <1>4, PathsAdmitted
<1>9. CASE tool = "ssh_read"
  <2>1. /\ q.platform # "null" /\ args.platform = q.platform
        /\ args.query \in P!Range(q.queries) /\ P!ParametersAllowed(args, q)
    BY <1>9, Zenon DEF P!Authorized
  <2>2. q.platform \in P!Platforms
    BY <2>1 DEF Enrolled
  <2>3. S!AdmitsQuery(auth, args)
    BY <1>1, <1>3, <2>1, <2>2, QueriesAdmitted
  <2>4. S!NumberOr(args, 16000) \in 1000..S!MaxBytes
    <3>1. P!NumberBounds["ssh_read"] = 1000..P!MaxBytes /\ "ssh_read" \in DOMAIN P!NumberBounds
      BY DEF P!NumberBounds
    <3>2. 16000 \in 1000..P!MaxBytes
      BY SMT DEF P!MaxBytes
    <3>3. P!MaxBytes = S!MaxBytes
      BY DEF P!MaxBytes, S!MaxBytes
    <3> QED
      BY <1>4, <1>5, <1>9, <3>1, <3>2, <3>3 DEF S!NumberOr
  <2>5. args.offset \in 0..S!MaxOffset
    BY <1>4, <1>5 DEF IsOffset
  <2>6. S!AdmitsSshRead(auth, args)
    BY <2>3, <2>4, <2>5 DEF S!AdmitsSshRead
  <2> QED
    BY <1>9, <2>6 DEF S!Admits
<1>10. CASE tool = "dns_probe"
  BY <1>1, <1>10 DEF P!Authorized, S!Admits, S!AdmitsDnsProbe, e
<1>11. CASE tool = "icmp_probe"
  <2>1. S!NumberOr(args, 4) \in 1..8
    BY <1>4, <1>5, <1>11, SMT DEF P!NumberBounds, S!NumberOr
  <2>2. auth.egress.icmp = "yes"
    BY <1>1, <1>11 DEF P!Authorized, e
  <2> QED
    BY <1>11, <2>1, <2>2 DEF S!Admits, S!AdmitsIcmpProbe
<1>12. CASE tool = "tcp_probe"
  <2>1. S!NumberOr(args, 50) \in 2..150
    BY <1>4, <1>5, <1>12, SMT DEF P!NumberBounds, S!NumberOr
  <2>2. P!PortAllowed(args.port, e.tcp, e.tcpRanges)
    BY <1>12, Zenon DEF P!Authorized, e
  <2> QED
    BY <1>4, <1>7, <1>12, <2>1, <2>2 DEF S!Admits, S!AdmitsTcpProbe
<1>13. CASE tool = "tls_probe"
  <2>1. /\ P!PortAllowed(P!PortOr(args, 443), e.tcp, e.tcpRanges)
        /\ args.name \in {"null", r.host} \cup P!Range(e.names)
    BY <1>13, Zenon DEF P!Authorized, e
  <2>2. P!PortOr(args, 443) = S!PortOf("tls_probe", args)
    BY <1>5 DEF P!PortOr, S!PortOf, S!DefaultPort
  <2>3. S!AdmitsServerName(auth, args.name)
    <3>1. P!ValidEgress(e)
      BY <1>3, Zenon DEF AcceptedPolicy, e
    <3>2. P!Range(e.names) \subseteq Name
      BY <3>1, Zenon DEF P!ValidEgress, P!SafeDnsName
    <3>3. args.name \in P!Range(e.names) => S!NormalizeDnsName(args.name) = {args.name}
      BY <3>2, DnsNames
    <3> QED
      BY <1>1, <2>1, <3>3, RangesAgree DEF S!AdmitsServerName
  <2>4. S!PortOf("tls_probe", args) \in S!Port /\ S!AllowsTcp(auth, S!PortOf("tls_probe", args))
    BY <1>6, <1>7, <2>1, <2>2
  <2> QED
    BY <1>4, <1>13, <2>3, <2>4 DEF S!Admits, S!AdmitsTlsProbe
<1>14. CASE tool = "snmp_get"
  <2>1. P!PortAllowed(P!PortOr(args, 161), e.udp, e.udpRanges)
    BY <1>14, Zenon DEF P!Authorized, e
  <2>2. P!PortOr(args, 161) = S!PortOf("snmp_get", args)
    BY <1>5 DEF P!PortOr, S!PortOf, S!DefaultPort
  <2>3. args.number \in 1..20
    BY <1>4, <1>14 DEF P!NumberBounds
  <2>4. auth.community \notin {"none", auth.password}
    <3>1. r.community # "none"
      BY <1>14 DEF P!EnvelopeError
    <3>2. r.community = "none" \/ r.community # r.password
      BY <1>3 DEF P!RecordError
    <3> QED
      BY <1>1, <1>14, <3>1, <3>2
  <2>5. S!PortOf("snmp_get", args) \in S!Port /\ S!AllowsUdp(auth, S!PortOf("snmp_get", args))
    BY <1>6, <1>7, <2>1, <2>2
  <2> QED
    BY <1>14, <2>3, <2>4, <2>5 DEF S!Admits, S!AdmitsSnmpGet
<1>15. CASE tool = "sftp_stat"
  BY <1>8, <1>15 DEF P!Authorized, S!Admits, S!AdmitsSftpStat
<1>16. CASE tool = "ftp_list"
  <2>1. /\ P!PortAllowed(P!PortOr(args, 21), e.tcp, e.tcpRanges)
        /\ e.tcpRanges # <<>> /\ P!PathInRoots(args.path, q.roots)
    BY <1>16, Zenon DEF P!Authorized, e
  <2>2. P!PortOr(args, 21) = S!PortOf("ftp_list", args)
    BY <1>5 DEF P!PortOr, S!PortOf, S!DefaultPort
  <2>3. S!PortOf("ftp_list", args) \in S!Port /\ S!AllowsTcp(auth, S!PortOf("ftp_list", args))
    BY <1>6, <1>7, <2>1, <2>2
  <2>4. {args.tls, args.acknowledged} \subseteq S!Flags
    BY <1>4, FlagsAgree
  <2>5. args.tls = "yes" \/ args.acknowledged = "yes" => S!AdmitsFtpList(auth, args)
    BY <1>1, <1>8, <2>1, <2>3, <2>4 DEF S!AdmitsFtpList
  <2>6. args.tls \in {"yes", "no"} /\ args.acknowledged \in {"yes", "no"}
    BY <1>4 DEF P!Flags
  <2> QED
    BY <1>16, <2>5, <2>6 DEF S!Admits
<1>17. \/ tool \in {"ssh_read", "dns_probe", "icmp_probe", "tcp_probe"}
       \/ tool \in {"tls_probe", "snmp_get", "sftp_stat", "ftp_list"}
  BY <1>4 DEF P!DeviceTools
<1> QED
  BY <1>9, <1>10, <1>11, <1>12, <1>13, <1>14, <1>15, <1>16, <1>17

\* A call that the two gates let through.
Passed(tool, args, alias, r, q, lines, auth) ==
  /\ Envelope(auth, alias, r, q, lines, tool) /\ Enrolled(r, q) /\ GoodArguments(tool, args)
  /\ P!Authorized(tool, args, r, q) /\ S!Admits(tool, auth, args)

\* What is known of a call both gates let through.
LEMMA PassedTypes ==
  ASSUME NEW tool, NEW args, NEW alias, NEW r, NEW q, NEW lines, NEW auth,
         Passed(tool, args, alias, r, q, lines, auth)
  PROVE  /\ auth.host = r.host /\ auth.port = r.port /\ auth.password = r.password
         /\ auth.egress = q.egress /\ r.port \in S!Port
         /\ tool \in P!DeviceTools
         /\ args.tls \in {"yes", "no"} /\ args.acknowledged \in {"yes", "no"}
         /\ args.port \in Int /\ S!PortOf(tool, args) \in Int
         /\ P!Range(q.egress.addresses) \subseteq Address
         /\ \A port \in Int : /\ S!AllowsTcp(auth, port) <=> TcpInScope(port, q)
                              /\ S!AllowsUdp(auth, port) <=> UdpInScope(port, q)
                              /\ S!InSome(port, auth.egress.tcpRanges) => TcpInScope(port, q)
<1>1. Enrolled(r, q) /\ GoodArguments(tool, args) /\ Envelope(auth, alias, r, q, lines, tool)
  BY Zenon DEF Passed
<1>2. /\ auth.host = r.host /\ auth.port = r.port /\ auth.password = r.password
      /\ auth.egress = q.egress
  BY <1>1 DEF Envelope
<1>3. /\ q.egress.tcp \in Seq(Int) /\ q.egress.udp \in Seq(Int)
      /\ q.egress.tcpRanges \in Seq(Int \X Int) /\ q.egress.udpRanges \in Seq(Int \X Int)
  BY <1>1 DEF Enrolled, TypedPolicy, Egresses
<1>4. /\ tool \in P!DeviceTools /\ args.port \in Int
      /\ args.tls \in P!Flags /\ args.acknowledged \in P!Flags
  BY <1>1, Zenon DEF GoodArguments
<1>5. args.tls \in {"yes", "no"} /\ args.acknowledged \in {"yes", "no"}
  BY <1>4 DEF P!Flags
<1>6. S!PortOf(tool, args) \in Int
  BY <1>4 DEF S!PortOf, S!DefaultPort
<1>7. P!Range(q.egress.addresses) \subseteq Address
  <2>1. AcceptedPolicy(q)
    BY <1>1, Zenon DEF Enrolled
  <2> QED
    BY <2>1, PolicyTyped
<1>8. ASSUME NEW port \in Int
      PROVE  /\ S!AllowsTcp(auth, port) <=> TcpInScope(port, q)
             /\ S!AllowsUdp(auth, port) <=> UdpInScope(port, q)
             /\ S!InSome(port, auth.egress.tcpRanges) => TcpInScope(port, q)
  BY <1>2, <1>3, ScopesOfPorts DEF S!AllowsTcp, S!AllowsUdp, TcpInScope, UdpInScope
<1>9. r.port \in S!Port
  <2>1. P!RecordError(r) = "none"
    BY <1>1, Zenon DEF Enrolled
  <2>2. r.port \in P!Port
    BY <2>1 DEF P!RecordError
  <2>3. P!Port = S!Port
    BY MaxPorts
  <2> QED
    BY <2>2, <2>3
<1> QED
  BY <1>2, <1>4, <1>5, <1>6, <1>7, <1>8, <1>9

\* It is within the scope the guide requires of its tool.
LEMMA PassedInScope ==
  ASSUME NEW tool, NEW args, NEW alias, NEW r, NEW q, NEW lines, NEW auth,
         Passed(tool, args, alias, r, q, lines, auth)
  PROVE  RequiredScope(tool, args, r, q)
<1>1. /\ Enrolled(r, q) /\ GoodArguments(tool, args) /\ Envelope(auth, alias, r, q, lines, tool)
      /\ P!Authorized(tool, args, r, q) /\ S!Admits(tool, auth, args)
  BY Zenon DEF Passed
<1>2. /\ auth.host = r.host /\ auth.password = r.password /\ auth.egress = q.egress
      /\ tool \in P!DeviceTools /\ args.port \in Int /\ S!PortOf(tool, args) \in Int
      /\ \A port \in Int : /\ S!AllowsTcp(auth, port) <=> TcpInScope(port, q)
                           /\ S!AllowsUdp(auth, port) <=> UdpInScope(port, q)
  BY PassedTypes
<1>3. \A path : P!PathInRoots(path, q.roots) => q.roots # <<>>
  <2>1. q.roots = <<>> => P!Range(q.roots) = {}
    BY RangesAgree
  <2> QED
    BY <2>1 DEF P!PathInRoots
<1>4. CASE tool = "dns_probe"
  BY <1>1, <1>4 DEF P!Authorized, RequiredScope
<1>5. CASE tool = "icmp_probe"
  BY <1>1, <1>5 DEF P!Authorized, RequiredScope
<1>6. CASE tool = "tcp_probe"
  BY <1>1, <1>2, <1>6 DEF S!Admits, S!AdmitsTcpProbe, RequiredScope
<1>7. CASE tool = "tls_probe"
  <2>1. S!AdmitsTlsProbe(auth, args) /\ args.name \in {"null", r.host} \cup P!Range(q.egress.names)
    BY <1>1, <1>7 DEF S!Admits, P!Authorized
  <2>2. TcpInScope(S!PortOf(tool, args), q)
    BY <1>2, <1>7, <2>1 DEF S!AdmitsTlsProbe
  <2> QED
    BY <1>7, <2>1, <2>2, ListedAgree DEF RequiredScope
<1>8. CASE tool = "ssh_read"
  <2>1. /\ args.platform = q.platform /\ q.platform # "null"
        /\ args.query \in P!Range(q.queries) /\ P!ParametersAllowed(args, q)
    BY <1>1, <1>8 DEF P!Authorized
  <2>2. IsFiniteSet(args.parameter)
    BY <1>1, Zenon DEF GoodArguments
  <2> DEFINE slots == P!Slots[args.platform][args.query]
  <2>3. \A slot \in slots : slot[1] \in P!Categories
    <3>1. q.platform \in P!Platforms /\ AcceptedPolicy(q) /\ q.queries \in Seq(STRING)
      BY <1>1, <2>1 DEF Enrolled, TypedPolicy
    <3>2. P!ValidQueries(q.platform, q.queries)
      BY <3>1, Zenon DEF AcceptedPolicy
    <3>3. P!Range(q.queries) \subseteq P!Queries(q.platform)
      BY <2>1, <3>1, <3>2, PlatformNames, QueriesAgree
    <3> QED
      BY <2>1, <3>1, <3>3, SlotsTyped
  <2>4. ASSUME NEW v \in args.parameter
        PROVE  \E category \in P!Categories : Listed(v, q.inventory[category])
    <3>1. Cardinality(args.parameter) # 0
      BY <2>2, FS_EmptySet
    <3>2. Cardinality(slots) = Cardinality(args.parameter)
      BY <2>1, CardinalitiesAgree DEF P!ParametersAllowed
    <3>3. slots # {}
      BY <3>1, <3>2, FS_EmptySet
    <3>4. \A slot \in slots : v \in P!Range(q.inventory[slot[1]])
      BY <2>1 DEF P!ParametersAllowed
    <3> HIDE DEF slots
    <3> QED
      BY <2>3, <3>3, <3>4, ListedAgree
  <2> QED
    BY <1>8, <2>1, <2>4, ListedAgree DEF RequiredScope
<1>9. CASE tool = "sftp_stat"
  BY <1>1, <1>3, <1>9 DEF P!Authorized, RequiredScope
<1>10. CASE tool = "snmp_get"
  <2>1. S!AdmitsSnmpGet(auth, args)
    BY <1>1, <1>10 DEF S!Admits
  <2>2. UdpInScope(S!PortOf(tool, args), q)
    BY <1>2, <1>10, <2>1 DEF S!AdmitsSnmpGet
  <2>3. auth.community = r.community /\ auth.password = r.password
    BY <1>1, <1>10 DEF Envelope
  <2> QED
    BY <1>10, <2>1, <2>2, <2>3 DEF S!AdmitsSnmpGet, RequiredScope
<1>11. CASE tool = "ftp_list"
  <2>1. S!AdmitsFtpList(auth, args) /\ P!PathInRoots(args.path, q.roots)
    BY <1>1, <1>11 DEF S!Admits, P!Authorized
  <2>2. TcpInScope(S!PortOf(tool, args), q)
    BY <1>2, <1>11, <2>1 DEF S!AdmitsFtpList
  <2> QED
    BY <1>2, <1>3, <1>11, <2>1, <2>2 DEF S!AdmitsFtpList, RequiredScope
<1>12. \/ tool \in {"ssh_read", "dns_probe", "icmp_probe", "tcp_probe"}
       \/ tool \in {"tls_probe", "snmp_get", "sftp_stat", "ftp_list"}
  BY <1>2 DEF P!DeviceTools
<1> QED
  BY <1>4, <1>5, <1>6, <1>7, <1>8, <1>9, <1>10, <1>11, <1>12

\* What it opens is in its scope.
LEMMA OpensInScope ==
  ASSUME NEW tool, NEW args, NEW alias, NEW r, NEW q, NEW lines, NEW auth,
         Passed(tool, args, alias, r, q, lines, auth), tool # "dns_probe"
  PROVE  LET to == S!Opens(tool, auth, args) IN
         \/ to[1] = "icmp" /\ to[2] = 0 /\ q.egress.icmp = "yes"
         \/ to[1] = "udp" /\ to[2] \in S!Port /\ UdpInScope(to[2], q)
         \/ /\ to[1] = "tcp" /\ to[2] \in S!Port
            /\ IF tool \in {"ssh_read", "sftp_stat"} THEN to[2] = r.port ELSE TcpInScope(to[2], q)
<1>1. /\ auth.host = r.host /\ auth.port = r.port /\ auth.egress = q.egress /\ r.port \in S!Port
      /\ tool \in P!DeviceTools /\ args.port \in Int /\ S!PortOf(tool, args) \in Int
      /\ \A port \in Int : /\ S!AllowsTcp(auth, port) <=> TcpInScope(port, q)
                           /\ S!AllowsUdp(auth, port) <=> UdpInScope(port, q)
  BY PassedTypes
<1>2. S!Admits(tool, auth, args)
  BY Zenon DEF Passed
<1>3. CASE tool \in {"ssh_read", "sftp_stat"}
  BY <1>1, <1>3 DEF S!Opens
<1>4. CASE tool = "icmp_probe"
  BY <1>1, <1>2, <1>4 DEF S!Opens, S!Admits, S!AdmitsIcmpProbe
<1>5. CASE tool = "tcp_probe"
  <2>1. args.port \in S!Port /\ S!AllowsTcp(auth, args.port)
    BY <1>2, <1>5 DEF S!Admits, S!AdmitsTcpProbe
  <2>2. S!PortOf(tool, args) = args.port
    BY <1>5 DEF S!PortOf, S!DefaultPort
  <2> QED
    BY <1>1, <1>5, <2>1, <2>2 DEF S!Opens
<1>6. CASE tool = "tls_probe"
  <2>1. S!PortOf(tool, args) \in S!Port /\ S!AllowsTcp(auth, S!PortOf(tool, args))
    BY <1>2, <1>6 DEF S!Admits, S!AdmitsTlsProbe
  <2> QED
    BY <1>1, <1>6, <2>1 DEF S!Opens
<1>7. CASE tool = "ftp_list"
  <2>1. S!PortOf(tool, args) \in S!Port /\ S!AllowsTcp(auth, S!PortOf(tool, args))
    BY <1>2, <1>7 DEF S!Admits, S!AdmitsFtpList
  <2> QED
    BY <1>1, <1>7, <2>1 DEF S!Opens
<1>8. CASE tool = "snmp_get"
  <2>1. S!PortOf(tool, args) \in S!Port /\ S!AllowsUdp(auth, S!PortOf(tool, args))
    BY <1>2, <1>8 DEF S!Admits, S!AdmitsSnmpGet
  <2> QED
    BY <1>1, <1>8, <2>1 DEF S!Opens
<1>9. \/ tool \in {"ssh_read", "icmp_probe", "tcp_probe", "sftp_stat"}
      \/ tool \in {"tls_probe", "snmp_get", "ftp_list"}
  BY <1>1 DEF P!DeviceTools
<1> QED
  BY <1>3, <1>4, <1>5, <1>6, <1>7, <1>8, <1>9

\* The keys of an envelope are of lines that name the target and its port.
IsKnown(lines) == \A line \in lines : \A token \in line.tokens : IsToken(token)

LEMMA KeysNameTheTarget ==
  ASSUME NEW r, r.host \in Address \cup Name, NEW lines, IsKnown(lines)
  PROVE  \A line \in P!SelectKnownHosts(lines, r) : \A text \in line.names :
           /\ P!Fold(text[1]) = r.host
           /\ r.port = 22 \/ (Len(text) = 2 /\ text[2] = r.port)
<1> SUFFICES ASSUME NEW line \in P!SelectKnownHosts(lines, r), NEW text \in line.names
             PROVE  /\ P!Fold(text[1]) = r.host
                    /\ r.port = 22 \/ (Len(text) = 2 /\ text[2] = r.port)
  OBVIOUS
<1> DEFINE candidates == P!KnownHostCandidates(r)
           matching(l) == {token \in l.tokens : P!TokenMatches(token, candidates)}
<1>1. PICK l \in lines : line = [names |-> {token.text : token \in matching(l)}, key |-> l.key,
                               marker |-> l.marker]
  BY DEF P!SelectKnownHosts
<1>2. PICK token \in l.tokens : text = token.text /\ P!TokenMatches(token, candidates)
  BY <1>1
<1>3. IsToken(token)
  BY <1>2 DEF IsKnown
<1>4. P!Fold(r.host) = r.host
  BY NamesAssumption
<1>5. \A c \in candidates : \/ c = <<r.host>> /\ r.port = 22
                            \/ c = <<r.host, r.port>>
  BY DEF P!KnownHostCandidates
<1> HIDE DEF candidates
<1>6. CASE token.style = "hashed"
  <2>1. text \in candidates
    BY <1>2, <1>6 DEF P!TokenMatches
  <2>2. CASE text = <<r.host>> /\ r.port = 22
    BY <1>4, <2>2
  <2>3. CASE text = <<r.host, r.port>>
    BY <1>4, <2>3
  <2> QED
    BY <1>5, <2>1, <2>2, <2>3
<1>7. CASE token.style = "plain"
  <2>1. PICK c \in candidates : P!FoldToken(text) = P!FoldToken(c)
    BY <1>2, <1>7 DEF P!TokenMatches
  <2>2. P!FoldToken(c)[1] = r.host
    <3>1. CASE c = <<r.host>>
      BY <1>4, <3>1 DEF P!FoldToken
    <3>2. CASE c = <<r.host, r.port>>
      BY <1>4, <3>2 DEF P!FoldToken
    <3> QED
      BY <1>5, <3>1, <3>2
  <2>3. r.port = 22 \/ (DOMAIN P!FoldToken(c) = 1..2 /\ P!FoldToken(c)[2] = r.port)
    <3>1. CASE c = <<r.host, r.port>>
      BY <3>1 DEF P!FoldToken
    <3> QED
      BY <1>5, <3>1
  <2>4. CASE text = <<text[1]>>
    <3>1. P!FoldToken(text)[1] = P!Fold(text[1]) /\ DOMAIN P!FoldToken(text) = 1..1
      BY <2>4 DEF P!FoldToken
    <3> QED
      BY <2>1, <2>2, <2>3, <3>1
  <2>5. CASE text = <<text[1], text[2]>>
    <3>1. P!FoldToken(text)[1] = P!Fold(text[1]) /\ P!FoldToken(text)[2] = text[2]
      BY <2>5 DEF P!FoldToken
    <3>2. Len(text) = 2
      BY <2>5
    <3> QED
      BY <2>1, <2>2, <2>3, <3>1, <3>2
  <2> QED
    BY <1>2, <1>3, <2>4, <2>5 DEF IsToken
<1>8. token.style # "wildcard"
  BY <1>2 DEF P!TokenMatches
<1> QED
  BY <1>3, <1>6, <1>7, <1>8 DEF IsToken

-----------------------------------------------------------------------------
(* The invariant.  What a stage of a call relies on was established by the *)
(* stages before it, over files that may have been edited since: the       *)
(* arguments, the record, the policy that fits it and authorizes the call, *)
(* the envelope made of the three with the lines of one known_hosts file,  *)
(* and that the server admits it.  While a connection is open these still  *)
(* hold of the call, also after its answer.                                *)

CallFields == {"stage", "tool", "args", "record", "entry", "auth", "control", "answer"}
AnyFiles   == FirstFiles \cup Files

\* Both gates let the call through, with the keys of some known_hosts file.
PassedBy(c) ==
  \E f \in AnyFiles : Passed(c.tool, c.args, c.args.target, c.record, c.entry, f.known, c.auth)

\* A connection to the address the call chose, at a port in its scope, or to a resolver.
ConnectionFits(x, c) ==
  \/ x.protocol = "udp" /\ x.port = 53 /\ x.to \in Address /\ S!NeedsDns(c.auth)
  \/ /\ x.to = c.control /\ x.to \in P!Range(c.entry.egress.addresses)
     /\ \/ x.protocol = "icmp" /\ x.port = 0 /\ c.entry.egress.icmp = "yes"
        \/ x.protocol = "udp" /\ x.port \in S!Port /\ UdpInScope(x.port, c.entry)
        \/ /\ x.protocol = "tcp" /\ x.port \in S!Port
           /\ IF c.tool \in {"ssh_read", "sftp_stat"} THEN x.port = c.record.port
              ELSE TcpInScope(x.port, c.entry)

CallInv(c, connections, peers) ==
  /\ DOMAIN c = CallFields
  /\ c.stage \in Stages /\ c.answer \in Results /\ c.control \in Address \cup {"none"}
  /\ c.stage \in {"vault", "policy", "authorized", "forwarded"} => GoodArguments(c.tool, c.args)
  /\ c.stage = "policy" => c.record \in Records /\ P!RecordError(c.record) = "none"
  /\ c.stage \in {"authorized", "forwarded"} =>
       Enrolled(c.record, c.entry) /\ P!Authorized(c.tool, c.args, c.record, c.entry)
  /\ c.stage = "forwarded" =>
       \E f \in AnyFiles :
         /\ P!EnvelopeError(c.record, f.known, c.tool) = "none"
         /\ c.auth = P!AuthContext(c.args.target, c.record, c.entry, f.known, c.tool)
  /\ c.stage \in {"admitted", "resolved", "passive"} \/ connections # {} \/ peers # {} =>
       PassedBy(c)
  /\ connections # {} \/ peers # {} => c.stage \in {"resolved", "passive", "answered"}
  /\ c.stage \in {"resolved", "passive"} =>
       c.tool # "dns_probe" /\ c.control \in P!Range(c.entry.egress.addresses)
  /\ c.stage = "passive" => c.tool = "ftp_list"
  /\ \A x \in connections : ConnectionFits(x, c)
  /\ \A peer \in peers : /\ peer \in Peers \X (Pins \ {"invalid"})
                         /\ S!LogsIn(c.tool, c.auth, c.args, peer[2], peer[1])

\* The chain is the one of the files it was generated from.
ChainInv(s, rules) ==
  /\ s = {} => rules = {}
  /\ \A f \in s : /\ f \in AnyFiles /\ s = {f}
                  /\ G!ManifestAccepted(f.vault, f.policy, f.global)
                  /\ rules = G!Bundle(f.vault, f.policy, f.global).ruleset

Inv ==
  /\ files \in AnyFiles /\ edits \in 0..MaxEdits
  /\ ChainInv(source, chain)
  /\ CallInv(call, opened, told)

LEMMA FilesKnown == \A f \in AnyFiles : IsFiles(f) /\ IsKnown(f.known)
  BY FilesAssumption DEF AnyFiles, IsFiles, IsKnown

\* Whether both gates let a call through depends on what the call carries only.
LEMMA PassedKept ==
  ASSUME NEW c, NEW d, d.tool = c.tool, d.args = c.args, d.record = c.record,
         d.entry = c.entry, d.auth = c.auth
  PROVE  /\ PassedBy(c) => PassedBy(d)
         /\ \A x : c.control = d.control /\ ConnectionFits(x, c) => ConnectionFits(x, d)
  BY Zenon DEF PassedBy, ConnectionFits

\* An answer keeps the invariant, with connections and peers that fit the call.
LEMMA AnswersFit ==
  ASSUME NEW c, DOMAIN c = CallFields, c.control \in Address \cup {"none"},
         NEW result \in Results, NEW connections, NEW peers,
         connections # {} \/ peers # {} => PassedBy(c),
         \A x \in connections : ConnectionFits(x, c),
         \A peer \in peers : /\ peer \in Peers \X (Pins \ {"invalid"})
                             /\ S!LogsIn(c.tool, c.auth, c.args, peer[2], peer[1])
  PROVE  CallInv([c EXCEPT !.stage = "answered", !.answer = result], connections, peers)
<1> DEFINE d == [c EXCEPT !.stage = "answered", !.answer = result]
<1>1. /\ DOMAIN d = CallFields /\ d.stage = "answered" /\ d.answer = result
      /\ d.tool = c.tool /\ d.args = c.args /\ d.record = c.record /\ d.entry = c.entry
      /\ d.auth = c.auth /\ d.control = c.control
  BY DEF CallFields
<1> HIDE DEF d
<1>2. /\ PassedBy(c) => PassedBy(d)
      /\ \A x \in connections : ConnectionFits(x, d)
  BY <1>1, PassedKept
<1>3. d.stage \in Stages /\ d.answer \in Results /\ d.control \in Address \cup {"none"}
  BY <1>1 DEF Stages
<1>4. \A peer \in peers : /\ peer \in Peers \X (Pins \ {"invalid"})
                          /\ S!LogsIn(d.tool, d.auth, d.args, peer[2], peer[1])
  BY <1>1
<1>5. CallInv(d, connections, peers)
  BY <1>1, <1>2, <1>3, <1>4 DEF CallInv
<1> QED
  BY <1>5 DEF d

\* The start, and one lemma for each action.
LEMMA InitInv == Init => Inv
<1> SUFFICES ASSUME Init PROVE Inv
  OBVIOUS
<1>1. files \in AnyFiles /\ edits \in 0..MaxEdits
  BY LimitsAssumption DEF Init, AnyFiles
<1>2. ChainInv(source, chain)
  BY DEF Init, ChainInv
<1>3. CallInv(Idle, {}, {})
  <2>1. /\ DOMAIN Idle = CallFields /\ Idle.stage = "idle" /\ Idle.answer = "none"
        /\ Idle.control = "none"
    BY DEF Idle, CallFields
  <2>2. Idle.stage \in Stages /\ Idle.answer \in Results
    BY <2>1 DEF Stages, Results
  <2> QED
    BY <2>1, <2>2 DEF CallInv
<1> QED
  BY <1>1, <1>2, <1>3 DEF Init, Inv

\* Until a call opens a connection there is none, and nobody was told.
LEMMA NothingOpened ==
  ASSUME Inv, call.stage \in {"idle", "vault", "policy", "authorized", "forwarded", "admitted"}
  PROVE  opened = {} /\ told = {}
  BY DEF Inv, CallInv

\* An answer while nothing is open.
LEMMA RefusalKeeps ==
  ASSUME Inv, call.stage \in {"idle", "vault", "policy", "authorized", "forwarded", "admitted"},
         NEW result \in Results, Answer(result),
         UNCHANGED <<files, edits, chain, source, opened, told>>
  PROVE  Inv'
<1>1. opened = {} /\ told = {}
  BY NothingOpened
<1>2. CallInv(call', {}, {})
  <2>1. DOMAIN call = CallFields /\ call.control \in Address \cup {"none"}
    BY DEF Inv, CallInv
  <2> QED
    BY <2>1, AnswersFit DEF Answer
<1> QED
  BY <1>1, <1>2 DEF Inv

LEMMA EditKeeps == ASSUME Inv, Edit PROVE Inv'
<1>1. files' \in AnyFiles /\ edits' \in 0..MaxEdits
  BY LimitsAssumption DEF Edit, Inv, AnyFiles
<1> QED
  BY <1>1 DEF Inv, Edit

LEMMA InstallKeeps == ASSUME Inv, Install PROVE Inv'
<1>1. ChainInv(source', chain')
  BY DEF Install, Inv, ChainInv
<1> QED
  BY <1>1 DEF Inv, Install

LEMMA RequestKeeps == ASSUME Inv, Request PROVE Inv'
<1>1. PICK c \in Calls :
        call' = IF P!ValidArguments(c[1], c[2])
                THEN [Idle EXCEPT !.stage = "vault", !.tool = c[1],
                                  !.args = P!NormalArguments(c[1], c[2])]
                ELSE [Idle EXCEPT !.stage = "answered", !.answer = "invalid_params"]
  BY Zenon DEF Request
<1>2. opened = {} /\ told = {}
  BY NothingOpened DEF Request
<1>3. DOMAIN Idle = CallFields /\ Idle.control = "none" /\ Idle.answer = "none"
  BY DEF Idle, CallFields
<1>4. CASE P!ValidArguments(c[1], c[2])
  <2> DEFINE args == P!NormalArguments(c[1], c[2])
  <2>1. GoodArguments(c[1], args)
    BY <1>4, CallsAssumption, ArgumentsNormalized
  <2> HIDE DEF args
  <2>2. call' = [Idle EXCEPT !.stage = "vault", !.tool = c[1], !.args = args]
    BY <1>1, <1>4 DEF args
  <2>3. /\ DOMAIN call' = CallFields /\ call'.stage = "vault" /\ call'.tool = c[1]
        /\ call'.args = args /\ call'.control = "none" /\ call'.answer = "none"
    BY <1>3, <2>2 DEF CallFields
  <2>4. call'.stage \in Stages /\ call'.answer \in Results
    BY <2>3 DEF Stages, Results
  <2>5. CallInv(call', {}, {})
    BY <2>1, <2>3, <2>4 DEF CallInv
  <2> QED
    BY <1>2, <2>5 DEF Inv, Request
<1>5. CASE ~P!ValidArguments(c[1], c[2])
  <2>1. "invalid_params" \in Results
    BY DEF Results
  <2>2. CallInv(call', {}, {})
    BY <1>1, <1>3, <1>5, <2>1, AnswersFit
  <2> QED
    BY <1>2, <2>2 DEF Inv, Request
<1> QED
  BY <1>4, <1>5

LEMMA LoadRecordKeeps == ASSUME Inv, LoadRecord PROVE Inv'
<1> DEFINE target == call.args.target
           record == files.vault[target]
<1>1. call.stage = "vault" /\ UNCHANGED <<files, edits, chain, source, opened, told>>
  BY DEF LoadRecord
<1>2. opened = {} /\ told = {} /\ DOMAIN call = CallFields /\ GoodArguments(call.tool, call.args)
      /\ call.control \in Address \cup {"none"} /\ call.answer \in Results
  BY <1>1, NothingOpened DEF Inv, CallInv
<1>3. CASE target \notin DOMAIN files.vault
  <2>1. "unknown_alias" \in Results
    BY DEF Results
  <2> QED
    BY <1>1, <1>3, <2>1, RefusalKeeps DEF LoadRecord
<1>4. CASE target \in DOMAIN files.vault /\ P!RecordError(record) # "none"
  <2>1. P!RecordError(record) \in Results
    BY <1>4 DEF P!RecordError, Results
  <2>2. Answer(P!RecordError(record))
    BY <1>4 DEF LoadRecord
  <2> QED
    BY <1>1, <2>1, <2>2, RefusalKeeps
<1>5. CASE target \in DOMAIN files.vault /\ P!RecordError(record) = "none"
  <2>1. record \in Records
    BY <1>5, FilesKnown DEF Inv, IsFiles
  <2>2. call' = [call EXCEPT !.stage = "policy", !.record = record]
    BY <1>5 DEF LoadRecord
  <2> HIDE DEF record
  <2>3. /\ DOMAIN call' = CallFields /\ call'.stage = "policy" /\ call'.tool = call.tool
        /\ call'.args = call.args /\ call'.control = call.control /\ call'.answer = call.answer
        /\ call'.record = record
    BY <1>2, <2>2 DEF CallFields
  <2>4. call'.stage \in Stages
    BY <2>3 DEF Stages
  <2>5. GoodArguments(call'.tool, call'.args)
    BY <1>2, <2>3
  <2>6. CallInv(call', {}, {})
    BY <1>2, <1>5, <2>1, <2>3, <2>4, <2>5 DEF CallInv
  <2> QED
    BY <1>1, <1>2, <2>6 DEF Inv
<1> QED
  BY <1>3, <1>4, <1>5

LEMMA LoadTargetPolicyKeeps == ASSUME Inv, LoadTargetPolicy PROVE Inv'
<1> DEFINE target == call.args.target
           entry  == files.policy[target]
           policy == P!NormalPolicy(entry)
<1>1. call.stage = "policy" /\ UNCHANGED <<files, edits, chain, source, opened, told>>
  BY DEF LoadTargetPolicy
<1>2. /\ opened = {} /\ told = {} /\ DOMAIN call = CallFields
      /\ GoodArguments(call.tool, call.args)
      /\ call.record \in Records /\ P!RecordError(call.record) = "none"
      /\ call.control \in Address \cup {"none"} /\ call.answer \in Results
  BY <1>1, NothingOpened DEF Inv, CallInv
<1>3. {"policy_rejected", "policy_scope"} \subseteq Results
  BY DEF Results
<1>4. CASE target \notin DOMAIN files.policy
  BY <1>1, <1>3, <1>4, RefusalKeeps DEF LoadTargetPolicy
<1>5. CASE target \in DOMAIN files.policy /\ P!PolicyError(entry) # "none"
  <2>1. P!PolicyError(entry) \in Results
    BY <1>5, PoliciesAccepted DEF Results
  <2>2. Answer(P!PolicyError(entry))
    BY <1>5 DEF LoadTargetPolicy
  <2> QED
    BY <1>1, <2>1, <2>2, RefusalKeeps
<1>6. CASE /\ target \in DOMAIN files.policy /\ P!PolicyError(entry) = "none"
           /\ P!BindingError(call.record, policy) # "none"
  <2>1. P!BindingError(call.record, policy) \in Results
    BY <1>6 DEF P!BindingError, Results
  <2>2. Answer(P!BindingError(call.record, policy))
    BY <1>6 DEF LoadTargetPolicy
  <2> QED
    BY <1>1, <2>1, <2>2, RefusalKeeps
<1>7. CASE /\ target \in DOMAIN files.policy /\ P!PolicyError(entry) = "none"
           /\ P!BindingError(call.record, policy) = "none"
  <2>1. entry \in Entries
    BY <1>7, FilesKnown DEF Inv, IsFiles
  <2>2. AcceptedPolicy(entry)
    BY <1>7, PoliciesAccepted
  <2>3. /\ TypedPolicy(policy) /\ AcceptedPolicy(policy)
        /\ policy.platform \in {"null"} \cup P!Platforms
    BY <2>1, <2>2, PolicyNormalized
  <2>4. LoadTargetPolicy =>
          IF ~P!Authorized(call.tool, call.args, call.record, policy)
          THEN Answer("policy_scope")
          ELSE call' = [call EXCEPT !.stage = "authorized", !.entry = policy]
    BY <1>7 DEF LoadTargetPolicy
  <2> HIDE DEF entry, policy
  <2>5. P!Range(policy.egress.addresses) \subseteq Address
    BY <2>3, PolicyTyped
  <2>6. HostFits(call.record.host, policy.egress)
    BY <1>2, <1>7, <2>5, BindingsAgree
  <2>7. Enrolled(call.record, policy)
    BY <1>2, <2>3, <2>6 DEF Enrolled
  <2>8. CASE ~P!Authorized(call.tool, call.args, call.record, policy)
    BY <1>1, <1>3, <2>4, <2>8, RefusalKeeps
  <2>9. CASE P!Authorized(call.tool, call.args, call.record, policy)
    <3>1. call' = [call EXCEPT !.stage = "authorized", !.entry = policy]
      BY <2>4, <2>9
    <3>2. /\ DOMAIN call' = CallFields /\ call'.stage = "authorized" /\ call'.tool = call.tool
          /\ call'.args = call.args /\ call'.record = call.record /\ call'.entry = policy
          /\ call'.control = call.control /\ call'.answer = call.answer
      BY <1>2, <3>1 DEF CallFields
    <3>3. call'.stage \in Stages
      BY <3>2 DEF Stages
    <3>4. GoodArguments(call'.tool, call'.args) /\ Enrolled(call'.record, call'.entry)
      BY <1>2, <2>7, <3>2
    <3>5. P!Authorized(call'.tool, call'.args, call'.record, call'.entry)
      BY <2>9, <3>2
    <3>6. CallInv(call', {}, {})
      BY <1>2, <3>2, <3>3, <3>4, <3>5 DEF CallInv
    <3> QED
      BY <1>1, <1>2, <3>6 DEF Inv
  <2> QED
    BY <2>8, <2>9
<1> QED
  BY <1>4, <1>5, <1>6, <1>7

LEMMA ForwardKeeps == ASSUME Inv, Forward PROVE Inv'
<1> DEFINE error == P!EnvelopeError(call.record, files.known, call.tool)
           env   == P!AuthContext(call.args.target, call.record, call.entry, files.known,
                                  call.tool)
<1>1. call.stage = "authorized" /\ UNCHANGED <<files, edits, chain, source, opened, told>>
  BY DEF Forward
<1>2. /\ opened = {} /\ told = {} /\ DOMAIN call = CallFields
      /\ GoodArguments(call.tool, call.args) /\ Enrolled(call.record, call.entry)
      /\ P!Authorized(call.tool, call.args, call.record, call.entry)
      /\ call.control \in Address \cup {"none"} /\ call.answer \in Results /\ files \in AnyFiles
  BY <1>1, NothingOpened DEF Inv, CallInv
<1>3. CASE error # "none"
  <2>1. error \in Results
    BY <1>3 DEF P!EnvelopeError, Results
  <2>2. Answer(error)
    BY <1>3 DEF Forward
  <2> QED
    BY <1>1, <2>1, <2>2, RefusalKeeps
<1>4. CASE error = "none"
  <2>1. call' = [call EXCEPT !.stage = "forwarded", !.auth = env]
    BY <1>4 DEF Forward
  <2> HIDE DEF env
  <2>2. /\ DOMAIN call' = CallFields /\ call'.stage = "forwarded" /\ call'.tool = call.tool
        /\ call'.args = call.args /\ call'.record = call.record /\ call'.entry = call.entry
        /\ call'.auth = env /\ call'.control = call.control /\ call'.answer = call.answer
    BY <1>2, <2>1 DEF CallFields
  <2>3. call'.stage \in Stages
    BY <2>2 DEF Stages
  <2>4. GoodArguments(call'.tool, call'.args) /\ Enrolled(call'.record, call'.entry)
    BY <1>2, <2>2
  <2>5. P!Authorized(call'.tool, call'.args, call'.record, call'.entry)
    BY <1>2, <2>2
  <2>6. \E f \in AnyFiles :
          /\ P!EnvelopeError(call'.record, f.known, call'.tool) = "none"
          /\ call'.auth = P!AuthContext(call'.args.target, call'.record, call'.entry, f.known,
                                        call'.tool)
    BY <1>2, <1>4, <2>2 DEF env
  <2>7. CallInv(call', {}, {})
    BY <1>2, <2>2, <2>3, <2>4, <2>5, <2>6 DEF CallInv
  <2> QED
    BY <1>1, <1>2, <2>7 DEF Inv
<1> QED
  BY <1>3, <1>4

\* What the proxy forwards, the server decodes to itself and admits, but for plain FTP.
LEMMA ForwardedIsDecoded ==
  ASSUME Inv, call.stage = "forwarded"
  PROVE  /\ S!Decode(call.args.target, call.auth) = {call.auth}
         /\ S!Admits(call.tool, call.auth, call.args) => PassedBy(call)
         /\ \/ S!Admits(call.tool, call.auth, call.args)
            \/ call.tool = "ftp_list" /\ call.args.tls = "no" /\ call.args.acknowledged = "no"
<1>1. /\ GoodArguments(call.tool, call.args) /\ Enrolled(call.record, call.entry)
      /\ P!Authorized(call.tool, call.args, call.record, call.entry)
  BY DEF Inv, CallInv
<1>2. PICK f \in AnyFiles :
        /\ P!EnvelopeError(call.record, f.known, call.tool) = "none"
        /\ call.auth = P!AuthContext(call.args.target, call.record, call.entry, f.known, call.tool)
  BY DEF Inv, CallInv
<1>3. Envelope(call.auth, call.args.target, call.record, call.entry, f.known, call.tool)
  BY <1>2, EnvelopeFields
<1>4. call.args.target # "blank"
  BY <1>1 DEF GoodArguments
<1>5. S!Decode(call.args.target, call.auth) = {call.auth}
  BY <1>1, <1>2, <1>4, DecodedIsSent
<1>6. S!Admits(call.tool, call.auth, call.args) => PassedBy(call)
  BY <1>1, <1>3, Zenon DEF Passed, PassedBy
<1>7. \/ S!Admits(call.tool, call.auth, call.args)
      \/ call.tool = "ftp_list" /\ call.args.tls = "no" /\ call.args.acknowledged = "no"
  BY <1>1, <1>2, <1>3, AuthorizedIsAdmitted
<1> QED
  BY <1>5, <1>6, <1>7

LEMMA ServeKeeps == ASSUME Inv, Serve PROVE Inv'
<1>1. call.stage = "forwarded" /\ UNCHANGED <<files, edits, chain, source, opened, told>>
  BY DEF Serve
<1>2. /\ opened = {} /\ told = {} /\ DOMAIN call = CallFields
      /\ call.control \in Address \cup {"none"} /\ call.answer \in Results
  BY <1>1, NothingOpened DEF Inv, CallInv
<1>3. S!Decode(call.args.target, call.auth) = {call.auth}
  BY <1>1, ForwardedIsDecoded
<1>4. CASE ~S!Admits(call.tool, call.auth, call.args)
  <2>1. Answer("refused") /\ "refused" \in Results
    BY <1>3, <1>4 DEF Serve, Results
  <2> QED
    BY <1>1, <2>1, RefusalKeeps
<1>5. CASE S!Admits(call.tool, call.auth, call.args)
  <2>1. call' = [call EXCEPT !.stage = "admitted", !.auth = call.auth]
    BY <1>3, <1>5 DEF Serve
  <2>2. /\ DOMAIN call' = CallFields /\ call'.stage = "admitted" /\ call'.tool = call.tool
        /\ call'.args = call.args /\ call'.record = call.record /\ call'.entry = call.entry
        /\ call'.auth = call.auth /\ call'.control = call.control
        /\ call'.answer = call.answer
    BY <1>2, <2>1 DEF CallFields
  <2>3. PassedBy(call)
    BY <1>1, <1>5, ForwardedIsDecoded
  <2>4. PassedBy(call')
    BY <2>2, <2>3, PassedKept
  <2>5. call'.stage \in Stages
    BY <2>2 DEF Stages
  <2>6. CallInv(call', {}, {})
    BY <1>2, <2>2, <2>4, <2>5 DEF CallInv
  <2> QED
    BY <1>1, <1>2, <2>6 DEF Inv
<1> QED
  BY <1>4, <1>5

LEMMA ResolveKeeps == ASSUME Inv, Resolve PROVE Inv'
<1>1. /\ call.stage = "admitted" /\ UNCHANGED <<files, edits, chain, source, told>>
      /\ opened' = IF S!NeedsDns(call.auth)
                   THEN {Connection(files.global.resolvers[i], "udp", 53) :
                           i \in DOMAIN files.global.resolvers}
                   ELSE {}
  BY DEF Resolve
<1>2. /\ told = {} /\ DOMAIN call = CallFields /\ PassedBy(call)
      /\ call.control \in Address \cup {"none"} /\ call.answer \in Results /\ files \in AnyFiles
  BY <1>1, NothingOpened DEF Inv, CallInv
<1>3. \A x \in opened' : ConnectionFits(x, call)
  <2>1. files.global.resolvers \in Seq(Address)
    <3>1. files.global \in Globals
      BY <1>2, FilesKnown DEF IsFiles
    <3> QED
      BY <3>1 DEF Globals
  <2> SUFFICES ASSUME NEW x \in opened' PROVE ConnectionFits(x, call)
    OBVIOUS
  <2>2. S!NeedsDns(call.auth)
    BY <1>1
  <2>3. PICK i \in DOMAIN files.global.resolvers :
          x = Connection(files.global.resolvers[i], "udp", 53)
    BY <1>1, <2>2
  <2>4. x.protocol = "udp" /\ x.port = 53 /\ x.to \in Address
    BY <2>1, <2>3 DEF Connection
  <2> QED
    BY <2>2, <2>4 DEF ConnectionFits
<1>4. P!Range(call.entry.egress.addresses) \subseteq Address
      /\ call.auth.egress = call.entry.egress
  BY <1>2, PassedTypes DEF PassedBy
<1>5. PICK answers \in Answers :
        LET addresses == S!ResolvesTo(call.auth, answers) IN
        IF addresses = {} THEN Answer("refused")
        ELSE IF call.tool = "dns_probe" THEN Answer("ok")
        ELSE \E to \in addresses : call' = [call EXCEPT !.stage = "resolved", !.control = to]
  BY Zenon DEF Resolve
<1>6. CASE \E result \in Results : Answer(result)
  <2>1. PICK result \in Results : Answer(result)
    BY <1>6
  <2>2. CallInv(call', opened', {})
    BY <1>2, <1>3, <2>1, AnswersFit DEF Answer
  <2> QED
    BY <1>1, <1>2, <2>2 DEF Inv
<1>7. CASE /\ call.tool # "dns_probe"
           /\ \E to \in S!ResolvesTo(call.auth, answers) :
                call' = [call EXCEPT !.stage = "resolved", !.control = to]
  <2>1. PICK to \in S!ResolvesTo(call.auth, answers) :
          call' = [call EXCEPT !.stage = "resolved", !.control = to]
    BY <1>7
  <2>2. to \in S!Range(call.auth.egress.addresses)
    BY DEF S!ResolvesTo
  <2>3. to \in P!Range(call.entry.egress.addresses)
    BY <1>4, <2>2, RangesAgree
  <2>4. /\ DOMAIN call' = CallFields /\ call'.stage = "resolved" /\ call'.tool = call.tool
        /\ call'.args = call.args /\ call'.record = call.record /\ call'.entry = call.entry
        /\ call'.auth = call.auth /\ call'.control = to /\ call'.answer = call.answer
    BY <1>2, <2>1 DEF CallFields
  <2>5. PassedBy(call')
    BY <1>2, <2>4, PassedKept
  <2>6. \A x \in opened' : ConnectionFits(x, call')
    <3> SUFFICES ASSUME NEW x \in opened' PROVE ConnectionFits(x, call')
      OBVIOUS
    <3>1. S!NeedsDns(call.auth)
      BY <1>1
    <3>2. PICK i \in DOMAIN files.global.resolvers :
            x = Connection(files.global.resolvers[i], "udp", 53)
      BY <1>1, <3>1
    <3>3. files.global.resolvers \in Seq(Address)
      BY <1>2, FilesKnown DEF IsFiles, Globals
    <3>4. x.protocol = "udp" /\ x.port = 53 /\ x.to \in Address
      BY <3>2, <3>3 DEF Connection
    <3> QED
      BY <2>4, <3>1, <3>4 DEF ConnectionFits
  <2>7. call'.stage \in Stages /\ call'.control \in Address
    BY <1>4, <2>3, <2>4 DEF Stages
  <2>8. call'.control \in P!Range(call'.entry.egress.addresses) /\ call'.tool # "dns_probe"
    BY <1>7, <2>3, <2>4
  <2>9. CallInv(call', opened', {})
    BY <1>2, <2>4, <2>5, <2>6, <2>7, <2>8 DEF CallInv
  <2> QED
    BY <1>1, <1>2, <2>9 DEF Inv
<1>8. {"refused", "ok"} \subseteq Results
  BY DEF Results
<1> QED
  BY <1>5, <1>6, <1>7, <1>8, Zenon

LEMMA NoConnectionKeeps == ASSUME Inv, NoConnection PROVE Inv'
<1>1. "refused" \in Results
  BY DEF Results
<1> QED
  BY <1>1, RefusalKeeps DEF NoConnection

LEMMA ConnectKeeps == ASSUME Inv, Connect PROVE Inv'
<1> DEFINE in(peer, pin) == S!LogsIn(call.tool, call.auth, call.args, pin, peer)
           to == S!Opens(call.tool, call.auth, call.args)
<1>1. call.stage = "resolved" /\ UNCHANGED <<files, edits, chain, source>>
  BY DEF Connect
<1>2. /\ DOMAIN call = CallFields /\ PassedBy(call)
      /\ call.control \in Address \cup {"none"} /\ call.answer \in Results
      /\ call.tool # "dns_probe" /\ call.control \in P!Range(call.entry.egress.addresses)
      /\ \A x \in opened : ConnectionFits(x, call)
      /\ \A peer \in told : /\ peer \in Peers \X (Pins \ {"invalid"})
                            /\ S!LogsIn(call.tool, call.auth, call.args, peer[2], peer[1])
  BY <1>1 DEF Inv, CallInv
<1>3. {"refused", "ok"} \subseteq Results
  BY DEF Results
<1>4. PICK peer \in Peers, pin \in Pins :
        IF pin = "invalid" THEN Answer("refused") /\ UNCHANGED <<opened, told>>
        ELSE /\ opened' = opened \cup {Connection(call.control, to[1], to[2])}
             /\ told' = IF in(peer, pin) THEN {<<peer, pin>>} ELSE {}
             /\ IF in(peer, pin) /\ call.tool = "ftp_list"
                THEN call' = [call EXCEPT !.stage = "passive"]
                ELSE Answer(IF \/ in(peer, pin)
                               \/ call.tool \notin {"ssh_read", "sftp_stat", "ftp_list"}
                            THEN "ok" ELSE "refused")
  <2>1. (IF call.tool = "ftp_list" /\ call.args.tls = "yes" THEN Pins ELSE {"none"}) \subseteq Pins
    BY PinsAssumption
  <2> QED
    BY <2>1, Zenon DEF Connect
<1>5. ConnectionFits(Connection(call.control, to[1], to[2]), call)
  <2>1. \/ to[1] = "icmp" /\ to[2] = 0 /\ call.entry.egress.icmp = "yes"
        \/ to[1] = "udp" /\ to[2] \in S!Port /\ UdpInScope(to[2], call.entry)
        \/ /\ to[1] = "tcp" /\ to[2] \in S!Port
           /\ IF call.tool \in {"ssh_read", "sftp_stat"} THEN to[2] = call.record.port
              ELSE TcpInScope(to[2], call.entry)
    BY <1>2, OpensInScope DEF PassedBy
  <2> DEFINE x == Connection(call.control, to[1], to[2])
  <2>2. x.to = call.control /\ x.protocol = to[1] /\ x.port = to[2]
    BY DEF Connection
  <2> HIDE DEF x, to
  <2>3. ConnectionFits(x, call)
    BY <1>2, <2>1, <2>2 DEF ConnectionFits
  <2> QED
    BY <2>3 DEF x
<1> HIDE DEF in, to
<1>6. CASE pin = "invalid"
  <2>0. call' = [call EXCEPT !.stage = "answered", !.answer = "refused"]
    BY <1>4, <1>6 DEF Answer
  <2>1. CallInv(call', opened, told)
    BY <1>2, <1>3, <2>0, AnswersFit
  <2> QED
    BY <1>1, <1>4, <1>6, <2>1 DEF Inv
<1>7. CASE pin # "invalid"
  <2>1. \A x \in opened' : ConnectionFits(x, call)
    BY <1>2, <1>4, <1>5, <1>7
  <2>2. \A t \in told' : /\ t \in Peers \X (Pins \ {"invalid"})
                         /\ S!LogsIn(call.tool, call.auth, call.args, t[2], t[1])
    BY <1>4, <1>7 DEF in
  <2>3. CASE in(peer, pin) /\ call.tool = "ftp_list"
    <3>1. call' = [call EXCEPT !.stage = "passive"]
      BY <1>4, <1>7, <2>3
    <3>2. /\ DOMAIN call' = CallFields /\ call'.stage = "passive" /\ call'.tool = call.tool
          /\ call'.args = call.args /\ call'.record = call.record /\ call'.entry = call.entry
          /\ call'.auth = call.auth /\ call'.control = call.control
          /\ call'.answer = call.answer
      BY <1>2, <3>1 DEF CallFields
    <3>3. PassedBy(call') /\ \A x \in opened' : ConnectionFits(x, call')
      BY <1>2, <2>1, <3>2, PassedKept
    <3>4. call'.stage \in Stages
      BY <3>2 DEF Stages
    <3>5. \A t \in told' : /\ t \in Peers \X (Pins \ {"invalid"})
                           /\ S!LogsIn(call'.tool, call'.auth, call'.args, t[2], t[1])
      BY <2>2, <3>2
    <3>6. /\ call'.tool = "ftp_list" /\ call'.control \in P!Range(call'.entry.egress.addresses)
          /\ call'.control \in Address \cup {"none"} /\ call'.answer \in Results
      BY <1>2, <2>3, <3>2
    <3>7. CallInv(call', opened', told')
      BY <3>2, <3>3, <3>4, <3>5, <3>6 DEF CallInv
    <3> QED
      BY <1>1, <3>7 DEF Inv
  <2>4. CASE ~(in(peer, pin) /\ call.tool = "ftp_list")
    <3>1. PICK result \in Results : Answer(result)
      BY <1>3, <1>4, <1>7, <2>4
    <3>2. CallInv(call', opened', told')
      BY <1>2, <2>1, <2>2, <3>1, AnswersFit DEF Answer
    <3> QED
      BY <1>1, <3>2 DEF Inv
  <2> QED
    BY <2>3, <2>4
<1> QED
  BY <1>6, <1>7

LEMMA PassiveKeeps == ASSUME Inv, Passive PROVE Inv'
<1>1. call.stage = "passive" /\ UNCHANGED <<files, edits, chain, source, told>>
  BY DEF Passive
<1>2. /\ DOMAIN call = CallFields /\ PassedBy(call)
      /\ call.control \in Address \cup {"none"} /\ call.tool = "ftp_list"
      /\ call.control \in P!Range(call.entry.egress.addresses)
      /\ \A x \in opened : ConnectionFits(x, call)
      /\ \A peer \in told : /\ peer \in Peers \X (Pins \ {"invalid"})
                            /\ S!LogsIn(call.tool, call.auth, call.args, peer[2], peer[1])
  BY <1>1 DEF Inv, CallInv
<1>3. {"refused", "ok"} \subseteq Results
  BY DEF Results
<1>4. PICK endpoint \in Endpoints :
        IF S!PassiveAllowed(call.auth, call.control, endpoint[1], endpoint[2])
        THEN /\ Answer("ok")
             /\ opened' = opened \cup {Connection(call.control, "tcp", endpoint[2])}
        ELSE Answer("refused") /\ UNCHANGED opened
  BY Zenon DEF Passive
<1>5. \A x \in opened' : ConnectionFits(x, call)
  <2>1. ASSUME S!PassiveAllowed(call.auth, call.control, endpoint[1], endpoint[2])
        PROVE  ConnectionFits(Connection(call.control, "tcp", endpoint[2]), call)
    <3> DEFINE x == Connection(call.control, "tcp", endpoint[2])
    <3>1. endpoint[2] \in S!Port /\ S!InSome(endpoint[2], call.auth.egress.tcpRanges)
      BY <2>1 DEF S!PassiveAllowed
    <3>2. endpoint[2] \in Int
      <4>1. S!Port \subseteq Int
        BY MaxPorts DEF S!Port
      <4> QED
        BY <3>1, <4>1
    <3>3. TcpInScope(endpoint[2], call.entry)
      BY <1>2, <3>1, <3>2, PassedTypes DEF PassedBy
    <3>4. x.to = call.control /\ x.protocol = "tcp" /\ x.port = endpoint[2]
      BY DEF Connection
    <3> HIDE DEF x
    <3>5. ConnectionFits(x, call)
      BY <1>2, <3>1, <3>3, <3>4 DEF ConnectionFits
    <3> QED
      BY <3>5 DEF x
  <2> QED
    BY <1>2, <1>4, <2>1
<1>6. PICK result \in Results : Answer(result)
  BY <1>3, <1>4
<1>7. CallInv(call', opened', told')
  BY <1>1, <1>2, <1>5, <1>6, AnswersFit DEF Answer
<1> QED
  BY <1>1, <1>7 DEF Inv

LEMMA ReturnKeeps == ASSUME Inv, Return PROVE Inv'
<1>1. /\ DOMAIN Idle = CallFields /\ Idle.stage = "idle" /\ Idle.answer = "none"
      /\ Idle.control = "none"
  BY DEF Idle, CallFields
<1>2. Idle.stage \in Stages /\ Idle.answer \in Results
  BY <1>1 DEF Stages, Results
<1>3. CallInv(call', opened', told')
  BY <1>1, <1>2 DEF Return, CallInv
<1> QED
  BY <1>3 DEF Inv, Return

\* Every step keeps the invariant.
LEMMA NextInv == Inv /\ [Next]_vars => Inv'
<1> SUFFICES ASSUME Inv, [Next]_vars PROVE Inv'
  OBVIOUS
<1>1. CASE Edit
  BY <1>1, EditKeeps
<1>2. CASE Install
  BY <1>2, InstallKeeps
<1>3. CASE Request
  BY <1>3, RequestKeeps
<1>4. CASE LoadRecord
  BY <1>4, LoadRecordKeeps
<1>5. CASE LoadTargetPolicy
  BY <1>5, LoadTargetPolicyKeeps
<1>6. CASE Forward
  BY <1>6, ForwardKeeps
<1>7. CASE Serve
  BY <1>7, ServeKeeps
<1>8. CASE Resolve
  BY <1>8, ResolveKeeps
<1>9. CASE NoConnection
  BY <1>9, NoConnectionKeeps
<1>10. CASE Connect
  BY <1>10, ConnectKeeps
<1>11. CASE Passive
  BY <1>11, PassiveKeeps
<1>12. CASE Return
  BY <1>12, ReturnKeeps
<1>13. CASE UNCHANGED vars
  BY <1>13 DEF Inv, vars
<1> QED
  BY <1>1, <1>2, <1>3, <1>4, <1>5, <1>6, <1>7, <1>8, <1>9, <1>10, <1>11, <1>12, <1>13, Zenon
  DEF Next

\* In every state, the call under way carries what its stage relies on: arguments in
\* bounds, a record and a policy that fit each other and authorize it, an envelope of
\* the three that the server admits; what it opened and whom it told fits them; and
\* the chain is the ruleset of the files it was generated from.
THEOREM EnrollmentInvariant == Spec => []Inv
<1> QED
  BY InitInv, NextInv, PTL DEF Spec

-----------------------------------------------------------------------------
(* The properties.                                                         *)

\* A connection is inside the scope of the policy of its call.
LEMMA OpenedIsEnrolled ==
  ASSUME Inv, NEW x \in opened
  PROVE  \/ x.protocol = "udp" /\ x.port = 53 /\ call.entry.egress.dns = "yes"
         \/ /\ Listed(x.to, call.entry.egress.addresses) /\ x.to = call.control
            /\ CASE x.protocol = "icmp" -> call.entry.egress.icmp = "yes"
                 [] x.protocol = "udp"  -> UdpInScope(x.port, call.entry)
                 [] x.protocol = "tcp"  ->
                      IF call.tool \in {"ssh_read", "sftp_stat"} THEN x.port = call.record.port
                      ELSE TcpInScope(x.port, call.entry)
<1>1. ConnectionFits(x, call) /\ PassedBy(call)
  BY DEF Inv, CallInv
<1>2. S!NeedsDns(call.auth) => call.entry.egress.dns = "yes"
  <2>1. PICK f \in AnyFiles :
          Passed(call.tool, call.args, call.args.target, call.record, call.entry, f.known,
                 call.auth)
    BY <1>1 DEF PassedBy
  <2>2. Enrolled(call.record, call.entry)
    BY <2>1 DEF Passed
  <2>3. HostFits(call.record.host, call.entry.egress)
    BY <2>2 DEF Enrolled
  <2>4. /\ call.auth.host = call.record.host
        /\ P!Range(call.entry.egress.addresses) \subseteq Address
    BY <2>1, PassedTypes
  <2> QED
    BY <2>3, <2>4 DEF HostFits, S!NeedsDns, S!IsLiteral
<1> QED
  BY <1>1, <1>2, ListedAgree DEF ConnectionFits

\* Whoever was sent the password has shown a known key or certificate.
LEMMA ToldIsKnown ==
  ASSUME Inv, NEW t \in told
  PROVE  IF call.tool \in {"ssh_read", "sftp_stat"}
         THEN \E line \in call.auth.keys :
                /\ line.key = t[1].key /\ line.marker = "none"
                /\ \A text \in line.names :
                     /\ P!Fold(text[1]) = call.record.host
                     /\ call.record.port = 22 \/ (Len(text) = 2 /\ text[2] = call.record.port)
         ELSE /\ call.tool = "ftp_list"
              /\ IF call.args.tls = "no" THEN call.args.acknowledged = "yes"
                 ELSE t[1].certificate = IF t[2] = "pinned" THEN "pinned" ELSE "trusted"
<1>1. /\ PassedBy(call) /\ t \in Peers \X (Pins \ {"invalid"})
      /\ S!LogsIn(call.tool, call.auth, call.args, t[2], t[1])
  BY DEF Inv, CallInv
<1>2. PICK f \in AnyFiles :
        Passed(call.tool, call.args, call.args.target, call.record, call.entry, f.known, call.auth)
  BY <1>1 DEF PassedBy
<1>3. CASE call.tool \in {"ssh_read", "sftp_stat"}
  <2>1. PICK line \in call.auth.keys : line.key = t[1].key /\ line.marker = "none"
    BY <1>1, <1>3 DEF S!LogsIn, S!KnownKeys
  <2>2. call.auth.keys = P!SelectKnownHosts(f.known, call.record)
    BY <1>2, <1>3 DEF Passed, Envelope
  <2>3. call.record.host \in Address \cup Name
    <3>1. Enrolled(call.record, call.entry)
      BY <1>2 DEF Passed
    <3>2. HostFits(call.record.host, call.entry.egress)
      BY <3>1 DEF Enrolled
    <3>3. P!Range(call.entry.egress.addresses) \subseteq Address
      BY <1>2, PassedTypes
    <3> QED
      BY <3>2, <3>3 DEF HostFits
  <2>4. IsKnown(f.known)
    BY FilesKnown
  <2>5. \A text \in line.names :
          /\ P!Fold(text[1]) = call.record.host
          /\ call.record.port = 22 \/ (Len(text) = 2 /\ text[2] = call.record.port)
    BY <2>1, <2>2, <2>3, <2>4, KeysNameTheTarget
  <2> QED
    BY <1>3, <2>1, <2>5
<1>4. CASE call.tool \notin {"ssh_read", "sftp_stat"}
  <2>1. call.tool = "ftp_list"
    BY <1>1, <1>4 DEF S!LogsIn
  <2>2. call.args.tls \in {"yes", "no"}
    BY <1>2, PassedTypes
  <2>3. call.args.tls = "no" => call.args.acknowledged = "yes"
    <3>1. S!Admits(call.tool, call.auth, call.args)
      BY <1>2 DEF Passed
    <3> QED
      BY <2>1, <3>1 DEF S!Admits, S!AdmitsFtpList
  <2>4. t[2] \in {"none", "pinned"}
    BY <1>1, PinsAssumption
  <2>5. call.args.tls = "yes" =>
          t[1].certificate = IF t[2] = "pinned" THEN "pinned" ELSE "trusted"
    BY <1>1, <2>1, <2>4 DEF S!LogsIn, S!Handshake, S!PinMatches
  <2> QED
    BY <1>4, <2>1, <2>2, <2>3, <2>5
<1> QED
  BY <1>3, <1>4

\* Whatever DNS answers, whatever endpoint a device names and whoever answers at an
\* address, a call connects only to an address and a port its policy enrolls, and sends
\* the password only to a peer with a key known for this target and port, the pinned or
\* a trusted certificate, or over acknowledged plain FTP (engine.py, auth.py).
THEOREM ConnectionsAreEnrolled == Spec => []ConnectionsEnrolled
<1>1. Inv => ConnectionsEnrolled
  BY OpenedIsEnrolled, ToldIsKnown, Zenon DEF ConnectionsEnrolled
<1> QED
  BY <1>1, EnrollmentInvariant, PTL

\* The server decodes every envelope the proxy forwards, and admits its call but for
\* plain FTP nobody acknowledged; a call past both gates is within the scope the guide
\* requires, in the policy the proxy read, whatever was edited since
\* (remote_mcp_proxy.py's _authorize_tool, auth.py's decode and engine.py's tools).
THEOREM TheGatesAgree == Spec => []GatesAgree
<1>1. ASSUME Inv PROVE GatesAgree
  <2>1. ASSUME call.stage = "forwarded"
        PROVE  /\ S!Decode(call.args.target, call.auth) # {}
               /\ \A auth \in S!Decode(call.args.target, call.auth) :
                    \/ S!Admits(call.tool, auth, call.args)
                    \/ /\ call.tool = "ftp_list" /\ call.args.tls = "no"
                       /\ call.args.acknowledged = "no"
    BY <1>1, <2>1, ForwardedIsDecoded
  <2>2. ASSUME call.stage \in {"admitted", "resolved", "passive"}
        PROVE  RequiredScope(call.tool, call.args, call.record, call.entry)
    <3>1. PassedBy(call)
      BY <1>1, <2>2 DEF Inv, CallInv
    <3> QED
      BY <3>1, PassedInScope DEF PassedBy
  <2> QED
    BY <2>1, <2>2, Zenon DEF GatesAgree
<1> QED
  BY <1>1, EnrollmentInvariant, PTL

\* The three validators, and the generator's checker, accept the same records and
\* policies, up to what they are meant to differ in, for every file an operator may
\* write (remote_mcp_proxy.py, auth.py, generate_egress_rules.py).
THEOREM TheValidatorsAgree == Spec => []ValidatorsAgree
<1>1. Inv => ValidatorsAgree
  BY ValidatorsHold, FilesKnown DEF Inv
<1> QED
  BY <1>1, EnrollmentInvariant, PTL

-----------------------------------------------------------------------------
(* The chain.                                                              *)

\* The shapes of the rules of a scope.
ScopeRule(rule, scope) ==
  \/ rule.protocol = "tcp" /\ rule.low \in scope.tcp /\ rule.high = rule.low
  \/ rule.protocol = "udp" /\ rule.low \in scope.udp /\ rule.high = rule.low
  \/ /\ rule.protocol = "tcp"
     /\ \E range \in scope.tcpRanges : rule.low = range[1] /\ rule.high = range[2]
  \/ /\ rule.protocol = "udp"
     /\ \E range \in scope.udpRanges : rule.low = range[1] /\ rule.high = range[2]
  \/ rule.protocol = "icmp" /\ rule.low = 0 /\ rule.high = 0 /\ scope.icmp

\* The generator's rules of a scope have these shapes.
LEMMA RulesOfScope ==
  ASSUME NEW to, NEW scope, NEW rule \in G!ScopeRules(to, scope)
  PROVE  rule.to = to /\ ScopeRule(rule, scope)
<1>1. CASE \E port \in scope.tcp : rule = G!Rule(to, "tcp", port, port)
  BY <1>1 DEF G!Rule, ScopeRule
<1>2. CASE \E port \in scope.udp : rule = G!Rule(to, "udp", port, port)
  BY <1>2 DEF G!Rule, ScopeRule
<1>3. CASE \E range \in scope.tcpRanges : rule = G!Rule(to, "tcp", range[1], range[2])
  BY <1>3 DEF G!Rule, ScopeRule
<1>4. CASE \E range \in scope.udpRanges : rule = G!Rule(to, "udp", range[1], range[2])
  BY <1>4 DEF G!Rule, ScopeRule
<1>5. CASE scope.icmp /\ rule = G!Rule(to, "icmp", 0, 0)
  BY <1>5 DEF G!Rule, ScopeRule
<1> QED
  BY <1>1, <1>2, <1>3, <1>4, <1>5 DEF G!ScopeRules

\* A scope's rules let its ports through.
LEMMA ScopeAccepts ==
  ASSUME NEW to, NEW a \in to, NEW scope, NEW rules, G!ScopeRules(to, scope) \subseteq rules,
         scope.tcp \subseteq Int, scope.udp \subseteq Int
  PROVE  /\ scope.icmp => G!Accepts(rules, a, "icmp", 0)
         /\ \A port \in scope.tcp : G!Accepts(rules, a, "tcp", port)
         /\ \A port \in scope.udp : G!Accepts(rules, a, "udp", port)
         /\ \A port, range : /\ range \in scope.tcpRanges /\ range[1] <= port /\ port <= range[2]
                             => G!Accepts(rules, a, "tcp", port)
         /\ \A port, range : /\ range \in scope.udpRanges /\ range[1] <= port /\ port <= range[2]
                             => G!Accepts(rules, a, "udp", port)
<1>1. \A protocol, low, high :
        LET rule == G!Rule(to, protocol, low, high) IN
        rule.to = to /\ rule.protocol = protocol /\ rule.low = low /\ rule.high = high
  BY DEF G!Rule
<1>2. \A protocol, low, high, port :
        G!Rule(to, protocol, low, high) \in rules /\ low <= port /\ port <= high
          => G!Accepts(rules, a, protocol, port)
  <2> TAKE protocol, low, high, port
  <2> DEFINE rule == G!Rule(to, protocol, low, high)
  <2>1. rule.to = to /\ rule.protocol = protocol /\ rule.low = low /\ rule.high = high
    BY <1>1
  <2> HIDE DEF rule
  <2>2. rule \in rules /\ low <= port /\ port <= high => G!Accepts(rules, a, protocol, port)
    BY <2>1 DEF G!Accepts
  <2> QED
    BY <2>2 DEF rule
<1>3. /\ scope.icmp => G!Rule(to, "icmp", 0, 0) \in rules
      /\ \A port \in scope.tcp : G!Rule(to, "tcp", port, port) \in rules
      /\ \A port \in scope.udp : G!Rule(to, "udp", port, port) \in rules
      /\ \A range \in scope.tcpRanges : G!Rule(to, "tcp", range[1], range[2]) \in rules
      /\ \A range \in scope.udpRanges : G!Rule(to, "udp", range[1], range[2]) \in rules
  BY DEF G!ScopeRules
<1>4. 0 <= 0 /\ \A port \in Int : port <= port
  OBVIOUS
<1> QED
  BY <1>2, <1>3, <1>4

\* The files a chain was generated from, and what the generator found in them.
LEMMA ManifestParts ==
  ASSUME NEW f, G!ManifestAccepted(f.vault, f.policy, f.global)
  PROVE  /\ G!GlobalAccepted(f.global)
         /\ \A alias \in DOMAIN f.policy :
              /\ alias \in DOMAIN f.vault
              /\ G!TargetAccepted(f.vault[alias], f.policy[alias], f.global.resolvers)
              /\ f.global.profile = "lan-constrained" =>
                   G!Range(f.policy[alias].egress.addresses)
                     \subseteq G!LanOf(G!Range(f.global.lans))
  BY Zenon DEF G!ManifestAccepted

\* What is known of the global part of the policy.
LEMMA GlobalParts ==
  ASSUME NEW g, G!GlobalAccepted(g)
  PROVE  /\ g.profile \in {"strict-target", "lan-constrained"}
         /\ G!Range(g.resolvers) \subseteq Address /\ G!Range(g.lans) \subseteq DOMAIN Lan
  BY Zenon DEF G!GlobalAccepted

\* The rules of a bundle, by what they are for.
DnsRule(rule, f) ==
  /\ \E resolver \in G!Range(f.global.resolvers) : rule.to = {resolver}
  /\ rule.low = 53 /\ rule.high = 53
TargetRule(rule, f) ==
  \E alias \in DOMAIN f.policy :
    /\ ScopeRule(rule, G!TargetScope(f.vault[alias], f.policy[alias]))
    /\ IF f.global.profile = "strict-target"
       THEN \E a \in G!Range(f.policy[alias].egress.addresses) : rule.to = {a}
       ELSE \E id \in G!Range(f.global.lans) : rule.to = Lan[id]

\* A rule for DNS is for one of the resolvers.
LEMMA DnsRulesAre ==
  ASSUME NEW m, NEW rule \in G!DnsRules(m)
  PROVE  \E resolver \in m.resolvers, protocol \in {"tcp", "udp"} :
           rule = G!Rule({resolver}, protocol, 53, 53)
<1> DEFINE made(resolver, protocol) == G!Rule({resolver}, protocol, 53, 53)
<1>1. G!DnsRules(m) = IF m.allowDns
                      THEN {made(resolver, protocol) :
                              resolver \in m.resolvers, protocol \in {"tcp", "udp"}}
                      ELSE {}
  BY DEF G!DnsRules
<1> HIDE DEF made
<1>2. \E resolver \in m.resolvers, protocol \in {"tcp", "udp"} : rule = made(resolver, protocol)
  BY <1>1, SMT
<1> QED
  BY <1>2, Zenon DEF made

\* A rule of a bundle is for DNS or for a target.
LEMMA RulesOfBundle ==
  ASSUME NEW f, NEW rule \in G!Bundle(f.vault, f.policy, f.global).ruleset
  PROVE  DnsRule(rule, f) \/ TargetRule(rule, f)
<1> DEFINE m == G!Manifest(f.vault, f.policy, f.global)
           scope(alias) == G!TargetScope(f.vault[alias], f.policy[alias])
<1>1. /\ m.profile = f.global.profile /\ m.resolvers = G!Range(f.global.resolvers)
      /\ m.lans = G!Range(f.global.lans)
      /\ m.targets = {scope(alias) : alias \in DOMAIN f.policy}
  BY DEF G!Manifest
<1>2. rule \in G!Ruleset(m)
  BY DEF G!Bundle
<1>3. \A alias : scope(alias).destinations = G!Range(f.policy[alias].egress.addresses)
  BY DEF G!TargetScope
<1> HIDE DEF m, scope
<1>4. CASE rule \in G!DnsRules(m)
  <2>1. PICK resolver \in m.resolvers, protocol \in {"tcp", "udp"} :
          rule = G!Rule({resolver}, protocol, 53, 53)
    BY <1>4, DnsRulesAre
  <2> QED
    BY <1>1, <2>1 DEF G!Rule, DnsRule
<1>5. CASE m.profile = "strict-target" /\ rule \notin G!DnsRules(m)
  <2>1. PICK s \in m.targets : \E to \in s.destinations : rule \in G!ScopeRules({to}, s)
    BY <1>2, <1>5 DEF G!Ruleset
  <2>2. PICK to \in s.destinations : rule \in G!ScopeRules({to}, s)
    BY <2>1
  <2>3. PICK alias \in DOMAIN f.policy : s = scope(alias)
    BY <1>1
  <2>4. rule.to = {to} /\ ScopeRule(rule, s)
    BY <2>2, RulesOfScope
  <2>5. to \in G!Range(f.policy[alias].egress.addresses)
    BY <1>3, <2>2, <2>3
  <2> QED
    BY <1>1, <1>5, <2>3, <2>4, <2>5 DEF TargetRule, scope
<1>6. CASE m.profile # "strict-target" /\ rule \notin G!DnsRules(m)
  <2>1. PICK id \in m.lans, s \in m.targets : rule \in G!ScopeRules(Lan[id], s)
    BY <1>2, <1>6 DEF G!Ruleset
  <2>2. PICK alias \in DOMAIN f.policy : s = scope(alias)
    BY <1>1
  <2>3. rule.to = Lan[id] /\ ScopeRule(rule, s)
    BY <2>1, RulesOfScope
  <2> QED
    BY <1>1, <1>6, <2>1, <2>2, <2>3 DEF TargetRule, scope
<1> QED
  BY <1>4, <1>5, <1>6

\* All ports of the scopes are ports of a packet, none of them 0.
LEMMA PacketPorts ==
  /\ \A port \in G!Port : port \in PacketPort
  /\ \A port \in S!Port : port \in PacketPort /\ port # 0
  /\ \A low, high \in Int : IsScope(low, high) => low \in PacketPort /\ high \in PacketPort
  /\ 0 \in PacketPort /\ 53 \in PacketPort
<1>1. \A port \in P!Port : port \in PacketPort /\ port # 0
  BY MaxPorts, SMT DEF P!Port, PacketPort
<1>2. \A low, high \in Int : IsScope(low, high) => low \in PacketPort /\ high \in PacketPort
  BY MaxPorts, SMT DEF IsScope, PacketPort
<1>3. 0 \in PacketPort /\ 53 \in PacketPort
  BY MaxPorts, SMT DEF PacketPort
<1> QED
  BY <1>1, <1>2, <1>3, MaxPorts

\* The chain of an accepted manifest, typed.
LEMMA ChainTyped ==
  ASSUME NEW f \in AnyFiles, G!ManifestAccepted(f.vault, f.policy, f.global),
         NEW rule \in G!Bundle(f.vault, f.policy, f.global).ruleset
  PROVE  rule.to \subseteq Address /\ {rule.low, rule.high} \subseteq PacketPort
<1>2. /\ G!Range(f.global.resolvers) \subseteq Address
      /\ G!Range(f.global.lans) \subseteq DOMAIN Lan
  BY ManifestParts, GlobalParts
<1>3. CASE DnsRule(rule, f)
  BY <1>2, <1>3, PacketPorts DEF DnsRule
<1>4. CASE TargetRule(rule, f)
  <2>1. PICK alias \in DOMAIN f.policy :
          /\ ScopeRule(rule, G!TargetScope(f.vault[alias], f.policy[alias]))
          /\ \/ \E a \in G!Range(f.policy[alias].egress.addresses) : rule.to = {a}
             \/ \E id \in G!Range(f.global.lans) : rule.to = Lan[id]
    BY <1>4 DEF TargetRule
  <2> DEFINE scope == G!TargetScope(f.vault[alias], f.policy[alias])
  <2>2. /\ f.vault[alias] \in Records /\ f.policy[alias] \in Entries
        /\ G!TargetAccepted(f.vault[alias], f.policy[alias], f.global.resolvers)
    <3>1. /\ alias \in DOMAIN f.vault
          /\ G!TargetAccepted(f.vault[alias], f.policy[alias], f.global.resolvers)
      BY ManifestParts
    <3> QED
      BY <3>1, FilesKnown DEF IsFiles
  <2>3. /\ scope.destinations \subseteq Address /\ scope.tcp \cup scope.udp \subseteq G!Port
        /\ \A range \in scope.tcpRanges \cup scope.udpRanges :
             range[1] \in Int /\ range[2] \in Int /\ IsScope(range[1], range[2])
    BY <2>2, ScopeWritten
  <2>4. rule.to \subseteq Address
    <3>1. scope.destinations = G!Range(f.policy[alias].egress.addresses)
      BY DEF G!TargetScope
    <3> QED
      BY <1>2, <2>1, <2>3, <3>1, LanAssumption
  <2>5. ScopeRule(rule, scope)
    BY <2>1
  <2> HIDE DEF scope
  <2>6. rule.low \in PacketPort /\ rule.high \in PacketPort
    BY <2>3, <2>5, PacketPorts DEF ScopeRule
  <2> QED
    BY <2>4, <2>6
<1> QED
  BY <1>3, <1>4, RulesOfBundle

\* The chain, the stage of the call, its answer and its connections have their types: a
\* rule and a connection have addresses and ports a packet can carry, whatever the files,
\* the arguments, DNS and the devices say.
THEOREM EnrollmentTypeCorrect == Spec => []TypeOK
<1>1. ASSUME Inv PROVE TypeOK
  <2>1. \A f \in {files} \cup source : f \in FirstFiles \/ f \in Files
    BY <1>1 DEF Inv, ChainInv, AnyFiles
  <2>2. ASSUME NEW rule \in chain
        PROVE  rule.to \subseteq Address /\ {rule.low, rule.high} \subseteq PacketPort
    <3>1. PICK f \in source : /\ f \in AnyFiles
                              /\ G!ManifestAccepted(f.vault, f.policy, f.global)
                              /\ chain = G!Bundle(f.vault, f.policy, f.global).ruleset
      BY <1>1 DEF Inv, ChainInv
    <3> QED
      BY <3>1, ChainTyped
  <2>3. ASSUME NEW c \in opened
        PROVE  c.to \in Address /\ c.port \in PacketPort /\ (c.port = 0 <=> c.protocol = "icmp")
    <3>1. ConnectionFits(c, call) /\ PassedBy(call)
      BY <1>1 DEF Inv, CallInv
    <3>2. P!Range(call.entry.egress.addresses) \subseteq Address
      BY <3>1, PassedTypes DEF PassedBy
    <3> QED
      BY <3>1, <3>2, PacketPorts DEF ConnectionFits
  <2>4. told \subseteq Peers \X Pins
    BY <1>1 DEF Inv, CallInv
  <2>5. /\ edits \in 0..MaxEdits /\ call.stage \in Stages /\ call.answer \in Results
        /\ call.control \in Address \cup {"none"}
    BY <1>1 DEF Inv, CallInv
  <2> QED
    BY <2>1, <2>2, <2>3, <2>4, <2>5, Zenon DEF TypeOK
<1> QED
  BY <1>1, EnrollmentInvariant, PTL

\* What a strict-target rule lets through is a port of a target's scope.
LEMMA StrictRules ==
  ASSUME NEW f \in AnyFiles, G!ManifestAccepted(f.vault, f.policy, f.global),
         f.global.profile = "strict-target",
         NEW rule \in G!Bundle(f.vault, f.policy, f.global).ruleset,
         NEW port \in {rule.low, rule.high}
  PROVE  \/ port = 53 /\ \A to \in rule.to : Listed(to, f.global.resolvers)
         \/ \E alias \in DOMAIN f.policy :
              LET p == f.policy[alias] IN
              /\ \A to \in rule.to : Listed(to, p.egress.addresses)
              /\ CASE rule.protocol = "icmp" -> p.egress.icmp = "yes"
                   [] rule.protocol = "udp"  -> UdpInScope(port, p)
                   [] rule.protocol = "tcp"  ->
                        TcpInScope(port, p) \/ (DerivesPort(p) /\ port = f.vault[alias].port)
<1>1. CASE DnsRule(rule, f)
  BY <1>1, ListedAgree DEF DnsRule
<1>2. CASE TargetRule(rule, f)
  <2>1. PICK alias \in DOMAIN f.policy :
          /\ ScopeRule(rule, G!TargetScope(f.vault[alias], f.policy[alias]))
          /\ \E a \in G!Range(f.policy[alias].egress.addresses) : rule.to = {a}
    BY <1>2 DEF TargetRule
  <2> DEFINE p == f.policy[alias]
             e == p.egress
             r == f.vault[alias]
             scope == G!TargetScope(r, p)
  <2>2. \A to \in rule.to : Listed(to, e.addresses)
    BY <2>1, ListedAgree
  <2>3. r \in Records /\ p \in Entries /\ G!TargetAccepted(r, p, f.global.resolvers)
    <3>1. alias \in DOMAIN f.vault /\ G!TargetAccepted(r, p, f.global.resolvers)
      BY ManifestParts
    <3> QED
      BY <3>1, FilesKnown DEF IsFiles
  <2>4. /\ scope.tcp = G!EffectiveTcp(r, p) /\ scope.udp = G!Range(e.udp)
        /\ scope.tcpRanges = G!Range(e.tcpRanges) /\ scope.udpRanges = G!Range(e.udpRanges)
        /\ scope.icmp <=> e.icmp = "yes"
    BY DEF G!TargetScope
  <2>5. \A range \in scope.tcpRanges \cup scope.udpRanges :
          range[1] \in Int /\ range[2] \in Int /\ IsScope(range[1], range[2])
    BY <2>3, ScopeWritten
  <2>6. ScopeRule(rule, scope)
    BY <2>1
  <2>7. ASSUME NEW ranges, NEW range \in G!Range(ranges), range[1] \in Int, range[2] \in Int,
               IsScope(range[1], range[2]), port \in {range[1], range[2]}
        PROVE  InRanges(port, ranges)
    <3>1. PICK i \in DOMAIN ranges : range = ranges[i]
      BY RangesAgree
    <3>2. port >= range[1] /\ port <= range[2]
      BY <2>7, SMT DEF IsScope
    <3> QED
      BY <3>1, <3>2 DEF InRanges
  <2>8. \A x : x \in G!EffectiveTcp(r, p) => Listed(x, e.tcp) \/ (DerivesPort(p) /\ x = r.port)
    BY ListedAgree DEF G!EffectiveTcp, DerivesPort
  <2>9. \A x : x \in G!Range(e.udp) => Listed(x, e.udp)
    BY ListedAgree
  <2> HIDE DEF scope, p, r
  <2>10. CASE rule.protocol = "tcp"
    <3>1. \/ rule.low \in scope.tcp /\ port = rule.low
          \/ \E range \in scope.tcpRanges : port \in {range[1], range[2]}
      BY <2>6, <2>10 DEF ScopeRule
    <3>2. TcpInScope(port, p) \/ (DerivesPort(p) /\ port = r.port)
      BY <2>4, <2>5, <2>7, <2>8, <3>1 DEF TcpInScope
    <3> QED
      BY <2>2, <2>10, <3>2 DEF p, r
  <2>11. CASE rule.protocol = "udp"
    <3>1. \/ rule.low \in scope.udp /\ port = rule.low
          \/ \E range \in scope.udpRanges : port \in {range[1], range[2]}
      BY <2>6, <2>11 DEF ScopeRule
    <3>2. UdpInScope(port, p)
      BY <2>4, <2>5, <2>7, <2>9, <3>1 DEF UdpInScope
    <3> QED
      BY <2>2, <2>11, <3>2 DEF p, r
  <2>12. CASE rule.protocol = "icmp"
    <3>1. e.icmp = "yes"
      BY <2>4, <2>6, <2>12 DEF ScopeRule
    <3> QED
      BY <2>2, <2>12, <3>1 DEF p, r
  <2>13. rule.protocol \in {"tcp", "udp", "icmp"}
    BY <2>6 DEF ScopeRule
  <2> QED
    BY <2>10, <2>11, <2>12, <2>13
<1> QED
  BY <1>1, <1>2, RulesOfBundle

\* The chain has the rules of every target, for a set of addresses with each of its
\* destinations, and the rules of DNS where a target needs it.
LEMMA BundleRules ==
  ASSUME NEW f, G!ManifestAccepted(f.vault, f.policy, f.global), NEW alias \in DOMAIN f.policy
  PROVE  LET rules == G!Bundle(f.vault, f.policy, f.global).ruleset
             e     == f.policy[alias].egress
         IN /\ \A a \in G!Range(e.addresses) : \E to :
                 /\ a \in to
                 /\ G!ScopeRules(to, G!TargetScope(f.vault[alias], f.policy[alias]))
                      \subseteq rules
            /\ e.dns = "yes" =>
                 \A a \in G!Range(f.global.resolvers) : G!Accepts(rules, a, "udp", 53)
<1> DEFINE m == G!Manifest(f.vault, f.policy, f.global)
           e == f.policy[alias].egress
           scope == G!TargetScope(f.vault[alias], f.policy[alias])
           rules == G!Bundle(f.vault, f.policy, f.global).ruleset
<1>1. /\ m.profile = f.global.profile /\ m.resolvers = G!Range(f.global.resolvers)
      /\ m.lans = G!Range(f.global.lans) /\ scope \in m.targets
      /\ e.dns = "yes" => m.allowDns
  BY DEF G!Manifest
<1>2. rules = G!Ruleset(m)
  BY DEF G!Bundle
<1>3. scope.destinations = G!Range(e.addresses)
  BY DEF G!TargetScope
<1>4. /\ f.global.profile \in {"strict-target", "lan-constrained"}
      /\ f.global.profile = "lan-constrained" =>
           G!Range(e.addresses) \subseteq G!LanOf(G!Range(f.global.lans))
  BY ManifestParts, GlobalParts
<1> HIDE DEF m, scope, e, rules
<1>5. ASSUME NEW a \in scope.destinations
      PROVE  \E to : a \in to /\ G!ScopeRules(to, scope) \subseteq rules
  <2>1. CASE m.profile = "strict-target"
    <3>1. ASSUME NEW rule \in G!ScopeRules({a}, scope)
          PROVE  rule \in G!Ruleset(m)
      <4> DEFINE of(s) == UNION {G!ScopeRules({to}, s) : to \in s.destinations}
      <4>1. rule \in of(scope)
        OBVIOUS
      <4>2. G!Ruleset(m) = G!DnsRules(m) \cup UNION {of(s) : s \in m.targets}
        BY <2>1 DEF G!Ruleset
      <4> HIDE DEF of
      <4> QED
        BY <1>1, <4>1, <4>2
    <3> QED
      BY <1>2, <3>1
  <2>2. CASE m.profile = "lan-constrained"
    <3>1. PICK id \in m.lans : a \in Lan[id]
      BY <1>1, <1>3, <1>4, <2>2 DEF G!LanOf
    <3>2. G!ScopeRules(Lan[id], scope) \subseteq G!Ruleset(m)
      BY <1>1, <2>2 DEF G!Ruleset
    <3> QED
      BY <1>2, <3>1, <3>2
  <2> QED
    BY <1>1, <1>4, <2>1, <2>2
<1>6. ASSUME e.dns = "yes", NEW a \in m.resolvers
      PROVE  G!Accepts(rules, a, "udp", 53)
  <2> DEFINE rule == G!Rule({a}, "udp", 53, 53)
  <2>1. rule \in rules
    <3> DEFINE for(resolver, protocol) == G!Rule({resolver}, protocol, 53, 53)
    <3>1. G!DnsRules(m) = {for(resolver, protocol) :
                             resolver \in m.resolvers, protocol \in {"tcp", "udp"}}
      BY <1>1, <1>6 DEF G!DnsRules
    <3>2. rule = for(a, "udp")
      OBVIOUS
    <3> HIDE DEF rule, for
    <3>3. rule \in G!DnsRules(m)
      BY <1>6, <3>1, <3>2
    <3>4. G!DnsRules(m) \subseteq G!Ruleset(m)
      BY DEF G!Ruleset
    <3> QED
      BY <1>2, <3>3, <3>4
  <2>2. a \in rule.to /\ rule.protocol = "udp" /\ rule.low <= 53 /\ 53 <= rule.high
    BY DEF G!Rule
  <2> HIDE DEF rule
  <2> QED
    BY <2>1, <2>2 DEF G!Accepts
<1> QED
  BY <1>1, <1>3, <1>5, <1>6 DEF scope, e, rules

\* The credential port of a call over SSH is one its target derives.
LEMMA PortDerived ==
  ASSUME NEW tool \in {"ssh_read", "sftp_stat"}, NEW args, NEW alias, NEW r, NEW q, NEW lines,
         NEW auth, Passed(tool, args, alias, r, q, lines, auth)
  PROVE  (q.platform # "null" /\ q.queries # <<>>) \/ q.roots # <<>>
<1>1. CASE tool = "ssh_read"
  <2>1. q.platform # "null" /\ args.query \in P!Range(q.queries)
    BY <1>1 DEF Passed, P!Authorized
  <2>2. q.queries = <<>> => P!Range(q.queries) = {}
    BY RangesAgree
  <2> QED
    BY <2>1, <2>2
<1>2. CASE tool = "sftp_stat"
  BY <1>2, PassedInScope DEF RequiredScope
<1> QED
  BY <1>1, <1>2

\* A chain generated from the record and the policy of a call lets its connections through.
LEMMA ChainLetsThrough ==
  ASSUME NEW f \in AnyFiles, G!ManifestAccepted(f.vault, f.policy, f.global),
         NEW c, PassedBy(c), NEW x, ConnectionFits(x, c),
         NEW alias \in DOMAIN f.policy, f.vault[alias] = c.record,
         P!PolicyError(f.policy[alias]) = "none", P!NormalPolicy(f.policy[alias]) = c.entry
  PROVE  \/ G!Accepts(G!Bundle(f.vault, f.policy, f.global).ruleset, x.to, x.protocol, x.port)
         \/ x.protocol = "udp" /\ x.port = 53 /\ ~Listed(x.to, f.global.resolvers)
<1> DEFINE p == f.policy[alias]
           q == c.entry
           e == p.egress
           r == f.vault[alias]
           scope == G!TargetScope(r, p)
           rules == G!Bundle(f.vault, f.policy, f.global).ruleset
<1>1. r \in Records /\ p \in Entries /\ G!TargetAccepted(r, p, f.global.resolvers)
  <2>1. alias \in DOMAIN f.vault /\ G!TargetAccepted(r, p, f.global.resolvers)
    BY ManifestParts
  <2> QED
    BY <2>1, FilesKnown DEF IsFiles
<1>2. /\ q.egress = e /\ q.queries = p.queries /\ q.roots = p.roots
      /\ q.platform = "null" <=> p.platform = "null"
  <2>1. AcceptedPolicy(p)
    BY PoliciesAccepted
  <2> QED
    BY <1>1, <2>1, PolicyNormalized
<1>3. /\ scope.tcp = G!EffectiveTcp(r, p) /\ scope.udp = G!Range(e.udp)
      /\ scope.tcpRanges = G!Range(e.tcpRanges) /\ scope.udpRanges = G!Range(e.udpRanges)
      /\ scope.icmp <=> e.icmp = "yes"
  BY DEF G!TargetScope
<1>4. scope.tcp \subseteq Int /\ scope.udp \subseteq Int
  <2>1. scope.tcp \cup scope.udp \subseteq G!Port
    BY <1>1, ScopeWritten
  <2>2. G!Port \subseteq Int
    BY MaxPorts DEF G!Port
  <2> QED
    BY <2>1, <2>2
<1>5. /\ \A a \in G!Range(e.addresses) : \E to :
           a \in to /\ G!ScopeRules(to, scope) \subseteq rules
      /\ e.dns = "yes" => \A a \in G!Range(f.global.resolvers) : G!Accepts(rules, a, "udp", 53)
  BY BundleRules
<1>6. \A i : /\ i \in DOMAIN e.tcpRanges => e.tcpRanges[i][1] \in Int /\ e.tcpRanges[i][2] \in Int
             /\ i \in DOMAIN e.udpRanges => e.udpRanges[i][1] \in Int /\ e.udpRanges[i][2] \in Int
  <2>1. e.tcpRanges \in Seq(Int \X Int) /\ e.udpRanges \in Seq(Int \X Int)
    BY <1>1 DEF Entries, Egresses
  <2> QED
    BY <2>1
<1>7. PICK g \in AnyFiles : Passed(c.tool, c.args, c.args.target, c.record, q, g.known, c.auth)
  BY DEF PassedBy
<1>8. S!NeedsDns(c.auth) => e.dns = "yes"
  <2>1. Enrolled(c.record, q)
    BY <1>7 DEF Passed
  <2>2. HostFits(c.record.host, q.egress)
    BY <2>1 DEF Enrolled
  <2>3. c.auth.host = c.record.host /\ P!Range(q.egress.addresses) \subseteq Address
    BY <1>7, PassedTypes
  <2> QED
    BY <1>2, <2>2, <2>3 DEF HostFits, S!NeedsDns, S!IsLiteral
<1>9. c.tool \in {"ssh_read", "sftp_stat"} =>
        (p.platform # "null" /\ p.queries # <<>>) \/ p.roots # <<>>
  BY <1>2, <1>7, PortDerived
<1>10. \A port \in Int : InRanges(port, e.tcpRanges) =>
         \E range \in G!Range(e.tcpRanges) : range[1] <= port /\ port <= range[2]
  <2> TAKE port \in Int
  <2>1. ASSUME NEW i \in DOMAIN e.tcpRanges, port >= e.tcpRanges[i][1], port <= e.tcpRanges[i][2]
        PROVE  \E range \in G!Range(e.tcpRanges) : range[1] <= port /\ port <= range[2]
    <3>1. e.tcpRanges[i] \in G!Range(e.tcpRanges)
      BY RangesAgree
    <3>2. e.tcpRanges[i][1] <= port
      BY <1>6, <2>1
    <3> QED
      BY <2>1, <3>1, <3>2
  <2> QED
    BY <2>1 DEF InRanges
<1>11. \A port \in Int : InRanges(port, e.udpRanges) =>
         \E range \in G!Range(e.udpRanges) : range[1] <= port /\ port <= range[2]
  <2> TAKE port \in Int
  <2>1. ASSUME NEW i \in DOMAIN e.udpRanges, port >= e.udpRanges[i][1], port <= e.udpRanges[i][2]
        PROVE  \E range \in G!Range(e.udpRanges) : range[1] <= port /\ port <= range[2]
    <3>1. e.udpRanges[i] \in G!Range(e.udpRanges)
      BY RangesAgree
    <3>2. e.udpRanges[i][1] <= port
      BY <1>6, <2>1
    <3> QED
      BY <2>1, <3>1, <3>2
  <2> QED
    BY <2>1 DEF InRanges
<1>12. \A port \in S!Port : port \in Int
  BY MaxPorts DEF S!Port
<1>13. c.record = r
  OBVIOUS
<1>14. \A y : /\ Listed(y, e.tcp) => y \in scope.tcp
              /\ Listed(y, e.udp) => y \in scope.udp
  BY <1>3, ListedAgree DEF G!EffectiveTcp
<1>15. c.tool \in {"ssh_read", "sftp_stat"} => r.port \in scope.tcp
  BY <1>3, <1>9 DEF G!EffectiveTcp
<1> HIDE DEF p, q, e, r, scope, rules
<1>16. CASE x.protocol = "udp" /\ x.port = 53 /\ S!NeedsDns(c.auth)
  <2>1. Listed(x.to, f.global.resolvers) => G!Accepts(rules, x.to, "udp", 53)
    BY <1>5, <1>8, <1>16, ListedAgree
  <2> QED
    BY <1>16, <2>1 DEF rules
<1>17. CASE ~(x.protocol = "udp" /\ x.port = 53 /\ S!NeedsDns(c.auth))
  <2>1. /\ x.to \in P!Range(e.addresses)
        /\ \/ x.protocol = "icmp" /\ x.port = 0 /\ e.icmp = "yes"
           \/ x.protocol = "udp" /\ x.port \in S!Port /\ UdpInScope(x.port, q)
           \/ /\ x.protocol = "tcp" /\ x.port \in S!Port
              /\ IF c.tool \in {"ssh_read", "sftp_stat"} THEN x.port = r.port
                 ELSE TcpInScope(x.port, q)
    BY <1>2, <1>13, <1>17 DEF ConnectionFits, q
  <2>2. PICK to : x.to \in to /\ G!ScopeRules(to, scope) \subseteq rules
    BY <1>5, <2>1, RangesAgree
  <2>3. /\ scope.icmp => G!Accepts(rules, x.to, "icmp", 0)
        /\ \A port \in scope.tcp : G!Accepts(rules, x.to, "tcp", port)
        /\ \A port \in scope.udp : G!Accepts(rules, x.to, "udp", port)
        /\ \A port, range : /\ range \in scope.tcpRanges /\ range[1] <= port /\ port <= range[2]
                            => G!Accepts(rules, x.to, "tcp", port)
        /\ \A port, range : /\ range \in scope.udpRanges /\ range[1] <= port /\ port <= range[2]
                            => G!Accepts(rules, x.to, "udp", port)
    BY <1>4, <2>2, ScopeAccepts
  <2>4. CASE x.protocol = "icmp"
    BY <1>3, <2>1, <2>3, <2>4 DEF rules
  <2>5. CASE x.protocol = "udp"
    <3>1. x.port \in Int /\ (Listed(x.port, e.udp) \/ InRanges(x.port, e.udpRanges))
      BY <1>2, <1>12, <2>1, <2>5 DEF UdpInScope
    <3>2. G!Accepts(rules, x.to, "udp", x.port)
      BY <1>3, <1>11, <1>14, <2>3, <3>1
    <3> QED
      BY <2>5, <3>2 DEF rules
  <2>6. CASE x.protocol = "tcp"
    <3>1. /\ x.port \in Int
          /\ x.port \in scope.tcp \/ InRanges(x.port, e.tcpRanges)
      BY <1>2, <1>12, <1>14, <1>15, <2>1, <2>6 DEF TcpInScope
    <3>2. G!Accepts(rules, x.to, "tcp", x.port)
      BY <1>3, <1>10, <2>3, <3>1
    <3> QED
      BY <2>6, <3>2 DEF rules
  <2> QED
    BY <2>1, <2>4, <2>5, <2>6
<1> QED
  BY <1>16, <1>17

\* A chain generated from the record and the policy a call was authorized by lets every
\* connection of the call through, and a strict-target chain nothing but the scopes and
\* the credential ports of the enrolled targets, and DNS: the rules
\* generate_egress_rules.py derives are the ports remote_mcp_proxy.py authorizes and
\* engine.py opens.
THEOREM TheChainFitsCalls == Spec => []ChainFitsCalls
<1>1. ASSUME Inv PROVE ChainFitsCalls
  <2>1. ASSUME NEW f \in source
        PROVE  /\ f \in AnyFiles /\ G!ManifestAccepted(f.vault, f.policy, f.global)
               /\ chain = G!Bundle(f.vault, f.policy, f.global).ruleset
    BY <1>1 DEF Inv, ChainInv
  <2>2. ASSUME NEW f \in source, NEW c \in opened, call.args.target \in DOMAIN f.policy,
               f.vault[call.args.target] = call.record,
               P!PolicyError(f.policy[call.args.target]) = "none",
               P!NormalPolicy(f.policy[call.args.target]) = call.entry
        PROVE  \/ G!Accepts(chain, c.to, c.protocol, c.port)
               \/ c.protocol = "udp" /\ c.port = 53 /\ ~Listed(c.to, f.global.resolvers)
    <3>1. PassedBy(call) /\ ConnectionFits(c, call)
      BY <1>1 DEF Inv, CallInv
    <3> QED
      BY <2>1, <2>2, <3>1, ChainLetsThrough
  <2>3. ASSUME NEW f \in source, f.global.profile = "strict-target", NEW rule \in chain,
               NEW port \in {rule.low, rule.high}
        PROVE  \/ port = 53 /\ \A to \in rule.to : Listed(to, f.global.resolvers)
               \/ \E alias \in DOMAIN f.policy :
                    LET p == f.policy[alias] IN
                    /\ \A to \in rule.to : Listed(to, p.egress.addresses)
                    /\ CASE rule.protocol = "icmp" -> p.egress.icmp = "yes"
                         [] rule.protocol = "udp"  -> UdpInScope(port, p)
                         [] rule.protocol = "tcp"  ->
                              TcpInScope(port, p) \/ (DerivesPort(p) /\ port = f.vault[alias].port)
    BY <2>1, <2>3, StrictRules
  <2> QED
    BY <2>2, <2>3, Zenon DEF ChainFitsCalls
<1> QED
  BY <1>1, EnrollmentInvariant, PTL
=============================================================================
