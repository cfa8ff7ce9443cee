--------------------------- MODULE EgressApplyProofs ---------------------------
(***************************************************************************)
(* The installer of egress rules for every number of runs, bundles, others *)
(* and failures: types, what "ok" and "failed" mean, and that no step of   *)
(* it opens a host that was filtered.                                      *)
(***************************************************************************)
EXTENDS EgressApply, SequenceTheorems, WellFoundedInduction, TLAPS

\* A nonempty set of numbers has a smallest one.
LEMMA Smallest ==
  ASSUME NEW T, T \subseteq Nat, T # {}
  PROVE  \E x \in T : \A y \in T : x <= y
<1>1. PICK x \in T : \A y \in T : ~(<<y, x>> \in OpToRel(<, Nat))
  BY WFMin, NatLessThanWellFounded
<1>2. \A y \in T : ~(y < x)
  BY <1>1 DEF OpToRel
<1>3. QED
  BY <1>2

-----------------------------------------------------------------------------
(* Lists of rules.                                                         *)

\* A rule in front of others.
LEMMA Prepended ==
  ASSUME NEW S, NEW s \in Seq(S), NEW x \in S
  PROVE  /\ <<x>> \o s \in Seq(S) /\ Len(<<x>> \o s) = Len(s) + 1 /\ <<x>> \o s # <<>>
         /\ (<<x>> \o s)[1] = x /\ \A i \in 1..Len(s) : (<<x>> \o s)[i + 1] = s[i]
         /\ Len(s) \in Nat
<1>1. Len(s) \in Nat /\ <<x>> \in Seq(S)
  OBVIOUS
<1>2. <<x>> \o s \in Seq(S) /\ Len(<<x>> \o s) = Len(s) + 1
  BY <1>1
<1>3. (<<x>> \o s)[1] = x
  BY <1>1
<1>4. \A i \in 1..Len(s) : (<<x>> \o s)[i + 1] = s[i]
  BY <1>1
<1>5. <<x>> \o s # <<>>
  BY <1>1, <1>2
<1>6. QED
  BY <1>1, <1>2, <1>3, <1>4, <1>5

\* One is taken out.
LEMMA TakenOut ==
  ASSUME NEW S, NEW s \in Seq(S), NEW k \in 1..Len(s)
  PROVE  /\ RemoveAt(s, k) \in Seq(S) /\ Len(RemoveAt(s, k)) = Len(s) - 1
         /\ \A i \in 1..(Len(s) - 1) : RemoveAt(s, k)[i] = IF i < k THEN s[i] ELSE s[i + 1]
<1> DEFINE a == SubSeq(s, 1, k - 1)
           b == SubSeq(s, k + 1, Len(s))
<1>1. Len(s) \in Nat /\ k \in Nat /\ 1 <= k /\ k <= Len(s)
  OBVIOUS
<1>2. a \in Seq(S) /\ Len(a) = k - 1 /\ \A i \in 1..(k - 1) : a[i] = s[i]
  BY <1>1
<1>3. b \in Seq(S) /\ Len(b) = Len(s) - k /\ \A i \in 1..(Len(s) - k) : b[i] = s[k + i]
  BY <1>1
<1>4. RemoveAt(s, k) = a \o b
  BY DEF RemoveAt
<1> HIDE DEF a, b
<1>5. a \o b \in Seq(S) /\ Len(a \o b) = Len(s) - 1
  <2>0. a \in Seq(S) /\ b \in Seq(S)
    BY <1>2, <1>3
  <2>1. a \o b \in Seq(S) /\ Len(a \o b) = Len(a) + Len(b)
    BY <2>0, ConcatProperties
  <2>2. QED
    BY <1>1, <1>2, <1>3, <2>1
<1>6. ASSUME NEW i \in 1..(Len(s) - 1)
      PROVE  (a \o b)[i] = IF i < k THEN s[i] ELSE s[i + 1]
  <2>1. CASE i < k
    BY <1>1, <1>2, <1>3, <2>1
  <2>2. CASE ~(i < k)
    <3>1. i - (k - 1) \in 1..(Len(s) - k) /\ k + (i - (k - 1)) = i + 1
      BY <1>1, <2>2
    <3>2. (a \o b)[i] = b[i - (k - 1)]
      BY <1>1, <1>2, <1>3, <2>2
    <3>3. b[i - (k - 1)] = s[i + 1]
      BY <1>3, <3>1
    <3>4. QED
      BY <2>2, <3>2, <3>3
  <2>3. QED
    BY <2>1, <2>2
<1>7. QED
  BY <1>4, <1>5, <1>6

\* RemoveFirst takes out the first one, when there is one.
LEMMA FirstOut ==
  ASSUME NEW S, NEW s \in Seq(S), NEW x, \E i \in 1..Len(s) : s[i] = x
  PROVE  \E k \in 1..Len(s) : /\ s[k] = x /\ \A i \in 1..Len(s) : s[i] = x => k <= i
                              /\ RemoveFirst(s, x) = RemoveAt(s, k)
<1> DEFINE I == {i \in 1..Len(s) : s[i] = x}
<1>1. I # {} /\ I \subseteq Nat
  OBVIOUS
<1>2. PICK k : k = CHOOSE i \in I : \A j \in I : i <= j
  OBVIOUS
<1>3. k \in I /\ \A j \in I : k <= j
  <2> HIDE DEF I
  <2>1. \E i \in I : \A j \in I : i <= j
    BY <1>1, Smallest
  <2>2. QED
    BY <1>2, <2>1
<1>4. RemoveFirst(s, x) = RemoveAt(s, k)
  BY <1>1, <1>2 DEF RemoveFirst, SelectInSeq, Min
<1>5. QED
  BY <1>3, <1>4

\* What is put in front is the first to be taken out.
LEMMA FrontOut ==
  ASSUME NEW S, NEW s \in Seq(S), NEW x \in S
  PROVE  RemoveFirst(<<x>> \o s, x) = s
<1>1. PICK t : t = <<x>> \o s
  OBVIOUS
<1>2. /\ t \in Seq(S) /\ Len(t) = Len(s) + 1 /\ t[1] = x /\ Len(s) \in Nat
      /\ \A i \in 1..Len(s) : t[i + 1] = s[i]
  BY <1>1, Prepended
<1>3. 1 \in 1..Len(t)
  BY <1>2
<1>4. PICK k \in 1..Len(t) : k <= 1 /\ RemoveFirst(t, x) = RemoveAt(t, k)
  BY <1>2, <1>3, FirstOut
<1>5. k = 1
  BY <1>4
<1>6. PICK u : u = RemoveAt(t, 1)
  OBVIOUS
<1>7. /\ u \in Seq(S) /\ Len(u) = Len(s)
      /\ \A i \in 1..Len(s) : u[i] = t[i + 1]
  <2>1. /\ u \in Seq(S) /\ Len(u) = Len(t) - 1
        /\ \A i \in 1..(Len(t) - 1) : u[i] = IF i < 1 THEN t[i] ELSE t[i + 1]
    BY <1>2, <1>3, <1>6, TakenOut
  <2>2. QED
    BY <1>2, <2>1
<1>8. u = s
  <2>1. \A i \in 1..Len(s) : u[i] = s[i]
    BY <1>2, <1>7
  <2>2. QED
    BY <1>2, <1>7, <2>1, SeqEqual
<1>9. QED
  BY <1>1, <1>4, <1>5, <1>6, <1>8

\* The first rule of a list that has one goes out, and can be put back.
LEMMA OutAndBack ==
  ASSUME NEW S, NEW s \in Seq(S), s # <<>>
  PROVE  /\ RemoveFirst(s, s[1]) \in Seq(S) /\ s = <<s[1]>> \o RemoveFirst(s, s[1])
<1>1. Len(s) \in Nat /\ 1 \in 1..Len(s) /\ s[1] \in S
  OBVIOUS
<1>2. PICK x, t : x = s[1] /\ t = Tail(s)
  OBVIOUS
<1>3. t \in Seq(S) /\ s = <<x>> \o t
  <2>1. t \in Seq(S) /\ Len(t) = Len(s) - 1 /\ \A i \in 1..(Len(s) - 1) : t[i] = s[i + 1]
    BY <1>1, <1>2
  <2>2. PICK u : u = <<x>> \o t
    OBVIOUS
  <2>3. /\ u \in Seq(S) /\ Len(u) = Len(s) /\ u[1] = x
        /\ \A i \in 1..(Len(s) - 1) : u[i + 1] = t[i]
    BY <1>1, <1>2, <2>1, <2>2, Prepended
  <2>4. ASSUME NEW i \in 1..Len(s) PROVE u[i] = s[i]
    <3>1. CASE i = 1
      BY <1>2, <2>3, <3>1
    <3>2. CASE i # 1
      <4>1. i - 1 \in 1..(Len(s) - 1) /\ i - 1 + 1 = i
        BY <1>1, <3>2
      <4>2. QED
        BY <2>1, <2>3, <4>1
    <3>3. QED
      BY <3>1, <3>2
  <2>5. u = s
    BY <2>3, <2>4, SeqEqual
  <2>6. QED
    BY <2>1, <2>2, <2>5
<1>4. RemoveFirst(s, x) = t
  BY <1>1, <1>2, <1>3, FrontOut
<1>5. QED
  BY <1>2, <1>3, <1>4

LEMMA FirstOutType ==
  ASSUME NEW S, NEW s \in Seq(S), NEW x
  PROVE  RemoveFirst(s, x) \in Seq(S)
<1>1. CASE \E i \in 1..Len(s) : s[i] = x
  <2>1. PICK k \in 1..Len(s) : RemoveFirst(s, x) = RemoveAt(s, k)
    BY <1>1, FirstOut
  <2>2. QED
    BY <2>1, TakenOut
<1>2. CASE ~(\E i \in 1..Len(s) : s[i] = x)
  BY <1>2 DEF RemoveFirst
<1>3. QED
  BY <1>1, <1>2

-----------------------------------------------------------------------------
(* The ruleset.                                                            *)

Rules == Bundles \cup {"bare", "foreign"}

\* A ruleset that the tool takes over has nothing of its own, or its jump in
\* front of everything else and a chain of its making.
LEMMA TakenOver ==
  ASSUME NEW h \in Host, ~Refused(h)
  PROVE  /\ SnapshotOwned(h) \in Snapshot
         /\ h.chain = "none" <=> SnapshotOwned(h) = Absent
         /\ h.chain # "none" =>
              /\ h.user # <<>> /\ h.user[1] \in Bundles /\ h.chain \in Valid
              /\ SnapshotOwned(h) = [jump |-> h.user[1], chain |-> h.chain]
<1>1. CASE h.chain = "none"
  BY <1>1 DEF SnapshotOwned, Snapshot
<1>2. CASE h.chain # "none"
  <2>1. References(h) = {1} /\ h.chain \in Valid
    BY <1>2 DEF Refused
  <2>2. 1 \in DOMAIN h.user /\ h.user[1] # "foreign" /\ h.user[1] # "bare"
    BY <2>1 DEF References, Refused
  <2>3. h.user \in Seq(Rules)
    BY DEF Host, Rules
  <2>4. h.user[1] \in Bundles /\ h.user # <<>>
    BY <2>2, <2>3 DEF Rules
  <2>5. SnapshotOwned(h) = [jump |-> h.user[1], chain |-> h.chain]
    BY <1>2 DEF SnapshotOwned
  <2>6. [jump |-> h.user[1], chain |-> h.chain] # Absent
    <3>1. [jump |-> h.user[1], chain |-> h.chain].chain # Absent.chain
      BY <1>2 DEF Absent
    <3>2. QED
      BY <3>1
  <2>7. QED
    BY <1>2, <2>1, <2>4, <2>5, <2>6 DEF Snapshot
<1>3. QED
  BY <1>1, <1>2

LEMMA SameHost ==
  ASSUME NEW h \in Host, NEW u, NEW c
  PROVE  [h EXCEPT !.user = u, !.chain = c] =
           [forward |-> h.forward, user |-> u, chain |-> c, network |-> h.network]
<1>1. PICK g : g = [h EXCEPT !.user = u, !.chain = c]
  OBVIOUS
<1>2. g \in [forward : BOOLEAN, user : {u}, chain : {c}, network : BOOLEAN]
  BY <1>1 DEF Host
<1>3. g.forward = h.forward /\ g.user = u /\ g.chain = c /\ g.network = h.network
  BY <1>1 DEF Host
<1>4. QED
  BY <1>1, <1>2, <1>3

\* What the one COMMIT of the payload does.
LEMMA AppliedIs ==
  ASSUME NEW h \in Host, NEW snap \in Snapshot, NEW b \in Bundles, NEW g \in Applied(h, snap, b)
  PROVE  \E rest \in Seq(Rules) :
           /\ g = [forward |-> h.forward, user |-> <<b>> \o rest, chain |-> b,
                   network |-> h.network]
           /\ \/ snap = Absent /\ h.chain = "none" /\ rest = h.user
              \/ snap # Absent /\ Has(h, snap.jump) /\ rest = Without(h, snap.jump)
<1>1. h.user \in Seq(Rules)
  BY DEF Host, Rules
<1>2. Without(h, snap.jump) \in Seq(Rules)
  BY <1>1, FirstOutType DEF Without
<1>3. \A u : [h EXCEPT !.user = u, !.chain = b] =
               [forward |-> h.forward, user |-> u, chain |-> b, network |-> h.network]
  BY SameHost
<1>4. CASE snap = Absent
  <2>1. h.chain = "none" /\ g = [h EXCEPT !.user = <<b>> \o @, !.chain = b]
    BY <1>4 DEF Applied
  <2>2. g = [h EXCEPT !.user = <<b>> \o h.user, !.chain = b]
    BY <2>1
  <2>3. QED
    BY <1>1, <1>3, <1>4, <2>1, <2>2
<1>5. CASE snap # Absent
  <2>1. Has(h, snap.jump) /\ g = [h EXCEPT !.user = <<b>> \o Without(h, snap.jump), !.chain = b]
    BY <1>5 DEF Applied
  <2>2. QED
    BY <1>2, <1>3, <1>5, <2>1
<1>6. QED
  BY <1>4, <1>5

LEMMA AppliedType ==
  ASSUME NEW h \in Host, NEW snap \in Snapshot, NEW b \in Bundles, NEW g \in Applied(h, snap, b)
  PROVE  g \in Host /\ g.user # <<>> /\ g.user[1] = b /\ g.chain = b /\ g.forward = h.forward
<1>1. PICK rest \in Seq(Rules) : g = [forward |-> h.forward, user |-> <<b>> \o rest, chain |-> b,
                                      network |-> h.network]
  BY AppliedIs
<1>2. b \in Rules
  BY DEF Rules
<1>3. /\ <<b>> \o rest \in Seq(Rules) /\ <<b>> \o rest # <<>> /\ (<<b>> \o rest)[1] = b
  BY <1>2, Prepended
<1>4. QED
  BY <1>1, <1>3 DEF Host, Rules, Valid

\* What the one COMMIT of the way back does.
LEMMA RolledBackIs ==
  ASSUME NEW h \in Host, NEW snap \in Snapshot, NEW b \in Bundles,
         NEW g \in RolledBack(h, snap, b)
  PROVE  /\ Has(h, b) /\ Without(h, b) \in Seq(Rules)
         /\ \/ /\ snap # Absent
               /\ g = [forward |-> h.forward, user |-> <<snap.jump>> \o Without(h, b),
                       chain |-> snap.chain, network |-> h.network]
            \/ /\ snap = Absent
               /\ g = [forward |-> h.forward, user |-> Without(h, b),
                       chain |-> "none", network |-> h.network]
<1>1. h.user \in Seq(Rules)
  BY DEF Host, Rules
<1>2. Without(h, b) \in Seq(Rules)
  BY <1>1, FirstOutType DEF Without
<1>3. \A u, c : [h EXCEPT !.user = u, !.chain = c] =
                  [forward |-> h.forward, user |-> u, chain |-> c, network |-> h.network]
  BY SameHost
<1>4. Has(h, b) /\ h.chain # "none"
  BY DEF RolledBack
<1>5. CASE snap # Absent
  <2>1. g = [h EXCEPT !.user = <<snap.jump>> \o Without(h, b), !.chain = snap.chain]
    BY <1>4, <1>5 DEF RolledBack
  <2>2. QED
    BY <1>2, <1>3, <1>4, <1>5, <2>1
<1>6. CASE snap = Absent
  <2>1. g = [h EXCEPT !.user = Without(h, b), !.chain = "none"]
    BY <1>4, <1>6 DEF RolledBack
  <2>2. QED
    BY <1>2, <1>3, <1>4, <1>6, <2>1
<1>7. QED
  BY <1>5, <1>6

LEMMA RolledBackType ==
  ASSUME NEW h \in Host, NEW snap \in Snapshot, NEW b \in Bundles,
         NEW g \in RolledBack(h, snap, b)
  PROVE  /\ g \in Host /\ g.forward = h.forward
         /\ snap # Absent => g.user # <<>> /\ g.user[1] \in Bundles /\ g.chain \in Valid
<1>1. Without(h, b) \in Seq(Rules)
  BY RolledBackIs
<1>2. CASE snap # Absent
  <2>1. g = [forward |-> h.forward, user |-> <<snap.jump>> \o Without(h, b),
             chain |-> snap.chain, network |-> h.network]
    BY <1>2, RolledBackIs
  <2>2. snap.jump \in Bundles /\ snap.chain \in Valid /\ snap.jump \in Rules
    BY <1>2 DEF Snapshot, Rules
  <2>3. PICK u : u = <<snap.jump>> \o Without(h, b)
    OBVIOUS
  <2>4. u \in Seq(Rules) /\ u # <<>> /\ u[1] = snap.jump
    BY <1>1, <2>2, <2>3, Prepended
  <2>5. QED
    BY <2>1, <2>2, <2>3, <2>4 DEF Host, Rules
<1>3. CASE snap = Absent
  <2>1. g = [forward |-> h.forward, user |-> Without(h, b), chain |-> "none",
             network |-> h.network]
    BY <1>3, RolledBackIs
  <2>2. QED
    BY <1>1, <1>3, <2>1 DEF Host, Rules
<1>4. QED
  BY <1>2, <1>3

\* The way back leads to where the payload was applied.
LEMMA ThereAndBack ==
  ASSUME NEW h \in Host, ~Refused(h), NEW b \in Bundles,
         NEW g \in Applied(h, SnapshotOwned(h), b),
         NEW k \in RolledBack(g, SnapshotOwned(h), b)
  PROVE  k = h
<1>1. SnapshotOwned(h) \in Snapshot /\ h.user \in Seq(Rules) /\ b \in Rules
  BY TakenOver DEF Host, Rules
<1>2. PICK rest \in Seq(Rules) :
        /\ g = [forward |-> h.forward, user |-> <<b>> \o rest, chain |-> b, network |-> h.network]
        /\ \/ SnapshotOwned(h) = Absent /\ h.chain = "none" /\ rest = h.user
           \/ SnapshotOwned(h) # Absent /\ rest = Without(h, SnapshotOwned(h).jump)
  BY <1>1, AppliedIs
<1>3. g \in Host
  BY <1>1, AppliedType
<1>4. Without(g, b) = rest
  BY <1>1, <1>2, FrontOut DEF Without
<1>5. h = [forward |-> h.forward, user |-> h.user, chain |-> h.chain, network |-> h.network]
  BY DEF Host
<1>6. CASE SnapshotOwned(h) = Absent
  <2>1. k = [forward |-> g.forward, user |-> rest, chain |-> "none", network |-> g.network]
    BY <1>1, <1>3, <1>4, <1>6, RolledBackIs
  <2>2. h.chain = "none" /\ rest = h.user
    BY <1>2, <1>6
  <2>3. QED
    BY <1>2, <1>5, <2>1, <2>2
<1>7. CASE SnapshotOwned(h) # Absent
  <2>1. /\ SnapshotOwned(h) = [jump |-> h.user[1], chain |-> h.chain] /\ h.user # <<>>
    BY <1>7, TakenOver
  <2>2. k = [forward |-> g.forward, user |-> <<h.user[1]>> \o rest, chain |-> h.chain,
             network |-> g.network]
    BY <1>1, <1>3, <1>4, <1>7, <2>1, RolledBackIs
  <2>3. rest = RemoveFirst(h.user, h.user[1])
    BY <1>2, <1>7, <2>1 DEF Without
  <2>4. h.user = <<h.user[1]>> \o rest
    BY <1>1, <2>1, <2>3, OutAndBack
  <2>5. QED
    BY <1>2, <1>5, <2>2, <2>4
<1>8. QED
  BY <1>6, <1>7

\* Whatever others do leaves rulesets.
LEMMA AlteredType ==
  ASSUME NEW h \in Host, NEW g \in Altered(h)
  PROVE  g \in Host
<1>1. h.user \in Seq(Rules)
  BY DEF Host, Rules
<1>2. \A u \in Seq(Rules) : [h EXCEPT !.user = u] \in Host
  BY DEF Host, Rules
<1>3. \A x \in {"foreign", "bare"} : <<x>> \o h.user \in Seq(Rules)
  BY <1>1, Prepended DEF Rules
<1>4. \A i \in DOMAIN h.user : RemoveAt(h.user, i) \in Seq(Rules)
  <2>1. DOMAIN h.user = 1..Len(h.user)
    BY <1>1
  <2>2. QED
    BY <1>1, <2>1, TakenOut
<1>5. \A c \in {"foreign", "other", "none"} : [h EXCEPT !.chain = c] \in Host
  BY DEF Host, Valid
<1>6. [h EXCEPT !.forward = ~@] \in Host /\ [h EXCEPT !.network = ~@] \in Host
  BY DEF Host
<1>7. \/ g = [h EXCEPT !.user = <<"foreign">> \o h.user]
      \/ g = [h EXCEPT !.user = <<"bare">> \o h.user]
      \/ g = [h EXCEPT !.forward = ~@] \/ g = [h EXCEPT !.network = ~@]
      \/ \E i \in DOMAIN h.user : g = [h EXCEPT !.user = RemoveAt(h.user, i)]
      \/ \E c \in {"foreign", "other", "none"} : g = [h EXCEPT !.chain = c]
  BY DEF Altered
<1>8. QED
  BY <1>2, <1>3, <1>4, <1>5, <1>6, <1>7

-----------------------------------------------------------------------------
(* Types.                                                                  *)

RunType == [pc : {"idle"} \cup Held \cup Orphans \cup Ended,
            bundle : Bundles, snap : Snapshot, committed : BOOLEAN]

LEMMA RunOf ==
  ASSUME TypeOK, NEW r \in Runs
  PROVE  /\ run[r] \in RunType /\ run[r].bundle \in Bundles /\ run[r].snap \in Snapshot
         /\ found[r] \in Host /\ host \in Host
BY DEF TypeOK, RunType

\* The two ways in which a run changes the host.
LEMMA ChangeType ==
  ASSUME TypeOK, NEW r \in Runs, NEW h \in Host, Change(r, h)
  PROVE  host' \in Host /\ alone' \in [Runs -> BOOLEAN]
BY DEF TypeOK, Change

LEMMA GotoType ==
  ASSUME TypeOK, NEW r \in Runs, NEW pc \in {"idle"} \cup Held \cup Orphans \cup Ended, Goto(r, pc)
  PROVE  run' \in [Runs -> RunType]
BY DEF TypeOK, Goto, RunType

LEMMA TypeStep ==
  ASSUME TypeOK, [Next]_vars
  PROVE  TypeOK'
<1> DEFINE Typed ==
      /\ host' \in Host /\ lock' \in Runs \cup {Nobody} /\ run' \in [Runs -> RunType]
      /\ found' \in [Runs -> Host] /\ alone' \in [Runs -> BOOLEAN]
      /\ effect' \in [Runs -> BOOLEAN] /\ others' \in 0..MaxOthers
      /\ failures' \in 0..MaxFailures
<1>a. SUFFICES Typed
  BY DEF TypeOK, RunType
<1>b. /\ host \in Host /\ lock \in Runs \cup {Nobody} /\ run \in [Runs -> RunType]
      /\ found \in [Runs -> Host] /\ alone \in [Runs -> BOOLEAN]
      /\ effect \in [Runs -> BOOLEAN] /\ others \in 0..MaxOthers
      /\ failures \in 0..MaxFailures /\ Nobody \in Runs \cup {Nobody}
  BY DEF TypeOK, RunType
<1>c. /\ failures < MaxFailures => failures + 1 \in 0..MaxFailures
      /\ others < MaxOthers => others + 1 \in 0..MaxOthers
  BY <1>b, EgressAssumption
<1>d. \A r \in Runs, code \in Ended \cup Orphans :
        Finish(r, code) => run' \in [Runs -> RunType] /\ lock' \in Runs \cup {Nobody}
  BY GotoType DEF Finish
<1>e. \A r \in Runs : AfterFailedCheck(r) => run' \in [Runs -> RunType] /\ lock' = lock
  BY GotoType DEF AfterFailedCheck, Held
<1>f. \A r \in Runs : \A h \in Applied(host, run[r].snap, run[r].bundle) :
        Change(r, h) => host' \in Host /\ alone' \in [Runs -> BOOLEAN]
  BY <1>b, RunOf, AppliedType, ChangeType
<1>g. \A r \in Runs : \A h \in RolledBack(host, run[r].snap, run[r].bundle) :
        Change(r, h) => host' \in Host /\ alone' \in [Runs -> BOOLEAN]
  BY <1>b, RunOf, RolledBackType, ChangeType
<1>1. ASSUME NEW r \in Runs, Lock(r) PROVE Typed
  <2>1. run' \in [Runs -> RunType]
    BY <1>1, GotoType DEF Lock, Held, Ended
  <2>2. QED
    BY <1>1, <1>b, <2>1 DEF Lock
<1>2. ASSUME NEW r \in Runs, InspectNetwork(r) PROVE Typed
  <2>1. run' \in [Runs -> RunType]
    BY <1>2, GotoType DEF InspectNetwork, Held, Ended
  <2>2. QED
    BY <1>2, <1>b, <2>1 DEF InspectNetwork
<1>3. ASSUME NEW r \in Runs, TakeSnapshot(r) PROVE Typed
  <2>1. SnapshotOwned(host) \in Snapshot
    BY <1>3, <1>b, TakenOver DEF TakeSnapshot
  <2>2. QED
    BY <1>3, <1>b, <2>1 DEF TakeSnapshot, RunType, Held
<1>4. ASSUME NEW r \in Runs, Stop(r) PROVE Typed
  BY <1>4, <1>b, <1>d DEF Stop, Ended
<1>5. ASSUME NEW r \in Runs, Restore(r) PROVE Typed
  <2>1. host' \in Host /\ alone' \in [Runs -> BOOLEAN]
    BY <1>5, <1>f DEF Restore
  <2>2. QED
    BY <1>5, <1>b, <2>1 DEF Restore, RunType, Held
<1>6. ASSUME NEW r \in Runs, RestoreTimesOut(r) PROVE Typed
  <2>1. host' \in Host /\ alone' \in [Runs -> BOOLEAN]
    BY <1>6, <1>f DEF RestoreTimesOut
  <2>2. QED
    BY <1>6, <1>b, <1>c, <1>d, <2>1 DEF RestoreTimesOut, Ended
<1>7. ASSUME NEW r \in Runs, Verify(r) PROVE Typed
  <2>1. run' \in [Runs -> RunType] /\ lock' \in Runs \cup {Nobody}
    BY <1>7, <1>b, <1>d, <1>e DEF Verify, Ended
  <2>2. alone' \in [Runs -> BOOLEAN]
    BY <1>7, <1>b DEF Verify
  <2>3. QED
    BY <1>7, <1>b, <2>1, <2>2 DEF Verify
<1>8. ASSUME NEW r \in Runs, LoseNetwork(r) PROVE Typed
  BY <1>8, <1>b, <1>e DEF LoseNetwork
<1>9. ASSUME NEW r \in Runs, CommandFails(r) PROVE Typed
  <2>1. run' \in [Runs -> RunType] /\ lock' \in Runs \cup {Nobody}
    BY <1>9, <1>b, <1>d, <1>e DEF CommandFails, Ended
  <2>2. QED
    BY <1>9, <1>b, <1>c, <2>1 DEF CommandFails
<1>10. ASSUME NEW r \in Runs, RollBack(r) PROVE Typed
  <2>1. run' \in [Runs -> RunType] /\ lock' \in Runs \cup {Nobody}
    BY <1>10, <1>d DEF RollBack, Ended
  <2>2. host' \in Host /\ alone' \in [Runs -> BOOLEAN] /\ effect' \in [Runs -> BOOLEAN]
    BY <1>10, <1>b, <1>g DEF RollBack
  <2>3. QED
    BY <1>10, <1>b, <2>1, <2>2 DEF RollBack
<1>11. ASSUME NEW r \in Runs, RollBackFails(r) PROVE Typed
  <2>1. run' \in [Runs -> RunType] /\ lock' \in Runs \cup {Nobody}
    BY <1>11, <1>d DEF RollBackFails, Ended
  <2>2. host' \in Host /\ alone' \in [Runs -> BOOLEAN] /\ effect' \in [Runs -> BOOLEAN]
    BY <1>11, <1>b, <1>g DEF RollBackFails
  <2>3. QED
    BY <1>11, <1>b, <1>c, <2>1, <2>2 DEF RollBackFails
<1>12. ASSUME NEW r \in Runs, Kill(r) PROVE Typed
  <2>1. run' \in [Runs -> RunType] /\ lock' \in Runs \cup {Nobody}
    BY <1>12, <1>d DEF Kill, Survivor, Orphans, Ended
  <2>2. QED
    BY <1>12, <1>b, <1>c, <2>1 DEF Kill
<1>13. ASSUME NEW r \in Runs, OrphanEnds(r) PROVE Typed
  <2>1. run' \in [Runs -> RunType]
    BY <1>13, GotoType DEF OrphanEnds, Ended
  <2>2. host' \in Host /\ alone' \in [Runs -> BOOLEAN] /\ effect' \in [Runs -> BOOLEAN]
    BY <1>13, <1>b, <1>f, <1>g DEF OrphanEnds
  <2>3. QED
    BY <1>13, <1>b, <2>1, <2>2 DEF OrphanEnds
<1>14. CASE Others
  <2>1. host' \in Host
    BY <1>14, <1>b, AlteredType DEF Others
  <2>2. QED
    BY <1>14, <1>b, <1>c, <2>1 DEF Others
<1>15. CASE Reboot
  <2>1. host' \in Host
    <3>1. host' \in [forward : {TRUE}, user : {<<>>}, chain : {"none"}, network : BOOLEAN]
      BY <1>15, <1>b DEF Reboot, Host
    <3>2. <<>> \in Seq(Rules)
      OBVIOUS
    <3>3. QED
      BY <3>1, <3>2 DEF Host, Rules
  <2>2. run' \in [Runs -> RunType]
    BY <1>15, <1>b DEF Reboot, RunType, Ended
  <2>3. QED
    BY <1>15, <1>b, <1>c, <2>1, <2>2 DEF Reboot
<1>16. CASE UNCHANGED vars
  BY <1>16, <1>b DEF vars
<1>17. QED
  BY <1>1, <1>2, <1>3, <1>4, <1>5, <1>6, <1>7, <1>8, <1>9, <1>10, <1>11, <1>12, <1>13,
     <1>14, <1>15, <1>16 DEF Next, ToolStep

LEMMA InitType == Init => TypeOK
<1>1. SUFFICES ASSUME Init PROVE TypeOK
  OBVIOUS
<1>2. host \in Host
  <2>1. \A u \in {<<>>, <<"foreign">>} : u \in Seq(Rules)
    <3>1. <<>> \in Seq(Rules)
      OBVIOUS
    <3>2. <<"foreign">> \in Seq(Rules)
      BY DEF Rules
    <3>3. QED
      BY <3>1, <3>2
  <2>2. \A b \in Bundles : <<b>> \in Seq(Rules)
    BY DEF Rules
  <2>3. CASE host \in [forward : {TRUE}, user : {<<>>, <<"foreign">>}, chain : {"none"},
                      network : {TRUE}]
    BY <2>1, <2>3 DEF Host, Rules
  <2>4. ASSUME NEW b \in Bundles,
               host = [forward |-> TRUE, user |-> <<b>>, chain |-> b, network |-> TRUE]
        PROVE  host \in Host
    BY <2>2, <2>4 DEF Host, Rules, Valid
  <2>5. QED
    BY <1>1, <2>3, <2>4 DEF Init
<1>3. run \in [Runs -> RunType]
  BY <1>1 DEF Init, RunType, Snapshot
<1>4. QED
  BY <1>1, <1>2, <1>3, EgressAssumption DEF Init, TypeOK, RunType

\* The ruleset stays one that the installer knows, and each run has a bundle, a
\* snapshot it can go back to and a place.  (apply_bundle)
THEOREM EgressTypeCorrect == Spec => []TypeOK
BY InitType, TypeStep, PTL DEF Spec

-----------------------------------------------------------------------------
(* What a run leaves behind.                                               *)

Before == {"idle", "locked", "network", "rules", "restore"}
After  == {"recheck", "verify", "rollback"}

\* A run knows the host it found, as long as nobody else changes it: before its
\* restore the host is as it was, after it as the payload made it, and after
\* the rollback again as it was.
FoundOK(r) ==
  /\ run[r].pc \in Before =>
       ~run[r].committed /\ ~effect[r] /\ (alone[r] => host = found[r])
  /\ run[r].pc \in After =>
       run[r].committed /\ (alone[r] => host \in Applied(found[r], run[r].snap, run[r].bundle))
  /\ run[r].pc \in {"restore"} \cup After =>
       ~Refused(found[r]) /\ run[r].snap = SnapshotOwned(found[r])
  /\ run[r].pc = "failed" /\ alone[r] /\ (effect[r] => run[r].committed) => host = found[r]

EnforcedOK(r) ==
  run[r].pc = "ok" /\ alone[r] =>
    Filtered(host) /\ host.user[1] = run[r].bundle /\ host.chain = run[r].bundle

RunOK(r) == FoundOK(r) /\ EnforcedOK(r)

Inv == TypeOK /\ \A r \in Runs : RunOK(r)

\* A run is not touched by what others do, or is no longer alone.
LEMMA RunKeeps ==
  ASSUME NEW r \in Runs, RunOK(r), run'[r] = run[r], found'[r] = found[r],
         effect'[r] = effect[r], alone'[r] => alone[r] /\ host' = host
  PROVE  RunOK(r)'
<1>1. FoundOK(r)'
  BY DEF RunOK, FoundOK
<1>2. EnforcedOK(r)'
  BY DEF RunOK, EnforcedOK
<1>3. QED
  BY <1>1, <1>2 DEF RunOK

LEMMA OthersKeep ==
  ASSUME TypeOK, NEW q \in Runs, ToolStep(q), NEW r \in Runs, r # q
  PROVE  /\ run'[r] = run[r] /\ found'[r] = found[r] /\ effect'[r] = effect[r]
         /\ alone'[r] => alone[r] /\ host' = host
<1>1. /\ run \in [Runs -> RunType] /\ found \in [Runs -> Host] /\ alone \in [Runs -> BOOLEAN]
      /\ effect \in [Runs -> BOOLEAN]
  BY DEF TypeOK, RunType
<1>2. \A pc : Goto(q, pc) => run'[r] = run[r]
  BY <1>1 DEF Goto
<1>3. \A h : Change(q, h) => (alone'[r] => alone[r] /\ host' = host)
  BY <1>1 DEF Change
<1>4. CASE Restore(q) \/ RestoreTimesOut(q) \/ OrphanEnds(q)
  BY <1>1, <1>2, <1>3, <1>4 DEF Restore, RestoreTimesOut, OrphanEnds, Finish
<1>5. CASE RollBack(q) \/ RollBackFails(q)
  BY <1>1, <1>2, <1>3, <1>5 DEF RollBack, RollBackFails, Finish
<1>6. CASE Lock(q) \/ InspectNetwork(q) \/ TakeSnapshot(q) \/ Stop(q) \/ Verify(q)
        \/ LoseNetwork(q) \/ CommandFails(q) \/ Kill(q)
  BY <1>1, <1>2, <1>6 DEF Lock, InspectNetwork, TakeSnapshot, Stop, Verify, LoseNetwork,
     CommandFails, Kill, Finish, AfterFailedCheck
<1>7. QED
  BY <1>4, <1>5, <1>6 DEF ToolStep

\* Places where nothing is claimed of a run.
LEMMA Nothing ==
  ASSUME NEW r \in Runs, run'[r].pc \in {"killed", "rollback_failed"} \cup Orphans
  PROVE  RunOK(r)'
BY DEF Orphans, RunOK, FoundOK, EnforcedOK, Before, After

\* A run that has not changed the host and goes on, or stops.
LEMMA UntouchedStep ==
  ASSUME TypeOK, NEW r \in Runs, RunOK(r), run[r].pc \in Before,
         NEW pc \in {"locked", "network", "rules", "failed"}, Goto(r, pc),
         UNCHANGED <<host, found, alone, effect>>
  PROVE  RunOK(r)'
<1>1. /\ run'[r].pc = pc /\ run'[r].committed = run[r].committed
      /\ run'[r].bundle = run[r].bundle
  BY DEF Goto, TypeOK
<1>2. FoundOK(r)'
  BY <1>1 DEF RunOK, FoundOK, Before, After
<1>3. EnforcedOK(r)'
  BY <1>1 DEF EnforcedOK
<1>4. QED
  BY <1>2, <1>3 DEF RunOK

\* A run whose restore is in force goes on to the check or back.
LEMMA TouchedStep ==
  ASSUME TypeOK, NEW r \in Runs, RunOK(r), run[r].pc \in After,
         NEW pc \in {"verify", "rollback"}, Goto(r, pc),
         UNCHANGED <<host, found, alone, effect>>
  PROVE  RunOK(r)'
<1>1. /\ run'[r].pc = pc /\ run'[r].committed = run[r].committed
      /\ run'[r].bundle = run[r].bundle /\ run'[r].snap = run[r].snap
  BY DEF Goto, TypeOK
<1>2. FoundOK(r)'
  BY <1>1 DEF RunOK, FoundOK, Before, After
<1>3. EnforcedOK(r)'
  BY <1>1 DEF EnforcedOK
<1>4. QED
  BY <1>2, <1>3 DEF RunOK

LEMMA OwnStep ==
  ASSUME TypeOK, NEW r \in Runs, RunOK(r), ToolStep(r)
  PROVE  RunOK(r)'
<1>a. /\ run \in [Runs -> RunType] /\ found \in [Runs -> Host] /\ alone \in [Runs -> BOOLEAN]
      /\ effect \in [Runs -> BOOLEAN] /\ FoundOK(r)
  BY DEF TypeOK, RunType, RunOK
<1>b. \A pc : Goto(r, pc) => run'[r] = [run[r] EXCEPT !.pc = pc] /\ run'[r].pc = pc
  BY <1>a DEF Goto, RunType
<1>1. CASE Lock(r)
  BY <1>1, <1>a, UntouchedStep DEF Lock, Before
<1>2. CASE InspectNetwork(r)
  <2>1. CASE run[r].pc = "network"
    BY <1>2, <2>1, UntouchedStep DEF InspectNetwork, Before
  <2>2. CASE run[r].pc = "recheck"
    BY <1>2, <2>2, TouchedStep DEF InspectNetwork, After
  <2>3. QED
    BY <1>2, <2>1, <2>2 DEF InspectNetwork
<1>3. CASE TakeSnapshot(r)
  <2>1. /\ run'[r].pc = "restore" /\ run'[r].snap = SnapshotOwned(host)
        /\ run'[r].committed = run[r].committed /\ found'[r] = host /\ host' = host
        /\ effect' = effect /\ ~Refused(host) /\ run[r].pc \in Before
    BY <1>3, <1>a DEF TakeSnapshot, RunType, Before
  <2>2. FoundOK(r)'
    BY <1>a, <2>1 DEF FoundOK, Before, After
  <2>3. EnforcedOK(r)'
    BY <2>1 DEF EnforcedOK
  <2>4. QED
    BY <2>2, <2>3 DEF RunOK
<1>4. CASE Stop(r)
  BY <1>4, UntouchedStep DEF Stop, Before, Finish
<1>5. CASE Restore(r)
  <2>1. PICK h \in Applied(host, run[r].snap, run[r].bundle) : Change(r, h)
    BY <1>5 DEF Restore
  <2>2. /\ run'[r].pc = "recheck" /\ run'[r].committed /\ run'[r].snap = run[r].snap
        /\ run'[r].bundle = run[r].bundle /\ found' = found /\ host' = h
        /\ alone'[r] = alone[r] /\ run[r].pc = "restore"
    BY <1>5, <1>a, <2>1 DEF Restore, RunType, Change
  <2>3. FoundOK(r)'
    BY <1>a, <2>1, <2>2 DEF FoundOK, Before, After
  <2>4. EnforcedOK(r)'
    BY <2>2 DEF EnforcedOK
  <2>5. QED
    BY <2>3, <2>4 DEF RunOK
<1>6. CASE RestoreTimesOut(r)
  <2>1. /\ run'[r].pc = "failed" /\ run'[r].committed = run[r].committed /\ effect'[r]
        /\ run[r].pc = "restore"
    BY <1>6, <1>a DEF RestoreTimesOut, Finish, Goto, RunType
  <2>2. ~run'[r].committed
    BY <1>a, <2>1 DEF FoundOK, Before
  <2>3. QED
    BY <2>1, <2>2 DEF RunOK, FoundOK, EnforcedOK, Before, After
<1>7. CASE Verify(r)
  <2>1. CASE Passes(host, run[r].bundle)
    <3>1. /\ run'[r].pc = "ok" /\ run'[r].bundle = run[r].bundle /\ host' = host
          /\ run[r].bundle \in Bundles
      BY <1>7, <1>a, <2>1 DEF Verify, Finish, Goto, RunType
    <3>2. EnforcedOK(r)'
      BY <2>1, <3>1 DEF EnforcedOK, Passes, Filtered, Valid
    <3>3. FoundOK(r)'
      BY <3>1 DEF FoundOK, Before, After
    <3>4. QED
      BY <3>2, <3>3 DEF RunOK
  <2>2. CASE ~Passes(host, run[r].bundle)
    BY <1>7, <2>2, TouchedStep DEF Verify, AfterFailedCheck, After
  <2>3. QED
    BY <2>1, <2>2
<1>8. CASE LoseNetwork(r)
  BY <1>8, TouchedStep DEF LoseNetwork, AfterFailedCheck, After
<1>9. CASE CommandFails(r)
  <2>1. CASE run[r].committed
    <3>1. run[r].pc \in After
      BY <1>9, <1>a, <2>1 DEF CommandFails, FoundOK, Before, After, Held
    <3>2. QED
      BY <1>9, <2>1, <3>1, TouchedStep DEF CommandFails, AfterFailedCheck
  <2>2. CASE ~run[r].committed
    <3>1. run[r].pc \in Before
      BY <1>9, <1>a, <2>2 DEF CommandFails, FoundOK, Before, After, Held
    <3>2. QED
      BY <1>9, <2>2, <3>1, UntouchedStep DEF CommandFails, Finish
  <2>3. QED
    BY <2>1, <2>2
<1>10. CASE RollBack(r)
  <2>1. CASE RolledBack(host, run[r].snap, run[r].bundle) = {}
    BY <1>10, <1>b, <2>1, Nothing DEF RollBack, Finish
  <2>2. CASE RolledBack(host, run[r].snap, run[r].bundle) # {}
    <3>1. PICK h \in RolledBack(host, run[r].snap, run[r].bundle) : Change(r, h)
      BY <1>10, <2>2 DEF RollBack
    <3>2. /\ run'[r].pc = "failed" /\ host' = h /\ alone'[r] = alone[r] /\ found' = found
          /\ run[r].pc = "rollback" /\ run[r].bundle \in Bundles /\ found[r] \in Host
      BY <1>10, <1>a, <1>b, <2>2, <3>1 DEF RollBack, Finish, Change, RunType
    <3>3. alone[r] => h = found[r]
      <4>1. SUFFICES ASSUME alone[r] PROVE h = found[r]
        OBVIOUS
      <4>2. /\ ~Refused(found[r]) /\ run[r].snap = SnapshotOwned(found[r])
            /\ host \in Applied(found[r], run[r].snap, run[r].bundle)
        BY <1>a, <3>2, <4>1 DEF FoundOK, After
      <4>3. PICK h0, h1, b, s : /\ h0 = found[r] /\ h1 = host /\ b = run[r].bundle
                                /\ s = run[r].snap
        OBVIOUS
      <4>4. /\ h0 \in Host /\ ~Refused(h0) /\ b \in Bundles /\ s = SnapshotOwned(h0)
            /\ h1 \in Applied(h0, SnapshotOwned(h0), b)
            /\ h \in RolledBack(h1, SnapshotOwned(h0), b)
        BY <3>1, <3>2, <4>2, <4>3
      <4>5. h = h0
        BY <4>4, ThereAndBack
      <4>6. QED
        BY <4>3, <4>5
    <3>4. QED
      BY <3>2, <3>3 DEF RunOK, FoundOK, EnforcedOK, Before, After
  <2>3. QED
    BY <2>1, <2>2
<1>11. CASE RollBackFails(r)
  BY <1>11, <1>b, Nothing DEF RollBackFails, Finish
<1>12. CASE Kill(r)
  BY <1>12, <1>b, Nothing DEF Kill, Survivor, Orphans, Finish
<1>13. CASE OrphanEnds(r)
  BY <1>13, <1>b, Nothing DEF OrphanEnds
<1>14. QED
  BY <1>1, <1>2, <1>3, <1>4, <1>5, <1>6, <1>7, <1>8, <1>9, <1>10, <1>11, <1>12, <1>13
  DEF ToolStep

LEMMA NextInv ==
  ASSUME Inv, [Next]_vars
  PROVE  Inv'
<1>a. TypeOK /\ TypeOK' /\ \A r \in Runs : RunOK(r)
  BY TypeStep DEF Inv
<1>1. SUFFICES ASSUME NEW r \in Runs PROVE RunOK(r)'
  BY <1>a DEF Inv
<1>2. ASSUME NEW q \in Runs, ToolStep(q) PROVE RunOK(r)'
  <2>1. CASE q = r
    BY <1>a, <1>2, <2>1, OwnStep
  <2>2. CASE q # r
    BY <1>a, <1>2, <2>2, OthersKeep, RunKeeps
  <2>3. QED
    BY <2>1, <2>2
<1>3. CASE Others
  BY <1>a, <1>3, RunKeeps DEF Others
<1>4. CASE Reboot
  <2>1. CASE run[r].pc \in Held \cup Orphans
    <3>1. run'[r].pc = "killed"
      BY <1>a, <1>4, <2>1 DEF Reboot, TypeOK
    <3>2. QED
      BY <3>1, Nothing
  <2>2. CASE run[r].pc \notin Held \cup Orphans
    BY <1>a, <1>4, <2>2, RunKeeps DEF Reboot
  <2>3. QED
    BY <2>1, <2>2
<1>5. CASE UNCHANGED vars
  BY <1>a, <1>5, RunKeeps DEF vars
<1>6. QED
  BY <1>2, <1>3, <1>4, <1>5 DEF Next

LEMMA InitInv == Init => Inv
<1>1. SUFFICES ASSUME Init PROVE Inv
  OBVIOUS
<1>2. ASSUME NEW r \in Runs PROVE RunOK(r)
  <2>1. run[r].pc = "idle" /\ ~run[r].committed /\ found[r] = host /\ ~effect[r]
    BY <1>1 DEF Init
  <2>2. QED
    BY <2>1 DEF RunOK, FoundOK, EnforcedOK, Before, After
<1>3. QED
  BY <1>1, <1>2, InitType DEF Inv

\* A run knows what it found and what it made of it.  (apply_bundle)
THEOREM EgressInvariant == Spec => []Inv
BY InitInv, NextInv, PTL DEF Spec

\* After a run that says "ok" the host enforces its bundle until another run or
\* somebody else changes it.  (the second inspection)
THEOREM OkMeansEnforced == Spec => []OkIsEnforced
<1>1. Inv => OkIsEnforced
  BY DEF Inv, RunOK, EnforcedOK, OkIsEnforced
<1>2. QED
  BY <1>1, EgressInvariant, PTL

\* A run that fails, and knows it, has left the rules as it found them: the
\* rollback is the inverse of the restore.  (the except clause of apply_bundle)
THEOREM FailuresLeaveNothing == Spec => []FailureLeavesNothing
<1>1. Inv => FailureLeavesNothing
  BY DEF Inv, RunOK, FoundOK, FailureLeavesNothing
<1>2. QED
  BY <1>1, EgressInvariant, PTL

-----------------------------------------------------------------------------
(* What a step never does.                                                 *)

\* The steps of a run that change the host.
LEMMA HostChanges ==
  ASSUME NEW r \in Runs, ToolStep(r)
  PROVE  \/ host' = host
         \/ host' \in Applied(host, run[r].snap, run[r].bundle)
         \/ host' \in RolledBack(host, run[r].snap, run[r].bundle)
<1>1. CASE Restore(r) \/ RestoreTimesOut(r)
  BY <1>1 DEF Restore, RestoreTimesOut, Change
<1>2. CASE RollBack(r) \/ RollBackFails(r) \/ OrphanEnds(r)
  BY <1>2 DEF RollBack, RollBackFails, OrphanEnds, Change
<1>3. CASE ~(\/ Restore(r) \/ RestoreTimesOut(r) \/ OrphanEnds(r)
             \/ RollBack(r) \/ RollBackFails(r))
  BY <1>3 DEF ToolStep, Lock, InspectNetwork, TakeSnapshot, Stop, Verify, LoseNetwork,
     CommandFails, Kill
<1>4. QED
  BY <1>1, <1>2, <1>3

\* No step of the tool opens a bridge that was filtered, unless it takes back
\* its own rules from a host that had none.  (the single COMMIT of both payloads)
THEOREM StepsNeverOpen == Spec => NeverOpens
<1> DEFINE Closed == \A r \in Runs :
      ToolStep(r) /\ Filtered(host) /\ run[r].snap # Absent => Filtered(host')
<1>1. TypeOK => [Closed]_vars
  <2>1. SUFFICES ASSUME TypeOK, NEW r \in Runs, ToolStep(r), Filtered(host),
                        run[r].snap # Absent
                 PROVE  Filtered(host')
    OBVIOUS
  <2>2. host \in Host /\ run[r].bundle \in Bundles /\ run[r].snap \in Snapshot
    BY <2>1, RunOf
  <2>3. CASE host' = host
    BY <2>1, <2>3
  <2>4. CASE host' \in Applied(host, run[r].snap, run[r].bundle)
    <3>1. /\ host'.user # <<>> /\ host'.user[1] = run[r].bundle
          /\ host'.chain = run[r].bundle /\ host'.forward = host.forward
      BY <2>2, <2>4, AppliedType
    <3>2. QED
      BY <2>1, <2>2, <3>1 DEF Filtered, Valid
  <2>5. CASE host' \in RolledBack(host, run[r].snap, run[r].bundle)
    <3>1. /\ host'.user # <<>> /\ host'.user[1] \in Bundles
          /\ host'.chain \in Valid /\ host'.forward = host.forward
      BY <2>1, <2>2, <2>5, RolledBackType
    <3>2. QED
      BY <2>1, <3>1 DEF Filtered
  <2>6. QED
    BY <2>1, <2>3, <2>4, <2>5, HostChanges
<1>2. QED
  BY <1>1, EgressTypeCorrect, PTL DEF NeverOpens

\* A list keeps its foreign rules when a jump is put in front, and when one is
\* taken out.
LEMMA FrontKeeps ==
  ASSUME NEW s \in Seq(Rules), NEW b \in Bundles
  PROVE  KeepsForeign(s, <<b>> \o s)
<1>0. PICK t : t = <<b>> \o s
  OBVIOUS
<1>1. /\ t \in Seq(Rules) /\ Len(t) = Len(s) + 1 /\ t[1] = b /\ Len(s) \in Nat
      /\ \A i \in 1..Len(s) : t[i + 1] = s[i]
  BY <1>0, Prepended DEF Rules
<1>2. PICK A, B : A = Foreign(s) /\ B = Foreign(t)
  OBVIOUS
<1>3. /\ \A i \in A : i \in 1..Len(s) /\ s[i] \notin Bundles
      /\ \A i \in 1..Len(s) : s[i] \notin Bundles => i \in A
      /\ \A i \in B : i \in 1..(Len(s) + 1) /\ t[i] \notin Bundles
      /\ \A i \in 1..(Len(s) + 1) : t[i] \notin Bundles => i \in B
  BY <1>1, <1>2 DEF Foreign
<1>4. PICK f : f = [i \in A |-> i + 1]
  OBVIOUS
<1>5. \A i \in A : i + 1 \in B /\ f[i] = i + 1 /\ t[i + 1] = s[i]
  BY <1>1, <1>3, <1>4
<1>6. f \in [A -> B]
  BY <1>4, <1>5
<1>7. \A i, j \in A : i < j => f[i] < f[j]
  BY <1>1, <1>3, <1>5
<1>8. ASSUME NEW k \in B PROVE \E i \in A : f[i] = k
  <2>1. k # 1
    BY <1>1, <1>3
  <2>2. k - 1 \in 1..Len(s) /\ k - 1 + 1 = k
    BY <1>1, <1>3, <2>1
  <2>3. k - 1 \in A
    BY <1>1, <1>3, <2>2
  <2>4. QED
    BY <1>5, <2>2, <2>3
<1>9. \A i \in A : t[f[i]] = s[i]
  BY <1>5
<1>10. \E g \in [A -> B] : /\ \A i \in A : t[g[i]] = s[i]
                           /\ \A i, j \in A : i < j => g[i] < g[j]
                           /\ \A k \in B : \E i \in A : g[i] = k
  BY <1>6, <1>7, <1>8, <1>9
<1>11. KeepsForeign(s, t)
  BY <1>2, <1>10 DEF KeepsForeign
<1>12. QED
  BY <1>0, <1>11

LEMMA OutKeeps ==
  ASSUME NEW s \in Seq(Rules), NEW x \in Bundles
  PROVE  KeepsForeign(s, RemoveFirst(s, x))
<1>0. PICK t : t = RemoveFirst(s, x)
  OBVIOUS
<1>1. PICK A, B : A = Foreign(s) /\ B = Foreign(t)
  OBVIOUS
<1>2. /\ \A i \in A : i \in 1..Len(s) /\ s[i] \notin Bundles /\ Len(s) \in Nat
      /\ \A i \in 1..Len(s) : s[i] \notin Bundles => i \in A
  BY <1>1 DEF Foreign
<1>3. CASE \E i \in 1..Len(s) : s[i] = x
  <2>1. PICK k \in 1..Len(s) : s[k] = x /\ t = RemoveAt(s, k)
    BY <1>0, <1>3, FirstOut
  <2>2. /\ t \in Seq(Rules) /\ Len(t) = Len(s) - 1 /\ Len(s) \in Nat
        /\ \A i \in 1..(Len(s) - 1) : t[i] = IF i < k THEN s[i] ELSE s[i + 1]
    <3>1. PICK n : n = k
      OBVIOUS
    <3>2. n \in 1..Len(s) /\ t = RemoveAt(s, n)
      BY <2>1, <3>1
    <3>a. /\ RemoveAt(s, n) \in Seq(Rules) /\ Len(RemoveAt(s, n)) = Len(s) - 1
          /\ \A i \in 1..(Len(s) - 1) :
               RemoveAt(s, n)[i] = IF i < n THEN s[i] ELSE s[i + 1]
      <4>1. n \in 1..Len(s)
        BY <3>2
      <4>2. QED
        BY <4>1, TakenOut
    <3>b. Len(s) \in Nat
      OBVIOUS
    <3>3. /\ t \in Seq(Rules) /\ Len(t) = Len(s) - 1 /\ Len(s) \in Nat
          /\ \A i \in 1..(Len(s) - 1) : t[i] = IF i < n THEN s[i] ELSE s[i + 1]
      BY <3>2, <3>a, <3>b
    <3>4. QED
      BY <3>1, <3>3
  <2>3. /\ \A i \in B : i \in 1..(Len(s) - 1) /\ t[i] \notin Bundles
        /\ \A i \in 1..(Len(s) - 1) : t[i] \notin Bundles => i \in B
    BY <1>1, <2>2 DEF Foreign
  <2>4. PICK f : f = [i \in A |-> IF i < k THEN i ELSE i - 1]
    OBVIOUS
  <2>5. ASSUME NEW i \in A
        PROVE  f[i] \in B /\ t[f[i]] = s[i] /\ f[i] = IF i < k THEN i ELSE i - 1
    <3>1. i # k /\ i \in 1..Len(s) /\ s[i] \notin Bundles
      BY <1>2, <2>1
    <3>2. CASE i < k
      <4>1. f[i] = i /\ i \in 1..(Len(s) - 1) /\ t[i] = s[i]
        BY <2>2, <2>4, <3>1, <3>2
      <4>2. QED
        BY <2>3, <3>1, <3>2, <4>1
    <3>3. CASE ~(i < k)
      <4>1. f[i] = i - 1 /\ i - 1 \in 1..(Len(s) - 1) /\ ~(i - 1 < k) /\ i - 1 + 1 = i
        BY <2>2, <2>4, <3>1, <3>3
      <4>2. t[i - 1] = s[i]
        BY <2>2, <4>1
      <4>3. QED
        BY <2>3, <3>1, <3>3, <4>1, <4>2
    <3>4. QED
      BY <3>2, <3>3
  <2>6. f \in [A -> B]
    BY <2>4, <2>5
  <2>7. ASSUME NEW i \in A, NEW j \in A, i < j PROVE f[i] < f[j]
    <3>1. i # k /\ j # k /\ i \in 1..Len(s) /\ j \in 1..Len(s)
      BY <1>2, <2>1
    <3>2. QED
      BY <2>2, <2>5, <2>7, <3>1
  <2>8. ASSUME NEW n \in B PROVE \E i \in A : f[i] = n
    <3>1. n \in 1..(Len(s) - 1) /\ t[n] \notin Bundles
      BY <2>3
    <3>2. CASE n < k
      <4>1. n \in A
        BY <1>2, <2>2, <3>1, <3>2
      <4>2. QED
        BY <2>5, <3>2, <4>1
    <3>3. CASE ~(n < k)
      <4>1. n + 1 \in 1..Len(s) /\ ~(n + 1 < k) /\ n + 1 - 1 = n
        BY <2>2, <3>1, <3>3
      <4>2. n + 1 \in A
        BY <1>2, <2>2, <3>1, <3>3, <4>1
      <4>3. PICK m : m = n + 1
        OBVIOUS
      <4>4. f[m] = IF m < k THEN m ELSE m - 1
        BY <2>5, <4>2, <4>3
      <4>a. ~(m < k) /\ m - 1 = n
        BY <2>2, <3>1, <3>3, <4>3
      <4>5. f[m] = n
        BY <4>4, <4>a
      <4>6. QED
        BY <4>2, <4>3, <4>5
    <3>4. QED
      BY <3>2, <3>3
  <2>9. QED
    BY <1>0, <1>1, <2>5, <2>6, <2>7, <2>8 DEF KeepsForeign
<1>4. CASE ~(\E i \in 1..Len(s) : s[i] = x)
  <2>1. t = s
    BY <1>0, <1>4 DEF RemoveFirst
  <2>2. PICK f : f = [i \in A |-> i]
    OBVIOUS
  <2>3. f \in [A -> A] /\ \A i \in A : f[i] = i
    BY <2>2
  <2>4. QED
    BY <1>0, <1>1, <2>1, <2>3 DEF KeepsForeign
<1>5. QED
  BY <1>3, <1>4

LEMMA KeepsTransitive ==
  ASSUME NEW s, NEW t, NEW u, KeepsForeign(s, t), KeepsForeign(t, u)
  PROVE  KeepsForeign(s, u)
<1> DEFINE A == Foreign(s)
           B == Foreign(t)
           C == Foreign(u)
<1> HIDE DEF A, B, C
<1>1. PICK f \in [A -> B] :
        /\ \A i \in A : t[f[i]] = s[i]
        /\ \A i, j \in A : i < j => f[i] < f[j]
        /\ \A k \in B : \E i \in A : f[i] = k
  BY DEF KeepsForeign, A, B
<1>2. PICK g \in [B -> C] :
        /\ \A i \in B : u[g[i]] = t[i]
        /\ \A i, j \in B : i < j => g[i] < g[j]
        /\ \A k \in C : \E i \in B : g[i] = k
  BY DEF KeepsForeign, B, C
<1>3. PICK h : h = [i \in A |-> g[f[i]]]
  OBVIOUS
<1>4. h \in [A -> C] /\ \A i \in A : h[i] = g[f[i]] /\ f[i] \in B
  BY <1>3
<1>5. /\ \A i \in A : u[h[i]] = s[i]
      /\ \A i, j \in A : i < j => h[i] < h[j]
  BY <1>1, <1>2, <1>4
<1>6. \A k \in C : \E i \in A : h[i] = k
  BY <1>1, <1>2, <1>4
<1>7. \E e \in [A -> C] :
        /\ \A i \in A : u[e[i]] = s[i]
        /\ \A i, j \in A : i < j => e[i] < e[j]
        /\ \A k \in C : \E i \in A : e[i] = k
  <2>1. h \in [A -> C]
    BY <1>4
  <2>2. QED
    BY <1>5, <1>6, <2>1
<1>8. QED
  BY <1>7 DEF KeepsForeign, A, C

\* The tool never removes, adds or reorders a rule that is not a marked jump.
\* (build_apply_payload, build_rollback_payload)
THEOREM ForeignRulesStay == Spec => ForeignUntouched
<1> DEFINE Kept == (\E r \in Runs : ToolStep(r)) => KeepsForeign(host.user, host'.user)
<1>1. TypeOK => [Kept]_vars
  <2>1. SUFFICES ASSUME TypeOK, NEW r \in Runs, ToolStep(r)
                 PROVE  KeepsForeign(host.user, host'.user)
    OBVIOUS
  <2>2. /\ host \in Host /\ run[r].bundle \in Bundles /\ run[r].snap \in Snapshot
        /\ host.user \in Seq(Rules)
    BY <2>1, RunOf DEF Host, Rules
  <2>3. CASE host' = host
    <3>1. PICK A, f : A = Foreign(host.user) /\ f = [i \in A |-> i]
      OBVIOUS
    <3>2. f \in [A -> A] /\ \A i \in A : f[i] = i
      BY <3>1
    <3>3. QED
      BY <2>3, <3>1, <3>2 DEF KeepsForeign
  <2>4. CASE host' \in Applied(host, run[r].snap, run[r].bundle)
    <3>1. PICK rest \in Seq(Rules) :
            /\ host'.user = <<run[r].bundle>> \o rest
            /\ \/ rest = host.user
               \/ run[r].snap # Absent /\ rest = RemoveFirst(host.user, run[r].snap.jump)
      BY <2>2, <2>4, AppliedIs DEF Without
    <3>2. KeepsForeign(rest, host'.user)
      BY <2>2, <3>1, FrontKeeps
    <3>3. CASE rest = host.user
      BY <3>2, <3>3
    <3>4. CASE run[r].snap # Absent /\ rest = RemoveFirst(host.user, run[r].snap.jump)
      <4>1. run[r].snap.jump \in Bundles
        BY <2>2, <3>4 DEF Snapshot
      <4>2. KeepsForeign(host.user, rest)
        BY <2>2, <3>4, <4>1, OutKeeps
      <4>3. QED
        BY <3>2, <4>2, KeepsTransitive
    <3>5. QED
      BY <3>1, <3>3, <3>4
  <2>5. CASE host' \in RolledBack(host, run[r].snap, run[r].bundle)
    <3>0. PICK rest : rest = Without(host, run[r].bundle)
      OBVIOUS
    <3>1. /\ rest \in Seq(Rules)
          /\ \/ run[r].snap # Absent /\ host'.user = <<run[r].snap.jump>> \o rest
             \/ host'.user = rest
      BY <2>2, <2>5, <3>0, RolledBackIs
    <3>2. KeepsForeign(host.user, rest)
      BY <2>2, <3>0, OutKeeps DEF Without
    <3>3. CASE host'.user = rest
      BY <3>2, <3>3
    <3>4. CASE run[r].snap # Absent /\ host'.user = <<run[r].snap.jump>> \o rest
      <4>1. run[r].snap.jump \in Bundles
        BY <2>2, <3>4 DEF Snapshot
      <4>2. KeepsForeign(rest, host'.user)
        BY <3>1, <3>4, <4>1, FrontKeeps
      <4>3. QED
        BY <3>2, <4>2, KeepsTransitive
    <3>5. QED
      BY <3>1, <3>3, <3>4
  <2>6. QED
    BY <2>1, <2>3, <2>4, <2>5, HostChanges
<1>2. QED
  BY <1>1, EgressTypeCorrect, PTL DEF ForeignUntouched
=============================================================================
