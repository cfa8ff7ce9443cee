---------------------------- MODULE AuditLogProofs ----------------------------
(***************************************************************************)
(* The audit of the helper for every number of calls, segments and         *)
(* failures, every limit and every size of a record.  What a call may      *)
(* count on is proved for any processes, what the files hold for one.      *)
(***************************************************************************)
EXTENDS AuditLog, SequenceTheorems, WellFoundedInduction, TLAPS

-----------------------------------------------------------------------------
(* Induction, sums and sequences.                                          *)

\* A set of numbers that has 0 and the next of each has them all.
LEMMA AllNumbers ==
  ASSUME NEW P, 0 \in P, \A n \in Nat : n \in P => n + 1 \in P
  PROVE  \A n \in Nat : n \in P
<1> SUFFICES ASSUME NEW k \in Nat, k \notin P PROVE FALSE
  OBVIOUS
<1> DEFINE T == Nat \ P
<1>1. T \subseteq Nat /\ T # {}
  OBVIOUS
<1>2. PICK x \in T : \A y \in T : ~(<<y, x>> \in OpToRel(<, Nat))
  <2> HIDE DEF T
  <2>1. QED
    BY <1>1, WFMin, NatLessThanWellFounded
<1>3. \A y \in T : ~(y < x)
  BY <1>1, <1>2 DEF OpToRel
<1>4. x # 0 /\ x - 1 \in Nat /\ x - 1 < x
  OBVIOUS
<1>5. x - 1 \in P
  BY <1>3, <1>4
<1>6. QED
  BY <1>4, <1>5

\* Two functions that grow alike differ by what they differ by at 0.
LEMMA SameGrowth ==
  ASSUME NEW n \in Nat, NEW a \in [0..n -> Int], NEW b \in [0..n -> Int],
         \A i \in 1..n : a[i] - a[i - 1] = b[i] - b[i - 1]
  PROVE  \A i \in 0..n : a[i] - a[0] = b[i] - b[0]
<1> DEFINE P == {i \in Nat : i <= n => a[i] - a[0] = b[i] - b[0]}
<1>1. 0 \in P
  OBVIOUS
<1>2. ASSUME NEW i \in Nat, i \in P PROVE i + 1 \in P
  <2>1. SUFFICES ASSUME i + 1 <= n PROVE a[i + 1] - a[0] = b[i + 1] - b[0]
    OBVIOUS
  <2>2. i + 1 \in 1..n /\ (i + 1) - 1 = i /\ i \in 0..n /\ i + 1 \in 0..n /\ 0 \in 0..n
    BY <2>1
  <2>3. a[i + 1] - a[i] = b[i + 1] - b[i] /\ a[i] - a[0] = b[i] - b[0]
    BY <1>2, <2>2
  <2>4. PICK x \in Int, y \in Int, z \in Int : x = a[0] /\ y = a[i] /\ z = a[i + 1]
    BY <2>2
  <2>5. PICK p \in Int, q \in Int, r \in Int : p = b[0] /\ q = b[i] /\ r = b[i + 1]
    BY <2>2
  <2>6. z - y = r - q /\ y - x = q - p
    BY <2>3, <2>4, <2>5
  <2>7. z - x = r - p
    BY <2>6
  <2>8. QED
    BY <2>4, <2>5, <2>7
<1>3. \A i \in Nat : i \in P
  <2> HIDE DEF P
  <2>1. QED
    BY <1>1, <1>2, AllNumbers
<1>4. QED
  BY <1>3

\* The function in Units exists.
LEMMA Sums ==
  ASSUME NEW n \in Nat, NEW w \in [1..n -> Nat]
  PROVE  \E u \in [0..n -> Nat] : u = [i \in 0..n |-> IF i = 0 THEN 0 ELSE u[i - 1] + w[i]]
<1> DEFINE Summed(m, u) == u[0] = 0 /\ \A i \in 1..m : u[i] = u[i - 1] + w[i]
           Good(m) == \E u \in [0..m -> Nat] : Summed(m, u)
           P == {m \in Nat : m <= n => Good(m)}
<1>1. 0 \in P
  <2>1. PICK z : z = [i \in 0..0 |-> 0]
    OBVIOUS
  <2>2. z \in [0..0 -> Nat] /\ Summed(0, z)
    BY <2>1
  <2>3. Good(0)
    <3> HIDE DEF Summed
    <3>1. QED
      BY <2>2
  <2>4. QED
    BY <2>3
<1>2. ASSUME NEW m \in Nat, m \in P PROVE m + 1 \in P
  <2> HIDE DEF Good
  <2>1. SUFFICES ASSUME m + 1 <= n PROVE Good(m + 1)
    OBVIOUS
  <2>2. Good(m) /\ m + 1 \in 1..n
    BY <1>2, <2>1
  <2>3. PICK v \in [0..m -> Nat] : Summed(m, v)
    <3> HIDE DEF Summed
    <3>1. QED
      BY <2>2 DEF Good
  <2>4. PICK u : u = [i \in 0..(m + 1) |-> IF i = m + 1 THEN v[m] + w[m + 1] ELSE v[i]]
    OBVIOUS
  <2>5. v[m] \in Nat /\ w[m + 1] \in Nat
    BY <2>2, <2>3
  <2>6. u \in [0..(m + 1) -> Nat] /\ u[0] = 0
    BY <2>3, <2>4, <2>5
  <2>7. ASSUME NEW i \in 1..(m + 1) PROVE u[i] = u[i - 1] + w[i]
    <3>1. CASE i = m + 1
      <4>1. i - 1 = m /\ m \in 0..(m + 1) /\ m # m + 1 /\ i \in 0..(m + 1)
        BY <3>1
      <4>2. u[i] = v[m] + w[i] /\ u[i - 1] = v[m]
        BY <2>4, <3>1, <4>1
      <4>3. QED
        BY <4>2
    <3>2. CASE i # m + 1
      <4>1. i \in 1..m /\ i - 1 \in 0..(m + 1) /\ i - 1 # m + 1 /\ i \in 0..(m + 1)
        BY <3>2
      <4>2. u[i] = v[i] /\ u[i - 1] = v[i - 1]
        BY <2>4, <4>1
      <4>3. QED
        BY <2>3, <4>1, <4>2
    <3>3. QED
      BY <3>1, <3>2
  <2>8. QED
    BY <2>6, <2>7 DEF Good
<1>3. Good(n)
  <2> HIDE DEF Good
  <2>1. \A m \in Nat : m \in P
    <3> HIDE DEF P
    <3>1. QED
      BY <1>1, <1>2, AllNumbers
  <2>2. QED
    BY <2>1
<1>4. PICK u \in [0..n -> Nat] : u[0] = 0 /\ \A i \in 1..n : u[i] = u[i - 1] + w[i]
  BY <1>3
<1>5. u = [i \in 0..n |-> IF i = 0 THEN 0 ELSE u[i - 1] + w[i]]
  <2>1. \A i \in 0..n : u[i] = IF i = 0 THEN 0 ELSE u[i - 1] + w[i]
    BY <1>4
  <2>2. QED
    BY <2>1
<1>6. QED
  BY <1>5

\* Units adds up the sizes of the records.
LEMMA UnitsAre ==
  ASSUME NEW s \in Seq(Record)
  PROVE  \E u \in [0..Len(s) -> Nat] :
           /\ Units(s) = u[Len(s)] /\ u[0] = 0
           /\ \A i \in 1..Len(s) : u[i] = u[i - 1] + SizeOf[s[i].status]
<1> DEFINE w == [i \in 1..Len(s) |-> SizeOf[s[i].status]]
<1>1. Len(s) \in Nat /\ w \in [1..Len(s) -> Nat]
  <2>1. ASSUME NEW i \in 1..Len(s) PROVE s[i].status \in {"started", "ended"}
    <3>1. s[i] \in Record
      OBVIOUS
    <3>2. QED
      BY <3>1 DEF Record
  <2>2. QED
    BY <2>1, AuditAssumption
<1>2. PICK v \in [0..Len(s) -> Nat] :
         v = [i \in 0..Len(s) |-> IF i = 0 THEN 0 ELSE v[i - 1] + w[i]]
  <2> HIDE DEF w
  <2>1. QED
    BY <1>1, Sums
<1>3. ASSUME NEW i \in 0..Len(s)
      PROVE  v[i] = IF i = 0 THEN 0 ELSE v[i - 1] + SizeOf[s[i].status]
  <2> HIDE DEF w
  <2>1. v[i] = IF i = 0 THEN 0 ELSE v[i - 1] + w[i]
    BY <1>2
  <2>2. i # 0 => w[i] = SizeOf[s[i].status]
    BY <1>1 DEF w
  <2>3. QED
    BY <2>1, <2>2
<1> DEFINE u == CHOOSE g : g = [i \in 0..Len(s) |->
                                 IF i = 0 THEN 0 ELSE g[i - 1] + SizeOf[s[i].status]]
<1>4. u = [i \in 0..Len(s) |-> IF i = 0 THEN 0 ELSE u[i - 1] + SizeOf[s[i].status]]
  <2>1. v = [i \in 0..Len(s) |-> IF i = 0 THEN 0 ELSE v[i - 1] + SizeOf[s[i].status]]
    BY <1>3
  <2>2. QED
    BY <2>1
<1>5. Units(s) = u[Len(s)]
  BY DEF Units
<1> HIDE DEF u
<1>6. DOMAIN u = 0..Len(s) /\ u[0] = 0
      /\ \A i \in 1..Len(s) : u[i] = u[i - 1] + SizeOf[s[i].status]
  BY <1>1, <1>4
<1>7. \A i \in Nat : i \in {k \in Nat : k <= Len(s) => u[k] = v[k]}
  <2> DEFINE P == {k \in Nat : k <= Len(s) => u[k] = v[k]}
  <2>1. 0 \in P
    BY <1>1, <1>3, <1>6
  <2>2. ASSUME NEW k \in Nat, k \in P PROVE k + 1 \in P
    BY <1>1, <1>3, <1>6, <2>2
  <2>3. QED
    <3> HIDE DEF P
    <3>1. \A i \in Nat : i \in P
      BY <2>1, <2>2, AllNumbers
    <3>2. QED
      BY <3>1 DEF P
<1>8. u = v
  BY <1>4, <1>7
<1>9. QED
  BY <1>5, <1>6, <1>8

\* Units of two sequences one after the other.
LEMMA SizeIsNat ==
  ASSUME NEW r \in Record
  PROVE  SizeOf[r.status] \in 1..Limit /\ SizeOf[r.status] \in Nat
<1>1. r.status \in {"started", "ended"}
  BY DEF Record
<1>2. QED
  BY <1>1, AuditAssumption

LEMMA UnitsConcat ==
  ASSUME NEW s \in Seq(Record), NEW t \in Seq(Record)
  PROVE  /\ Units(s) \in Nat /\ Units(s \o t) = Units(s) + Units(t)
         /\ s \o t \in Seq(Record)
<1>1. /\ Len(s) \in Nat /\ Len(t) \in Nat /\ s \o t \in Seq(Record)
      /\ Len(s \o t) = Len(s) + Len(t)
      /\ \A i \in 1..Len(s) : (s \o t)[i] = s[i]
      /\ \A i \in 1..Len(t) : (s \o t)[Len(s) + i] = t[i]
  OBVIOUS
<1>2. PICK m \in Nat, n \in Nat, c \in Seq(Record) : m = Len(s) /\ n = Len(t) /\ c = s \o t
  BY <1>1
<1>3. PICK a \in [0..m -> Nat] : /\ Units(s) = a[m] /\ a[0] = 0
                                /\ \A i \in 1..m : a[i] = a[i - 1] + SizeOf[s[i].status]
  BY <1>2, UnitsAre
<1>4. PICK b \in [0..n -> Nat] : /\ Units(t) = b[n] /\ b[0] = 0
                                /\ \A i \in 1..n : b[i] = b[i - 1] + SizeOf[t[i].status]
  BY <1>2, UnitsAre
<1>5. PICK u \in [0..(m + n) -> Nat] : /\ Units(c) = u[m + n] /\ u[0] = 0
              /\ \A i \in 1..(m + n) : u[i] = u[i - 1] + SizeOf[c[i].status]
  <2>1. Len(c) = m + n
    BY <1>1, <1>2
  <2>2. PICK v \in [0..Len(c) -> Nat] :
           /\ Units(c) = v[Len(c)] /\ v[0] = 0
           /\ \A i \in 1..Len(c) : v[i] = v[i - 1] + SizeOf[c[i].status]
    BY UnitsAre
  <2>3. QED
    BY <2>1, <2>2
<1>6. u[m] = a[m]
  <2>1. PICK x : x = [i \in 0..m |-> u[i]]
    OBVIOUS
  <2>2. x \in [0..m -> Int] /\ a \in [0..m -> Int]
    <3>1. \A i \in 0..m : i \in 0..(m + n) /\ u[i] \in Int
      OBVIOUS
    <3>2. QED
      BY <2>1, <3>1
  <2>3. ASSUME NEW i \in 1..m PROVE a[i] - a[i - 1] = x[i] - x[i - 1]
    <3>1. i \in 1..(m + n) /\ i \in 0..m /\ i - 1 \in 0..m /\ i - 1 \in 0..(m + n)
      OBVIOUS
    <3>2. x[i] = u[i] /\ x[i - 1] = u[i - 1] /\ c[i] = s[i]
      BY <1>1, <1>2, <2>1, <3>1
    <3>3. PICK z : z = SizeOf[s[i].status]
      OBVIOUS
    <3>4. u[i] = u[i - 1] + z /\ a[i] = a[i - 1] + z /\ z \in Int
      <4>1. PICK r \in Record : r = s[i]
        BY <1>2
      <4>2. z \in Nat
        <5>1. SizeOf[r.status] \in Nat
          BY SizeIsNat
        <5>2. QED
          BY <3>3, <4>1, <5>1
      <4>3. z \in Int
        BY <4>2
      <4>4. z = SizeOf[c[i].status]
        BY <3>2, <3>3
      <4>5. QED
        BY <1>3, <1>5, <3>1, <3>3, <4>3, <4>4
    <3>5. QED
      BY <3>1, <3>2, <3>4
  <2>4. \A i \in 0..m : a[i] - a[0] = x[i] - x[0]
    BY <2>2, <2>3, SameGrowth
  <2>5. m \in 0..m /\ 0 \in 0..m
    OBVIOUS
  <2>6. a[m] - 0 = u[m] - 0 /\ a[m] \in Int /\ u[m] \in Int
    BY <1>3, <1>5, <2>1, <2>2, <2>4, <2>5
  <2>7. QED
    BY <2>6
<1>7. u[m + n] = u[m] + b[n]
  <2>1. PICK x : x = [i \in 0..n |-> u[m + i]]
    OBVIOUS
  <2>2. x \in [0..n -> Int] /\ b \in [0..n -> Int]
    <3>1. \A i \in 0..n : m + i \in 0..(m + n) /\ u[m + i] \in Int
      OBVIOUS
    <3>2. QED
      BY <2>1, <3>1
  <2>3. ASSUME NEW i \in 1..n PROVE b[i] - b[i - 1] = x[i] - x[i - 1]
    <3>1. /\ m + i \in 1..(m + n) /\ i \in 0..n /\ i - 1 \in 0..n
          /\ m + (i - 1) = (m + i) - 1 /\ m + (i - 1) \in 0..(m + n)
      OBVIOUS
    <3>2. x[i] = u[m + i] /\ x[i - 1] = u[(m + i) - 1] /\ c[m + i] = t[i]
      BY <1>1, <1>2, <2>1, <3>1
    <3>3. PICK z : z = SizeOf[t[i].status]
      OBVIOUS
    <3>4. u[m + i] = u[(m + i) - 1] + z /\ b[i] = b[i - 1] + z /\ z \in Int
      <4>1. PICK r \in Record : r = t[i]
        BY <1>2
      <4>2. z \in Nat
        <5>1. SizeOf[r.status] \in Nat
          BY SizeIsNat
        <5>2. QED
          BY <3>3, <4>1, <5>1
      <4>3. z \in Int
        BY <4>2
      <4>4. z = SizeOf[c[m + i].status]
        BY <3>2, <3>3
      <4>5. QED
        BY <1>4, <1>5, <3>1, <3>3, <4>3, <4>4
    <3>5. b[i] \in Nat /\ b[i - 1] \in Nat /\ u[(m + i) - 1] \in Nat
      BY <3>1
    <3>6. x[i] = u[(m + i) - 1] + z /\ x[i - 1] = u[(m + i) - 1]
      BY <3>2, <3>4
    <3>7. PICK e \in Int, f \in Int : e = b[i - 1] /\ f = u[(m + i) - 1]
      BY <3>5
    <3>8. b[i] - e = z /\ x[i] - f = z /\ x[i - 1] = f
      <4>1. b[i] = e + z /\ x[i] = f + z /\ z \in Int
        BY <3>4, <3>6, <3>7
      <4>2. PICK k \in Int : k = e + z
        BY <4>1
      <4>3. PICK l \in Int : l = f + z
        BY <4>1
      <4>4. b[i] = k /\ x[i] = l
        BY <4>1, <4>2, <4>3
      <4>5. k - e = z /\ l - f = z
        BY <4>1, <4>2, <4>3
      <4>6. QED
        BY <3>6, <3>7, <4>4, <4>5
    <3>9. QED
      BY <3>7, <3>8
  <2>4. \A i \in 0..n : b[i] - b[0] = x[i] - x[0]
    BY <2>2, <2>3, SameGrowth
  <2>5. n \in 0..n /\ 0 \in 0..n /\ m + 0 = m
    OBVIOUS
  <2>6. b[n] - 0 = u[m + n] - u[m] /\ b[n] \in Int /\ u[m + n] \in Int /\ u[m] \in Int
    BY <1>4, <1>5, <2>1, <2>2, <2>4, <2>5
  <2>7. QED
    BY <2>6
<1>8. QED
  BY <1>1, <1>2, <1>3, <1>4, <1>5, <1>6, <1>7

\* Units of no record, and of one more.
LEMMA UnitsAppend ==
  ASSUME NEW s \in Seq(Record), NEW r \in Record
  PROVE  /\ Units(s) \in Nat /\ Units(<<>>) = 0
         /\ Units(Append(s, r)) = Units(s) + SizeOf[r.status]
         /\ SizeOf[r.status] \in 1..Limit
<1>0. SizeOf[r.status] \in 1..Limit
  BY AuditAssumption DEF Record
<1>1. <<>> \in Seq(Record) /\ Len(<<>>) = 0
  OBVIOUS
<1>2. Units(<<>>) = 0
  BY <1>1, UnitsAre
<1>3. <<r>> \in Seq(Record) /\ Len(<<r>>) = 1 /\ <<r>>[1] = r /\ Append(s, r) = s \o <<r>>
  OBVIOUS
<1>4. PICK o : o = <<r>>
  OBVIOUS
<1>5. Units(o) = SizeOf[r.status]
  <2>1. PICK u \in [0..1 -> Nat] :
           Units(o) = u[1] /\ u[0] = 0 /\ \A i \in 1..1 : u[i] = u[i - 1] + SizeOf[o[i].status]
    BY <1>3, <1>4, UnitsAre
  <2>2. u[1] = u[0] + SizeOf[o[1].status]
    BY <2>1
  <2>3. QED
    BY <1>0, <1>3, <1>4, <2>1, <2>2
<1>6. Units(s \o o) = Units(s) + Units(o) /\ Units(s) \in Nat
  BY <1>3, <1>4, UnitsConcat
<1>7. QED
  BY <1>0, <1>2, <1>3, <1>4, <1>5, <1>6

\* What FlattenSeq has after each of the n sequences in q.
FlattenedBy(S, n, q) ==
  \E F \in [1..n -> Seq(S)] :
    /\ FlattenSeq(q) = F[n] /\ F[1] = q[1]
    /\ \A i \in 2..n : F[i] = F[i - 1] \o q[i]

\* The function in FlattenSeq exists.
LEMMA Flattened ==
  ASSUME NEW S, NEW n \in Nat \ {0}, NEW q \in [1..n -> Seq(S)]
  PROVE  FlattenedBy(S, n, q)
<1> DEFINE Flat(m, F) == F[1] = q[1] /\ \A i \in 2..m : F[i] = F[i - 1] \o q[i]
           Good(m) == \E F \in [1..m -> Seq(S)] : Flat(m, F)
           P == {m \in Nat : m # 0 /\ m <= n => Good(m)}
<1>1. 0 \in P
  OBVIOUS
<1>2. ASSUME NEW m \in Nat, m \in P PROVE m + 1 \in P
  <2>1. SUFFICES ASSUME m + 1 <= n PROVE Good(m + 1)
    <3> HIDE DEF Good
    <3>1. QED
      OBVIOUS
  <2>2. CASE m = 0
    <3>1. PICK F : F = [i \in 1..1 |-> q[1]]
      OBVIOUS
    <3>2. F \in [1..1 -> Seq(S)] /\ Flat(1, F)
      BY <3>1
    <3>3. Good(1)
      <4> HIDE DEF Flat
      <4>1. QED
        BY <3>2
    <3>4. QED
      BY <2>2, <3>3
  <2>3. CASE m # 0
    <3> HIDE DEF Good
    <3>1. Good(m) /\ m + 1 \in 1..n /\ m \in 1..m
      BY <1>2, <2>1, <2>3
    <3>2. PICK G \in [1..m -> Seq(S)] : Flat(m, G)
      <4> HIDE DEF Flat
      <4>1. QED
        BY <3>1 DEF Good
    <3>3. PICK F : F = [i \in 1..(m + 1) |-> IF i = m + 1 THEN G[m] \o q[m + 1] ELSE G[i]]
      OBVIOUS
    <3>4. G[m] \in Seq(S) /\ q[m + 1] \in Seq(S) /\ G[m] \o q[m + 1] \in Seq(S)
      BY <3>1, <3>2
    <3>5. F \in [1..(m + 1) -> Seq(S)]
      BY <3>2, <3>3, <3>4
    <3>6. F[1] = q[1]
      BY <2>3, <3>2, <3>3
    <3>7. ASSUME NEW i \in 2..(m + 1) PROVE F[i] = F[i - 1] \o q[i]
      <4>1. CASE i = m + 1
        <5>1. i - 1 = m /\ m \in 1..(m + 1) /\ m # m + 1 /\ i \in 1..(m + 1)
          BY <2>3, <4>1
        <5>2. F[i] = G[m] \o q[i] /\ F[i - 1] = G[m]
          BY <3>3, <4>1, <5>1
        <5>3. QED
          BY <5>2
      <4>2. CASE i # m + 1
        <5>1. i \in 2..m /\ i - 1 \in 1..(m + 1) /\ i - 1 # m + 1 /\ i \in 1..(m + 1)
          BY <4>2
        <5>2. F[i] = G[i] /\ F[i - 1] = G[i - 1]
          BY <3>3, <4>2, <5>1
        <5>3. QED
          BY <3>2, <5>1, <5>2
      <4>3. QED
        BY <4>1, <4>2
    <3>8. QED
      BY <3>5, <3>6, <3>7 DEF Good
  <2>4. QED
    BY <2>2, <2>3
<1>3. Good(n)
  <2> HIDE DEF Good
  <2>1. \A m \in Nat : m \in P
    <3> HIDE DEF P
    <3>1. QED
      BY <1>1, <1>2, AllNumbers
  <2>2. QED
    BY <2>1
<1>4. PICK F \in [1..n -> Seq(S)] : F[1] = q[1] /\ \A i \in 2..n : F[i] = F[i - 1] \o q[i]
  BY <1>3
<1>5. Len(q) = n /\ n # 0
  OBVIOUS
<1> DEFINE f == CHOOSE g : g = [i \in 1..Len(q) |-> IF i = 1 THEN q[i] ELSE g[i - 1] \o q[i]]
<1>6. FlattenSeq(q) = f[Len(q)]
  BY <1>5 DEF FlattenSeq
<1>7. f = [i \in 1..Len(q) |-> IF i = 1 THEN q[i] ELSE f[i - 1] \o q[i]]
  <2>1. ASSUME NEW i \in 1..Len(q)
        PROVE  F[i] = IF i = 1 THEN q[i] ELSE F[i - 1] \o q[i]
    <3>1. i = 1 \/ i \in 2..n
      BY <1>5
    <3>2. QED
      BY <1>4, <3>1
  <2>2. F = [i \in 1..Len(q) |-> IF i = 1 THEN q[i] ELSE F[i - 1] \o q[i]]
    BY <1>5, <2>1
  <2>3. QED
    BY <2>2
<1> HIDE DEF f
<1>8. DOMAIN f = 1..n /\ f[1] = q[1] /\ \A i \in 2..n : f[i] = f[i - 1] \o q[i]
  <2>1. \A i \in 1..Len(q) : f[i] = IF i = 1 THEN q[i] ELSE f[i - 1] \o q[i]
    BY <1>7
  <2>2. 1 \in 1..Len(q) /\ \A i \in 2..n : i \in 1..Len(q) /\ i # 1
    BY <1>5
  <2>3. f[1] = q[1] /\ \A i \in 2..n : f[i] = f[i - 1] \o q[i]
    BY <2>1, <2>2
  <2>4. DOMAIN f = 1..n
    BY <1>5, <1>7
  <2>5. QED
    BY <2>3, <2>4
<1>9. \A i \in 1..n : f[i] = F[i]
  <2> DEFINE R == {i \in Nat : i \in 1..n => f[i] = F[i]}
  <2>1. 0 \in R
    OBVIOUS
  <2>2. ASSUME NEW i \in Nat, i \in R PROVE i + 1 \in R
    <3>1. SUFFICES ASSUME i + 1 \in 1..n PROVE f[i + 1] = F[i + 1]
      OBVIOUS
    <3>2. CASE i = 0
      BY <1>4, <1>8, <3>2
    <3>3. CASE i # 0
      <4>1. i \in 1..n /\ i + 1 \in 2..n /\ (i + 1) - 1 = i
        BY <3>1, <3>3
      <4>2. f[i] = F[i]
        BY <2>2, <4>1
      <4>3. QED
        BY <1>4, <1>8, <4>1, <4>2
    <3>4. QED
      BY <3>2, <3>3
  <2>3. \A i \in Nat : i \in R
    <3> HIDE DEF R
    <3>1. QED
      BY <2>1, <2>2, AllNumbers
  <2>4. QED
    BY <2>3
<1>10. n \in 1..n
  OBVIOUS
<1>11. QED
  BY <1>4, <1>5, <1>6, <1>9, <1>10 DEF FlattenedBy

-----------------------------------------------------------------------------
(* The invariants.                                                         *)

\* The state of a call.
Place == [pc : {"idle", "wait", "device"} \cup Recording \cup Finished,
          status : {"started", "ended"}, index : Names, file : 0..MaxFiles]

\* TypeOK without the limit of the segments.
Types ==
  /\ name \in [Names -> 0..Len(content)]
  /\ content \in Seq(Seq(Record)) /\ Len(content) <= MaxFiles
  /\ lock \in [Processes -> Calls \cup {Nobody}]
  /\ call \in [Calls -> Place]
  /\ written \in Seq(Record)
  /\ durable \subseteq Record /\ touched \subseteq Calls
  /\ failures \in 0..MaxFailures /\ broken \in 0..failures

Shifting == {"shift", "replace", "active"}

\* Who is in record() holds the lock of its process, and where it is in _rotate.
RecorderOK(c) ==
  /\ call[c].pc \in Recording => lock[ProcessOf[c]] = c
  /\ call[c].pc \in Shifting => call[c].index + 1 \in Names
  /\ call[c].pc = "replace" => call[c].index # 0
  /\ call[c].pc = "active" => call[c].index = 0

\* What is on disk and what began, by the place of the call.
TracedOK(c) ==
  /\ call[c].pc = "device" \/ call[c].status = "ended" \/ c \in touched =>
       [call |-> c, status |-> "started"] \in durable
  /\ call[c].status = "ended" => c \in touched
  /\ call[c].status = "started" /\ call[c].pc # "killed" => c \notin touched
  /\ call[c].pc = "device" => call[c].status = "started"
  /\ call[c].pc = "returned" =>
       call[c].status = "ended" /\ [call |-> c, status |-> "ended"] \in durable
  /\ call[c].pc = "preflight" => call[c].status = "started"

Inv == Types /\ \A c \in Calls : RecorderOK(c) /\ TracedOK(c)

\* A rotated segment could not take every record any more.
Full(f) == SizeOfFile(f) > Limit - Largest

\* Each name has the records of written between two cuts.
Cuts(cut) ==
  /\ cut \in [0..Segments -> 0..Len(written)] /\ cut[0] = Len(written)
  /\ \A i \in Names :
       IF name[i] = 0 THEN cut[i] = cut[i + 1]
       ELSE /\ cut[i] = cut[i + 1] + Len(content[name[i]])
            /\ \A j \in 1..Len(content[name[i]]) : content[name[i]][j] = written[cut[i + 1] + j]

\* How many of the backups up to each one are missing.
Gaps(gap) ==
  /\ gap \in [Names -> Int] /\ gap[0] = 0
  /\ \A i \in Names \ {0} : gap[i] = gap[i - 1] + IF name[i] = 0 THEN 1 ELSE 0

\* Every backup is full, and no file has two names.
NamesOK ==
  /\ \A i \in Names \ {0} : name[i] # 0 => Full(name[i])
  /\ \A i, j \in Names : name[i] = name[j] /\ name[i] # 0 => i = j

\* The active file, by the place of the call that records.
ActiveOK(c) ==
  /\ call[c].pc \in {"unlink"} \cup Shifting => name[0] # 0 /\ Full(name[0])
  /\ call[c].pc \in Shifting => name[call[c].index + 1] = 0
  /\ call[c].pc = "replace" => name[call[c].index] # 0
  /\ call[c].pc = "chmod1" => name[0] = 0
  /\ call[c].pc = "touch" => name[0] = 0 \/ Fits(c)
  /\ call[c].pc \in {"chmod", "open", "append"} => name[0] # 0 /\ Fits(c)
  /\ call[c].pc = "append" => call[c].file = name[0]

\* A backup that is there, and for the index after the last one: records let go of.
There(i, cut) == IF i = Segments THEN cut[i] # 0 ELSE name[i] # 0
Below(i) == IF i = Segments THEN Segments - 1 ELSE i

\* Above the index of a rotation.
Slack(i) == \E c \in Calls : call[c].pc \in Shifting /\ i > call[c].index

\* No more backups are missing below one that is there than rotations stopped half way;
\* a rotation adds one gap of its own, above its index.
Bounded(cut, gap) ==
  \A i \in 1..Segments : There(i, cut) =>
    gap[Below(i)] <= broken \/ (Slack(i) /\ gap[Below(i)] <= broken + 1)

Filed(cut, gap) == NamesOK /\ SegmentsBounded /\ Cuts(cut) /\ Gaps(gap)

CutSet == [0..Segments -> 0..Len(written)]

SessionInv ==
  /\ \A c \in Calls : ActiveOK(c)
  /\ \E cut \in CutSet, gap \in [Names -> Int] : Filed(cut, gap) /\ Bounded(cut, gap)

-----------------------------------------------------------------------------
(* Steps of a call.                                                        *)

StepOf(c) ==
  \/ Begin(c) \/ Lock(c) \/ Stat(c) \/ Unlink(c) \/ Shift(c) \/ Replace(c)
  \/ ReplaceActive(c) \/ ChmodRotated(c) \/ Touch(c) \/ Chmod(c) \/ Open(c)
  \/ AppendRecord(c) \/ Sync(c) \/ Device(c) \/ Raise(c)

LEMMA Constants ==
  /\ Segments \in Nat /\ Segments >= 3 /\ MaxFiles \in Nat /\ MaxFailures \in Nat
  /\ Limit \in Nat /\ Limit >= 1 /\ Nobody \notin Calls
  /\ \A c \in Calls : ProcessOf[c] \in Processes
  /\ 0 \in Names /\ 1 \in Names /\ Segments - 1 \in Names /\ Segments - 2 \in Names
BY AuditAssumption DEF Names

\* Where a call goes from where it is, and what it changes of the rest.
LEMMA Moved ==
  ASSUME Types, NEW c \in Calls, RecorderOK(c), StepOf(c)
  PROVE  /\ call' \in [Calls -> Place] /\ \A d \in Calls \ {c} : call'[d] = call[d]
         /\ call[c].pc \notin Finished
         /\ call'[c].pc \in Shifting => call'[c].index + 1 \in Names
         /\ call'[c].pc = "replace" => call'[c].index # 0
         /\ call'[c].pc = "active" => call'[c].index = 0
<1>a. call \in [Calls -> Place] /\ call[c] \in Place
  BY DEF Types
<1>b. call[c].index \in Names /\ call[c].status \in {"started", "ended"}
  BY <1>a DEF Place
<1>1. CASE Begin(c) \/ Lock(c) \/ Stat(c) \/ ReplaceActive(c) \/ ChmodRotated(c) \/ Touch(c)
            \/ Chmod(c) \/ AppendRecord(c) \/ Sync(c) \/ Raise(c)
  <2>1. PICK pc \in {"wait", "device", "stat", "unlink", "touch", "chmod", "open", "sync", "chmod1",
                    "returned", "preflight", "postfailed"} :
          call' = [call EXCEPT ![c].pc = pc]
    <3>1. CASE Stat(c)
      BY <3>1 DEF Stat, Goto
    <3>2. CASE Sync(c)
      BY <3>2 DEF Sync, Goto
    <3>3. CASE Raise(c)
      BY <3>3 DEF Raise, AfterError, Goto
    <3>4. CASE ~(Stat(c) \/ Sync(c) \/ Raise(c))
      BY <1>1, <3>4 DEF Begin, Lock, ReplaceActive, ChmodRotated, Touch, Chmod, AppendRecord, Goto
    <3>5. QED
      BY <3>1, <3>2, <3>3, <3>4
  <2>2. call[c].pc \notin Finished
    BY <1>1 DEF Begin, Lock, Stat, ReplaceActive, ChmodRotated, Touch, Chmod, AppendRecord, Sync,
       Raise, Recording, Rotating, Finished
  <2>3. call'[c] = [call[c] EXCEPT !.pc = pc] /\ call' \in [Calls -> Place]
    BY <1>a, <2>1 DEF Place, Recording, Rotating, Finished
  <2>4. call'[c].pc = pc /\ pc \notin Shifting
    BY <1>a, <2>1, <2>3 DEF Place, Shifting, Finished
  <2>5. QED
    BY <1>a, <2>1, <2>2, <2>3, <2>4 DEF Shifting
<1>2. CASE Unlink(c) \/ Shift(c) \/ Replace(c)
  <2>1. PICK pc \in Shifting, i \in Names :
          /\ call' = [call EXCEPT ![c].pc = pc, ![c].index = i]
          /\ i + 1 \in Names
          /\ (pc = "replace" => i # 0) /\ (pc = "active" => i = 0)
    <3>1. CASE Unlink(c)
      <4>1. Segments - 2 \in Names /\ (Segments - 2) + 1 \in Names /\ "shift" \in Shifting
        BY Constants DEF Names, Shifting
      <4>2. call' = [call EXCEPT ![c].pc = "shift", ![c].index = Segments - 2]
        BY <3>1 DEF Unlink
      <4>3. QED
        BY <4>1, <4>2
    <3>2. CASE Shift(c)
      <4>1. call[c].index + 1 \in Names
        BY <3>2 DEF Shift, RecorderOK, Shifting
      <4>2. call[c].index > 0 => call[c].index - 1 \in Names /\ (call[c].index - 1) + 1 \in Names
        BY <1>b, Constants DEF Names
      <4>3. PICK i, pc : /\ i = IF call[c].index > 0 /\ name[call[c].index] = 0
                                THEN call[c].index - 1 ELSE call[c].index
                         /\ pc = IF call[c].index = 0 THEN "active"
                                 ELSE IF name[call[c].index] # 0 THEN "replace" ELSE "shift"
        OBVIOUS
      <4>4. call' = [call EXCEPT ![c].pc = pc, ![c].index = i]
        BY <3>2, <4>3 DEF Shift
      <4>5. pc \in Shifting /\ i \in Names /\ i + 1 \in Names
        BY <1>b, <4>1, <4>2, <4>3 DEF Shifting
      <4>6. (pc = "replace" => i # 0) /\ (pc = "active" => i = 0)
        BY <1>b, <4>3 DEF Names
      <4>7. QED
        BY <4>4, <4>5, <4>6
    <3>3. CASE Replace(c)
      <4>1. call[c].index # 0
        BY <3>3 DEF Replace, RecorderOK
      <4>2. call[c].index - 1 \in Names /\ (call[c].index - 1) + 1 \in Names
        BY <1>b, <4>1, Constants DEF Names
      <4>3. QED
        BY <3>3, <4>2 DEF Replace, Shifting
    <3>4. QED
      BY <1>2, <3>1, <3>2, <3>3
  <2>2. call[c].pc \notin Finished
    BY <1>2 DEF Unlink, Shift, Replace, Finished
  <2>3. /\ call' \in [Calls -> Place] /\ \A d \in Calls \ {c} : call'[d] = call[d]
        /\ call'[c].pc = pc /\ call'[c].index = i
    BY <1>a, <2>1 DEF Place, Shifting, Recording, Rotating
  <2>4. QED
    BY <2>1, <2>2, <2>3
<1>3. CASE Open(c)
  <2>1. PICK f : f = name'[0]
    OBVIOUS
  <2>2. f \in 0..MaxFiles
    <3>1. name \in [Names -> 0..Len(content)] /\ Len(content) \in Nat /\ Len(content) <= MaxFiles
      BY DEF Types
    <3>2. CASE name[0] # 0
      BY <1>3, <2>1, <3>1, <3>2, Constants DEF Open, WithActive, fileVars
    <3>3. CASE name[0] = 0
      <4>1. Len(content) < MaxFiles /\ name' = [name EXCEPT ![0] = Len(content) + 1]
        BY <1>3, <3>3 DEF Open, WithActive
      <4>2. QED
        BY <2>1, <3>1, <4>1, Constants
    <3>4. QED
      BY <3>2, <3>3
  <2>3. call' = [call EXCEPT ![c].pc = "append", ![c].file = f] /\ call[c].pc = "open"
    BY <1>3, <2>1 DEF Open
  <2>4. QED
    BY <1>a, <2>2, <2>3 DEF Place, Shifting, Recording, Finished
<1>4. CASE Device(c)
  <2>1. call' = [call EXCEPT ![c].pc = "wait", ![c].status = "ended"] /\ call[c].pc = "device"
    BY <1>4 DEF Device
  <2>2. QED
    BY <1>a, <2>1 DEF Place, Shifting, Finished
<1>5. QED
  BY <1>1, <1>2, <1>3, <1>4 DEF StepOf
\* The active file is there after it was opened or made.
LEMMA Created ==
  ASSUME Types, WithActive
  PROVE  /\ name' \in [Names -> 0..Len(content')] /\ content' \in Seq(Seq(Record))
         /\ Len(content') <= MaxFiles
         /\ name[0] # 0 => name' = name /\ content' = content
         /\ name[0] = 0 => /\ Len(content') = Len(content) + 1
                           /\ name' = [name EXCEPT ![0] = Len(content) + 1]
                           /\ content'[Len(content) + 1] = <<>>
                           /\ \A f \in 1..Len(content) : content'[f] = content[f]
<1>1. /\ name \in [Names -> 0..Len(content)] /\ content \in Seq(Seq(Record))
      /\ Len(content) \in Nat /\ Len(content) <= MaxFiles
  BY DEF Types
<1>2. CASE name[0] # 0
  BY <1>1, <1>2 DEF WithActive, fileVars
<1>3. CASE name[0] = 0
  <2>1. PICK e, n : e = <<>> /\ n = Len(content)
    OBVIOUS
  <2>2. /\ content' = Append(content, e) /\ name' = [name EXCEPT ![0] = n + 1] /\ n < MaxFiles
    BY <1>3, <2>1 DEF WithActive
  <2>3. e \in Seq(Record) /\ n \in Nat
    BY <1>1, <2>1
  <2>4. /\ content' \in Seq(Seq(Record)) /\ Len(content') = n + 1 /\ content'[n + 1] = e
        /\ \A f \in 1..n : content'[f] = content[f]
    BY <1>1, <2>1, <2>2, <2>3, AppendProperties
  <2>5. name' \in [Names -> 0..(n + 1)]
    <3>1. name \in [Names -> 0..n] /\ n + 1 \in 0..(n + 1) /\ \A k \in 0..n : k \in 0..(n + 1)
      BY <1>1, <2>1, <2>3
    <3>2. name \in [Names -> 0..(n + 1)]
      BY <3>1
    <3>3. QED
      BY <2>2, <3>1, <3>2
  <2>6. n + 1 <= MaxFiles
    BY <2>2, <2>3, Constants
  <2>7. QED
    BY <1>3, <2>1, <2>2, <2>4, <2>5, <2>6
<1>4. QED
  BY <1>2, <1>3

\* A record is put at the end of one file.
LEMMA Recorded ==
  ASSUME Types, NEW c \in Calls, AppendRecord(c)
  PROVE  /\ content' \in Seq(Seq(Record)) /\ Len(content') = Len(content)
         /\ RecordOf(c) \in Record /\ written' \in Seq(Record)
         /\ Len(written') = Len(written) + 1 /\ written'[Len(written) + 1] = RecordOf(c)
         /\ \A i \in 1..Len(written) : written'[i] = written[i]
         /\ \A f \in 1..Len(content) :
              content'[f] = IF f = call[c].file THEN Append(content[f], RecordOf(c)) ELSE content[f]
<1>1. content \in Seq(Seq(Record)) /\ Len(content) \in Nat /\ written \in Seq(Record)
  BY DEF Types
<1>2. PICK r, f : r = RecordOf(c) /\ f = call[c].file
  OBVIOUS
<1>3. r \in Record
  BY <1>2 DEF Types, Place, RecordOf, Record
<1>4. content' = [content EXCEPT ![f] = Append(@, r)] /\ written' = Append(written, r)
  BY <1>2 DEF AppendRecord
<1>5. \A g \in 1..Len(content) : content[g] \in Seq(Record) /\ Append(content[g], r) \in Seq(Record)
  BY <1>1, <1>3, AppendProperties
<1>6. content' \in Seq(Seq(Record)) /\ Len(content') = Len(content)
  <2>1. PICK n, S : n = Len(content) /\ S = Seq(Record) /\ n \in Nat
    BY <1>1
  <2>2. content \in [1..n -> S] /\ \A g \in 1..n : Append(content[g], r) \in S
    BY <1>1, <1>5, <2>1
  <2>3. content' \in [1..n -> S]
    BY <1>4, <2>2
  <2>4. QED
    BY <2>1, <2>3
<1>7. \A g \in 1..Len(content) :
         content'[g] = IF g = f THEN Append(content[g], r) ELSE content[g]
  BY <1>1, <1>4
<1>8. /\ written' \in Seq(Record) /\ Len(written') = Len(written) + 1
      /\ written'[Len(written) + 1] = r /\ \A i \in 1..Len(written) : written'[i] = written[i]
  BY <1>1, <1>3, <1>4, AppendProperties
<1>9. QED
  BY <1>2, <1>3, <1>6, <1>7, <1>8

LEMMA FilesTyped ==
  ASSUME Types, NEW c \in Calls, RecorderOK(c), StepOf(c)
  PROVE  /\ name' \in [Names -> 0..Len(content')] /\ content' \in Seq(Seq(Record))
         /\ Len(content') <= MaxFiles /\ written' \in Seq(Record)
<1>1. /\ name \in [Names -> 0..Len(content)] /\ content \in Seq(Seq(Record))
      /\ Len(content) \in Nat /\ Len(content) <= MaxFiles /\ written \in Seq(Record)
  BY DEF Types
<1>2. CASE Touch(c) \/ Open(c)
  BY <1>1, <1>2, Created DEF Touch, Open, Log
<1>3. CASE AppendRecord(c)
  BY <1>1, <1>3, Recorded DEF AppendRecord
<1>4. CASE Unlink(c) \/ Replace(c) \/ ReplaceActive(c)
  <2>1. content' = content /\ written' = written
    BY <1>4 DEF Unlink, Replace, ReplaceActive, Log
  <2>2. name' \in [Names -> 0..Len(content)]
    <3>1. CASE Unlink(c)
      <4>1. 0 \in 0..Len(content) /\ name' = [name EXCEPT ![Segments - 1] = 0]
        BY <1>1, <3>1 DEF Unlink
      <4>2. QED
        BY <1>1, <4>1
    <3>2. CASE ~Unlink(c)
      <4>1. PICK i \in Names : name' = [name EXCEPT ![i] = 0, ![i + 1] = name[i]]
        <5>1. call[c].index \in Names
          BY DEF Types, Place
        <5>2. QED
          BY <1>4, <3>2, <5>1, Constants DEF Replace, ReplaceActive, Rename
      <4>2. PICK z, f : z = 0 /\ f = name[i]
        OBVIOUS
      <4>3. z \in 0..Len(content) /\ f \in 0..Len(content)
        BY <1>1, <4>2
      <4>4. name' = [name EXCEPT ![i] = z, ![i + 1] = f]
        BY <4>1, <4>2
      <4>5. QED
        BY <1>1, <4>3, <4>4
    <3>3. QED
      BY <3>1, <3>2
  <2>3. QED
    BY <1>1, <2>1, <2>2
<1>5. CASE Begin(c) \/ Lock(c) \/ Stat(c) \/ Shift(c) \/ ChmodRotated(c) \/ Chmod(c)
            \/ Sync(c) \/ Device(c) \/ Raise(c)
  BY <1>1, <1>5 DEF Begin, Lock, Stat, Shift, ChmodRotated, Chmod, Sync, Device, Raise, fileVars,
    Log
<1>6. QED
  BY <1>2, <1>3, <1>4, <1>5 DEF StepOf

LEMMA StepTypes ==
  ASSUME Types, NEW c \in Calls, RecorderOK(c), StepOf(c)
  PROVE  Types'
<1>1. /\ lock \in [Processes -> Calls \cup {Nobody}] /\ durable \subseteq Record
      /\ touched \subseteq Calls /\ failures \in 0..MaxFailures /\ broken \in 0..failures
      /\ RecordOf(c) \in Record
  BY DEF Types, Place, RecordOf, Record
<1>2. lock' \in [Processes -> Calls \cup {Nobody}]
  <2>1. lock' = lock \/ \E h \in Calls \cup {Nobody} : lock' = [lock EXCEPT ![ProcessOf[c]] = h]
    BY DEF StepOf, Begin, Lock, Stat, Unlink, Shift, Replace, ReplaceActive, ChmodRotated, Touch,
       Chmod, Open, AppendRecord, Sync, Device, Raise
  <2>2. QED
    BY <1>1, <2>1
<1>3. durable' \subseteq Record /\ touched' \subseteq Calls
  BY <1>1 DEF StepOf, Begin, Lock, Stat, Unlink, Shift, Replace, ReplaceActive, ChmodRotated, Touch,
     Chmod, Open, AppendRecord, Sync, Device, Raise, Log
<1>4. failures' \in 0..MaxFailures /\ broken' \in 0..failures'
  <2>1. CASE Raise(c)
    BY <1>1, <2>1, Constants DEF Raise
  <2>2. CASE ~Raise(c)
    BY <1>1, <2>2 DEF StepOf, Begin, Lock, Stat, Unlink, Shift, Replace, ReplaceActive,
       ChmodRotated, Touch, Chmod, Open, AppendRecord, Sync, Device, Log
  <2>3. QED
    BY <2>1, <2>2
<1>5. call' \in [Calls -> Place]
  BY Moved
<1>6. /\ name' \in [Names -> 0..Len(content')] /\ content' \in Seq(Seq(Record))
      /\ Len(content') <= MaxFiles /\ written' \in Seq(Record)
  BY FilesTyped
<1>7. QED
  BY <1>2, <1>3, <1>4, <1>5, <1>6 DEF Types

\* Calls of one process are in record() one at a time.
LEMMA Alone ==
  ASSUME NEW c \in Calls, NEW d \in Calls, RecorderOK(c), RecorderOK(d),
         call[c].pc \in Recording, call[d].pc \in Recording, ProcessOf[c] = ProcessOf[d]
  PROVE  c = d
BY DEF RecorderOK

LEMMA StepRecorder ==
  ASSUME Types, \A d \in Calls : RecorderOK(d), NEW c \in Calls, StepOf(c), NEW d \in Calls
  PROVE  RecorderOK(d)'
<1>a. /\ lock \in [Processes -> Calls \cup {Nobody}] /\ ProcessOf[c] \in Processes
      /\ ProcessOf[d] \in Processes /\ RecorderOK(c) /\ RecorderOK(d)
      /\ call \in [Calls -> Place]
  BY Constants DEF Types
<1>b. /\ \A e \in Calls \ {c} : call'[e] = call[e]
      /\ call'[c].pc \in Shifting => call'[c].index + 1 \in Names
      /\ call'[c].pc = "replace" => call'[c].index # 0
      /\ call'[c].pc = "active" => call'[c].index = 0
  BY <1>a, Moved
<1>1. call'[d].pc \in Recording => lock'[ProcessOf[d]] = d
  <2>1. CASE d = c
    <3>1. CASE Lock(c)
      BY <1>a, <2>1, <3>1 DEF Lock
    <3>2. CASE Sync(c) \/ Raise(c) \/ Begin(c) \/ Device(c)
      <4>1. call'[c].pc \in {"device", "returned", "preflight", "postfailed", "wait"}
        BY <1>a, <3>2 DEF Sync, Raise, Begin, Device, Goto, AfterError, Place
      <4>2. QED
        BY <2>1, <4>1 DEF Recording, Rotating
    <3>3. CASE ~(Lock(c) \/ Sync(c) \/ Raise(c) \/ Begin(c) \/ Device(c))
      <4>1. lock' = lock /\ call[c].pc \in Recording
        BY <3>3 DEF StepOf, Stat, Unlink, Shift, Replace, ReplaceActive, ChmodRotated, Touch,
           Chmod, Open, AppendRecord, Log, Recording, Rotating
      <4>2. QED
        BY <1>a, <2>1, <4>1 DEF RecorderOK
    <3>4. QED
      BY <3>1, <3>2, <3>3
  <2>2. CASE d # c
    <3>1. SUFFICES ASSUME call[d].pc \in Recording PROVE lock'[ProcessOf[d]] = d
      BY <1>b, <2>2
    <3>2. lock[ProcessOf[d]] = d
      BY <1>a, <3>1 DEF RecorderOK
    <3>3. CASE Lock(c)
      <4>1. ProcessOf[d] # ProcessOf[c] /\ lock' = [lock EXCEPT ![ProcessOf[c]] = c]
        BY <3>2, <3>3, Constants DEF Lock
      <4>2. QED
        BY <1>a, <3>2, <4>1
    <3>4. CASE Sync(c) \/ Raise(c)
      <4>1. call[c].pc \in Recording /\ lock' = [lock EXCEPT ![ProcessOf[c]] = Nobody]
        BY <3>4 DEF Sync, Raise, Recording
      <4>2. ProcessOf[d] # ProcessOf[c]
        BY <1>a, <2>2, <3>1, <4>1, Alone
      <4>3. QED
        BY <1>a, <3>2, <4>1, <4>2
    <3>5. CASE ~(Lock(c) \/ Sync(c) \/ Raise(c))
      BY <3>2, <3>5 DEF StepOf, Begin, Stat, Unlink, Shift, Replace, ReplaceActive, ChmodRotated,
         Touch, Chmod, Open, AppendRecord, Device, Log
    <3>6. QED
      BY <3>3, <3>4, <3>5
  <2>3. QED
    BY <2>1, <2>2
<1>2. QED
  <2>1. CASE d = c
    BY <1>1, <1>b, <2>1 DEF RecorderOK
  <2>2. CASE d # c
    BY <1>1, <1>a, <1>b, <2>2 DEF RecorderOK
  <2>3. QED
    BY <2>1, <2>2

LEMMA StepTraced ==
  ASSUME Types, NEW c \in Calls, RecorderOK(c), TracedOK(c), StepOf(c), NEW d \in Calls, TracedOK(d)
  PROVE  TracedOK(d)'
<1>a. /\ call \in [Calls -> Place] /\ touched \subseteq Calls
      /\ \A e \in Calls \ {c} : call'[e] = call[e]
      /\ call[c].status \in {"started", "ended"}
  BY Moved DEF Types, Place
<1>1. CASE Device(c)
  <2>1. /\ touched' = touched \cup {c} /\ durable' = durable /\ call[c].pc = "device"
        /\ call'[c].pc = "wait" /\ call'[c].status = "ended"
    BY <1>1, <1>a DEF Device, Log, Place
  <2>2. QED
    BY <1>a, <2>1 DEF TracedOK
<1>2. CASE Sync(c)
  <2>1. /\ touched' = touched /\ durable' = durable \cup {[call |-> c, status |-> call[c].status]}
        /\ call[c].pc = "sync" /\ call'[c].status = call[c].status
        /\ call'[c].pc = IF call[c].status = "started" THEN "device" ELSE "returned"
    BY <1>2, <1>a DEF Sync, RecordOf, Goto, Place
  <2>2. QED
    BY <1>a, <2>1 DEF TracedOK
<1>3. CASE Raise(c)
  <2>1. /\ touched' = touched /\ durable' = durable
        /\ call[c].pc \in Recording /\ call'[c].status = call[c].status
        /\ call'[c].pc = IF call[c].status = "started" THEN "preflight" ELSE "postfailed"
    BY <1>3, <1>a DEF Raise, AfterError, Goto, Place
  <2>2. QED
    BY <1>a, <2>1 DEF TracedOK, Recording, Rotating
<1>4. CASE ~(Device(c) \/ Sync(c) \/ Raise(c))
  <2>1. /\ touched' = touched /\ durable' = durable /\ call[c].pc # "killed"
        /\ call'[c].status = call[c].status
    BY <1>4, <1>a DEF StepOf, Begin, Lock, Stat, Unlink, Shift, Replace, ReplaceActive,
      ChmodRotated,
       Touch, Chmod, Open, AppendRecord, Goto, Log, Place
  <2>2. call'[c].pc \in Recording \cup {"wait"}
    BY <1>4, <1>a DEF StepOf, Begin, Lock, Stat, Unlink, Shift, Replace, ReplaceActive,
      ChmodRotated,
       Touch, Chmod, Open, AppendRecord, Goto, Recording, Rotating, Place
  <2>3. QED
    BY <1>a, <2>1, <2>2 DEF TracedOK, Recording, Rotating
<1>5. QED
  BY <1>1, <1>2, <1>3, <1>4

\* The end of a process.
LEMMA KillKeeps ==
  ASSUME Inv, NEW p \in Processes, Kill(p)
  PROVE  Inv'
<1>a. /\ call \in [Calls -> Place] /\ lock \in [Processes -> Calls \cup {Nobody}]
      /\ touched \subseteq Calls /\ failures \in 0..MaxFailures /\ broken \in 0..failures
      /\ Types
  BY DEF Inv, Types
<1>1. PICK dying \in SUBSET Calls :
        /\ dying = {c \in Calls : ProcessOf[c] = p /\ call[c].pc \notin Finished \cup {"idle"}}
        /\ call' = [c \in Calls |-> IF c \in dying THEN [call[c] EXCEPT !.pc = "killed"]
                                    ELSE call[c]]
        /\ touched' \in {touched, touched \cup {c \in dying : call[c].pc = "device"}}
        /\ broken' \in {broken, broken + 1}
  BY DEF Kill
<1>2. /\ failures < MaxFailures /\ failures' = failures + 1
      /\ lock' = [lock EXCEPT ![p] = Nobody]
      /\ name' = name /\ content' = content /\ written' = written /\ durable' = durable
  BY DEF Kill, fileVars
<1>3. \A c \in dying : [call[c] EXCEPT !.pc = "killed"] \in Place
  BY <1>a DEF Place, Finished
<1>4. call' \in [Calls -> Place]
  BY <1>1, <1>3, <1>a
<1>5. Types'
  <2>1. failures' \in 0..MaxFailures /\ broken' \in 0..failures'
    BY <1>a, <1>1, <1>2, Constants
  <2>2. lock' \in [Processes -> Calls \cup {Nobody}] /\ touched' \subseteq Calls
    BY <1>a, <1>1, <1>2
  <2>3. QED
    BY <1>a, <1>2, <1>4, <2>1, <2>2 DEF Types
<1>6. ASSUME NEW c \in Calls PROVE RecorderOK(c)' /\ TracedOK(c)'
  <2>a. call[c] \in Place /\ RecorderOK(c) /\ TracedOK(c)
    BY <1>a DEF Inv
  <2>1. CASE c \in dying
    <3>1. /\ call'[c].pc = "killed" /\ call'[c].status = call[c].status
          /\ call[c].pc \notin Finished
      BY <1>1, <2>1, <2>a DEF Place
    <3>2. RecorderOK(c)'
      BY <3>1 DEF RecorderOK, Recording, Rotating, Shifting
    <3>3. c \in touched' => c \in touched \/ call[c].pc = "device"
      BY <1>1
    <3>4. TracedOK(c)'
      BY <1>1, <1>2, <2>a, <3>1, <3>3 DEF TracedOK
    <3>5. QED
      BY <3>2, <3>4
  <2>2. CASE c \notin dying
    <3>1. call'[c] = call[c] /\ (c \in touched' <=> c \in touched)
      BY <1>1, <2>2
    <3>2. TracedOK(c)'
      BY <1>2, <2>a, <3>1 DEF TracedOK
    <3>3. call[c].pc \in Recording => ProcessOf[c] # p
      BY <1>1, <2>2 DEF Recording, Rotating, Finished
    <3>4. RecorderOK(c)'
      BY <1>2, <1>a, <2>a, <3>1, <3>3, Constants DEF RecorderOK
    <3>5. QED
      BY <3>2, <3>4
  <2>3. QED
    BY <2>1, <2>2
<1>7. QED
  BY <1>5, <1>6 DEF Inv

LEMMA InvInit == ASSUME Init PROVE Inv
<1>1. Types
  BY Constants DEF Init, Types, Place, Finished, Names
<1>2. ASSUME NEW c \in Calls PROVE RecorderOK(c) /\ TracedOK(c)
  BY DEF Init, RecorderOK, TracedOK, Recording, Rotating, Shifting
<1>3. QED
  BY <1>1, <1>2 DEF Inv

LEMMA InvStep == ASSUME Inv, [Next]_vars PROVE Inv'
<1>1. CASE \E c \in Calls : StepOf(c)
  <2>1. PICK c \in Calls : StepOf(c)
    BY <1>1
  <2>2. Types /\ \A d \in Calls : RecorderOK(d) /\ TracedOK(d)
    BY DEF Inv
  <2>3. Types'
    BY <2>1, <2>2, StepTypes
  <2>4. ASSUME NEW d \in Calls PROVE RecorderOK(d)' /\ TracedOK(d)'
    BY <2>1, <2>2, StepRecorder, StepTraced
  <2>5. QED
    BY <2>3, <2>4 DEF Inv
<1>2. CASE \E p \in Processes : Kill(p)
  BY <1>2, KillKeeps
<1>3. CASE UNCHANGED vars
  BY <1>3 DEF vars, fileVars, Inv, Types, RecorderOK, TracedOK
<1>4. QED
  BY <1>1, <1>2, <1>3 DEF Next, StepOf

\* Where every call is, who holds the locks and what is on disk, for any processes.
\* (_audit_device_call, record)
THEOREM AuditInvariant == Spec => []Inv
<1>1. Init => Inv
  BY InvInit
<1>2. Inv /\ [Next]_vars => Inv'
  BY InvStep
<1>3. QED
  BY <1>1, <1>2, PTL DEF Spec

\* No device operation without its "started" record on disk, no result without the
\* terminal one, and none after a failed preflight, whichever sessions share the files and
\* wherever one of them is killed.  (_audit_device_call)
THEOREM DeviceCallsAreAudited == Spec => []AuditedBeforeAndAfter
<1>1. Inv => AuditedBeforeAndAfter
  BY DEF Inv, Types, TracedOK, AuditedBeforeAndAfter
<1>2. QED
  BY <1>1, AuditInvariant, PTL

-----------------------------------------------------------------------------
(* The files of one session.                                               *)

\* All calls run in one process: no other session uses the files.
OneSession == \A c, d \in Calls : ProcessOf[c] = ProcessOf[d]

LEMMA FileSizes ==
  ASSUME Types
  PROVE  /\ \A f \in 1..Len(content) : content[f] \in Seq(Record) /\ Units(content[f]) \in Nat
         /\ Len(content) \in Nat /\ Largest \in 1..Limit /\ Len(written) \in Nat
         /\ \A c \in Calls : Incoming(c) \in 1..Largest
<1>1. \A f \in 1..Len(content) : content[f] \in Seq(Record)
  BY DEF Types
<1>2. \A f \in 1..Len(content) : Units(content[f]) \in Nat
  BY <1>1, UnitsConcat
<1>3. Len(content) \in Nat /\ Len(written) \in Nat
  BY DEF Types
<1>4. SizeOf["started"] \in 1..Limit /\ SizeOf["ended"] \in 1..Limit
  BY AuditAssumption
<1>5. Largest \in 1..Limit /\ \A c \in Calls : Incoming(c) \in 1..Largest
  <2>1. ASSUME NEW c \in Calls PROVE call[c].status \in {"started", "ended"}
    BY DEF Types, Place
  <2>2. QED
    BY <1>4, <2>1 DEF Largest, Incoming
<1>6. QED
  BY <1>1, <1>2, <1>3, <1>5

\* The oldest backup goes.
LEMMA UnlinkFiled ==
  ASSUME Types, NEW cut \in CutSet, NEW gap \in [Names -> Int], Filed(cut, gap),
         name' = [name EXCEPT ![Segments - 1] = 0], UNCHANGED <<content, written>>
  PROVE  \E cut2 \in CutSet', gap2 \in [Names -> Int] :
           /\ Filed(cut2, gap2)'
           /\ cut2 = [cut EXCEPT ![Segments] = cut[Segments - 1]]
           /\ gap2 = [gap EXCEPT ![Segments - 1] = gap[Segments - 2] + 1]
<1>a. /\ name \in [Names -> 0..Len(content)] /\ Len(content) \in Nat /\ Len(written) \in Nat
      /\ Names = 0..(Segments - 1)
  BY FileSizes DEF Types, Names
<1>1. PICK cut2 : cut2 = [cut EXCEPT ![Segments] = cut[Segments - 1]]
  OBVIOUS
<1>2. PICK gap2 : gap2 = [gap EXCEPT ![Segments - 1] = gap[Segments - 2] + 1]
  OBVIOUS
<1>3. cut2 \in CutSet /\ cut2 \in CutSet' /\ gap2 \in [Names -> Int]
  <2>1. cut[Segments - 1] \in 0..Len(written) /\ gap[Segments - 2] + 1 \in Int
    BY <1>a, Constants DEF CutSet
  <2>2. QED
    BY <1>1, <1>2, <2>1 DEF CutSet
<1>4. SegmentsBounded' /\ NamesOK'
  <2>1. SegmentsBounded'
    BY DEF Filed, SegmentsBounded
  <2>2. NamesOK'
    BY <1>a, Constants DEF Filed, NamesOK, Full, SizeOfFile
  <2>3. QED
    BY <2>1, <2>2
<1>5. Cuts(cut2)'
  <2>1. cut2[0] = Len(written)
    BY <1>1, Constants DEF Filed, Cuts, CutSet
  <2>2. ASSUME NEW i \in Names
        PROVE  IF name'[i] = 0 THEN cut2[i] = cut2[i + 1]
               ELSE /\ cut2[i] = cut2[i + 1] + Len(content[name'[i]])
                    /\ \A j \in 1..Len(content[name'[i]]) :
                         content[name'[i]][j] = written[cut2[i + 1] + j]
    <3>1. CASE i = Segments - 1
      BY <1>a, <1>1, <3>1, Constants DEF CutSet
    <3>2. CASE i # Segments - 1
      <4>1. i + 1 # Segments /\ i # Segments /\ i \in 0..Segments /\ i + 1 \in 0..Segments
        BY <1>a, <3>2, Constants
      <4>2. cut2[i] = cut[i] /\ cut2[i + 1] = cut[i + 1] /\ name'[i] = name[i]
        BY <1>a, <1>1, <3>2, <4>1 DEF CutSet
      <4>3. QED
        BY <4>2 DEF Filed, Cuts
    <3>3. QED
      BY <3>1, <3>2
  <2>3. QED
    BY <1>3, <2>1, <2>2 DEF Cuts, CutSet
<1>6. Gaps(gap2)'
  <2>1. gap2[0] = 0
    BY <1>a, <1>2, Constants DEF Filed, Gaps
  <2>2. ASSUME NEW i \in Names \ {0}
        PROVE  gap2[i] = gap2[i - 1] + IF name'[i] = 0 THEN 1 ELSE 0
    <3>1. i - 1 \in Names /\ i - 1 # Segments - 1 /\ gap2[i - 1] = gap[i - 1]
      BY <1>a, <1>2, Constants
    <3>2. CASE i = Segments - 1
      <4>1. i - 1 = Segments - 2
        BY <3>2, Constants
      <4>2. QED
        BY <1>a, <1>2, <3>1, <3>2, <4>1
    <3>3. CASE i # Segments - 1
      BY <1>a, <1>2, <3>1, <3>3 DEF Filed, Gaps
    <3>4. QED
      BY <3>2, <3>3
  <2>3. QED
    BY <1>3, <2>1, <2>2 DEF Gaps
<1>7. QED
  BY <1>1, <1>2, <1>3, <1>4, <1>5, <1>6 DEF Filed

\* A file takes the next name.
LEMMA RenameFiled ==
  ASSUME Types, NEW cut \in CutSet, NEW gap \in [Names -> Int], Filed(cut, gap),
         NEW i \in Names, i + 1 \in Names, Rename(i), UNCHANGED <<content, written>>,
         name[i] # 0, name[i + 1] = 0, Full(name[i])
  PROVE  \E cut2 \in CutSet', gap2 \in [Names -> Int] :
           /\ Filed(cut2, gap2)'
           /\ cut2 = [cut EXCEPT ![i + 1] = cut[i]]
           /\ gap2 = IF i = 0 THEN [k \in Names |-> IF k = 0 THEN 0 ELSE gap[k] - 1]
                     ELSE [gap EXCEPT ![i] = gap[i] + 1]
<1>a. /\ name \in [Names -> 0..Len(content)] /\ Len(content) \in Nat /\ Len(written) \in Nat
      /\ Names = 0..(Segments - 1)
  BY FileSizes DEF Types, Names
<1>b. /\ name' \in [Names -> 0..Len(content)]
      /\ \A k \in Names : name'[k] = IF k = i THEN 0 ELSE IF k = i + 1 THEN name[i] ELSE name[k]
  <2>1. PICK z, f : z = 0 /\ f = name[i]
    OBVIOUS
  <2>2. z \in 0..Len(content) /\ f \in 0..Len(content) /\ i # i + 1
    BY <1>a, <2>1
  <2>3. name' = [name EXCEPT ![i] = z, ![i + 1] = f]
    BY <2>1 DEF Rename
  <2>4. QED
    BY <1>a, <2>1, <2>2, <2>3
<1>1. PICK cut2 : cut2 = [cut EXCEPT ![i + 1] = cut[i]]
  OBVIOUS
<1>2. PICK gap2 : gap2 = IF i = 0 THEN [k \in Names |-> IF k = 0 THEN 0 ELSE gap[k] - 1]
                        ELSE [gap EXCEPT ![i] = gap[i] + 1]
  OBVIOUS
<1>3. cut2 \in CutSet /\ cut2 \in CutSet'
  <2>1. cut[i] \in 0..Len(written)
    BY <1>a, Constants DEF CutSet
  <2>2. QED
    BY <1>1, <2>1 DEF CutSet
<1>4. gap2 \in [Names -> Int]
  <2>1. \A k \in Names : gap[k] - 1 \in Int /\ gap[k] + 1 \in Int
    OBVIOUS
  <2>2. CASE i = 0
    BY <1>2, <2>1, <2>2
  <2>3. CASE i # 0
    BY <1>2, <2>1, <2>3
  <2>4. QED
    BY <2>2, <2>3
<1>5. SegmentsBounded' /\ NamesOK'
  <2>1. SegmentsBounded'
    BY DEF Filed, SegmentsBounded
  <2>2. ASSUME NEW k \in Names \ {0}, name'[k] # 0 PROVE Units(content'[name'[k]]) > Limit - Largest
    <3>1. k # i /\ (k = i + 1 => name'[k] = name[i]) /\ (k # i + 1 => name'[k] = name[k])
      BY <1>b, <2>2
    <3>2. Full(name'[k])
      BY <2>2, <3>1 DEF Filed, NamesOK
    <3>3. QED
      BY <3>2 DEF Full, SizeOfFile
  <2>3. ASSUME NEW k \in Names, NEW l \in Names, name'[k] = name'[l], name'[k] # 0 PROVE k = l
    <3>1. PICK k0 \in Names : name'[k] = name[k0] /\ k0 = IF k = i + 1 THEN i ELSE k
      BY <1>b, <2>3
    <3>2. PICK l0 \in Names : name'[l] = name[l0] /\ l0 = IF l = i + 1 THEN i ELSE l
      BY <1>b, <2>3
    <3>3. k0 = l0
      BY <2>3, <3>1, <3>2 DEF Filed, NamesOK
    <3>4. k # i /\ l # i
      BY <1>b, <2>3
    <3>5. QED
      BY <3>1, <3>2, <3>3, <3>4
  <2>4. NamesOK'
    BY <2>2, <2>3 DEF NamesOK, Full, SizeOfFile
  <2>5. QED
    BY <2>1, <2>4
<1>6. Cuts(cut2)'
  <2>a. /\ i \in 0..Segments /\ i + 1 \in 0..Segments /\ i + 1 # 0 /\ i # i + 1
        /\ \A k \in Names : k \in 0..Segments /\ k + 1 \in 0..Segments
        /\ \A k \in 0..Segments : cut2[k] = IF k = i + 1 THEN cut[i] ELSE cut[k]
    <3>1. i \in 0..Segments /\ i + 1 \in 0..Segments /\ i + 1 # 0 /\ i # i + 1
      BY <1>a, Constants
    <3>2. \A k \in Names : k \in 0..Segments /\ k + 1 \in 0..Segments
      BY <1>a, Constants
    <3>3. \A k \in 0..Segments : cut2[k] = IF k = i + 1 THEN cut[i] ELSE cut[k]
      BY <1>1, <3>1 DEF CutSet
    <3>4. QED
      BY <3>1, <3>2, <3>3
  <2>1. cut2[0] = Len(written)
    BY <2>a, Constants DEF Filed, Cuts
  <2>2. ASSUME NEW k \in Names
        PROVE  IF name'[k] = 0 THEN cut2[k] = cut2[k + 1]
               ELSE /\ cut2[k] = cut2[k + 1] + Len(content[name'[k]])
                    /\ \A j \in 1..Len(content[name'[k]]) :
                         content[name'[k]][j] = written[cut2[k + 1] + j]
    <3>1. CASE k = i
      BY <1>b, <2>a, <3>1
    <3>2. CASE k = i + 1
      <4>1. k # i /\ k + 1 # i + 1 /\ cut2[k] = cut[i] /\ cut2[k + 1] = cut[k + 1]
            /\ name'[k] = name[i]
        BY <1>a, <1>b, <2>a, <3>2
      <4>2. cut[k] = cut[k + 1]
        BY <3>2 DEF Filed, Cuts
      <4>3. /\ cut[i] = cut[k] + Len(content[name[i]])
            /\ \A j \in 1..Len(content[name[i]]) : content[name[i]][j] = written[cut[k] + j]
        BY <3>2 DEF Filed, Cuts
      <4>4. QED
        BY <4>1, <4>2, <4>3
    <3>3. CASE k # i /\ k # i + 1
      <4>1. k + 1 # i + 1 /\ name'[k] = name[k] /\ cut2[k] = cut[k] /\ cut2[k + 1] = cut[k + 1]
        BY <1>a, <1>b, <2>a, <3>3
      <4>2. QED
        BY <4>1 DEF Filed, Cuts
    <3>4. QED
      BY <3>1, <3>2, <3>3
  <2>3. QED
    BY <1>3, <2>1, <2>2 DEF Cuts, CutSet
<1>7. Gaps(gap2)'
  <2>1. gap2[0] = 0
    BY <1>2, Constants DEF Filed, Gaps
  <2>2. ASSUME NEW k \in Names \ {0}
        PROVE  gap2[k] = gap2[k - 1] + IF name'[k] = 0 THEN 1 ELSE 0
    <3>1. k - 1 \in Names /\ k \in Int /\ i \in Int /\ gap[k] \in Int /\ gap[k - 1] \in Int
      <4>1. k - 1 \in Names /\ k \in Int /\ i \in Int
        BY <1>a, Constants
      <4>2. QED
        BY <4>1
    <3>2. gap[k] = gap[k - 1] + IF name[k] = 0 THEN 1 ELSE 0
      BY DEF Filed, Gaps
    <3>3. gap[0] = 0
      BY DEF Filed, Gaps
    <3>4. CASE i = 0
      <4>1. gap2[k] = gap[k] - 1 /\ gap2[k - 1] = IF k = 1 THEN 0 ELSE gap[k - 1] - 1
        BY <1>2, <3>1, <3>4
      <4>2. name'[k] = IF k = 1 THEN name[0] ELSE name[k]
        BY <1>b, <3>4
      <4>3. QED
        BY <3>1, <3>2, <3>3, <3>4, <4>1, <4>2
    <3>5. CASE i # 0
      <4>1. gap2[k] = (IF k = i THEN gap[k] + 1 ELSE gap[k])
            /\ gap2[k - 1] = (IF k = i + 1 THEN gap[k - 1] + 1 ELSE gap[k - 1])
        BY <1>2, <3>1, <3>5
      <4>2. name'[k] = IF k = i THEN 0 ELSE IF k = i + 1 THEN name[i] ELSE name[k]
        BY <1>b
      <4>3. QED
        BY <3>1, <3>2, <4>1, <4>2
    <3>6. QED
      BY <3>4, <3>5
  <2>3. QED
    BY <1>4, <2>1, <2>2 DEF Gaps
<1>8. QED
  BY <1>1, <1>2, <1>3, <1>4, <1>5, <1>6, <1>7 DEF Filed

\* The active file is made.
LEMMA CreateFiled ==
  ASSUME Types, NEW cut \in CutSet, NEW gap \in [Names -> Int], Filed(cut, gap),
         WithActive, UNCHANGED written
  PROVE  /\ Filed(cut, gap)' /\ name'[0] # 0 /\ \A i \in Names \ {0} : name'[i] = name[i]
         /\ name[0] = 0 => SizeOfFile(name[0])' = 0
         /\ name[0] # 0 => name' = name /\ content' = content
<1>a. /\ name \in [Names -> 0..Len(content)] /\ Len(content) \in Nat /\ Len(written) \in Nat
      /\ Names = 0..(Segments - 1)
  BY FileSizes DEF Types, Names
<1>1. CASE name[0] # 0
  <2>1. name' = name /\ content' = content /\ written' = written
    BY <1>1, Created
  <2>2. Filed(cut, gap)'
    BY <2>1 DEF Filed, NamesOK, SegmentsBounded, Full, SizeOfFile, Cuts, Gaps
  <2>3. QED
    BY <1>1, <2>1, <2>2
<1>2. CASE name[0] = 0
  <2>1. PICK n : n = Len(content)
    OBVIOUS
  <2>2. /\ Len(content') = n + 1 /\ name' = [name EXCEPT ![0] = n + 1] /\ content'[n + 1] = <<>>
        /\ \A f \in 1..n : content'[f] = content[f]
    BY <1>2, <2>1, Created
  <2>3. n \in Nat /\ Units(<<>>) = 0
    <3>1. [call |-> CHOOSE c \in Calls : TRUE, status |-> "started"].status = "started"
      OBVIOUS
    <3>2. <<>> \in Seq(Record) /\ Len(<<>>) = 0
      OBVIOUS
    <3>3. Units(<<>>) = 0
      BY <3>2, UnitsAre
    <3>4. QED
      BY <1>a, <2>1, <3>3
  <2>4. name'[0] = n + 1 /\ \A i \in Names \ {0} : name'[i] = name[i] /\ name[i] \in 0..n
    BY <1>a, <2>1, <2>2, Constants
  <2>5. SegmentsBounded'
    <3>1. \A f \in 1..(n + 1) : Units(content'[f]) <= Limit
      <4>1. \A f \in 1..n : Units(content'[f]) <= Limit
        BY <2>1, <2>2 DEF Filed, SegmentsBounded
      <4>2. Units(content'[n + 1]) <= Limit
        BY <2>2, <2>3, Constants
      <4>3. QED
        BY <2>3, <4>1, <4>2
    <3>2. QED
      BY <2>2, <3>1 DEF SegmentsBounded
  <2>6. NamesOK'
    <3>1. ASSUME NEW i \in Names \ {0}, name'[i] # 0
          PROVE Units(content'[name'[i]]) > Limit - Largest
      <4>1. Full(name[i]) /\ name'[i] = name[i] /\ name[i] \in 1..n
        BY <2>3, <2>4, <3>1 DEF Filed, NamesOK
      <4>2. QED
        BY <2>2, <4>1 DEF Full, SizeOfFile
    <3>2. ASSUME NEW i \in Names, NEW j \in Names, name'[i] = name'[j], name'[i] # 0 PROVE i = j
      <4>1. CASE i = 0 \/ j = 0
        BY <2>3, <2>4, <3>2, <4>1
      <4>2. CASE i # 0 /\ j # 0
        BY <2>4, <3>2, <4>2 DEF Filed, NamesOK
      <4>3. QED
        BY <4>1, <4>2
    <3>3. QED
      BY <3>1, <3>2 DEF NamesOK, Full, SizeOfFile
  <2>7. Cuts(cut)'
    <3>1. ASSUME NEW i \in Names
          PROVE  IF name'[i] = 0 THEN cut[i] = cut[i + 1]
                 ELSE /\ cut[i] = cut[i + 1] + Len(content'[name'[i]])
                      /\ \A j \in 1..Len(content'[name'[i]]) :
                           content'[name'[i]][j] = written[cut[i + 1] + j]
      <4>1. CASE i = 0
        <5>1. cut[0] = cut[0 + 1] /\ name'[0] # 0 /\ content'[name'[0]] = <<>>
          <6>1. cut[0] = cut[0 + 1]
            BY <1>2, Constants DEF Filed, Cuts
          <6>2. QED
            BY <2>2, <2>3, <2>4, <6>1
        <5>2. cut[0 + 1] \in Int /\ Len(<<>>) = 0 /\ 1..0 = {}
          BY Constants, <1>a DEF CutSet
        <5>3. QED
          BY <4>1, <5>1, <5>2
      <4>2. CASE i # 0
        <5>1. name'[i] = name[i] /\ (name[i] # 0 => content'[name[i]] = content[name[i]])
          BY <2>2, <2>3, <2>4, <4>2
        <5>2. QED
          BY <5>1 DEF Filed, Cuts
      <4>3. QED
        BY <4>1, <4>2
    <3>2. QED
      BY <3>1 DEF Filed, Cuts
  <2>8. Gaps(gap)'
    BY <2>4 DEF Filed, Gaps
  <2>9. SizeOfFile(name[0])' = 0
    BY <2>2, <2>3, <2>4 DEF SizeOfFile
  <2>10. QED
    BY <1>2, <2>3, <2>4, <2>5, <2>6, <2>7, <2>8, <2>9 DEF Filed
<1>3. QED
  BY <1>1, <1>2

\* A record goes to the active file.
LEMMA AppendFiled ==
  ASSUME Types, NEW cut \in CutSet, NEW gap \in [Names -> Int], Filed(cut, gap),
         NEW c \in Calls, AppendRecord(c), name[0] # 0, call[c].file = name[0], Fits(c)
  PROVE  \E cut2 \in CutSet' : Filed(cut2, gap)' /\ cut2 = [cut EXCEPT ![0] = cut[0] + 1]
<1>a. /\ name \in [Names -> 0..Len(content)] /\ Len(content) \in Nat /\ Len(written) \in Nat
      /\ Names = 0..(Segments - 1) /\ name[0] \in 1..Len(content) /\ name' = name
      /\ \A f \in 1..Len(content) : content[f] \in Seq(Record)
  <2>1. name' = name
    BY DEF AppendRecord
  <2>2. name \in [Names -> 0..Len(content)] /\ Len(content) \in Nat /\ Len(written) \in Nat
        /\ \A f \in 1..Len(content) : content[f] \in Seq(Record)
    BY FileSizes DEF Types
  <2>3. name[0] \in 0..Len(content)
    BY <2>2, Constants
  <2>4. name[0] \in 1..Len(content)
    BY <2>2, <2>3
  <2>5. QED
    BY <2>1, <2>2, <2>4 DEF Names
<1>1. PICK r, n, l, a : r = RecordOf(c) /\ n = Len(written) /\ l = Len(content) /\ a = name[0]
  OBVIOUS
<1>2. /\ Len(content') = l /\ r \in Record /\ Len(written') = n + 1 /\ written'[n + 1] = r
      /\ \A i \in 1..n : written'[i] = written[i]
      /\ content'[a] = Append(content[a], r) /\ \A f \in 1..l : f # a => content'[f] = content[f]
      /\ a \in 1..l /\ a # 0 /\ n \in Nat /\ l \in Nat
  BY <1>a, <1>1, Recorded
<1>3. /\ content[a] \in Seq(Record) /\ Len(content[a]) \in Nat /\ content'[a] \in Seq(Record)
      /\ Len(content'[a]) = Len(content[a]) + 1 /\ content'[a][Len(content[a]) + 1] = r
      /\ \A j \in 1..Len(content[a]) : content'[a][j] = content[a][j]
  BY <1>a, <1>1, <1>2, AppendProperties
<1>4. PICK cut2 : cut2 = [cut EXCEPT ![0] = cut[0] + 1]
  OBVIOUS
<1>5. cut[0] = n /\ \A k \in 0..Segments : cut[k] \in 0..n
  BY <1>1 DEF Filed, Cuts, CutSet
<1>6. cut2 \in CutSet' /\ cut2[0] = n + 1 /\ \A k \in 1..Segments : cut2[k] = cut[k]
  <2>1. \A k \in 0..Segments : cut[k] \in 0..(n + 1)
    BY <1>2, <1>5
  <2>2. cut \in [0..Segments -> 0..(n + 1)] /\ cut[0] + 1 \in 0..(n + 1) /\ 0 \in 0..Segments
    <3>1. DOMAIN cut = 0..Segments /\ cut = [k \in 0..Segments |-> cut[k]]
      BY DEF CutSet
    <3>2. cut \in [0..Segments -> 0..(n + 1)]
      BY <2>1, <3>1
    <3>3. QED
      BY <1>2, <1>5, <3>2, Constants
  <2>3. cut2 \in [0..Segments -> 0..(n + 1)]
    BY <1>4, <2>2
  <2>4. CutSet' = [0..Segments -> 0..(n + 1)]
    BY <1>2 DEF CutSet
  <2>5. QED
    BY <1>4, <1>5, <2>2, <2>3, <2>4
<1>7. SegmentsBounded'
  <2>1. Units(content'[a]) = Units(content[a]) + SizeOf[r.status]
    BY <1>2, <1>3, UnitsAppend
  <2>2. Units(content[a]) + SizeOf[r.status] <= Limit
    BY <1>1 DEF Fits, SizeOfFile, Incoming, RecordOf
  <2>3. \A f \in 1..l : Units(content'[f]) <= Limit
    BY <1>1, <1>2, <2>1, <2>2 DEF Filed, SegmentsBounded
  <2>4. QED
    BY <1>2, <2>3 DEF SegmentsBounded
<1>8. NamesOK'
  <2>1. ASSUME NEW i \in Names \ {0}, name[i] # 0
        PROVE  name[i] # a /\ name[i] \in 1..l /\ content'[name[i]] = content[name[i]]
    <3>1. name[i] # a
      BY <1>1, <2>1, Constants DEF Filed, NamesOK
    <3>2. QED
      BY <1>a, <1>1, <1>2, <2>1, <3>1
  <2>2. QED
    BY <1>a, <2>1 DEF Filed, NamesOK, Full, SizeOfFile
<1>9. Cuts(cut2)'
  <2>1. ASSUME NEW i \in Names
        PROVE  IF name[i] = 0 THEN cut2[i] = cut2[i + 1]
               ELSE /\ cut2[i] = cut2[i + 1] + Len(content'[name[i]])
                    /\ \A j \in 1..Len(content'[name[i]]) :
                         content'[name[i]][j] = written'[cut2[i + 1] + j]
    <3>0. i + 1 \in 1..Segments /\ i \in 0..Segments /\ cut2[i + 1] = cut[i + 1]
      <4>1. i + 1 \in 1..Segments /\ i \in 0..Segments
        BY <1>a, Constants
      <4>2. QED
        BY <1>6, <4>1
    <3>1. name[i] # 0 =>
            /\ cut[i] = cut[i + 1] + Len(content[name[i]])
            /\ \A j \in 1..Len(content[name[i]]) : content[name[i]][j] = written[cut[i + 1] + j]
      BY DEF Filed, Cuts
    <3>2. CASE i = 0
      <4>1. cut[1] + Len(content[a]) = n /\ cut[1] \in Nat /\ cut2[1] = cut[1]
        BY <1>1, <1>2, <1>5, <1>6, <3>0, <3>1, <3>2
      <4>2. ASSUME NEW j \in 1..(Len(content[a]) + 1)
            PROVE  content'[a][j] = written'[cut[1] + j]
        <5>1. CASE j = Len(content[a]) + 1
          <6>1. cut[1] + j = n + 1
            BY <1>3, <4>1, <5>1
          <6>2. QED
            BY <1>2, <1>3, <5>1, <6>1
        <5>2. CASE j # Len(content[a]) + 1
          <6>1. j \in 1..Len(content[a]) /\ cut[1] + j \in 1..n
            <7>1. PICK x \in Nat, y \in Nat : x = Len(content[a]) /\ y = cut[1]
              BY <1>3, <4>1
            <7>2. y + x = n /\ n \in Nat
              BY <1>2, <4>1, <7>1
            <7>3. j \in 1..x
              BY <5>2, <7>1
            <7>4. y + j \in 1..n
              BY <7>2, <7>3
            <7>5. QED
              BY <7>1, <7>3, <7>4
          <6>2. content[a][j] = written[cut[1] + j]
            BY <1>1, <1>2, <3>1, <3>2, <6>1
          <6>3. QED
            BY <1>2, <1>3, <6>1, <6>2
        <5>3. QED
          BY <5>1, <5>2
      <4>3. cut2[0] = cut2[1] + Len(content'[a])
        BY <1>2, <1>3, <1>6, <4>1
      <4>4. name[i] = a /\ i + 1 = 1 /\ cut2[i] = cut2[0]
        BY <1>1, <3>2
      <4>5. ASSUME NEW j \in 1..Len(content'[a]) PROVE content'[a][j] = written'[cut2[1] + j]
        BY <1>3, <4>1, <4>2
      <4>6. QED
        BY <1>2, <4>3, <4>4, <4>5
    <3>3. CASE i # 0 /\ name[i] # 0
      <4>1. name[i] # a /\ name[i] \in 1..l
        BY <1>a, <1>1, <3>3, Constants DEF Filed, NamesOK
      <4>2. content'[name[i]] = content[name[i]] /\ cut2[i] = cut[i]
        <5>1. i \in 1..Segments
          BY <1>a, <3>3, Constants
        <5>2. QED
          BY <1>2, <1>6, <4>1, <5>1
      <4>3. PICK s \in Seq(Record) : s = content[name[i]]
        BY <1>a, <1>1, <4>1
      <4>4. ASSUME NEW j \in 1..Len(s) PROVE s[j] = written'[cut[i + 1] + j]
        <5>1. cut[i + 1] + j \in 1..n
          <6>1. cut[i] \in 0..n /\ cut[i + 1] \in 0..n
            BY <1>5, <3>0
          <6>2. PICK x \in Nat, y \in Nat, z \in Nat :
                  x = cut[i] /\ y = cut[i + 1] /\ z = Len(s)
            BY <1>2, <4>3, <6>1
          <6>3. x = y + z /\ x <= n
            BY <1>2, <3>1, <3>3, <4>3, <6>1, <6>2
          <6>4. y + j \in 1..n
            BY <1>2, <6>2, <6>3
          <6>5. QED
            BY <6>2, <6>4
        <5>2. QED
          BY <1>2, <3>1, <3>3, <4>3, <5>1
      <4>5. QED
        BY <3>0, <3>1, <3>3, <4>2, <4>3, <4>4
    <3>4. CASE i # 0 /\ name[i] = 0
      <4>1. i \in 1..Segments /\ cut[i] = cut[i + 1]
        BY <1>a, <3>4, Constants DEF Filed, Cuts
      <4>2. QED
        BY <1>6, <3>0, <3>4, <4>1
    <3>5. QED
      BY <3>2, <3>3, <3>4
  <2>2. QED
    BY <1>a, <1>2, <1>6, <2>1 DEF Cuts, CutSet
<1>10. Gaps(gap)'
  BY <1>a DEF Filed, Gaps
<1>11. QED
  BY <1>4, <1>6, <1>7, <1>8, <1>9, <1>10 DEF Filed

LEMMA SameFiled ==
  ASSUME NEW cut, NEW gap, Filed(cut, gap), UNCHANGED <<name, content, written>>
  PROVE  Filed(cut, gap)'
BY DEF Filed, NamesOK, SegmentsBounded, Full, SizeOfFile, Cuts, Gaps

LEMMA BoundedKept ==
  ASSUME Types, NEW cut \in CutSet, NEW gap \in [Names -> Int], Bounded(cut, gap),
         NEW cut2, cut2[Segments] = cut[Segments],
         \A i \in Names \ {0} : name'[i] # 0 => name[i] # 0,
         \/ broken' = broken /\ \A i \in 1..Segments : Slack(i) => Slack(i)'
         \/ broken' = broken + 1
  PROVE  Bounded(cut2, gap)'
<1>1. SUFFICES ASSUME NEW i \in 1..Segments, There(i, cut2)'
               PROVE  \/ gap[Below(i)] <= broken'
                      \/ Slack(i)' /\ gap[Below(i)] <= broken' + 1
  BY DEF Bounded, Below
<1>2. There(i, cut)
  <2>1. i # Segments => i \in Names \ {0}
    BY Constants DEF Names
  <2>2. QED
    BY <1>1, <2>1 DEF There
<1>3. Below(i) \in Names /\ broken \in Nat
  BY Constants DEF Below, Names, Types
<1>4. gap[Below(i)] <= broken \/ (Slack(i) /\ gap[Below(i)] <= broken + 1)
  BY <1>2 DEF Bounded
<1>5. PICK g \in Int : g = gap[Below(i)]
  BY <1>3
<1>6. QED
  BY <1>3, <1>4, <1>5

-----------------------------------------------------------------------------
(* Steps of one session.                                                   *)

\* Nobody else is in record().
LEMMA OnlyOne ==
  ASSUME OneSession, Inv, NEW c \in Calls, call[c].pc \in Recording
  PROVE  \A d \in Calls \ {c} : call[d].pc \notin Recording
BY Alone DEF OneSession, Inv

\* The other calls keep what they know of the active file.
LEMMA OthersActive ==
  ASSUME OneSession, Inv, \A d \in Calls : ActiveOK(d), NEW c \in Calls, StepOf(c),
         NEW d \in Calls, d # c,
         UNCHANGED fileVars \/ call[c].pc \in Recording
  PROVE  ActiveOK(d)'
<1>1. call'[d] = call[d]
  BY Moved DEF Inv
<1>2. CASE UNCHANGED fileVars
  BY <1>1, <1>2 DEF fileVars, ActiveOK, Full, SizeOfFile, Fits, Incoming
<1>3. CASE call[c].pc \in Recording
  <2>1. call'[d].pc \notin Recording
    BY <1>1, <1>3, OnlyOne
  <2>2. QED
    BY <2>1 DEF ActiveOK, Recording, Rotating, Shifting
<1>4. QED
  BY <1>2, <1>3

\* Slack stays where no rotation ends and an index only falls.
LEMMA SlackKept ==
  ASSUME Types, NEW c \in Calls, RecorderOK(c), StepOf(c),
         call[c].pc \in Shifting => call'[c].pc \in Shifting /\ call'[c].index <= call[c].index
  PROVE  \A i \in 1..Segments : Slack(i) => Slack(i)'
<1>1. \A d \in Calls \ {c} : call'[d] = call[d]
  BY Moved
<1>2. call'[c].index \in Int /\ call[c].index \in Int
  BY Moved DEF Types, Place, Names
<1>3. QED
  BY <1>1, <1>2 DEF Slack

\* The steps that leave the files as they are.
LEMMA OtherSteps ==
  ASSUME OneSession, Inv, SessionInv, NEW c \in Calls,
         \/ Shift(c) \/ Stat(c) \/ Raise(c) \/ Begin(c) \/ Lock(c) \/ ChmodRotated(c)
         \/ Chmod(c) \/ Sync(c) \/ Device(c)
  PROVE  SessionInv'
<1>0. StepOf(c) /\ name' = name /\ content' = content /\ written' = written
  BY DEF StepOf, Begin, Lock, Stat, Shift, ChmodRotated, Chmod, Sync, Device, Raise, fileVars, Log
<1>a. /\ Types /\ RecorderOK(c) /\ ActiveOK(c) /\ call[c] \in Place
      /\ call \in [Calls -> Place] /\ name' = name /\ content' = content /\ StepOf(c)
      /\ name[0] \in 0..Len(content)
  BY <1>0, Constants DEF Inv, SessionInv, Types
<1>1. PICK cut \in CutSet, gap \in [Names -> Int] : Filed(cut, gap) /\ Bounded(cut, gap)
  BY DEF SessionInv
<1>4. Filed(cut, gap)' /\ cut \in CutSet'
  BY <1>0, <1>1, SameFiled DEF CutSet
<1>5. ActiveOK(c)' /\ Bounded(cut, gap)'
  <2>0. \A i \in Names \ {0} : name'[i] # 0 => name[i] # 0
    BY <1>a
  <2>1. CASE Shift(c)
    <3>1. /\ call[c].pc = "shift" /\ call[c].index \in Names /\ broken' = broken
          /\ name[0] # 0 /\ Full(name[0]) /\ name[call[c].index + 1] = 0
      BY <1>a, <2>1 DEF Shift, Log, ActiveOK, Shifting, Place
    <3>2. PICK i, pc : /\ i = IF call[c].index > 0 /\ name[call[c].index] = 0
                              THEN call[c].index - 1 ELSE call[c].index
                       /\ pc = IF call[c].index = 0 THEN "active"
                               ELSE IF name[call[c].index] # 0 THEN "replace" ELSE "shift"
      OBVIOUS
    <3>3. call'[c].pc = pc /\ call'[c].index = i
      BY <1>a, <2>1, <3>2 DEF Shift, Place
    <3>4. /\ pc \in Shifting /\ i <= call[c].index /\ name[i + 1] = 0
          /\ pc = "replace" => name[i] # 0
      BY <3>1, <3>2 DEF Shifting, Names
    <3>5. ActiveOK(c)'
      BY <1>a, <3>1, <3>3, <3>4 DEF ActiveOK, Full, SizeOfFile, Shifting
    <3>6. Bounded(cut, gap)'
      BY <1>1, <1>a, <2>0, <3>1, <3>3, <3>4, SlackKept, BoundedKept
    <3>7. QED
      BY <3>5, <3>6
  <2>2. CASE Stat(c)
    <3>1. /\ call[c].pc = "stat" /\ call'[c].status = call[c].status /\ broken' = broken
          /\ call'[c].pc = IF name[0] = 0 \/ Fits(c) THEN "touch" ELSE "unlink"
      BY <1>a, <2>2 DEF Stat, Goto, Log, Place
    <3>2. ~(name[0] = 0 \/ Fits(c)) => name[0] # 0 /\ Full(name[0])
      <4>1. SUFFICES ASSUME name[0] # 0, ~Fits(c) PROVE Full(name[0])
        OBVIOUS
      <4>2. /\ Incoming(c) \in 1..Largest /\ Largest \in 1..Limit /\ Units(content[name[0]]) \in Nat
        BY <1>a, <4>1, FileSizes
      <4>3. QED
        BY <4>1, <4>2, Constants DEF Fits, Full, SizeOfFile
    <3>3. ActiveOK(c)'
      BY <1>a, <3>1, <3>2 DEF ActiveOK, Full, SizeOfFile, Fits, Incoming, Shifting
    <3>4. Bounded(cut, gap)'
      BY <1>1, <1>a, <2>0, <3>1, SlackKept, BoundedKept DEF Shifting
    <3>5. QED
      BY <3>3, <3>4
  <2>3. CASE Raise(c)
    <3>1. /\ call'[c].pc \in {"preflight", "postfailed"}
          /\ broken' = IF call[c].pc \in Rotating THEN broken + 1 ELSE broken
      BY <1>a, <2>3 DEF Raise, AfterError, Goto, Place
    <3>2. ActiveOK(c)'
      BY <3>1 DEF ActiveOK, Shifting
    <3>3. Bounded(cut, gap)'
      <4>1. CASE call[c].pc \in Rotating
        BY <1>1, <1>a, <2>0, <3>1, <4>1, BoundedKept
      <4>2. CASE call[c].pc \notin Rotating
        BY <1>1, <1>a, <2>0, <3>1, <4>2, SlackKept, BoundedKept DEF Shifting, Rotating
      <4>3. QED
        BY <4>1, <4>2
    <3>4. QED
      BY <3>2, <3>3
  <2>4. CASE Begin(c) \/ Lock(c) \/ ChmodRotated(c) \/ Chmod(c) \/ Sync(c) \/ Device(c)
    <3>1. /\ broken' = broken
          /\ call[c].pc \in {"idle", "wait", "chmod1", "chmod", "sync", "device"}
          /\ call'[c].pc \in {"wait", "stat", "touch", "open", "device", "returned"}
          /\ call'[c].pc = "touch" => call[c].pc = "chmod1"
          /\ call'[c].pc = "open" => call[c].pc = "chmod" /\ call'[c].status = call[c].status
      BY <1>a, <2>4 DEF Begin, Lock, ChmodRotated, Chmod, Sync, Device, Goto, Log, Place
    <3>2. ActiveOK(c)'
      BY <1>a, <3>1 DEF ActiveOK, Fits, Incoming, SizeOfFile, Shifting
    <3>3. Bounded(cut, gap)'
      BY <1>1, <1>a, <2>0, <3>1, SlackKept, BoundedKept DEF Shifting
    <3>4. QED
      BY <3>2, <3>3
  <2>5. QED
    BY <2>1, <2>2, <2>3, <2>4
<1>6. \A d \in Calls : ActiveOK(d)'
  BY <1>0, <1>5, OthersActive DEF SessionInv, fileVars
<1>7. QED
  BY <1>4, <1>5, <1>6 DEF SessionInv

\* The active file is opened, or made.
LEMMA CreatingSteps ==
  ASSUME OneSession, Inv, SessionInv, NEW c \in Calls, Touch(c) \/ Open(c)
  PROVE  SessionInv'
<1>a. /\ Types /\ RecorderOK(c) /\ ActiveOK(c) /\ call[c] \in Place
      /\ call \in [Calls -> Place] /\ StepOf(c) /\ WithActive
      /\ written' = written /\ broken' = broken /\ call[c].pc \in {"touch", "open"}
  BY DEF Inv, SessionInv, Types, StepOf, Touch, Open, Log
<1>1. PICK cut \in CutSet, gap \in [Names -> Int] : Filed(cut, gap) /\ Bounded(cut, gap)
  BY DEF SessionInv
<1>2. /\ Filed(cut, gap)' /\ cut \in CutSet' /\ name'[0] # 0
      /\ \A i \in Names \ {0} : name'[i] = name[i]
      /\ name[0] = 0 => SizeOfFile(name[0])' = 0
      /\ name[0] # 0 => name' = name /\ content' = content
  BY <1>1, <1>a, CreateFiled DEF CutSet
<1>3. /\ call'[c].pc \in {"chmod", "append"} /\ call'[c].status = call[c].status
      /\ call'[c].pc = "append" => call'[c].file = name'[0]
  <2>1. PICK f : f = name'[0]
    OBVIOUS
  <2>2. QED
    BY <1>a, <2>1 DEF Touch, Open, Goto, Place
<1>4. ActiveOK(c)'
  <2>1. Fits(c)'
    <3>1. CASE name[0] # 0
      BY <1>2, <1>3, <1>a, <3>1 DEF ActiveOK, Fits, Incoming, SizeOfFile
    <3>2. CASE name[0] = 0
      <4>1. Incoming(c) \in 1..Largest /\ Largest \in 1..Limit
        BY <1>a, FileSizes
      <4>2. Incoming(c)' = Incoming(c) /\ SizeOfFile(name[0])' = 0
        BY <1>2, <1>3, <3>2 DEF Incoming
      <4>3. QED
        BY <4>1, <4>2, Constants DEF Fits
    <3>3. QED
      BY <3>1, <3>2
  <2>2. QED
    BY <1>2, <1>3, <2>1 DEF ActiveOK, Shifting
<1>5. Bounded(cut, gap)'
  BY <1>1, <1>2, <1>a, SlackKept, BoundedKept DEF Shifting
<1>6. \A d \in Calls : ActiveOK(d)'
  BY <1>a, <1>4, OthersActive DEF SessionInv, Recording
<1>7. QED
  BY <1>2, <1>5, <1>6 DEF SessionInv

\* A record is appended.
LEMMA AppendingStep ==
  ASSUME OneSession, Inv, SessionInv, NEW c \in Calls, AppendRecord(c)
  PROVE  SessionInv'
<1>a. /\ Types /\ RecorderOK(c) /\ ActiveOK(c) /\ call[c] \in Place
      /\ call \in [Calls -> Place] /\ StepOf(c) /\ name' = name
      /\ broken' = broken /\ call[c].pc = "append" /\ call'[c].pc = "sync"
  BY DEF Inv, SessionInv, Types, StepOf, AppendRecord, Goto, Place
<1>1. PICK cut \in CutSet, gap \in [Names -> Int] : Filed(cut, gap) /\ Bounded(cut, gap)
  BY DEF SessionInv
<1>2. PICK cut2 \in CutSet' : Filed(cut2, gap)' /\ cut2 = [cut EXCEPT ![0] = cut[0] + 1]
  BY <1>1, <1>a, AppendFiled DEF ActiveOK
<1>3. cut2[Segments] = cut[Segments]
  BY <1>2, Constants DEF CutSet
<1>4. Bounded(cut2, gap)'
  BY <1>1, <1>3, <1>a, SlackKept, BoundedKept DEF Shifting
<1>5. ActiveOK(c)'
  BY <1>a DEF ActiveOK, Shifting
<1>6. \A d \in Calls : ActiveOK(d)'
  BY <1>a, <1>5, OthersActive DEF SessionInv, Recording
<1>7. QED
  BY <1>2, <1>4, <1>6 DEF SessionInv

\* The oldest segment is let go of.
LEMMA UnlinkingStep ==
  ASSUME OneSession, Inv, SessionInv, NEW c \in Calls, Unlink(c)
  PROVE  SessionInv'
<1>a. /\ Types /\ RecorderOK(c) /\ ActiveOK(c) /\ call[c] \in Place
      /\ call \in [Calls -> Place] /\ StepOf(c) /\ content' = content /\ written' = written
      /\ name' = [name EXCEPT ![Segments - 1] = 0] /\ name \in [Names -> 0..Len(content)]
      /\ broken' = broken /\ broken \in Nat /\ call[c].pc = "unlink" /\ call'[c].pc = "shift"
      /\ call'[c].index = Segments - 2
  BY DEF Inv, SessionInv, Types, StepOf, Unlink, Place, Log
<1>b. \A d \in Calls : call[d].pc \notin Shifting
  BY <1>a, OnlyOne DEF Recording, Rotating, Shifting
<1>c. \A i : ~Slack(i)
  BY <1>b DEF Slack
<1>1. PICK cut \in CutSet, gap \in [Names -> Int] : Filed(cut, gap) /\ Bounded(cut, gap)
  BY DEF SessionInv
<1>2. PICK cut2 \in CutSet', gap2 \in [Names -> Int] :
         /\ Filed(cut2, gap2)'
         /\ cut2 = [cut EXCEPT ![Segments] = cut[Segments - 1]]
         /\ gap2 = [gap EXCEPT ![Segments - 1] = gap[Segments - 2] + 1]
  BY <1>1, <1>a, UnlinkFiled
<1>3. ASSUME NEW i \in 1..Segments, There(i, cut2)'
      PROVE  gap2[Below(i)] <= broken \/ (Slack(i)' /\ gap2[Below(i)] <= broken + 1)
  <2>a. \A k \in 1..Segments : There(k, cut) => gap[Below(k)] <= broken
    BY <1>1, <1>c DEF Bounded
  <2>b. /\ gap2[Segments - 1] = gap[Segments - 2] + 1 /\ gap[Segments - 2] \in Int
        /\ gap[Segments - 1] \in Int
    BY <1>2, Constants
  <2>1. CASE i = Segments
    <3>1. Slack(i)'
      BY <1>a, <2>1, Constants DEF Slack, Shifting
    <3>2. cut[Segments - 1] # 0
      BY <1>2, <1>3, <2>1, Constants DEF There, CutSet
    <3>3. gap[Segments - 1] = gap[Segments - 2] + IF name[Segments - 1] = 0 THEN 1 ELSE 0
      <4>1. Segments - 1 \in Names \ {0} /\ (Segments - 1) - 1 = Segments - 2
        BY Constants
      <4>2. QED
        BY <1>1, <4>1 DEF Filed, Gaps
    <3>4. gap[Segments - 1] <= broken
      <4>1. CASE name[Segments - 1] # 0
        <5>1. Segments - 1 \in 1..Segments /\ Segments - 1 # Segments
          BY Constants
        <5>2. There(Segments - 1, cut) /\ Below(Segments - 1) = Segments - 1
          BY <4>1, <5>1 DEF There, Below
        <5>3. QED
          BY <2>a, <5>1, <5>2
      <4>2. CASE name[Segments - 1] = 0
        <5>1. cut[Segments - 1] = cut[(Segments - 1) + 1] /\ (Segments - 1) + 1 = Segments
          <6>1. \A k \in Names : name[k] = 0 => cut[k] = cut[k + 1]
            BY <1>1 DEF Filed, Cuts
          <6>2. QED
            BY <4>2, <6>1, Constants
        <5>2. There(Segments, cut) /\ Below(Segments) = Segments - 1 /\ Segments \in 1..Segments
          BY <3>2, <5>1, Constants DEF There, Below
        <5>3. QED
          BY <2>a, <5>2
      <4>3. QED
        BY <4>1, <4>2
    <3>5. gap2[Segments - 1] <= broken + 1
      BY <1>a, <2>b, <3>3, <3>4
    <3>6. QED
      BY <2>1, <3>1, <3>5 DEF Below
  <2>2. CASE i # Segments
    <3>1. i \in Names /\ name'[i] # 0
      BY <1>3, <2>2, Constants DEF There, Names
    <3>2. i # Segments - 1 /\ name[i] # 0
      BY <1>a, <3>1
    <3>3. gap2[i] = gap[i]
      BY <1>2, <3>1, <3>2
    <3>4. gap[i] <= broken
      BY <2>2, <2>a, <3>2 DEF There, Below
    <3>5. QED
      BY <2>2, <3>3, <3>4 DEF Below
  <2>3. QED
    BY <2>1, <2>2
<1>4. Bounded(cut2, gap2)'
  BY <1>3, <1>a DEF Bounded, Below
<1>5. ActiveOK(c)'
  <2>1. /\ name'[0] = name[0] /\ name[0] # 0 /\ Full(name[0])
        /\ name'[(Segments - 2) + 1] = 0
    BY <1>a, Constants DEF ActiveOK
  <2>2. QED
    BY <1>a, <2>1 DEF ActiveOK, Full, SizeOfFile, Shifting
<1>6. \A d \in Calls : ActiveOK(d)'
  BY <1>a, <1>5, OthersActive DEF SessionInv, Recording
<1>7. QED
  BY <1>2, <1>4, <1>6 DEF SessionInv

\* A backup takes the next name.
LEMMA ReplacingStep ==
  ASSUME OneSession, Inv, SessionInv, NEW c \in Calls, Replace(c)
  PROVE  SessionInv'
<1>a. /\ Types /\ RecorderOK(c) /\ ActiveOK(c) /\ call[c] \in Place
      /\ call \in [Calls -> Place] /\ StepOf(c) /\ content' = content /\ written' = written
      /\ name \in [Names -> 0..Len(content)]
      /\ broken' = broken /\ broken \in Nat /\ call[c].pc = "replace"
  BY DEF Inv, SessionInv, Types, StepOf, Replace, Log
<1>b. PICK k \in Names : k = call[c].index
  BY <1>a DEF Place
<1>c. /\ k # 0 /\ k \in Nat /\ k + 1 \in Names /\ name[k] # 0 /\ name[k + 1] = 0
      /\ name[0] # 0 /\ Full(name[0]) /\ Rename(k)
      /\ call'[c].pc = "shift" /\ call'[c].index = k - 1
  BY <1>a, <1>b DEF RecorderOK, ActiveOK, Shifting, Names, Replace, Place
<1>d. k \in 1..(Segments - 2) /\ k \in 1..Segments /\ k # Segments /\ k + 1 \in 1..Segments
      /\ k + 1 # Segments
  BY <1>c, Constants DEF Names
<1>e. \A i \in 1..Segments : ~(i > k) => ~Slack(i)
  <2>1. \A d \in Calls \ {c} : call[d].pc \notin Shifting
    BY <1>a, OnlyOne DEF Recording, Rotating, Shifting
  <2>2. QED
    BY <1>b, <2>1 DEF Slack
<1>1. PICK cut \in CutSet, gap \in [Names -> Int] : Filed(cut, gap) /\ Bounded(cut, gap)
  BY DEF SessionInv
<1>f. Full(name[k])
  BY <1>1, <1>c DEF Filed, NamesOK
<1>2. PICK cut2 \in CutSet', gap2 \in [Names -> Int] :
         /\ Filed(cut2, gap2)'
         /\ cut2 = [cut EXCEPT ![k + 1] = cut[k]]
         /\ gap2 = IF k = 0 THEN [n \in Names |-> IF n = 0 THEN 0 ELSE gap[n] - 1]
                   ELSE [gap EXCEPT ![k] = gap[k] + 1]
  <2>1. /\ Types /\ Filed(cut, gap) /\ Rename(k) /\ UNCHANGED <<content, written>>
        /\ name[k] # 0 /\ name[k + 1] = 0 /\ Full(name[k]) /\ k + 1 \in Names
    BY <1>1, <1>a, <1>c, <1>f
  <2>2. QED
    BY <2>1, RenameFiled
<1>3. /\ \A i \in Names : gap2[i] = IF i = k THEN gap[k] + 1 ELSE gap[i]
      /\ \A i \in Names : name'[i] = IF i = k THEN 0 ELSE IF i = k + 1 THEN name[k] ELSE name[i]
      /\ cut2[Segments] = cut[Segments]
  <2>1. \A i \in Names : gap2[i] = IF i = k THEN gap[k] + 1 ELSE gap[i]
    BY <1>2, <1>c
  <2>2. PICK z, f : z = 0 /\ f = name[k]
    OBVIOUS
  <2>3. name' = [name EXCEPT ![k] = z, ![k + 1] = f] /\ k # k + 1
    BY <1>c, <2>2 DEF Rename
  <2>4. \A i \in Names : name'[i] = IF i = k THEN z ELSE IF i = k + 1 THEN f ELSE name[i]
    BY <1>a, <2>3
  <2>5. cut2[Segments] = cut[Segments]
    BY <1>2, <1>d, Constants DEF CutSet
  <2>6. QED
    BY <2>1, <2>2, <2>4, <2>5
<1>4. ASSUME NEW i \in 1..Segments, There(i, cut2)'
      PROVE  gap2[Below(i)] <= broken \/ (Slack(i)' /\ gap2[Below(i)] <= broken + 1)
  <2>a. \A n \in 1..Segments : There(n, cut) =>
          gap[Below(n)] <= broken \/ (n > k /\ gap[Below(n)] <= broken + 1)
    BY <1>1, <1>e DEF Bounded
  <2>b. i >= k => Slack(i)'
    BY <1>c DEF Slack, Shifting
  <2>c. Below(i) \in Names /\ gap[Below(i)] \in Int /\ i \in Int
    BY Constants DEF Below, Names
  <2>1. CASE i = k + 1
    <3>1. gap[k] <= broken
      <4>1. There(k, cut) /\ Below(k) = k
        BY <1>c, <1>d DEF There, Below
      <4>2. QED
        BY <1>c, <1>d, <2>a, <4>1
    <3>2. gap[k + 1] = gap[k] + 1
      <4>1. k + 1 \in Names \ {0} /\ (k + 1) - 1 = k
        BY <1>c
      <4>2. QED
        BY <1>1, <1>c, <4>1 DEF Filed, Gaps
    <3>3. Below(i) = k + 1 /\ k + 1 # k
      BY <1>c, <1>d, <2>1 DEF Below
    <3>4. gap2[Below(i)] <= broken + 1
      BY <1>3, <1>a, <1>c, <3>1, <3>2, <3>3
    <3>5. Slack(i)'
      BY <1>c, <2>1, <2>b
    <3>6. QED
      BY <3>4, <3>5
  <2>2. CASE i # k + 1
    <3>1. i # k
      BY <1>3, <1>4, <1>d DEF There
    <3>2. There(i, cut)
      <4>1. CASE i = Segments
        BY <1>3, <1>4, <4>1 DEF There
      <4>2. CASE i # Segments
        <5>1. i \in Names
          BY <4>2, Constants DEF Names
        <5>2. QED
          BY <1>3, <1>4, <2>2, <3>1, <4>2, <5>1 DEF There
      <4>3. QED
        BY <4>1, <4>2
    <3>3. Below(i) # k
      BY <1>d, <3>1, Constants DEF Below
    <3>4. gap2[Below(i)] = gap[Below(i)]
      BY <1>3, <2>c, <3>3
    <3>5. QED
      BY <1>c, <2>a, <2>b, <2>c, <3>2, <3>4
  <2>3. QED
    BY <2>1, <2>2
<1>5. Bounded(cut2, gap2)'
  BY <1>4, <1>a DEF Bounded, Below
<1>6. ActiveOK(c)'
  <2>1. /\ name'[0] = name[0] /\ name'[(k - 1) + 1] = 0
    <3>1. 0 # k /\ 0 # k + 1 /\ (k - 1) + 1 = k
      BY <1>c
    <3>2. QED
      BY <1>3, <3>1, Constants
  <2>2. QED
    BY <1>a, <1>c, <2>1 DEF ActiveOK, Full, SizeOfFile, Shifting
<1>7. \A d \in Calls : ActiveOK(d)'
  BY <1>a, <1>6, OthersActive DEF SessionInv, Recording, Rotating
<1>8. QED
  BY <1>2, <1>5, <1>7 DEF SessionInv

\* The active file becomes the newest backup.
LEMMA ReplacingActive ==
  ASSUME OneSession, Inv, SessionInv, NEW c \in Calls, ReplaceActive(c)
  PROVE  SessionInv'
<1>a. /\ Types /\ RecorderOK(c) /\ ActiveOK(c) /\ call[c] \in Place
      /\ call \in [Calls -> Place] /\ StepOf(c) /\ content' = content /\ written' = written
      /\ name \in [Names -> 0..Len(content)] /\ Rename(0)
      /\ broken' = broken /\ broken \in Nat /\ call[c].pc = "active"
      /\ call'[c].pc = "chmod1"
  BY DEF Inv, SessionInv, Types, StepOf, ReplaceActive, Goto, Place, Log
<1>b. name[0] # 0 /\ Full(name[0]) /\ name[1] = 0 /\ 0 + 1 = 1
  BY <1>a DEF ActiveOK, RecorderOK, Shifting
<1>1. PICK cut \in CutSet, gap \in [Names -> Int] : Filed(cut, gap) /\ Bounded(cut, gap)
  BY DEF SessionInv
<1>2. PICK cut2 \in CutSet', gap2 \in [Names -> Int] :
         /\ Filed(cut2, gap2)'
         /\ cut2 = [cut EXCEPT ![0 + 1] = cut[0]]
         /\ gap2 = IF 0 = 0 THEN [n \in Names |-> IF n = 0 THEN 0 ELSE gap[n] - 1]
                   ELSE [gap EXCEPT ![0] = gap[0] + 1]
  <2>1. /\ Types /\ Filed(cut, gap) /\ Rename(0) /\ UNCHANGED <<content, written>>
        /\ name[0] # 0 /\ name[0 + 1] = 0 /\ Full(name[0]) /\ 0 + 1 \in Names /\ 0 \in Names
    BY <1>1, <1>a, <1>b, Constants
  <2>2. QED
    BY <2>1, RenameFiled
<1>3. /\ \A i \in Names \ {0} : gap2[i] = gap[i] - 1
      /\ name'[0] = 0 /\ \A i \in Names \ {0, 1} : name'[i] = name[i]
      /\ cut2[Segments] = cut[Segments]
  <2>1. \A i \in Names \ {0} : gap2[i] = gap[i] - 1
    BY <1>2
  <2>2. name' = [name EXCEPT ![0] = 0, ![1] = name[0]]
    BY <1>a, <1>b DEF Rename
  <2>3. cut2[Segments] = cut[Segments]
    BY <1>2, <1>b, Constants DEF CutSet
  <2>4. name'[0] = 0 /\ \A i \in Names \ {0, 1} : name'[i] = name[i]
    BY <1>a, <2>2, Constants
  <2>5. QED
    BY <2>1, <2>3, <2>4
<1>4. ASSUME NEW i \in 1..Segments, There(i, cut2)' PROVE gap2[Below(i)] <= broken
  <2>1. Below(i) \in Names \ {0} /\ gap[Below(i)] \in Int
    BY Constants DEF Below, Names
  <2>2. CASE i = 1
    <3>1. gap[1] = gap[1 - 1] + 1 /\ 1 - 1 = 0 /\ gap[0] = 0
      BY <1>1, <1>b, Constants DEF Filed, Gaps
    <3>2. Below(i) = 1
      BY <2>2, Constants DEF Below
    <3>3. gap[1] = 1 /\ gap2[1] = gap[1] - 1
      BY <1>3, <2>1, <3>1, <3>2
    <3>4. QED
      BY <1>a, <3>2, <3>3
  <2>3. CASE i # 1
    <3>1. There(i, cut)
      <4>1. CASE i = Segments
        BY <1>3, <1>4, <4>1 DEF There
      <4>2. CASE i # Segments
        <5>1. i \in Names \ {0, 1}
          BY <2>3, <4>2, Constants DEF Names
        <5>2. QED
          BY <1>3, <1>4, <4>2, <5>1 DEF There
      <4>3. QED
        BY <4>1, <4>2
    <3>2. gap[Below(i)] <= broken \/ gap[Below(i)] <= broken + 1
      BY <1>1, <3>1 DEF Bounded
    <3>3. QED
      BY <1>3, <1>a, <2>1, <3>2
  <2>4. QED
    BY <2>2, <2>3
<1>5. Bounded(cut2, gap2)'
  BY <1>4, <1>a DEF Bounded, Below
<1>6. ActiveOK(c)'
  BY <1>a, <1>3 DEF ActiveOK, Shifting
<1>7. \A d \in Calls : ActiveOK(d)'
  BY <1>a, <1>6, OthersActive DEF SessionInv, Recording, Rotating
<1>8. QED
  BY <1>2, <1>5, <1>7 DEF SessionInv

\* The end of the process.
LEMMA KillingStep ==
  ASSUME OneSession, Inv, SessionInv, NEW p \in Processes, Kill(p)
  PROVE  SessionInv'
<1>a. /\ Types /\ call \in [Calls -> Place] /\ broken \in Nat
      /\ name' = name /\ content' = content /\ written' = written
  BY DEF Inv, Types, Kill, fileVars
<1>1. PICK cut \in CutSet, gap \in [Names -> Int] : Filed(cut, gap) /\ Bounded(cut, gap)
  BY DEF SessionInv
<1>2. PICK dying \in SUBSET Calls :
        /\ dying = {c \in Calls : ProcessOf[c] = p /\ call[c].pc \notin Finished \cup {"idle"}}
        /\ call' = [c \in Calls |-> IF c \in dying THEN [call[c] EXCEPT !.pc = "killed"]
                                    ELSE call[c]]
        /\ broken' = IF \E c \in dying : call[c].pc \in Rotating THEN broken + 1 ELSE broken
  BY DEF Kill
<1>3. Filed(cut, gap)' /\ cut \in CutSet'
  BY <1>1, <1>a, SameFiled DEF CutSet
<1>4. Bounded(cut, gap)'
  <2>1. CASE \E c \in dying : call[c].pc \in Rotating
    <3>1. broken' = broken + 1
      BY <1>2, <2>1
    <3>2. QED
      BY <1>1, <1>a, <3>1, BoundedKept
  <2>2. CASE ~\E c \in dying : call[c].pc \in Rotating
    <3>1. \A c \in Calls : call[c].pc \in Shifting => call'[c] = call[c]
      BY <1>2, <2>2 DEF Rotating, Shifting
    <3>2. \A i \in 1..Segments : Slack(i) => Slack(i)'
      BY <3>1 DEF Slack
    <3>3. broken' = broken
      BY <1>2, <2>2
    <3>4. QED
      BY <1>1, <1>a, <3>2, <3>3, BoundedKept
  <2>3. QED
    BY <2>1, <2>2
<1>5. ASSUME NEW c \in Calls PROVE ActiveOK(c)'
  <2>1. CASE c \in dying
    <3>1. call'[c].pc = "killed"
      BY <1>2, <1>a, <2>1 DEF Place
    <3>2. QED
      BY <3>1 DEF ActiveOK, Shifting
  <2>2. CASE c \notin dying
    <3>1. call'[c] = call[c] /\ ActiveOK(c)
      BY <1>2, <2>2 DEF SessionInv
    <3>2. QED
      BY <1>a, <3>1 DEF ActiveOK, Full, SizeOfFile, Fits, Incoming
  <2>3. QED
    BY <2>1, <2>2
<1>6. QED
  BY <1>3, <1>4, <1>5 DEF SessionInv

LEMMA SessionInit == ASSUME Init PROVE SessionInv
<1>1. /\ \A i \in Names : name[i] = 0
      /\ Len(content) = 0 /\ Len(written) = 0 /\ broken = 0 /\ 1..0 = {}
  BY DEF Init
<1>2. PICK cut : cut = [i \in 0..Segments |-> 0]
  OBVIOUS
<1>3. PICK gap : gap = [i \in Names |-> i]
  OBVIOUS
<1>4. cut \in CutSet /\ Cuts(cut)
  <2>1. cut \in [0..Segments -> 0..Len(written)]
    BY <1>1, <1>2
  <2>2. cut[0] = Len(written)
    BY <1>1, <1>2, Constants
  <2>3. ASSUME NEW i \in Names PROVE cut[i] = cut[i + 1]
    <3>1. i \in 0..Segments /\ i + 1 \in 0..Segments
      BY Constants DEF Names
    <3>2. QED
      BY <1>2, <3>1
  <2>4. QED
    BY <1>1, <2>1, <2>2, <2>3 DEF CutSet, Cuts
<1>5. gap \in [Names -> Int] /\ Gaps(gap)
  <2>1. gap \in [Names -> Int] /\ gap[0] = 0
    BY <1>3, Constants DEF Names
  <2>2. ASSUME NEW i \in Names \ {0} PROVE gap[i] = gap[i - 1] + 1
    BY <1>3, Constants DEF Names
  <2>3. QED
    BY <1>1, <2>1, <2>2 DEF Gaps
<1>6. SegmentsBounded /\ NamesOK
  BY <1>1 DEF SegmentsBounded, NamesOK
<1>7. Bounded(cut, gap)
  <2>1. ASSUME NEW i \in 1..Segments PROVE ~There(i, cut)
    BY <1>1, <1>2, Constants DEF There, Names
  <2>2. QED
    BY <2>1 DEF Bounded
<1>8. \A c \in Calls : ActiveOK(c)
  BY DEF Init, ActiveOK, Shifting
<1>9. QED
  BY <1>4, <1>5, <1>6, <1>7, <1>8 DEF SessionInv, Filed

LEMMA SessionStep == ASSUME OneSession, Inv, SessionInv, [Next]_vars PROVE SessionInv'
<1>1. CASE \E c \in Calls : StepOf(c)
  BY <1>1, OtherSteps, CreatingSteps, AppendingStep, UnlinkingStep, ReplacingStep, ReplacingActive
     DEF StepOf
<1>2. CASE \E p \in Processes : Kill(p)
  BY <1>2, KillingStep
<1>3. CASE UNCHANGED vars
  <2>1. PICK cut \in CutSet, gap \in [Names -> Int] : Filed(cut, gap) /\ Bounded(cut, gap)
    BY DEF SessionInv
  <2>2. Filed(cut, gap)' /\ cut \in CutSet' /\ Bounded(cut, gap)'
    BY <1>3, <2>1, SameFiled DEF vars, fileVars, CutSet, Bounded, There, Below, Slack
  <2>3. \A c \in Calls : ActiveOK(c)'
    BY <1>3 DEF vars, fileVars, SessionInv, ActiveOK, Full, SizeOfFile, Fits, Incoming
  <2>4. QED
    BY <2>2, <2>3 DEF SessionInv
<1>4. QED
  BY <1>1, <1>2, <1>3 DEF Next, StepOf

-----------------------------------------------------------------------------
(* What the files hold.                                                    *)

\* The records of the file with a name.
Held(i) == IF name[i] = 0 THEN <<>> ELSE content[name[i]]

\* The segments read from the oldest: what is read after k of them.
Read(F) ==
  /\ F \in [1..Segments -> Seq(Record)] /\ Retained = F[Segments]
  /\ F[1] = Held(Segments - 1)
  /\ \A k \in 2..Segments : F[k] = F[k - 1] \o Held(Segments - k)

LEMMA HeldAre ==
  ASSUME Types, NEW i \in Names
  PROVE  Held(i) \in Seq(Record) /\ Len(Held(i)) \in Nat
<1>1. name[i] \in 0..Len(content) /\ Len(content) \in Nat
  BY DEF Types
<1>2. CASE name[i] = 0
  <2>1. <<>> \in Seq(Record) /\ Len(<<>>) \in Nat
    OBVIOUS
  <2>2. QED
    BY <1>2, <2>1 DEF Held
<1>3. CASE name[i] # 0
  <2>1. content[name[i]] \in Seq(Record)
    BY <1>1, <1>3, FileSizes
  <2>2. QED
    BY <1>3, <2>1 DEF Held
<1>4. QED
  BY <1>2, <1>3

LEMMA ReadInOrder ==
  ASSUME Types
  PROVE  \E F : Read(F)
<1>1. PICK n, S : n = Segments /\ S = Record
  OBVIOUS
<1>2. PICK q : q = [k \in 1..n |-> Held(n - k)]
  OBVIOUS
<1>3. Retained = FlattenSeq(q)
  BY <1>1, <1>2 DEF Retained, Held
<1>4. q \in [1..n -> Seq(S)] /\ n \in Nat \ {0}
  <2>1. ASSUME NEW k \in 1..n PROVE Held(n - k) \in Seq(S)
    <3>1. n - k \in Names
      BY <1>1, Constants DEF Names
    <3>2. QED
      BY <1>1, <3>1, HeldAre
  <2>2. n \in Nat \ {0}
    BY <1>1, Constants
  <2>3. QED
    BY <1>2, <2>1, <2>2
<1>5. FlattenedBy(S, n, q)
  BY <1>4, Flattened
<1>6. PICK F : /\ F \in [1..n -> Seq(S)] /\ FlattenSeq(q) = F[n] /\ F[1] = q[1]
               /\ \A i \in 2..n : F[i] = F[i - 1] \o q[i]
  BY <1>5 DEF FlattenedBy
<1>7. q[1] = Held(n - 1) /\ \A i \in 2..n : q[i] = Held(n - i)
  <2>1. 1 \in 1..n /\ \A i \in 2..n : i \in 1..n
    BY <1>4
  <2>2. QED
    BY <1>2, <2>1
<1>8. F \in [1..Segments -> Seq(Record)] /\ Retained = F[Segments] /\ F[1] = Held(Segments - 1)
  BY <1>1, <1>3, <1>6, <1>7
<1>9. \A k \in 2..Segments : F[k] = F[k - 1] \o Held(Segments - k)
  BY <1>1, <1>6, <1>7
<1>10. QED
  BY <1>8, <1>9 DEF Read

\* Each file read so far has its place in what was written.
LEMMA ReadIsPart ==
  ASSUME Types, NEW cut \in CutSet, Cuts(cut), NEW F, Read(F), NEW k \in 1..Segments
  PROVE  /\ Len(F[k]) = cut[Segments - k] - cut[Segments]
         /\ \A j \in 1..Len(F[k]) : F[k][j] = written[cut[Segments] + j]
<1> DEFINE Part(n) == /\ Len(F[n]) = cut[Segments - n] - cut[Segments]
                      /\ \A j \in 1..Len(F[n]) : F[n][j] = written[cut[Segments] + j]
           P == {n \in Nat : n \in 1..Segments => Part(n)}
<1>a. \A i \in 0..Segments : cut[i] \in Nat
  <2>1. Len(written) \in Nat
    BY FileSizes
  <2>2. QED
    BY <2>1 DEF CutSet
<1>b. ASSUME NEW i \in Names
      PROVE  /\ i + 1 \in 0..Segments /\ i \in 0..Segments
             /\ cut[i] = cut[i + 1] + Len(Held(i))
             /\ \A j \in 1..Len(Held(i)) : Held(i)[j] = written[cut[i + 1] + j]
  <2>1. i + 1 \in 0..Segments /\ i \in 0..Segments
    BY Constants DEF Names
  <2>2. CASE name[i] = 0
    <3>1. cut[i] = cut[i + 1] /\ Held(i) = <<>>
      BY <2>2 DEF Cuts, Held
    <3>2. Len(<<>>) = 0 /\ cut[i + 1] \in Nat /\ 1..0 = {}
      BY <1>a, <2>1
    <3>3. QED
      BY <2>1, <3>1, <3>2
  <2>3. CASE name[i] # 0
    BY <2>1, <2>3 DEF Cuts, Held
  <2>4. QED
    BY <2>2, <2>3
<1>1. 0 \in P
  OBVIOUS
<1>2. ASSUME NEW n \in Nat, n \in P PROVE n + 1 \in P
  <2> HIDE DEF Part
  <2>0. SUFFICES ASSUME n + 1 \in 1..Segments PROVE Part(n + 1)
    OBVIOUS
  <2>1. PICK i \in Names : i = Segments - (n + 1)
    BY <2>0, Constants DEF Names
  <2>2. CASE n = 0
    <3>1. F[1] = Held(i) /\ i + 1 = Segments
      BY <2>1, <2>2, Constants DEF Read
    <3>2. PICK h : h = Held(i)
      OBVIOUS
    <3>3. /\ cut[i] = cut[Segments] + Len(h) /\ Len(h) \in Nat
          /\ \A j \in 1..Len(h) : h[j] = written[cut[Segments] + j]
          /\ cut[i] \in Nat /\ cut[Segments] \in Nat
      BY <1>a, <1>b, <3>1, <3>2, HeldAre
    <3>4. Len(h) = cut[i] - cut[Segments] /\ F[1] = h /\ Segments - 1 = i
      BY <2>1, <2>2, <3>1, <3>2, <3>3
    <3>5. Part(1)
      BY <3>3, <3>4 DEF Part
    <3>6. QED
      BY <2>2, <3>5
  <2>3. CASE n # 0
    <3>1. n \in 1..Segments /\ n + 1 \in 2..Segments /\ (n + 1) - 1 = n /\ i + 1 = Segments - n
      BY <2>0, <2>1, <2>3, Constants
    <3>2. PICK f, h, g : f = F[n] /\ h = Held(i) /\ g = F[n + 1]
      OBVIOUS
    <3>3. PICK a, b, c : a = cut[Segments] /\ b = cut[Segments - n] /\ c = cut[i]
      OBVIOUS
    <3>4. a \in Nat /\ b \in Nat /\ c \in Nat
      <4>1. i \in 0..Segments /\ i + 1 \in 0..Segments /\ Segments \in 0..Segments
        BY <1>b, Constants
      <4>2. QED
        BY <1>a, <3>1, <3>3, <4>1
    <3>5. g = f \o h /\ f \in Seq(Record) /\ h \in Seq(Record)
      BY <2>1, <3>1, <3>2, HeldAre DEF Read
    <3>6. Len(f) = b - a /\ \A j \in 1..Len(f) : f[j] = written[a + j]
      BY <1>2, <3>1, <3>2, <3>3 DEF Part
    <3>7. c = b + Len(h) /\ \A j \in 1..Len(h) : h[j] = written[b + j]
      BY <1>b, <3>1, <3>2, <3>3
    <3>8. /\ Len(f) \in Nat /\ Len(h) \in Nat /\ Len(g) = Len(f) + Len(h)
          /\ \A j \in 1..(Len(f) + Len(h)) :
               g[j] = IF j <= Len(f) THEN f[j] ELSE h[j - Len(f)]
      BY <3>5, ConcatProperties
    <3>9. Len(g) = c - a
      BY <3>4, <3>6, <3>7, <3>8
    <3>10. ASSUME NEW j \in 1..Len(g) PROVE g[j] = written[a + j]
      <4>1. CASE j <= Len(f)
        BY <3>6, <3>8, <4>1
      <4>2. CASE ~(j <= Len(f))
        <5>1. j - Len(f) \in 1..Len(h) /\ b + (j - Len(f)) = a + j
          BY <3>4, <3>6, <3>8, <4>2
        <5>2. QED
          BY <3>7, <3>8, <4>2, <5>1
      <4>3. QED
        BY <4>1, <4>2
    <3>11. QED
      BY <2>1, <3>2, <3>3, <3>9, <3>10 DEF Part
  <2>4. QED
    BY <2>2, <2>3
<1>3. \A n \in Nat : n \in P
  <2> HIDE DEF P
  <2>1. QED
    BY <1>1, <1>2, AllNumbers
<1>4. k \in Nat
  BY Constants
<1>5. QED
  BY <1>3, <1>4

\* All that is read is the end of what was written.
LEMMA SuffixHolds ==
  ASSUME Types, NEW cut \in CutSet, Cuts(cut)
  PROVE  /\ RetainedIsSuffix
         /\ cut[Segments] = 0 => Retained = written
<1>1. PICK F : Read(F)
  BY ReadInOrder
<1>2. PICK r, m, a : r = Retained /\ m = Len(written) /\ a = cut[Segments]
  OBVIOUS
<1>3. /\ r \in Seq(Record) /\ Len(r) = m - a /\ \A j \in 1..Len(r) : r[j] = written[a + j]
      /\ m \in Nat /\ a \in 0..m /\ written \in Seq(Record)
  <2>1. Segments \in 1..Segments /\ Segments - Segments = 0 /\ Segments \in 0..Segments
    BY Constants
  <2>2. r = F[Segments] /\ F[Segments] \in Seq(Record)
    BY <1>1, <1>2, <2>1 DEF Read
  <2>3. PICK k : k = Segments /\ k \in 1..Segments /\ Segments - k = 0
    BY <2>1
  <2>4. /\ Len(F[k]) = cut[Segments - k] - cut[Segments]
        /\ \A j \in 1..Len(F[k]) : F[k][j] = written[cut[Segments] + j]
    BY <1>1, <2>3, ReadIsPart
  <2>5. cut[0] = m
    BY <1>2 DEF Cuts
  <2>6. Len(r) = cut[0] - a /\ \A j \in 1..Len(r) : r[j] = written[a + j]
    BY <1>2, <2>2, <2>3, <2>4
  <2>7. m \in Nat /\ a \in 0..m /\ written \in Seq(Record)
    BY <1>2, <2>1, FileSizes DEF CutSet, Types
  <2>8. QED
    BY <2>2, <2>5, <2>6, <2>7
<1>4. PICK l \in Nat : l = Len(r)
  BY <1>3
<1>5. IsSuffix(r, written)
  <2>1. PICK x, y : x = Reverse(r) /\ y = Reverse(written)
    OBVIOUS
  <2>2. /\ x \in Seq(Record) /\ Len(x) = l /\ \A i \in 1..l : x[i] = r[(l - i) + 1]
    <3>1. \A i \in 1..l : (l - i) + 1 \in 1..l
      OBVIOUS
    <3>2. x = [i \in 1..l |-> r[(l - i) + 1]]
      BY <1>4, <2>1 DEF Reverse
    <3>3. x \in [1..l -> Record]
      BY <1>3, <1>4, <3>1, <3>2
    <3>4. QED
      BY <3>2, <3>3
  <2>3. /\ y \in Seq(Record) /\ Len(y) = m /\ \A i \in 1..m : y[i] = written[(m - i) + 1]
    <3>1. \A i \in 1..m : (m - i) + 1 \in 1..m
      BY <1>3
    <3>2. y = [i \in 1..m |-> written[(m - i) + 1]]
      BY <1>2, <2>1 DEF Reverse
    <3>3. y \in [1..m -> Record]
      BY <1>2, <1>3, <3>1, <3>2
    <3>4. QED
      BY <1>3, <3>2, <3>3
  <2>4. l <= m /\ l = m - a
    BY <1>3, <1>4
  <2>5. ASSUME NEW i \in 1..l PROVE x[i] = y[i]
    <3>1. (l - i) + 1 \in 1..Len(r) /\ a + ((l - i) + 1) = (m - i) + 1 /\ i \in 1..m
      BY <1>3, <1>4, <2>4
    <3>2. QED
      BY <1>3, <2>2, <2>3, <3>1
  <2>6. SubSeq(x, 1, l) = SubSeq(y, 1, l)
    <3>1. SubSeq(x, 1, l) \in Seq(Record) /\ Len(SubSeq(x, 1, l)) = l
          /\ \A i \in 1..l : SubSeq(x, 1, l)[i] = x[i]
      BY <2>2
    <3>2. SubSeq(y, 1, l) \in Seq(Record) /\ Len(SubSeq(y, 1, l)) = l
          /\ \A i \in 1..l : SubSeq(y, 1, l)[i] = y[i]
      BY <1>3, <2>3, <2>4
    <3>3. QED
      BY <2>5, <3>1, <3>2
  <2>7. QED
    BY <2>1, <2>2, <2>3, <2>4, <2>6 DEF IsSuffix, IsPrefix
<1>6. ASSUME a = 0 PROVE r = written
  <2>1. Len(r) = Len(written) /\ \A j \in 1..Len(r) : r[j] = written[j]
    BY <1>2, <1>3, <1>6
  <2>2. QED
    BY <1>3, <2>1
<1>7. QED
  BY <1>2, <1>5, <1>6 DEF RetainedIsSuffix

-----------------------------------------------------------------------------
(* How much the files hold.                                                *)

\* The least a full segment holds.
FullSize == Limit - Largest + 1

LEMMA Times ==
  /\ FullSize \in Nat
  /\ \A x \in Int : FullSize * (x + 1) = FullSize * x + FullSize /\ FullSize * x \in Int
  /\ \A x, y \in Int : x <= y => FullSize * x <= FullSize * y
<1>1. SizeOf["started"] \in 1..Limit /\ SizeOf["ended"] \in 1..Limit /\ Limit \in Nat
  BY AuditAssumption
<1>2. Largest \in 1..Limit
  BY <1>1 DEF Largest
<1>3. PICK l \in Nat : l = FullSize
  BY <1>1, <1>2 DEF FullSize
<1>4. \A x \in Int : l * (x + 1) = l * x + l /\ l * x \in Int
  OBVIOUS
<1>5. ASSUME NEW x \in Int, NEW y \in Int, x <= y PROVE l * x <= l * y
  <2>1. PICK d \in Nat : y = x + d
    <3>1. y - x \in Nat /\ y = x + (y - x)
      BY <1>5
    <3>2. QED
      BY <3>1
  <2>2. l * y = l * x + l * d /\ l * d \in Nat /\ l * x \in Int
    BY <2>1
  <2>3. QED
    BY <2>2
<1>6. QED
  BY <1>3, <1>4, <1>5

\* What is in a full file, and in none.
LEMMA HeldUnits ==
  ASSUME Types, NEW i \in Names
  PROVE  /\ Units(Held(i)) \in Nat
         /\ name[i] # 0 /\ Full(name[i]) => Units(Held(i)) >= FullSize
<1>1. Units(Held(i)) \in Nat
  BY HeldAre, UnitsConcat
<1>2. ASSUME name[i] # 0, Full(name[i]) PROVE Units(Held(i)) >= FullSize
  <2>1. Units(Held(i)) > Limit - Largest
    BY <1>2 DEF Held, Full, SizeOfFile
  <2>2. Limit \in Nat /\ Largest \in Nat
    BY FileSizes, Constants
  <2>3. QED
    BY <1>1, <2>1, <2>2 DEF FullSize
<1>3. QED
  BY <1>1, <1>2

\* The backups read so far hold a full segment each, but for the missing ones.
LEMMA BackupsHold ==
  ASSUME Types, NamesOK, NEW gap, Gaps(gap), NEW F, Read(F), NEW k \in 1..(Segments - 1)
  PROVE  Units(F[k]) >= FullSize * (k - (gap[Segments - 1] - gap[(Segments - 1) - k]))
<1> DEFINE Many(n) == Units(F[n]) >= FullSize * (n - (gap[Segments - 1] - gap[(Segments - 1) - n]))
           P == {n \in Nat : n \in 1..(Segments - 1) => Many(n)}
<1>a. ASSUME NEW i \in Names \ {0}
      PROVE  /\ i - 1 \in Names /\ gap[i] \in Int /\ gap[i - 1] \in Int /\ Units(Held(i)) \in Nat
             /\ \/ gap[i] = gap[i - 1] + 1
                \/ gap[i] = gap[i - 1] /\ Units(Held(i)) >= FullSize
  <2>1. i - 1 \in Names /\ i \in Names
    BY Constants DEF Names
  <2>2. gap[i] \in Int /\ gap[i - 1] \in Int /\ Units(Held(i)) \in Nat
    BY <2>1, HeldUnits DEF Gaps
  <2>3. CASE name[i] = 0
    BY <2>1, <2>2, <2>3 DEF Gaps
  <2>4. CASE name[i] # 0
    <3>1. gap[i] = gap[i - 1]
      BY <2>2, <2>4 DEF Gaps
    <3>2. Units(Held(i)) >= FullSize
      BY <2>4, HeldUnits DEF NamesOK
    <3>3. QED
      BY <2>1, <2>2, <3>1, <3>2
  <2>5. QED
    BY <2>3, <2>4
<1>b. FullSize \in Nat /\ FullSize * 0 = 0 /\ FullSize * 1 = FullSize
  BY Times
<1>1. 0 \in P
  OBVIOUS
<1>2. ASSUME NEW n \in Nat, n \in P PROVE n + 1 \in P
  <2> HIDE DEF Many
  <2>0. SUFFICES ASSUME n + 1 \in 1..(Segments - 1) PROVE Many(n + 1)
    OBVIOUS
  <2>1. PICK i \in Names \ {0} : i = (Segments - 1) - n
    BY <2>0, Constants DEF Names
  <2>2. PICK z : z = gap[Segments - 1]
    OBVIOUS
  <2>3. PICK x, y : x = gap[i] /\ y = gap[i - 1]
    OBVIOUS
  <2>4. /\ z \in Int /\ x \in Int /\ y \in Int
        /\ i - 1 = (Segments - 1) - (n + 1) /\ i = Segments - (n + 1)
        /\ x = y + 1 \/ (x = y /\ Units(Held(i)) >= FullSize)
        /\ Units(Held(i)) \in Nat
    <3>1. z \in Int
      BY <2>2, Constants DEF Gaps
    <3>2. i - 1 = (Segments - 1) - (n + 1) /\ i = Segments - (n + 1)
      BY <2>1, Constants
    <3>3. QED
      BY <1>a, <2>3, <3>1, <3>2
  <2>5. Units(F[n + 1]) >= FullSize * ((n + 1) - (z - y))
    <3>1. CASE n = 0
      <4>1. F[1] = Held(i) /\ x = z
        BY <2>1, <2>2, <2>3, <2>4, <3>1, Constants DEF Read
      <4>2. (n + 1) - (z - y) = 0 \/ ((n + 1) - (z - y) = 1 /\ Units(Held(i)) >= FullSize)
        BY <2>4, <3>1, <4>1
      <4>3. QED
        BY <1>b, <2>4, <3>1, <4>1, <4>2
    <3>2. CASE n # 0
      <4>1. n \in 1..(Segments - 1) /\ n + 1 \in 2..Segments /\ (n + 1) - 1 = n /\ n \in 1..Segments
        BY <2>0, <3>2, Constants
      <4>2. Units(F[n]) >= FullSize * (n - (z - x))
        BY <1>2, <2>1, <2>2, <2>3, <4>1 DEF Many
      <4>3. F[n + 1] = F[n] \o Held(i) /\ F[n] \in Seq(Record)
        BY <2>4, <4>1 DEF Read
      <4>4. Units(F[n + 1]) = Units(F[n]) + Units(Held(i)) /\ Units(F[n]) \in Nat
        BY <4>3, HeldAre, UnitsConcat
      <4>5. PICK e : e = n - (z - x)
        OBVIOUS
      <4>6. /\ e \in Int /\ FullSize * (e + 1) = FullSize * e + FullSize /\ FullSize * e \in Int
        BY <2>4, <4>5, Times
      <4>7. \/ (n + 1) - (z - y) = e
            \/ (n + 1) - (z - y) = e + 1 /\ Units(Held(i)) >= FullSize
        BY <2>4, <4>5
      <4>8. PICK a, b, c, d : /\ a = FullSize * e /\ b = FullSize /\ c = Units(F[n])
                              /\ d = Units(Held(i))
        OBVIOUS
      <4>9. a \in Int /\ b \in Nat /\ c \in Nat /\ d \in Nat /\ c >= a
        BY <1>b, <2>4, <4>2, <4>4, <4>5, <4>6, <4>8
      <4>10. CASE (n + 1) - (z - y) = e
        <5>1. c + d >= a
          BY <4>9
        <5>2. QED
          BY <4>4, <4>8, <4>10, <5>1
      <4>11. CASE (n + 1) - (z - y) = e + 1 /\ Units(Held(i)) >= FullSize
        <5>1. c + d >= a + b
          BY <4>8, <4>9, <4>11
        <5>2. QED
          BY <4>4, <4>6, <4>8, <4>11, <5>1
      <4>12. QED
        BY <4>7, <4>10, <4>11
    <3>3. QED
      BY <3>1, <3>2
  <2>6. QED
    BY <2>2, <2>3, <2>4, <2>5 DEF Many
<1>3. \A n \in Nat : n \in P
  <2> HIDE DEF P
  <2>1. QED
    BY <1>1, <1>2, AllNumbers
<1>4. k \in Nat
  BY Constants
<1>5. QED
  BY <1>3, <1>4

LEMMA EnoughHeld ==
  ASSUME Types, SessionInv
  PROVE  RetainedIsSuffix /\ EnoughRetained
<1>1. PICK cut \in CutSet, gap \in [Names -> Int] : Filed(cut, gap) /\ Bounded(cut, gap)
  BY DEF SessionInv
<1>2. NamesOK /\ Cuts(cut) /\ Gaps(gap)
  BY <1>1 DEF Filed
<1>3. RetainedIsSuffix /\ (cut[Segments] = 0 => Retained = written)
  BY <1>2, SuffixHolds
<1>4. SUFFICES ASSUME cut[Segments] # 0
               PROVE  Units(Retained) >= (Segments - 1 - broken) * (Limit - Largest + 1)
  BY <1>3 DEF EnoughRetained
<1>5. PICK F : Read(F)
  BY ReadInOrder
<1>6. PICK g, b, u, v : /\ g = gap[Segments - 1] /\ b = broken /\ u = Units(F[Segments - 1])
                        /\ v = Units(Held(0))
  OBVIOUS
<1>7. g \in Int /\ b \in Nat /\ v \in Nat /\ Segments \in Nat
  <2>1. b \in Nat
    BY <1>6 DEF Types
  <2>2. QED
    BY <1>6, <2>1, HeldUnits, Constants
<1>8. u >= FullSize * ((Segments - 1) - g)
  <2>1. PICK k : k = Segments - 1 /\ k \in 1..(Segments - 1) /\ (Segments - 1) - k = 0
    BY Constants
  <2>2. Units(F[k]) >= FullSize * (k - (gap[Segments - 1] - gap[(Segments - 1) - k]))
    BY <1>2, <1>5, <2>1, BackupsHold
  <2>3. gap[0] = 0 /\ g - 0 = g
    BY <1>2, <1>7 DEF Gaps
  <2>4. QED
    BY <1>6, <2>1, <2>2, <2>3
<1>9. Units(Retained) = u + v /\ u \in Nat
  <2>1. /\ Segments \in 2..Segments /\ Segments - Segments = 0
        /\ Segments - 1 \in 1..Segments /\ 0 \in Names
    BY Constants
  <2>2. PICK k : k = Segments /\ k \in 2..Segments /\ Segments - k = 0 /\ k - 1 = Segments - 1
    BY <2>1
  <2>3. F[k] = F[k - 1] \o Held(Segments - k) /\ Retained = F[Segments]
    BY <1>5, <2>2 DEF Read
  <2>4. Retained = F[Segments - 1] \o Held(0)
    BY <2>2, <2>3
  <2>5. F[Segments - 1] \in Seq(Record) /\ Held(0) \in Seq(Record)
    BY <1>5, <2>1, HeldAre DEF Read
  <2>6. QED
    BY <1>6, <2>4, <2>5, UnitsConcat
<1>10. g <= b \/ (Slack(Segments) /\ g <= b + 1)
  <2>1. Segments \in 1..Segments
    BY Constants
  <2>2. QED
    BY <1>1, <1>4, <1>6, <2>1 DEF Bounded, There, Below
<1>11. u + v >= FullSize * ((Segments - 1) - b)
  <2>1. CASE g <= b
    <3>1. PICK x \in Int, y \in Int : x = (Segments - 1) - b /\ y = (Segments - 1) - g
      BY <1>7
    <3>2. x <= y
      BY <1>7, <2>1, <3>1
    <3>3. PICK m \in Int, n \in Int : m = FullSize * x /\ n = FullSize * y
      BY Times
    <3>4. m <= n /\ u >= n
      BY <1>8, <3>1, <3>2, <3>3, Times
    <3>5. u + v >= m
      BY <1>7, <1>9, <3>4
    <3>6. QED
      BY <3>1, <3>3, <3>5
  <2>2. CASE Slack(Segments) /\ g <= b + 1
    <3>1. v >= FullSize
      <4>1. PICK c \in Calls : call[c].pc \in Shifting
        BY <2>2 DEF Slack
      <4>2. name[0] # 0 /\ Full(name[0])
        BY <4>1 DEF SessionInv, ActiveOK
      <4>3. QED
        BY <1>6, <4>2, HeldUnits, Constants
    <3>2. PICK x \in Int, y \in Int : x = (Segments - 1) - b /\ y = (Segments - 1) - g
      BY <1>7
    <3>3. x <= y + 1
      BY <1>7, <2>2, <3>2
    <3>4. PICK l \in Nat, m \in Int, n \in Int :
          l = FullSize /\ m = FullSize * x /\ n = FullSize * y
      BY Times
    <3>5. m <= n + l
      <4>1. y + 1 \in Int /\ FullSize * x <= FullSize * (y + 1)
        BY <3>2, <3>3, Times
      <4>2. QED
        BY <3>2, <3>4, <4>1, Times
    <3>6. u >= n /\ v >= l
      BY <1>8, <3>1, <3>2, <3>4
    <3>7. u + v >= m
      BY <1>7, <1>9, <3>4, <3>5, <3>6
    <3>8. QED
      BY <3>2, <3>4, <3>7
  <2>3. QED
    BY <1>10, <2>1, <2>2
<1>12. QED
  <2>1. PICK x \in Int, l \in Int :
        x = (Segments - 1) - b /\ l = Limit - Largest + 1 /\ l = FullSize
    BY <1>7, Times DEF FullSize
  <2>2. l * x = x * l
    OBVIOUS
  <2>3. QED
    BY <1>6, <1>9, <1>11, <2>1, <2>2

-----------------------------------------------------------------------------
(* What one session may count on.                                          *)

\* While one session writes: where each file lies in what was written, that a
\* rotated segment is full, and how many names a broken rotation left empty.
\* (_rotate)
THEOREM SessionInvariant ==
  ASSUME OneSession
  PROVE  Spec => []SessionInv
<1>1. Init => SessionInv
  BY SessionInit
<1>2. Inv /\ SessionInv /\ [Next]_vars => SessionInv'
  BY SessionStep
<1>3. QED
  BY <1>1, <1>2, AuditInvariant, PTL DEF Spec

\* The types, and no segment above its limit, whatever record comes and wherever a
\* rotation stopped: _rotate leaves room for the record that is about to be appended.
THEOREM AuditTypeCorrect ==
  ASSUME OneSession
  PROVE  Spec => []TypeOK
<1>1. Inv /\ SessionInv => TypeOK
  <2> SUFFICES ASSUME Inv, SessionInv PROVE TypeOK
    OBVIOUS
  <2>1. SegmentsBounded
    BY DEF SessionInv, Filed
  <2>2. Types
    BY DEF Inv
  <2>3. broken \in 0..MaxFailures
    BY <2>2, Constants DEF Types
  <2>4. QED
    BY <2>1, <2>2, <2>3 DEF Types, Place, TypeOK
<1>2. QED
  BY <1>1, SessionInvariant, AuditInvariant, PTL

\* The files, read from the oldest to the active one, hold the end of what was written,
\* in order and without a gap, between any two steps of a rotation and after any that
\* stopped half way.  (_rotate)
THEOREM FilesAreTheEnd ==
  ASSUME OneSession
  PROVE  Spec => []RetainedIsSuffix
<1>1. Inv /\ SessionInv => RetainedIsSuffix
  BY EnoughHeld DEF Inv
<1>2. QED
  BY <1>1, SessionInvariant, AuditInvariant, PTL

\* A rotation lets go of one full segment only, and one that stopped half way costs one
\* segment more: all that was written is kept, or as many full segments as that leaves.
\* (_rotate)
THEOREM SegmentsAreKept ==
  ASSUME OneSession
  PROVE  Spec => []EnoughRetained
<1>1. Inv /\ SessionInv => EnoughRetained
  BY EnoughHeld DEF Inv
<1>2. QED
  BY <1>1, SessionInvariant, AuditInvariant, PTL

-----------------------------------------------------------------------------
(* What a step does to the log as a whole.                                 *)

\* The files as one log: every step leaves it, or appends the record of a call, or
\* takes the records of the oldest name off its front, and that only when the active
\* file is full.
OldestFirst ==
  \/ Retained' = Retained
  \/ \E c \in Calls : AppendRecord(c) /\ Retained' = Append(Retained, RecordOf(c))
  \/ \E c \in Calls : /\ Unlink(c) /\ name[0] # 0 /\ Full(name[0])
                      /\ Retained = Held(Segments - 1) \o Retained'

\* What is read is what was written from the last cut on.
ReadAsWritten ==
  /\ Retained \in Seq(Record)
  /\ \A cut \in CutSet : Cuts(cut) =>
       /\ Len(Retained) = Len(written) - cut[Segments]
       /\ \A j \in 1..Len(Retained) : Retained[j] = written[cut[Segments] + j]

LEMMA AllRead ==
  ASSUME Types
  PROVE  ReadAsWritten
<1>1. PICK F : Read(F)
  BY ReadInOrder
<1>2. PICK k : k = Segments /\ k \in 1..Segments /\ Segments - k = 0
  BY Constants
<1>3. Retained = F[k] /\ F[k] \in Seq(Record)
  BY <1>1, <1>2 DEF Read
<1>4. ASSUME NEW cut \in CutSet, Cuts(cut)
      PROVE  /\ Len(Retained) = Len(written) - cut[Segments]
             /\ \A j \in 1..Len(Retained) : Retained[j] = written[cut[Segments] + j]
  <2>1. /\ Len(F[k]) = cut[Segments - k] - cut[Segments]
        /\ \A j \in 1..Len(F[k]) : F[k][j] = written[cut[Segments] + j]
    BY <1>1, <1>2, <1>4, ReadIsPart
  <2>2. cut[Segments - k] = Len(written)
    BY <1>2, <1>4 DEF Cuts
  <2>3. QED
    BY <1>3, <2>1, <2>2
<1>5. QED
  BY <1>3, <1>4 DEF ReadAsWritten

\* A step that moves no cut at the end of the log leaves what is read of it.
LEMMA SameEnd ==
  ASSUME Types, Types', ReadAsWritten, ReadAsWritten', UNCHANGED written,
         NEW cut \in CutSet, Cuts(cut), NEW cut2 \in CutSet', Cuts(cut2)',
         cut2[Segments] = cut[Segments]
  PROVE  Retained' = Retained
<1>1. PICK r, s, a : r = Retained /\ s = Retained' /\ a = cut[Segments]
  OBVIOUS
<1>2. r \in Seq(Record) /\ Len(r) = Len(written) - a
      /\ \A j \in 1..Len(r) : r[j] = written[a + j]
  BY <1>1 DEF ReadAsWritten
<1>3. s \in Seq(Record) /\ Len(s) = Len(written) - a
      /\ \A j \in 1..Len(s) : s[j] = written[a + j]
  BY <1>1 DEF ReadAsWritten
<1>4. r = s
  <2>1. r \in Seq(Record) /\ s \in Seq(Record)
    BY <1>2, <1>3
  <2>2. Len(r) = Len(s) /\ \A j \in 1..Len(r) : r[j] = s[j]
    BY <1>2, <1>3
  <2>3. QED
    BY <2>1, <2>2, SeqEqual
<1>5. QED
  BY <1>1, <1>4

\* A record that is written is read last.
LEMMA LongerEnd ==
  ASSUME Types, Types', ReadAsWritten, ReadAsWritten', NEW x \in Record,
         written' = Append(written, x),
         NEW cut \in CutSet, Cuts(cut), NEW cut2 \in CutSet', Cuts(cut2)',
         cut2[Segments] = cut[Segments]
  PROVE  Retained' = Append(Retained, x)
<1>1. PICK r, s, a, w, v : /\ r = Retained /\ s = Retained' /\ a = cut[Segments]
                           /\ w = written /\ v = written'
  OBVIOUS
<1>2. r \in Seq(Record) /\ Len(r) = Len(w) - a /\ \A j \in 1..Len(r) : r[j] = w[a + j]
  BY <1>1 DEF ReadAsWritten
<1>3. s \in Seq(Record) /\ Len(s) = Len(v) - a /\ \A j \in 1..Len(s) : s[j] = v[a + j]
  BY <1>1 DEF ReadAsWritten
<1>4. w \in Seq(Record) /\ v = Append(w, x) /\ a \in 0..Len(w)
  BY <1>1, Constants DEF Types, CutSet
<1>5. /\ Len(v) = Len(w) + 1 /\ v[Len(w) + 1] = x /\ Len(w) \in Nat
      /\ \A j \in 1..Len(w) : v[j] = w[j]
  BY <1>4
<1>6. Len(s) = Len(r) + 1 /\ Len(r) \in Nat /\ a + (Len(r) + 1) = Len(w) + 1
  BY <1>2, <1>3, <1>4, <1>5
<1>7. \A j \in 1..Len(r) : s[j] = r[j]
  <2>1. SUFFICES ASSUME NEW j \in 1..Len(r) PROVE s[j] = r[j]
    OBVIOUS
  <2>2. j \in 1..Len(s) /\ a + j \in 1..Len(w)
    BY <1>2, <1>4, <1>6
  <2>3. QED
    BY <1>2, <1>3, <1>5, <2>2
<1>8. s[Len(r) + 1] = x
  <2>1. Len(r) + 1 \in 1..Len(s)
    BY <1>6
  <2>2. s[Len(r) + 1] = v[a + (Len(r) + 1)]
    BY <1>3, <2>1
  <2>3. QED
    BY <1>5, <1>6, <2>2
<1>9. s = Append(r, x)
  BY <1>2, <1>3, <1>6, <1>7, <1>8
<1>10. QED
  BY <1>1, <1>9

\* What the oldest name held is what is no longer read without it.
LEMMA ShorterEnd ==
  ASSUME Types, Types', ReadAsWritten, ReadAsWritten', UNCHANGED written,
         NEW cut \in CutSet, Cuts(cut), NEW cut2 \in CutSet', Cuts(cut2)',
         cut2[Segments] = cut[Segments - 1]
  PROVE  Retained = Held(Segments - 1) \o Retained'
<1>1. PICK r, s, h, a, b : /\ r = Retained /\ s = Retained' /\ h = Held(Segments - 1)
                           /\ a = cut[Segments] /\ b = cut[Segments - 1]
  OBVIOUS
<1>2. r \in Seq(Record) /\ Len(r) = Len(written) - a
      /\ \A j \in 1..Len(r) : r[j] = written[a + j]
  BY <1>1 DEF ReadAsWritten
<1>3. s \in Seq(Record) /\ Len(s) = Len(written) - b
      /\ \A j \in 1..Len(s) : s[j] = written[b + j]
  BY <1>1 DEF ReadAsWritten
<1>4. a \in Nat /\ b \in Nat /\ Len(written) \in Nat
  BY <1>1, Constants, FileSizes DEF CutSet
<1>5. h \in Seq(Record) /\ Len(h) \in Nat
  BY <1>1, Constants, HeldAre
<1>6. b = a + Len(h) /\ \A j \in 1..Len(h) : h[j] = written[a + j]
  <2>1. Segments - 1 \in Names /\ (Segments - 1) + 1 = Segments
    BY Constants
  <2>2. CASE name[Segments - 1] = 0
    <3>1. b = a /\ h = <<>>
      BY <1>1, <2>1, <2>2 DEF Cuts, Held
    <3>2. Len(<<>>) = 0 /\ 1..0 = {}
      OBVIOUS
    <3>3. QED
      BY <1>4, <3>1, <3>2
  <2>3. CASE name[Segments - 1] # 0
    <3>1. h = content[name[Segments - 1]]
      BY <1>1, <2>3 DEF Held
    <3>2. QED
      BY <1>1, <2>1, <2>3, <3>1 DEF Cuts
  <2>4. QED
    BY <2>2, <2>3
<1>7. PICK g : g = h \o s
  OBVIOUS
<1>8. /\ g \in Seq(Record) /\ Len(g) = Len(h) + Len(s) /\ Len(s) \in Nat
      /\ \A j \in 1..(Len(h) + Len(s)) :
           g[j] = IF j <= Len(h) THEN h[j] ELSE s[j - Len(h)]
  <2>1. h \in Seq(Record) /\ s \in Seq(Record) /\ g = h \o s
    BY <1>3, <1>5, <1>7
  <2>2. /\ Len(g) = Len(h) + Len(s)
        /\ \A j \in 1..(Len(h) + Len(s)) :
             g[j] = IF j <= Len(h) THEN h[j] ELSE s[j - Len(h)]
    BY <2>1, ConcatProperties
  <2>3. g \in Seq(Record) /\ Len(s) \in Nat
    BY <2>1
  <2>4. QED
    BY <2>2, <2>3
<1>9. Len(g) = Len(r)
  BY <1>2, <1>3, <1>4, <1>6, <1>8
<1>10. ASSUME NEW j \in 1..Len(g) PROVE g[j] = r[j]
  <2>1. r[j] = written[a + j]
    BY <1>2, <1>9
  <2>2. CASE j <= Len(h)
    BY <1>5, <1>6, <1>8, <2>1, <2>2
  <2>3. CASE ~(j <= Len(h))
    <3>1. j - Len(h) \in 1..Len(s) /\ b + (j - Len(h)) = a + j
      BY <1>4, <1>5, <1>6, <1>8, <2>3
    <3>2. QED
      BY <1>3, <1>8, <2>1, <2>3, <3>1
  <2>4. QED
    BY <2>2, <2>3
<1>11. g = r
  <2>1. g \in Seq(Record) /\ r \in Seq(Record)
    BY <1>2, <1>8
  <2>2. Len(g) = Len(r) /\ \A j \in 1..Len(g) : g[j] = r[j]
    BY <1>9, <1>10
  <2>3. QED
    BY <2>1, <2>2, SeqEqual
<1>12. QED
  BY <1>1, <1>7, <1>11

LEMMA OldestFirstStep ==
  ASSUME OneSession, Inv, Inv', SessionInv, ReadAsWritten, ReadAsWritten', [Next]_vars
  PROVE  OldestFirst
<1>a. Types /\ Types'
  BY DEF Inv
<1>b. PICK cut \in CutSet, gap \in [Names -> Int] : Filed(cut, gap)
  BY DEF SessionInv
<1>c. Cuts(cut)
  BY <1>b DEF Filed
\* Renames, failures and kills included: all steps but two.
<1>1. ASSUME NEW cut2 \in CutSet', Cuts(cut2)', cut2[Segments] = cut[Segments],
             UNCHANGED written
      PROVE  OldestFirst
  BY <1>1, <1>a, <1>c, SameEnd DEF OldestFirst
<1>2. CASE UNCHANGED <<name, content, written>>
  <2>1. Filed(cut, gap)' /\ cut \in CutSet'
    BY <1>2, <1>b, SameFiled DEF CutSet
  <2>2. QED
    BY <1>2, <2>1, <1>1 DEF Filed
<1>3. ASSUME NEW c \in Calls, Touch(c) \/ Open(c) PROVE OldestFirst
  <2>1. WithActive /\ UNCHANGED written
    BY <1>3 DEF Touch, Open, Log
  <2>2. Filed(cut, gap)' /\ cut \in CutSet'
    BY <2>1, <1>a, <1>b, CreateFiled DEF CutSet
  <2>3. QED
    BY <2>1, <2>2, <1>1 DEF Filed
<1>4. ASSUME NEW c \in Calls, NEW i \in Names, i + 1 \in Names, Rename(i),
             UNCHANGED <<content, written>>, name[i] # 0, name[i + 1] = 0, Full(name[i])
      PROVE  OldestFirst
  <2>1. PICK cut2 \in CutSet', gap2 \in [Names -> Int] :
          Filed(cut2, gap2)' /\ cut2 = [cut EXCEPT ![i + 1] = cut[i]]
    BY <1>4, <1>a, <1>b, RenameFiled
  <2>2. cut2[Segments] = cut[Segments]
    BY <1>4, <2>1, Constants DEF CutSet, Names
  <2>3. QED
    BY <1>4, <2>1, <2>2, <1>1 DEF Filed
<1>5. ASSUME NEW c \in Calls, Replace(c) PROVE OldestFirst
  <2>1. PICK i \in Names : i = call[c].index
    BY <1>5, <1>a DEF Types, Place
  <2>2. /\ i # 0 /\ i + 1 \in Names /\ Rename(i) /\ UNCHANGED <<content, written>>
        /\ name[i] # 0 /\ name[i + 1] = 0 /\ Full(name[i])
    <3>1. call[c].pc = "replace" /\ RecorderOK(c) /\ ActiveOK(c)
      BY <1>5 DEF Replace, Inv, SessionInv
    <3>2. i # 0 /\ i + 1 \in Names /\ name[i + 1] = 0 /\ name[i] # 0
      BY <2>1, <3>1 DEF RecorderOK, ActiveOK, Shifting
    <3>3. Full(name[i])
      BY <1>b, <3>2 DEF Filed, NamesOK
    <3>4. Rename(i) /\ UNCHANGED <<content, written>>
      BY <1>5, <2>1 DEF Replace, Log
    <3>5. QED
      BY <3>2, <3>3, <3>4
  <2>3. QED
    BY <2>2, <1>4
<1>6. ASSUME NEW c \in Calls, ReplaceActive(c) PROVE OldestFirst
  <2>1. call[c].pc = "active" /\ RecorderOK(c) /\ ActiveOK(c)
    BY <1>6 DEF ReplaceActive, Inv, SessionInv
  <2>2. name[0] # 0 /\ Full(name[0]) /\ name[0 + 1] = 0 /\ 0 \in Names /\ 0 + 1 \in Names
    BY <2>1, Constants DEF ActiveOK, RecorderOK, Shifting
  <2>3. Rename(0) /\ UNCHANGED <<content, written>>
    BY <1>6 DEF ReplaceActive, Log
  <2>4. QED
    BY <2>2, <2>3, <1>4
<1>7. ASSUME NEW c \in Calls, AppendRecord(c) PROVE OldestFirst
  <2>1. call[c].pc = "append" /\ ActiveOK(c) /\ call[c] \in Place
    BY <1>7, <1>a DEF AppendRecord, SessionInv, Types
  <2>2. PICK cut2 \in CutSet' : Filed(cut2, gap)' /\ cut2 = [cut EXCEPT ![0] = cut[0] + 1]
    BY <1>7, <1>a, <1>b, <2>1, AppendFiled DEF ActiveOK
  <2>3. cut2[Segments] = cut[Segments]
    BY <2>2, Constants DEF CutSet
  <2>4. PICK x \in Record : x = RecordOf(c)
    BY <2>1 DEF RecordOf, Record, Place
  <2>5. written' = Append(written, x)
    BY <1>7, <2>4 DEF AppendRecord
  <2>6. Retained' = Append(Retained, x)
    BY <1>a, <1>c, <2>2, <2>3, <2>5, LongerEnd DEF Filed
  <2>7. QED
    BY <1>7, <2>4, <2>6 DEF OldestFirst
<1>8. ASSUME NEW c \in Calls, Unlink(c) PROVE OldestFirst
  <2>1. name[0] # 0 /\ Full(name[0])
    BY <1>8 DEF Unlink, SessionInv, ActiveOK
  <2>2. name' = [name EXCEPT ![Segments - 1] = 0] /\ UNCHANGED <<content, written>>
    BY <1>8 DEF Unlink, Log
  <2>3. PICK cut2 \in CutSet', gap2 \in [Names -> Int] :
          Filed(cut2, gap2)' /\ cut2 = [cut EXCEPT ![Segments] = cut[Segments - 1]]
    BY <2>2, <1>a, <1>b, UnlinkFiled
  <2>4. cut2[Segments] = cut[Segments - 1]
    BY <2>3, Constants DEF CutSet
  <2>5. Retained = Held(Segments - 1) \o Retained'
    BY <1>a, <1>c, <2>2, <2>3, <2>4, ShorterEnd DEF Filed
  <2>6. QED
    BY <1>8, <2>1, <2>5 DEF OldestFirst
<1>9. QED
  <2>1. ASSUME NEW c \in Calls,
               \/ Begin(c) \/ Lock(c) \/ Stat(c) \/ Shift(c) \/ ChmodRotated(c) \/ Chmod(c)
               \/ Sync(c) \/ Device(c) \/ Raise(c)
        PROVE  UNCHANGED <<name, content, written>>
    BY <2>1 DEF Begin, Lock, Stat, Shift, ChmodRotated, Chmod, Sync, Device, Raise, fileVars, Log
  <2>2. ASSUME NEW p \in Processes, Kill(p) PROVE UNCHANGED <<name, content, written>>
    BY <2>2 DEF Kill, fileVars
  <2>3. CASE UNCHANGED vars
    BY <2>3, <1>2 DEF vars, fileVars
  <2>4. QED
    BY <1>2, <1>3, <1>5, <1>6, <1>7, <1>8, <2>1, <2>2, <2>3 DEF Next

\* A record leaves the log with the whole oldest file and in no other way: not by a
\* rename, a failed system call, a kill in the middle of a rotation or another call of
\* the session, and the oldest file goes only when the active one is full.  (_rotate)
THEOREM OnlyTheOldestGoes ==
  ASSUME OneSession
  PROVE  Spec => [][OldestFirst]_vars
<1>1. Inv => ReadAsWritten
  BY AllRead DEF Inv
<1>2. /\ Inv /\ SessionInv /\ ReadAsWritten /\ Inv' /\ ReadAsWritten' /\ [Next]_vars
      => OldestFirst
  BY OldestFirstStep
<1>3. QED
  BY <1>1, <1>2, AuditInvariant, SessionInvariant, PTL DEF Spec

=============================================================================
