--------------------------- MODULE RateLimitProofs ---------------------------
(***************************************************************************)
(* The sliding window never admits more than it promises, for every set of *)
(* aliases, every set of limits under edit and every clock bound.          *)
(***************************************************************************)
EXTENDS RateLimit, WellFoundedInduction, TLAPS

\* The deque h holds the times of the latest of the grants g, in their order.
LatestOf(h, g) ==
  /\ Len(h) <= Len(g)
  /\ \A i \in 1..Len(h) : h[i] = g[Len(g) - Len(h) + i].at

\* The grants that the deque h let go are at least a window of w old.
OldOf(h, g, t, w) ==
  \A i \in 1..(Len(g) - Len(h)) : g[i].at + w <= t

KeepsLatest   == \A a \in Aliases : LatestOf(history[a], granted[a])
DroppedAreOld == \A a \in Aliases : OldOf(history[a], granted[a], now, shortest[a])

\* No alias has a window shorter than its shortest.
ShortestIsShort == \A a \in Aliases : shortest[a] <= limit[a].window

WindowInv ==
  TypeOK /\ KeepsLatest /\ DroppedAreOld /\ ShortestIsShort /\ WindowRespected

-----------------------------------------------------------------------------

\* Pruning an alias keeps its remaining times in Nat and shifts them by k.
LEMMA LiveType ==
  ASSUME TypeOK, NEW a \in Aliases, NEW k \in 0..Len(history[a])
  PROVE  /\ Live(a, k) \in Seq(Nat)
         /\ Len(Live(a, k)) = Len(history[a]) - k
         /\ \A i \in 1..Len(Live(a, k)) : Live(a, k)[i] = history[a][k + i]
<1>1. history[a] \in Seq(Nat)
  BY DEF TypeOK
<1>2. QED
  BY <1>1 DEF Live

\* The seconds announced to a refused caller are a natural number.
LEMMA RetryAfterNat ==
  ASSUME NEW t \in Int
  PROVE  RetryAfter(t) \in Nat
BY ClockAssumption DEF RetryAfter

\* The types of the window survive every step of the proxy and the operator.
LEMMA TypeStep == TypeOK /\ [Next]_vars => TypeOK'
<1> SUFFICES ASSUME TypeOK, [Next]_vars PROVE TypeOK'
  OBVIOUS
<1> USE DEF TypeOK
<1>1. CASE Tick
  BY <1>1 DEF Tick
<1>2. ASSUME NEW a \in Aliases, Admit(a) PROVE TypeOK'
  <2>1. PICK k \in 0..Len(history[a]) :
          /\ history' = [history EXCEPT ![a] = Append(Live(a, k), now)]
          /\ granted' = [granted EXCEPT ![a] = Append(@, GrantNow(a))]
    BY <1>2 DEF Admit, HasSlot
  <2>2. Live(a, k) \in Seq(Nat)
    BY LiveType
  <2>3. GrantNow(a) \in Grant
    BY LimitsAssumption DEF Grant, GrantNow
  <2>4. history' \in [Aliases -> Seq(Nat)]
    BY <2>1, <2>2
  <2>5. granted' \in [Aliases -> Seq(Grant)]
    BY <2>1, <2>3
  <2>6. QED
    BY <1>2, <2>4, <2>5 DEF Admit, HasSlot, NoRefusal, Refusal
<1>3. ASSUME NEW a \in Aliases, Refuse(a) PROVE TypeOK'
  <2>1. PICK k \in 0..Len(history[a]) :
          /\ ~(Len(history[a]) - k < limit[a].requests)
          /\ history' = [history EXCEPT ![a] = Live(a, k)]
          /\ refused' = [refused EXCEPT ![a] =
               [at      |-> now,
                retry   |-> RetryAfter(history[a][k + 1] + limit[a].window - now),
                crowded |-> Len(history[a]) - k > limit[a].requests]]
    BY <1>3 DEF Refuse, HasSlot
  <2>2. Live(a, k) \in Seq(Nat)
    BY LiveType
  <2>3. history[a][k + 1] + limit[a].window - now \in Int
    <3>1. limit[a].requests >= 1 /\ limit[a].window \in Nat
      BY LimitsAssumption
    <3>2. k + 1 \in 1..Len(history[a])
      <4>1. Len(history[a]) \in Nat
        OBVIOUS
      <4> HIDE DEF TypeOK
      <4>2. ~(Len(history[a]) - k < limit[a].requests)
        BY <2>1
      <4>3. limit[a].requests \in Nat \ {0}
        BY LimitsAssumption DEF TypeOK
      <4>4. QED
        BY <4>1, <4>2, <4>3
    <3>3. QED
      BY <3>1, <3>2
  <2>4. RetryAfter(history[a][k + 1] + limit[a].window - now) \in Nat
    BY <2>3, RetryAfterNat
  <2>5. history' \in [Aliases -> Seq(Nat)]
    BY <2>1, <2>2
  <2>6. refused' \in [Aliases -> Refusal]
    BY <2>1, <2>4 DEF Refusal
  <2>7. QED
    BY <1>3, <2>5, <2>6 DEF Refuse, HasSlot
<1>4. ASSUME NEW a \in Aliases, RateStatus(a) PROVE TypeOK'
  <2>1. PICK k \in 0..Len(history[a]) :
          history' = [history EXCEPT ![a] = Live(a, k)]
    BY <1>4 DEF RateStatus
  <2>2. Live(a, k) \in Seq(Nat)
    BY LiveType
  <2>3. QED
    BY <1>4, <2>1, <2>2 DEF RateStatus
<1>5. ASSUME NEW a \in Aliases, EditLimit(a) PROVE TypeOK'
  <2>1. PICK l \in Limits :
          /\ limit' = [limit EXCEPT ![a] = l]
          /\ shortest' = [shortest EXCEPT ![a] = IF l.window < @ THEN l.window ELSE @]
    BY <1>5 DEF EditLimit
  <2>2. l.window \in Nat
    BY LimitsAssumption
  <2>3. limit' \in [Aliases -> Limits] /\ shortest' \in [Aliases -> Nat]
    BY <2>1, <2>2
  <2>4. refused' \in [Aliases -> Refusal]
    BY <1>5 DEF EditLimit, NoRefusal, Refusal
  <2>5. QED
    BY <1>5, <2>3, <2>4 DEF EditLimit
<1>6. CASE UNCHANGED vars
  BY <1>6 DEF vars
<1>7. QED
  BY <1>1, <1>2, <1>3, <1>4, <1>5, <1>6 DEF Next

\* Dropping the k expired entries of a deque keeps it the latest grants, and
\* everything it let go a whole window old.
LEMMA PruneKeeps ==
  ASSUME TypeOK, NEW a \in Aliases, NEW k \in 0..Len(history[a]), Expired(a, k),
         LatestOf(history[a], granted[a]), OldOf(history[a], granted[a], now, shortest[a]),
         shortest[a] <= limit[a].window
  PROVE  /\ LatestOf(Live(a, k), granted[a])
         /\ OldOf(Live(a, k), granted[a], now, shortest[a])
<1> DEFINE h == history[a]
           g == granted[a]
           m == Len(h)
           n == Len(g)
           l == Live(a, k)
           w == shortest[a]
<1>1. m \in Nat /\ n \in Nat /\ m <= n /\ k \in 0..m
  BY DEF TypeOK, LatestOf
<1>2. \A i \in 1..m : h[i] \in Nat /\ h[i] = g[n - m + i].at
  BY DEF TypeOK, LatestOf
<1>3. Len(l) = m - k /\ \A i \in 1..(m - k) : l[i] = h[k + i]
  <2>1. Len(l) = m - k /\ \A i \in 1..Len(l) : l[i] = h[k + i]
    BY LiveType
  <2> HIDE DEF l, m, h
  <2>2. QED
    BY <2>1
<1>4. \A i \in 1..(n - m) : g[i].at + w <= now
  BY DEF OldOf
<1>5. \A j \in 1..k : h[j] <= now - limit[a].window
  BY DEF Expired
<1>6. /\ limit[a].window \in Nat /\ w \in Nat /\ now \in Nat
      /\ w <= limit[a].window
  BY LimitsAssumption DEF TypeOK
<1> HIDE DEF h, g, m, n, l, w
<1>7. LatestOf(l, g)
  <2>1. ASSUME NEW i \in 1..(m - k) PROVE l[i] = g[n - (m - k) + i].at
    <3>1. k + i \in 1..m /\ n - m + (k + i) = n - (m - k) + i
      BY <1>1
    <3>2. QED
      BY <1>2, <1>3, <3>1
  <2>2. QED
    BY <1>1, <1>3, <2>1 DEF LatestOf, n
<1>8. OldOf(l, g, now, w)
  <2>1. ASSUME NEW i \in 1..(n - (m - k)) PROVE g[i].at + w <= now
    <3>1. CASE i \in 1..(n - m)
      BY <1>4, <3>1
    <3>2. CASE i \notin 1..(n - m)
      <4>1. i - (n - m) \in 1..k /\ i = n - m + (i - (n - m))
        BY <1>1, <3>2
      <4>2. PICK j \in 1..k : i = n - m + j
        BY <4>1
      <4>3. j \in 1..m
        BY <1>1
      <4>4. h[j] = g[i].at /\ h[j] \in Nat /\ h[j] <= now - limit[a].window
        BY <1>2, <1>5, <4>2, <4>3
      <4>5. QED
        BY <1>6, <4>4
    <3>3. QED
      BY <3>1, <3>2
  <2>2. QED
    BY <1>3, <2>1 DEF OldOf, n
<1>9. QED
  BY <1>7, <1>8 DEF l, g, w

\* Granting appends the same time to the deque and to the grants, and the call
\* r places earlier, if there is one, is among those let go.
LEMMA GrantKeeps ==
  ASSUME NEW h \in Seq(Nat), NEW g \in Seq(Grant), NEW t \in Nat,
         NEW r \in Nat \ {0}, NEW w \in Nat, LatestOf(h, g), OldOf(h, g, t, w),
         Len(h) < r
  PROVE  LET e == [at |-> t, requests |-> r, window |-> w]
         IN  /\ LatestOf(Append(h, t), Append(g, e))
             /\ OldOf(Append(h, t), Append(g, e), t, w)
             /\ Len(g) + 1 > r => g[Len(g) + 1 - r].at + w <= t
<1> DEFINE e == [at |-> t, requests |-> r, window |-> w]
           m == Len(h)
           n == Len(g)
           h2 == Append(h, t)
           g2 == Append(g, e)
<1>1. m \in Nat /\ n \in Nat /\ m <= n /\ m < r
  BY DEF LatestOf
<1>2. e \in Grant /\ e.at = t
  BY DEF Grant
<1>3. /\ Len(h2) = m + 1 /\ h2[m + 1] = t
      /\ \A i \in 1..m : h2[i] = h[i]
  OBVIOUS
<1>4. /\ Len(g2) = n + 1 /\ g2[n + 1] = e
      /\ \A i \in 1..n : g2[i] = g[i]
  BY <1>2
<1>5. \A i \in 1..m : h[i] = g[n - m + i].at
  BY DEF LatestOf
<1>6. \A i \in 1..(n - m) : g[i].at + w <= t
  BY DEF OldOf
<1> HIDE DEF e, m, n, h2, g2
<1>7. LatestOf(h2, g2)
  <2>1. ASSUME NEW i \in 1..(m + 1)
        PROVE  h2[i] = g2[(n + 1) - (m + 1) + i].at
    <3>1. CASE i = m + 1
      <4>1. (n + 1) - (m + 1) + i = n + 1
        BY <1>1, <3>1
      <4>2. QED
        BY <1>2, <1>3, <1>4, <3>1, <4>1
    <3>2. CASE i \in 1..m
      <4>1. (n + 1) - (m + 1) + i = n - m + i /\ n - m + i \in 1..n
        BY <1>1, <3>2
      <4>2. QED
        BY <1>3, <1>4, <1>5, <3>2, <4>1
    <3>3. QED
      BY <1>1, <3>1, <3>2
  <2>2. QED
    BY <1>1, <1>3, <1>4, <2>1 DEF LatestOf
<1>8. OldOf(h2, g2, t, w)
  <2>1. ASSUME NEW i \in 1..((n + 1) - (m + 1)) PROVE g2[i].at + w <= t
    <3>1. i \in 1..(n - m) /\ i \in 1..n
      BY <1>1
    <3>2. QED
      BY <1>4, <1>6, <3>1
  <2>2. QED
    BY <1>3, <1>4, <2>1 DEF OldOf
<1>9. ASSUME n + 1 > r PROVE g[n + 1 - r].at + w <= t
  <2>1. n + 1 - r \in 1..(n - m)
    BY <1>1, <1>9
  <2>2. QED
    BY <1>6, <2>1
<1>10. QED
  BY <1>7, <1>8, <1>9 DEF e, n, h2, g2

-----------------------------------------------------------------------------

\* Every step keeps the inductive invariant.
LEMMA WindowStep == WindowInv /\ [Next]_vars => WindowInv'
<1> SUFFICES ASSUME WindowInv, [Next]_vars PROVE WindowInv'
  OBVIOUS
<1>1. TypeOK /\ KeepsLatest /\ DroppedAreOld /\ ShortestIsShort /\ WindowRespected
  BY DEF WindowInv
<1>2. TypeOK'
  BY <1>1, TypeStep
<1>3. \A b \in Aliases :
        LatestOf(history[b], granted[b]) /\ OldOf(history[b], granted[b], now, shortest[b])
  BY <1>1 DEF KeepsLatest, DroppedAreOld
<1>4. CASE Tick
  <2>1. now' = now + 1 /\ now \in Nat /\ history' = history /\ granted' = granted
        /\ shortest' = shortest /\ limit' = limit
    BY <1>1, <1>4 DEF Tick, TypeOK
  <2>2. ASSUME NEW b \in Aliases PROVE OldOf(history[b], granted[b], now + 1, shortest[b])
    <3>1. OldOf(history[b], granted[b], now, shortest[b])
      BY <1>3
    <3>2. ASSUME NEW i \in 1..(Len(granted[b]) - Len(history[b]))
          PROVE  granted[b][i].at + shortest[b] <= now + 1
      <4>1. granted[b] \in Seq(Grant) /\ Len(history[b]) \in Nat
        BY <1>1 DEF TypeOK
      <4>2. i \in 1..Len(granted[b])
        BY <4>1
      <4>3. granted[b][i].at \in Nat
        <5>1. granted[b][i] \in Grant
          BY <4>1, <4>2
        <5>2. QED
          BY <5>1 DEF Grant
      <4>4. granted[b][i].at + shortest[b] <= now
        BY <3>1 DEF OldOf
      <4>5. QED
        <5>1. shortest[b] \in Nat
          BY <1>1 DEF TypeOK
        <5>2. QED
          BY <2>1, <4>3, <4>4, <5>1
    <3>3. QED
      BY <3>2 DEF OldOf
  <2>3. QED
    BY <1>1, <1>2, <2>1, <2>2
    DEF WindowInv, KeepsLatest, DroppedAreOld, ShortestIsShort, WindowRespected
<1>5. ASSUME NEW a \in Aliases, NEW k \in 0..Len(history[a]), Expired(a, k),
             history' = [history EXCEPT ![a] = Live(a, k)],
             now' = now, granted' = granted, shortest' = shortest, limit' = limit
      PROVE  WindowInv'
  <2>1. LatestOf(Live(a, k), granted[a]) /\ OldOf(Live(a, k), granted[a], now, shortest[a])
    BY <1>1, <1>3, <1>5, PruneKeeps DEF ShortestIsShort
  <2>2. /\ history'[a] = Live(a, k)
        /\ \A b \in Aliases : b # a => history'[b] = history[b]
    BY <1>1, <1>5 DEF TypeOK
  <2>3. ASSUME NEW b \in Aliases
        PROVE  /\ LatestOf(history'[b], granted'[b])
               /\ OldOf(history'[b], granted'[b], now', shortest'[b])
    BY <1>3, <1>5, <2>1, <2>2
  <2>4. KeepsLatest' /\ DroppedAreOld'
    BY <2>3 DEF KeepsLatest, DroppedAreOld
  <2>5. WindowRespected'
    BY <1>1, <1>5 DEF WindowRespected
  <2>6. QED
    BY <1>1, <1>2, <1>5, <2>4, <2>5 DEF WindowInv, ShortestIsShort
<1>6. ASSUME NEW a \in Aliases, Admit(a) PROVE WindowInv'
  <2> DEFINE r == limit[a].requests
             e == GrantNow(a)
  <2>1. PICK k \in 0..Len(history[a]) :
          /\ Expired(a, k)
          /\ Len(history[a]) - k < r
          /\ history' = [history EXCEPT ![a] = Append(Live(a, k), now)]
          /\ granted' = [granted EXCEPT ![a] = Append(@, e)]
          /\ now' = now /\ shortest' = shortest /\ limit' = limit
    BY <1>6 DEF Admit, HasSlot
  <2>2. LatestOf(Live(a, k), granted[a]) /\ OldOf(Live(a, k), granted[a], now, shortest[a])
    BY <1>1, <1>3, <2>1, PruneKeeps DEF ShortestIsShort
  <2>3. Live(a, k) \in Seq(Nat) /\ Len(Live(a, k)) < r
    BY <1>1, <2>1, LiveType
  <2>4. /\ granted[a] \in Seq(Grant) /\ now \in Nat /\ r \in Nat \ {0}
        /\ shortest[a] \in Nat
    BY <1>1, LimitsAssumption DEF TypeOK
  <2>5. /\ LatestOf(Append(Live(a, k), now), Append(granted[a], e))
        /\ OldOf(Append(Live(a, k), now), Append(granted[a], e), now, shortest[a])
        /\ Len(granted[a]) + 1 > r
             => granted[a][Len(granted[a]) + 1 - r].at + shortest[a] <= now
    BY <2>2, <2>3, <2>4, GrantKeeps DEF GrantNow
  <2>6. /\ history'[a] = Append(Live(a, k), now) /\ granted'[a] = Append(granted[a], e)
        /\ \A b \in Aliases : b # a => history'[b] = history[b] /\ granted'[b] = granted[b]
    BY <1>1, <2>1 DEF TypeOK
  <2>7. ASSUME NEW b \in Aliases
        PROVE  /\ LatestOf(history'[b], granted'[b])
               /\ OldOf(history'[b], granted'[b], now', shortest'[b])
    BY <1>3, <2>1, <2>5, <2>6
  <2>8. KeepsLatest' /\ DroppedAreOld'
    BY <2>7 DEF KeepsLatest, DroppedAreOld
  <2>9. WindowRespected'
    <3>1. SUFFICES ASSUME NEW b \in Aliases, NEW j \in 1..Len(granted'[b]),
                          j > granted'[b][j].requests
                   PROVE  granted'[b][j - granted'[b][j].requests].at + granted'[b][j].window
                            <= granted'[b][j].at
      BY DEF WindowRespected
    <3>2. CASE b # a
      <4>1. granted'[b] = granted[b]
        BY <2>6, <3>2
      <4>2. QED
        BY <1>1, <3>1, <4>1 DEF WindowRespected
    <3>3. CASE b = a
      <4> DEFINE g == granted[a]
                 g2 == granted'[a]
                 n == Len(g)
                 w == shortest[a]
      <4>1. /\ n \in Nat /\ Len(g2) = n + 1 /\ g2[n + 1] = e
            /\ \A i \in 1..n : g2[i] = g[i]
        <5>1. e \in Grant
          BY <2>4 DEF Grant, GrantNow
        <5>2. QED
          BY <2>4, <2>6, <5>1
      <4>2. \A i \in 1..n : g[i] \in Grant
        BY <2>4
      <4>3. \A i \in 1..n : i > g[i].requests => g[i - g[i].requests].at + g[i].window <= g[i].at
        BY <1>1 DEF WindowRespected
      <4>4. n + 1 > r => g[n + 1 - r].at + w <= now
        BY <2>5
      <4>5. j \in 1..(n + 1) /\ j > g2[j].requests
        BY <3>1, <3>3, <4>1
      <4>6. e.at = now /\ e.requests = r /\ e.window = w
        BY DEF GrantNow
      <4>7. \A i \in 1..n : g[i].requests \in Nat \ {0}
        BY <4>2 DEF Grant
      <4> HIDE DEF g, g2, n, e, r, w
      <4>8. CASE j = n + 1
        <5>1. n + 1 - r \in 1..n /\ n + 1 > r
          BY <2>4, <4>1, <4>5, <4>6, <4>8
        <5>2. g2[n + 1 - r] = g[n + 1 - r]
          BY <4>1, <5>1
        <5>3. g2[j].requests = r /\ g2[j].at = now /\ g2[j].window = w
          BY <4>1, <4>6, <4>8
        <5>4. g2[j - g2[j].requests].at + g2[j].window <= g2[j].at
          <6>1. j - g2[j].requests = n + 1 - r
            BY <4>1, <2>4, <4>8, <5>3
          <6>2. g[n + 1 - r].at + w <= now
            BY <4>4, <5>1
          <6>3. QED
            BY <5>2, <5>3, <6>1, <6>2
        <5>5. QED
          BY <3>3, <5>4 DEF g2
      <4>9. CASE j \in 1..n
        <5>1. g2[j] = g[j] /\ j > g[j].requests
          BY <4>1, <4>5, <4>9
        <5>2. j - g[j].requests \in 1..n
          BY <4>1, <4>7, <4>9, <5>1
        <5>3. g2[j - g[j].requests] = g[j - g[j].requests]
          BY <4>1, <5>2
        <5>4. QED
          BY <3>3, <4>3, <4>9, <5>1, <5>3 DEF g2
      <4>10. QED
        BY <4>1, <4>5, <4>8, <4>9
    <3>4. QED
      BY <3>2, <3>3
  <2>10. QED
    BY <1>1, <1>2, <2>1, <2>8, <2>9 DEF WindowInv, ShortestIsShort
<1>7. ASSUME NEW a \in Aliases, Refuse(a) PROVE WindowInv'
  BY <1>5, <1>7 DEF Refuse, HasSlot
<1>8. ASSUME NEW a \in Aliases, RateStatus(a) PROVE WindowInv'
  BY <1>5, <1>8 DEF RateStatus
<1>9. ASSUME NEW a \in Aliases, EditLimit(a) PROVE WindowInv'
  <2>1. PICK l \in Limits :
          /\ limit' = [limit EXCEPT ![a] = l]
          /\ shortest' = [shortest EXCEPT ![a] = IF l.window < @ THEN l.window ELSE @]
          /\ now' = now /\ history' = history /\ granted' = granted
    BY <1>9 DEF EditLimit
  <2>2. l.window \in Nat
    BY LimitsAssumption
  <2>3. ASSUME NEW b \in Aliases
        PROVE  /\ shortest'[b] \in Nat /\ shortest[b] \in Nat /\ shortest'[b] <= shortest[b]
               /\ shortest'[b] <= limit'[b].window
    <3>1. shortest[b] \in Nat /\ limit[b].window \in Nat /\ shortest[b] <= limit[b].window
      BY <1>1, LimitsAssumption DEF TypeOK, ShortestIsShort
    <3>2. CASE b = a
      <4>1. limit'[b] = l /\ shortest'[b] = IF l.window < shortest[b] THEN l.window ELSE shortest[b]
        BY <1>1, <2>1, <3>2 DEF TypeOK
      <4>2. QED
        BY <2>2, <3>1, <4>1
    <3>3. CASE b # a
      BY <1>1, <2>1, <3>1, <3>3 DEF TypeOK
    <3>4. QED
      BY <3>2, <3>3
  <2>4. ASSUME NEW b \in Aliases
        PROVE  OldOf(history'[b], granted'[b], now', shortest'[b])
    <3>1. granted[b] \in Seq(Grant) /\ Len(history[b]) \in Nat /\ now \in Nat
      BY <1>1 DEF TypeOK
    <3>2. ASSUME NEW i \in 1..(Len(granted[b]) - Len(history[b]))
          PROVE  granted[b][i].at + shortest'[b] <= now
      <4>1. granted[b][i].at \in Nat
        <5>1. i \in 1..Len(granted[b])
          BY <3>1
        <5>2. granted[b][i] \in Grant
          BY <3>1, <5>1
        <5>3. QED
          BY <5>2 DEF Grant
      <4>2. granted[b][i].at + shortest[b] <= now
        BY <1>3 DEF OldOf
      <4>3. QED
        BY <2>3, <3>1, <4>1, <4>2
    <3>3. QED
      BY <2>1, <3>2 DEF OldOf
  <2>5. KeepsLatest' /\ DroppedAreOld' /\ ShortestIsShort'
    BY <1>1, <2>1, <2>3, <2>4 DEF KeepsLatest, DroppedAreOld, ShortestIsShort
  <2>6. WindowRespected'
    BY <1>1, <2>1 DEF WindowRespected
  <2>7. QED
    BY <1>2, <2>5, <2>6 DEF WindowInv
<1>10. CASE UNCHANGED vars
  BY <1>1, <1>2, <1>10
  DEF vars, WindowInv, KeepsLatest, DroppedAreOld, ShortestIsShort, WindowRespected
<1>11. QED
  BY <1>4, <1>6, <1>7, <1>8, <1>9, <1>10 DEF Next

\* At the start every deque is empty.
LEMMA WindowInit == Init => WindowInv
<1> SUFFICES ASSUME Init PROVE WindowInv
  OBVIOUS
<1>1. TypeOK
  <2>1. \A l \in Limits : l.window \in Nat
    BY LimitsAssumption
  <2>2. shortest \in [Aliases -> Nat]
    BY <2>1 DEF Init
  <2>3. QED
    BY <2>2 DEF Init, TypeOK, NoRefusal, Refusal
<1>2. \A a \in Aliases : history[a] = <<>> /\ granted[a] = <<>>
  BY DEF Init
<1>3. KeepsLatest /\ DroppedAreOld
  <2>1. ASSUME NEW a \in Aliases
        PROVE  LatestOf(<<>>, <<>>) /\ OldOf(<<>>, <<>>, now, shortest[a])
    BY DEF LatestOf, OldOf
  <2>2. QED
    BY <1>2, <2>1 DEF KeepsLatest, DroppedAreOld
<1>4. WindowRespected
  BY <1>2 DEF WindowRespected
<1>5. ShortestIsShort
  <2>1. \A l \in Limits : l.window \in Nat
    BY LimitsAssumption
  <2>2. \A a \in Aliases : shortest[a] = limit[a].window /\ limit[a] \in Limits
    BY DEF Init
  <2>3. ASSUME NEW a \in Aliases PROVE shortest[a] <= limit[a].window
    <3>1. shortest[a] = limit[a].window /\ limit[a].window \in Nat
      BY <2>1, <2>2
    <3>2. \A w \in Nat : w <= w
      OBVIOUS
    <3>3. QED
      BY <3>1, <3>2
  <2>4. QED
    BY <2>3 DEF ShortestIsShort
<1>6. QED
  BY <1>1, <1>3, <1>4, <1>5 DEF WindowInv

\* The window of the proxy keeps its types.
THEOREM RateTypeCorrect == Spec => []TypeOK
<1>1. Init => TypeOK
  BY WindowInit DEF WindowInv
<1>2. QED
  BY <1>1, TypeStep, PTL DEF Spec

\* No window of an alias ever holds more granted device calls than the limit
\* those calls were granted under, measured by the shortest window the policy
\* ever had: _consume_rate_limit keeps its promise through every interleaving
\* of calls, status reads and policy edits.
THEOREM RateWindowRespected == Spec => []WindowRespected
<1>1. WindowInv => WindowRespected
  BY DEF WindowInv
<1>2. QED
  BY <1>1, WindowInit, WindowStep, PTL DEF Spec

-----------------------------------------------------------------------------
(* The announced wait.                                                     *)

\* The first entry of the deque when an alias was refused: while it is there the deque
\* is full, and when it is gone its window is over and there is room.
WaitOK(a) ==
  refused[a].retry > 0 =>
    /\ \E first \in Nat :
         /\ refused[a].retry = RetryAfter(first + limit[a].window - refused[a].at)
         /\ \/ Len(history[a]) >= limit[a].requests /\ history[a][1] = first
            \/ /\ first + limit[a].window <= now
               /\ refused[a].crowded \/ Len(history[a]) < limit[a].requests
    /\ refused[a].crowded \/ Len(history[a]) <= limit[a].requests

WaitInv == \A a \in Aliases : WaitOK(a)

\* The seconds announced cover the distance, and one less does not.
LEMMA RetryAfterCovers ==
  ASSUME NEW t \in Int
  PROVE  /\ RetryAfter(t) * Second >= t
         /\ RetryAfter(t) > 1 => (RetryAfter(t) - 1) * Second < t
<1>1. PICK s \in Nat : s = Second /\ s >= 1
  BY ClockAssumption
<1>2. PICK q \in Int, m \in 0..(s - 1) : q = (t + s - 1) \div s /\ t + s - 1 = s * q + m
  <2>1. PICK u \in Int : u = t + s - 1
    OBVIOUS
  <2>2. (u \div s) \in Int /\ (u % s) \in 0..(s - 1)
    BY <1>1
  <2>3. u = (s * (u \div s)) + (u % s)
    BY <1>1
  <2>4. QED
    BY <2>1, <2>2, <2>3
<1>3. s * q >= t /\ s * (q - 1) < t
  <2>1. s * (q - 1) = s * q - s /\ s * q \in Int
    OBVIOUS
  <2>2. QED
    BY <1>2, <2>1
<1>4. RetryAfter(t) = IF q > 1 THEN q ELSE 1
  BY <1>1, <1>2 DEF RetryAfter
<1>5. CASE q > 1
  <2>1. q * s = s * q /\ (q - 1) * s = s * (q - 1)
    OBVIOUS
  <2>2. QED
    BY <1>1, <1>3, <1>4, <1>5, <2>1
<1>6. CASE ~(q > 1)
  <2>1. s * q <= s
    <3>1. PICK d \in Nat : 1 = q + d
      <4>1. 1 - q \in Nat /\ 1 = q + (1 - q)
        BY <1>6
      <4>2. QED
        BY <4>1
    <3>2. s = s * q + s * d /\ s * d \in Nat /\ s * q \in Int
      BY <3>1
    <3>3. QED
      BY <3>2
  <2>2. s >= t
    <3>1. PICK x \in Int : x = s * q
      OBVIOUS
    <3>2. QED
      BY <1>3, <2>1, <3>1
  <2>3. RetryAfter(t) = 1 /\ 1 * s = s
    BY <1>4, <1>6
  <2>4. QED
    BY <1>1, <2>2, <2>3
<1>7. QED
  BY <1>5, <1>6

\* The loop that prunes a deque ends.
LEMMA PruningEnds ==
  ASSUME TypeOK, NEW a \in Aliases
  PROVE  \E k \in 0..Len(history[a]) : Expired(a, k)
<1> DEFINE Stops(k) == k >= Len(history[a]) \/ history[a][k + 1] > now - limit[a].window
           T == {k \in Nat : Stops(k)}
<1>1. Len(history[a]) \in Nat
  BY DEF TypeOK
<1>2. Len(history[a]) \in T
  BY <1>1
<1>3. PICK k \in T : \A j \in T : ~(<<j, k>> \in OpToRel(<, Nat))
  <2>1. T \subseteq Nat /\ T # {}
    BY <1>2
  <2> HIDE DEF T
  <2>2. QED
    BY <2>1, WFMin, NatLessThanWellFounded
<1>4. k \in Nat /\ Stops(k) /\ \A j \in Nat : j < k => ~Stops(j)
  BY <1>3 DEF OpToRel
<1>5. k <= Len(history[a])
  BY <1>1, <1>4
<1>6. ASSUME NEW i \in 1..k PROVE history[a][i] <= now - limit[a].window
  <2>1. i - 1 \in Nat /\ i - 1 < k /\ (i - 1) + 1 = i
    BY <1>4
  <2>2. ~Stops(i - 1)
    BY <1>4, <2>1
  <2>3. ~(history[a][i] > now - limit[a].window) /\ i \in 1..Len(history[a])
    BY <1>1, <1>4, <1>5, <2>1, <2>2
  <2>4. history[a][i] \in Int /\ now - limit[a].window \in Int
    BY <2>3, LimitsAssumption DEF TypeOK
  <2>5. QED
    BY <2>3, <2>4
<1>7. k < Len(history[a]) => history[a][k + 1] > now - limit[a].window
  BY <1>1, <1>4
<1>8. k \in 0..Len(history[a])
  BY <1>1, <1>4, <1>5
<1>9. QED
  BY <1>6, <1>7, <1>8 DEF Expired

\* The wait that was announced is right.
LEMMA WaitIsExact == TypeOK /\ WaitInv => RetryAfterExact
<1> SUFFICES ASSUME TypeOK, WaitInv, NEW a \in Aliases, refused[a].retry > 0
             PROVE  /\ ~refused[a].crowded /\ now >= refused[a].at + refused[a].retry * Second
                          => MayAdmit(a)
                    /\ refused[a].retry > 1
                       /\ now <= refused[a].at + (refused[a].retry - 1) * Second => ~MayAdmit(a)
  <2>1. SUFFICES ASSUME TypeOK, WaitInv, NEW a \in Aliases
                 PROVE  /\ refused[a].retry > 0 /\ ~refused[a].crowded
                           /\ now >= refused[a].at + refused[a].retry * Second => MayAdmit(a)
                        /\ refused[a].retry > 1
                           /\ now <= refused[a].at + (refused[a].retry - 1) * Second
                             => ~MayAdmit(a)
    BY DEF RetryAfterExact
  <2>2. refused[a].retry \in Nat
    BY <2>1 DEF TypeOK, Refusal
  <2>3. QED
    BY <2>1, <2>2
<1>1. PICK n, r, w, t, at : /\ n = Len(history[a]) /\ r = limit[a].requests /\ w = limit[a].window
                           /\ t = refused[a].retry /\ at = refused[a].at
  OBVIOUS
<1>2. /\ n \in Nat /\ r \in Nat /\ r >= 1 /\ w \in Nat /\ t \in Nat /\ at \in Nat /\ now \in Nat
      /\ history[a] \in Seq(Nat)
  <2>1. limit[a] \in Limits /\ refused[a] \in Refusal /\ history[a] \in Seq(Nat) /\ now \in Nat
    BY DEF TypeOK
  <2>2. t \in Nat /\ at \in Nat
    BY <1>1, <2>1 DEF Refusal
  <2>3. r \in Nat /\ r >= 1 /\ w \in Nat
    BY <1>1, <2>1, LimitsAssumption
  <2>4. QED
    BY <1>1, <2>1, <2>2, <2>3
<1>3. WaitOK(a)
  BY DEF WaitInv
<1>4. PICK first \in Nat :
        /\ t = RetryAfter(first + w - at)
        /\ \/ n >= r /\ history[a][1] = first
           \/ first + w <= now /\ (refused[a].crowded \/ n < r)
  BY <1>1, <1>3 DEF WaitOK
<1>5. refused[a].crowded \/ n <= r
  BY <1>1, <1>3 DEF WaitOK
<1>6. t * Second >= first + w - at /\ (t > 1 => (t - 1) * Second < first + w - at)
  <2>1. first + w - at \in Int
    BY <1>2
  <2>2. QED
    BY <1>4, <2>1, RetryAfterCovers
<1>7. PICK x \in Int, y \in Int : x = t * Second /\ y = (t - 1) * Second
  BY <1>2, ClockAssumption
<1>8. ASSUME ~refused[a].crowded, now >= at + x PROVE MayAdmit(a)
  <2>1. first + w <= now
    BY <1>2, <1>6, <1>7, <1>8
  <2>2. PICK k \in 0..n : Expired(a, k)
    BY <1>1, PruningEnds
  <2>3. n - k < r
    <3>1. CASE n < r
      BY <1>2, <3>1
    <3>2. CASE ~(n < r)
      <4>1. n = r /\ history[a][1] = first
        BY <1>2, <1>4, <1>5, <1>8, <3>2
      <4>2. k # 0
        <5>1. SUFFICES ASSUME k = 0 PROVE FALSE
          OBVIOUS
        <5>2. first > now - w
          BY <1>1, <1>2, <2>2, <4>1, <5>1 DEF Expired
        <5>3. QED
          BY <1>2, <2>1, <5>2
      <4>3. QED
        BY <1>2, <4>1, <4>2
    <3>3. QED
      BY <3>1, <3>2
  <2>4. QED
    BY <1>1, <2>2, <2>3 DEF MayAdmit, HasSlot
<1>9. ASSUME t > 1, now <= at + y PROVE ~MayAdmit(a)
  <2>1. first + w > now
    BY <1>2, <1>6, <1>7, <1>9
  <2>2. n >= r /\ history[a][1] = first
    BY <1>2, <1>4, <2>1
  <2>3. SUFFICES ASSUME NEW k \in 0..n, Expired(a, k), n - k < r PROVE FALSE
    BY <1>1 DEF MayAdmit, HasSlot
  <2>4. k >= 1 /\ 1 \in 1..k
    BY <1>2, <2>2, <2>3
  <2>5. first <= now - w
    BY <1>1, <2>2, <2>3, <2>4 DEF Expired
  <2>6. QED
    BY <1>2, <2>1, <2>5
<1>10. QED
  BY <1>1, <1>7, <1>8, <1>9

\* An alias that is not touched keeps its wait while time goes on.
LEMMA WaitKept ==
  ASSUME TypeOK, NEW a \in Aliases, WaitOK(a), limit'[a] = limit[a], refused'[a] = refused[a],
         history'[a] = history[a], now' \in Nat, now <= now'
  PROVE  WaitOK(a)'
<1>1. now \in Nat /\ limit[a].window \in Nat
  BY LimitsAssumption DEF TypeOK
<1>2. \A f \in Nat : f + limit[a].window <= now => f + limit[a].window <= now'
  BY <1>1
<1>3. SUFFICES ASSUME refused[a].retry > 0 PROVE WaitOK(a)'
  BY DEF WaitOK
<1>4. PICK first \in Nat :
        /\ refused[a].retry = RetryAfter(first + limit[a].window - refused[a].at)
        /\ \/ Len(history[a]) >= limit[a].requests /\ history[a][1] = first
           \/ /\ first + limit[a].window <= now
              /\ refused[a].crowded \/ Len(history[a]) < limit[a].requests
  BY <1>3 DEF WaitOK
<1>5. refused[a].crowded \/ Len(history[a]) <= limit[a].requests
  BY <1>3 DEF WaitOK
<1>6. QED
  BY <1>2, <1>4, <1>5 DEF WaitOK, RetryAfter

LEMMA WaitStep == TypeOK /\ WaitInv /\ [Next]_vars => WaitInv'
<1> SUFFICES ASSUME TypeOK, WaitInv, [Next]_vars, NEW b \in Aliases PROVE WaitOK(b)'
  BY DEF WaitInv
<1>a. WaitOK(b) /\ now \in Nat /\ now <= now
  BY DEF WaitInv, TypeOK
<1>1. CASE Tick
  <2>1. now' \in Nat /\ now <= now'
    BY <1>a, <1>1 DEF Tick
  <2>2. QED
    BY <1>a, <1>1, <2>1, WaitKept DEF Tick
<1>2. ASSUME NEW a \in Aliases, Admit(a) \/ Refuse(a) \/ RateStatus(a) \/ EditLimit(a), a # b
      PROVE  WaitOK(b)'
  <2>1. /\ limit'[b] = limit[b] /\ refused'[b] = refused[b] /\ history'[b] = history[b]
        /\ now' = now
    BY <1>2 DEF Admit, Refuse, RateStatus, EditLimit, TypeOK
  <2>2. QED
    BY <1>a, <2>1, WaitKept
<1>3. CASE Admit(b) \/ EditLimit(b)
  <2>1. refused'[b] = NoRefusal
    BY <1>3 DEF Admit, EditLimit, TypeOK
  <2>2. QED
    BY <2>1 DEF WaitOK, NoRefusal
<1>4. CASE Refuse(b)
  <2>1. PICK k \in 0..Len(history[b]) :
          /\ ~HasSlot(b, k) /\ history' = [history EXCEPT ![b] = Live(b, k)]
          /\ refused' = [refused EXCEPT ![b] =
               [at      |-> now,
                retry   |-> RetryAfter(history[b][k + 1] + limit[b].window - now),
                crowded |-> Len(history[b]) - k > limit[b].requests]]
          /\ now' = now /\ limit' = limit
    BY <1>4 DEF Refuse
  <2>2. PICK n, r, first, live : /\ n = Len(history[b]) /\ r = limit[b].requests
                                /\ first = history[b][k + 1] /\ live = Live(b, k)
    OBVIOUS
  <2>3. n \in Nat /\ r \in Nat /\ r >= 1 /\ history[b] \in Seq(Nat)
    <3>1. history[b] \in Seq(Nat) /\ limit[b] \in Limits
      BY DEF TypeOK
    <3>2. r \in Nat /\ r >= 1
      BY <2>2, <3>1, LimitsAssumption
    <3>3. QED
      BY <2>2, <3>1, <3>2
  <2>4. n - k >= r /\ k \in 0..n
    BY <2>1, <2>2, <2>3 DEF HasSlot
  <2>5. first \in Nat /\ live[1] = first /\ Len(live) = n - k
    <3>1. k + 1 \in 1..n /\ 1 \in 1..(n - k)
      BY <2>3, <2>4
    <3>2. Len(live) = n - k /\ \A i \in 1..(n - k) : live[i] = history[b][k + i]
      BY <2>2, LiveType
    <3>3. QED
      BY <2>2, <2>3, <3>1, <3>2
  <2>6. /\ history'[b] = live /\ limit'[b] = limit[b] /\ refused'[b].at = now
        /\ refused'[b].retry = RetryAfter(first + limit[b].window - now)
        /\ refused'[b].crowded = (n - k > r)
    BY <2>1, <2>2 DEF TypeOK
  <2>7. Len(live) >= r /\ (~(n - k > r) => Len(live) <= r)
    BY <2>3, <2>4, <2>5
  <2>8. QED
    BY <2>2, <2>5, <2>6, <2>7 DEF WaitOK, RetryAfter
<1>5. CASE RateStatus(b)
  <2>1. PICK k \in 0..Len(history[b]) :
          /\ Expired(b, k) /\ history' = [history EXCEPT ![b] = Live(b, k)]
          /\ now' = now /\ limit' = limit /\ refused' = refused
    BY <1>5 DEF RateStatus
  <2>2. PICK n, r, w, live : /\ n = Len(history[b]) /\ r = limit[b].requests
                            /\ w = limit[b].window /\ live = Live(b, k)
    OBVIOUS
  <2>3. /\ n \in Nat /\ r \in Nat /\ w \in Nat /\ history[b] \in Seq(Nat) /\ k \in 0..n
    BY <2>1, <2>2, LimitsAssumption DEF TypeOK
  <2>4. Len(live) = n - k /\ (\A i \in 1..(n - k) : live[i] = history[b][k + i])
        /\ history'[b] = live
    BY <2>1, <2>2, LiveType DEF TypeOK
  <2>5. SUFFICES ASSUME refused[b].retry > 0 PROVE WaitOK(b)'
    BY <2>1 DEF WaitOK
  <2>6. PICK first \in Nat :
          /\ refused[b].retry = RetryAfter(first + w - refused[b].at)
          /\ \/ n >= r /\ history[b][1] = first
             \/ first + w <= now /\ (refused[b].crowded \/ n < r)
    BY <1>a, <2>2, <2>5 DEF WaitOK
  <2>7. refused[b].crowded \/ n <= r
    BY <1>a, <2>2, <2>5 DEF WaitOK
  <2>8. \/ Len(live) >= r /\ live[1] = first
        \/ first + w <= now /\ (refused[b].crowded \/ Len(live) < r)
    <3>1. CASE k = 0
      <4>1. Len(live) = n /\ (n >= r /\ r >= 1 => live[1] = history[b][1])
        BY <2>3, <2>4, <3>1
      <4>2. r >= 1
        BY <2>2, LimitsAssumption DEF TypeOK
      <4>3. QED
        BY <2>6, <4>1, <4>2
    <3>2. CASE k # 0
      <4>1. Len(live) < n /\ 1 \in 1..k
        BY <2>3, <2>4, <3>2
      <4>2. history[b][1] <= now - w
        BY <2>1, <2>2, <4>1 DEF Expired
      <4>3. CASE n >= r /\ history[b][1] = first
        <5>1. first + w <= now
          BY <1>a, <2>3, <4>2, <4>3
        <5>2. refused[b].crowded \/ Len(live) < r
          <6>1. Len(live) \in Int
            BY <2>3, <2>4
          <6>2. QED
            BY <2>3, <2>7, <4>1, <6>1
        <5>3. QED
          BY <5>1, <5>2
      <4>4. CASE first + w <= now /\ (refused[b].crowded \/ n < r)
        <5>1. Len(live) \in Int
          BY <2>3, <2>4
        <5>2. QED
          BY <2>3, <4>1, <4>4, <5>1
      <4>5. QED
        BY <2>6, <4>3, <4>4
    <3>3. QED
      BY <3>1, <3>2
  <2>9. refused[b].crowded \/ Len(live) <= r
    <3>1. Len(live) \in Int /\ Len(live) <= n
      BY <2>3, <2>4
    <3>2. QED
      BY <2>3, <2>7, <3>1
  <2>10. QED
    BY <2>1, <2>2, <2>4, <2>6, <2>8, <2>9 DEF WaitOK, RetryAfter
<1>6. CASE UNCHANGED vars
  <2>1. UNCHANGED <<limit, refused, history, now>>
    BY <1>6 DEF vars
  <2>2. QED
    BY <1>a, <2>1, WaitKept
<1>7. QED
  BY <1>1, <1>2, <1>3, <1>4, <1>5, <1>6 DEF Next

\* Who is refused with retry_after_seconds and waits that long, while the limit stays and
\* nobody else uses the alias, is let through, and would not have been a second earlier,
\* for any limits and any clock.  (RateLimitError)
THEOREM WaitsAreExact == Spec => []RetryAfterExact
<1>1. Init => WaitInv
  BY DEF Init, WaitInv, WaitOK, NoRefusal
<1>2. QED
  BY <1>1, WaitStep, WaitIsExact, RateTypeCorrect, PTL DEF Spec

=============================================================================
