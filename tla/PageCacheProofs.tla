--------------------------- MODULE PageCacheProofs ---------------------------
(***************************************************************************)
(* The page cache for every number of readers, entries and outputs: types, *)
(* what the store holds, and what a reader finds in it.                    *)
(***************************************************************************)
EXTENDS PageCache, FiniteSetTheorems, TLAPS

\* No two readers run the same query.
OwnQueries == \A q, r \in Readers : KeyOf[q] = KeyOf[r] => q = r

Snaps   == 1..Len(snaps)
Pages(r) == reader[r].pages

\* What is in the store, and what was: an entry has the number of its store,
\* no two have the same one, and every number up to the last was given out.
StoreInv ==
  /\ IsFiniteSet(DOMAIN cache)
  /\ \A k \in DOMAIN cache : cache[k] \in Snaps /\ snaps[cache[k]].no \in 1..stores
  /\ \A j, k \in DOMAIN cache : snaps[cache[j]].no = snaps[cache[k]].no => j = k
  /\ \A n \in 1..stores : \E s \in Snaps : snaps[s].no = n

\* A first page waits to be stored with its output ...
WaitsOK(r) ==
  /\ thread[r].pc \in {"device", "store"} => reader[r] = Fresh
  /\ thread[r].pc = "store" =>
       LET page == thread[r].page IN
         /\ page \in Page /\ page.snap \in Snaps /\ snaps[page.snap].no = 0
         /\ page.from = 0 /\ 0 < page.to /\ page.to < snaps[page.snap].length

\* ... which nobody else stores.
WaitsAlone ==
  \A q, r \in Readers :
    /\ thread[q].pc = "store" /\ thread[r].pc = "store"
    /\ thread[q].page.snap = thread[r].page.snap
    => q = r

\* A last page waits for the key to be dropped.
LastOK(r) ==
  thread[r].pc = "drop" =>
    LET page == thread[r].page IN
      /\ page \in Page /\ page.snap \in Snaps /\ page.to = snaps[page.snap].length
      /\ Pages(r) = <<>> => page.from = 0
      /\ Pages(r) # <<>> => snaps[page.snap].no > 0 /\ page.at < snaps[page.snap].at + TTL

\* The pages of a reader: all but a first one come from the store.
PagesOK(r) ==
  /\ \A i \in 1..Len(Pages(r)) :
       /\ Pages(r)[i].snap \in Snaps
       /\ i > 1 => /\ snaps[Pages(r)[i].snap].no > 0
                   /\ Pages(r)[i].at < snaps[Pages(r)[i].snap].at + TTL
  /\ Pages(r) = <<>> => reader[r].next = 0

ReaderOK(r) == WaitsOK(r) /\ LastOK(r) /\ PagesOK(r)

\* The key of a reader's own holds the output it is reading, if any.
OwnOK(r) ==
  /\ reader[r].next > 0 =>
       /\ snaps[LastPage(r).snap].no \in 1..stores
       /\ Key(r) \in DOMAIN cache => cache[Key(r)] = LastPage(r).snap
  /\ thread[r].pc = "drop" /\ Pages(r) # <<>> =>
       /\ reader[r].next > 0
       /\ thread[r].page.snap = LastPage(r).snap /\ thread[r].page.from = LastPage(r).to
  /\ Pages(r) # <<>> /\ reader[r].next = 0 => Key(r) \notin DOMAIN cache

\* The parts of OneSnapshot and RetainedUnlessCrowded that speak of a reader.
ReadsOne(r) == Pages(r) # <<>> =>
  /\ Pages(r)[1].from = 0
  /\ \A i \in 2..Len(Pages(r)) : /\ Pages(r)[i].snap = Pages(r)[1].snap
                                 /\ Pages(r)[i].from = Pages(r)[i - 1].to
  /\ reader[r].next = IF LastPage(r).to < snaps[LastPage(r).snap].length
                      THEN LastPage(r).to ELSE 0

Retained(r) ==
  /\ thread[r].pc = "idle" /\ reader[r].next > 0
  /\ now < snaps[LastPage(r).snap].at + TTL /\ snaps[LastPage(r).snap].no > base
  /\ stores < snaps[LastPage(r).snap].no + MaxEntries
  => Key(r) \in DOMAIN cache /\ cache[Key(r)] = LastPage(r).snap

OwnInv == \A r \in Readers : OwnOK(r) /\ ReadsOne(r) /\ Retained(r)

CacheInv == StoreInv /\ WaitsAlone /\ \A r \in Readers : ReaderOK(r)

Inv == TypeOK /\ CacheInv

-----------------------------------------------------------------------------
(* The sections that hold the lock.                                        *)

\* The store after entries were dropped from it, and no others changed.
Shrinks(new) == DOMAIN new \subseteq DOMAIN cache /\ \A k \in DOMAIN new : new[k] = cache[k]

LEMMA WithoutShrinks ==
  ASSUME NEW keys
  PROVE  Shrinks(Without(keys)) /\ DOMAIN Without(keys) = DOMAIN cache \ keys
BY DEF Without, Shrinks

\* The room made for an output: what is let go was stored before the rest.
LEMMA RoomMade ==
  ASSUME Inv, NEW kept \in KeptWhenStoring
  PROVE  /\ Shrinks(kept) /\ IsFiniteSet(DOMAIN kept)
         /\ Cardinality(DOMAIN kept) < MaxEntries
         /\ \A k \in DOMAIN cache \ DOMAIN kept :
              /\ Cardinality(DOMAIN cache) = MaxEntries
              /\ \A j \in DOMAIN cache : snaps[cache[k]].no <= snaps[cache[j]].no
<1>1. IsFiniteSet(DOMAIN cache) /\ Cardinality(DOMAIN cache) <= MaxEntries
      /\ Cardinality(DOMAIN cache) \in Nat /\ MaxEntries \in Nat \ {0}
  BY FS_CardinalityType, CacheAssumption DEF Inv, TypeOK, CacheInv, StoreInv
<1>2. CASE Cardinality(DOMAIN cache) >= MaxEntries
  <2>1. PICK k \in DOMAIN cache :
          /\ kept = Without({k})
          /\ \A j \in DOMAIN cache : snaps[cache[k]].no <= snaps[cache[j]].no
    BY <1>2 DEF KeptWhenStoring
  <2>2. Shrinks(kept) /\ DOMAIN kept = DOMAIN cache \ {k}
    BY <2>1, WithoutShrinks
  <2>3. IsFiniteSet(DOMAIN kept) /\ Cardinality(DOMAIN kept) = Cardinality(DOMAIN cache) - 1
    BY <1>1, <2>2, FS_RemoveElement
  <2>4. Cardinality(DOMAIN cache) = MaxEntries
    BY <1>1, <1>2
  <2>5. \A j \in DOMAIN cache \ DOMAIN kept : j = k
    BY <2>2
  <2>6. Cardinality(DOMAIN kept) < MaxEntries
    BY <1>1, <2>3, <2>4
  <2>7. QED
    BY <2>1, <2>2, <2>3, <2>4, <2>5, <2>6
<1>3. CASE ~(Cardinality(DOMAIN cache) >= MaxEntries)
  <2>1. kept = cache
    BY <1>3 DEF KeptWhenStoring
  <2>2. QED
    BY <1>1, <1>3, <2>1 DEF Shrinks
<1>4. QED
  BY <1>2, <1>3

\* An output waits to be stored: it is not among those that have been.
LEMMA StoresBelow ==
  ASSUME Inv, NEW r \in Readers, thread[r].pc = "store"
  PROVE  stores < MaxCaptures
<1>0. PICK p : p = thread[r].page.snap
  OBVIOUS
<1>1. /\ p \in Snaps /\ snaps[p].no = 0 /\ Len(snaps) \in Nat /\ Len(snaps) <= MaxCaptures
      /\ stores \in Nat /\ MaxCaptures \in Nat
  BY <1>0, CacheAssumption DEF Inv, TypeOK, CacheInv, ReaderOK, WaitsOK
<1>2. /\ IsFiniteSet(1..stores) /\ Cardinality(1..stores) = stores
      /\ IsFiniteSet(Snaps) /\ Cardinality(Snaps) = Len(snaps)
  <2>1. \A n \in Nat : IsFiniteSet(1..n) /\ Cardinality(1..n) = n
    <3> SUFFICES ASSUME NEW n \in Nat PROVE IsFiniteSet(1..n) /\ Cardinality(1..n) = n
      OBVIOUS
    <3>1. IsFiniteSet(1..n) /\ Cardinality(1..n) = IF 1 > n THEN 0 ELSE n - 1 + 1
      BY FS_Interval
    <3>2. QED
      BY <3>1
  <2>2. QED
    BY <1>1, <2>1 DEF Snaps
<1>3. IsFiniteSet(Snaps \ {p}) /\ Cardinality(Snaps \ {p}) = Len(snaps) - 1
  BY <1>1, <1>2, FS_RemoveElement
<1> DEFINE f == [n \in 1..stores |-> CHOOSE s \in Snaps : snaps[s].no = n]
<1>4. \A n \in 1..stores : f[n] \in Snaps /\ snaps[f[n]].no = n
  BY DEF Inv, CacheInv, StoreInv
<1>5. \A n \in 1..stores : f[n] # p
  <2> HIDE DEF f
  <2>1. \A n \in 1..stores : n # 0
    OBVIOUS
  <2>2. QED
    BY <1>1, <1>4, <2>1
<1>6. f \in [1..stores -> Snaps \ {p}]
  BY <1>4, <1>5
<1>7. ~(Len(snaps) - 1 < stores)
  <2> HIDE DEF f
  <2>1. SUFFICES ASSUME Len(snaps) - 1 < stores PROVE FALSE
    OBVIOUS
  <2>2. Cardinality(Snaps \ {p}) < Cardinality(1..stores)
    BY <1>2, <1>3, <2>1
  <2>3. \E x, y \in 1..stores : x # y /\ f[x] = f[y]
    <3>1. PICK S, T, g : S = 1..stores /\ T = Snaps \ {p} /\ g = f
      OBVIOUS
    <3>2. IsFiniteSet(S) /\ IsFiniteSet(T) /\ Cardinality(T) < Cardinality(S) /\ g \in [S -> T]
      BY <1>2, <1>3, <1>6, <2>2, <3>1
    <3>3. \E x, y \in S : x # y /\ g[x] = g[y]
      BY <3>2, FS_PigeonHole
    <3>4. QED
      BY <3>1, <3>3
  <2>4. QED
    BY <1>4, <2>3
<1>8. QED
  BY <1>1, <1>7

-----------------------------------------------------------------------------
(* The outputs.                                                            *)

\* A new output leaves the others as they are.
LEMMA CaptureKeeps ==
  ASSUME TypeOK, NEW o, snaps' = Append(snaps, o)
  PROVE  /\ Len(snaps) \in Nat /\ Len(snaps') = Len(snaps) + 1
         /\ snaps'[Len(snaps) + 1] = o
         /\ \A s \in Snaps : s \in Snaps' /\ snaps'[s] = snaps[s]
         /\ Snaps' = Snaps \cup {Len(snaps) + 1} /\ Len(snaps) + 1 \notin Snaps
<1>1. snaps \in Seq(Output) /\ Len(snaps) \in Nat
  BY DEF TypeOK
<1>2. Len(snaps') = Len(snaps) + 1 /\ snaps'[Len(snaps) + 1] = o
      /\ \A s \in 1..Len(snaps) : snaps'[s] = snaps[s]
  BY <1>1
<1>3. Snaps' = Snaps \cup {Len(snaps) + 1} /\ Len(snaps) + 1 \notin Snaps
  BY <1>1, <1>2 DEF Snaps
<1>4. QED
  BY <1>1, <1>2, <1>3 DEF Snaps

\* The store gives an output its number and time.
LEMMA StoreNumbers ==
  ASSUME Inv, NEW r \in Readers, Store(r)
  PROVE  LET p == thread[r].page.snap IN
         /\ p \in Snaps /\ snaps[p].no = 0 /\ Snaps' = Snaps /\ Len(snaps') = Len(snaps)
         /\ snaps' \in Seq(Output)
         /\ snaps'[p].no = stores + 1 /\ snaps'[p].at = now /\ snaps'[p].length = snaps[p].length
         /\ \A s \in Snaps : s # p => snaps'[s] = snaps[s]
<1> DEFINE p == thread[r].page.snap
<1>1. snaps \in Seq(Output) /\ now \in 0..MaxTime /\ stores \in 0..MaxCaptures
  BY DEF Inv, TypeOK
<1>2. p \in 1..Len(snaps) /\ snaps[p].no = 0
  BY DEF Store, Inv, CacheInv, ReaderOK, WaitsOK, Snaps
<1>3. stores + 1 \in 0..MaxCaptures
  BY <1>1, StoresBelow, CacheAssumption DEF Store
<1>5. snaps[p] \in Output
  BY <1>1, <1>2
<1>6. snaps' = [snaps EXCEPT ![p] = [length |-> snaps[p].length, no |-> stores + 1, at |-> now]]
  BY <1>1, <1>2 DEF Store
<1>7. [length |-> snaps[p].length, no |-> stores + 1, at |-> now] \in Output
  BY <1>1, <1>3, <1>5 DEF Output
<1>8. snaps' \in Seq(Output) /\ Len(snaps') = Len(snaps)
  BY <1>1, <1>2, <1>6, <1>7
<1>9. QED
  BY <1>1, <1>2, <1>6, <1>8 DEF Snaps

\* The steps that touch the outputs, and those that touch the store.
LEMMA Frames ==
  ASSUME [Next]_vars
  PROVE  /\ \/ UNCHANGED <<snaps, stores>>
            \/ \E r \in Readers : Capture(r) \/ Store(r)
         /\ Shrinks(cache') \/ \E r \in Readers : Store(r)
<1>1. UNCHANGED <<snaps, stores>> \/ \E r \in Readers : Capture(r) \/ Store(r)
  BY DEF Next, vars, ReadFresh, DeviceFails, ReadExpired, ReadNext, DropLast, Tick, SessionEnds
<1>2. CASE cache' = cache
  BY <1>1, <1>2 DEF Shrinks
<1>3. CASE cache' = KeptWhenLoading
  BY <1>1, <1>3, WithoutShrinks DEF KeptWhenLoading
<1>4. ASSUME NEW r \in Readers, DropLast(r) PROVE Shrinks(cache')
  BY <1>4, WithoutShrinks DEF DropLast, KeptAfterLast
<1>5. CASE SessionEnds
  BY <1>5 DEF SessionEnds, Shrinks
<1>6. QED
  BY <1>1, <1>2, <1>3, <1>4, <1>5 DEF Next, vars, ReadFresh, DeviceFails, Capture,
     ReadExpired, ReadNext, Tick

\* An output that was captured stays; once stored it does not change.
LEMMA SnapKeeps ==
  ASSUME Inv, [Next]_vars
  PROVE  /\ \A s \in Snaps : /\ s \in Snaps' /\ snaps'[s].length = snaps[s].length
                             /\ snaps[s].no > 0 => snaps'[s] = snaps[s]
         /\ snaps' \in Seq(Output) /\ Len(snaps') <= MaxCaptures
         /\ stores' \in 0..MaxCaptures /\ stores <= stores'
<1>a. TypeOK
  BY DEF Inv
<1>1. CASE UNCHANGED <<snaps, stores>>
  BY <1>1, <1>a DEF TypeOK, Snaps
<1>2. ASSUME NEW r \in Readers, Capture(r)
      PROVE  /\ \A s \in Snaps : s \in Snaps' /\ snaps'[s] = snaps[s]
             /\ snaps' \in Seq(Output) /\ Len(snaps') <= MaxCaptures /\ stores' = stores
  <2>1. PICK n \in 1..Cap : snaps' = Append(snaps, [length |-> n, no |-> 0, at |-> 0])
    BY <1>2 DEF Capture
  <2>2. [length |-> n, no |-> 0, at |-> 0] \in Output
    BY CacheAssumption DEF Output
  <2>3. snaps' \in Seq(Output)
    BY <1>a, <2>1, <2>2 DEF TypeOK
  <2>4. Len(snaps) < MaxCaptures /\ stores' = stores
    BY <1>2 DEF Capture
  <2>5. /\ Len(snaps) \in Nat /\ Len(snaps') = Len(snaps) + 1
        /\ \A s \in Snaps : s \in Snaps' /\ snaps'[s] = snaps[s]
    BY <1>a, <2>1, CaptureKeeps
  <2>6. QED
    BY <2>3, <2>4, <2>5, CacheAssumption
<1>3. ASSUME NEW r \in Readers, Store(r)
      PROVE  /\ \A s \in Snaps : /\ s \in Snaps' /\ snaps'[s].length = snaps[s].length
                                 /\ snaps[s].no > 0 => snaps'[s] = snaps[s]
             /\ snaps' \in Seq(Output) /\ Len(snaps') <= MaxCaptures
             /\ stores' \in 0..MaxCaptures /\ stores <= stores'
  <2>1. stores' = stores + 1 /\ stores' \in 0..MaxCaptures
    BY <1>a, <1>3, StoresBelow, CacheAssumption DEF Store, TypeOK
  <2>2. QED
    BY <1>a, <1>3, <2>1, StoreNumbers DEF TypeOK
<1>4. QED
  BY <1>1, <1>2, <1>3, <1>a, Frames DEF TypeOK

-----------------------------------------------------------------------------
(* Types.                                                                  *)

\* The page of an output of length n that begins at an offset.
LEMMA PageOf ==
  ASSUME TypeOK, NEW s \in Snapshots, NEW n \in 1..Cap, NEW offset \in 0..Cap, NEW m \in PageSizes
  PROVE  LET page == PageAt(s, n, offset, m) IN
         /\ page \in Page
         /\ page.snap = s /\ page.from = offset /\ page.at = now
         /\ 0 < page.to /\ page.to <= n
<1>1. m \in Nat \ {0} /\ Cap \in Nat /\ now \in 0..MaxTime
  BY CacheAssumption DEF TypeOK
<1>2. (IF offset + m < n THEN offset + m ELSE n) \in 1..n
  BY <1>1
<1>3. \A to \in 1..n : to \in 0..Cap /\ 0 < to /\ to <= n
  BY <1>1
<1>4. QED
  BY <1>1, <1>2, <1>3 DEF PageAt, Page

LEMMA ReturnType ==
  ASSUME TypeOK, NEW r \in Readers, NEW result \in Reader, Return(r, result)
  PROVE  thread' \in [Readers -> Call] /\ reader' \in [Readers -> Reader]
<1>1. NoCall \in Call
  BY DEF NoCall, Call
<1>2. QED
  BY <1>1 DEF TypeOK, Return

LEMMA FreshType == Fresh \in Reader
<1>1. 0 \in 0..Cap
  BY CacheAssumption
<1>2. <<>> \in Seq(Page)
  OBVIOUS
<1>3. QED
  BY <1>1, <1>2 DEF Fresh, Reader

\* The store keeps within its limit.
LEMMA StoreType ==
  ASSUME Inv, [Next]_vars
  PROVE  /\ IsFiniteSet(DOMAIN cache') /\ Cardinality(DOMAIN cache') <= MaxEntries
         /\ DOMAIN cache' \subseteq Keys /\ \A k \in DOMAIN cache' : cache'[k] \in Snapshots
<1>a. /\ IsFiniteSet(DOMAIN cache) /\ Cardinality(DOMAIN cache) <= MaxEntries
      /\ DOMAIN cache \subseteq Keys /\ \A k \in DOMAIN cache : cache[k] \in Snapshots
      /\ Cardinality(DOMAIN cache) \in Nat /\ MaxEntries \in Nat
  BY FS_CardinalityType, CacheAssumption DEF Inv, TypeOK, CacheInv, StoreInv
<1>1. CASE Shrinks(cache')
  <2>1. IsFiniteSet(DOMAIN cache') /\ Cardinality(DOMAIN cache') <= Cardinality(DOMAIN cache)
    BY <1>a, <1>1, FS_Subset DEF Shrinks
  <2>2. Cardinality(DOMAIN cache') \in Nat
    BY <2>1, FS_CardinalityType
  <2>3. Cardinality(DOMAIN cache') <= MaxEntries
    BY <1>a, <2>1, <2>2
  <2>4. QED
    BY <1>a, <1>1, <2>1, <2>3 DEF Shrinks
<1>2. ASSUME NEW r \in Readers, Store(r)
      PROVE  /\ IsFiniteSet(DOMAIN cache') /\ Cardinality(DOMAIN cache') <= MaxEntries
             /\ DOMAIN cache' \subseteq Keys /\ \A k \in DOMAIN cache' : cache'[k] \in Snapshots
  <2>1. PICK kept \in KeptWhenStoring :
          cache' = [k \in DOMAIN kept \cup {Key(r)} |->
                      IF k = Key(r) THEN thread[r].page.snap ELSE kept[k]]
    BY <1>2 DEF Store
  <2>2. Shrinks(kept) /\ IsFiniteSet(DOMAIN kept) /\ Cardinality(DOMAIN kept) < MaxEntries
    BY RoomMade
  <2>3. DOMAIN cache' = DOMAIN kept \cup {Key(r)}
    BY <2>1
  <2>4. /\ IsFiniteSet(DOMAIN cache')
        /\ Cardinality(DOMAIN cache') \in {Cardinality(DOMAIN kept), Cardinality(DOMAIN kept) + 1}
    BY <2>2, <2>3, FS_AddElement
  <2>5. Cardinality(DOMAIN kept) \in Nat
    BY <2>2, FS_CardinalityType
  <2>6. Cardinality(DOMAIN cache') <= MaxEntries
    BY <1>a, <2>2, <2>4, <2>5
  <2>7. Key(r) \in Keys
    BY CacheAssumption DEF Key
  <2>8. thread[r].page.snap \in Snapshots
    BY <1>2 DEF Store, Inv, CacheInv, ReaderOK, WaitsOK, Page
  <2>9. \A k \in DOMAIN cache' : cache'[k] \in Snapshots
    BY <1>a, <2>1, <2>2, <2>8 DEF Shrinks
  <2>10. QED
    BY <1>a, <2>2, <2>3, <2>4, <2>6, <2>7, <2>9 DEF Shrinks
<1>3. QED
  BY <1>1, <1>2, Frames

LEMMA TypeStep ==
  ASSUME Inv, [Next]_vars
  PROVE  TypeOK'
<1>a. TypeOK /\ \A r \in Readers : ReaderOK(r)
  BY DEF Inv, CacheInv
<1> DEFINE Typed == /\ now' \in 0..MaxTime /\ base' \in 0..stores'
                    /\ thread' \in [Readers -> Call] /\ reader' \in [Readers -> Reader]
<1>b. SUFFICES Typed
  BY SnapKeeps, StoreType DEF TypeOK
<1>c. base \in 0..stores' /\ stores \in Nat /\ stores' \in Nat
  BY <1>a, SnapKeeps DEF TypeOK
<1>d. \A page \in Page : \A pc \in {"idle", "device", "store", "drop"} :
        [pc |-> pc, page |-> page] \in Call
  BY DEF Call
<1>1. ASSUME NEW r \in Readers, ReadFresh(r) PROVE Typed
  <2>1. [thread[r] EXCEPT !.pc = "device"] \in Call
    BY <1>a DEF TypeOK, Call
  <2>2. QED
    BY <1>1, <1>a, <1>c, <2>1, FreshType DEF ReadFresh, TypeOK
<1>2. ASSUME NEW r \in Readers, DeviceFails(r) PROVE Typed
  BY <1>2, <1>a, <1>c, FreshType, ReturnType DEF DeviceFails, TypeOK
<1>3. ASSUME NEW r \in Readers, Capture(r) PROVE Typed
  <2>1. PICK n \in 1..Cap, m \in PageSizes :
          thread' = [thread EXCEPT ![r] =
            [pc |-> IF PageAt(Len(snaps) + 1, n, 0, m).to < n THEN "store" ELSE "drop",
             page |-> PageAt(Len(snaps) + 1, n, 0, m)]]
    BY <1>3 DEF Capture
  <2>2. Len(snaps) + 1 \in Snapshots /\ 0 \in 0..Cap
    BY <1>3, <1>a, CacheAssumption DEF Capture, TypeOK, Snapshots
  <2>3. PageAt(Len(snaps) + 1, n, 0, m) \in Page
    BY <1>a, <2>2, PageOf
  <2>4. QED
    BY <1>3, <1>a, <1>c, <1>d, <2>1, <2>3 DEF Capture, TypeOK
<1>4. ASSUME NEW r \in Readers, Store(r) PROVE Typed
  <2>1. [next |-> thread[r].page.to, pages |-> <<thread[r].page>>] \in Reader
    <3>1. thread[r].page \in Page
      BY <1>4, <1>a DEF Store, ReaderOK, WaitsOK
    <3>2. <<thread[r].page>> \in Seq(Page)
      BY <3>1
    <3>3. QED
      BY <3>1, <3>2 DEF Reader, Page
  <2>2. QED
    BY <1>4, <1>a, <1>c, <2>1, ReturnType DEF Store, TypeOK
<1>5. ASSUME NEW r \in Readers, ReadExpired(r) PROVE Typed
  BY <1>5, <1>a, <1>c, FreshType, ReturnType DEF ReadExpired, TypeOK
<1>6. ASSUME NEW r \in Readers, ReadNext(r) PROVE Typed
  <2>0. PICK s : s = cache'[Key(r)]
    OBVIOUS
  <2>1. PICK m \in PageSizes :
           LET page == PageAt(s, snaps[s].length, reader[r].next, m) IN
           IF page.to < snaps[s].length
             THEN Return(r, [next |-> page.to, pages |-> Append(reader[r].pages, page)])
             ELSE /\ thread' = [thread EXCEPT ![r] = [pc |-> "drop", page |-> page]]
                  /\ UNCHANGED reader
    BY <1>6, <2>0 DEF ReadNext
  <2>2. s \in Snapshots /\ s \in Snaps
    <3>1. Shrinks(cache')
      BY <1>6, WithoutShrinks DEF ReadNext, KeptWhenLoading
    <3>2. QED
      BY <1>6, <2>0, <3>1 DEF ReadNext, Shrinks, Inv, CacheInv, StoreInv, TypeOK
  <2>3. snaps[s].length \in 1..Cap /\ reader[r].next \in 0..Cap
    <3>1. snaps[s] \in Output /\ reader[r] \in Reader
      BY <1>a, <2>2 DEF TypeOK, Snaps
    <3>2. QED
      BY <3>1 DEF Output, Reader
  <2>4. PICK page : page = PageAt(s, snaps[s].length, reader[r].next, m)
    OBVIOUS
  <2>5. page \in Page
    BY <1>a, <2>2, <2>3, <2>4, PageOf
  <2>6. CASE page.to < snaps[s].length
    <3>1. Return(r, [next |-> page.to, pages |-> Append(reader[r].pages, page)])
      BY <2>1, <2>4, <2>6
    <3>2. Append(reader[r].pages, page) \in Seq(Page)
      BY <1>a, <2>5 DEF TypeOK, Reader
    <3>3. [next |-> page.to, pages |-> Append(reader[r].pages, page)] \in Reader
      BY <2>5, <3>2 DEF Reader, Page
    <3>4. QED
      BY <1>6, <1>a, <1>c, <3>1, <3>3, ReturnType DEF ReadNext, TypeOK
  <2>7. CASE ~(page.to < snaps[s].length)
    <3>1. thread' = [thread EXCEPT ![r] = [pc |-> "drop", page |-> page]] /\ UNCHANGED reader
      BY <2>1, <2>4, <2>7
    <3>2. QED
      BY <1>6, <1>a, <1>c, <1>d, <2>5, <3>1 DEF ReadNext, TypeOK
  <2>8. QED
    BY <2>6, <2>7
<1>7. ASSUME NEW r \in Readers, DropLast(r) PROVE Typed
  <2>1. thread[r].page \in Page
    BY <1>7, <1>a DEF DropLast, ReaderOK, LastOK
  <2>2. Append(reader[r].pages, thread[r].page) \in Seq(Page) /\ 0 \in 0..Cap
    BY <1>a, <2>1, CacheAssumption DEF TypeOK, Reader
  <2>3. [next |-> 0, pages |-> Append(reader[r].pages, thread[r].page)] \in Reader
    BY <2>2 DEF Reader
  <2>4. QED
    BY <1>7, <1>a, <1>c, <2>3, ReturnType DEF DropLast, TypeOK
<1>8. CASE Tick
  BY <1>8, <1>a, <1>c, CacheAssumption DEF Tick, TypeOK
<1>9. CASE SessionEnds
  <2>1. NoCall \in Call
    BY DEF NoCall, Call
  <2>2. QED
    BY <1>9, <1>a, <1>c, <2>1 DEF SessionEnds, TypeOK
<1>10. CASE UNCHANGED vars
  BY <1>10, <1>a, <1>c DEF vars, TypeOK
<1>11. QED
  BY <1>1, <1>2, <1>3, <1>4, <1>5, <1>6, <1>7, <1>8, <1>9, <1>10 DEF Next

-----------------------------------------------------------------------------
(* The store and the readers.                                              *)

LEMMA StoreStep ==
  ASSUME Inv, [Next]_vars
  PROVE  StoreInv'
<1>a. TypeOK /\ StoreInv
  BY DEF Inv, CacheInv
<1>b. stores \in Nat /\ stores' \in Nat /\ stores <= stores'
  BY <1>a, SnapKeeps DEF TypeOK
<1>1. CASE Shrinks(cache') /\ stores' = stores
  <2>1. \A k \in DOMAIN cache' : /\ k \in DOMAIN cache /\ cache'[k] = cache[k]
                                /\ cache[k] \in Snaps /\ snaps[cache[k]].no \in 1..stores
    BY <1>1, <1>a DEF Shrinks, StoreInv
  <2>2. \A k \in DOMAIN cache' : snaps'[cache'[k]] = snaps[cache[k]] /\ cache'[k] \in Snaps'
    BY <2>1, SnapKeeps
  <2>3. ASSUME NEW n \in 1..stores' PROVE \E s \in Snaps' : snaps'[s].no = n
    <3>1. PICK s \in Snaps : snaps[s].no = n
      BY <1>1, <1>a, <2>3 DEF StoreInv
    <3>2. s \in Snaps' /\ snaps'[s] = snaps[s]
      BY <3>1, SnapKeeps
    <3>3. QED
      BY <3>1, <3>2
  <2>4. QED
    BY <1>1, <1>a, <2>1, <2>2, <2>3, StoreType DEF StoreInv
<1>2. ASSUME NEW r \in Readers, Store(r) PROVE StoreInv'
  <2>0. PICK p : p = thread[r].page.snap
    OBVIOUS
  <2>1. PICK kept \in KeptWhenStoring :
          cache' = [k \in DOMAIN kept \cup {Key(r)} |-> IF k = Key(r) THEN p ELSE kept[k]]
    BY <1>2, <2>0 DEF Store
  <2>2. Shrinks(kept)
    BY RoomMade
  <2>3. /\ p \in Snaps /\ snaps[p].no = 0 /\ Snaps' = Snaps /\ snaps'[p].no = stores + 1
        /\ \A s \in Snaps : s # p => snaps'[s] = snaps[s]
    BY <1>2, <2>0, StoreNumbers
  <2>4. stores' = stores + 1
    BY <1>2 DEF Store
  <2>5. \A k \in DOMAIN cache' :
          \/ k = Key(r) /\ cache'[k] = p
          \/ k # Key(r) /\ k \in DOMAIN cache /\ cache'[k] = cache[k]
    BY <2>1, <2>2 DEF Shrinks
  <2>6. ASSUME NEW k \in DOMAIN cache', k # Key(r)
        PROVE  /\ k \in DOMAIN cache /\ cache'[k] \in Snaps /\ cache'[k] = cache[k]
               /\ snaps'[cache'[k]].no = snaps[cache[k]].no /\ snaps[cache[k]].no \in 1..stores
    <3>1. k \in DOMAIN cache /\ cache'[k] = cache[k]
      BY <2>5, <2>6
    <3>2. cache[k] \in Snaps /\ snaps[cache[k]].no \in 1..stores
      BY <1>a, <3>1 DEF StoreInv
    <3>3. cache[k] # p
      BY <2>3, <3>2
    <3>4. QED
      BY <2>3, <3>1, <3>2, <3>3
  <2>7. \A k \in DOMAIN cache' : cache'[k] \in Snaps' /\ snaps'[cache'[k]].no \in 1..stores'
    BY <1>b, <2>3, <2>4, <2>5, <2>6
  <2>8. ASSUME NEW j \in DOMAIN cache', NEW k \in DOMAIN cache',
               snaps'[cache'[j]].no = snaps'[cache'[k]].no
        PROVE  j = k
    <3>1. CASE j # Key(r) /\ k # Key(r)
      BY <1>a, <2>6, <2>8, <3>1 DEF StoreInv
    <3>2. ~(stores + 1 \in 1..stores)
      BY <1>b
    <3>3. QED
      BY <2>3, <2>5, <2>6, <2>8, <3>1, <3>2
  <2>9. ASSUME NEW n \in 1..stores' PROVE \E s \in Snaps' : snaps'[s].no = n
    <3>1. CASE n = stores + 1
      BY <2>3, <3>1
    <3>2. CASE n # stores + 1
      <4>1. n \in 1..stores
        BY <1>b, <2>4, <2>9, <3>2
      <4>2. PICK s \in Snaps : snaps[s].no = n
        BY <1>a, <4>1 DEF StoreInv
      <4>3. s # p
        BY <2>3, <4>1, <4>2
      <4>4. QED
        BY <2>3, <4>2, <4>3
    <3>3. QED
      BY <3>1, <3>2
  <2>10. QED
    BY <2>7, <2>8, <2>9, StoreType DEF StoreInv
<1>3. stores' = stores \/ \E r \in Readers : Store(r)
  BY Frames DEF Capture
<1>4. QED
  BY <1>1, <1>2, <1>3, Frames

\* One reader moves, none, or all when their process ends.
LEMMA OneMoves ==
  ASSUME TypeOK, [Next]_vars
  PROVE  \/ \E r \in Readers :
              /\ \/ ReadFresh(r) \/ DeviceFails(r) \/ Capture(r) \/ Store(r)
                 \/ ReadExpired(r) \/ ReadNext(r) \/ DropLast(r)
              /\ \A q \in Readers \ {r} : thread'[q] = thread[q] /\ reader'[q] = reader[q]
         \/ UNCHANGED <<thread, reader, snaps>>
         \/ SessionEnds
<1>1. ASSUME NEW r \in Readers, NEW q \in Readers \ {r},
             \/ ReadFresh(r) \/ DeviceFails(r) \/ Capture(r) \/ Store(r)
             \/ ReadExpired(r) \/ ReadNext(r) \/ DropLast(r)
      PROVE  thread'[q] = thread[q] /\ reader'[q] = reader[q]
  <2>1. thread \in [Readers -> Call] /\ reader \in [Readers -> Reader]
    BY DEF TypeOK
  <2>2. \A result : Return(r, result) => thread'[q] = thread[q] /\ reader'[q] = reader[q]
    BY <2>1 DEF Return
  <2>3. CASE ReadNext(r)
    BY <2>1, <2>2, <2>3 DEF ReadNext
  <2>4. QED
    BY <1>1, <2>1, <2>2, <2>3 DEF ReadFresh, DeviceFails, Capture, Store, ReadExpired, DropLast
<1>2. QED
  BY <1>1 DEF Next, vars, Tick

\* What a reader relies on is not touched by the others.
LEMMA OthersKeep ==
  ASSUME Inv, [Next]_vars, NEW q \in Readers, ~Store(q),
         thread'[q] = thread[q], reader'[q] = reader[q]
  PROVE  ReaderOK(q)'
<1>a. ReaderOK(q) /\ WaitsAlone
  BY DEF Inv, CacheInv
<1>1. LastOK(q)' /\ PagesOK(q)'
  BY <1>a, SnapKeeps DEF ReaderOK, LastOK, PagesOK, Pages
<1>2. WaitsOK(q)'
  <2>1. SUFFICES ASSUME thread[q].pc = "store"
                 PROVE  snaps'[thread[q].page.snap].no = 0
    BY <1>a, SnapKeeps DEF ReaderOK, WaitsOK
  <2>2. thread[q].page.snap \in Snaps /\ snaps[thread[q].page.snap].no = 0
    BY <1>a, <2>1 DEF ReaderOK, WaitsOK
  <2>3. CASE snaps' = snaps
    BY <2>2, <2>3
  <2>4. ASSUME NEW r \in Readers, Capture(r) PROVE snaps'[thread[q].page.snap].no = 0
    BY <2>2, <2>4, CaptureKeeps DEF Capture, Inv
  <2>5. ASSUME NEW r \in Readers, Store(r) PROVE snaps'[thread[q].page.snap].no = 0
    <3>1. r # q
      BY <2>5
    <3>2. thread[r].page.snap # thread[q].page.snap
      BY <1>a, <2>1, <2>5, <3>1 DEF WaitsAlone, Store
    <3>3. QED
      BY <2>2, <2>5, <3>2, StoreNumbers
  <2>6. QED
    BY <2>3, <2>4, <2>5, Frames
<1>3. QED
  BY <1>1, <1>2 DEF ReaderOK

\* The page that a read at offset 0 captures, of a new output.
CapturedPage(r, page) ==
  /\ page \in Page /\ page.snap = Len(snaps) + 1 /\ page.snap \in Snaps' /\ page.snap \notin Snaps
  /\ page.from = 0 /\ 0 < page.to /\ snaps'[page.snap].no = 0
  /\ \/ page.to < snaps'[page.snap].length /\ thread'[r] = [pc |-> "store", page |-> page]
     \/ page.to = snaps'[page.snap].length /\ thread'[r] = [pc |-> "drop", page |-> page]
  /\ thread[r].pc = "device" /\ reader'[r] = Fresh /\ reader[r] = Fresh

LEMMA Captures ==
  ASSUME Inv, NEW r \in Readers, Capture(r)
  PROVE  \E page : CapturedPage(r, page)
<1>a. TypeOK /\ ReaderOK(r)
  BY DEF Inv, CacheInv
<1>1. PICK n \in 1..Cap, m \in PageSizes :
        /\ snaps' = Append(snaps, [length |-> n, no |-> 0, at |-> 0])
        /\ thread' = [thread EXCEPT ![r] =
             [pc |-> IF PageAt(Len(snaps) + 1, n, 0, m).to < n THEN "store" ELSE "drop",
              page |-> PageAt(Len(snaps) + 1, n, 0, m)]]
  BY DEF Capture
<1>2. PICK page : page = PageAt(Len(snaps) + 1, n, 0, m)
  OBVIOUS
<1>3. Len(snaps) + 1 \in Snapshots /\ 0 \in 0..Cap
  BY <1>a, CacheAssumption DEF Capture, TypeOK, Snapshots
<1>4. /\ page \in Page /\ page.snap = Len(snaps) + 1 /\ page.from = 0 /\ 0 < page.to /\ page.to <= n
  BY <1>a, <1>2, <1>3, PageOf
<1>5. /\ snaps'[Len(snaps) + 1] = [length |-> n, no |-> 0, at |-> 0]
      /\ Len(snaps) + 1 \in Snaps' /\ Len(snaps) + 1 \notin Snaps
  BY <1>a, <1>1, CaptureKeeps
<1>6. thread'[r] = [pc |-> IF page.to < n THEN "store" ELSE "drop", page |-> page]
  BY <1>a, <1>1, <1>2 DEF TypeOK
<1>7. page.to = n \/ page.to < n
  BY <1>4 DEF Page
<1>8. thread[r].pc = "device" /\ reader'[r] = reader[r] /\ reader[r] = Fresh
  BY <1>a DEF Capture, ReaderOK, WaitsOK
<1>9. /\ snaps'[page.snap].length = n /\ snaps'[page.snap].no = 0
      /\ page.snap \in Snaps' /\ page.snap \notin Snaps
  BY <1>4, <1>5
<1>10. CASE page.to < n
  <2>1. thread'[r] = [pc |-> "store", page |-> page]
    BY <1>6, <1>10
  <2>2. QED
    BY <1>4, <1>8, <1>9, <1>10, <2>1 DEF CapturedPage
<1>11. CASE page.to = n
  <2>1. ~(page.to < n)
    BY <1>11
  <2>2. thread'[r] = [pc |-> "drop", page |-> page]
    BY <1>6, <2>1
  <2>3. QED
    BY <1>4, <1>8, <1>9, <1>11, <2>2 DEF CapturedPage
<1>12. QED
  BY <1>7, <1>10, <1>11

\* The page that a continuation is served from the store.
ServedPage(r, page) ==
  /\ page \in Page /\ page.snap \in Snaps /\ snaps[page.snap].no \in 1..stores
  /\ Key(r) \in DOMAIN cache /\ cache[Key(r)] = page.snap
  /\ page.from = reader[r].next /\ 0 < page.to
  /\ page.at < snaps[page.snap].at + TTL
  /\ reader[r].next > 0 /\ thread[r].pc = "idle"
  /\ UNCHANGED <<snaps, stores, now>> /\ Shrinks(cache')
  /\ \/ /\ page.to < snaps[page.snap].length /\ thread'[r] = NoCall
        /\ reader'[r] = [next |-> page.to, pages |-> Append(reader[r].pages, page)]
     \/ /\ page.to = snaps[page.snap].length /\ thread'[r] = [pc |-> "drop", page |-> page]
        /\ reader'[r] = reader[r]

LEMMA Serves ==
  ASSUME Inv, NEW r \in Readers, ReadNext(r)
  PROVE  \E page : ServedPage(r, page)
<1>a. TypeOK /\ StoreInv
  BY DEF Inv, CacheInv
<1>0. PICK s : s = cache'[Key(r)]
  OBVIOUS
<1>1. PICK m \in PageSizes :
         LET page == PageAt(s, snaps[s].length, reader[r].next, m) IN
         IF page.to < snaps[s].length
           THEN Return(r, [next |-> page.to, pages |-> Append(reader[r].pages, page)])
           ELSE /\ thread' = [thread EXCEPT ![r] = [pc |-> "drop", page |-> page]]
                /\ UNCHANGED reader
  BY <1>0 DEF ReadNext
<1>2. /\ cache' = Without({k \in DOMAIN cache : snaps[cache[k]].at + TTL <= now})
      /\ Key(r) \in DOMAIN cache'
  BY DEF ReadNext, KeptWhenLoading
<1>3. /\ Shrinks(cache')
      /\ DOMAIN cache' = DOMAIN cache \ {k \in DOMAIN cache : snaps[cache[k]].at + TTL <= now}
  BY <1>2, WithoutShrinks
<1>4. /\ Key(r) \in DOMAIN cache /\ cache[Key(r)] = s /\ s \in Snaps /\ s \in Snapshots
      /\ snaps[s].no \in 1..stores /\ ~(snaps[s].at + TTL <= now)
  BY <1>a, <1>0, <1>2, <1>3 DEF Shrinks, StoreInv, TypeOK
<1>5. snaps[s] \in Output /\ reader[r] \in Reader /\ now \in Nat
  BY <1>a, <1>4 DEF TypeOK, Snaps
<1>6. snaps[s].length \in 1..Cap /\ reader[r].next \in 0..Cap /\ snaps[s].at \in Nat
      /\ TTL \in Nat
  BY <1>5, CacheAssumption DEF Output, Reader
<1>7. PICK page : page = PageAt(s, snaps[s].length, reader[r].next, m)
  OBVIOUS
<1>8. /\ page \in Page /\ page.snap = s /\ page.from = reader[r].next /\ page.at = now
      /\ 0 < page.to /\ page.to <= snaps[s].length
  BY <1>a, <1>4, <1>6, <1>7, PageOf
<1>9. now < snaps[s].at + TTL
  BY <1>4, <1>5, <1>6
<1>10. page.to < snaps[s].length \/ page.to = snaps[s].length
  BY <1>6, <1>8 DEF Page
<1>11. CASE page.to < snaps[s].length
  <2>1. Return(r, [next |-> page.to, pages |-> Append(reader[r].pages, page)])
    BY <1>1, <1>7, <1>11
  <2>2. /\ thread'[r] = NoCall
        /\ reader'[r] = [next |-> page.to, pages |-> Append(reader[r].pages, page)]
    BY <1>a, <2>1 DEF Return, TypeOK
  <2>3. QED
    BY <1>3, <1>4, <1>8, <1>9, <1>11, <2>2 DEF ServedPage, ReadNext
<1>12. CASE page.to = snaps[s].length
  <2>1. ~(page.to < snaps[s].length)
    BY <1>6, <1>12
  <2>2. thread' = [thread EXCEPT ![r] = [pc |-> "drop", page |-> page]] /\ UNCHANGED reader
    BY <1>1, <1>7, <2>1
  <2>3. thread'[r] = [pc |-> "drop", page |-> page] /\ reader'[r] = reader[r]
    BY <1>a, <2>2 DEF TypeOK
  <2>4. QED
    BY <1>3, <1>4, <1>8, <1>9, <1>12, <2>3 DEF ServedPage, ReadNext
<1>13. QED
  BY <1>10, <1>11, <1>12

\* A page that follows the others of its reader.
LEMMA AppendPage ==
  ASSUME NEW p \in Seq(Page), NEW page \in Page
  PROVE  /\ Append(p, page) # <<>> /\ Append(p, page) \in Seq(Page)
         /\ Len(Append(p, page)) = Len(p) + 1 /\ Append(p, page)[Len(p) + 1] = page
         /\ \A i \in 1..Len(p) : Append(p, page)[i] = p[i]
         /\ Len(p) \in Nat /\ (p = <<>> <=> Len(p) = 0)
         /\ \A i \in 1..Len(Append(p, page)) : i \in 1..Len(p) \/ i = Len(p) + 1
<1>1. Len(Append(p, page)) = Len(p) + 1 /\ Append(p, page)[Len(p) + 1] = page
      /\ Append(p, page) \in Seq(Page) /\ Len(p) \in Nat
  OBVIOUS
<1>2. p = <<>> <=> Len(p) = 0
  OBVIOUS
<1>3. Append(p, page) # <<>>
  BY <1>1
<1>4. \A i \in 1..Len(p) : Append(p, page)[i] = p[i]
  OBVIOUS
<1>5. \A i \in 1..Len(Append(p, page)) : i \in 1..Len(p) \/ i = Len(p) + 1
  BY <1>1
<1>6. QED
  BY <1>1, <1>2, <1>3, <1>4, <1>5

\* Only a captured page waits to be stored.
LEMMA NowStores ==
  ASSUME Inv, NEW r \in Readers, thread'[r].pc = "store",
         \/ ReadFresh(r) \/ DeviceFails(r) \/ Capture(r) \/ Store(r)
         \/ ReadExpired(r) \/ ReadNext(r) \/ DropLast(r)
  PROVE  Capture(r)
<1>1. thread \in [Readers -> Call]
  BY DEF Inv, TypeOK
<1>2. ASSUME NEW result, Return(r, result) PROVE FALSE
  BY <1>1, <1>2 DEF Return, NoCall
<1>3. ~ReadFresh(r)
  BY <1>1 DEF ReadFresh, Call
<1>4. ~ReadNext(r)
  <2>1. SUFFICES ASSUME ReadNext(r) PROVE FALSE
    OBVIOUS
  <2>2. PICK page : ServedPage(r, page)
    BY <2>1, Serves
  <2>3. thread'[r] = NoCall \/ thread'[r] = [pc |-> "drop", page |-> page]
    BY <2>2 DEF ServedPage
  <2>4. QED
    BY <2>3 DEF NoCall
<1>5. QED
  BY <1>2, <1>3, <1>4 DEF DeviceFails, Store, ReadExpired, DropLast

LEMMA WaitsStep ==
  ASSUME Inv, [Next]_vars
  PROVE  WaitsAlone'
<1>a. TypeOK /\ WaitsAlone /\ \A r \in Readers : WaitsOK(r)
  BY DEF Inv, CacheInv, ReaderOK
<1>1. SUFFICES ASSUME NEW q \in Readers, NEW r \in Readers,
                      thread'[q].pc = "store", thread'[r].pc = "store",
                      thread'[q].page.snap = thread'[r].page.snap, q # r
               PROVE  FALSE
  BY DEF WaitsAlone
<1>2. ASSUME NEW x \in Readers,
             \/ ReadFresh(x) \/ DeviceFails(x) \/ Capture(x) \/ Store(x)
             \/ ReadExpired(x) \/ ReadNext(x) \/ DropLast(x),
             \A y \in Readers \ {x} : thread'[y] = thread[y] /\ reader'[y] = reader[y]
      PROVE  FALSE
  <2>1. \A y \in Readers \ {x} : thread'[y].pc = "store" => thread'[y].page.snap \in Snaps
    BY <1>a, <1>2 DEF WaitsOK
  <2>2. thread'[x].pc = "store" => thread'[x].page.snap \notin Snaps
    <3>1. SUFFICES ASSUME thread'[x].pc = "store" PROVE thread'[x].page.snap \notin Snaps
      OBVIOUS
    <3>2. PICK page : CapturedPage(x, page)
      BY <1>2, <3>1, NowStores, Captures
    <3>3. QED
      BY <3>1, <3>2 DEF CapturedPage
  <2>3. CASE q = x
    BY <1>1, <2>1, <2>2, <2>3
  <2>4. CASE r = x
    BY <1>1, <2>1, <2>2, <2>4
  <2>5. CASE q # x /\ r # x
    BY <1>a, <1>1, <1>2, <2>5 DEF WaitsAlone
  <2>6. QED
    BY <2>3, <2>4, <2>5
<1>3. CASE UNCHANGED <<thread, reader, snaps>>
  BY <1>a, <1>1, <1>3 DEF WaitsAlone
<1>4. CASE SessionEnds
  BY <1>1, <1>4 DEF SessionEnds, NoCall
<1>5. QED
  BY <1>a, <1>2, <1>3, <1>4, OneMoves

LEMMA FreshOK ==
  ASSUME NEW r \in Readers, reader'[r] = Fresh
  PROVE  PagesOK(r)' /\ Pages(r)' = <<>>
<1>1. Pages(r)' = <<>> /\ reader'[r].next = 0
  BY DEF Pages, Fresh
<1>2. 1..Len(<<>>) = {}
  OBVIOUS
<1>3. QED
  BY <1>1, <1>2 DEF PagesOK

LEMMA IdleOK ==
  ASSUME NEW r \in Readers, thread'[r] = NoCall
  PROVE  WaitsOK(r)' /\ LastOK(r)'
BY DEF WaitsOK, LastOK, NoCall

\* The pages a reader had are as good as they were.
LEMMA PagesKeep ==
  ASSUME Inv, [Next]_vars, NEW r \in Readers, NEW i \in 1..Len(Pages(r))
  PROVE  /\ Pages(r)[i].snap \in Snaps'
         /\ i > 1 => /\ snaps'[Pages(r)[i].snap].no > 0
                     /\ Pages(r)[i].at < snaps'[Pages(r)[i].snap].at + TTL
<1>1. /\ Pages(r)[i].snap \in Snaps
      /\ i > 1 => /\ snaps[Pages(r)[i].snap].no > 0
                  /\ Pages(r)[i].at < snaps[Pages(r)[i].snap].at + TTL
  BY DEF Inv, CacheInv, ReaderOK, PagesOK
<1>2. QED
  BY <1>1, SnapKeeps

\* A page is added to them.
LEMMA PagesGrow ==
  ASSUME Inv, [Next]_vars, NEW r \in Readers, NEW page \in Page,
         Pages(r)' = Append(Pages(r), page), page.snap \in Snaps',
         Pages(r) # <<>> => /\ snaps'[page.snap].no > 0
                            /\ page.at < snaps'[page.snap].at + TTL
  PROVE  PagesOK(r)'
<1>1. Pages(r) \in Seq(Page)
  BY DEF Inv, TypeOK, Reader, Pages
<1>2. PICK p : p = Pages(r)
  OBVIOUS
<1>3. /\ Append(p, page) # <<>> /\ Append(p, page)[Len(p) + 1] = page
      /\ \A i \in 1..Len(p) : Append(p, page)[i] = p[i]
      /\ Len(p) \in Nat /\ (p = <<>> <=> Len(p) = 0)
      /\ \A i \in 1..Len(Append(p, page)) : i \in 1..Len(p) \/ i = Len(p) + 1
  BY <1>1, <1>2, AppendPage
<1>4. ASSUME NEW i \in 1..Len(Append(p, page))
      PROVE  /\ Append(p, page)[i].snap \in Snaps'
             /\ i > 1 => /\ snaps'[Append(p, page)[i].snap].no > 0
                         /\ Append(p, page)[i].at < snaps'[Append(p, page)[i].snap].at + TTL
  <2>1. CASE i \in 1..Len(p)
    BY <1>2, <1>3, <2>1, PagesKeep
  <2>2. CASE i = Len(p) + 1
    <3>1. i > 1 => p # <<>>
      BY <1>3, <2>2
    <3>2. QED
      BY <1>2, <1>3, <2>2, <3>1
  <2>3. QED
    BY <1>3, <1>4, <2>1, <2>2
<1>5. Pages(r)' = Append(p, page) /\ Pages(r)' # <<>>
  BY <1>2, <1>3
<1>6. QED
  BY <1>4, <1>5 DEF PagesOK

LEMMA ReaderStep ==
  ASSUME Inv, [Next]_vars, NEW q \in Readers
  PROVE  ReaderOK(q)'
<1>a. TypeOK /\ ReaderOK(q) /\ StoreInv
  BY DEF Inv, CacheInv
<1>b. /\ thread \in [Readers -> Call] /\ reader \in [Readers -> Reader]
      /\ reader[q].pages \in Seq(Page)
  BY <1>a DEF TypeOK, Reader
<1>1. CASE thread'[q] = thread[q] /\ reader'[q] = reader[q]
  <2>1. ~Store(q)
    BY <1>b, <1>1 DEF Store, Return, NoCall
  <2>2. QED
    BY <1>1, <2>1, OthersKeep
<1>2. CASE thread'[q] = NoCall /\ reader'[q] = Fresh
  BY <1>2, FreshOK, IdleOK DEF ReaderOK
<1>3. CASE ReadFresh(q)
  <2>1. reader'[q] = Fresh /\ thread'[q].pc = "device"
    BY <1>b, <1>3 DEF ReadFresh, Call
  <2>2. WaitsOK(q)' /\ LastOK(q)'
    BY <2>1 DEF WaitsOK, LastOK
  <2>3. QED
    BY <2>1, <2>2, FreshOK DEF ReaderOK
<1>4. CASE Capture(q)
  <2>1. PICK page : CapturedPage(q, page)
    BY <1>4, Captures
  <2>2. PagesOK(q)' /\ Pages(q)' = <<>> /\ reader'[q] = Fresh
    BY <2>1, FreshOK DEF CapturedPage
  <2>3. /\ page \in Page /\ page.snap \in Snaps' /\ snaps'[page.snap].no = 0
        /\ page.from = 0 /\ 0 < page.to
    BY <2>1 DEF CapturedPage
  <2>4. CASE page.to < snaps'[page.snap].length /\ thread'[q] = [pc |-> "store", page |-> page]
    <3>1. thread'[q].pc = "store" /\ thread'[q].page = page
      BY <2>4
    <3>2. WaitsOK(q)' /\ LastOK(q)'
      BY <2>2, <2>3, <2>4, <3>1 DEF WaitsOK, LastOK
    <3>3. QED
      BY <2>2, <3>2 DEF ReaderOK
  <2>5. CASE page.to = snaps'[page.snap].length /\ thread'[q] = [pc |-> "drop", page |-> page]
    <3>1. thread'[q].pc = "drop" /\ thread'[q].page = page
      BY <2>5
    <3>2. WaitsOK(q)' /\ LastOK(q)'
      BY <2>2, <2>3, <2>5, <3>1 DEF WaitsOK, LastOK
    <3>3. QED
      BY <2>2, <3>2 DEF ReaderOK
  <2>6. QED
    BY <2>1, <2>4, <2>5 DEF CapturedPage
<1>5. CASE Store(q)
  <2>0. PICK page : page = thread[q].page
    OBVIOUS
  <2>1. page \in Page /\ page.snap \in Snaps
    BY <1>a, <1>5, <2>0 DEF Store, ReaderOK, WaitsOK
  <2>2. thread'[q] = NoCall /\ reader'[q] = [next |-> page.to, pages |-> <<page>>]
    BY <1>b, <1>5, <2>0 DEF Store, Return
  <2>3. Pages(q)' = <<page>>
    BY <2>2 DEF Pages
  <2>4. PagesOK(q)'
    <3>1. page.snap \in Snaps'
      BY <2>1, SnapKeeps
    <3>2. Pages(q)' # <<>> /\ \A i \in 1..Len(Pages(q)') : i = 1 /\ Pages(q)'[i] = page
      BY <2>3
    <3>3. ~(1 > 1)
      OBVIOUS
    <3>4. QED
      BY <3>1, <3>2, <3>3 DEF PagesOK
  <2>5. QED
    BY <2>2, <2>4, IdleOK DEF ReaderOK
<1>6. CASE ReadNext(q)
  <2>1. PICK page : ServedPage(q, page)
    BY <1>6, Serves
  <2>2. /\ page \in Page /\ page.snap \in Snaps /\ snaps[page.snap].no \in 1..stores
        /\ page.at < snaps[page.snap].at + TTL /\ snaps' = snaps /\ Snaps' = Snaps
    BY <2>1 DEF ServedPage, Snaps
  <2>3. snaps'[page.snap].no > 0 /\ page.at < snaps'[page.snap].at + TTL
    BY <2>2, <1>a DEF TypeOK
  <2>4. CASE /\ thread'[q] = NoCall
             /\ reader'[q] = [next |-> page.to, pages |-> Append(reader[q].pages, page)]
    <3>1. Pages(q)' = Append(Pages(q), page)
      BY <2>4 DEF Pages
    <3>2. PagesOK(q)'
      BY <2>2, <2>3, <3>1, PagesGrow
    <3>3. QED
      BY <2>4, <3>2, IdleOK DEF ReaderOK
  <2>5. CASE /\ page.to = snaps[page.snap].length /\ thread'[q] = [pc |-> "drop", page |-> page]
             /\ reader'[q] = reader[q]
    <3>1. thread'[q].pc = "drop" /\ thread'[q].page = page
      BY <2>5
    <3>2. WaitsOK(q)'
      BY <3>1 DEF WaitsOK
    <3>3. reader[q].next > 0
      BY <2>1 DEF ServedPage
    <3>4. Pages(q) # <<>>
      BY <1>a, <3>3 DEF ReaderOK, PagesOK
    <3>5. Pages(q)' = Pages(q)
      BY <2>5 DEF Pages
    <3>6. LastOK(q)'
      BY <2>2, <2>3, <2>5, <3>1, <3>4, <3>5 DEF LastOK
    <3>7. PagesOK(q)'
      BY <1>a, <2>2, <2>5, <3>5 DEF ReaderOK, PagesOK
    <3>8. QED
      BY <3>2, <3>6, <3>7 DEF ReaderOK
  <2>6. QED
    BY <2>1, <2>4, <2>5 DEF ServedPage
<1>7. CASE DropLast(q)
  <2>0. PICK page : page = thread[q].page
    OBVIOUS
  <2>1. /\ page \in Page /\ page.snap \in Snaps
        /\ Pages(q) # <<>> => snaps[page.snap].no > 0 /\ page.at < snaps[page.snap].at + TTL
    BY <1>a, <1>7, <2>0 DEF DropLast, ReaderOK, LastOK
  <2>2. /\ thread'[q] = NoCall
        /\ reader'[q] = [next |-> 0, pages |-> Append(reader[q].pages, page)]
    BY <1>b, <1>7, <2>0 DEF DropLast, Return
  <2>3. Pages(q)' = Append(Pages(q), page)
    BY <2>2 DEF Pages
  <2>4. snaps' = snaps /\ Snaps' = Snaps
    BY <1>7 DEF DropLast, Snaps
  <2>5. PagesOK(q)'
    BY <2>1, <2>3, <2>4, PagesGrow
  <2>6. QED
    BY <2>2, <2>5, IdleOK DEF ReaderOK
<1>8. CASE SessionEnds
  <2>1. thread'[q] = NoCall /\ reader' = reader /\ snaps' = snaps
    BY <1>8 DEF SessionEnds
  <2>2. PagesOK(q)'
    BY <1>a, <2>1 DEF ReaderOK, PagesOK, Pages, Snaps
  <2>3. QED
    BY <2>1, <2>2, IdleOK DEF ReaderOK
<1>9. DeviceFails(q) \/ ReadExpired(q) => thread'[q] = NoCall /\ reader'[q] = Fresh
  BY <1>b DEF DeviceFails, ReadExpired, Return
<1>10. QED
  BY <1>a, <1>1, <1>2, <1>3, <1>4, <1>5, <1>6, <1>7, <1>8, <1>9, OneMoves

LEMMA InitInv == Init => Inv
<1> SUFFICES ASSUME Init PROVE Inv
  OBVIOUS
<1>1. TypeOK
  <2>1. /\ DOMAIN cache = {} /\ Cardinality(DOMAIN cache) = 0
    BY FS_EmptySet DEF Init
  <2>2. NoCall \in Call
    BY DEF NoCall, Call
  <2>3. snaps \in Seq(Output) /\ Len(snaps) = 0
    BY DEF Init
  <2>4. QED
    BY <2>1, <2>2, <2>3, FreshType, CacheAssumption DEF Init, TypeOK
<1>2. StoreInv
  BY FS_EmptySet DEF Init, StoreInv
<1>3. WaitsAlone
  BY DEF Init, WaitsAlone, NoCall
<1>4. ASSUME NEW r \in Readers PROVE ReaderOK(r)
  <2>1. thread[r] = NoCall /\ reader[r] = Fresh
    BY DEF Init
  <2>2. Pages(r) = <<>> /\ reader[r].next = 0 /\ 1..Len(<<>>) = {}
    BY <2>1 DEF Pages, Fresh
  <2>3. QED
    BY <2>1, <2>2 DEF ReaderOK, WaitsOK, LastOK, PagesOK, NoCall
<1>5. QED
  BY <1>1, <1>2, <1>3, <1>4 DEF Inv, CacheInv

LEMMA NextInv ==
  ASSUME Inv, [Next]_vars
  PROVE  Inv'
BY TypeStep, StoreStep, WaitsStep, ReaderStep DEF Inv, CacheInv

\* The cache keeps what it promises: types and limit, what is stored, what each
\* reader waits for and holds.  (ssh_read)
THEOREM CacheInvariant == Spec => []Inv
BY InitInv, NextInv, PTL DEF Spec

\* Every value is of its type, and the store never holds more outputs than its
\* maximum.  (_store_cached_ssh_output)
THEOREM TypeCorrect == Spec => []TypeOK
<1>1. Inv => TypeOK
  BY DEF Inv
<1>2. QED
  BY <1>1, CacheInvariant, PTL

\* No page after the first is served from an output that was stored a whole TTL
\* ago or more, whoever else reads it.  (_load_cached_ssh_output)
THEOREM PagesAreRecent == Spec => []NoneOutlivesTTL
<1>1. Inv => NoneOutlivesTTL
  <2>1. SUFFICES ASSUME Inv, NEW r \in Readers, NEW i \in 2..Len(reader[r].pages)
                 PROVE  reader[r].pages[i].at < snaps[reader[r].pages[i].snap].at + TTL
    BY DEF NoneOutlivesTTL
  <2>2. Len(Pages(r)) \in Nat /\ PagesOK(r)
    BY <2>1 DEF Inv, TypeOK, CacheInv, ReaderOK, Reader, Pages
  <2>3. i \in 1..Len(Pages(r)) /\ i > 1
    BY <2>2 DEF Pages
  <2>4. QED
    BY <2>2, <2>3 DEF PagesOK, Pages
<1>2. QED
  BY <1>1, CacheInvariant, PTL

-----------------------------------------------------------------------------
(* Readers of a query nobody else runs.                                    *)

\* What a reader of its own query can do, and what the others do to it.
LEMMA ReaderMoves ==
  ASSUME Inv, [Next]_vars, NEW r \in Readers
  PROVE  \/ /\ ~Store(r) /\ ~DropLast(r) /\ ~SessionEnds
            /\ thread'[r] = thread[r] /\ reader'[r] = reader[r]
         \/ reader'[r] = Fresh
         \/ Store(r) \/ ReadNext(r) \/ DropLast(r) \/ SessionEnds
<1>a. TypeOK /\ WaitsOK(r)
  BY DEF Inv, CacheInv, ReaderOK
<1>b. thread \in [Readers -> Call] /\ reader \in [Readers -> Reader]
  BY <1>a DEF TypeOK
<1>1. ReadFresh(r) \/ DeviceFails(r) \/ Capture(r) \/ ReadExpired(r) => reader'[r] = Fresh
  BY <1>a, <1>b DEF ReadFresh, DeviceFails, Capture, ReadExpired, Return, WaitsOK
<1>2. QED
  BY <1>a, <1>1, OneMoves

\* The entry of a key of one's own: nobody else puts an output there.
LEMMA OwnEntry ==
  ASSUME OwnQueries, Inv, [Next]_vars, NEW r \in Readers, ~Store(r), Key(r) \in DOMAIN cache'
  PROVE  Key(r) \in DOMAIN cache /\ cache'[Key(r)] = cache[Key(r)]
<1>1. CASE Shrinks(cache')
  BY <1>1 DEF Shrinks
<1>2. ASSUME NEW x \in Readers, Store(x)
      PROVE  Key(r) \in DOMAIN cache /\ cache'[Key(r)] = cache[Key(r)]
  <2>1. Key(x) # Key(r)
    BY <1>2 DEF OwnQueries, Key
  <2>2. PICK kept \in KeptWhenStoring :
          cache' = [k \in DOMAIN kept \cup {Key(x)} |->
                      IF k = Key(x) THEN thread[x].page.snap ELSE kept[k]]
    BY <1>2 DEF Store
  <2>3. Shrinks(kept)
    BY RoomMade
  <2>4. QED
    BY <2>1, <2>2, <2>3 DEF Shrinks
<1>3. QED
  BY <1>1, <1>2, Frames

\* The page a reader got last.
LEMMA LastIsPage ==
  ASSUME Inv, NEW r \in Readers, Pages(r) # <<>>
  PROVE  /\ Len(Pages(r)) \in 1..Len(Pages(r)) /\ LastPage(r) = Pages(r)[Len(Pages(r))]
         /\ LastPage(r) \in Page /\ LastPage(r).snap \in Snaps
<1>1. Pages(r) \in Seq(Page) /\ PagesOK(r)
  BY DEF Inv, CacheInv, ReaderOK, TypeOK, Reader, Pages
<1>2. Len(Pages(r)) \in 1..Len(Pages(r))
  BY <1>1
<1>3. LastPage(r) = Pages(r)[Len(Pages(r))]
  BY DEF LastPage, Pages
<1>4. QED
  BY <1>1, <1>2, <1>3 DEF PagesOK

LEMMA KeepsReading ==
  ASSUME Inv, [Next]_vars, NEW r \in Readers, ReadsOne(r), reader'[r] = reader[r]
  PROVE  ReadsOne(r)' /\ LastPage(r)' = LastPage(r) /\ Pages(r)' = Pages(r)
<1>1. LastPage(r)' = LastPage(r) /\ Pages(r)' = Pages(r)
  BY DEF LastPage, Pages
<1>2. Pages(r) # <<>> => snaps'[LastPage(r).snap].length = snaps[LastPage(r).snap].length
  BY LastIsPage, SnapKeeps
<1>3. QED
  BY <1>1, <1>2 DEF ReadsOne

LEMMA ReadsMore ==
  ASSUME Inv, [Next]_vars, NEW r \in Readers, ReadsOne(r), NEW page \in Page,
         reader'[r].pages = Append(Pages(r), page),
         reader'[r].next = IF page.to < snaps'[page.snap].length THEN page.to ELSE 0,
         Pages(r) = <<>> => page.from = 0,
         Pages(r) # <<>> => page.snap = LastPage(r).snap /\ page.from = LastPage(r).to
  PROVE  ReadsOne(r)' /\ LastPage(r)' = page /\ Pages(r)' # <<>>
<1>1. PICK p : p = Pages(r)
  OBVIOUS
<1>2. p \in Seq(Page)
  BY <1>1 DEF Inv, TypeOK, Reader, Pages
<1>3. /\ Append(p, page) # <<>> /\ Append(p, page)[Len(p) + 1] = page
      /\ Len(Append(p, page)) = Len(p) + 1
      /\ \A i \in 1..Len(p) : Append(p, page)[i] = p[i]
      /\ Len(p) \in Nat /\ (p = <<>> <=> Len(p) = 0)
      /\ \A i \in 1..Len(Append(p, page)) : i \in 1..Len(p) \/ i = Len(p) + 1
  BY <1>2, AppendPage
<1>4. PICK q : q = Append(p, page)
  OBVIOUS
<1>5. Pages(r)' = q /\ LastPage(r)' = page /\ q # <<>>
  BY <1>1, <1>3, <1>4 DEF Pages, LastPage
<1>6. q[1].from = 0 /\ (p # <<>> => q[1] = p[1])
  <2>1. CASE p = <<>>
    BY <1>1, <1>3, <1>4, <2>1
  <2>2. CASE p # <<>>
    <3>1. 1 \in 1..Len(p)
      BY <1>3, <2>2
    <3>2. QED
      BY <1>1, <1>3, <1>4, <2>2, <3>1 DEF ReadsOne
  <2>3. QED
    BY <2>1, <2>2
<1>7. ASSUME NEW i \in 2..Len(q)
      PROVE  q[i].snap = q[1].snap /\ q[i].from = q[i - 1].to
  <2>0. i \in 1..Len(q) /\ i - 1 \in 1..Len(p) /\ p # <<>> /\ q[i - 1] = p[i - 1]
    BY <1>3, <1>4
  <2>1. CASE i \in 1..Len(p)
    <3>1. i \in 2..Len(p) /\ q[i] = p[i]
      BY <1>3, <1>4, <2>1
    <3>2. QED
      BY <1>1, <1>6, <2>0, <3>1 DEF ReadsOne
  <2>2. CASE i = Len(p) + 1
    <3>1. q[i] = page /\ q[i - 1] = p[Len(p)] /\ p[Len(p)] = LastPage(r)
      BY <1>1, <1>3, <1>4, <2>0, <2>2 DEF Pages, LastPage
    <3>2. page.snap = p[Len(p)].snap /\ page.from = p[Len(p)].to
      BY <1>1, <2>0, <3>1
    <3>3. p[Len(p)].snap = p[1].snap
      <4>0. PICK n : n = Len(p)
        OBVIOUS
      <4>a. n \in Nat /\ n # 0
        BY <1>3, <2>0, <4>0
      <4>b. n = 1 \/ n \in 2..n
        BY <4>a
      <4>1. Len(p) = 1 \/ Len(p) \in 2..Len(p)
        BY <4>0, <4>b
      <4>2. QED
        BY <1>1, <2>0, <4>1 DEF ReadsOne
    <3>4. QED
      BY <1>6, <2>0, <3>1, <3>2, <3>3
  <2>3. QED
    BY <1>3, <1>4, <2>0, <2>1, <2>2
<1>8. QED
  BY <1>5, <1>6, <1>7 DEF ReadsOne

\* Each step of the reader itself: what it has read, and what its key holds.
LEMMA StoreOwn ==
  ASSUME Inv, [Next]_vars, NEW r \in Readers, Store(r)
  PROVE  OwnOK(r)' /\ ReadsOne(r)' /\ Retained(r)'
<1>a. TypeOK /\ WaitsOK(r)
  BY DEF Inv, CacheInv, ReaderOK
<1>0. PICK page : page = thread[r].page
  OBVIOUS
<1>1. /\ page \in Page /\ page.snap \in Snaps /\ page.from = 0
      /\ 0 < page.to /\ page.to < snaps[page.snap].length
  BY <1>a, <1>0 DEF Store, WaitsOK
<1>2. thread'[r] = NoCall /\ reader'[r] = [next |-> page.to, pages |-> <<page>>]
  BY <1>a, <1>0 DEF Store, Return, TypeOK
<1>3. /\ Pages(r)' = <<page>> /\ LastPage(r)' = page /\ reader'[r].next = page.to
      /\ thread'[r].pc = "idle"
  BY <1>2 DEF Pages, LastPage, NoCall
<1>4. PICK kept \in KeptWhenStoring :
        cache' = [k \in DOMAIN kept \cup {Key(r)} |-> IF k = Key(r) THEN page.snap ELSE kept[k]]
  BY <1>0 DEF Store
<1>5. Key(r) \in DOMAIN cache' /\ cache'[Key(r)] = page.snap /\ Key(r)' = Key(r)
  BY <1>4 DEF Key
<1>6. snaps'[page.snap].no = stores + 1 /\ snaps'[page.snap].length = snaps[page.snap].length
  BY <1>0, StoreNumbers
<1>7. stores + 1 \in 1..stores'
  BY <1>a DEF Store, TypeOK
<1>8. OwnOK(r)'
  <2>1. page.to # 0
    BY <1>1 DEF Page
  <2>2. QED
    BY <1>3, <1>5, <1>6, <1>7, <2>1 DEF OwnOK
<1>9. ReadsOne(r)'
  <2>1. /\ <<page>>[1].from = 0 /\ page.to < snaps'[page.snap].length
    BY <1>1, <1>6
  <2>2. 2..Len(<<page>>) = {}
    OBVIOUS
  <2>3. QED
    BY <1>3, <2>1, <2>2 DEF ReadsOne
<1>10. Retained(r)'
  BY <1>3, <1>5 DEF Retained
<1>11. QED
  BY <1>8, <1>9, <1>10

LEMMA ReadNextOwn ==
  ASSUME Inv, [Next]_vars, NEW r \in Readers, OwnOK(r), ReadsOne(r), ReadNext(r)
  PROVE  OwnOK(r)' /\ ReadsOne(r)' /\ Retained(r)'
<1>a. TypeOK /\ PagesOK(r) /\ Key(r)' = Key(r)
  BY DEF Inv, CacheInv, ReaderOK, Key
<1>1. PICK page : ServedPage(r, page)
  BY Serves
<1>2. /\ page \in Page /\ page.snap \in Snaps /\ snaps[page.snap].no \in 1..stores
      /\ cache[Key(r)] = page.snap /\ Key(r) \in DOMAIN cache /\ page.from = reader[r].next
      /\ 0 < page.to /\ reader[r].next > 0 /\ snaps' = snaps /\ stores' = stores
  BY <1>1 DEF ServedPage
<1>3. Key(r) \in DOMAIN cache' /\ cache'[Key(r)] = page.snap
  <2>1. Shrinks(cache') /\ Key(r) \in DOMAIN cache'
    BY <1>1 DEF ServedPage, ReadNext
  <2>2. QED
    BY <1>2, <2>1 DEF Shrinks
<1>4. Pages(r) # <<>> /\ page.snap = LastPage(r).snap
  BY <1>a, <1>2 DEF PagesOK, OwnOK
<1>5. page.from = LastPage(r).to
  <2>1. reader[r].next # 0
    BY <1>2, <1>a DEF TypeOK
  <2>2. QED
    BY <1>2, <1>4, <2>1 DEF ReadsOne
<1>6. CASE /\ page.to < snaps[page.snap].length /\ thread'[r] = NoCall
           /\ reader'[r] = [next |-> page.to, pages |-> Append(reader[r].pages, page)]
  <2>1. /\ reader'[r].pages = Append(Pages(r), page) /\ reader'[r].next = page.to
        /\ page.to < snaps'[page.snap].length
    BY <1>2, <1>6 DEF Pages
  <2>2. ReadsOne(r)' /\ LastPage(r)' = page /\ Pages(r)' # <<>>
    BY <1>2, <1>4, <1>5, <2>1, ReadsMore
  <2>3. page.to # 0 /\ thread'[r].pc = "idle"
    BY <1>2, <1>6 DEF Page, NoCall
  <2>4. OwnOK(r)'
    BY <1>a, <1>2, <1>3, <2>1, <2>2, <2>3 DEF OwnOK
  <2>5. Retained(r)'
    BY <1>a, <1>3, <2>2 DEF Retained
  <2>6. QED
    BY <2>2, <2>4, <2>5
<1>7. CASE thread'[r] = [pc |-> "drop", page |-> page] /\ reader'[r] = reader[r]
  <2>1. ReadsOne(r)' /\ LastPage(r)' = LastPage(r) /\ Pages(r)' = Pages(r)
    BY <1>7, KeepsReading
  <2>2. thread'[r].pc = "drop" /\ thread'[r].page = page /\ reader'[r].next = reader[r].next
    BY <1>7
  <2>3. reader[r].next # 0
    BY <1>2, <1>a DEF TypeOK
  <2>4. OwnOK(r)'
    BY <1>a, <1>2, <1>3, <1>4, <1>5, <2>1, <2>2, <2>3 DEF OwnOK
  <2>5. Retained(r)'
    BY <2>2 DEF Retained
  <2>6. QED
    BY <2>1, <2>4, <2>5
<1>8. QED
  BY <1>1, <1>6, <1>7 DEF ServedPage

LEMMA DropLastOwn ==
  ASSUME Inv, [Next]_vars, NEW r \in Readers, OwnOK(r), ReadsOne(r), DropLast(r)
  PROVE  OwnOK(r)' /\ ReadsOne(r)' /\ Retained(r)'
<1>a. TypeOK /\ LastOK(r) /\ Key(r)' = Key(r)
  BY DEF Inv, CacheInv, ReaderOK, Key
<1>0. PICK page : page = thread[r].page
  OBVIOUS
<1>1. /\ page \in Page /\ page.to = snaps[page.snap].length
      /\ Pages(r) = <<>> => page.from = 0
      /\ Pages(r) # <<>> => page.snap = LastPage(r).snap /\ page.from = LastPage(r).to
  BY <1>a, <1>0 DEF DropLast, LastOK, OwnOK
<1>2. /\ thread'[r] = NoCall /\ snaps' = snaps
      /\ reader'[r] = [next |-> 0, pages |-> Append(reader[r].pages, page)]
  BY <1>a, <1>0 DEF DropLast, Return, TypeOK
<1>3. reader'[r].pages = Append(Pages(r), page) /\ reader'[r].next = 0
  BY <1>2 DEF Pages
<1>4. ~(page.to < snaps'[page.snap].length)
  <2>1. \A n \in 0..Cap : ~(n < n)
    BY CacheAssumption
  <2>2. QED
    BY <1>1, <1>2, <2>1 DEF Page
<1>5. ReadsOne(r)' /\ LastPage(r)' = page /\ Pages(r)' # <<>>
  BY <1>1, <1>3, <1>4, ReadsMore
<1>6. Key(r) \notin DOMAIN cache'
  <2>1. cache' = Without({Key(r)})
    BY DEF DropLast, KeptAfterLast
  <2>2. DOMAIN Without({Key(r)}) = DOMAIN cache \ {Key(r)}
    BY WithoutShrinks
  <2>3. QED
    BY <2>1, <2>2
<1>7. ~(0 > 0)
  OBVIOUS
<1>8. OwnOK(r)' /\ Retained(r)'
  BY <1>a, <1>2, <1>3, <1>6, <1>7 DEF OwnOK, Retained, NoCall
<1>9. QED
  BY <1>5, <1>8

LEMMA FreshOwn ==
  ASSUME NEW r \in Readers, reader'[r] = Fresh
  PROVE  OwnOK(r)' /\ ReadsOne(r)' /\ Retained(r)'
<1>1. Pages(r)' = <<>> /\ reader'[r].next = 0 /\ ~(0 > 0)
  BY DEF Pages, Fresh
<1>2. QED
  BY <1>1 DEF OwnOK, ReadsOne, Retained

\* Room is made at the cost of an output only when as many were stored since as
\* the store holds: the entries have different numbers, none of them lower.
LEMMA Crowds ==
  ASSUME Inv, NEW kept \in KeptWhenStoring, NEW k \in DOMAIN cache \ DOMAIN kept
  PROVE  snaps[cache[k]].no + MaxEntries <= stores + 1
<1>0. PICK a : a = snaps[cache[k]].no
  OBVIOUS
<1>1. /\ IsFiniteSet(DOMAIN cache) /\ Cardinality(DOMAIN cache) = MaxEntries
      /\ a \in 1..stores /\ stores \in Nat /\ MaxEntries \in Nat
      /\ \A j \in DOMAIN cache : snaps[cache[j]].no \in 1..stores /\ a <= snaps[cache[j]].no
      /\ \A i, j \in DOMAIN cache : snaps[cache[i]].no = snaps[cache[j]].no => i = j
  BY <1>0, RoomMade, CacheAssumption DEF Inv, TypeOK, CacheInv, StoreInv
<1>2. IsFiniteSet(a..stores) /\ Cardinality(a..stores) = stores - a + 1
  <2>1. \A m, n \in Int : /\ IsFiniteSet(m..n)
                          /\ Cardinality(m..n) = IF m > n THEN 0 ELSE n - m + 1
    BY FS_Interval
  <2>2. a \in Int /\ stores \in Int /\ ~(a > stores)
    BY <1>1
  <2>3. QED
    BY <2>1, <2>2
<1>3. PICK f : f = [j \in DOMAIN cache |-> snaps[cache[j]].no]
  OBVIOUS
<1>4. f \in [DOMAIN cache -> a..stores]
  BY <1>1, <1>3
<1>5. \A i, j \in DOMAIN cache : f[i] = f[j] => i = j
  BY <1>1, <1>3
<1>6. ~(stores - a + 1 < MaxEntries)
  <2>1. SUFFICES ASSUME stores - a + 1 < MaxEntries PROVE FALSE
    OBVIOUS
  <2>2. PICK S, T : S = DOMAIN cache /\ T = a..stores
    OBVIOUS
  <2>3. IsFiniteSet(S) /\ IsFiniteSet(T) /\ Cardinality(T) < Cardinality(S) /\ f \in [S -> T]
    BY <1>1, <1>2, <1>4, <2>1, <2>2
  <2>4. \E x, y \in S : x # y /\ f[x] = f[y]
    BY <2>3, FS_PigeonHole
  <2>5. QED
    BY <1>5, <2>2, <2>4
<1>7. a + MaxEntries <= stores + 1
  BY <1>1, <1>6
<1>8. QED
  BY <1>0, <1>7

\* The steps of the others leave a reader what it had.
LEMMA OthersOwn ==
  ASSUME OwnQueries, Inv, [Next]_vars, NEW r \in Readers,
         OwnOK(r), ReadsOne(r), Retained(r),
         ~Store(r), ~DropLast(r), ~SessionEnds,
         thread'[r] = thread[r], reader'[r] = reader[r]
  PROVE  OwnOK(r)' /\ ReadsOne(r)' /\ Retained(r)'
<1>a. TypeOK /\ PagesOK(r) /\ Key(r)' = Key(r)
  BY DEF Inv, CacheInv, ReaderOK, Key
<1>1. ReadsOne(r)' /\ LastPage(r)' = LastPage(r) /\ Pages(r)' = Pages(r)
  BY KeepsReading
<1>0. PICK l : l = LastPage(r)
  OBVIOUS
<1>2. reader[r].next > 0 => /\ Pages(r) # <<>> /\ l.snap \in Snaps
                            /\ snaps[l.snap].no \in 1..stores /\ snaps'[l.snap] = snaps[l.snap]
  <2>1. SUFFICES ASSUME reader[r].next > 0
                 PROVE  /\ Pages(r) # <<>> /\ l.snap \in Snaps
                        /\ snaps[l.snap].no \in 1..stores /\ snaps'[l.snap] = snaps[l.snap]
    OBVIOUS
  <2>2. Pages(r) # <<>> /\ snaps[l.snap].no \in 1..stores
    BY <1>0, <1>a, <2>1 DEF PagesOK, OwnOK
  <2>3. l.snap \in Snaps
    BY <1>0, <2>2, LastIsPage
  <2>4. snaps[l.snap].no > 0
    BY <1>a, <2>2 DEF TypeOK
  <2>5. QED
    BY <2>2, <2>3, <2>4, SnapKeeps
<1>b. stores \in Nat /\ stores' \in Nat /\ stores <= stores' /\ now \in Nat /\ MaxEntries \in Nat
  BY <1>a, SnapKeeps, CacheAssumption DEF TypeOK
<1>3. Key(r) \in DOMAIN cache' => Key(r) \in DOMAIN cache /\ cache'[Key(r)] = cache[Key(r)]
  BY OwnEntry
<1>4. OwnOK(r)'
  <2>1. reader[r].next > 0 => snaps'[l.snap].no \in 1..stores'
    <3>1. SUFFICES ASSUME reader[r].next > 0 PROVE snaps'[l.snap].no \in 1..stores'
      OBVIOUS
    <3>2. \A n \in 1..stores : n \in 1..stores'
      BY <1>b
    <3>3. QED
      BY <1>2, <3>1, <3>2
  <2>2. QED
    BY <1>a, <1>0, <1>1, <1>3, <2>1 DEF OwnOK
<1>5. Retained(r)'
  <2>1. SUFFICES ASSUME thread[r].pc = "idle", reader[r].next > 0,
                        now' < snaps[l.snap].at + TTL, snaps[l.snap].no > base',
                        stores' < snaps[l.snap].no + MaxEntries
                 PROVE  Key(r) \in DOMAIN cache' /\ cache'[Key(r)] = l.snap
    BY <1>a, <1>0, <1>1, <1>2 DEF Retained
  <2>2. snaps[l.snap] \in Output /\ l.snap \in Snaps
    BY <1>a, <1>2, <2>1 DEF TypeOK, Snaps
  <2>3. snaps[l.snap].at \in Nat /\ snaps[l.snap].no \in Nat /\ TTL \in Nat
    BY <2>2, CacheAssumption DEF Output
  <2>4. base' = base /\ now' \in Nat /\ now <= now'
    <3>1. now' = now \/ now' = now + 1
      BY DEF Next, vars, ReadFresh, DeviceFails, Capture, Store, ReadExpired, ReadNext,
         DropLast, Tick
    <3>2. base' = base
      BY DEF Next, vars, ReadFresh, DeviceFails, Capture, Store, ReadExpired, ReadNext,
         DropLast, Tick
    <3>3. QED
      BY <1>b, <3>1, <3>2
  <2>5. now < snaps[l.snap].at + TTL /\ stores < snaps[l.snap].no + MaxEntries
    BY <1>b, <2>1, <2>3, <2>4
  <2>6. Key(r) \in DOMAIN cache /\ cache[Key(r)] = l.snap
    BY <1>0, <2>1, <2>4, <2>5 DEF Retained
  <2>7. SUFFICES Key(r) \in DOMAIN cache'
    BY <1>3, <2>6
  <2>8. CASE cache' = cache
    BY <2>6, <2>8
  <2>9. CASE cache' = KeptWhenLoading
    <3>1. ~(snaps[l.snap].at + TTL <= now)
      BY <1>b, <2>3, <2>5
    <3>2. QED
      BY <2>6, <2>9, <3>1, WithoutShrinks DEF KeptWhenLoading
  <2>10. ASSUME NEW x \in Readers, Store(x) PROVE Key(r) \in DOMAIN cache'
    <3>1. PICK kept \in KeptWhenStoring :
            cache' = [k \in DOMAIN kept \cup {Key(x)} |->
                        IF k = Key(x) THEN thread[x].page.snap ELSE kept[k]]
      BY <2>10 DEF Store
    <3>2. stores' = stores + 1
      BY <2>10 DEF Store
    <3>3. SUFFICES ASSUME Key(r) \notin DOMAIN kept PROVE FALSE
      BY <3>1
    <3>4. snaps[l.snap].no + MaxEntries <= stores + 1
      BY <2>6, <3>3, Crowds
    <3>5. QED
      BY <1>b, <2>1, <2>3, <3>2, <3>4
  <2>11. ASSUME NEW x \in Readers, DropLast(x) PROVE Key(r) \in DOMAIN cache'
    <3>1. Key(x) # Key(r)
      BY <2>11 DEF OwnQueries, Key
    <3>2. QED
      BY <2>6, <2>11, <3>1, WithoutShrinks DEF DropLast, KeptAfterLast
  <2>12. QED
    BY <2>8, <2>9, <2>10, <2>11 DEF Next, vars, ReadFresh, DeviceFails, Capture,
       ReadExpired, ReadNext, Tick
<1>6. QED
  BY <1>1, <1>4, <1>5

\* The process ends: its entries are gone, and were stored before the next one.
LEMMA EndOwn ==
  ASSUME Inv, [Next]_vars, NEW r \in Readers, OwnOK(r), ReadsOne(r), SessionEnds
  PROVE  OwnOK(r)' /\ ReadsOne(r)' /\ Retained(r)'
<1>1. /\ reader'[r] = reader[r] /\ thread'[r] = NoCall /\ DOMAIN cache' = {}
      /\ snaps' = snaps /\ stores' = stores /\ base' = stores
  BY DEF SessionEnds
<1>2. ReadsOne(r)' /\ LastPage(r)' = LastPage(r) /\ Pages(r)' = Pages(r)
  BY <1>1, KeepsReading
<1>3. OwnOK(r)'
  BY <1>1, <1>2 DEF OwnOK, NoCall
<1>4. Retained(r)'
  <2>1. reader[r].next > 0 => ~(snaps[LastPage(r).snap].no > stores)
    BY DEF OwnOK, Inv, TypeOK
  <2>2. QED
    BY <1>1, <1>2, <2>1 DEF Retained
<1>5. QED
  BY <1>2, <1>3, <1>4

LEMMA OwnStep ==
  ASSUME OwnQueries, Inv, OwnInv, [Next]_vars
  PROVE  OwnInv'
<1>1. SUFFICES ASSUME NEW r \in Readers PROVE OwnOK(r)' /\ ReadsOne(r)' /\ Retained(r)'
  BY DEF OwnInv
<1>2. OwnOK(r) /\ ReadsOne(r) /\ Retained(r)
  BY DEF OwnInv
<1>3. CASE reader'[r] = Fresh
  BY <1>3, FreshOwn
<1>4. CASE Store(r)
  BY <1>4, StoreOwn
<1>5. CASE ReadNext(r)
  BY <1>2, <1>5, ReadNextOwn
<1>6. CASE DropLast(r)
  BY <1>2, <1>6, DropLastOwn
<1>7. CASE SessionEnds
  BY <1>2, <1>7, EndOwn
<1>8. CASE /\ ~Store(r) /\ ~DropLast(r) /\ ~SessionEnds
           /\ thread'[r] = thread[r] /\ reader'[r] = reader[r]
  BY <1>2, <1>8, OthersOwn
<1>9. QED
  BY <1>3, <1>4, <1>5, <1>6, <1>7, <1>8, ReaderMoves

LEMMA OwnInit == Init => OwnInv
<1>1. SUFFICES ASSUME Init, NEW r \in Readers PROVE OwnOK(r) /\ ReadsOne(r) /\ Retained(r)
  BY DEF OwnInv
<1>2. Pages(r) = <<>> /\ reader[r].next = 0 /\ ~(0 > 0)
  BY <1>1 DEF Init, Pages, Fresh
<1>3. QED
  BY <1>2 DEF OwnOK, ReadsOne, Retained

\* Readers of queries of their own: what their keys hold and what they read is
\* invariant.  (ssh_read)
THEOREM OwnInvariant ==
  ASSUME OwnQueries
  PROVE  Spec => []OwnInv
<1>1. Inv /\ OwnInv /\ [Next]_vars => OwnInv'
  BY OwnStep
<1>2. QED
  BY <1>1, OwnInit, CacheInvariant, PTL DEF Spec

\* A reader whose query nobody else runs collects the pages of one output, one
\* after the other without a gap, and has the whole of it when there is no next
\* offset.  (ssh_read)
THEOREM ReadersReadOneOutput ==
  ASSUME OwnQueries
  PROVE  Spec => []OneSnapshot
<1>1. OwnInv => OneSnapshot
  BY DEF OwnInv, ReadsOne, Pages, OneSnapshot
<1>2. QED
  BY <1>1, OwnInvariant, PTL

\* Such a reader finds its output until the TTL is over, unless the process
\* ended or the store's whole size was stored after it.
\* (_store_cached_ssh_output)
THEOREM OutputsAreRetained ==
  ASSUME OwnQueries
  PROVE  Spec => []RetainedUnlessCrowded
<1>1. Inv /\ OwnInv => RetainedUnlessCrowded
  BY DEF OwnInv, Retained, RetainedUnlessCrowded
<1>2. QED
  BY <1>1, OwnInvariant, CacheInvariant, PTL

\* And it leaves nothing of the output behind when it has the whole.  (the pop
\* after the last page)
THEOREM LastPagesRelease ==
  ASSUME OwnQueries
  PROVE  Spec => []LastPageReleases
<1>1. OwnInv => LastPageReleases
  BY DEF OwnInv, OwnOK, Pages, LastPageReleases
<1>2. QED
  BY <1>1, OwnInvariant, PTL
=============================================================================
