------------------------------ MODULE PageCache ------------------------------
(***************************************************************************)
(* ssh_read of netops_helper/engine.py and the snapshots it keeps between  *)
(* pages.  A read at offset 0 runs the query on the device and, when more  *)
(* than one page is left, stores the whole output under a key of target,   *)
(* login, query and parameters; a read at a later offset is served from    *)
(* the store or fails.  Calls run in threads; only the three sections that *)
(* touch the store hold _SSH_CACHE_LOCK.  The store lives in one process,  *)
(* which ends with the ssh session of its client.                          *)
(*                                                                         *)
(* An output is abstracted to its length in units, and a page is a range   *)
(* of units.  A reader is a client that pages through one query: it asks   *)
(* for offset 0 and then for each next_offset, and may start over.         *)
(***************************************************************************)
EXTENDS Integers, Sequences, FiniteSets

CONSTANTS
  Readers,
  Keys,         \* cache keys
  KeyOf,        \* KeyOf[r]: what _ssh_cache_key makes of reader r's query
  MaxEntries,   \* _SSH_CACHE_MAX_ENTRIES
  TTL,          \* _SSH_CACHE_TTL_SECONDS, in ticks
  Cap,          \* _SSH_CAPTURE_MAX_BYTES, in units
  PageSizes,    \* values of max_bytes, in units
  MaxTime,      \* bound on the clock
  MaxCaptures   \* bound on the reads at offset 0

ASSUME CacheAssumption ==
  /\ KeyOf \in [Readers -> Keys]
  /\ MaxEntries \in Nat \ {0} /\ TTL \in Nat \ {0} /\ Cap \in Nat \ {0}
  /\ PageSizes \subseteq Nat \ {0}
  /\ MaxTime \in Nat /\ MaxCaptures \in Nat

VARIABLES
  now,      \* time.monotonic()
  cache,    \* _SSH_PAGE_CACHE: the snapshot under each key
  snaps,    \* snaps[s]: length of the s-th output, number and time of its store
  stores,   \* how often a snapshot was stored
  base,     \* ... before this process started
  thread,   \* thread[r]: the call of reader r that is under way
  reader    \* reader[r]: the offset to ask for next (0: none), the pages so far

vars == <<now, cache, snaps, stores, base, thread, reader>>

Snapshots == 1..MaxCaptures
Output == [length : 1..Cap, no : 0..MaxCaptures, at : 0..MaxTime]
Page   == [snap : Snapshots, from : 0..Cap, to : 0..Cap, at : 0..MaxTime]
Call   == [pc : {"idle", "device", "store", "drop"}, page : Page \cup {<<>>}]
Reader == [next : 0..Cap, pages : Seq(Page)]

NoCall == [pc |-> "idle", page |-> <<>>]
Fresh  == [next |-> 0, pages |-> <<>>]

\* Types; the store never holds more outputs than its maximum.  (_store_cached_ssh_output)
TypeOK ==
  /\ now \in 0..MaxTime
  /\ DOMAIN cache \subseteq Keys /\ \A k \in DOMAIN cache : cache[k] \in Snapshots
  /\ Cardinality(DOMAIN cache) <= MaxEntries
  /\ snaps \in Seq(Output) /\ Len(snaps) <= MaxCaptures
  /\ stores \in 0..MaxCaptures /\ base \in 0..stores
  /\ thread \in [Readers -> Call]
  /\ reader \in [Readers -> Reader]

Init ==
  /\ now = 0
  /\ cache = [k \in {} |-> <<>>]
  /\ snaps = <<>> /\ stores = 0 /\ base = 0
  /\ thread = [r \in Readers |-> NoCall]
  /\ reader = [r \in Readers |-> Fresh]

-----------------------------------------------------------------------------

\* Mutant: the key leaves the target out.
KeyWithoutTarget(r) == CHOOSE k \in Keys : TRUE

Key(r) == KeyOf[r]

Without(keys) == [k \in DOMAIN cache \ keys |-> cache[k]]

\* _page_text of snapshot s of length n: at most m units from the offset.
PageAt(s, n, offset, m) ==
  [snap |-> s, from |-> offset, to |-> IF offset + m < n THEN offset + m ELSE n,
   at |-> now]

\* The result returns to its reader.
Return(r, result) ==
  /\ thread' = [thread EXCEPT ![r] = NoCall]
  /\ reader' = [reader EXCEPT ![r] = result]

\* ssh_read at offset 0: the first pages of an earlier read are given up.
ReadFresh(r) ==
  /\ thread[r].pc = "idle" /\ Len(snaps) < MaxCaptures
  /\ thread' = [thread EXCEPT ![r].pc = "device"]
  /\ reader' = [reader EXCEPT ![r] = Fresh]
  /\ UNCHANGED <<now, cache, snaps, stores, base>>

\* The device does not answer, or its output exceeds the cap.
DeviceFails(r) ==
  /\ thread[r].pc = "device"
  /\ Return(r, Fresh)
  /\ UNCHANGED <<now, cache, snaps, stores, base>>

Capture(r) ==
  /\ thread[r].pc = "device" /\ Len(snaps) < MaxCaptures
  /\ \E n \in 1..Cap, m \in PageSizes :
       LET page == PageAt(Len(snaps) + 1, n, 0, m) IN
         /\ snaps' = Append(snaps, [length |-> n, no |-> 0, at |-> 0])
         /\ thread' = [thread EXCEPT ![r] =
              [pc |-> IF page.to < n THEN "store" ELSE "drop", page |-> page]]
  /\ UNCHANGED <<now, cache, stores, base, reader>>

\* Mutants: room is made too late, or at the wrong end.
KeptWhenStoringLate ==
  IF Cardinality(DOMAIN cache) > MaxEntries
    THEN {Without({k}) : k \in {k \in DOMAIN cache :
            \A other \in DOMAIN cache : snaps[cache[k]].no <= snaps[cache[other]].no}}
    ELSE {cache}
KeptWhenStoringNewest ==
  IF Cardinality(DOMAIN cache) >= MaxEntries
    THEN {Without({k}) : k \in {k \in DOMAIN cache :
            \A other \in DOMAIN cache : snaps[cache[k]].no >= snaps[cache[other]].no}}
    ELSE {cache}

\* A full store lets the entry go that expires first, which is the one stored
\* first, also when the key to store is in it already.
KeptWhenStoring ==
  IF Cardinality(DOMAIN cache) >= MaxEntries
    THEN {Without({k}) : k \in {k \in DOMAIN cache :
            \A other \in DOMAIN cache : snaps[cache[k]].no <= snaps[cache[other]].no}}
    ELSE {cache}

\* _store_cached_ssh_output, and the first page goes out.
Store(r) ==
  LET page == thread[r].page IN
  /\ thread[r].pc = "store"
  /\ \E kept \in KeptWhenStoring :
       cache' = [k \in DOMAIN kept \cup {Key(r)} |->
                   IF k = Key(r) THEN page.snap ELSE kept[k]]
  /\ snaps' = [snaps EXCEPT ![page.snap] =
                  [length |-> @.length, no |-> stores + 1, at |-> now]]
  /\ stores' = stores + 1
  /\ Return(r, [next |-> page.to, pages |-> <<page>>])
  /\ UNCHANGED <<now, base>>

\* Mutant: expiry is left to the limit on the entries.
KeptWhenLoadingAll == cache

\* _load_cached_ssh_output first drops every entry that has expired.
KeptWhenLoading == Without({k \in DOMAIN cache : snaps[cache[k]].at + TTL <= now})

\* Without an entry the continuation fails, and so it does when the offset is
\* beyond the output stored there, or inside one of its characters: then the
\* output is another one than the offset came from.
ReadExpired(r) ==
  /\ thread[r].pc = "idle" /\ reader[r].next > 0
  /\ cache' = KeptWhenLoading
  /\ Key(r) \in DOMAIN cache' =>
       cache'[Key(r)] # reader[r].pages[Len(reader[r].pages)].snap
  /\ Return(r, Fresh)
  /\ UNCHANGED <<now, snaps, stores, base>>

ReadNext(r) ==
  /\ thread[r].pc = "idle" /\ reader[r].next > 0
  /\ cache' = KeptWhenLoading
  /\ Key(r) \in DOMAIN cache'
  /\ \E m \in PageSizes :
       LET s    == cache'[Key(r)]
           page == PageAt(s, snaps[s].length, reader[r].next, m)
       IN
       /\ reader[r].next <= snaps[s].length
       /\ IF page.to < snaps[s].length
            THEN Return(r, [next |-> page.to, pages |-> Append(reader[r].pages, page)])
            ELSE /\ thread' = [thread EXCEPT ![r] = [pc |-> "drop", page |-> page]]
                 /\ UNCHANGED reader
  /\ UNCHANGED <<now, snaps, stores, base>>

\* Mutant: the last page leaves the snapshot to its expiry.
KeptAfterLastForever(r) == cache

KeptAfterLast(r) == Without({Key(r)})

\* The last page drops the key, in a section of its own.
DropLast(r) ==
  /\ thread[r].pc = "drop"
  /\ cache' = KeptAfterLast(r)
  /\ Return(r, [next |-> 0, pages |-> Append(reader[r].pages, thread[r].page)])
  /\ UNCHANGED <<now, snaps, stores, base>>

Tick ==
  /\ now < MaxTime
  /\ now' = now + 1
  /\ UNCHANGED <<cache, snaps, stores, base, thread, reader>>

\* The session ends and with it the process: calls and snapshots are gone, and
\* the clients ask for what they still lack in the next one.
SessionEnds ==
  /\ cache # [k \in {} |-> <<>>] \/ \E r \in Readers : thread[r].pc # "idle"
  /\ cache' = [k \in {} |-> <<>>]
  /\ thread' = [r \in Readers |-> NoCall]
  /\ base' = stores
  /\ UNCHANGED <<now, snaps, stores, reader>>

Next ==
  \/ \E r \in Readers :
       \/ ReadFresh(r) \/ DeviceFails(r) \/ Capture(r) \/ Store(r)
       \/ ReadExpired(r) \/ ReadNext(r) \/ DropLast(r)
  \/ Tick \/ SessionEnds

Spec == Init /\ [][Next]_vars

-----------------------------------------------------------------------------

LastPage(r) == reader[r].pages[Len(reader[r].pages)]

\* A reader whose query nobody else runs collects the pages of one output,
\* one after the other without a gap, and has the whole of it when it is told
\* that there is no next offset - however reads expire, are evicted, are
\* started over or lose their process in between.  (ssh_read)
OneSnapshot ==
  \A r \in Readers : LET p == reader[r].pages IN p # <<>> =>
    /\ p[1].from = 0
    /\ \A i \in 2..Len(p) : p[i].snap = p[1].snap /\ p[i].from = p[i - 1].to
    /\ reader[r].next = IF LastPage(r).to < snaps[LastPage(r).snap].length
                        THEN LastPage(r).to ELSE 0

\* No page is served from an output that was stored a whole TTL ago or more:
\* reading on does not prolong it.  (_load_cached_ssh_output)
NoneOutlivesTTL ==
  \A r \in Readers : LET p == reader[r].pages IN
    \A i \in 2..Len(p) : p[i].at < snaps[p[i].snap].at + TTL

\* A reader that was told a next offset finds its output there until the TTL is
\* over, unless the process ended or as many outputs as the store holds were
\* stored after it: no other reader can make it disappear earlier.
RetainedUnlessCrowded ==
  \A r \in Readers :
    /\ thread[r].pc = "idle" /\ reader[r].next > 0
    /\ LET s == snaps[LastPage(r).snap] IN
         now < s.at + TTL /\ s.no > base /\ stores < s.no + MaxEntries
    => Key(r) \in DOMAIN cache /\ cache[Key(r)] = LastPage(r).snap

\* A reader that has the whole output leaves nothing of it behind.  (the pop
\* after the last page)
LastPageReleases ==
  \A r \in Readers :
    thread[r].pc = "idle" /\ reader[r].pages # <<>> /\ reader[r].next = 0
      => Key(r) \notin DOMAIN cache

=============================================================================
