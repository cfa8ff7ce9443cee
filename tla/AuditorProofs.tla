----------------------------- MODULE AuditorProofs -----------------------------
(***************************************************************************)
(* The executions of the auditor and its store, for every number of        *)
(* executions and calls, any configurations, clocks and failures; then its *)
(* parser and its checks, for every text.                                  *)
(***************************************************************************)
EXTENDS Auditor, FiniteSetTheorems, FunctionTheorems, SequenceTheorems, WellFoundedInduction,
        TLAPS

-----------------------------------------------------------------------------
(* The newest run.                                                         *)

\* A nonempty set of numbers below a bound has a greatest one.
LEMMA Greatest ==
  ASSUME NEW n \in Nat, NEW T, T \subseteq 0..n, T # {}
  PROVE  \E x \in T : \A y \in T : y <= x
<1> DEFINE U == {n - x : x \in T}
<1>1. U \subseteq Nat /\ U # {}
  <2>1. \A x \in T : n - x \in Nat
    OBVIOUS
  <2>2. QED
    BY <2>1
<1>2. PICK u \in U : \A v \in U : ~(<<v, u>> \in OpToRel(<, Nat))
  <2> HIDE DEF U
  <2>1. QED
    BY <1>1, WFMin, NatLessThanWellFounded
<1>3. \A v \in U : ~(v < u)
  BY <1>1, <1>2 DEF OpToRel
<1>4. PICK x \in T : u = n - x
  BY <1>2
<1>5. ASSUME NEW y \in T PROVE y <= x
  <2>1. ~(n - y < n - x)
    BY <1>3, <1>4
  <2>2. QED
    BY <2>1
<1>6. QED
  BY <1>5

\* Of any set of runs there is a newest one.
LEMMA NewestExists ==
  ASSUME NEW n \in Nat, NEW ids, ids \subseteq 1..n, ids # {},
         \A i \in ids : runs[i].at \in 0..MaxTime
  PROVE  Newest(ids) \in ids /\ \A j \in ids \ {Newest(ids)} : Newer(Newest(ids), j)
<1> DEFINE T == {runs[i].at : i \in ids}
<1>0. MaxTime \in Nat
  BY AuditorAssumption
<1>1. PICK i0 \in ids : \A j \in ids : runs[j].at <= runs[i0].at
  <2>1. T # {} /\ T \subseteq 0..MaxTime
    OBVIOUS
  <2>2. PICK t \in T : \A y \in T : y <= t
    <3> HIDE DEF T
    <3>1. QED
      BY <1>0, <2>1, Greatest
  <2>3. QED
    BY <2>2
<1> DEFINE L == {i \in ids : runs[i].at = runs[i0].at}
<1>2. PICK i \in L : \A j \in L : j <= i
  <2>1. L # {} /\ L \subseteq 0..n
    <3>1. \A i \in 1..n : i \in 0..n
      OBVIOUS
    <3>2. i0 \in L
      OBVIOUS
    <3>3. QED
      BY <3>1, <3>2
  <2>2. QED
    <3> HIDE DEF L
    <3>1. QED
      BY <2>1, Greatest
<1>3. ASSUME NEW j \in ids \ {i} PROVE Newer(i, j)
  <2>1. runs[j].at <= runs[i].at /\ runs[i].at \in 0..MaxTime /\ runs[j].at \in 0..MaxTime
    BY <1>1, <1>2
  <2>2. CASE runs[j].at = runs[i].at
    <3>1. j \in L /\ j <= i /\ j # i
      BY <1>2, <2>2
    <3>2. i \in 1..n /\ j \in 1..n
      OBVIOUS
    <3>3. QED
      BY <2>2, <3>1, <3>2 DEF Newer
  <2>3. CASE runs[j].at # runs[i].at
    BY <1>0, <2>1, <2>3 DEF Newer
  <2>4. QED
    BY <2>2, <2>3
<1>4. \E k \in ids : \A j \in ids \ {k} : Newer(k, j)
  BY <1>3
<1>5. QED
  BY <1>4 DEF Newest

\* When no run is older than the one before it, the newest of the first n is
\* the n-th.
LEMMA NewestIsLast ==
  ASSUME NEW n \in Nat, \A i \in 1..n : runs[i].at \in Nat,
         \A i, j \in 1..n : i < j => runs[i].at <= runs[j].at
  PROVE  Newest(1..n) = n
<1>1. CASE n = 0
  BY <1>1 DEF Newest
<1>2. CASE n # 0
  <2>0. n \in 1..n /\ 1..n # {}
    BY <1>2
  <2>1. \A j \in 1..n \ {n} : Newer(n, j)
    BY <2>0 DEF Newer
  <2>2. ASSUME NEW i \in 1..n, \A j \in 1..n \ {i} : Newer(i, j) PROVE i = n
    <3>1. SUFFICES ASSUME i # n PROVE FALSE
      OBVIOUS
    <3>2. Newer(i, n)
      BY <2>0, <2>2, <3>1
    <3>3. i < n /\ runs[i].at <= runs[n].at /\ runs[i].at \in Nat /\ runs[n].at \in Nat
      BY <2>0, <3>1
    <3>4. QED
      BY <3>2, <3>3 DEF Newer
  <2>3. QED
    BY <2>0, <2>1, <2>2 DEF Newest
<1>3. QED
  BY <1>1, <1>2

-----------------------------------------------------------------------------
(* Types.                                                                  *)

AuditOf(n) ==
  [pc : {"idle", "done", "failed", "dead"} \cup Active, kind : {"none"} \cup Kinds,
   accept : BOOLEAN, command : 1..2, ok : BOOLEAN,
   began : SUBSET Findings, found : SUBSET Findings, base : SUBSET Findings,
   last : 0..n, at : 0..MaxTime, run : 0..n, alone : BOOLEAN, left : BOOLEAN]

ReaderOf(n) ==
  [pc : {"idle", "answer", "done"}, seen : 0..n, at : 0..MaxTime, began : SUBSET Findings]

LEMMA TypeIs ==
  TypeOK <=>
    /\ now \in 0..MaxTime
    /\ audit \in [Audits -> AuditOf(Len(runs))]
    /\ report \in [Audits -> States] /\ answer \in [Readers -> States]
    /\ runs \in Seq(Run)
    /\ baseline \in [Findings -> 0..Len(runs)]
    /\ events \in Seq(Event) /\ \A k \in 1..Len(events) : events[k].run <= Len(runs)
    /\ keys \subseteq Audits /\ sent \subseteq Audits \X (1..2)
    /\ reader \in [Readers -> ReaderOf(Len(runs))]
    /\ forgotten \subseteq Findings /\ steady \in BOOLEAN
    /\ changes \in 0..MaxChanges /\ failures \in 0..MaxFailures
BY DEF TypeOK, AuditOf, ReaderOf

LEMMA SnapshotsFind ==
  /\ \A s \in FileSnapshots : s \in SUBSET Findings
  /\ \A s \in Snapshots : s \in SUBSET Findings
BY DEF Findings

LEMMA ClassifyType ==
  ASSUME NEW id \in Nat, NEW today \in SUBSET Findings, NEW base \in SUBSET Findings,
         NEW previous \in SUBSET Findings, NEW time
  PROVE  /\ Classify(id, today, base, previous, time) \in States
         /\ Classify(id, today, base, previous, time).last = id
         /\ Classify(id, today, base, previous, time).gone = previous \ today
         /\ Classify(id, today, base, previous, time).new \subseteq today \ base
         /\ Classify(id, today, base, previous, time).known \subseteq today \cap base
         /\ Classify(id, today, base, previous, time).new
              \cup Classify(id, today, base, previous, time).known
              \cup Classify(id, today, base, previous, time).suppressed = today
BY DEF Classify, States

LEMMA EmptyType == NoStates \in States /\ NewAudit \in AuditOf(0) /\ Baseline \subseteq Findings
<1>1. 0 \in 0..MaxTime /\ 0 \in 0..0 /\ 1 \in 1..2 /\ 0 \in Nat
  BY AuditorAssumption
<1>2. NoStates \in States
  BY <1>1 DEF NoStates, States
<1>3. NewAudit \in AuditOf(0)
  BY <1>1 DEF NewAudit, AuditOf
<1>4. QED
  BY <1>2, <1>3 DEF Baseline

LEMMA RunFindings ==
  ASSUME TypeOK, NEW id \in 0..Len(runs)
  PROVE  FindingsOfRun(id) \in SUBSET Findings
<1>1. CASE id = 0
  BY <1>1 DEF FindingsOfRun
<1>2. CASE id # 0
  <2>1. runs \in Seq(Run)
    BY DEF TypeOK
  <2>2. id \in 1..Len(runs)
    BY <1>2, <2>1
  <2>3. runs[id] \in Run
    BY <2>1, <2>2
  <2>4. runs[id].findings \in SUBSET Findings
    BY <2>3 DEF Run
  <2>5. QED
    BY <1>2, <2>4 DEF FindingsOfRun
<1>3. QED
  BY <1>1, <1>2

LEMMA NewestType ==
  ASSUME TypeOK, NEW n \in 0..Len(runs), NEW ids \in SUBSET (1..n)
  PROVE  Newest(ids) \in 0..Len(runs)
<1>1. runs \in Seq(Run) /\ Len(runs) \in Nat
  BY DEF TypeOK
<1>2. ASSUME NEW i \in ids PROVE i \in 1..Len(runs) /\ runs[i].at \in 0..MaxTime
  <2>1. i \in 1..Len(runs)
    BY <1>1
  <2>2. runs[i] \in Run
    BY <1>1, <2>1
  <2>3. QED
    BY <2>1, <2>2 DEF Run
<1>3. CASE ids = {}
  BY <1>1, <1>3 DEF Newest
<1>4. CASE ids # {}
  <2>1. Newest(ids) \in ids
    BY <1>1, <1>2, <1>4, NewestExists
  <2>2. \A i \in 1..Len(runs) : i \in 0..Len(runs)
    BY <1>1
  <2>3. QED
    BY <1>2, <2>1, <2>2
<1>5. QED
  BY <1>3, <1>4

\* Executions and calls keep their types when the table of runs grows.
LEMMA Grows ==
  ASSUME NEW n \in Nat, NEW m \in Nat, n <= m
  PROVE  /\ \A x \in AuditOf(n) : x \in AuditOf(m)
         /\ \A x \in ReaderOf(n) : x \in ReaderOf(m)
         /\ \A i \in 0..n : i \in 0..m
<1>1. \A i \in 0..n : i \in 0..m
  OBVIOUS
<1>2. QED
  BY <1>1 DEF AuditOf, ReaderOf

\* An execution is replaced by another of its type.
LEMMA Replaced ==
  ASSUME NEW n, NEW a \in Audits, audit \in [Audits -> AuditOf(n)], NEW x \in AuditOf(n),
         audit' = [audit EXCEPT ![a] = x]
  PROVE  /\ audit' \in [Audits -> AuditOf(n)] /\ audit'[a] = x
         /\ \A b \in Audits \ {a} : audit'[b] = audit[b]
OBVIOUS

\* Changes of an execution that keep its type.
LEMMA Changes ==
  ASSUME NEW n, NEW x \in AuditOf(n)
  PROVE  /\ \A pc \in Active : /\ [x EXCEPT !.pc = pc] \in AuditOf(n)
                               /\ [x EXCEPT !.pc = pc, !.ok = FALSE] \in AuditOf(n)
                               /\ [x EXCEPT !.pc = pc, !.left = TRUE] \in AuditOf(n)
         /\ \A pc \in Active, s \in SUBSET Findings :
              [x EXCEPT !.pc = pc, !.found = s] \in AuditOf(n)
         /\ \A i \in 1..2 : [x EXCEPT !.command = i] \in AuditOf(n)
<1>1. ASSUME NEW pc \in Active
      PROVE  [x EXCEPT !.pc = pc] \in AuditOf(n)
  BY DEF AuditOf
<1>2. ASSUME NEW pc \in Active
      PROVE  [x EXCEPT !.pc = pc, !.ok = FALSE] \in AuditOf(n)
  BY DEF AuditOf
<1>3. ASSUME NEW pc \in Active, NEW s \in SUBSET Findings
      PROVE  [x EXCEPT !.pc = pc, !.found = s] \in AuditOf(n)
  BY DEF AuditOf
<1>4. ASSUME NEW i \in 1..2
      PROVE  [x EXCEPT !.command = i] \in AuditOf(n)
  BY DEF AuditOf
<1>5. ASSUME NEW pc \in Active
      PROVE  [x EXCEPT !.pc = pc, !.left = TRUE] \in AuditOf(n)
  BY DEF AuditOf
<1>6. QED
  BY <1>1, <1>2, <1>3, <1>4, <1>5

LEMMA EndedType ==
  ASSUME TypeOK, NEW a \in Audits, NEW pc \in {"failed", "dead", "done"}
  PROVE  Ended(a, pc) \in AuditOf(Len(runs))
<1>1. audit[a] \in AuditOf(Len(runs)) /\ Len(runs) \in Nat
  BY TypeIs
<1>2. NewAudit \in AuditOf(Len(runs))
  BY <1>1, EmptyType, Grows
<1>3. QED
  BY <1>1, <1>2 DEF Ended, AuditOf

\* What the gate, the parser and the rules may do to an execution.
LEMMA Evaluated ==
  ASSUME TypeOK, NEW a \in Audits, Evaluate(a)
  PROVE  /\ audit[a].pc = "evaluate"
         /\ \/ \E s \in SUBSET Findings :
                 audit' = [audit EXCEPT ![a] = [audit[a] EXCEPT !.pc = "baseline", !.found = s]]
            \/ audit' = [audit EXCEPT ![a] = Ended(a, "failed")]
         /\ UNCHANGED <<report, runs, baseline, events, keys, sent, reader, answer, worldVars,
                        failures>>
<1>1. audit \in [Audits -> AuditOf(Len(runs))]
  BY TypeIs
<1>2. CASE \E s \in IF audit[a].kind = "run" THEN FileSnapshots ELSE Snapshots :
             audit' = [audit EXCEPT ![a].pc = "baseline", ![a].found = s]
  <2>1. PICK s \in SUBSET Findings :
          audit' = [audit EXCEPT ![a].pc = "baseline", ![a].found = s]
    BY <1>2, SnapshotsFind
  <2>2. audit' = [audit EXCEPT ![a] = [audit[a] EXCEPT !.pc = "baseline", !.found = s]]
    BY <1>1, <2>1
  <2>3. QED
    BY <2>2 DEF Evaluate, storeVars
<1>3. CASE audit' = [audit EXCEPT ![a] = Ended(a, "failed")]
  BY <1>3 DEF Evaluate, storeVars
<1>4. QED
  BY <1>2, <1>3 DEF Evaluate

\* A step of the executions that is taken within the table of runs.
Within ==
  /\ audit' \in [Audits -> AuditOf(Len(runs))]
  /\ report' \in [Audits -> States] /\ events' \in Seq(Event)
  /\ baseline' \in [Findings -> 0..Len(runs)]
  /\ \A k \in 1..Len(events') : events'[k].run <= Len(runs)
  /\ keys' \subseteq Audits /\ sent' \subseteq Audits \X (1..2) /\ failures' \in 0..MaxFailures

Collects(a) ==
  \/ Start(a) \/ Scan(a) \/ Prepare(a) \/ CommandSucceeds(a) \/ CommandFails(a)
  \/ Shred(a) \/ Trace(a) \/ Evaluate(a)

LEMMA CollectsType ==
  ASSUME TypeOK, NEW a \in Audits, Collects(a),
         audit[a].pc = "command" => audit[a].kind \in {"file", "ssh"}
                                    /\ audit[a].command <= Commands(audit[a].kind)
  PROVE  Within
<1>a. /\ audit \in [Audits -> AuditOf(Len(runs))] /\ report \in [Audits -> States]
      /\ events \in Seq(Event) /\ \A k \in 1..Len(events) : events[k].run <= Len(runs)
      /\ baseline \in [Findings -> 0..Len(runs)] /\ Len(runs) \in Nat
      /\ keys \subseteq Audits /\ sent \subseteq Audits \X (1..2) /\ failures \in 0..MaxFailures
  BY TypeIs
<1>b. ASSUME NEW pc \in Active, ChannelFails(a, pc)
      PROVE  audit' \in [Audits -> AuditOf(Len(runs))]
  <2>1. audit' = [audit EXCEPT ![a] = [audit[a] EXCEPT !.pc = pc, !.ok = FALSE]]
    BY <1>a, <1>b DEF ChannelFails
  <2>2. [audit[a] EXCEPT !.pc = pc, !.ok = FALSE] \in AuditOf(Len(runs))
    BY <1>a, Changes
  <2>3. QED
    BY <1>a, <2>1, <2>2, Replaced
<1>c. ASSUME NEW pc \in Active, Goto(a, pc) PROVE audit' \in [Audits -> AuditOf(Len(runs))]
  <2>1. audit' = [audit EXCEPT ![a] = [audit[a] EXCEPT !.pc = pc]]
    BY <1>c DEF Goto
  <2>2. [audit[a] EXCEPT !.pc = pc] \in AuditOf(Len(runs))
    BY <1>a, <1>c, Changes
  <2>3. QED
    BY <1>a, <2>1, <2>2, Replaced
<1>d. {"scan", "prepare", "command", "shred", "trace", "evaluate", "baseline"} \subseteq Active
  BY DEF Active, Collecting
<1>1. CASE Start(a)
  <2>1. ASSUME NEW kind \in Kinds, NEW pc \in Active, Begin(a, kind, pc)
        PROVE  audit' \in [Audits -> AuditOf(Len(runs))]
    <3>1. PICK accept \in BOOLEAN :
            audit' = [audit EXCEPT ![a] =
              [audit[a] EXCEPT !.kind = kind, !.pc = pc, !.accept = accept,
                               !.began = Baseline]]
      BY <1>a, <2>1 DEF Begin
    <3>2. audit[a] \in AuditOf(Len(runs)) /\ Baseline \in SUBSET Findings
      BY <1>a, EmptyType
    <3>3. [audit[a] EXCEPT !.kind = kind, !.pc = pc, !.accept = accept,
                           !.began = Baseline] \in AuditOf(Len(runs))
      BY <2>1, <3>2 DEF AuditOf
    <3>4. QED
      BY <1>a, <3>1, <3>3, Replaced
  <2>2. audit' \in [Audits -> AuditOf(Len(runs))]
    BY <1>1, <1>d, <2>1 DEF Start
  <2>3. QED
    BY <1>1, <1>a, <2>2 DEF Start, Within, storeVars
<1>2. CASE Scan(a)
  BY <1>2, <1>a, <1>b, <1>c, <1>d DEF Scan, Within, storeVars
<1>3. CASE Prepare(a)
  BY <1>3, <1>a, <1>b, <1>c, <1>d DEF Prepare, Within, storeVars
<1>4. CASE CommandSucceeds(a)
  <2>1. /\ audit[a].command \in 1..2 /\ audit[a].kind \in {"file", "ssh"}
        /\ audit[a].command <= Commands(audit[a].kind) /\ Commands(audit[a].kind) \in 1..2
    BY <1>4, <1>a DEF CommandSucceeds, AuditOf, Commands
  <2>2. sent' \subseteq Audits \X (1..2)
    BY <1>4, <1>a, <2>1 DEF CommandSucceeds
  <2>3. CASE LastCommand(a)
    <3>1. Goto(a, After(a)) /\ After(a) \in Active
      BY <1>4, <1>d, <2>3 DEF CommandSucceeds, After
    <3>2. audit' \in [Audits -> AuditOf(Len(runs))]
      BY <1>c, <3>1
    <3>3. QED
      BY <1>4, <1>a, <2>2, <3>2 DEF CommandSucceeds, Within, storeVars
  <2>4. CASE ~LastCommand(a)
    <3>1. audit[a].command + 1 \in 1..2
      BY <2>1, <2>4 DEF LastCommand
    <3>2. audit' = [audit EXCEPT ![a].command = @ + 1]
      BY <1>4, <2>4 DEF CommandSucceeds
    <3>a. [audit[a] EXCEPT !.command = audit[a].command + 1] \in AuditOf(Len(runs))
      BY <1>a, <3>1, Changes
    <3>b. audit' = [audit EXCEPT ![a] = [audit[a] EXCEPT !.command = audit[a].command + 1]]
      BY <1>a, <3>2
    <3>3. audit' \in [Audits -> AuditOf(Len(runs))]
      BY <1>a, <3>a, <3>b, Replaced
    <3>4. QED
      BY <1>4, <1>a, <2>2, <3>3 DEF CommandSucceeds, Within, storeVars
  <2>5. QED
    BY <2>3, <2>4
<1>5. CASE CommandFails(a)
  <2>1. audit[a].command \in 1..2
    BY <1>a DEF AuditOf
  <2>2. QED
    BY <1>5, <1>a, <1>b, <1>d, <2>1 DEF CommandFails, Within, storeVars
<1>6. CASE Shred(a)
  <2>1. AfterShred(a) \in Active
    BY <1>d DEF AfterShred
  <2>2. CASE Goto(a, AfterShred(a)) /\ UNCHANGED failures /\ keys' = keys \ {a}
    BY <1>6, <1>a, <1>c, <2>1, <2>2 DEF Shred, Within, storeVars
  <2>3. CASE /\ failures < MaxFailures /\ failures' = failures + 1 /\ keys' = keys
             /\ audit' = [audit EXCEPT ![a].pc = AfterShred(a), ![a].left = TRUE]
    <3>1. audit' = [audit EXCEPT ![a] = [audit[a] EXCEPT !.pc = AfterShred(a), !.left = TRUE]]
      BY <1>a, <2>3
    <3>2. [audit[a] EXCEPT !.pc = AfterShred(a), !.left = TRUE] \in AuditOf(Len(runs))
      BY <1>a, <2>1, Changes
    <3>3. audit' \in [Audits -> AuditOf(Len(runs))]
      BY <1>a, <3>1, <3>2, Replaced
    <3>4. failures' \in 0..MaxFailures
      BY <1>a, <2>3, AuditorAssumption
    <3>5. QED
      BY <1>6, <1>a, <2>3, <3>3, <3>4 DEF Shred, Within, storeVars
  <2>4. QED
    BY <1>6, <2>2, <2>3 DEF Shred
<1>7. CASE Trace(a)
  <2>1. audit' \in [Audits -> AuditOf(Len(runs))]
    BY <1>7, <1>a, EndedType DEF Trace
  <2>2. failures' \in 0..MaxFailures
    BY <1>7, <1>a, AuditorAssumption DEF Trace
  <2>3. PICK e : e = FailedEvent(a)
    OBVIOUS
  <2>4. e \in Event /\ e.run <= Len(runs)
    BY <1>a, <2>3 DEF Event, Outcomes, AuditOf, FailedEvent
  <2>5. CASE events' = events
    BY <1>7, <1>a, <2>1, <2>2, <2>5 DEF Trace, Within
  <2>6. CASE events' = Append(events, e)
    <3>1. events' \in Seq(Event) /\ \A k \in 1..Len(events') : events'[k].run <= Len(runs)
      <4>1. Len(events') = Len(events) + 1 /\ events'[Len(events) + 1] = e /\ Len(events) \in Nat
            /\ (\A k \in 1..Len(events) : events'[k] = events[k]) /\ events' \in Seq(Event)
        BY <1>a, <2>4, <2>6
      <4>2. ASSUME NEW k \in 1..Len(events') PROVE events'[k].run <= Len(runs)
        <5>1. k \in 1..Len(events) \/ k = Len(events) + 1
          BY <4>1
        <5>2. QED
          BY <1>a, <2>4, <4>1, <5>1
      <4>3. QED
        BY <4>1, <4>2
    <3>2. QED
      BY <1>7, <1>a, <2>1, <2>2, <3>1 DEF Trace, Within
  <2>7. QED
    BY <1>7, <2>3, <2>5, <2>6 DEF Trace
<1>8. CASE Evaluate(a)
  <2>1. audit' \in [Audits -> AuditOf(Len(runs))]
    <3>1. CASE \E s \in SUBSET Findings :
                 audit' = [audit EXCEPT ![a] = [audit[a] EXCEPT !.pc = "baseline", !.found = s]]
      <4>1. PICK s \in SUBSET Findings :
              audit' = [audit EXCEPT ![a] = [audit[a] EXCEPT !.pc = "baseline", !.found = s]]
        BY <3>1
      <4>2. [audit[a] EXCEPT !.pc = "baseline", !.found = s] \in AuditOf(Len(runs))
        BY <1>a, <1>d, Changes
      <4>3. QED
        BY <1>a, <4>1, <4>2, Replaced
    <3>2. CASE audit' = [audit EXCEPT ![a] = Ended(a, "failed")]
      BY <1>a, <3>2, EndedType
    <3>3. QED
      BY <1>8, <3>1, <3>2, Evaluated
  <2>2. QED
    BY <1>8, <1>a, <2>1, Evaluated DEF Within
<1>9. QED
  BY <1>1, <1>2, <1>3, <1>4, <1>5, <1>6, <1>7, <1>8 DEF Collects

Stores(a) ==
  \/ ReadBaseline(a) \/ ReadPrevious(a) \/ Stamp(a)
  \/ RecordEvents(a) \/ Accept(a) \/ Conclude(a) \/ Die(a)

LEMMA OkEventIs ==
  ASSUME NEW a, NEW i
  PROVE  OkEvent(a, i).audit = a /\ OkEvent(a, i).run = audit[a].run
BY DEF OkEvent

\* The events of an execution are written after those that are there, in order.
LEMMA EventsAdded ==
  ASSUME TypeOK, NEW a \in Audits, audit[a].kind \in {"file", "ssh"}, RecordEvents(a)
  PROVE  /\ Commands(audit[a].kind) \in 1..2 /\ Len(events) \in Nat /\ events' \in Seq(Event)
         /\ Len(events') = Len(events) + Commands(audit[a].kind)
         /\ \A k \in 1..Len(events) : events'[k] = events[k]
         /\ \A i \in 1..Commands(audit[a].kind) : events'[Len(events) + i] = OkEvent(a, i)
<1>1. PICK m : m = Commands(audit[a].kind)
  OBVIOUS
<1>2. m \in 1..2
  BY <1>1 DEF Commands
<1>3. PICK block : block = EventsOf(a)
  OBVIOUS
<1>4. audit[a].run \in Nat /\ events \in Seq(Event) /\ Len(events) \in Nat
  <2>1. audit[a] \in AuditOf(Len(runs)) /\ Len(runs) \in Nat /\ events \in Seq(Event)
    BY TypeIs
  <2>2. QED
    BY <2>1 DEF AuditOf
<1>5. \A i \in 1..m : OkEvent(a, i) \in Event
  BY <1>2, <1>4 DEF OkEvent, Event, Outcomes
<1>6. block \in Seq(Event) /\ Len(block) = m /\ \A i \in 1..m : block[i] = OkEvent(a, i)
  BY <1>1, <1>2, <1>3, <1>5 DEF EventsOf
<1>7. events' = events \o block
  BY <1>3 DEF RecordEvents
<1>8. PICK n : n = Len(events)
  OBVIOUS
<1>9. /\ events' \in Seq(Event) /\ Len(events') = n + m
      /\ \A k \in 1..(n + m) : events'[k] = IF k <= n THEN events[k] ELSE block[k - n]
  BY <1>4, <1>6, <1>7, <1>8, ConcatProperties
<1>10. \A k \in 1..n : events'[k] = events[k]
  BY <1>2, <1>4, <1>8, <1>9
<1>11. ASSUME NEW i \in 1..m PROVE events'[n + i] = OkEvent(a, i)
  <2>1. PICK k : k = n + i
    OBVIOUS
  <2>2. k \in 1..(n + m) /\ ~(k <= n) /\ k - n = i
    BY <1>2, <1>4, <1>8, <2>1
  <2>3. events'[k] = block[i]
    BY <1>9, <2>2
  <2>4. QED
    BY <1>6, <2>1, <2>3
<1>12. QED
  BY <1>1, <1>2, <1>4, <1>8, <1>9, <1>10, <1>11

LEMMA StoresType ==
  ASSUME TypeOK, NEW a \in Audits, Stores(a),
         audit[a].pc = "events" => audit[a].kind \in {"file", "ssh"}
  PROVE  Within
<1>a. /\ audit \in [Audits -> AuditOf(Len(runs))] /\ report \in [Audits -> States]
      /\ events \in Seq(Event) /\ \A k \in 1..Len(events) : events[k].run <= Len(runs)
      /\ baseline \in [Findings -> 0..Len(runs)] /\ Len(runs) \in Nat
      /\ keys \subseteq Audits /\ sent \subseteq Audits \X (1..2) /\ failures \in 0..MaxFailures
      /\ now \in 0..MaxTime
  BY TypeIs
<1>b. {"previous", "stamp", "insert", "events", "accept", "report"} \subseteq Active
  BY DEF Active, Storing
<1>c. ASSUME NEW pc \in Active, Goto(a, pc) PROVE audit' \in [Audits -> AuditOf(Len(runs))]
  <2>1. audit' = [audit EXCEPT ![a] = [audit[a] EXCEPT !.pc = pc]]
    BY <1>c DEF Goto
  <2>2. [audit[a] EXCEPT !.pc = pc] \in AuditOf(Len(runs))
    BY <1>a, <1>c, Changes
  <2>3. QED
    BY <1>a, <2>1, <2>2, Replaced
<1>d. audit[a] \in AuditOf(Len(runs)) /\ AfterEvents(a) \in Active
  BY <1>a, <1>b DEF AfterEvents
<1>e. audit[a].run \in 0..Len(runs) /\ audit[a].last \in 0..Len(runs)
      /\ audit[a].found \in SUBSET Findings /\ audit[a].base \in SUBSET Findings
  BY <1>d DEF AuditOf
<1>1. CASE ReadBaseline(a)
  <2>1. [audit[a] EXCEPT !.pc = "previous", !.base = Baseline,
                         !.alone = (Overlapping(a) = {})] \in AuditOf(Len(runs))
    BY <1>b, <1>d, EmptyType DEF AuditOf
  <2>2. \A b \in Audits :
          [audit[b] EXCEPT !.alone = (@ /\ b \notin Overlapping(a))] \in AuditOf(Len(runs))
    <3>1. ASSUME NEW b \in Audits, NEW w \in BOOLEAN
          PROVE  [audit[b] EXCEPT !.alone = w] \in AuditOf(Len(runs))
      <4>1. PICK x \in AuditOf(Len(runs)) : x = audit[b]
        BY <1>a
      <4>2. [x EXCEPT !.alone = w] \in AuditOf(Len(runs))
        BY <3>1, <4>1 DEF AuditOf
      <4>3. QED
        BY <4>1, <4>2
    <3>2. QED
      BY <3>1
  <2>3. audit' \in [Audits -> AuditOf(Len(runs))]
    BY <1>1, <1>a, <2>1, <2>2 DEF ReadBaseline
  <2>4. QED
    BY <1>1, <1>a, <2>3 DEF ReadBaseline, Within, storeVars
<1>2. CASE ReadPrevious(a)
  <2>0. Len(runs) \in 0..Len(runs) /\ 1..Len(runs) \in SUBSET (1..Len(runs))
    BY <1>a
  <2>1. LastRun \in 0..Len(runs)
    BY <2>0, NewestType DEF LastRun
  <2>2. [audit[a] EXCEPT !.pc = "stamp", !.last = LastRun] \in AuditOf(Len(runs))
    BY <1>b, <1>d, <2>1 DEF AuditOf
  <2>3. audit' \in [Audits -> AuditOf(Len(runs))]
    BY <1>2, <1>a, <2>2 DEF ReadPrevious
  <2>4. QED
    BY <1>2, <1>a, <2>3 DEF ReadPrevious, Within, storeVars
<1>3. CASE Stamp(a)
  <2>1. [audit[a] EXCEPT !.pc = "insert", !.at = now] \in AuditOf(Len(runs))
    BY <1>a, <1>b, <1>d DEF AuditOf
  <2>2. audit' \in [Audits -> AuditOf(Len(runs))]
    BY <1>3, <1>a, <2>1 DEF Stamp
  <2>3. QED
    BY <1>3, <1>a, <2>2 DEF Stamp, Within, storeVars
<1>4. CASE RecordEvents(a)
  <2>1. PICK m : m = Commands(audit[a].kind)
    OBVIOUS
  <2>2. /\ Len(events') = Len(events) + m /\ m \in 1..2 /\ events' \in Seq(Event)
        /\ \A k \in 1..Len(events) : events'[k] = events[k]
        /\ \A i \in 1..m : events'[Len(events) + i] = OkEvent(a, i)
    BY <1>4, <2>1, EventsAdded DEF RecordEvents
  <2>3. ASSUME NEW k \in 1..Len(events') PROVE events'[k].run <= Len(runs)
    <3>1. CASE k <= Len(events)
      <4>1. k \in 1..Len(events)
        BY <1>a, <3>1
      <4>2. QED
        BY <1>a, <2>2, <4>1
    <3>2. CASE ~(k <= Len(events))
      <4>1. PICK i : i = k - Len(events)
        OBVIOUS
      <4>2. i \in 1..m /\ k = Len(events) + i
        BY <1>a, <2>2, <3>2, <4>1
      <4>3. events'[k].run = audit[a].run
        BY <2>2, <4>2, OkEventIs
      <4>4. QED
        BY <1>a, <1>e, <4>3
    <3>3. QED
      BY <3>1, <3>2
  <2>4. QED
    BY <1>4, <1>a, <1>c, <1>d, <2>2, <2>3 DEF RecordEvents, Within
<1>5. CASE Accept(a)
  <2>1. baseline' \in [Findings -> 0..Len(runs)]
    BY <1>5, <1>a, <1>e DEF Accept
  <2>2. QED
    BY <1>5, <1>a, <1>b, <1>c, <2>1 DEF Accept, Within
<1>6. CASE Conclude(a)
  <2>1. FindingsOfRun(audit[a].last) \in SUBSET Findings /\ audit[a].run \in Nat
    BY <1>a, <1>e, RunFindings
  <2>2. Classify(audit[a].run, audit[a].found, Base(a), FindingsOfRun(audit[a].last), now)
          \in States
    <3>1. PICK id, today, base, previous, time :
            /\ id = audit[a].run /\ today = audit[a].found /\ base = Base(a)
            /\ previous = FindingsOfRun(audit[a].last) /\ time = now
      OBVIOUS
    <3>2. id \in Nat /\ today \in SUBSET Findings /\ base \in SUBSET Findings
          /\ previous \in SUBSET Findings
      BY <1>e, <2>1, <3>1 DEF Base
    <3>3. Classify(id, today, base, previous, time) \in States
      BY <3>2 DEF Classify, States
    <3>4. QED
      BY <3>1, <3>3
  <2>3. report' \in [Audits -> States]
    BY <1>6, <1>a, <2>2 DEF Conclude
  <2>4. [Ended(a, "done") EXCEPT !.began = audit[a].began, !.found = audit[a].found]
          \in AuditOf(Len(runs))
    <3>1. Ended(a, "done") \in AuditOf(Len(runs))
      BY EndedType
    <3>2. audit[a].began \in SUBSET Findings
      BY <1>d DEF AuditOf
    <3>3. QED
      BY <1>e, <3>1, <3>2 DEF AuditOf
  <2>5. audit' \in [Audits -> AuditOf(Len(runs))]
    BY <1>6, <1>a, <2>4 DEF Conclude
  <2>6. QED
    BY <1>6, <1>a, <2>3, <2>5 DEF Conclude, Within, storeVars
<1>7. CASE Die(a)
  <2>1. audit' \in [Audits -> AuditOf(Len(runs))]
    BY <1>7, <1>a, EndedType DEF Die
  <2>2. failures' \in 0..MaxFailures
    BY <1>7, <1>a, AuditorAssumption DEF Die
  <2>3. QED
    BY <1>7, <1>a, <2>1, <2>2 DEF Die, Within, storeVars
<1>8. QED
  BY <1>1, <1>2, <1>3, <1>4, <1>5, <1>6, <1>7 DEF Stores

\* A run is added to the table.
LEMMA Inserts ==
  ASSUME TypeOK, NEW a \in Audits, InsertRun(a)
  PROVE  /\ Len(runs) \in Nat /\ Len(runs') = Len(runs) + 1 /\ runs' \in Seq(Run)
         /\ \A i \in 1..Len(runs) : runs'[i] = runs[i]
         /\ runs'[Len(runs) + 1] = [at |-> audit[a].at, findings |-> audit[a].found]
         /\ audit' = [audit EXCEPT ![a] =
              [audit[a] EXCEPT !.run = Len(runs) + 1,
                               !.pc = IF audit[a].kind = "run" THEN AfterEvents(a) ELSE "events"]]
         /\ \A id \in 0..Len(runs) : FindingsOfRun(id)' = FindingsOfRun(id)
<1>1. runs \in Seq(Run) /\ Len(runs) \in Nat
  BY DEF TypeOK
<1>2. PICK x : x = [at |-> audit[a].at, findings |-> audit[a].found]
  OBVIOUS
<1>3. x \in Run
  <2>1. audit[a].at \in 0..MaxTime /\ audit[a].found \in SUBSET Findings
    BY TypeIs DEF AuditOf
  <2>2. QED
    BY <1>2, <2>1 DEF Run
<1>4. runs' = Append(runs, x)
  BY <1>2 DEF InsertRun
<1>5. Len(runs') = Len(runs) + 1 /\ runs' \in Seq(Run) /\ runs'[Len(runs) + 1] = x
  BY <1>1, <1>3, <1>4
<1>6. \A i \in 1..Len(runs) : runs'[i] = runs[i]
  BY <1>1, <1>4
<1>7. \A id \in 0..Len(runs) : FindingsOfRun(id)' = FindingsOfRun(id)
  <2>1. ASSUME NEW id \in 0..Len(runs) PROVE FindingsOfRun(id)' = FindingsOfRun(id)
    <3>1. id = 0 \/ id \in 1..Len(runs)
      BY <1>1
    <3>2. QED
      BY <1>6, <3>1 DEF FindingsOfRun
  <2>2. QED
    BY <2>1
<1>8. audit' = [audit EXCEPT ![a] =
        [audit[a] EXCEPT !.run = Len(runs) + 1,
                         !.pc = IF audit[a].kind = "run" THEN AfterEvents(a) ELSE "events"]]
  BY DEF InsertRun
<1>9. QED
  BY <1>1, <1>2, <1>5, <1>6, <1>7, <1>8

LEMMA InsertType ==
  ASSUME TypeOK, NEW a \in Audits, InsertRun(a)
  PROVE  TypeOK'
<1>a. /\ audit \in [Audits -> AuditOf(Len(runs))] /\ report \in [Audits -> States]
      /\ events \in Seq(Event) /\ \A k \in 1..Len(events) : events[k].run <= Len(runs)
      /\ baseline \in [Findings -> 0..Len(runs)] /\ Len(runs) \in Nat
      /\ reader \in [Readers -> ReaderOf(Len(runs))]
  BY TypeIs
<1>1. Len(runs') = Len(runs) + 1 /\ runs' \in Seq(Run) /\ Len(runs') \in Nat
  <2>1. Len(runs') = Len(runs) + 1 /\ runs' \in Seq(Run)
    BY Inserts
  <2>2. QED
    BY <1>a, <2>1
<1>2. PICK n, m : n = Len(runs) /\ m = Len(runs')
  OBVIOUS
<1>3. n \in Nat /\ m \in Nat /\ m = n + 1 /\ n <= m
  BY <1>a, <1>1, <1>2
<1>4. audit \in [Audits -> AuditOf(m)] /\ reader \in [Readers -> ReaderOf(m)]
      /\ baseline \in [Findings -> 0..m]
  <2>1. /\ \A x \in AuditOf(n) : x \in AuditOf(m)
        /\ \A x \in ReaderOf(n) : x \in ReaderOf(m)
        /\ \A i \in 0..n : i \in 0..m
    BY <1>3, Grows
  <2>2. QED
    BY <1>a, <1>2, <2>1
<1>5. [audit[a] EXCEPT !.run = m,
         !.pc = IF audit[a].kind = "run" THEN AfterEvents(a) ELSE "events"] \in AuditOf(m)
  <2>1. (IF audit[a].kind = "run" THEN AfterEvents(a) ELSE "events") \in Active
    BY DEF AfterEvents, Active
  <2>2. m \in 0..m
    BY <1>3
  <2>3. PICK x \in AuditOf(m), pc \in Active :
          x = audit[a] /\ pc = IF audit[a].kind = "run" THEN AfterEvents(a) ELSE "events"
    BY <1>4, <2>1
  <2>4. [x EXCEPT !.run = m, !.pc = pc] \in AuditOf(m)
    BY <2>2, <2>3 DEF AuditOf
  <2>5. QED
    BY <2>3, <2>4
<1>6. audit' = [audit EXCEPT ![a] = [audit[a] EXCEPT !.run = m,
         !.pc = IF audit[a].kind = "run" THEN AfterEvents(a) ELSE "events"]]
  BY <1>2, <1>1, Inserts
<1>7. audit' \in [Audits -> AuditOf(m)]
  BY <1>4, <1>5, <1>6
<1>8. \A k \in 1..Len(events) : events[k].run <= m
  <2>1. ASSUME NEW k \in 1..Len(events) PROVE events[k].run <= m
    <3>1. events[k] \in Event /\ events[k].run <= n
      BY <1>a, <1>2
    <3>2. events[k].run \in Nat
      BY <3>1 DEF Event
    <3>3. QED
      BY <1>3, <3>1, <3>2
  <2>2. QED
    BY <2>1
<1>9. QED
  BY <1>1, <1>2, <1>4, <1>7, <1>8, TypeIs DEF InsertRun, TypeOK, AuditOf, ReaderOf, worldVars

\* Calls, and what is done by hand.
LEMMA ReadRunsType ==
  ASSUME TypeOK, NEW r \in Readers, ReadRuns(r)
  PROVE  TypeOK'
<1>a. /\ reader \in [Readers -> ReaderOf(Len(runs))] /\ Len(runs) \in Nat
      /\ now \in 0..MaxTime /\ Baseline \in SUBSET Findings
  BY TypeIs, EmptyType
<1>1. PICK n, base : n = Len(runs) /\ base = Baseline
  OBVIOUS
<1>2. [pc |-> "answer", seen |-> n, at |-> now, began |-> base] \in ReaderOf(n)
  BY <1>a, <1>1 DEF ReaderOf
<1>3. reader' = [reader EXCEPT ![r] = [pc |-> "answer", seen |-> n, at |-> now, began |-> base]]
  BY <1>1 DEF ReadRuns
<1>4. reader' \in [Readers -> ReaderOf(n)]
  BY <1>a, <1>1, <1>2, <1>3
<1>5. QED
  BY <1>1, <1>4 DEF ReadRuns, TypeOK, ReaderOf, storeVars, worldVars

\* What a call answers.
Answered(r) ==
  LET ids == 1..reader[r].seen
  IN  IF ids = {} THEN NoStates
      ELSE Classify(Newest(ids), FindingsOfRun(Newest(ids)), Baseline,
                    FindingsOfRun(Second(ids)), reader[r].at)

LEMMA AnsweredType ==
  ASSUME TypeOK, NEW r \in Readers
  PROVE  Answered(r) \in States /\ Answered(r).new \cap Baseline = {}
<1>1. reader[r].seen \in 0..Len(runs) /\ Len(runs) \in Nat
  BY TypeIs DEF ReaderOf
<1>2. PICK n : n = reader[r].seen
  OBVIOUS
<1>3. CASE 1..n = {}
  BY <1>2, <1>3, EmptyType DEF Answered, NoStates
<1>4. CASE 1..n # {}
  <2>1. n \in 0..Len(runs)
    BY <1>1, <1>2
  <2>2. Newest(1..n) \in 0..Len(runs) /\ Second(1..n) \in 0..Len(runs)
    BY <2>1, NewestType DEF Second
  <2>3. /\ FindingsOfRun(Newest(1..n)) \in SUBSET Findings
        /\ FindingsOfRun(Second(1..n)) \in SUBSET Findings
    BY <2>2, RunFindings
  <2>4. PICK id, today, base, previous, time :
          /\ id = Newest(1..n) /\ today = FindingsOfRun(Newest(1..n)) /\ base = Baseline
          /\ previous = FindingsOfRun(Second(1..n)) /\ time = reader[r].at
    OBVIOUS
  <2>5. id \in Nat /\ today \in SUBSET Findings /\ base \in SUBSET Findings
        /\ previous \in SUBSET Findings
    BY <1>1, <2>2, <2>3, <2>4, EmptyType
  <2>6. Classify(id, today, base, previous, time) \in States
        /\ Classify(id, today, base, previous, time).new \cap base = {}
    BY <2>5 DEF Classify, States
  <2>7. Answered(r) = Classify(id, today, base, previous, time)
    BY <1>2, <1>4, <2>4 DEF Answered
  <2>8. QED
    BY <2>4, <2>6, <2>7
<1>5. QED
  BY <1>3, <1>4

LEMMA AnswerIs ==
  ASSUME NEW r, Answer(r)
  PROVE  /\ reader[r].pc = "answer"
         /\ answer' = [answer EXCEPT ![r] = Answered(r)]
         /\ reader' = [reader EXCEPT ![r].pc = "done", ![r].seen = 0, ![r].at = 0]
         /\ UNCHANGED <<audit, report, storeVars, keys, sent, worldVars, failures>>
BY DEF Answer, Answered

LEMMA ReaderDone ==
  ASSUME NEW n \in Nat, NEW x \in ReaderOf(n), 0 \in 0..MaxTime
  PROVE  [x EXCEPT !.pc = "done", !.seen = 0, !.at = 0] \in ReaderOf(n)
<1>1. PICK S, T : S = 0..n /\ T = 0..MaxTime
  OBVIOUS
<1>2. 0 \in S /\ 0 \in T
  <2>1. 0 \in 0..n
    OBVIOUS
  <2>2. QED
    BY <1>1, <2>1
<1>3. x \in [pc : {"idle", "answer", "done"}, seen : S, at : T, began : SUBSET Findings]
  BY <1>1 DEF ReaderOf
<1>4. [x EXCEPT !.pc = "done", !.seen = 0, !.at = 0]
        \in [pc : {"idle", "answer", "done"}, seen : S, at : T, began : SUBSET Findings]
  BY <1>2, <1>3
<1>5. QED
  BY <1>1, <1>4 DEF ReaderOf

LEMMA AnswerType ==
  ASSUME TypeOK, NEW r \in Readers, Answer(r)
  PROVE  TypeOK'
<1>a. /\ reader \in [Readers -> ReaderOf(Len(runs))] /\ Len(runs) \in Nat
      /\ answer \in [Readers -> States] /\ 0 \in 0..MaxTime
  BY TypeIs, AuditorAssumption
<1>1. ASSUME NEW n \in Nat, NEW x \in ReaderOf(n)
      PROVE  [x EXCEPT !.pc = "done", !.seen = 0, !.at = 0] \in ReaderOf(n)
  BY <1>a, ReaderDone
<1>2. reader' = [reader EXCEPT ![r] = [reader[r] EXCEPT !.pc = "done", !.seen = 0, !.at = 0]]
  BY <1>a DEF Answer
<1>3. reader' \in [Readers -> ReaderOf(Len(runs))]
  <2>1. [reader[r] EXCEPT !.pc = "done", !.seen = 0, !.at = 0] \in ReaderOf(Len(runs))
    BY <1>a, <1>1
  <2>2. QED
    BY <1>a, <1>2, <2>1
<1>4. answer' \in [Readers -> States]
  <2>1. PICK states : states = Answered(r)
    OBVIOUS
  <2>2. states \in States
    BY <2>1, AnsweredType
  <2>3. answer' = [answer EXCEPT ![r] = states]
    BY <2>1, AnswerIs
  <2>4. QED
    BY <1>a, <2>2, <2>3
<1>5. UNCHANGED <<audit, report, storeVars, keys, sent, worldVars, failures>>
  BY AnswerIs
<1>6. QED
  BY <1>3, <1>4, <1>5 DEF TypeOK, ReaderOf, storeVars, worldVars

World == Forget \/ Tick \/ SetBack

LEMMA WorldType ==
  ASSUME TypeOK, World
  PROVE  TypeOK'
<1>0. MaxTime \in Nat /\ MaxChanges \in Nat
  BY AuditorAssumption
<1>1. CASE Forget
  <2>1. PICK f \in Findings : /\ baseline' = [baseline EXCEPT ![f] = 0]
                              /\ forgotten' = forgotten \cup {f}
    BY <1>1 DEF Forget, Baseline
  <2>2. baseline' \in [Findings -> 0..Len(runs)]
    BY <2>1 DEF TypeOK
  <2>3. changes' \in 0..MaxChanges
    BY <1>0, <1>1 DEF TypeOK, Forget
  <2>4. QED
    BY <1>1, <2>1, <2>2, <2>3 DEF TypeOK, Forget
<1>2. CASE Tick
  <2>1. now' \in 0..MaxTime
    BY <1>0, <1>2 DEF TypeOK, Tick
  <2>2. QED
    BY <1>2, <2>1 DEF TypeOK, Tick, storeVars
<1>3. CASE SetBack
  <2>1. now' \in 0..MaxTime /\ changes' \in 0..MaxChanges
    BY <1>0, <1>3 DEF TypeOK, SetBack
  <2>2. QED
    BY <1>3, <2>1 DEF TypeOK, SetBack, storeVars
<1>4. QED
  BY <1>1, <1>2, <1>3 DEF World

-----------------------------------------------------------------------------
(* Where an execution is, and what that says of the rest of it.            *)

Opened   == Collecting \cup {"evaluate", "baseline", "trace"}
Unstored == {"idle", "failed"} \cup Opened \cup Storing
Stored   == {"events", "accept", "report", "done"}

PlaceOK(a) ==
  /\ audit[a].pc = "idle" => audit[a].began = {} /\ audit[a].command = 1 /\ a \notin keys
  /\ audit[a].pc # "idle" => audit[a].kind \in Kinds
  /\ audit[a].pc \in Unstored => audit[a].run = 0
  /\ audit[a].pc \in Stored => audit[a].run # 0
  /\ audit[a].pc \in {"scan", "prepare", "shred"} => audit[a].kind = "ssh"
  /\ audit[a].pc \in {"scan", "prepare"} => audit[a].command = 1
  /\ audit[a].pc = "command" =>
       audit[a].kind # "run" /\ audit[a].command <= Commands(audit[a].kind)
  /\ audit[a].pc = "events" => audit[a].kind # "run"
  /\ audit[a].pc = "accept" => audit[a].accept
  /\ audit[a].pc # "done" => report[a] = NoStates
  /\ a \in keys => /\ audit[a].kind = "ssh"
                  /\ \/ audit[a].pc \in {"command", "shred", "dead"}
                     \/ audit[a].left

\* An execution that a step leaves as it is, but for being alone.
Kept(a) ==
  /\ audit'[a] = [audit[a] EXCEPT !.alone = audit'[a].alone]
  /\ report'[a] = report[a]
  /\ a \in keys' <=> a \in keys
  /\ \A i \in 1..2 : <<a, i>> \in sent' <=> <<a, i>> \in sent
  /\ Mine(a)' = Mine(a) /\ Len(events) <= Len(events')
  /\ \A k \in Mine(a) : events'[k] = events[k]

\* The steps of an execution.
Steps(a) == Collects(a) \/ Stores(a) \/ InsertRun(a)

LEMMA KindsAre == ASSUME NEW kind \in Kinds PROVE kind \in {"run", "file", "ssh"}
BY AuditorAssumption

\* Events are only written after those that are there, and each execution writes
\* its own.
EventsGrow(a) ==
  /\ Len(events) \in Nat /\ Len(events') \in Nat /\ Len(events) <= Len(events')
  /\ \A k \in 1..Len(events) : events'[k] = events[k]
  /\ \A k \in (Len(events) + 1)..Len(events') : events'[k].audit = a

LEMMA StepEvents ==
  ASSUME TypeOK, NEW a \in Audits, Steps(a), PlaceOK(a)
  PROVE  EventsGrow(a)
<1>1. events \in Seq(Event) /\ Len(events) \in Nat
  BY TypeIs
<1>2. CASE RecordEvents(a)
  <2>1. audit[a].kind \in {"file", "ssh"}
    BY <1>2, KindsAre DEF RecordEvents, PlaceOK
  <2>2. PICK n, m : n = Len(events) /\ m = Commands(audit[a].kind)
    OBVIOUS
  <2>a. /\ m \in 1..2 /\ n \in Nat /\ Len(events') = n + m
        /\ \A k \in 1..n : events'[k] = events[k]
        /\ \A i \in 1..m : events'[n + i] = OkEvent(a, i)
    BY <1>2, <2>1, <2>2, EventsAdded
  <2>3. /\ m \in 1..2 /\ n \in Nat /\ Len(events') = n + m
        /\ \A k \in 1..n : events'[k] = events[k]
        /\ \A i \in 1..m : events'[n + i].audit = a
    BY <2>a, OkEventIs
  <2>4. ASSUME NEW k \in (n + 1)..(n + m) PROVE events'[k].audit = a
    <3>1. k - n \in 1..m /\ n + (k - n) = k
      BY <2>3
    <3>2. QED
      BY <2>3, <3>1
  <2>5. QED
    BY <2>2, <2>3, <2>4 DEF EventsGrow
<1>3. CASE Trace(a)
  <2>1. CASE events' = events
    BY <1>1, <2>1 DEF EventsGrow
  <2>2. CASE events' = Append(events, FailedEvent(a))
    <3>1. PICK e, n : e = FailedEvent(a) /\ n = Len(events)
      OBVIOUS
    <3>2. Len(events') = n + 1 /\ events'[n + 1] = e /\ \A k \in 1..n : events'[k] = events[k]
      BY <1>1, <2>2, <3>1
    <3>3. e.audit = a
      BY <3>1 DEF FailedEvent
    <3>4. QED
      BY <1>1, <3>1, <3>2, <3>3 DEF EventsGrow
  <2>3. QED
    BY <1>3, <2>1, <2>2 DEF Trace
<1>4. CASE ~RecordEvents(a) /\ ~Trace(a)
  <2>1. events' = events
    BY <1>4 DEF Steps, Collects, Stores, Start, Scan, Prepare, CommandSucceeds, CommandFails,
       Shred, Evaluate, ReadBaseline, ReadPrevious, Stamp, Accept, Conclude, Die, InsertRun,
       storeVars
  <2>2. QED
    BY <1>1, <2>1 DEF EventsGrow
<1>5. QED
  BY <1>2, <1>3, <1>4

\* A step of one execution keeps the others.
LEMMA OthersKept ==
  ASSUME TypeOK, NEW a \in Audits, Steps(a), PlaceOK(a), NEW b \in Audits \ {a}
  PROVE  Kept(b)
<1>a. /\ audit \in [Audits -> AuditOf(Len(runs))] /\ report \in [Audits -> States]
      /\ sent \subseteq Audits \X (1..2)
  BY TypeIs
<1>b. audit[b] \in AuditOf(Len(runs))
  BY <1>a
<1>c. \A x \in AuditOf(Len(runs)) : x = [x EXCEPT !.alone = x.alone]
  BY DEF AuditOf
<1>1. CASE ReadBaseline(a)
  <2>1. audit'[b] = [audit[b] EXCEPT !.alone = audit'[b].alone]
    BY <1>1, <1>a, <1>b DEF ReadBaseline, AuditOf
  <2>a. Len(events) \in Nat
    BY TypeIs
  <2>b. UNCHANGED <<report, events, keys, sent>>
    BY <1>1 DEF ReadBaseline, storeVars
  <2>2. UNCHANGED <<report, events, keys, sent>> /\ Len(events) <= Len(events)
    BY <2>a, <2>b
  <2>3. QED
    BY <2>1, <2>2 DEF Kept, Mine
<1>2. CASE audit'[b] = audit[b]
  <2>1. audit'[b] = [audit[b] EXCEPT !.alone = audit'[b].alone]
    BY <1>2, <1>b, <1>c
  <2>2. report'[b] = report[b]
    BY <1>a DEF Steps, Collects, Stores, Start, Scan, Prepare, CommandSucceeds, CommandFails,
                Shred, Trace, Evaluate, ReadBaseline, ReadPrevious, Stamp, RecordEvents, Accept,
                Conclude, Die, InsertRun
  <2>3. b \in keys' <=> b \in keys
    BY <1>a DEF Steps, Collects, Stores, Start, Scan, Prepare, CommandSucceeds, CommandFails,
                Shred, Trace, Evaluate, ReadBaseline, ReadPrevious, Stamp, RecordEvents, Accept,
                Conclude, Die, InsertRun
  <2>4. \A i \in 1..2 : <<b, i>> \in sent' <=> <<b, i>> \in sent
    <3>1. sent' = sent \/ sent' = sent \cup {<<a, audit[a].command>>}
      BY DEF Steps, Collects, Stores, Start, Scan, Prepare, CommandSucceeds, CommandFails,
                Shred, Trace, Evaluate, ReadBaseline, ReadPrevious, Stamp, RecordEvents, Accept,
                Conclude, Die, InsertRun
    <3>2. QED
      BY <3>1
  <2>5. /\ Mine(b)' = Mine(b) /\ Len(events) <= Len(events')
        /\ \A k \in Mine(b) : events'[k] = events[k]
    BY StepEvents DEF EventsGrow, Mine
  <2>6. QED
    BY <2>1, <2>2, <2>3, <2>4, <2>5 DEF Kept
<1>3. ASSUME ~ReadBaseline(a) PROVE audit'[b] = audit[b]
  BY <1>3, <1>a DEF Steps, Collects, Stores, Start, Scan, Prepare, CommandSucceeds, CommandFails,
              Shred, Trace, Evaluate, ReadPrevious, Stamp, RecordEvents, Accept, Conclude,
              Die, InsertRun, Begin, Goto, ChannelFails
<1>4. QED
  BY <1>1, <1>2, <1>3

LEMMA KeptPlace ==
  ASSUME TypeOK, NEW a \in Audits, PlaceOK(a), Kept(a)
  PROVE  PlaceOK(a)'
<1>1. audit[a] \in AuditOf(Len(runs))
  BY TypeIs
<1>2. QED
  BY <1>1 DEF PlaceOK, Kept, AuditOf

\* What the steps of an execution make of it.
Gone(a, x, pc) ==
  /\ x.pc = pc /\ x.kind = audit[a].kind /\ x.accept = audit[a].accept /\ x.run = audit[a].run
  /\ x.command = 1 /\ x.base = {} /\ x.last = 0 /\ x.left = audit[a].left

LEMMA EndedIs ==
  ASSUME NEW a, NEW pc
  PROVE  /\ Gone(a, Ended(a, pc), pc)
         /\ Ended(a, pc).began = {} /\ Ended(a, pc).found = {}
         /\ Ended(a, pc).alone = audit[a].alone
BY DEF Ended, NewAudit, Gone

BegunAs(a) ==
  \E kind \in Kinds, accept \in BOOLEAN, pc \in Active :
    /\ audit'[a] = [audit[a] EXCEPT !.kind = kind, !.pc = pc, !.accept = accept,
                                   !.began = Baseline]
    /\ \/ kind = "run" /\ pc = "evaluate"
       \/ kind = "file" /\ pc = "command"
       \/ kind = "ssh" /\ pc = "scan"

LEMMA Started ==
  ASSUME TypeOK, NEW a \in Audits, Start(a)
  PROVE  /\ audit[a].pc = "idle"
         /\ BegunAs(a)
         /\ UNCHANGED <<report, storeVars, keys, sent, reader, answer, worldVars, failures>>
<1>1. audit \in [Audits -> AuditOf(Len(runs))]
  BY TypeIs
<1>a. {"evaluate", "command", "scan"} \subseteq Active
  BY DEF Active, Collecting
<1>b. ASSUME NEW kind \in Kinds, NEW pc \in Active, Begin(a, kind, pc),
             \/ kind = "run" /\ pc = "evaluate"
             \/ kind = "file" /\ pc = "command"
             \/ kind = "ssh" /\ pc = "scan"
      PROVE  BegunAs(a)
  <2>1. PICK accept \in BOOLEAN :
          audit'[a] = [audit[a] EXCEPT !.kind = kind, !.pc = pc, !.accept = accept,
                                       !.began = Baseline]
    BY <1>1, <1>b DEF Begin
  <2>2. PICK x : x = audit'[a]
    OBVIOUS
  <2>3. QED
    BY <1>b, <2>1, <2>2 DEF BegunAs
<1>3. BegunAs(a)
  BY <1>a, <1>b DEF Start
<1>4. audit[a].pc = "idle"
  BY DEF Start
<1>5. UNCHANGED <<report, storeVars, keys, sent, reader, answer, worldVars, failures>>
  BY DEF Start
<1>6. QED
  BY <1>3, <1>4, <1>5

LEMMA StepPlace ==
  ASSUME TypeOK, NEW a \in Audits, PlaceOK(a), Steps(a)
  PROVE  PlaceOK(a)'
<1>a. /\ audit \in [Audits -> AuditOf(Len(runs))] /\ report \in [Audits -> States]
      /\ keys \subseteq Audits /\ Len(runs) \in Nat
  BY TypeIs
<1>b. audit[a] \in AuditOf(Len(runs))
  BY <1>a
<1>1. CASE Start(a)
  <2>1. PICK kind \in Kinds, accept \in BOOLEAN, pc \in Active :
          /\ audit'[a] = [audit[a] EXCEPT !.kind = kind, !.pc = pc, !.accept = accept,
                                         !.began = Baseline]
          /\ \/ kind = "run" /\ pc = "evaluate"
             \/ kind = "file" /\ pc = "command"
             \/ kind = "ssh" /\ pc = "scan"
    BY <1>1, Started DEF BegunAs
  <2>2. report' = report /\ keys' = keys /\ audit[a].pc = "idle"
    BY <1>1, Started
  <2>3. audit'[a].pc = pc /\ audit'[a].kind = kind /\ audit'[a].run = audit[a].run
        /\ audit'[a].command = audit[a].command /\ audit'[a].left = audit[a].left
    BY <1>b, <2>1 DEF AuditOf
  <2>4. QED
    BY <2>1, <2>2, <2>3 DEF PlaceOK, Unstored, Stored, Opened, Collecting, Storing, Commands
<1>2. CASE Scan(a)
  BY <1>2, <1>a, <1>b DEF Scan, Goto, ChannelFails, PlaceOK, Unstored, Stored, Opened, Collecting,
     Storing, Commands, AuditOf
<1>3. CASE Prepare(a)
  <2>1. /\ audit[a].pc = "prepare" /\ audit[a].kind = "ssh" /\ audit[a].command = 1
        /\ audit[a].run = 0 /\ report[a] = NoStates
    BY <1>3 DEF Prepare, PlaceOK, Unstored, Opened, Collecting
  <2>2. /\ audit'[a].pc \in {"command", "shred"}
        /\ audit'[a].kind = audit[a].kind /\ audit'[a].run = audit[a].run
        /\ audit'[a].command = audit[a].command
    BY <1>3, <1>a, <1>b DEF Prepare, Goto, ChannelFails, AuditOf
  <2>3. report' = report /\ Commands("ssh") = 2
    BY <1>3 DEF Prepare, Commands
  <2>4. QED
    BY <2>1, <2>2, <2>3 DEF PlaceOK, Unstored, Stored, Opened, Collecting, Storing
<1>4. CASE CommandSucceeds(a)
  <2>1. audit[a].pc = "command" /\ audit[a].kind \in {"file", "ssh"}
        /\ report' = report /\ keys' = keys
    BY <1>4, KindsAre DEF CommandSucceeds, PlaceOK
  <2>2. audit[a].run = 0 /\ report[a] = NoStates
    BY <2>1 DEF PlaceOK, Unstored, Opened, Collecting
  <2>3. CASE LastCommand(a)
    <3>1. audit'[a].pc = After(a) /\ audit'[a].kind = audit[a].kind
          /\ audit'[a].run = audit[a].run
      BY <1>4, <1>a, <1>b, <2>3 DEF CommandSucceeds, Goto, AuditOf
    <3>2. After(a) = IF audit[a].kind = "ssh" THEN "shred" ELSE "evaluate"
      BY DEF After
    <3>3. a \in keys => audit[a].kind = "ssh"
      BY DEF PlaceOK
    <3>4. QED
      BY <2>1, <2>2, <3>1, <3>2, <3>3
         DEF PlaceOK, Unstored, Stored, Opened, Collecting, Storing
  <2>4. CASE ~LastCommand(a)
    <3>1. audit'[a].pc = "command" /\ audit'[a].kind = audit[a].kind
          /\ audit'[a].run = audit[a].run /\ audit'[a].command = audit[a].command + 1
      BY <1>4, <1>a, <1>b, <2>1, <2>4 DEF CommandSucceeds, AuditOf
    <3>2. audit[a].command + 1 <= Commands(audit[a].kind)
      BY <2>1, <2>4, <1>b DEF PlaceOK, LastCommand, Commands, AuditOf
    <3>3. QED
      BY <2>1, <2>2, <3>1, <3>2 DEF PlaceOK, Unstored, Stored, Opened, Collecting, Storing
  <2>5. QED
    BY <2>3, <2>4
<1>5. CASE CommandFails(a)
  <2>1. audit[a].pc = "command" /\ audit[a].kind \in {"file", "ssh"}
        /\ report' = report /\ keys' = keys
    BY <1>5, KindsAre DEF CommandFails, PlaceOK
  <2>2. audit[a].run = 0 /\ report[a] = NoStates
    BY <2>1 DEF PlaceOK, Unstored, Opened, Collecting
  <2>3. /\ audit'[a].pc = IF audit[a].kind = "ssh" THEN "shred" ELSE "trace"
        /\ audit'[a].kind = audit[a].kind /\ audit'[a].run = audit[a].run
    BY <1>5, <1>a, <1>b DEF CommandFails, ChannelFails, AuditOf
  <2>4. QED
    BY <2>1, <2>2, <2>3 DEF PlaceOK, Unstored, Stored, Opened, Collecting, Storing
<1>6. CASE Shred(a)
  <2>1. /\ audit[a].pc = "shred" /\ audit'[a].pc \in {"evaluate", "trace"}
        /\ audit'[a].kind = audit[a].kind /\ audit'[a].run = audit[a].run
        /\ report' = report /\ (a \in keys' => audit'[a].left)
    <3>1. CASE Goto(a, AfterShred(a)) /\ keys' = keys \ {a}
      BY <1>6, <3>1, <1>a, <1>b DEF Shred, Goto, AfterShred, AuditOf
    <3>2. CASE audit' = [audit EXCEPT ![a].pc = AfterShred(a), ![a].left = TRUE]
      BY <1>6, <3>2, <1>a, <1>b DEF Shred, AfterShred, AuditOf
    <3>3. QED
      BY <1>6, <3>1, <3>2 DEF Shred
  <2>2. a \in keys' => a \in keys
    BY <1>6 DEF Shred
  <2>3. QED
    BY <2>1, <2>2 DEF PlaceOK, Unstored, Stored, Opened, Collecting, Storing
<1>7. CASE Trace(a) \/ Die(a) \/ (Evaluate(a) /\ audit' = [audit EXCEPT ![a] = Ended(a, "failed")])
  <2>1. PICK pc \in {"failed", "dead"} :
          /\ audit' = [audit EXCEPT ![a] = Ended(a, pc)]
          /\ pc = "failed" => audit[a].pc \in {"trace", "evaluate"}
    BY <1>7, Evaluated DEF Trace, Die
  <2>2. audit'[a] = Ended(a, pc) /\ Gone(a, Ended(a, pc), pc)
    BY <1>a, <2>1, EndedIs
  <2>3. report' = report /\ keys' = keys /\ audit[a].pc \in Active
    BY <1>7, Evaluated DEF Trace, Die, Active
  <2>4. QED
    BY <2>1, <2>2, <2>3 DEF PlaceOK, Unstored, Stored, Opened, Collecting, Storing, Active, Gone
<1>13. CASE Evaluate(a) /\ \E s \in SUBSET Findings :
              audit' = [audit EXCEPT ![a] = [audit[a] EXCEPT !.pc = "baseline", !.found = s]]
  <2>1. PICK s \in SUBSET Findings :
          audit' = [audit EXCEPT ![a] = [audit[a] EXCEPT !.pc = "baseline", !.found = s]]
    BY <1>13
  <2>2. audit'[a].pc = "baseline" /\ audit'[a].kind = audit[a].kind
        /\ audit'[a].run = audit[a].run /\ audit'[a].left = audit[a].left
    BY <1>a, <1>b, <2>1 DEF AuditOf
  <2>3. audit[a].pc = "evaluate" /\ report' = report /\ keys' = keys
    BY <1>13, Evaluated
  <2>4. QED
    BY <2>2, <2>3 DEF PlaceOK, Unstored, Stored, Opened, Collecting, Storing
<1>14. CASE Evaluate(a)
  BY <1>7, <1>13, <1>14, Evaluated
<1>8. CASE ReadBaseline(a) \/ ReadPrevious(a) \/ Stamp(a)
  <2>1. /\ audit[a].pc \in {"baseline", "previous", "stamp"}
        /\ audit'[a].pc \in Storing /\ audit'[a].run = audit[a].run
        /\ audit'[a].kind = audit[a].kind /\ audit'[a].left = audit[a].left
        /\ report' = report /\ keys' = keys
    <3>1. CASE ReadBaseline(a)
      BY <3>1, <1>a, <1>b DEF ReadBaseline, Storing, AuditOf
    <3>2. CASE ReadPrevious(a) \/ Stamp(a)
      BY <3>2, <1>a, <1>b DEF ReadPrevious, Stamp, Storing, AuditOf
    <3>3. QED
      BY <1>8, <3>1, <3>2
  <2>2. QED
    BY <2>1 DEF PlaceOK, Unstored, Stored, Opened, Collecting, Storing
<1>9. CASE InsertRun(a)
  BY <1>9, <1>a, <1>b DEF InsertRun, AfterEvents, PlaceOK, Unstored, Stored, Opened,
     Collecting, Storing, AuditOf
<1>10. CASE RecordEvents(a) \/ Accept(a)
  <2>1. /\ audit[a].pc \in {"events", "accept"} /\ audit'[a].pc \in {"accept", "report"}
        /\ audit'[a].pc = "accept" => audit[a].accept
        /\ audit'[a].run = audit[a].run /\ audit'[a].accept = audit[a].accept
        /\ audit'[a].kind = audit[a].kind /\ audit'[a].left = audit[a].left
        /\ report' = report /\ keys' = keys
    BY <1>10, <1>a, <1>b DEF RecordEvents, Accept, Goto, AfterEvents, AuditOf
  <2>2. QED
    BY <2>1 DEF PlaceOK, Unstored, Stored, Opened, Collecting, Storing
<1>11. CASE Conclude(a)
  <2>1. audit'[a] = [Ended(a, "done") EXCEPT !.began = audit[a].began, !.found = audit[a].found]
    BY <1>11, <1>a DEF Conclude
  <2>2. Gone(a, audit'[a], "done")
    <3>1. Ended(a, "done") \in AuditOf(Len(runs)) /\ Gone(a, Ended(a, "done"), "done")
      BY EndedType, EndedIs
    <3>2. QED
      BY <2>1, <3>1 DEF Gone, AuditOf
  <2>3. audit[a].pc = "report" /\ keys' = keys
    BY <1>11 DEF Conclude
  <2>4. QED
    BY <2>2, <2>3 DEF PlaceOK, Unstored, Stored, Opened, Collecting, Storing, Gone
<1>12. QED
  BY <1>1, <1>2, <1>3, <1>4, <1>5, <1>6, <1>7, <1>8, <1>9, <1>10, <1>11, <1>14
     DEF Steps, Collects, Stores

\* While a configuration is collected and evaluated nothing else of an execution
\* changes; or it ends.
LEMMA WhileCollecting ==
  ASSUME TypeOK, NEW a \in Audits, Collects(a), ~Start(a)
  PROVE  /\ audit[a].pc \in Opened /\ UNCHANGED <<report, baseline>>
         /\ \/ /\ audit'[a].pc \in Opened /\ audit'[a].base = audit[a].base
               /\ audit'[a].run = audit[a].run /\ audit'[a].began = audit[a].began
               /\ audit'[a].alone = audit[a].alone
            \/ audit' = [audit EXCEPT ![a] = Ended(a, "failed")]
<1>a. audit \in [Audits -> AuditOf(Len(runs))] /\ audit[a] \in AuditOf(Len(runs))
  BY TypeIs
<1>0. audit[a].pc \in Opened /\ UNCHANGED <<report, baseline>>
  BY DEF Collects, Scan, Prepare, CommandSucceeds, CommandFails, Shred, Trace, Evaluate,
     Opened, Collecting, storeVars
<1>b. ASSUME NEW x, audit'[a] = x,
             \/ \E pc \in Opened : \/ x = [audit[a] EXCEPT !.pc = pc]
                                  \/ x = [audit[a] EXCEPT !.pc = pc, !.ok = FALSE]
                                  \/ x = [audit[a] EXCEPT !.pc = pc, !.left = TRUE]
                                  \/ \E s : x = [audit[a] EXCEPT !.pc = pc, !.found = s]
      PROVE  /\ audit'[a].pc \in Opened /\ audit'[a].base = audit[a].base
             /\ audit'[a].run = audit[a].run /\ audit'[a].began = audit[a].began
             /\ audit'[a].alone = audit[a].alone
  BY <1>a, <1>b DEF AuditOf
<1>1. CASE Scan(a) \/ Prepare(a) \/ CommandFails(a)
  <2>1. \E pc \in Opened : \/ audit' = [audit EXCEPT ![a].pc = pc]
                          \/ audit' = [audit EXCEPT ![a].pc = pc, ![a].ok = FALSE]
    BY <1>1 DEF Scan, Prepare, CommandFails, Goto, ChannelFails, Opened, Collecting
  <2>2. \E pc \in Opened : \/ audit'[a] = [audit[a] EXCEPT !.pc = pc]
                          \/ audit'[a] = [audit[a] EXCEPT !.pc = pc, !.ok = FALSE]
    BY <1>a, <2>1
  <2>3. QED
    BY <1>0, <1>b, <2>2
<1>2. CASE CommandSucceeds(a)
  <2>1. CASE LastCommand(a)
    <3>1. After(a) \in Opened /\ audit' = [audit EXCEPT ![a].pc = After(a)]
      BY <1>2, <2>1 DEF CommandSucceeds, Goto, After, Opened, Collecting
    <3>2. audit'[a] = [audit[a] EXCEPT !.pc = After(a)]
      BY <1>a, <3>1
    <3>3. QED
      BY <1>0, <1>b, <3>1, <3>2
  <2>2. CASE ~LastCommand(a)
    <3>1. audit'[a] = [audit[a] EXCEPT !.command = audit[a].command + 1]
      BY <1>2, <1>a, <2>2 DEF CommandSucceeds
    <3>2. QED
      BY <1>0, <1>a, <3>1 DEF AuditOf
  <2>3. QED
    BY <2>1, <2>2
<1>3. CASE Shred(a)
  <2>1. PICK pc \in Opened : pc = AfterShred(a)
    BY DEF AfterShred, Opened
  <2>2. \/ audit' = [audit EXCEPT ![a].pc = pc]
        \/ audit' = [audit EXCEPT ![a].pc = pc, ![a].left = TRUE]
    BY <1>3, <2>1 DEF Shred, Goto
  <2>3. \/ audit'[a] = [audit[a] EXCEPT !.pc = pc]
        \/ audit'[a] = [audit[a] EXCEPT !.pc = pc, !.left = TRUE]
    BY <1>a, <2>2
  <2>4. QED
    BY <1>0, <1>b, <2>3
<1>4. CASE Trace(a)
  BY <1>0, <1>4 DEF Trace
<1>5. CASE Evaluate(a)
  <2>1. CASE audit' = [audit EXCEPT ![a] = Ended(a, "failed")]
    BY <1>0, <2>1
  <2>2. CASE \E s \in SUBSET Findings :
               audit' = [audit EXCEPT ![a] = [audit[a] EXCEPT !.pc = "baseline", !.found = s]]
    <3>1. PICK s : audit'[a] = [audit[a] EXCEPT !.pc = "baseline", !.found = s]
      BY <1>a, <2>2
    <3>2. "baseline" \in Opened
      BY DEF Opened
    <3>3. QED
      BY <1>0, <1>b, <3>1, <3>2
  <2>3. QED
    BY <1>5, <2>1, <2>2, Evaluated
<1>6. QED
  BY <1>1, <1>2, <1>3, <1>4, <1>5 DEF Collects

-----------------------------------------------------------------------------
(* The commands that were sent, and their events.                          *)

Complete(a)    == \E p \in 0..Len(events) : TracedAfter(a, p)
FailedAlone(a) == \E k \in 1..Len(events) :
                    Mine(a) = {k} /\ events[k].run = 0 /\ events[k].outcome = "failed"

TraceOK(a) ==
  /\ audit[a].pc \in {"idle", "scan", "prepare"} => Sent(a) = {}
  /\ audit[a].pc = "command" => Sent(a) = {i \in 1..2 : i < audit[a].command}
  /\ \/ audit[a].pc = "shred" /\ audit[a].ok
     \/ audit[a].pc \in {"evaluate", "baseline"} \cup Storing
     \/ audit[a].run # 0
     => Sent(a) = 1..Commands(audit[a].kind)
  /\ audit[a].pc \in {"accept", "report", "done"} => Complete(a)
  /\ audit[a].pc = "failed" => Mine(a) = {} \/ FailedAlone(a)
  /\ audit[a].pc # "failed" /\ audit[a].run = 0 => Mine(a) = {}
  /\ audit[a].pc = "events" => Mine(a) = {}
  /\ audit[a].pc = "dead" /\ audit[a].run # 0 => Mine(a) = {} \/ Complete(a)

LEMMA CommandsAre ==
  ASSUME TypeOK, NEW a \in Audits, PlaceOK(a), audit[a].pc # "idle"
  PROVE  Commands(audit[a].kind) \in 0..2
BY KindsAre DEF PlaceOK, Commands

\* The events of an execution stay where they are.
SameEvents(a) ==
  /\ Mine(a)' = Mine(a) /\ Len(events') \in Nat /\ Len(events) <= Len(events')
  /\ \A k \in Mine(a) : events'[k] = events[k]

LEMMA EventsStay ==
  ASSUME TypeOK, NEW a \in Audits, SameEvents(a)
  PROVE  /\ Complete(a) /\ Commands(audit[a].kind) \in 0..2
              /\ audit'[a].kind = audit[a].kind /\ audit'[a].run = audit[a].run
            => Complete(a)'
         /\ FailedAlone(a) => FailedAlone(a)'
<1>a. Len(events) \in Nat
  BY TypeIs
<1>1. ASSUME Complete(a), Commands(audit[a].kind) \in 0..2,
             audit'[a].kind = audit[a].kind, audit'[a].run = audit[a].run
      PROVE  Complete(a)'
  <2>1. PICK p \in 0..Len(events) : TracedAfter(a, p)
    BY <1>1 DEF Complete
  <2>2. PICK n, m : n = Commands(audit[a].kind) /\ m = audit[a].run
    OBVIOUS
  <2>3. /\ n \in 0..2 /\ Mine(a) = (p + 1)..(p + n)
        /\ \A i \in 1..n :
             events[p + i] = [run |-> m, audit |-> a, command |-> i, outcome |-> "ok"]
    BY <1>1, <2>1, <2>2 DEF TracedAfter
  <2>4. ASSUME NEW i \in 1..n
        PROVE  events'[p + i] = [run |-> m, audit |-> a, command |-> i, outcome |-> "ok"]
    <3>1. p + i \in Mine(a)
      BY <1>a, <2>3
    <3>2. QED
      BY <2>3, <3>1 DEF SameEvents
  <2>5. Mine(a)' = (p + 1)..(p + n) /\ p \in 0..Len(events')
    BY <1>a, <2>3 DEF SameEvents
  <2>6. TracedAfter(a, p)'
    BY <1>1, <2>2, <2>4, <2>5 DEF TracedAfter
  <2>7. QED
    BY <2>5, <2>6 DEF Complete
<1>2. ASSUME FailedAlone(a) PROVE FailedAlone(a)'
  BY <1>a, <1>2 DEF FailedAlone, SameEvents
<1>3. QED
  BY <1>1, <1>2

LEMMA KeptTrace ==
  ASSUME TypeOK, NEW a \in Audits, PlaceOK(a), TraceOK(a), Kept(a), Len(events') \in Nat
  PROVE  TraceOK(a)'
<1>1. audit[a] \in AuditOf(Len(runs))
  BY TypeIs
<1>2. Sent(a)' = Sent(a) /\ Mine(a)' = Mine(a) /\ SameEvents(a)
  BY DEF Kept, Sent, SameEvents
<1>3. audit'[a].pc = audit[a].pc /\ audit'[a].kind = audit[a].kind
      /\ audit'[a].command = audit[a].command /\ audit'[a].ok = audit[a].ok
      /\ audit'[a].run = audit[a].run
  BY <1>1 DEF Kept, AuditOf
<1>4. /\ audit[a].pc # "idle" /\ Complete(a) => Complete(a)'
      /\ FailedAlone(a) => FailedAlone(a)'
  BY <1>2, <1>3, CommandsAre, EventsStay
<1>5. QED
  BY <1>2, <1>3, <1>4 DEF TraceOK

LEMMA StepTrace ==
  ASSUME TypeOK, NEW a \in Audits, PlaceOK(a), TraceOK(a), Steps(a)
  PROVE  TraceOK(a)'
<1>f. events \in Seq(Event) /\ Len(events) \in Nat
  BY TypeIs
<1>a. /\ audit \in [Audits -> AuditOf(Len(runs))] /\ sent \subseteq Audits \X (1..2)
      /\ Len(runs) \in Nat
  BY TypeIs
<1>b. audit[a] \in AuditOf(Len(runs)) /\ audit[a].command \in 1..2
  BY <1>a DEF AuditOf
<1>c. ASSUME UNCHANGED events PROVE Mine(a)' = Mine(a) /\ SameEvents(a)
  BY <1>c, <1>f DEF Mine, SameEvents
<1>d. ASSUME UNCHANGED sent PROVE Sent(a)' = Sent(a)
  BY <1>d DEF Sent
<1>e. Commands("run") = 0 /\ Commands("file") = 1 /\ Commands("ssh") = 2 /\ 1..0 = {}
  BY DEF Commands
<1>1. CASE Start(a)
  <2>1. PICK kind \in Kinds, accept \in BOOLEAN, pc \in Active :
          /\ audit'[a] = [audit[a] EXCEPT !.kind = kind, !.pc = pc, !.accept = accept,
                                         !.began = Baseline]
          /\ \/ kind = "run" /\ pc = "evaluate"
             \/ kind = "file" /\ pc = "command"
             \/ kind = "ssh" /\ pc = "scan"
    BY <1>1, Started DEF BegunAs
  <2>2. audit[a].pc = "idle" /\ Mine(a)' = Mine(a) /\ Sent(a)' = Sent(a)
    BY <1>1, <1>c, <1>d, Started DEF storeVars
  <2>3. audit'[a].pc = pc /\ audit'[a].kind = kind /\ audit'[a].run = audit[a].run
        /\ audit'[a].command = audit[a].command
    BY <1>b, <2>1 DEF AuditOf
  <2>4. audit[a].run = 0 /\ audit[a].command = 1
    BY <2>2 DEF PlaceOK, Unstored
  <2>5. Mine(a)' = {} /\ Sent(a)' = {}
    BY <2>2, <2>4 DEF TraceOK
  <2>6. QED
    BY <1>e, <2>1, <2>3, <2>4, <2>5 DEF TraceOK, Storing
<1>2. CASE Scan(a) \/ Prepare(a)
  <2>1. /\ audit[a].pc \in {"scan", "prepare"}
        /\ \/ audit'[a].pc = "prepare" \/ audit'[a].pc = "trace"
           \/ (audit'[a].pc = "shred" /\ ~audit'[a].ok) \/ audit'[a].pc = "command"
        /\ audit'[a].run = audit[a].run /\ audit'[a].command = audit[a].command
    BY <1>2, <1>a, <1>b DEF Scan, Prepare, Goto, ChannelFails, AuditOf
  <2>2. Mine(a)' = Mine(a) /\ Sent(a)' = Sent(a)
    BY <1>2, <1>c, <1>d DEF Scan, Prepare, storeVars
  <2>3. audit[a].run = 0 /\ audit[a].command = 1
    BY <2>1 DEF PlaceOK, Unstored, Opened, Collecting
  <2>4. Mine(a)' = {} /\ Sent(a)' = {}
    BY <2>1, <2>2, <2>3 DEF TraceOK
  <2>5. QED
    BY <2>1, <2>3, <2>4 DEF TraceOK, Storing
<1>3. CASE CommandSucceeds(a)
  <2>1. audit[a].pc = "command" /\ audit[a].run = 0 /\ audit[a].kind \in {"file", "ssh"}
        /\ audit[a].command <= Commands(audit[a].kind)
    BY <1>3, KindsAre DEF CommandSucceeds, PlaceOK, Unstored, Opened, Collecting
  <2>2. Mine(a)' = {}
    BY <1>3, <1>c, <2>1 DEF CommandSucceeds, TraceOK, storeVars
  <2>3. Sent(a)' = Sent(a) \cup {audit[a].command}
    BY <1>3, <1>b DEF CommandSucceeds, Sent
  <2>4. Sent(a)' = {i \in 1..2 : i < audit[a].command + 1}
    <3>1. Sent(a) = {i \in 1..2 : i < audit[a].command}
      BY <2>1 DEF TraceOK
    <3>2. QED
      BY <1>b, <2>3, <3>1
  <2>5. CASE LastCommand(a)
    <3>1. audit'[a].pc = After(a) /\ audit'[a].run = audit[a].run
          /\ audit'[a].kind = audit[a].kind
      BY <1>3, <1>a, <1>b, <2>5 DEF CommandSucceeds, Goto, AuditOf
    <3>2. Sent(a)' = 1..Commands(audit[a].kind)
      BY <1>e, <2>1, <2>4, <2>5 DEF LastCommand
    <3>3. QED
      BY <2>1, <2>2, <3>1, <3>2 DEF TraceOK, After, Storing
  <2>6. CASE ~LastCommand(a)
    <3>1. audit'[a].pc = "command" /\ audit'[a].run = audit[a].run
          /\ audit'[a].command = audit[a].command + 1
      BY <1>3, <1>a, <1>b, <2>1, <2>6 DEF CommandSucceeds, AuditOf
    <3>2. QED
      BY <2>1, <2>2, <2>4, <3>1 DEF TraceOK, Storing
  <2>7. QED
    BY <2>5, <2>6
<1>4. CASE CommandFails(a)
  <2>1. audit[a].pc = "command" /\ audit[a].run = 0
    BY <1>4 DEF CommandFails, PlaceOK, Unstored, Opened, Collecting
  <2>2. Mine(a)' = {}
    BY <1>4, <1>c, <2>1 DEF CommandFails, TraceOK, storeVars
  <2>3. /\ audit'[a].pc = "trace" \/ (audit'[a].pc = "shred" /\ ~audit'[a].ok)
        /\ audit'[a].run = 0
    BY <1>4, <1>a, <1>b, <2>1 DEF CommandFails, ChannelFails, AuditOf
  <2>4. QED
    BY <2>2, <2>3 DEF TraceOK, Storing
<1>5. CASE Shred(a)
  <2>1. audit[a].pc = "shred" /\ audit[a].run = 0
    BY <1>5 DEF Shred, PlaceOK, Unstored, Opened, Collecting
  <2>2. Mine(a)' = {} /\ Sent(a)' = Sent(a)
    BY <1>5, <1>c, <1>d, <2>1 DEF Shred, TraceOK, storeVars
  <2>3. /\ audit'[a].pc = (IF audit[a].ok THEN "evaluate" ELSE "trace")
        /\ audit'[a].run = 0 /\ audit'[a].kind = audit[a].kind
    <3>1. CASE Goto(a, AfterShred(a))
      BY <3>1, <1>a, <1>b, <2>1 DEF Goto, AfterShred, AuditOf
    <3>2. CASE audit' = [audit EXCEPT ![a].pc = AfterShred(a), ![a].left = TRUE]
      BY <3>2, <1>a, <1>b, <2>1 DEF AfterShred, AuditOf
    <3>3. QED
      BY <1>5, <3>1, <3>2 DEF Shred
  <2>4. QED
    BY <2>1, <2>2, <2>3 DEF TraceOK, Storing
<1>6. CASE Trace(a)
  <2>1. audit[a].pc = "trace" /\ audit[a].run = 0
    BY <1>6 DEF Trace, PlaceOK, Unstored, Opened
  <2>2. PICK e, n : e = FailedEvent(a) /\ n = Len(events)
    OBVIOUS
  <2>3. e.run = 0 /\ e.outcome = "failed" /\ e.audit = a
    BY <2>2 DEF FailedEvent
  <2>4. Mine(a) = {}
    BY <2>1 DEF TraceOK
  <2>5. audit'[a].pc = "failed" /\ audit'[a].run = 0
    BY <1>6, <1>a, <2>1, EndedIs DEF Trace, Gone
  <2>6. CASE events' = events
    BY <1>c, <2>4, <2>5, <2>6 DEF TraceOK, Storing
  <2>7. CASE events' = Append(events, e)
    <3>1. Len(events') = n + 1 /\ n \in Nat /\ events'[n + 1] = e
          /\ \A k \in 1..n : events'[k] = events[k]
      BY <1>f, <2>2, <2>7
    <3>2. \A k \in 1..(n + 1) : k \in 1..n \/ k = n + 1
      BY <3>1
    <3>3. Mine(a)' = {n + 1}
      BY <2>2, <2>3, <2>4, <3>1, <3>2 DEF Mine
    <3>4. FailedAlone(a)'
      BY <2>3, <3>1, <3>3 DEF FailedAlone
    <3>5. QED
      BY <2>5, <3>4 DEF TraceOK, Storing
  <2>8. QED
    BY <1>6, <2>2, <2>6, <2>7 DEF Trace
<1>7. CASE ReadBaseline(a) \/ ReadPrevious(a) \/ Stamp(a)
  <2>1. /\ audit[a].pc \in {"baseline", "previous", "stamp"}
        /\ audit'[a].pc \in Storing /\ audit'[a].run = audit[a].run
        /\ audit'[a].kind = audit[a].kind
    <3>1. CASE ReadBaseline(a)
      BY <3>1, <1>a, <1>b DEF ReadBaseline, Storing, AuditOf
    <3>2. CASE ReadPrevious(a) \/ Stamp(a)
      BY <3>2, <1>a, <1>b DEF ReadPrevious, Stamp, Storing, AuditOf
    <3>3. QED
      BY <1>7, <3>1, <3>2
  <2>2. Mine(a)' = Mine(a) /\ Sent(a)' = Sent(a)
    BY <1>7, <1>c, <1>d DEF ReadBaseline, ReadPrevious, Stamp, storeVars
  <2>3. audit[a].run = 0
    BY <2>1 DEF PlaceOK, Unstored, Opened, Storing
  <2>4. QED
    BY <2>1, <2>2, <2>3 DEF TraceOK, Storing
<1>8. CASE InsertRun(a)
  <2>1. audit[a].pc = "insert" /\ audit[a].run = 0
    BY <1>8 DEF InsertRun, PlaceOK, Unstored, Storing
  <2>2. Mine(a)' = {} /\ Sent(a)' = 1..Commands(audit[a].kind)
    BY <1>8, <1>c, <1>d, <2>1 DEF InsertRun, TraceOK, Storing
  <2>3. /\ audit'[a].pc = (IF audit[a].kind = "run" THEN AfterEvents(a) ELSE "events")
        /\ audit'[a].kind = audit[a].kind /\ audit'[a].run # 0
    BY <1>8, <1>a, <1>b DEF InsertRun, AuditOf
  <2>4. CASE audit[a].kind = "run"
    <3>1. Sent(a)' = {}
      BY <1>e, <2>2, <2>4
    <3>2. Complete(a)'
      <4>1. PICK n : n = Len(events)
        OBVIOUS
      <4>2. n \in 0..Len(events') /\ Len(events') = n /\ (n + 1)..(n + 0) = {}
        BY <1>8, <1>f, <4>1 DEF InsertRun
      <4>3. Commands(audit'[a].kind) = 0
        BY <1>e, <2>3, <2>4
      <4>4. TracedAfter(a, n)'
        BY <1>e, <2>2, <4>2, <4>3 DEF TracedAfter
      <4>5. QED
        BY <4>2, <4>4 DEF Complete
    <3>3. audit'[a].pc \in {"accept", "report"}
      BY <2>3, <2>4 DEF AfterEvents
    <3>4. QED
      BY <2>2, <2>3, <3>2, <3>3 DEF TraceOK, Storing
  <2>5. CASE audit[a].kind # "run"
    BY <2>2, <2>3, <2>5 DEF TraceOK, Storing
  <2>6. QED
    BY <2>4, <2>5
<1>9. CASE RecordEvents(a)
  <2>1. audit[a].pc = "events"
    BY <1>9 DEF RecordEvents
  <2>4. audit[a].run # 0 /\ audit[a].kind \in {"file", "ssh"}
    BY <2>1, KindsAre DEF PlaceOK, Stored
  <2>2. Mine(a) = {} /\ Sent(a) = 1..Commands(audit[a].kind)
    BY <2>1, <2>4 DEF TraceOK
  <2>3. /\ audit'[a].pc \in {"accept", "report"} /\ audit'[a].run = audit[a].run
    BY <1>9, <1>a, <1>b DEF RecordEvents, Goto, AfterEvents, AuditOf
  <2>5. PICK n, m : n = Len(events) /\ m = Commands(audit[a].kind)
    OBVIOUS
  <2>6. /\ m \in 1..2 /\ n \in Nat /\ Len(events') = n + m
        /\ \A k \in 1..n : events'[k] = events[k]
        /\ \A i \in 1..m : events'[n + i] = OkEvent(a, i)
    BY <1>9, <2>4, <2>5, EventsAdded
  <2>7. Mine(a)' = (n + 1)..(n + m)
    <3>1. ASSUME NEW k \in 1..(n + m) PROVE k \in 1..n \/ (k - n \in 1..m /\ k = n + (k - n))
      BY <2>6
    <3>2. \A i \in 1..m : events'[n + i].audit = a
      BY <2>6, OkEventIs
    <3>3. ASSUME NEW k \in 1..n PROVE events'[k].audit # a
      BY <2>2, <2>5, <2>6 DEF Mine
    <3>4. ASSUME NEW k \in (n + 1)..(n + m)
          PROVE  k \in 1..(n + m) /\ events'[k].audit = a
      <4>1. k - n \in 1..m /\ k = n + (k - n) /\ k \in 1..(n + m)
        BY <2>6
      <4>2. QED
        BY <3>2, <4>1
    <3>5. ASSUME NEW k \in 1..(n + m), events'[k].audit = a PROVE k \in (n + 1)..(n + m)
      <4>1. ~(k \in 1..n)
        BY <3>3, <3>5
      <4>2. QED
        BY <2>6, <4>1
    <3>6. QED
      BY <2>6, <3>4, <3>5 DEF Mine
  <2>8. audit'[a].kind = audit[a].kind
    BY <1>9, <1>a, <1>b DEF RecordEvents, Goto, AuditOf
  <2>9. TracedAfter(a, n)'
    BY <2>3, <2>5, <2>6, <2>7, <2>8 DEF TracedAfter, OkEvent
  <2>10. Complete(a)'
    BY <2>6, <2>9 DEF Complete
  <2>11. Sent(a)' = Sent(a)
    BY <1>9, <1>d DEF RecordEvents
  <2>12. QED
    BY <2>2, <2>3, <2>4, <2>8, <2>10, <2>11 DEF TraceOK, Storing
<1>10. CASE Accept(a) \/ Conclude(a)
  <2>1. /\ audit[a].pc \in {"accept", "report"} /\ audit'[a].pc \in {"report", "done"}
        /\ audit'[a].run = audit[a].run /\ audit'[a].kind = audit[a].kind
    <3>1. CASE Accept(a)
      BY <3>1, <1>a, <1>b DEF Accept, Goto, AuditOf
    <3>2. CASE Conclude(a)
      <4>1. audit'[a] = [Ended(a, "done") EXCEPT !.began = audit[a].began,
                                                 !.found = audit[a].found]
        BY <3>2, <1>a DEF Conclude
      <4>2. Ended(a, "done") \in AuditOf(Len(runs)) /\ Gone(a, Ended(a, "done"), "done")
        BY EndedType, EndedIs
      <4>3. QED
        BY <3>2, <4>1, <4>2 DEF Gone, AuditOf, Conclude
    <3>3. QED
      BY <1>10, <3>1, <3>2
  <2>2. SameEvents(a) /\ Sent(a)' = Sent(a)
    BY <1>10, <1>c, <1>d DEF Accept, Conclude, storeVars
  <2>3. audit[a].run # 0 /\ Complete(a) /\ Sent(a) = 1..Commands(audit[a].kind)
    BY <2>1 DEF PlaceOK, Stored, TraceOK
  <2>4. Complete(a)'
    BY <2>1, <2>2, <2>3, CommandsAre, EventsStay
  <2>5. QED
    BY <2>1, <2>2, <2>3, <2>4 DEF TraceOK, Storing
<1>11. CASE Die(a)
  <2>1. audit'[a].pc = "dead" /\ audit'[a].run = audit[a].run /\ audit'[a].kind = audit[a].kind
    BY <1>11, <1>a, EndedIs DEF Die, Gone
  <2>2. Mine(a)' = Mine(a) /\ SameEvents(a) /\ Sent(a)' = Sent(a)
    BY <1>11, <1>c, <1>d DEF Die, storeVars
  <2>3. audit[a].pc \in Active
    BY <1>11 DEF Die
  <2>4. audit[a].run = 0 => Mine(a) = {}
    BY <2>3 DEF TraceOK, Active, Collecting, Storing
  <2>5. audit[a].run # 0 => audit[a].pc \in {"events", "accept", "report"}
    BY <2>3 DEF PlaceOK, Unstored, Opened, Active
  <2>6. audit[a].run # 0 =>
          (Mine(a) = {} \/ Complete(a)) /\ Sent(a) = 1..Commands(audit[a].kind)
    BY <2>5 DEF TraceOK
  <2>7. audit[a].pc # "idle"
    BY <2>3 DEF Active, Collecting, Storing
  <2>8. Complete(a) => Complete(a)'
    BY <2>1, <2>2, <2>7, CommandsAre, EventsStay
  <2>9. QED
    BY <2>1, <2>2, <2>4, <2>6, <2>8 DEF TraceOK, Storing
<1>13. CASE Evaluate(a)
  <2>1. audit[a].pc = "evaluate" /\ audit[a].run = 0
    BY <1>13, Evaluated DEF PlaceOK, Unstored, Opened
  <2>2. Mine(a)' = {} /\ Sent(a)' = Sent(a) /\ Sent(a) = 1..Commands(audit[a].kind)
    BY <1>13, <1>c, <1>d, <2>1, Evaluated DEF TraceOK
  <2>3. CASE \E s \in SUBSET Findings :
               audit' = [audit EXCEPT ![a] = [audit[a] EXCEPT !.pc = "baseline", !.found = s]]
    <3>1. audit'[a].pc = "baseline" /\ audit'[a].run = 0 /\ audit'[a].kind = audit[a].kind
      BY <1>a, <1>b, <2>1, <2>3 DEF AuditOf
    <3>2. QED
      BY <2>2, <3>1 DEF TraceOK, Storing
  <2>4. CASE audit' = [audit EXCEPT ![a] = Ended(a, "failed")]
    <3>1. audit'[a].pc = "failed" /\ audit'[a].run = 0
      BY <1>a, <2>1, <2>4, EndedIs DEF Gone
    <3>2. QED
      BY <2>2, <3>1 DEF TraceOK, Storing
  <2>5. QED
    BY <1>13, <2>3, <2>4, Evaluated
<1>12. QED
  BY <1>1, <1>2, <1>3, <1>4, <1>5, <1>6, <1>7, <1>8, <1>9, <1>10, <1>11, <1>13
     DEF Steps, Collects, Stores

\* What the property says of the events follows.
LEMMA Traced ==
  ASSUME TypeOK, \A a \in Audits : PlaceOK(a) /\ TraceOK(a)
  PROVE  RunsAreTraced /\ KeyIsShredded
<1>1. KeyIsShredded
  BY DEF KeyIsShredded, PlaceOK, TypeOK
<1>2. ASSUME NEW a \in Audits
      PROVE  /\ audit[a].run # 0 =>
                  /\ Sent(a) = 1..Commands(audit[a].kind)
                  /\ Complete(a) \/ (Mine(a) = {} /\ audit[a].pc \in {"events", "dead"})
             /\ audit[a].run = 0 => Mine(a) = {} \/ FailedAlone(a)
  <2>1. PlaceOK(a) /\ TraceOK(a)
    OBVIOUS
  <2>2. audit[a].pc \in {"idle", "done", "failed", "dead"} \cup Active
    BY TypeIs DEF AuditOf
  <2>3. audit[a].run # 0 => audit[a].pc \in Stored \cup {"dead"}
    BY <2>1, <2>2 DEF PlaceOK, Unstored, Opened, Active, Stored
  <2>4. audit[a].run # 0 => Sent(a) = 1..Commands(audit[a].kind)
    BY <2>1 DEF TraceOK
  <2>5. audit[a].run # 0 =>
          Complete(a) \/ (Mine(a) = {} /\ audit[a].pc \in {"events", "dead"})
    BY <2>1, <2>3 DEF TraceOK, Stored
  <2>6. audit[a].run = 0 => Mine(a) = {} \/ FailedAlone(a)
    BY <2>1 DEF TraceOK
  <2>7. QED
    BY <2>4, <2>5, <2>6
<1>3. RunsAreTraced
  BY <1>2 DEF RunsAreTraced, Complete, FailedAlone
<1>4. QED
  BY <1>1, <1>3

-----------------------------------------------------------------------------
(* The baseline.                                                           *)

\* What an execution has read of the baseline is there still, and under
\* another run than its own, unless it was forgotten.
BaseOK(a) ==
  /\ \A f \in audit[a].base \ forgotten : baseline[f] # 0 /\ baseline[f] # audit[a].run
  /\ audit[a].pc \in Opened => \A f \in audit[a].began \ forgotten : baseline[f] # 0
  /\ audit[a].pc \in Storing \cup {"events", "accept", "report"} =>
       audit[a].began \ forgotten \subseteq audit[a].base
  /\ report[a].new \cap audit[a].began \subseteq forgotten

ReaderOK(r) ==
  /\ reader[r].pc # "done" => answer[r] = NoStates
  /\ reader[r].pc = "answer" => \A f \in reader[r].began \ forgotten : baseline[f] # 0
  /\ answer[r].new \cap reader[r].began \subseteq forgotten

\* No step takes an entry out of the baseline or changes it, but by hand.
Remains ==
  /\ forgotten \subseteq forgotten'
  /\ \A f \in Findings : f \notin forgotten' /\ baseline[f] # 0 => baseline'[f] = baseline[f]

LEMMA StepsRemain ==
  ASSUME TypeOK, NEW a \in Audits, Steps(a)
  PROVE  Remains
<1>1. forgotten' = forgotten
  BY DEF Steps, Collects, Stores, Start, Scan, Prepare, CommandSucceeds, CommandFails,
         Shred, Trace, Evaluate, ReadBaseline, ReadPrevious, Stamp, RecordEvents, Accept, Conclude,
         Die, InsertRun, worldVars
<1>2. CASE Accept(a)
  BY <1>1, <1>2 DEF Accept, Remains
<1>3. CASE ~Accept(a)
  <2>1. baseline' = baseline
    BY <1>3 DEF Steps, Collects, Stores, Start, Scan, Prepare, CommandSucceeds, CommandFails,
         Shred, Trace, Evaluate, ReadBaseline, ReadPrevious, Stamp, RecordEvents, Conclude,
         Die, InsertRun, storeVars
  <2>2. QED
    BY <1>1, <2>1 DEF Remains
<1>4. QED
  BY <1>2, <1>3

LEMMA OtherRemain ==
  ASSUME TypeOK,
         World \/ (\E r \in Readers : ReadRuns(r) \/ Answer(r)) \/ UNCHANGED vars
  PROVE  Remains
<1>1. CASE Forget
  <2>1. PICK f \in Findings : /\ baseline' = [baseline EXCEPT ![f] = 0]
                              /\ forgotten' = forgotten \cup {f}
    BY <1>1 DEF Forget, Baseline
  <2>2. QED
    BY <2>1 DEF Remains, TypeOK
<1>2. CASE ~Forget
  <2>1. baseline' = baseline /\ forgotten' = forgotten
    BY <1>2 DEF World, Tick, SetBack, ReadRuns, Answer, vars, storeVars, worldVars
  <2>2. QED
    BY <2>1 DEF Remains
<1>3. QED
  BY <1>1, <1>2

LEMMA KeptBase ==
  ASSUME TypeOK, NEW a \in Audits, BaseOK(a), Kept(a), Remains
  PROVE  BaseOK(a)'
<1>1. audit[a] \in AuditOf(Len(runs))
  BY TypeIs
<1>2. audit'[a].pc = audit[a].pc /\ audit'[a].base = audit[a].base
      /\ audit'[a].began = audit[a].began /\ audit'[a].run = audit[a].run
      /\ report'[a] = report[a]
  BY <1>1 DEF Kept, AuditOf
<1>3. audit[a].base \subseteq Findings /\ audit[a].began \subseteq Findings
  BY <1>1 DEF AuditOf
<1>4. \A f \in audit'[a].base \ forgotten' : baseline'[f] # 0 /\ baseline'[f] # audit'[a].run
  BY <1>2, <1>3 DEF BaseOK, Remains
<1>5. audit'[a].pc \in Opened => \A f \in audit'[a].began \ forgotten' : baseline'[f] # 0
  BY <1>2, <1>3 DEF BaseOK, Remains
<1>6. QED
  BY <1>2, <1>4, <1>5 DEF BaseOK, Remains

LEMMA KeptReader ==
  ASSUME TypeOK, NEW r \in Readers, ReaderOK(r), reader'[r] = reader[r],
         answer'[r] = answer[r], Remains
  PROVE  ReaderOK(r)'
<1>1. reader[r].began \subseteq Findings
  BY TypeIs DEF ReaderOf
<1>2. QED
  BY <1>1 DEF ReaderOK, Remains

\* A step of an execution keeps what its own part of the invariant says.
LEMMA StepBase ==
  ASSUME TypeOK, NEW a \in Audits, PlaceOK(a), BaseOK(a), Steps(a)
  PROVE  BaseOK(a)'
<1>a. /\ audit \in [Audits -> AuditOf(Len(runs))] /\ report \in [Audits -> States]
      /\ baseline \in [Findings -> 0..Len(runs)] /\ Len(runs) \in Nat /\ Baseline \subseteq Findings
      /\ now \in 0..MaxTime
  BY TypeIs, EmptyType
<1>b. audit[a] \in AuditOf(Len(runs)) /\ audit[a].base \subseteq Findings
      /\ audit[a].began \subseteq Findings /\ audit[a].found \subseteq Findings
  BY <1>a DEF AuditOf
<1>c. Remains
  BY StepsRemain
<1>d. NoStates.new = {}
  BY DEF NoStates
<1>e. \A f \in audit[a].base \ forgotten' : baseline'[f] # 0 /\ baseline'[f] # audit[a].run
  BY <1>b, <1>c DEF BaseOK, Remains
<1>f. ASSUME UNCHANGED report, audit[a].pc # "done" PROVE report'[a].new = {}
  BY <1>d, <1>f DEF PlaceOK
<1>1. CASE Start(a)
  <2>1. PICK kind \in Kinds, accept \in BOOLEAN, pc \in Active :
          /\ audit'[a] = [audit[a] EXCEPT !.kind = kind, !.pc = pc, !.accept = accept,
                                         !.began = Baseline]
          /\ \/ kind = "run" /\ pc = "evaluate"
             \/ kind = "file" /\ pc = "command"
             \/ kind = "ssh" /\ pc = "scan"
    BY <1>1, Started DEF BegunAs
  <2>2. audit[a].pc = "idle" /\ report'[a].new = {} /\ baseline' = baseline
    BY <1>1, <1>f, Started DEF storeVars
  <2>3. audit'[a].pc = pc /\ audit'[a].base = audit[a].base /\ audit'[a].run = audit[a].run
        /\ audit'[a].began = Baseline
    BY <1>b, <2>1 DEF AuditOf
  <2>4. \A f \in Baseline : baseline'[f] # 0
    BY <2>2 DEF Baseline
  <2>5. QED
    BY <1>e, <2>1, <2>2, <2>3, <2>4 DEF BaseOK, Storing
<1>2. CASE Collects(a) /\ ~Start(a) /\ ~(audit' = [audit EXCEPT ![a] = Ended(a, "failed")])
  <2>1. audit[a].pc \in Opened /\ audit'[a].pc \in Opened
        /\ audit'[a].base = audit[a].base /\ audit'[a].run = audit[a].run
        /\ audit'[a].began = audit[a].began /\ report' = report
    BY <1>2, WhileCollecting
  <2>2. report'[a].new = {}
    BY <1>f, <2>1 DEF Opened, Collecting
  <2>3. \A f \in audit[a].began \ forgotten' : baseline'[f] # 0
    BY <1>b, <1>c, <2>1 DEF BaseOK, Remains
  <2>4. QED
    BY <1>e, <2>1, <2>2, <2>3 DEF BaseOK, Opened, Collecting, Storing
<1>3. CASE (Collects(a) /\ audit' = [audit EXCEPT ![a] = Ended(a, "failed")]) \/ Die(a)
  <2>1. PICK pc \in {"failed", "dead"} : audit' = [audit EXCEPT ![a] = Ended(a, pc)]
    BY <1>3 DEF Die
  <2>2. audit'[a].pc = pc /\ audit'[a].base = {} /\ audit'[a].began = {}
    BY <1>a, <2>1, EndedIs DEF Gone
  <2>3. QED
    BY <2>1, <2>2 DEF BaseOK, Opened, Collecting, Storing
<1>4. CASE ReadBaseline(a)
  <2>1. audit[a].pc = "baseline" /\ baseline' = baseline /\ report' = report
        /\ forgotten' = forgotten
    BY <1>4 DEF ReadBaseline, storeVars, worldVars
  <2>2. audit'[a].pc = "previous" /\ audit'[a].base = Baseline
        /\ audit'[a].began = audit[a].began /\ audit'[a].run = audit[a].run
    BY <1>4, <1>a, <1>b DEF ReadBaseline, AuditOf
  <2>3. report'[a].new = {} /\ audit[a].run = 0
    BY <1>f, <2>1 DEF PlaceOK, Unstored, Opened
  <2>4. audit[a].began \ forgotten \subseteq Baseline
    BY <1>b, <2>1 DEF BaseOK, Baseline, Opened
  <2>5. QED
    BY <2>1, <2>2, <2>3, <2>4 DEF BaseOK, Baseline, Opened, Collecting
<1>5. CASE ReadPrevious(a) \/ Stamp(a) \/ RecordEvents(a) \/ Accept(a)
  <2>1. /\ audit[a].pc \in Storing \cup {"events", "accept", "report"}
        /\ audit'[a].pc \in Storing \cup {"events", "accept", "report"}
        /\ audit'[a].base = audit[a].base /\ audit'[a].run = audit[a].run
        /\ audit'[a].began = audit[a].began
    <3>1. CASE ReadPrevious(a) \/ Stamp(a)
      BY <3>1, <1>a, <1>b DEF ReadPrevious, Stamp, Storing, AuditOf
    <3>2. CASE RecordEvents(a) \/ Accept(a)
      BY <3>2, <1>a, <1>b DEF RecordEvents, Accept, Goto, AfterEvents, AuditOf
    <3>3. QED
      BY <1>5, <3>1, <3>2
  <2>2. report'[a].new = {}
    BY <1>5, <1>f, <2>1 DEF ReadPrevious, Stamp, RecordEvents, Accept, Storing
  <2>3. audit[a].began \ forgotten' \subseteq audit[a].base
    BY <1>c, <2>1 DEF BaseOK, Remains
  <2>4. audit'[a].pc \notin Opened
    BY <2>1 DEF Opened, Collecting, Storing
  <2>5. QED
    BY <1>e, <2>1, <2>2, <2>3, <2>4 DEF BaseOK
<1>6. CASE InsertRun(a)
  <2>1. /\ audit[a].pc = "insert" /\ audit'[a].pc \in {"events", "accept", "report"}
        /\ audit'[a].base = audit[a].base /\ audit'[a].run = Len(runs) + 1
        /\ audit'[a].began = audit[a].began
    BY <1>6, <1>a, <1>b DEF InsertRun, AfterEvents, AuditOf
  <2>2. report'[a].new = {} /\ baseline' = baseline /\ forgotten' = forgotten
    BY <1>6, <1>f, <2>1 DEF InsertRun, worldVars
  <2>3. audit[a].began \ forgotten' \subseteq audit[a].base
    BY <2>1, <2>2 DEF BaseOK, Storing
  <2>4. \A f \in audit[a].base \ forgotten' : baseline'[f] # 0 /\ baseline'[f] # Len(runs) + 1
    <3>1. \A f \in Findings : baseline[f] # Len(runs) + 1
      BY <1>a
    <3>2. QED
      BY <1>b, <1>e, <2>2, <3>1
  <2>5. QED
    BY <2>1, <2>2, <2>3, <2>4 DEF BaseOK, Opened, Collecting
<1>7. CASE Conclude(a)
  <2>1. audit'[a] = [Ended(a, "done") EXCEPT !.began = audit[a].began, !.found = audit[a].found]
    BY <1>7, <1>a DEF Conclude
  <2>2. audit'[a].pc = "done" /\ audit'[a].base = {} /\ audit'[a].began = audit[a].began
    <3>1. Ended(a, "done") \in AuditOf(Len(runs)) /\ Gone(a, Ended(a, "done"), "done")
      BY EndedType, EndedIs
    <3>2. QED
      BY <2>1, <3>1 DEF Gone, AuditOf
  <2>3. report'[a].new \subseteq audit[a].found \ audit[a].base
    BY <1>7, <1>a DEF Conclude, Classify, Base
  <2>4. audit[a].pc = "report" /\ forgotten' = forgotten
    BY <1>7 DEF Conclude, worldVars
  <2>5. audit[a].began \ forgotten \subseteq audit[a].base
    BY <2>4 DEF BaseOK
  <2>6. QED
    BY <2>2, <2>3, <2>4, <2>5 DEF BaseOK, Opened, Collecting, Storing
<1>8. QED
  BY <1>1, <1>2, <1>3, <1>4, <1>5, <1>6, <1>7 DEF Steps, Stores

\* A call keeps what the invariant says of it.
LEMMA StepReader ==
  ASSUME TypeOK, NEW r \in Readers, ReaderOK(r), ReadRuns(r) \/ Answer(r)
  PROVE  ReaderOK(r)'
<1>a. /\ reader \in [Readers -> ReaderOf(Len(runs))] /\ answer \in [Readers -> States]
      /\ reader[r] \in ReaderOf(Len(runs)) /\ NoStates.new = {}
  BY TypeIs DEF NoStates
<1>1. CASE ReadRuns(r)
  <2>1. /\ reader'[r].pc = "answer" /\ reader'[r].began = Baseline
        /\ reader[r].pc = "idle" /\ answer' = answer /\ baseline' = baseline
    BY <1>1, <1>a DEF ReadRuns, storeVars
  <2>2. answer[r] = NoStates
    BY <2>1 DEF ReaderOK
  <2>3. QED
    BY <1>a, <2>1, <2>2 DEF ReaderOK, Baseline
<1>2. CASE Answer(r)
  <2>1. PICK states : states = Answered(r)
    OBVIOUS
  <2>2. answer'[r] = states /\ states.new \cap Baseline = {}
    <3>1. answer' = [answer EXCEPT ![r] = states]
      BY <1>2, <2>1, AnswerIs
    <3>2. states \in States /\ states.new \cap Baseline = {}
      BY <2>1, AnsweredType
    <3>3. QED
      BY <1>a, <3>1, <3>2
  <2>3. reader'[r].pc = "done" /\ reader'[r].began = reader[r].began
    BY <1>2, <1>a DEF Answer, ReaderOf
  <2>4. reader[r].pc = "answer" /\ forgotten' = forgotten
    BY <1>2 DEF Answer, worldVars
  <2>5. reader[r].began \ forgotten \subseteq Baseline
    BY <1>a, <2>4 DEF ReaderOK, Baseline, ReaderOf
  <2>6. QED
    BY <2>2, <2>3, <2>4, <2>5 DEF ReaderOK
<1>3. QED
  BY <1>1, <1>2

\* The findings of a run never change.
LEMMA RunsRemain ==
  ASSUME TypeOK, NEW a \in Audits, Steps(a), NEW id \in 0..Len(runs)
  PROVE  FindingsOfRun(id)' = FindingsOfRun(id)
<1>1. CASE InsertRun(a)
  BY <1>1, Inserts
<1>2. CASE ~InsertRun(a)
  <2>1. runs' = runs
    BY <1>2 DEF Steps, Collects, Stores, Start, Scan, Prepare, CommandSucceeds, CommandFails,
         Shred, Trace, Evaluate, ReadBaseline, ReadPrevious, Stamp, RecordEvents, Conclude, Accept,
         Die, InsertRun, storeVars
  <2>2. QED
    BY <2>1 DEF FindingsOfRun
<1>3. QED
  BY <1>1, <1>2

\* How an execution comes to have a run.
LEMMA StoredBy ==
  ASSUME TypeOK, NEW a \in Audits, Steps(a), audit'[a].pc \in Stored
  PROVE  \/ InsertRun(a) /\ audit'[a].found = audit[a].found /\ audit'[a].run = Len(runs) + 1
            /\ audit'[a].last = audit[a].last /\ audit[a].pc = "insert"
         \/ /\ RecordEvents(a) \/ Accept(a)
            /\ audit'[a].last = audit[a].last
            /\ audit'[a].found = audit[a].found /\ audit'[a].run = audit[a].run
            /\ audit[a].pc \in {"events", "accept"} /\ audit'[a].pc \in {"accept", "report"}
         \/ Conclude(a) /\ audit'[a].found = audit[a].found /\ audit'[a].run = audit[a].run
            /\ audit[a].pc = "report" /\ audit'[a].pc = "done"
<1>a. audit \in [Audits -> AuditOf(Len(runs))] /\ audit[a] \in AuditOf(Len(runs))
  BY TypeIs
<1>1. CASE InsertRun(a)
  BY <1>1, <1>a DEF InsertRun, AuditOf
<1>2. CASE RecordEvents(a) \/ Accept(a)
  BY <1>2, <1>a DEF RecordEvents, Accept, Goto, AfterEvents, AuditOf
<1>3. CASE Conclude(a)
  <2>1. audit'[a] = [Ended(a, "done") EXCEPT !.began = audit[a].began, !.found = audit[a].found]
    BY <1>3, <1>a DEF Conclude
  <2>2. Ended(a, "done") \in AuditOf(Len(runs)) /\ Gone(a, Ended(a, "done"), "done")
    BY EndedType, EndedIs
  <2>3. audit'[a].found = audit[a].found /\ audit'[a].run = audit[a].run /\ audit'[a].pc = "done"
    BY <2>1, <2>2 DEF Gone, AuditOf
  <2>4. audit[a].pc = "report"
    BY <1>3 DEF Conclude
  <2>5. QED
    BY <1>3, <2>3, <2>4
<1>4. CASE Start(a)
  <2>1. PICK kind \in Kinds, accept \in BOOLEAN, pc \in Active :
          /\ audit'[a] = [audit[a] EXCEPT !.kind = kind, !.pc = pc, !.accept = accept,
                                         !.began = Baseline]
          /\ \/ kind = "run" /\ pc = "evaluate"
             \/ kind = "file" /\ pc = "command"
             \/ kind = "ssh" /\ pc = "scan"
    BY <1>4, Started DEF BegunAs
  <2>2. audit'[a].pc = pc
    BY <1>a, <2>1 DEF AuditOf
  <2>3. QED
    BY <2>1, <2>2 DEF Stored
<1>5. CASE Collects(a) /\ ~Start(a)
  <2>1. audit'[a].pc \in Opened \cup {"failed"}
    BY <1>5, <1>a, WhileCollecting, EndedIs DEF Gone
  <2>2. QED
    BY <2>1 DEF Opened, Collecting, Stored
<1>7. CASE Die(a)
  BY <1>7, <1>a, EndedIs DEF Die, Gone, Stored
<1>8. CASE ReadBaseline(a)
  BY <1>8, <1>a DEF ReadBaseline, AuditOf, Stored
<1>9. CASE ReadPrevious(a) \/ Stamp(a)
  BY <1>9, <1>a DEF ReadPrevious, Stamp, AuditOf, Stored
<1>10. QED
  BY <1>1, <1>2, <1>3, <1>4, <1>5, <1>7, <1>8, <1>9 DEF Steps, Stores

LEMMA KeptFields ==
  ASSUME TypeOK, NEW b \in Audits, Kept(b)
  PROVE  /\ audit'[b].pc = audit[b].pc /\ audit'[b].run = audit[b].run
         /\ audit'[b].found = audit[b].found /\ audit'[b].at = audit[b].at
         /\ audit'[b].last = audit[b].last /\ audit'[b].base = audit[b].base
         /\ report'[b] = report[b]
BY TypeIs DEF Kept, AuditOf

\* The findings of a run are those its execution has found.
FoundOK(a) == audit[a].pc \in Stored => FindingsOfRun(audit[a].run) = audit[a].found

LEMMA StepFound ==
  ASSUME TypeOK, NEW a \in Audits, Steps(a), PlaceOK(a), NEW b \in Audits, FoundOK(b)
  PROVE  FoundOK(b)'
<1>a. /\ audit \in [Audits -> AuditOf(Len(runs))] /\ Len(runs) \in Nat
      /\ audit[b].run \in 0..Len(runs)
  BY TypeIs DEF AuditOf
<1> SUFFICES ASSUME audit'[b].pc \in Stored
             PROVE  FindingsOfRun(audit[b].run)' = audit'[b].found
  BY DEF FoundOK, FindingsOfRun
<1>1. ASSUME audit'[b].run = audit[b].run, audit'[b].found = audit[b].found,
             audit[b].pc \in Stored
      PROVE  FindingsOfRun(audit[b].run)' = audit'[b].found
  <2>1. PICK id : id = audit[b].run
    OBVIOUS
  <2>2. FindingsOfRun(id)' = FindingsOfRun(id) /\ FindingsOfRun(id) = audit[b].found
    BY <1>a, <1>1, <2>1, RunsRemain DEF FoundOK
  <2>3. QED
    BY <1>1, <2>1, <2>2 DEF FindingsOfRun
<1>2. CASE b # a
  BY <1>1, <1>2, OthersKept, KeptFields
<1>3. CASE b = a /\ ~InsertRun(a)
  BY <1>1, <1>3, StoredBy DEF Stored
<1>4. CASE b = a /\ InsertRun(a)
  <2>1. audit'[a].found = audit[a].found /\ audit'[a].run = Len(runs) + 1
    BY <1>a, <1>4 DEF InsertRun, AuditOf
  <2>2. runs'[Len(runs) + 1] = [at |-> audit[a].at, findings |-> audit[a].found]
    BY <1>4, Inserts
  <2>3. Len(runs) + 1 # 0
    BY <1>a
  <2>4. QED
    BY <1>4, <2>1, <2>2, <2>3 DEF FindingsOfRun
<1>5. QED
  BY <1>2, <1>3, <1>4

\* An execution with a run keeps it, and calls nothing known but what it has
\* read of the baseline.
LEMMA Witness ==
  ASSUME TypeOK, NEW a \in Audits, Steps(a), PlaceOK(a), NEW b \in Audits, PlaceOK(b),
         audit[b].run # 0
  PROVE  /\ audit'[b].run = audit[b].run /\ audit'[b].accept = audit[b].accept
         /\ report'[b].known \subseteq report[b].known \cup audit[b].base
<1>a. /\ audit \in [Audits -> AuditOf(Len(runs))] /\ report \in [Audits -> States]
      /\ audit[b] \in AuditOf(Len(runs))
  BY TypeIs
<1>1. CASE a # b
  BY <1>1, <1>a, OthersKept DEF Kept, AuditOf
<1>2. CASE a = b
  <2>1. audit[a].pc \notin Unstored
    BY <1>2 DEF PlaceOK
  <2>2. CASE RecordEvents(a) \/ Accept(a)
    BY <1>2, <1>a, <2>2 DEF RecordEvents, Accept, Goto, AuditOf
  <2>3. CASE Die(a)
    BY <1>2, <1>a, <2>3, EndedIs DEF Die, Gone
  <2>4. CASE Conclude(a)
    <3>1. audit'[a] = [Ended(a, "done") EXCEPT !.began = audit[a].began, !.found = audit[a].found]
      BY <1>a, <2>4 DEF Conclude
    <3>2. Ended(a, "done") \in AuditOf(Len(runs)) /\ Gone(a, Ended(a, "done"), "done")
      BY EndedType, EndedIs
    <3>3. audit'[a].run = audit[a].run /\ audit'[a].accept = audit[a].accept
      BY <3>1, <3>2 DEF Gone, AuditOf
    <3>4. report'[a].known \subseteq audit[a].base
      BY <1>a, <2>4 DEF Conclude, Classify, Base
    <3>5. QED
      BY <1>2, <3>3, <3>4
  <2>5. QED
    BY <2>1, <2>2, <2>3, <2>4 DEF Steps, Collects, Stores, Unstored, Opened, Collecting, Storing,
       Start, Scan, Prepare, CommandSucceeds, CommandFails, Shred, Trace, Evaluate, ReadBaseline,
       ReadPrevious, Stamp, InsertRun
<1>3. QED
  BY <1>1, <1>2

\* What is said of one entry.
Told(a, f) ==
  \/ f \in report[a].new \cup report[a].suppressed
  \/ audit[a].pc \in {"report", "dead"}
  \/ f \in forgotten

Entry(f) ==
  /\ f \in FindingsOfRun(baseline[f])
  /\ \E a \in Audits : audit[a].run = baseline[f] /\ audit[a].accept /\ Told(a, f)

\* Whoever accepted an entry is told of it as something new, or has died.
LEMMA ToldRemains ==
  ASSUME TypeOK, NEW a \in Audits, Steps(a), PlaceOK(a), NEW b \in Audits,
         PlaceOK(b), BaseOK(b), FoundOK(b),
         NEW f \in Findings, baseline[f] # 0, audit[b].run = baseline[f],
         f \in FindingsOfRun(baseline[f]), Told(b, f)
  PROVE  Told(b, f)'
<1>a. /\ audit \in [Audits -> AuditOf(Len(runs))] /\ report \in [Audits -> States]
      /\ audit[b] \in AuditOf(Len(runs))
  BY TypeIs
<1>b. forgotten \subseteq forgotten'
  BY StepsRemain DEF Remains
<1>1. CASE a # b
  BY <1>1, <1>b, OthersKept, KeptFields DEF Told
<1>2. CASE a = b
  <2>1. audit[a].pc \notin Unstored
    BY <1>2 DEF PlaceOK
  <2>2. CASE RecordEvents(a) \/ Accept(a)
    <3>1. audit[a].pc \in {"events", "accept"}
      BY <2>2 DEF RecordEvents, Accept
    <3>2. report[b] = NoStates
      BY <1>2, <3>1 DEF PlaceOK
    <3>3. f \in forgotten
      BY <1>2, <3>1, <3>2 DEF Told, NoStates
    <3>4. QED
      BY <1>b, <3>3 DEF Told
  <2>3. CASE Die(a)
    <3>1. audit'[b].pc = "dead"
      BY <1>2, <1>a, <2>3, EndedIs DEF Die, Gone
    <3>2. QED
      BY <3>1 DEF Told
  <2>4. CASE Conclude(a)
    <3>1. audit[b].pc = "report"
      BY <1>2, <2>4 DEF Conclude
    <3>2. f \in audit[b].found
      BY <3>1 DEF FoundOK, Stored
    <3>3. f \in audit[b].base => f \in forgotten
      BY DEF BaseOK
    <3>4. report'[b] = Classify(audit[b].run, audit[b].found, audit[b].base,
                                FindingsOfRun(audit[b].last), now)
      BY <1>2, <1>a, <2>4 DEF Conclude, Base
    <3>5. f \in audit[b].base \/ f \in report'[b].new \cup report'[b].suppressed
      BY <3>2, <3>4 DEF Classify
    <3>6. QED
      BY <1>b, <3>3, <3>5 DEF Told
  <2>5. QED
    BY <2>1, <2>2, <2>3, <2>4 DEF Steps, Collects, Stores, Unstored, Opened, Collecting, Storing,
       Start, Scan, Prepare, CommandSucceeds, CommandFails, Shred, Trace, Evaluate, ReadBaseline,
       ReadPrevious, Stamp, InsertRun
<1>3. QED
  BY <1>1, <1>2

\* The entries that there were keep their run and somebody who is told.
LEMMA EntryRemains ==
  ASSUME TypeOK, NEW a \in Audits, Steps(a), AcceptedAsNew,
         \A b \in Audits : PlaceOK(b) /\ BaseOK(b) /\ FoundOK(b),
         NEW f \in Findings, baseline[f] # 0, baseline'[f] = baseline[f]
  PROVE  Entry(f)'
<1>1. f \in Baseline /\ baseline[f] \in 0..Len(runs)
  BY TypeIs DEF Baseline
<1>2. f \in FindingsOfRun(baseline[f])'
  <2>1. PICK id : id = baseline[f]
    OBVIOUS
  <2>2. id \in 0..Len(runs) /\ f \in FindingsOfRun(id)
    BY <1>1, <2>1 DEF AcceptedAsNew
  <2>3. FindingsOfRun(id)' = FindingsOfRun(id)
    BY <2>2, RunsRemain
  <2>4. QED
    BY <2>1, <2>2, <2>3 DEF FindingsOfRun
<1>3. PICK b \in Audits : audit[b].run = baseline[f] /\ audit[b].accept /\ Told(b, f)
  BY <1>1 DEF AcceptedAsNew, Told
<1>4. f \in FindingsOfRun(baseline[f])
  BY <1>1 DEF AcceptedAsNew
<1>5. audit'[b].run = audit[b].run /\ audit'[b].accept = audit[b].accept
  BY <1>3, Witness
<1>6. Told(b, f)'
  BY <1>3, <1>4, ToldRemains
<1>7. QED
  BY <1>2, <1>3, <1>5, <1>6 DEF Entry

LEMMA StepEntries ==
  ASSUME TypeOK, NEW a \in Audits, Steps(a), AcceptedAsNew,
         \A b \in Audits : PlaceOK(b) /\ BaseOK(b) /\ FoundOK(b)
  PROVE  AcceptedAsNew'
<1>a. /\ audit \in [Audits -> AuditOf(Len(runs))] /\ baseline \in [Findings -> 0..Len(runs)]
      /\ report \in [Audits -> States] /\ audit[a] \in AuditOf(Len(runs))
  BY TypeIs
<1>1. ASSUME NEW f \in Findings, baseline'[f] # 0
      PROVE  Entry(f)'
  <2>1. CASE baseline[f] # 0 /\ baseline'[f] = baseline[f]
    BY <2>1, EntryRemains
  <2>2. CASE ~(baseline[f] # 0 /\ baseline'[f] = baseline[f])
    <3>1. Accept(a)
      BY <1>1, <2>2 DEF Steps, Collects, Stores, Start, Scan, Prepare, CommandSucceeds,
         CommandFails, Shred, Trace, Evaluate, ReadBaseline, ReadPrevious, Stamp, RecordEvents, Conclude,
         Die, InsertRun, storeVars
    <3>2. f \in FindingsOfRun(audit[a].run) /\ baseline'[f] = audit[a].run
      BY <1>1, <2>2, <3>1 DEF Accept, Accepted
    <3>3. f \in FindingsOfRun(baseline[f])'
      <4>1. audit[a].run \in 0..Len(runs)
        BY <1>a DEF AuditOf
      <4>2. PICK id : id = audit[a].run
        OBVIOUS
      <4>3. FindingsOfRun(id)' = FindingsOfRun(id)
        BY <4>1, <4>2, RunsRemain
      <4>4. QED
        BY <3>2, <4>2, <4>3 DEF FindingsOfRun
    <3>4. audit[a].accept
      BY <3>1 DEF Accept, PlaceOK
    <3>5. /\ audit'[a].run = audit[a].run /\ audit'[a].accept = audit[a].accept
          /\ audit'[a].pc = "report"
      BY <1>a, <3>1 DEF Accept, Goto, AuditOf
    <3>6. QED
      BY <3>2, <3>3, <3>4, <3>5 DEF Entry, Told
  <2>3. QED
    BY <2>1, <2>2
<1>2. \A f \in Baseline' : Entry(f)'
  BY <1>1 DEF Baseline
<1>3. QED
  BY <1>2 DEF AcceptedAsNew, Entry, Told

LEMMA OtherEntries ==
  ASSUME TypeOK, AcceptedAsNew,
         World \/ (\E r \in Readers : ReadRuns(r) \/ Answer(r)) \/ UNCHANGED vars
  PROVE  AcceptedAsNew'
<1>1. audit' = audit /\ report' = report /\ runs' = runs
  BY DEF World, Forget, Tick, SetBack, ReadRuns, Answer, vars, storeVars
<1>2. Remains
  BY OtherRemain
<1>3. ASSUME NEW f \in Findings, baseline'[f] # 0 PROVE baseline'[f] = baseline[f]
  <2>1. CASE Forget
    <3>1. PICK g \in Findings : baseline' = [baseline EXCEPT ![g] = 0]
      BY <2>1 DEF Forget, Baseline
    <3>2. QED
      BY <1>3, <3>1 DEF TypeOK
  <2>2. CASE ~Forget
    BY <2>2 DEF World, Tick, SetBack, ReadRuns, Answer, vars, storeVars
  <2>3. QED
    BY <2>1, <2>2
<1>4. QED
  BY <1>1, <1>2, <1>3 DEF AcceptedAsNew, Baseline, FindingsOfRun, Remains

-----------------------------------------------------------------------------
(* The invariant.                                                          *)

Inv ==
  /\ TypeOK
  /\ \A a \in Audits : PlaceOK(a) /\ TraceOK(a) /\ BaseOK(a) /\ FoundOK(a)
  /\ \A r \in Readers : ReaderOK(r)
  /\ AcceptedAsNew

Others == World \/ (\E r \in Readers : ReadRuns(r) \/ Answer(r)) \/ UNCHANGED vars

LEMMA NextIs == [Next]_vars => (\E a \in Audits : Steps(a)) \/ Others
BY DEF Next, Steps, Collects, Stores, World, Others

LEMMA TypeStep ==
  ASSUME Inv, [Next]_vars
  PROVE  TypeOK'
<1>0. TypeOK
  BY DEF Inv
<1>1. ASSUME NEW a \in Audits, Collects(a) \/ Stores(a) PROVE TypeOK'
  <2>1. PlaceOK(a)
    BY DEF Inv
  <2>2. Within
    <3>1. audit[a].kind \in Kinds => audit[a].kind \in {"run", "file", "ssh"}
      BY KindsAre
    <3>2. QED
      BY <1>0, <1>1, <2>1, <3>1, CollectsType, StoresType DEF PlaceOK
  <2>3. UNCHANGED <<runs, reader, answer, worldVars>>
    BY <1>1 DEF Collects, Stores, Start, Scan, Prepare, CommandSucceeds, CommandFails,
       Shred, Trace, Evaluate, ReadBaseline, ReadPrevious, Stamp, RecordEvents, Conclude, Accept,
       Die, storeVars
  <2>4. QED
    BY <1>0, <2>2, <2>3 DEF Within, TypeOK, AuditOf, worldVars
<1>2. ASSUME UNCHANGED vars PROVE TypeOK'
  BY <1>0, <1>2 DEF TypeOK, vars, storeVars, worldVars
<1>3. QED
  BY <1>0, <1>1, <1>2, NextIs, InsertType, ReadRunsType, AnswerType, WorldType DEF Steps, Others

LEMMA InvStep ==
  ASSUME Inv, [Next]_vars
  PROVE  Inv'
<1>0. TypeOK /\ TypeOK'
  BY TypeStep DEF Inv
<1>1. ASSUME NEW a \in Audits, Steps(a) PROVE Inv'
  <2>0. PlaceOK(a)
    BY DEF Inv
  <2>1. ASSUME NEW b \in Audits PROVE PlaceOK(b)' /\ TraceOK(b)' /\ BaseOK(b)' /\ FoundOK(b)'
    <3>1. PlaceOK(b) /\ TraceOK(b) /\ BaseOK(b) /\ FoundOK(b)
      BY DEF Inv
    <3>0. FoundOK(b)'
      BY <1>0, <1>1, <2>0, <3>1, StepFound
    <3>2. CASE b = a
      BY <1>0, <1>1, <3>0, <3>1, <3>2, StepPlace, StepTrace, StepBase
    <3>3. CASE b # a
      <4>1. Kept(b) /\ Remains /\ Len(events') \in Nat
        BY <1>0, <1>1, <2>0, <3>3, OthersKept, StepsRemain, StepEvents DEF EventsGrow
      <4>2. QED
        BY <1>0, <3>0, <3>1, <4>1, KeptPlace, KeptTrace, KeptBase
    <3>4. QED
      BY <3>2, <3>3
  <2>2. ASSUME NEW r \in Readers PROVE ReaderOK(r)'
    <3>1. reader' = reader /\ answer' = answer
      BY <1>1 DEF Steps, Collects, Stores, Start, Scan, Prepare, CommandSucceeds, CommandFails,
         Shred, Trace, Evaluate, ReadBaseline, ReadPrevious, Stamp, RecordEvents, Conclude, Accept,
         Die, InsertRun
    <3>2. QED
      BY <1>0, <1>1, <3>1, KeptReader, StepsRemain DEF Inv
  <2>3. AcceptedAsNew'
    BY <1>0, <1>1, StepEntries DEF Inv
  <2>4. QED
    BY <1>0, <2>1, <2>2, <2>3 DEF Inv
<1>2. ASSUME Others PROVE Inv'
  <2>0. Remains /\ AcceptedAsNew'
    BY <1>0, <1>2, OtherRemain, OtherEntries DEF Others, Inv
  <2>1. ASSUME NEW b \in Audits PROVE PlaceOK(b)' /\ TraceOK(b)' /\ BaseOK(b)' /\ FoundOK(b)'
    <3>1. PlaceOK(b) /\ TraceOK(b) /\ BaseOK(b) /\ FoundOK(b)
      BY DEF Inv
    <3>2. audit' = audit /\ report' = report /\ keys' = keys /\ sent' = sent /\ events' = events
          /\ runs' = runs
      BY <1>2 DEF Others, World, Forget, Tick, SetBack, ReadRuns, Answer, vars, storeVars
    <3>3. Kept(b) /\ Len(events') \in Nat
      <4>1. audit[b] \in AuditOf(Len(runs)) /\ Len(events) \in Nat
        BY <1>0, TypeIs
      <4>2. audit[b] = [audit[b] EXCEPT !.alone = audit[b].alone]
        BY <4>1 DEF AuditOf
      <4>3. QED
        BY <3>2, <4>1, <4>2 DEF Kept, Mine
    <3>4. FoundOK(b)'
      BY <3>1, <3>2 DEF FoundOK, FindingsOfRun
    <3>5. QED
      BY <1>0, <2>0, <3>1, <3>3, <3>4, KeptPlace, KeptTrace, KeptBase
  <2>2. ASSUME NEW q \in Readers PROVE ReaderOK(q)'
    <3>1. ReaderOK(q)
      BY DEF Inv
    <3>2. CASE ReadRuns(q) \/ Answer(q)
      BY <1>0, <3>1, <3>2, StepReader
    <3>3. CASE ~(ReadRuns(q) \/ Answer(q))
      <4>1. reader'[q] = reader[q] /\ answer'[q] = answer[q]
        <5>1. CASE \E r \in Readers : ReadRuns(r) \/ Answer(r)
          <6>1. PICK r \in Readers : ReadRuns(r) \/ Answer(r)
            BY <5>1
          <6>2. r # q
            BY <3>3, <6>1
          <6>3. QED
            BY <1>0, <6>1, <6>2 DEF ReadRuns, Answer, TypeOK
        <5>2. CASE World \/ UNCHANGED vars
          BY <5>2 DEF World, Forget, Tick, SetBack, vars
        <5>3. QED
          BY <1>2, <5>1, <5>2 DEF Others
      <4>2. QED
        BY <1>0, <2>0, <3>1, <4>1, KeptReader
    <3>4. QED
      BY <3>2, <3>3
  <2>3. QED
    BY <1>0, <2>0, <2>1, <2>2 DEF Inv
<1>3. QED
  BY <1>1, <1>2, NextIs

LEMMA InitInv == Init => Inv
<1> SUFFICES ASSUME Init PROVE Inv
  OBVIOUS
<1>0. MaxTime \in Nat /\ MaxChanges \in Nat /\ MaxFailures \in Nat
  BY AuditorAssumption
<1>1. Len(runs) = 0 /\ runs \in Seq(Run)
  <2>1. <<>> \in Seq(Run)
    OBVIOUS
  <2>2. QED
    BY <2>1 DEF Init
<1>2. audit \in [Audits -> AuditOf(0)] /\ report \in [Audits -> States]
      /\ answer \in [Readers -> States]
  BY EmptyType DEF Init
<1>3. reader \in [Readers -> ReaderOf(0)]
  BY <1>0 DEF Init, ReaderOf
<1>4. /\ now \in 0..MaxTime /\ changes \in 0..MaxChanges /\ failures \in 0..MaxFailures
      /\ baseline \in [Findings -> 0..0]
  BY <1>0 DEF Init
<1>5. TypeOK
  <2>1. keys = {} /\ sent = {} /\ forgotten = {} /\ steady \in BOOLEAN
    BY DEF Init
  <2>2. events \in Seq(Event) /\ \A k \in 1..Len(events) : events[k].run <= Len(runs)
    <3>1. <<>> \in Seq(Event) /\ Len(<<>>) = 0 /\ 1..0 = {}
      OBVIOUS
    <3>2. QED
      BY <3>1 DEF Init
  <2>3. QED
    BY <1>1, <1>2, <1>3, <1>4, <2>1, <2>2, TypeIs
<1>6. ASSUME NEW a \in Audits PROVE PlaceOK(a) /\ TraceOK(a) /\ BaseOK(a) /\ FoundOK(a)
  <2>1. audit[a] = NewAudit /\ report[a] = NoStates /\ Sent(a) = {} /\ Mine(a) = {}
        /\ a \notin keys
    <3>1. Len(events) = 0 /\ 1..0 = {}
      BY DEF Init
    <3>2. QED
      BY <3>1 DEF Init, Sent, Mine
  <2>2. PlaceOK(a)
    BY <2>1 DEF PlaceOK, NewAudit, Unstored, Stored
  <2>3. TraceOK(a)
    BY <2>1 DEF TraceOK, NewAudit, Storing
  <2>4. BaseOK(a)
    BY <2>1 DEF BaseOK, NewAudit, Opened, Collecting, Storing, NoStates
  <2>5. FoundOK(a)
    BY <2>1 DEF FoundOK, NewAudit, Stored
  <2>6. QED
    BY <2>2, <2>3, <2>4, <2>5
<1>7. ASSUME NEW r \in Readers PROVE ReaderOK(r)
  <2>1. answer[r] = NoStates /\ reader[r].pc = "idle" /\ reader[r].began = {}
    BY DEF Init
  <2>2. QED
    BY <2>1 DEF ReaderOK
<1>8. AcceptedAsNew
  BY DEF Init, AcceptedAsNew, Baseline
<1>9. QED
  BY <1>5, <1>6, <1>7, <1>8 DEF Inv

\* Every reachable state satisfies the invariant: where an execution is, what
\* it has sent and stored, what it has read of the baseline and what it holds
\* of the key agree, whatever other executions, calls and hands do meanwhile.
THEOREM AuditorInvariant == Spec => []Inv
<1>1. QED
  BY InitInv, InvStep, PTL DEF Spec

\* The types of the store, the executions and the calls.  (cli, store, query)
THEOREM AuditorTypeCorrect == Spec => []TypeOK
<1>1. Inv => TypeOK
  BY DEF Inv
<1>2. QED
  BY <1>1, AuditorInvariant, PTL

\* Once the commands are over the private key is on the disk only if the execution
\* was killed or the removal of the directory itself failed: no failure of a
\* command leaves it.  (the finally clause of collect_ssh, _shredded)
THEOREM KeysAreShredded == Spec => []KeyIsShredded
<1>1. Inv => KeyIsShredded
  BY Traced DEF Inv
<1>2. QED
  BY <1>1, AuditorInvariant, PTL

\* An execution with a run has sent each of its commands, and their events follow
\* one another in the table, one for each and in their order; they are missing
\* only while it is about to write them, or if it was killed before.  An execution
\* without a run has one event at most, and that of a failure.
\* (record_channel_events, _traced)
THEOREM EventsAreTheCommands == Spec => []RunsAreTraced
<1>1. Inv => RunsAreTraced
  BY Traced DEF Inv
<1>2. QED
  BY <1>1, AuditorInvariant, PTL

\* An entry of the baseline was found by the run it names and accepted by that
\* run's operator, whose own report shows it as new or suppressed; there is no
\* such report only while it is about to be printed, or if the execution died
\* between its acceptance and its report.  (accept_baseline, _recorded)
THEOREM AcceptedWasReported == Spec => []AcceptedAsNew
<1>1. Inv => AcceptedAsNew
  BY DEF Inv
<1>2. QED
  BY <1>1, AuditorInvariant, PTL

\* Whoever begins after an acceptance never calls the finding new.
\* (baseline_fingerprints, query._classified)
THEOREM AcceptedRemainKnown == Spec => []AcceptedStaysKnown
<1>1. Inv => AcceptedStaysKnown
  BY DEF Inv, AcceptedStaysKnown, BaseOK, ReaderOK
<1>2. QED
  BY <1>1, AuditorInvariant, PTL

-----------------------------------------------------------------------------
(* What a call says of the last run, and what that run's report said.      *)

\* Nobody stored a run at the same time as another, and time went forward.
Quiet == steady /\ \A b \in Audits : audit[b].alone

InOrder ==
  \A i \in 1..Len(runs) :
    runs[i].at <= now /\ \A j \in 1..Len(runs) : i < j => runs[i].at <= runs[j].at

Exclusive ==
  \A a, b \in Audits : audit[a].pc \in Storing /\ audit[b].pc \in Storing => a = b

AgreeOK(a) ==
  /\ audit[a].pc \in {"idle"} \cup Opened => audit[a].alone
  /\ \A f \in report[a].known \ forgotten : baseline[f] # 0

\* The last run that an execution has read is the one before its own.
QuietOK(a) ==
  /\ audit[a].pc = "insert" =>
       audit[a].at <= now /\ \A i \in 1..Len(runs) : runs[i].at <= audit[a].at
  /\ audit[a].pc \in {"stamp", "insert"} => audit[a].last = Len(runs)
  /\ audit[a].pc \in {"events", "accept", "report"} => audit[a].last = audit[a].run - 1
  /\ audit[a].pc = "done" =>
       report[a].gone = FindingsOfRun(audit[a].run - 1) \ audit[a].found

TellsOK(r) ==
  answer[r].last # 0 =>
    /\ answer[r].gone = FindingsOfRun(answer[r].last - 1) \ FindingsOfRun(answer[r].last)
    /\ answer[r].new \cup answer[r].known \cup answer[r].suppressed
         = FindingsOfRun(answer[r].last)

NewsOK(r) ==
  /\ answer[r].last \in 0..Len(runs)
  /\ \A a \in Audits : audit[a].run # 0 /\ answer[r].last = audit[a].run =>
       answer[r].new \cap (audit[a].base \cup report[a].known) \subseteq forgotten

QuietInv ==
  /\ \A a \in Audits : AgreeOK(a)
  /\ \A r \in Readers : NewsOK(r)
  /\ Quiet => /\ InOrder /\ Exclusive
              /\ \A a \in Audits : QuietOK(a)
              /\ \A r \in Readers : TellsOK(r)

\* Only a read of the baseline makes anybody overlap.
LEMMA AloneKept ==
  ASSUME TypeOK, NEW a \in Audits, Steps(a), ~ReadBaseline(a), NEW b \in Audits
  PROVE  audit'[b].alone = audit[b].alone
<1>a. audit \in [Audits -> AuditOf(Len(runs))] /\ audit[a] \in AuditOf(Len(runs))
  BY TypeIs
<1>b. CASE b # a
  BY <1>a, <1>b DEF Steps, Collects, Stores, Start, Scan, Prepare, CommandSucceeds, CommandFails,
              Shred, Trace, Evaluate, ReadPrevious, Stamp, RecordEvents, Accept, Conclude,
              Die, InsertRun, Begin, Goto, ChannelFails
<1>c. CASE b = a
  <2>1. CASE Start(a)
    <3>1. PICK kind \in Kinds, accept \in BOOLEAN, pc \in Active :
            /\ audit'[a] = [audit[a] EXCEPT !.kind = kind, !.pc = pc, !.accept = accept,
                                           !.began = Baseline]
            /\ \/ kind = "run" /\ pc = "evaluate"
               \/ kind = "file" /\ pc = "command"
               \/ kind = "ssh" /\ pc = "scan"
      BY <2>1, Started DEF BegunAs
    <3>2. QED
      BY <1>a, <1>c, <3>1 DEF AuditOf
  <2>2. CASE Collects(a) /\ ~Start(a)
    BY <2>2, <1>a, <1>c, WhileCollecting, EndedIs
  <2>4. CASE RecordEvents(a) \/ Accept(a)
    <3>1. \E pc : audit' = [audit EXCEPT ![a].pc = pc]
      BY <2>4 DEF RecordEvents, Accept, Goto
    <3>2. QED
      BY <1>a, <1>c, <3>1 DEF AuditOf
  <2>5. CASE Die(a)
    BY <2>5, <1>a, <1>c, EndedIs DEF Die
  <2>6. CASE ReadPrevious(a)
    BY <2>6, <1>a, <1>c DEF ReadPrevious, AuditOf
  <2>7. CASE Stamp(a)
    BY <2>7, <1>a, <1>c DEF Stamp, AuditOf
  <2>8. CASE InsertRun(a)
    BY <2>8, <1>a, <1>c DEF InsertRun, AuditOf
  <2>9. CASE Conclude(a)
    <3>1. audit' = [audit EXCEPT ![a] =
            [Ended(a, "done") EXCEPT !.began = audit[a].began, !.found = audit[a].found]]
      BY <2>9 DEF Conclude
    <3>2. Ended(a, "done") \in AuditOf(Len(runs)) /\ Ended(a, "done").alone = audit[a].alone
      BY EndedType, EndedIs
    <3>3. QED
      BY <1>a, <1>c, <3>1, <3>2 DEF AuditOf
  <2>10. QED
    BY <2>1, <2>2, <2>4, <2>5, <2>6, <2>7, <2>8, <2>9 DEF Steps, Stores
<1>d. QED
  BY <1>b, <1>c

LEMMA ReadsAlone ==
  ASSUME TypeOK, NEW a \in Audits, ReadBaseline(a), NEW b \in Audits
  PROVE  /\ audit[a].pc = "baseline" /\ audit'[a].alone = (Overlapping(a) = {})
         /\ b # a => audit'[b].alone = (audit[b].alone /\ b \notin Overlapping(a))
BY TypeIs DEF ReadBaseline, AuditOf

LEMMA QuietBefore ==
  ASSUME TypeOK, \A a \in Audits : AgreeOK(a), [Next]_vars, Quiet'
  PROVE  Quiet
<1>1. steady
  <2>1. steady' = steady \/ ~steady'
    BY DEF Next, vars, worldVars, Forget, Tick, SetBack, ReadRuns, Answer, Start, Scan, Prepare,
       CommandSucceeds, CommandFails, Shred, Trace, Evaluate, ReadBaseline, ReadPrevious, Stamp,
       RecordEvents, Conclude, Accept, Die, InsertRun
  <2>2. QED
    BY <2>1 DEF Quiet
<1>2. ASSUME NEW b \in Audits PROVE audit[b].alone
  <2>1. audit'[b].alone
    BY DEF Quiet
  <2>2. CASE Others
    BY <2>1, <2>2 DEF Others, World, Forget, Tick, SetBack, ReadRuns, Answer, vars
  <2>3. ASSUME NEW a \in Audits, Steps(a) PROVE audit[b].alone
    <3>1. CASE ReadBaseline(a)
      <4>1. CASE b = a
        BY <3>1, <4>1, ReadsAlone DEF AgreeOK, Opened
      <4>2. CASE b # a
        BY <2>1, <3>1, <4>2, ReadsAlone
      <4>3. QED
        BY <4>1, <4>2
    <3>2. CASE ~ReadBaseline(a)
      BY <2>1, <2>3, <3>2, AloneKept
    <3>3. QED
      BY <3>1, <3>2
  <2>4. QED
    BY <2>2, <2>3, NextIs
<1>3. QED
  BY <1>1, <1>2 DEF Quiet

\* How an execution comes to be between the baseline and its run.
LEMMA StoringBy ==
  ASSUME TypeOK, NEW a \in Audits, Steps(a), audit'[a].pc \in Storing
  PROVE  \/ ReadBaseline(a) /\ audit'[a].pc = "previous"
         \/ /\ ReadPrevious(a) /\ audit[a].pc = "previous"
            /\ audit'[a].pc = "stamp" /\ audit'[a].last = LastRun
         \/ /\ Stamp(a) /\ audit[a].pc = "stamp" /\ audit'[a].pc = "insert"
            /\ audit'[a].at = now /\ audit'[a].last = audit[a].last
<1>a. audit \in [Audits -> AuditOf(Len(runs))] /\ audit[a] \in AuditOf(Len(runs))
  BY TypeIs
<1>1. CASE ReadBaseline(a)
  BY <1>1, <1>a DEF ReadBaseline, AuditOf
<1>2. CASE ReadPrevious(a)
  BY <1>2, <1>a DEF ReadPrevious, AuditOf
<1>3. CASE Stamp(a)
  BY <1>3, <1>a DEF Stamp, AuditOf
<1>4. CASE audit'[a].pc \in Stored
  BY <1>4 DEF Stored, Storing
<1>5. CASE Start(a)
  <2>1. PICK kind \in Kinds, accept \in BOOLEAN, pc \in Active :
          /\ audit'[a] = [audit[a] EXCEPT !.kind = kind, !.pc = pc, !.accept = accept,
                                         !.began = Baseline]
          /\ \/ kind = "run" /\ pc = "evaluate"
             \/ kind = "file" /\ pc = "command"
             \/ kind = "ssh" /\ pc = "scan"
    BY <1>5, Started DEF BegunAs
  <2>2. audit'[a].pc = pc
    BY <1>a, <2>1 DEF AuditOf
  <2>3. QED
    BY <2>1, <2>2 DEF Storing
<1>6. CASE Collects(a) /\ ~Start(a)
  <2>1. audit'[a].pc \in Opened \cup {"failed"}
    BY <1>6, <1>a, WhileCollecting, EndedIs DEF Gone
  <2>2. QED
    BY <2>1 DEF Opened, Collecting, Storing
<1>8. CASE Die(a)
  BY <1>8, <1>a, EndedIs DEF Die, Gone, Storing
<1>9. CASE RecordEvents(a) \/ Accept(a) \/ InsertRun(a)
  <2>1. audit'[a].pc \in {"events", "accept", "report"}
    BY <1>9, <1>a DEF RecordEvents, Accept, InsertRun, Goto, AfterEvents, AuditOf
  <2>2. QED
    BY <2>1, <1>4 DEF Stored
<1>10. CASE Conclude(a)
  <2>1. audit'[a] = [Ended(a, "done") EXCEPT !.began = audit[a].began, !.found = audit[a].found]
    BY <1>10, <1>a DEF Conclude
  <2>2. Ended(a, "done") \in AuditOf(Len(runs)) /\ Gone(a, Ended(a, "done"), "done")
    BY EndedType, EndedIs
  <2>3. audit'[a].pc = "done"
    BY <2>1, <2>2 DEF Gone, AuditOf
  <2>4. QED
    BY <2>3, <1>4 DEF Stored
<1>11. QED
  BY <1>1, <1>2, <1>3, <1>5, <1>6, <1>8, <1>9, <1>10 DEF Steps, Stores

\* Only an insert changes the table of runs.
LEMMA RunsKept ==
  ASSUME NEW a \in Audits, Steps(a)
  PROVE  InsertRun(a) \/ runs' = runs
BY DEF Steps, Collects, Stores, Start, Scan, Prepare, CommandSucceeds, CommandFails,
       Shred, Trace, Evaluate, ReadBaseline, ReadPrevious, Stamp, RecordEvents, Conclude, Accept,
       Die, InsertRun, storeVars

\* Executions do not change the clock, nor what calls have answered.
LEMMA CallsKept ==
  ASSUME NEW a \in Audits, Steps(a)
  PROVE  UNCHANGED <<reader, answer, now, forgotten, steady, changes>>
BY DEF Steps, Collects, Stores, Start, Scan, Prepare, CommandSucceeds, CommandFails,
       Shred, Trace, Evaluate, ReadBaseline, ReadPrevious, Stamp, RecordEvents, Conclude, Accept,
       Die, InsertRun, worldVars

LEMMA StepAgree ==
  ASSUME Inv, NEW a \in Audits, Steps(a), NEW b \in Audits, AgreeOK(b)
  PROVE  AgreeOK(b)'
<1>0. TypeOK /\ PlaceOK(a) /\ PlaceOK(b) /\ BaseOK(b) /\ Remains
  BY StepsRemain DEF Inv
<1>a. /\ audit \in [Audits -> AuditOf(Len(runs))] /\ report \in [Audits -> States]
      /\ audit[b] \in AuditOf(Len(runs)) /\ Len(runs) \in Nat
      /\ audit[b].run \in 0..Len(runs) /\ audit[b].base \subseteq Findings
      /\ report[b].known \subseteq Findings
  <2>1. audit \in [Audits -> AuditOf(Len(runs))] /\ report \in [Audits -> States]
        /\ Len(runs) \in Nat
    BY <1>0, TypeIs
  <2>2. audit[b] \in AuditOf(Len(runs)) /\ report[b] \in States
    BY <2>1
  <2>3. audit[b].run \in 0..Len(runs) /\ audit[b].base \subseteq Findings
    BY <2>2 DEF AuditOf
  <2>4. report[b].known \subseteq Findings
    BY <2>2 DEF States
  <2>5. QED
    BY <2>1, <2>2, <2>3, <2>4
<1>1. audit'[b].pc \in {"idle"} \cup Opened => audit'[b].alone
  <2>1. CASE b # a
    <3>1. audit'[b].pc = audit[b].pc
      BY <1>0, <2>1, OthersKept, KeptFields
    <3>2. CASE ReadBaseline(a)
      <4>1. b \in Overlapping(a) => audit[b].pc \in Storing
        BY DEF Overlapping
      <4>2. QED
        BY <1>0, <2>1, <3>1, <3>2, <4>1, ReadsAlone DEF AgreeOK, Opened, Collecting, Storing
    <3>3. CASE ~ReadBaseline(a)
      BY <1>0, <3>1, <3>3, AloneKept DEF AgreeOK
    <3>4. QED
      BY <3>2, <3>3
  <2>2. CASE b = a
    <3>1. CASE ReadBaseline(a)
      <4>1. audit'[a].pc = "previous"
        BY <1>a, <2>2, <3>1 DEF ReadBaseline, AuditOf
      <4>2. QED
        BY <2>2, <4>1 DEF Opened, Collecting
    <3>2. CASE ~ReadBaseline(a)
      <4>1. audit'[b].alone = audit[b].alone
        BY <1>0, <2>2, <3>2, AloneKept
      <4>2. audit'[a].pc \in {"idle"} \cup Opened => audit[a].pc \in {"idle"} \cup Opened
        <5>1. CASE Collects(a)
          BY <5>1 DEF Collects, Start, Scan, Prepare, CommandSucceeds, CommandFails, Shred, Trace, Evaluate,
             Opened, Collecting
        <5>2. CASE Stores(a) \/ InsertRun(a)
          <6>1. CASE Die(a)
            BY <1>a, <6>1, EndedIs DEF Die, Gone, Opened, Collecting
          <6>2. CASE Conclude(a)
            <7>1. audit'[a] = [Ended(a, "done") EXCEPT !.began = audit[a].began,
                                                       !.found = audit[a].found]
              BY <6>2, <1>a DEF Conclude
            <7>2. /\ Ended(a, "done") \in AuditOf(Len(runs))
                  /\ Gone(a, Ended(a, "done"), "done")
              BY <1>0, EndedType, EndedIs
            <7>3. audit'[a].pc = "done"
              BY <7>1, <7>2 DEF Gone, AuditOf
            <7>4. QED
              BY <7>3 DEF Opened, Collecting
          <6>3. CASE ReadPrevious(a) \/ Stamp(a)
            BY <1>a, <2>2, <6>3 DEF ReadPrevious, Stamp, AuditOf, Opened, Collecting
          <6>4. CASE RecordEvents(a) \/ Accept(a) \/ InsertRun(a)
            <7>1. audit'[a].pc \in {"events", "accept", "report"}
              BY <2>2, <6>4, <1>a DEF RecordEvents, Accept, InsertRun, Goto, AfterEvents, AuditOf
            <7>2. QED
              BY <7>1 DEF Opened, Collecting
          <6>5. QED
            BY <3>2, <5>2, <6>1, <6>2, <6>3, <6>4 DEF Stores
        <5>3. QED
          BY <5>1, <5>2 DEF Steps
      <4>3. QED
        BY <2>2, <4>1, <4>2 DEF AgreeOK
    <3>3. QED
      BY <3>1, <3>2
  <2>3. QED
    BY <2>1, <2>2
<1>3. \A f \in report'[b].known \ forgotten' : baseline'[f] # 0
  <2>1. report'[b].known \subseteq report[b].known \cup audit[b].base
    <3>1. CASE Conclude(b)
      BY <1>a, <3>1 DEF Conclude, Classify, Base
    <3>2. CASE ~Conclude(b)
      <4>1. report'[b] = report[b]
        <5>1. CASE b # a
          BY <1>0, <5>1, OthersKept, KeptFields
        <5>2. CASE b = a
          BY <3>2, <5>2 DEF Steps, Collects, Stores, Start, Scan, Prepare, CommandSucceeds,
             CommandFails, Shred, Trace, Evaluate, ReadBaseline, ReadPrevious, Stamp, RecordEvents,
             Accept, Die, InsertRun
        <5>3. QED
          BY <5>1, <5>2
      <4>2. QED
        BY <4>1
    <3>3. QED
      BY <3>1, <3>2
  <2>2. \A f \in (report[b].known \cup audit[b].base) \ forgotten : baseline[f] # 0
    BY <1>0 DEF AgreeOK, BaseOK
  <2>3. QED
    BY <1>0, <1>a, <2>1, <2>2 DEF Remains
<1>4. QED
  BY <1>1, <1>3 DEF AgreeOK

\* What is said of the order of runs, when executions do not overlap.
LEMMA StepQuiet ==
  ASSUME Inv, NEW a \in Audits, Steps(a), Quiet', QuietInv, Quiet
  PROVE  InOrder' /\ Exclusive' /\ \A b \in Audits : QuietOK(b)'
<1>0. TypeOK /\ InOrder /\ Exclusive /\ \A b \in Audits : QuietOK(b) /\ PlaceOK(b) /\ AgreeOK(b)
  BY DEF Inv, QuietInv
<1>a. /\ audit \in [Audits -> AuditOf(Len(runs))] /\ report \in [Audits -> States]
      /\ Len(runs) \in Nat /\ now' = now /\ now \in Nat /\ runs \in Seq(Run)
  BY <1>0, TypeIs, CallsKept
<1>b. \A i \in 1..Len(runs) : runs[i].at \in Nat
  <2>1. ASSUME NEW i \in 1..Len(runs) PROVE runs[i].at \in Nat
    <3>1. runs[i] \in Run
      BY <1>a
    <3>2. QED
      BY <3>1 DEF Run
  <2>2. QED
    BY <2>1
<1>c. \A b \in Audits : audit[b].at \in Nat /\ audit[b].run \in 0..Len(runs)
  BY <1>a DEF AuditOf
<1>1. Exclusive'
  <2>1. \A b \in Audits \ {a} : audit'[b].pc = audit[b].pc
    BY <1>0, OthersKept, KeptFields
  <2>2. ASSUME audit'[a].pc \in Storing, NEW b \in Audits \ {a}, audit[b].pc \in Storing
        PROVE  FALSE
    <3>1. CASE ReadBaseline(a)
      <4>1. Overlapping(a) = {}
        BY <1>0, <3>1, ReadsAlone DEF Quiet
      <4>2. QED
        BY <2>2, <4>1 DEF Overlapping
    <3>2. CASE ~ReadBaseline(a)
      <4>1. audit[a].pc \in Storing
        BY <1>0, <2>2, <3>2, StoringBy DEF Storing
      <4>2. QED
        BY <1>0, <2>2, <4>1 DEF Exclusive
    <3>3. QED
      BY <3>1, <3>2
  <2>3. QED
    BY <1>0, <2>1, <2>2 DEF Exclusive
<1>2. CASE InsertRun(a)
  <2>1. /\ audit[a].pc = "insert" /\ Len(runs') = Len(runs) + 1
        /\ \A i \in 1..Len(runs) : runs'[i] = runs[i]
        /\ runs'[Len(runs) + 1] = [at |-> audit[a].at, findings |-> audit[a].found]
    BY <1>0, <1>2, Inserts DEF InsertRun
  <2>2. PICK n, at : n = Len(runs) /\ at = audit[a].at
    OBVIOUS
  <2>3. n \in Nat /\ at \in Nat /\ at <= now /\ \A i \in 1..n : runs[i].at <= at
    BY <1>0, <1>a, <1>c, <2>1, <2>2 DEF QuietOK
  <2>4. InOrder'
    <3>1. runs'[n + 1].at = at
      BY <2>1, <2>2
    <3>2. ASSUME NEW i \in 1..(n + 1)
          PROVE  runs'[i].at <= now /\ \A j \in 1..(n + 1) : i < j => runs'[i].at <= runs'[j].at
      <4>1. CASE i = n + 1
        <5>1. \A j \in 1..(n + 1) : ~(n + 1 < j)
          BY <2>3
        <5>2. QED
          BY <2>3, <3>1, <4>1, <5>1
      <4>2. CASE i # n + 1
        <5>1. i \in 1..n
          BY <2>3, <4>2
        <5>2. runs'[i].at = runs[i].at
          BY <2>1, <2>2, <5>1
        <5>3. runs[i].at <= now /\ runs[i].at <= at
          BY <1>0, <2>2, <2>3, <5>1 DEF InOrder
        <5>4. ASSUME NEW j \in 1..(n + 1), i < j PROVE runs'[i].at <= runs'[j].at
          <6>1. CASE j = n + 1
            BY <3>1, <5>2, <5>3, <6>1
          <6>2. CASE j # n + 1
            <7>1. j \in 1..n
              BY <2>3, <6>2
            <7>2. runs'[j].at = runs[j].at
              BY <2>1, <2>2, <7>1
            <7>3. runs[i].at <= runs[j].at
              BY <1>0, <2>2, <5>1, <5>4, <7>1 DEF InOrder
            <7>4. QED
              BY <5>2, <7>2, <7>3
          <6>3. QED
            BY <6>1, <6>2
        <5>5. QED
          BY <5>2, <5>3, <5>4
      <4>3. QED
        BY <4>1, <4>2
    <3>3. QED
      BY <1>a, <2>1, <2>2, <3>2 DEF InOrder
  <2>5. ASSUME NEW b \in Audits PROVE QuietOK(b)'
    <3>1. CASE b = a
      <4>1. /\ audit'[a].pc \in {"events", "accept", "report"}
            /\ audit'[a].run = n + 1 /\ audit'[a].last = audit[a].last
        BY <1>2, <1>a, <2>2 DEF InsertRun, AfterEvents, AuditOf
      <4>2. audit[a].last = n
        BY <1>0, <2>1, <2>2 DEF QuietOK
      <4>3. QED
        BY <2>3, <3>1, <4>1, <4>2 DEF QuietOK
    <3>2. CASE b # a
      <4>1. /\ audit'[b].pc = audit[b].pc /\ audit'[b].run = audit[b].run
            /\ audit'[b].found = audit[b].found /\ audit'[b].last = audit[b].last
            /\ report'[b] = report[b]
        BY <1>0, <3>2, OthersKept, KeptFields
      <4>2. audit[b].pc \notin {"stamp", "insert"}
        BY <1>0, <2>1, <3>2 DEF Exclusive, Storing
      <4>3. audit[b].pc = "done" =>
              FindingsOfRun(audit[b].run - 1)' = FindingsOfRun(audit[b].run - 1)
        <5>1. PICK id : id = audit[b].run - 1
          OBVIOUS
        <5>2. ASSUME audit[b].pc = "done" PROVE id \in 0..Len(runs)
          <6>1. audit[b].run # 0
            BY <1>0, <5>2 DEF PlaceOK, Stored
          <6>2. QED
            BY <1>a, <1>c, <5>1, <6>1
        <5>3. audit[b].pc = "done" => FindingsOfRun(id)' = FindingsOfRun(id)
          BY <1>0, <5>2, RunsRemain
        <5>4. QED
          BY <4>1, <5>1, <5>3 DEF FindingsOfRun
      <4>4. QED
        BY <1>0, <4>1, <4>2, <4>3 DEF QuietOK, FindingsOfRun
    <3>3. QED
      BY <3>1, <3>2
  <2>6. QED
    BY <1>1, <2>4, <2>5
<1>3. CASE ~InsertRun(a)
  <2>1. runs' = runs
    BY <1>3, RunsKept
  <2>2. InOrder'
    BY <1>0, <1>a, <2>1 DEF InOrder
  <2>3. ASSUME NEW b \in Audits PROVE QuietOK(b)'
    <3>1. CASE b # a
      <4>1. /\ audit'[b].pc = audit[b].pc /\ audit'[b].run = audit[b].run
            /\ audit'[b].found = audit[b].found /\ audit'[b].last = audit[b].last
            /\ audit'[b].at = audit[b].at /\ report'[b] = report[b]
        BY <1>0, <3>1, OthersKept, KeptFields
      <4>2. QED
        BY <1>0, <1>a, <2>1, <4>1 DEF QuietOK, FindingsOfRun
    <3>2. CASE b = a /\ audit'[a].pc \in Storing
      <4>1. audit'[a].pc = "insert" =>
              audit'[a].at <= now' /\ \A i \in 1..Len(runs') : runs'[i].at <= audit'[a].at
        BY <1>0, <1>a, <2>1, <3>2, StoringBy DEF InOrder
      <4>2. audit'[a].pc \in {"stamp", "insert"} => audit'[a].last = Len(runs')
        <5>1. LastRun = Len(runs)
          <6>1. PICK n : n = Len(runs)
            OBVIOUS
          <6>2. /\ n \in Nat /\ \A i \in 1..n : runs[i].at \in Nat
                /\ \A i, j \in 1..n : i < j => runs[i].at <= runs[j].at
            BY <1>0, <1>a, <1>b, <6>1 DEF InOrder
          <6>3. Newest(1..n) = n
            BY <6>2, NewestIsLast
          <6>4. QED
            BY <6>1, <6>3 DEF LastRun
        <5>2. audit[a].pc = "stamp" => audit[a].last = Len(runs)
          BY <1>0 DEF QuietOK
        <5>3. QED
          BY <1>0, <2>1, <3>2, <5>1, <5>2, StoringBy
      <4>3. QED
        BY <3>2, <4>1, <4>2 DEF QuietOK, Storing
    <3>3. CASE b = a /\ audit'[a].pc \in Stored
      <4>1. CASE RecordEvents(a) \/ Accept(a)
        <5>1. /\ audit[a].pc \in {"events", "accept"} /\ audit'[a].pc \in {"accept", "report"}
              /\ audit'[a].last = audit[a].last /\ audit'[a].run = audit[a].run
          BY <1>a, <4>1 DEF RecordEvents, Accept, Goto, AfterEvents, AuditOf
        <5>2. QED
          BY <1>0, <3>3, <5>1 DEF QuietOK
      <4>2. CASE Conclude(a)
        <5>1. audit'[a].found = audit[a].found /\ audit'[a].run = audit[a].run
              /\ audit[a].pc = "report" /\ audit'[a].pc = "done"
          <6>1. ~RecordEvents(a) /\ ~Accept(a) /\ ~InsertRun(a)
            BY <4>2 DEF Conclude, RecordEvents, Accept, InsertRun
          <6>2. QED
            BY <1>0, <3>3, <6>1, StoredBy
        <5>2. audit[a].last = audit[a].run - 1
          BY <1>0, <5>1 DEF QuietOK
        <5>3. report'[a].gone = FindingsOfRun(audit[a].last) \ audit[a].found
          BY <1>a, <4>2 DEF Conclude, Classify
        <5>4. QED
          BY <2>1, <3>3, <5>1, <5>2, <5>3 DEF QuietOK, FindingsOfRun
      <4>3. QED
        BY <1>0, <1>3, <3>3, <4>1, <4>2, StoredBy
    <3>4. CASE b = a /\ audit'[a].pc \notin Storing \cup Stored
      BY <3>4 DEF QuietOK, Storing, Stored
    <3>5. QED
      BY <3>1, <3>2, <3>3, <3>4
  <2>4. QED
    BY <1>1, <2>2, <2>3
<1>4. QED
  BY <1>2, <1>3

\* Only an insert gives an execution its run.
LEMMA RunKept ==
  ASSUME TypeOK, NEW a \in Audits, Steps(a), ~InsertRun(a)
  PROVE  audit'[a].run = audit[a].run
<1>a. audit \in [Audits -> AuditOf(Len(runs))] /\ audit[a] \in AuditOf(Len(runs))
  BY TypeIs
<1>1. CASE Start(a)
  <2>1. PICK kind \in Kinds, accept \in BOOLEAN, pc \in Active :
          /\ audit'[a] = [audit[a] EXCEPT !.kind = kind, !.pc = pc, !.accept = accept,
                                         !.began = Baseline]
          /\ \/ kind = "run" /\ pc = "evaluate"
             \/ kind = "file" /\ pc = "command"
             \/ kind = "ssh" /\ pc = "scan"
    BY <1>1, Started DEF BegunAs
  <2>2. QED
    BY <1>a, <2>1 DEF AuditOf
<1>2. CASE Collects(a) /\ ~Start(a)
  BY <1>2, <1>a, WhileCollecting, EndedIs DEF Gone
<1>4. CASE RecordEvents(a) \/ Accept(a)
  <2>1. \E pc : audit' = [audit EXCEPT ![a].pc = pc]
    BY <1>4 DEF RecordEvents, Accept, Goto
  <2>2. QED
    BY <1>a, <2>1 DEF AuditOf
<1>5. CASE Die(a)
  BY <1>5, <1>a, EndedIs DEF Die, Gone
<1>6. CASE ReadPrevious(a)
  BY <1>6, <1>a DEF ReadPrevious, AuditOf
<1>7. CASE Stamp(a)
  BY <1>7, <1>a DEF Stamp, AuditOf
<1>8. CASE ReadBaseline(a)
  BY <1>8, <1>a DEF ReadBaseline, AuditOf
<1>9. CASE Conclude(a)
  <2>1. audit' = [audit EXCEPT ![a] =
          [Ended(a, "done") EXCEPT !.began = audit[a].began, !.found = audit[a].found]]
    BY <1>9 DEF Conclude
  <2>2. Ended(a, "done") \in AuditOf(Len(runs)) /\ Gone(a, Ended(a, "done"), "done")
    BY EndedType, EndedIs
  <2>3. QED
    BY <1>a, <2>1, <2>2 DEF Gone, AuditOf
<1>10. QED
  BY <1>1, <1>2, <1>4, <1>5, <1>6, <1>7, <1>8, <1>9 DEF Steps, Stores

\* What was answered stays as true as it was.
LEMMA StepNews ==
  ASSUME Inv, NEW a \in Audits, Steps(a), NEW r \in Readers, NewsOK(r)
  PROVE  NewsOK(r)'
<1>0. TypeOK /\ (\A b \in Audits : PlaceOK(b)) /\ answer' = answer /\ forgotten' = forgotten
  BY CallsKept DEF Inv
<1>a. audit \in [Audits -> AuditOf(Len(runs))] /\ Len(runs) \in Nat
  BY <1>0, TypeIs
<1>1. answer'[r].last \in 0..Len(runs')
  <2>1. CASE InsertRun(a)
    <3>1. Len(runs') = Len(runs) + 1
      BY <1>0, <2>1, Inserts
    <3>2. answer[r].last \in 0..Len(runs)
      BY DEF NewsOK
    <3>3. QED
      BY <1>0, <1>a, <3>1, <3>2
  <2>2. CASE runs' = runs
    BY <1>0, <2>2 DEF NewsOK
  <2>3. QED
    BY <2>1, <2>2, RunsKept
<1>2. ASSUME NEW b \in Audits, audit'[b].run # 0, answer[r].last = audit'[b].run
      PROVE  answer[r].new \cap (audit'[b].base \cup report'[b].known) \subseteq forgotten
  <2>1. CASE audit[b].run # 0
    <3>1. /\ audit'[b].run = audit[b].run
          /\ report'[b].known \subseteq report[b].known \cup audit[b].base
      BY <1>0, <2>1, Witness
    <3>2. audit'[b].base \subseteq audit[b].base
      <4>1. CASE b # a
        BY <1>0, <4>1, OthersKept, KeptFields
      <4>2. CASE b = a
        <5>1. audit[a].pc \notin Unstored
          BY <1>0, <2>1, <4>2 DEF PlaceOK
        <5>2. CASE RecordEvents(a) \/ Accept(a)
          <6>1. PICK pc : audit' = [audit EXCEPT ![a].pc = pc]
            BY <5>2 DEF RecordEvents, Accept, Goto
          <6>2. audit'[a] = [audit[a] EXCEPT !.pc = pc] /\ audit[a] \in AuditOf(Len(runs))
            BY <1>a, <6>1
          <6>3. audit'[a].base = audit[a].base
            BY <6>2 DEF AuditOf
          <6>4. QED
            BY <4>2, <6>3
        <5>3. CASE Die(a)
          BY <1>a, <4>2, <5>3, EndedIs DEF Die, Gone
        <5>4. CASE Conclude(a)
          <6>1. audit'[a] = [Ended(a, "done") EXCEPT !.began = audit[a].began,
                                                     !.found = audit[a].found]
            BY <1>a, <5>4 DEF Conclude
          <6>2. Ended(a, "done") \in AuditOf(Len(runs)) /\ Gone(a, Ended(a, "done"), "done")
            BY <1>0, EndedType, EndedIs
          <6>3. audit'[a].base = {}
            BY <6>1, <6>2 DEF Gone, AuditOf
          <6>4. QED
            BY <4>2, <6>3
        <5>5. QED
          BY <4>2, <5>1, <5>2, <5>3, <5>4
             DEF Steps, Collects, Stores, Unstored, Opened, Collecting, Storing, Start, Scan,
                 Prepare, CommandSucceeds, CommandFails, Shred, Trace, Evaluate, ReadBaseline,
                 ReadPrevious, Stamp, InsertRun
      <4>3. QED
        BY <4>1, <4>2
    <3>3. answer[r].new \cap (audit[b].base \cup report[b].known) \subseteq forgotten
      BY <1>2, <2>1, <3>1 DEF NewsOK
    <3>4. QED
      BY <3>1, <3>2, <3>3
  <2>2. CASE audit[b].run = 0
    <3>1. b = a
      BY <1>0, <1>2, <2>2, OthersKept, KeptFields
    <3>2. InsertRun(a)
      BY <1>0, <1>2, <2>2, <3>1, RunKept
    <3>3. audit'[a].run = Len(runs) + 1
      BY <1>a, <3>2 DEF InsertRun, AuditOf
    <3>4. answer[r].last \in 0..Len(runs)
      BY DEF NewsOK
    <3>5. QED
      BY <1>a, <1>2, <3>1, <3>3, <3>4
  <2>3. QED
    BY <2>1, <2>2
<1>3. QED
  BY <1>0, <1>1, <1>2 DEF NewsOK

LEMMA StepTells ==
  ASSUME TypeOK, NEW a \in Audits, Steps(a), NEW r \in Readers, NewsOK(r), TellsOK(r)
  PROVE  TellsOK(r)'
<1>1. answer' = answer /\ Len(runs) \in Nat
  BY CallsKept, TypeIs
<1>2. PICK n, m : n = answer[r].last /\ m = answer[r].last - 1
  OBVIOUS
<1>3. n \in 0..Len(runs) /\ (n # 0 => m \in 0..Len(runs))
  BY <1>1, <1>2 DEF NewsOK
<1>4. FindingsOfRun(n)' = FindingsOfRun(n) /\ (n # 0 => FindingsOfRun(m)' = FindingsOfRun(m))
  BY <1>3, RunsRemain
<1>5. QED
  BY <1>1, <1>2, <1>4 DEF TellsOK, FindingsOfRun

\* An answer, when it is made.
LEMMA AnswerNews ==
  ASSUME Inv, NEW r \in Readers, Answer(r), \A a \in Audits : AgreeOK(a)
  PROVE  NewsOK(r)' /\ (InOrder => TellsOK(r)')
<1>0. /\ TypeOK /\ Len(runs) \in Nat /\ answer \in [Readers -> States] /\ runs \in Seq(Run)
      /\ \A a \in Audits : PlaceOK(a) /\ BaseOK(a)
      /\ reader[r].seen \in 0..Len(runs) /\ baseline \in [Findings -> 0..Len(runs)]
  BY TypeIs DEF Inv, ReaderOf
<1>1. PICK states : states = Answered(r)
  OBVIOUS
<1>2. answer'[r] = states
  <2>1. answer' = [answer EXCEPT ![r] = states]
    BY <1>1, AnswerIs
  <2>2. QED
    BY <1>0, <2>1
<1>3. states \in States /\ states.new \cap Baseline = {}
  BY <1>0, <1>1, AnsweredType
<1>4. UNCHANGED <<audit, report, runs, forgotten>>
  BY DEF Answer, storeVars, worldVars
<1>5. PICK n : n = reader[r].seen
  OBVIOUS
<1>6. n \in 0..Len(runs) /\ 1..n \subseteq 1..Len(runs)
  BY <1>0, <1>5
<1>7. CASE n = 0
  <2>1. states = NoStates
    BY <1>1, <1>5, <1>7 DEF Answered
  <2>2. states.last = 0 /\ states.new = {}
    BY <2>1 DEF NoStates
  <2>3. QED
    BY <1>0, <1>2, <1>4, <2>2 DEF NewsOK, TellsOK
<1>8. CASE n # 0
  <2>1. Newest(1..n) \in 0..Len(runs) /\ Second(1..n) \in 0..Len(runs)
    BY <1>0, <1>6, NewestType DEF Second
  <2>2. PICK id, today, base, previous, time :
          /\ id = Newest(1..n) /\ today = FindingsOfRun(Newest(1..n)) /\ base = Baseline
          /\ previous = FindingsOfRun(Second(1..n)) /\ time = reader[r].at
    OBVIOUS
  <2>3. states = Classify(id, today, base, previous, time)
    <3>1. 1..n # {}
      BY <1>6, <1>8
    <3>2. QED
      BY <1>1, <1>5, <2>2, <3>1 DEF Answered
  <2>4. states.last = id /\ states.gone = previous \ today
        /\ states.new \cup states.known \cup states.suppressed = today
    BY <2>3 DEF Classify
  <2>5. NewsOK(r)'
    <3>1. ASSUME NEW a \in Audits, audit[a].run # 0
          PROVE  states.new \cap (audit[a].base \cup report[a].known) \subseteq forgotten
      <4>1. (audit[a].base \cup report[a].known) \ forgotten \subseteq Baseline
        <5>1. audit[a].base \subseteq Findings /\ report[a].known \subseteq Findings
          BY <1>0, TypeIs DEF AuditOf, States
        <5>2. QED
          BY <1>0, <5>1 DEF BaseOK, AgreeOK, Baseline
      <4>2. QED
        BY <1>3, <4>1
    <3>2. QED
      BY <1>2, <1>4, <2>1, <2>2, <2>4, <3>1 DEF NewsOK
  <2>6. ASSUME InOrder PROVE TellsOK(r)'
    <3>1. \A i \in 1..Len(runs) : runs[i].at \in Nat
      <4>1. ASSUME NEW i \in 1..Len(runs) PROVE runs[i].at \in Nat
        <5>1. runs[i] \in Run
          BY <1>0
        <5>2. QED
          BY <5>1 DEF Run
      <4>2. QED
        BY <4>1
    <3>2. \A k \in 0..n : Newest(1..k) = k
      <4>1. ASSUME NEW k \in 0..n PROVE Newest(1..k) = k
        <5>1. k \in Nat /\ 1..k \subseteq 1..Len(runs)
          BY <1>0, <1>6
        <5>2. \A i \in 1..k : runs[i].at \in Nat
          BY <3>1, <5>1
        <5>3. \A i, j \in 1..k : i < j => runs[i].at <= runs[j].at
          BY <2>6, <5>1 DEF InOrder
        <5>4. QED
          BY <5>1, <5>2, <5>3, NewestIsLast
      <4>2. QED
        BY <4>1
    <3>3. Newest(1..n) = n
      BY <1>6, <3>2
    <3>4. Second(1..n) = n - 1
      <4>1. (1..n) \ {n} = 1..(n - 1)
        BY <1>6
      <4>2. Newest(1..(n - 1)) = n - 1
        BY <1>6, <1>8, <3>2
      <4>3. QED
        BY <3>3, <4>1, <4>2 DEF Second
    <3>5. id = n /\ today = FindingsOfRun(n) /\ previous = FindingsOfRun(n - 1)
      BY <2>2, <3>3, <3>4
    <3>6. FindingsOfRun(n)' = FindingsOfRun(n) /\ FindingsOfRun(n - 1)' = FindingsOfRun(n - 1)
      BY <1>4 DEF FindingsOfRun
    <3>7. QED
      BY <1>2, <2>4, <3>5, <3>6 DEF TellsOK, FindingsOfRun
  <2>7. QED
    BY <2>5, <2>6
<1>9. QED
  BY <1>7, <1>8

LEMMA QuietStep ==
  ASSUME Inv, QuietInv, [Next]_vars
  PROVE  QuietInv'
<1>0. TypeOK /\ TypeOK' /\ (Quiet' => Quiet)
  <2>1. TypeOK'
    BY TypeStep
  <2>2. QED
    BY <2>1, QuietBefore DEF Inv, QuietInv
<1>1. ASSUME NEW a \in Audits, Steps(a) PROVE QuietInv'
  <2>1. \A b \in Audits : AgreeOK(b)'
    BY <1>1, StepAgree DEF QuietInv
  <2>2. \A r \in Readers : NewsOK(r)'
    BY <1>1, StepNews DEF QuietInv
  <2>3. ASSUME Quiet' PROVE InOrder' /\ Exclusive' /\ \A b \in Audits : QuietOK(b)'
    BY <1>0, <1>1, <2>3, StepQuiet
  <2>4. ASSUME Quiet', NEW r \in Readers PROVE TellsOK(r)'
    BY <1>0, <1>1, <2>4, StepTells DEF QuietInv
  <2>5. QED
    BY <2>1, <2>2, <2>3, <2>4 DEF QuietInv
<1>2. ASSUME Others PROVE QuietInv'
  <2>1. audit' = audit /\ report' = report /\ runs' = runs
    BY <1>2 DEF Others, World, Forget, Tick, SetBack, ReadRuns, Answer, vars, storeVars
  <2>2. Remains
    BY <1>0, <1>2, OtherRemain DEF Others
  <2>3. ASSUME NEW b \in Audits PROVE AgreeOK(b)'
    <3>1. report[b].known \subseteq Findings
      BY <1>0, TypeIs DEF States
    <3>2. QED
      BY <2>1, <2>2, <3>1 DEF QuietInv, AgreeOK, Remains
  <2>4. ASSUME Quiet' PROVE InOrder' /\ Exclusive' /\ \A b \in Audits : QuietOK(b)'
    <3>1. Quiet /\ InOrder /\ Exclusive /\ \A b \in Audits : QuietOK(b)
      BY <1>0, <2>4 DEF QuietInv
    <3>2. now \in Nat /\ now' \in Nat /\ now <= now'
      <4>1. now' = now \/ now' = now + 1 \/ ~steady'
        BY <1>2 DEF Others, World, Forget, Tick, SetBack, ReadRuns, Answer, vars, worldVars
      <4>2. now \in Nat /\ now' \in Nat
        BY <1>0, AuditorAssumption DEF TypeOK
      <4>3. QED
        BY <2>4, <4>1, <4>2 DEF Quiet
    <3>3. \A i \in 1..Len(runs) : runs[i].at \in Nat
      <4>1. ASSUME NEW i \in 1..Len(runs) PROVE runs[i].at \in Nat
        <5>1. runs \in Seq(Run)
          BY <1>0 DEF TypeOK
        <5>2. runs[i] \in Run
          BY <5>1
        <5>3. QED
          BY <5>2 DEF Run
      <4>2. QED
        BY <4>1
    <3>4. InOrder'
      BY <2>1, <3>1, <3>2, <3>3 DEF InOrder
    <3>5. Exclusive'
      BY <2>1, <3>1 DEF Exclusive
    <3>6. ASSUME NEW b \in Audits PROVE QuietOK(b)'
      <4>1. audit[b].at \in Nat
        BY <1>0, TypeIs DEF AuditOf
      <4>2. QED
        BY <2>1, <3>1, <3>2, <4>1 DEF QuietOK, FindingsOfRun
    <3>7. QED
      BY <3>4, <3>5, <3>6
  <2>5. ASSUME NEW q \in Readers PROVE NewsOK(q)' /\ (Quiet' => TellsOK(q)')
    <3>1. CASE Answer(q)
      BY <1>0, <3>1, AnswerNews DEF QuietInv
    <3>2. CASE ~Answer(q)
      <4>1. answer'[q] = answer[q]
        <5>1. CASE \E r \in Readers : Answer(r)
          <6>1. PICK r \in Readers : Answer(r)
            BY <5>1
          <6>2. r # q
            BY <3>2, <6>1
          <6>3. QED
            BY <1>0, <6>1, <6>2 DEF Answer, TypeOK
        <5>2. CASE ~\E r \in Readers : Answer(r)
          BY <1>2, <5>2 DEF Others, World, Forget, Tick, SetBack, ReadRuns, vars
        <5>3. QED
          BY <5>1, <5>2
      <4>2. NewsOK(q) /\ (Quiet => TellsOK(q))
        BY DEF QuietInv
      <4>3. QED
        BY <1>0, <2>1, <2>2, <4>1, <4>2 DEF NewsOK, TellsOK, FindingsOfRun, Remains
    <3>3. QED
      BY <3>1, <3>2
  <2>6. QED
    BY <2>3, <2>4, <2>5 DEF QuietInv
<1>3. QED
  BY <1>1, <1>2, NextIs

LEMMA InitQuiet == Init => QuietInv
<1> SUFFICES ASSUME Init PROVE QuietInv
  OBVIOUS
<1>1. Len(runs) = 0 /\ 1..0 = {} /\ 0 \in 0..0
  BY DEF Init
<1>2. ASSUME NEW a \in Audits PROVE AgreeOK(a) /\ QuietOK(a) /\ audit[a].pc = "idle"
  <2>1. audit[a] = NewAudit /\ report[a] = NoStates
    BY DEF Init
  <2>2. QED
    BY <2>1 DEF AgreeOK, QuietOK, NewAudit, NoStates
<1>3. ASSUME NEW r \in Readers PROVE NewsOK(r) /\ TellsOK(r)
  <2>1. answer[r] = NoStates
    BY DEF Init
  <2>2. answer[r].last = 0 /\ answer[r].new = {}
    BY <2>1 DEF NoStates
  <2>3. QED
    BY <1>1, <2>2 DEF NewsOK, TellsOK
<1>4. InOrder /\ Exclusive
  BY <1>1, <1>2 DEF InOrder, Exclusive, Storing
<1>5. QED
  BY <1>2, <1>3, <1>4 DEF QuietInv

\* When no two executions store at the same time and the clock is not set back,
\* an execution finds the run before its own, and a call the one before the last.
THEOREM QuietInvariant == Spec => []QuietInv
<1>1. Inv /\ QuietInv /\ [Next]_vars => QuietInv'
  BY QuietStep
<1>2. QED
  BY <1>1, InitQuiet, AuditorInvariant, PTL DEF Spec

\* Then list_findings agrees with the last run's own report: it has the same
\* findings, calls the same ones gone, and nothing the report called known is
\* new but what was forgotten.  (cli._previous, query._classified)
THEOREM QueriesAgree == Spec => []QueryAgreesWithReport
<1>1. Inv /\ QuietInv => QueryAgreesWithReport
  <2> SUFFICES ASSUME Inv, QuietInv, NEW a \in Audits, NEW r \in Readers,
                      audit[a].pc = "done", answer[r].last = audit[a].run, Quiet
               PROVE  /\ answer[r].gone = report[a].gone
                      /\ answer[r].new \cup answer[r].known \cup answer[r].suppressed
                           = audit[a].found
                      /\ answer[r].new \cap report[a].known \subseteq forgotten
    BY DEF QueryAgreesWithReport, Quiet
  <2>1. audit[a].run # 0
    BY DEF Inv, PlaceOK, Stored
  <2>2. FindingsOfRun(audit[a].run) = audit[a].found
    BY DEF Inv, FoundOK, Stored
  <2>3. report[a].gone = FindingsOfRun(audit[a].run - 1) \ audit[a].found
    BY DEF QuietInv, QuietOK
  <2>4. /\ answer[r].gone = FindingsOfRun(answer[r].last - 1) \ FindingsOfRun(answer[r].last)
        /\ answer[r].new \cup answer[r].known \cup answer[r].suppressed
             = FindingsOfRun(answer[r].last)
    BY <2>1 DEF QuietInv, TellsOK
  <2>5. answer[r].new \cap report[a].known \subseteq forgotten
    BY <2>1 DEF QuietInv, NewsOK
  <2>6. QED
    BY <2>2, <2>3, <2>4, <2>5
<1>2. QED
  BY <1>1, AuditorInvariant, QuietInvariant, PTL

-----------------------------------------------------------------------------
(* Reading a sequence, whatever is read.                                   *)

\* A set of numbers that has 0 and the next of each has them all.
LEMMA AllNumbers ==
  ASSUME NEW P, 0 \in P, \A n \in Nat : n \in P => n + 1 \in P
  PROVE  \A n \in Nat : n \in P
<1> SUFFICES ASSUME NEW k \in Nat, k \notin P PROVE FALSE
  OBVIOUS
<1> DEFINE T == Nat \ P
<1>1. T \subseteq Nat /\ T # {}
  OBVIOUS
<1>2. PICK x \in T : \A y \in T : ~(<<y, x>> \in OpToRel(<, Nat))
  <2> HIDE DEF T
  <2>1. QED
    BY <1>1, WFMin, NatLessThanWellFounded
<1>3. \A y \in T : ~(y < x)
  BY <1>1, <1>2 DEF OpToRel
<1>4. x # 0 /\ x - 1 \in Nat /\ x - 1 < x
  OBVIOUS
<1>5. x - 1 \in P
  BY <1>3, <1>4
<1>6. QED
  BY <1>4, <1>5

\* Up to a bound.
LEMMA NumbersUpTo ==
  ASSUME NEW m \in Nat, NEW P, 0 \in P, \A n \in 0..(m - 1) : n \in P => n + 1 \in P
  PROVE  \A n \in 0..m : n \in P
<1> DEFINE Q == {n \in Nat : n <= m => n \in P}
<1>1. 0 \in Q
  OBVIOUS
<1>2. ASSUME NEW n \in Nat, n \in Q PROVE n + 1 \in Q
  <2>1. SUFFICES ASSUME n + 1 <= m PROVE n + 1 \in P
    OBVIOUS
  <2>2. n \in 0..(m - 1) /\ n \in P
    BY <1>2, <2>1
  <2>3. QED
    BY <2>2
<1>3. \A n \in Nat : n \in Q
  <2> HIDE DEF Q
  <2>1. QED
    BY <1>1, <1>2, AllNumbers
<1>4. QED
  BY <1>3

\* What was read after each element of a sequence, for a function that reads one.
ReadersOf(D, E) == [D \X E -> D]
StatesOf(D, s) == [0..Len(s) -> D]
ReadBy(F, start, s, after) ==
  after[0] = start /\ \A n \in 1..Len(s) : after[n] = F[<<after[n - 1], s[n]>>]

LEMMA EachRead ==
  ASSUME NEW D, NEW E, NEW F \in ReadersOf(D, E), NEW start \in D, NEW s \in Seq(E)
  PROVE  \E after \in StatesOf(D, s) : ReadBy(F, start, s, after)
<1> USE DEF ReadersOf
<1> DEFINE Reads(m, u) == u[0] = start /\ \A i \in 1..m : u[i] = F[<<u[i - 1], s[i]>>]
           Good(m) == \E u \in [0..m -> D] : Reads(m, u)
           P == {m \in Nat : Good(m)}
<1>1. 0 \in P
  <2>1. PICK z : z = [i \in 0..0 |-> start]
    OBVIOUS
  <2>2. z \in [0..0 -> D] /\ Reads(0, z)
    BY <2>1
  <2>3. Good(0)
    <3> HIDE DEF Reads
    <3>1. QED
      BY <2>2
  <2>4. QED
    BY <2>3
<1>2. ASSUME NEW m \in 0..(Len(s) - 1), m \in P PROVE m + 1 \in P
  <2> HIDE DEF Good
  <2>1. SUFFICES Good(m + 1)
    OBVIOUS
  <2>2. Good(m) /\ m \in Nat /\ m + 1 \in 1..Len(s)
    BY <1>2
  <2>3. PICK v \in [0..m -> D] : Reads(m, v)
    <3> HIDE DEF Reads
    <3>1. QED
      BY <2>2 DEF Good
  <2>4. PICK u : u = [i \in 0..(m + 1) |-> IF i = m + 1 THEN F[<<v[m], s[m + 1]>>] ELSE v[i]]
    OBVIOUS
  <2>5. v[m] \in D /\ s[m + 1] \in E
    BY <2>2, <2>3
  <2>6. F[<<v[m], s[m + 1]>>] \in D
    BY <2>5
  <2>7. u \in [0..(m + 1) -> D] /\ u[0] = start
    BY <2>2, <2>3, <2>4, <2>6
  <2>8. ASSUME NEW i \in 1..(m + 1) PROVE u[i] = F[<<u[i - 1], s[i]>>]
    <3>1. CASE i = m + 1
      <4>1. i - 1 = m /\ m \in 0..(m + 1) /\ m # m + 1 /\ i \in 0..(m + 1)
        BY <2>2, <3>1
      <4>2. u[i] = F[<<v[m], s[i]>>] /\ u[i - 1] = v[m]
        BY <2>4, <3>1, <4>1
      <4>3. QED
        BY <4>2
    <3>2. CASE i # m + 1
      <4>1. i \in 1..m /\ i - 1 \in 0..(m + 1) /\ i - 1 # m + 1 /\ i \in 0..(m + 1)
        BY <2>2, <3>2
      <4>2. u[i] = v[i] /\ u[i - 1] = v[i - 1]
        BY <2>4, <3>2, <4>1
      <4>3. QED
        BY <2>3, <4>1, <4>2
    <3>3. QED
      BY <3>1, <3>2
  <2>9. QED
    BY <2>7, <2>8 DEF Good
<1>3. Len(s) \in P
  <2>1. Len(s) \in Nat /\ Len(s) \in 0..Len(s)
    OBVIOUS
  <2> HIDE DEF P
  <2>2. \A m \in 0..Len(s) : m \in P
    BY <1>1, <1>2, <2>1, NumbersUpTo
  <2>3. QED
    BY <2>1, <2>2
<1>4. QED
  BY <1>3 DEF StatesOf, ReadBy

-----------------------------------------------------------------------------
(* What is read of a text whose characters are C.                          *)

LogicalOf(C) == [number : Nat \ {0}, raw : Seq(C)]
LineReads(C) == [number : Nat, open : Nat, buffer : Seq(C), lines : Seq(LogicalOf(C))]
CharReads(C) == [tokens : Seq(Seq(C)), current : Seq(C), inQuotes : BOOLEAN,
                 escaped : BOOLEAN, quoted : BOOLEAN]

NoLine == [number |-> 0, open |-> 0, buffer |-> <<>>, lines |-> <<>>]
NoCharacter == [tokens |-> <<>>, current |-> <<>>, inQuotes |-> FALSE,
                escaped |-> FALSE, quoted |-> FALSE]

\* A line is read to a state of the reader.
LEMMA LineType ==
  ASSUME NEW C, Break \in C, NEW read \in LineReads(C), NEW line \in Seq(C)
  PROVE  ReadLine(read, line) \in LineReads(C)
<1>1. ASSUME NEW start \in Nat \ {0}, NEW buffer \in Seq(C)
      PROVE  Buffered(read, start, buffer) \in LineReads(C)
  <2>1. [number |-> start, raw |-> buffer] \in LogicalOf(C)
    BY DEF LogicalOf
  <2>2. Append(read.lines, [number |-> start, raw |-> buffer]) \in Seq(LogicalOf(C))
    BY <2>1 DEF LineReads
  <2>3. read.number + 1 \in Nat /\ read.number \in Nat
    BY DEF LineReads
  <2>4. [read EXCEPT !.number = @ + 1, !.open = start, !.buffer = buffer] \in LineReads(C)
    BY <2>3 DEF LineReads
  <2>5. [number |-> read.number + 1, open |-> 0, buffer |-> <<>>,
         lines |-> Append(read.lines, [number |-> start, raw |-> buffer])] \in LineReads(C)
    BY <2>2, <2>3 DEF LineReads
  <2>6. QED
    BY <2>4, <2>5 DEF Buffered
<1>2. read.number + 1 \in Nat \ {0} /\ (read.open # 0 => read.open \in Nat \ {0})
  BY DEF LineReads
<1>3. read.buffer \o <<Break>> \o line \in Seq(C)
  BY DEF LineReads
<1>4. QED
  BY <1>1, <1>2, <1>3 DEF ReadLine

\* The logical lines of a text are read line by line.
LEMMA LinesRead ==
  ASSUME NEW C, Break \in C, NEW text \in Seq(Seq(C))
  PROVE  \E after \in StatesOf(LineReads(C), text) :
           /\ after[0] = NoLine
           /\ \A n \in 1..Len(text) : after[n] = ReadLine(after[n - 1], text[n])
           /\ LogicalLines(text) = after[Len(text)]
<1> DEFINE D == LineReads(C)
           E == Seq(C)
           F == [x \in D \X E |-> ReadLine(x[1], x[2])]
           Following(g) == [n \in 0..Len(text) |->
             IF n = 0 THEN NoLine
             ELSE CHOOSE read \in {ReadLine(before, text[n]) : before \in {g[n - 1]}} : TRUE]
           u == CHOOSE g : g = Following(g)
<1>1. NoLine \in D
  BY DEF NoLine, LineReads
<1>2. F \in ReadersOf(D, E) /\ text \in Seq(E)
  <2>1. \A d \in D, e \in E : ReadLine(d, e) \in D
    BY LineType
  <2>2. QED
    BY <2>1 DEF ReadersOf
<1>3. PICK v \in [0..Len(text) -> D] :
         v[0] = NoLine /\ \A n \in 1..Len(text) : v[n] = F[<<v[n - 1], text[n]>>]
  <2> HIDE DEF D, E, F
  <2>1. \E v \in StatesOf(D, text) : ReadBy(F, NoLine, text, v)
    BY <1>1, <1>2, EachRead
  <2>2. QED
    BY <2>1 DEF StatesOf, ReadBy
<1>4. ASSUME NEW n \in 1..Len(text) PROVE v[n] = ReadLine(v[n - 1], text[n])
  <2>1. v[n - 1] \in D /\ text[n] \in E
    <3> HIDE DEF D, E, F
    <3>1. Len(text) \in Nat /\ text[n] \in E
      BY <1>2
    <3>2. n - 1 \in 0..Len(text)
      BY <3>1
    <3>3. QED
      BY <3>1, <3>2
  <2>2. v[n] = F[<<v[n - 1], text[n]>>]
    BY <1>3
  <2> HIDE DEF D, E
  <2>3. QED
    BY <2>1, <2>2
<1> HIDE DEF D, E, F
<1>5. v = Following(v)
  <2>1. ASSUME NEW n \in 0..Len(text) PROVE v[n] = Following(v)[n]
    <3>1. CASE n = 0
      BY <1>3, <3>1
    <3>2. CASE n # 0
      <4>1. n \in 1..Len(text)
        BY <3>2
      <4>2. {ReadLine(before, text[n]) : before \in {v[n - 1]}} = {v[n]}
        BY <1>4, <4>1
      <4>3. QED
        BY <3>2, <4>2
    <3>3. QED
      BY <3>1, <3>2
  <2>2. QED
    BY <2>1
<1>6. u = Following(u)
  <2> HIDE DEF Following
  <2>1. QED
    BY <1>5
<1>7. LogicalLines(text) = u[Len(text)]
  BY DEF LogicalLines, Reading, NoLine
<1> HIDE DEF u
<1>8. u[0] = NoLine
  BY <1>6
<1>9. ASSUME NEW n \in 1..Len(text) PROVE u[n] = ReadLine(u[n - 1], text[n])
  <2>1. n \in 0..Len(text) /\ n # 0
    OBVIOUS
  <2>2. u[n] = CHOOSE read \in {ReadLine(before, text[n]) : before \in {u[n - 1]}} : TRUE
    BY <1>6, <2>1, Zenon
  <2>3. {ReadLine(before, text[n]) : before \in {u[n - 1]}} = {ReadLine(u[n - 1], text[n])}
    OBVIOUS
  <2>4. QED
    BY <2>2, <2>3
<1>10. u[Len(text)] = v[Len(text)]
  <2> DEFINE P == {n \in Nat : n <= Len(text) => u[n] = v[n]}
  <2>1. 0 \in P
    BY <1>3, <1>8
  <2>2. ASSUME NEW n \in 0..(Len(text) - 1), n \in P PROVE n + 1 \in P
    BY <1>4, <1>9, <2>2
  <2>3. Len(text) \in P
    <3>1. Len(text) \in Nat /\ Len(text) \in 0..Len(text)
      BY <1>2
    <3> HIDE DEF P
    <3>2. QED
      BY <2>1, <2>2, <3>1, NumbersUpTo
  <2>4. QED
    BY <2>3
<1>11. v \in StatesOf(LineReads(C), text)
  BY DEF StatesOf, D
<1>12. QED
  BY <1>3, <1>4, <1>7, <1>10, <1>11

\* A character is read to a state of the reader.
LEMMA CharacterType ==
  ASSUME NEW C, NEW read \in CharReads(C), NEW c \in C
  PROVE  ReadCharacter(read, c) \in CharReads(C)
<1>1. read.tokens \in Seq(Seq(C)) /\ read.current \in Seq(C) /\ read.inQuotes \in BOOLEAN
      /\ read.escaped \in BOOLEAN /\ read.quoted \in BOOLEAN
  BY DEF CharReads
<1>2. Append(read.current, c) \in Seq(C) /\ Append(read.tokens, read.current) \in Seq(Seq(C))
  BY <1>1
<1>3. [read EXCEPT !.current = Append(@, c), !.escaped = FALSE] \in CharReads(C)
      /\ [read EXCEPT !.current = Append(@, c)] \in CharReads(C)
  BY <1>1, <1>2 DEF CharReads
<1>4. [read EXCEPT !.escaped = TRUE] \in CharReads(C)
      /\ [read EXCEPT !.inQuotes = ~@, !.quoted = TRUE] \in CharReads(C)
  BY <1>1 DEF CharReads
<1> DEFINE longer == Append(read.tokens, read.current)
<1>5. [read EXCEPT !.tokens = longer, !.current = <<>>, !.quoted = FALSE] \in CharReads(C)
  <2>1. <<>> \in Seq(C) /\ longer \in Seq(Seq(C))
    BY <1>2
  <2> HIDE DEF longer
  <2>2. QED
    BY <1>1, <2>1 DEF CharReads
<1>6. QED
  BY <1>1, <1>3, <1>4, <1>5 DEF ReadCharacter

\* The tokens of a line are read character by character.
LEMMA CharactersRead ==
  ASSUME NEW C, NEW raw \in Seq(C)
  PROVE  \E after \in StatesOf(CharReads(C), raw) :
           /\ after[0] = NoCharacter
           /\ \A n \in 1..Len(raw) : after[n] = ReadCharacter(after[n - 1], raw[n])
           /\ Tokenize(raw) = Tokens(after[Len(raw)])
<1> DEFINE D == CharReads(C)
           E == C
           F == [x \in D \X E |-> ReadCharacter(x[1], x[2])]
           Following(g) == [n \in 0..Len(raw) |->
             IF n = 0 THEN NoCharacter
             ELSE CHOOSE read \in {ReadCharacter(before, raw[n]) : before \in {g[n - 1]}} : TRUE]
           u == CHOOSE g : g = Following(g)
<1>1. NoCharacter \in D
  BY DEF NoCharacter, CharReads
<1>2. F \in ReadersOf(D, E) /\ raw \in Seq(E)
  <2>1. \A d \in D, e \in E : ReadCharacter(d, e) \in D
    BY CharacterType
  <2>2. QED
    BY <2>1 DEF ReadersOf
<1>3. PICK v \in [0..Len(raw) -> D] :
         v[0] = NoCharacter /\ \A n \in 1..Len(raw) : v[n] = F[<<v[n - 1], raw[n]>>]
  <2> HIDE DEF D, E, F
  <2>1. \E v \in StatesOf(D, raw) : ReadBy(F, NoCharacter, raw, v)
    BY <1>1, <1>2, EachRead
  <2>2. QED
    BY <2>1 DEF StatesOf, ReadBy
<1>4. ASSUME NEW n \in 1..Len(raw) PROVE v[n] = ReadCharacter(v[n - 1], raw[n])
  <2>1. v[n - 1] \in D /\ raw[n] \in E
    <3> HIDE DEF D, E, F
    <3>1. Len(raw) \in Nat /\ raw[n] \in E
      BY <1>2
    <3>2. n - 1 \in 0..Len(raw)
      BY <3>1
    <3>3. QED
      BY <3>1, <3>2
  <2>2. v[n] = F[<<v[n - 1], raw[n]>>]
    BY <1>3
  <2> HIDE DEF D, E
  <2>3. QED
    BY <2>1, <2>2
<1> HIDE DEF D, E, F
<1>5. v = Following(v)
  <2>1. ASSUME NEW n \in 0..Len(raw) PROVE v[n] = Following(v)[n]
    <3>1. CASE n = 0
      BY <1>3, <3>1
    <3>2. CASE n # 0
      <4>1. n \in 1..Len(raw)
        BY <3>2
      <4>2. {ReadCharacter(before, raw[n]) : before \in {v[n - 1]}} = {v[n]}
        BY <1>4, <4>1
      <4>3. QED
        BY <3>2, <4>2
    <3>3. QED
      BY <3>1, <3>2
  <2>2. QED
    BY <2>1
<1>6. u = Following(u)
  <2> HIDE DEF Following
  <2>1. QED
    BY <1>5
<1>7. Tokenize(raw) = Tokens(u[Len(raw)])
  BY DEF Tokenize, Reading, NoCharacter
<1> HIDE DEF u
<1>8. u[0] = NoCharacter
  BY <1>6
<1>9. ASSUME NEW n \in 1..Len(raw) PROVE u[n] = ReadCharacter(u[n - 1], raw[n])
  <2>1. n \in 0..Len(raw) /\ n # 0
    OBVIOUS
  <2>2. u[n] = CHOOSE read \in {ReadCharacter(before, raw[n]) : before \in {u[n - 1]}} : TRUE
    BY <1>6, <2>1, Zenon
  <2>3. {ReadCharacter(before, raw[n]) : before \in {u[n - 1]}} = {ReadCharacter(u[n - 1], raw[n])}
    OBVIOUS
  <2>4. QED
    BY <2>2, <2>3
<1>10. u[Len(raw)] = v[Len(raw)]
  <2> DEFINE P == {n \in Nat : n <= Len(raw) => u[n] = v[n]}
  <2>1. 0 \in P
    BY <1>3, <1>8
  <2>2. ASSUME NEW n \in 0..(Len(raw) - 1), n \in P PROVE n + 1 \in P
    BY <1>4, <1>9, <2>2
  <2>3. Len(raw) \in P
    <3>1. Len(raw) \in Nat /\ Len(raw) \in 0..Len(raw)
      BY <1>2
    <3> HIDE DEF P
    <3>2. QED
      BY <2>1, <2>2, <3>1, NumbersUpTo
  <2>4. QED
    BY <2>3
<1>11. v \in StatesOf(CharReads(C), raw)
  BY DEF StatesOf, D
<1>12. QED
  BY <1>3, <1>4, <1>7, <1>10, <1>11

\* The tokens of a line are sequences of its characters.
LEMMA TokensType ==
  ASSUME NEW C, NEW raw \in Seq(C)
  PROVE  Tokenize(raw) \in Seq(Seq(C))
<1>1. PICK after \in StatesOf(CharReads(C), raw) : Tokenize(raw) = Tokens(after[Len(raw)])
  BY CharactersRead
<1>2. after[Len(raw)] \in CharReads(C)
  BY DEF StatesOf
<1>3. QED
  BY <1>1, <1>2 DEF Tokens, CharReads

-----------------------------------------------------------------------------
(* The tree that is read.                                                  *)

NamesOf(C) == Seq(C) \cup {Joined(tokens, Blank) : tokens \in Seq(Seq(C))}
StepOf(C)  == [kind : {"config", "edit"}, name : NamesOf(C)]
AttrOf(C)  == [values : Seq(Seq(C)), line : Nat, unset : BOOLEAN]
AttrsOf(C) == UNION {[names -> AttrOf(C)] : names \in SUBSET Seq(C)}
NodeOf(C)  == [line : Nat, attrs : AttrsOf(C)]
TreeOf(C)  == UNION {[paths -> NodeOf(C)] : paths \in SUBSET Seq(StepOf(C))}

\* Every node but the root is in another one, and the parser is in one of them.
IsTree(tree) ==
  /\ <<>> \in DOMAIN tree
  /\ \A p \in DOMAIN tree : p # <<>> => Front(p) \in DOMAIN tree

TreeReads(C) ==
  {state \in [ok : BOOLEAN, path : Seq(StepOf(C)), tree : TreeOf(C)] :
     IsTree(state.tree) /\ state.path \in DOMAIN state.tree}

NoTree == [ok |-> TRUE, path |-> <<>>,
           tree |-> [p \in {<<>>} |-> [line |-> 0, attrs |-> NoAttributes]]]

LEMMA NoAttributesType ==
  ASSUME NEW C PROVE NoAttributes \in AttrsOf(C) /\ DOMAIN NoAttributes = {}
<1>1. NoAttributes = [name \in {} |-> 0]
  BY DEF NoAttributes
<1>2. NoAttributes \in [{} -> AttrOf(C)] /\ {} \in SUBSET Seq(C)
  BY <1>1
<1>3. QED
  BY <1>1, <1>2 DEF AttrsOf

LEMMA NoTreeType == ASSUME NEW C PROVE NoTree \in TreeReads(C)
<1> DEFINE root == [line |-> 0, attrs |-> NoAttributes]
<1>1. root \in NodeOf(C)
  BY NoAttributesType DEF NodeOf
<1> HIDE DEF root
<1> DEFINE tree == [p \in {<<>>} |-> root]
<1>2. tree \in [{<<>>} -> NodeOf(C)] /\ {<<>>} \in SUBSET Seq(StepOf(C))
  BY <1>1
<1>3. tree \in TreeOf(C) /\ IsTree(tree) /\ <<>> \in DOMAIN tree
  BY <1>2 DEF TreeOf, IsTree
<1>4. NoTree = [ok |-> TRUE, path |-> <<>>, tree |-> tree]
  BY DEF NoTree, root
<1> HIDE DEF tree
<1>5. QED
  BY <1>3, <1>4 DEF TreeReads

\* A tree has its domain among the paths and its nodes at them.
LEMMA TreeIs ==
  ASSUME NEW C, NEW tree
  PROVE  tree \in TreeOf(C) <=> tree \in [DOMAIN tree -> NodeOf(C)]
                                /\ DOMAIN tree \subseteq Seq(StepOf(C))
BY DEF TreeOf

LEMMA AttrsIs ==
  ASSUME NEW C, NEW attrs
  PROVE  attrs \in AttrsOf(C) <=> attrs \in [DOMAIN attrs -> AttrOf(C)]
                                  /\ DOMAIN attrs \subseteq Seq(C)
BY DEF AttrsOf

LEMMA FrontOfAppend ==
  ASSUME NEW S, NEW path \in Seq(S), NEW step \in S
  PROVE  /\ Front(Append(path, step)) = path /\ Last(Append(path, step)) = step
         /\ Append(path, step) # <<>> /\ Append(path, step) \in Seq(S)
<1> DEFINE longer == Append(path, step)
<1>1. longer \in Seq(S) /\ Len(longer) = Len(path) + 1 /\ longer[Len(path) + 1] = step
      /\ \A i \in 1..Len(path) : longer[i] = path[i]
  BY AppendProperties
<1> HIDE DEF longer
<1>2. Front(longer) \in Seq(S) /\ Len(Front(longer)) = Len(path)
      /\ \A i \in 1..Len(path) : Front(longer)[i] = longer[i]
  BY <1>1, SubSeqProperties DEF Front
<1>3. Front(longer) = path
  BY <1>1, <1>2, SeqEqual
<1>4. Last(longer) = step /\ longer # <<>>
  BY <1>1 DEF Last
<1>5. QED
  BY <1>1, <1>3, <1>4 DEF longer

LEMMA FrontType ==
  ASSUME NEW S, NEW path \in Seq(S), path # <<>>
  PROVE  Front(path) \in Seq(S) /\ Last(path) \in S
BY SubSeqProperties DEF Front, Last

\* A block is entered.
LEMMA EnterType ==
  ASSUME NEW C, NEW state \in TreeReads(C), NEW kind \in {"config", "edit"},
         NEW name \in NamesOf(C), NEW number \in Nat
  PROVE  Enter(state, kind, name, number) \in TreeReads(C)
<1> DEFINE step == [kind |-> kind, name |-> name]
           path == Append(state.path, step)
           node == [line |-> number, attrs |-> NoAttributes]
           tree == [p \in DOMAIN state.tree \cup {path} |->
                      IF p \in DOMAIN state.tree THEN state.tree[p] ELSE node]
<1>1. state.ok \in BOOLEAN /\ state.path \in Seq(StepOf(C)) /\ state.tree \in TreeOf(C)
      /\ IsTree(state.tree) /\ state.path \in DOMAIN state.tree
      /\ state = [ok |-> state.ok, path |-> state.path, tree |-> state.tree]
  BY DEF TreeReads
<1>2. step \in StepOf(C) /\ node \in NodeOf(C)
  BY NoAttributesType DEF StepOf, NodeOf
<1>3. Enter(state, kind, name, number) = [ok |-> state.ok, path |-> path, tree |-> tree]
  <2>1. Enter(state, kind, name, number) = [state EXCEPT !.path = path, !.tree = tree]
    BY DEF Enter
  <2> HIDE DEF path, tree
  <2>2. QED
    BY <1>1, <2>1
<1> HIDE DEF step, node
<1>4. path \in Seq(StepOf(C)) /\ Front(path) = state.path /\ path # <<>>
  BY <1>1, <1>2, FrontOfAppend
<1> HIDE DEF path
<1>5. state.tree \in [DOMAIN state.tree -> NodeOf(C)] /\ DOMAIN state.tree \subseteq Seq(StepOf(C))
  BY <1>1, TreeIs
<1>6. tree \in [DOMAIN tree -> NodeOf(C)] /\ DOMAIN tree = DOMAIN state.tree \cup {path}
  BY <1>2, <1>5
<1>7. tree \in TreeOf(C)
  <2> HIDE DEF tree
  <2>1. QED
    BY <1>4, <1>5, <1>6, TreeIs
<1>8. IsTree(tree)
  <2> HIDE DEF tree
  <2>1. QED
    BY <1>1, <1>4, <1>6 DEF IsTree
<1> HIDE DEF tree
<1>9. QED
  BY <1>1, <1>3, <1>4, <1>6, <1>7, <1>8 DEF TreeReads

\* An attribute is assigned.
LEMMA AssignType ==
  ASSUME NEW C, NEW state \in TreeReads(C), NEW name \in Seq(C),
         NEW values \in Seq(Seq(C)), NEW number \in Nat, NEW unset \in BOOLEAN
  PROVE  Assign(state, name, values, number, unset) \in TreeReads(C)
<1> DEFINE attr  == [values |-> values, line |-> number, unset |-> unset]
           old   == state.tree[state.path].attrs
           attrs == [n \in DOMAIN old \cup {name} |-> IF n = name THEN attr ELSE old[n]]
           tree  == [state.tree EXCEPT ![state.path].attrs = attrs]
<1>1. state.ok \in BOOLEAN /\ state.path \in Seq(StepOf(C)) /\ state.tree \in TreeOf(C)
      /\ IsTree(state.tree) /\ state.path \in DOMAIN state.tree
      /\ state = [ok |-> state.ok, path |-> state.path, tree |-> state.tree]
  BY DEF TreeReads
<1>2. attr \in AttrOf(C)
  BY DEF AttrOf
<1>3. Assign(state, name, values, number, unset)
        = [ok |-> state.ok, path |-> state.path, tree |-> tree]
  <2>1. Assign(state, name, values, number, unset) = [state EXCEPT !.tree = tree]
    BY DEF Assign
  <2> HIDE DEF tree
  <2>2. QED
    BY <1>1, <2>1
<1>4. state.tree \in [DOMAIN state.tree -> NodeOf(C)] /\ DOMAIN state.tree \subseteq Seq(StepOf(C))
  BY <1>1, TreeIs
<1>5. state.tree[state.path] \in NodeOf(C) /\ old \in AttrsOf(C)
  BY <1>1, <1>4 DEF NodeOf
<1> HIDE DEF attr, old
<1>6. attrs \in [DOMAIN attrs -> AttrOf(C)] /\ DOMAIN attrs \subseteq Seq(C)
  BY <1>2, <1>5, AttrsIs
<1> HIDE DEF attrs
<1>7. attrs \in AttrsOf(C)
  BY <1>6, AttrsIs
<1>8. tree \in [DOMAIN tree -> NodeOf(C)] /\ DOMAIN tree = DOMAIN state.tree
  BY <1>1, <1>4, <1>5, <1>7 DEF NodeOf
<1> HIDE DEF tree
<1>9. tree \in TreeOf(C)
  BY <1>4, <1>8, TreeIs
<1>10. QED
  BY <1>1, <1>3, <1>8, <1>9 DEF TreeReads, IsTree

\* A command is read to a state of the parser.
LEMMA CommandType ==
  ASSUME NEW C, NEW state \in TreeReads(C), NEW line \in LogicalOf(C)
  PROVE  ReadCommand(state, line) \in TreeReads(C)
<1> DEFINE tokens == Tokenize(line.raw)
           name   == IF Len(tokens) > 1 THEN tokens[2] ELSE <<>>
<1>1. state.ok \in BOOLEAN /\ state.path \in Seq(StepOf(C)) /\ state.tree \in TreeOf(C)
      /\ IsTree(state.tree) /\ state.path \in DOMAIN state.tree
      /\ state = [ok |-> state.ok, path |-> state.path, tree |-> state.tree]
  BY DEF TreeReads
<1>2. tokens \in Seq(Seq(C)) /\ line.number \in Nat
  BY TokensType DEF LogicalOf
<1> HIDE DEF tokens
<1>3. [state EXCEPT !.ok = FALSE] \in TreeReads(C)
  BY <1>1 DEF TreeReads
<1>4. ASSUME state.path # <<>> PROVE [state EXCEPT !.path = Front(@)] \in TreeReads(C)
  <2>1. Front(state.path) \in DOMAIN state.tree /\ Front(state.path) \in Seq(StepOf(C))
    BY <1>1, <1>4, FrontType DEF IsTree
  <2>2. QED
    BY <1>1, <2>1 DEF TreeReads
<1>5. name \in Seq(C) /\ <<>> \in Seq(Seq(C)) /\ name \in NamesOf(C)
  BY <1>2 DEF NamesOf
<1>6. ASSUME tokens # <<>>
      PROVE  /\ Joined(Tail(tokens), Blank) \in NamesOf(C)
             /\ SubSeq(tokens, 3, Len(tokens)) \in Seq(Seq(C))
  <2>1. Tail(tokens) \in Seq(Seq(C))
    BY <1>2, <1>6
  <2>2. SubSeq(tokens, 3, Len(tokens)) \in Seq(Seq(C))
    BY <1>2, SubSeqProperties
  <2>3. QED
    BY <2>1, <2>2 DEF NamesOf
<1>7. ReadTokens(state, tokens, line.number) \in TreeReads(C)
  <2>1. CASE tokens = <<>>
    BY <2>1 DEF ReadTokens
  <2>2. CASE tokens # <<>>
    <3>1. Enter(state, "config", Joined(Tail(tokens), Blank), line.number) \in TreeReads(C)
      BY <1>2, <1>6, <2>2, EnterType
    <3>2. Enter(state, "edit", name, line.number) \in TreeReads(C)
      BY <1>2, <1>5, EnterType
    <3>3. Assign(state, name, SubSeq(tokens, 3, Len(tokens)), line.number, FALSE)
            \in TreeReads(C)
      BY <1>2, <1>5, <1>6, <2>2, AssignType
    <3>4. Assign(state, name, <<>>, line.number, TRUE) \in TreeReads(C)
      BY <1>2, <1>5, AssignType
    <3> HIDE DEF name
    <3>5. QED
      BY <1>3, <1>4, <2>2, <3>1, <3>2, <3>3, <3>4 DEF ReadTokens, name
  <2>3. QED
    BY <2>1, <2>2
<1>8. QED
  BY <1>7 DEF ReadCommand, tokens

\* The tree is read command by command.
LEMMA CommandsRead ==
  ASSUME NEW C, NEW logical \in LineReads(C)
  PROVE  \E after \in StatesOf(TreeReads(C), logical.lines) :
           /\ after[0] = NoTree
           /\ \A n \in 1..Len(logical.lines) :
                after[n] = ReadCommand(after[n - 1], logical.lines[n])
           /\ ParseLines(logical) = Parsed(after[Len(logical.lines)], logical.open)
<1> DEFINE D == TreeReads(C)
           E == LogicalOf(C)
           F == [x \in D \X E |-> ReadCommand(x[1], x[2])]
           Following(g) == [n \in 0..Len(logical.lines) |->
             IF n = 0 THEN NoTree
             ELSE CHOOSE read \in {ReadCommand(before, logical.lines[n]) :
                                     before \in {g[n - 1]}} : TRUE]
           u == CHOOSE g : g = Following(g)
<1>1. NoTree \in D
  BY NoTreeType
<1>2. F \in ReadersOf(D, E) /\ logical.lines \in Seq(E)
  <2>1. \A d \in D, e \in E : ReadCommand(d, e) \in D
    BY CommandType
  <2>2. QED
    BY <2>1 DEF ReadersOf, LineReads
<1>3. PICK v \in [0..Len(logical.lines) -> D] :
         v[0] = NoTree /\ \A n \in 1..Len(logical.lines) : v[n] = F[<<v[n - 1], logical.lines[n]>>]
  <2> HIDE DEF D, E, F
  <2>1. \E v \in StatesOf(D, logical.lines) : ReadBy(F, NoTree, logical.lines, v)
    BY <1>1, <1>2, EachRead
  <2>2. QED
    BY <2>1 DEF StatesOf, ReadBy
<1>4. ASSUME NEW n \in 1..Len(logical.lines) PROVE v[n] = ReadCommand(v[n - 1], logical.lines[n])
  <2>1. v[n - 1] \in D /\ logical.lines[n] \in E
    <3> HIDE DEF D, E, F
    <3>1. Len(logical.lines) \in Nat /\ logical.lines[n] \in E
      BY <1>2
    <3>2. n - 1 \in 0..Len(logical.lines)
      BY <3>1
    <3>3. QED
      BY <3>1, <3>2
  <2>2. v[n] = F[<<v[n - 1], logical.lines[n]>>]
    BY <1>3
  <2> HIDE DEF D, E
  <2>3. QED
    BY <2>1, <2>2
<1> HIDE DEF D, E, F
<1>5. v = Following(v)
  <2>1. ASSUME NEW n \in 0..Len(logical.lines) PROVE v[n] = Following(v)[n]
    <3>1. CASE n = 0
      BY <1>3, <3>1
    <3>2. CASE n # 0
      <4>1. n \in 1..Len(logical.lines)
        BY <3>2
      <4>2. {ReadCommand(before, logical.lines[n]) : before \in {v[n - 1]}} = {v[n]}
        BY <1>4, <4>1
      <4>3. QED
        BY <3>2, <4>2
    <3>3. QED
      BY <3>1, <3>2
  <2>2. QED
    BY <2>1
<1>6. u = Following(u)
  <2> HIDE DEF Following
  <2>1. QED
    BY <1>5
<1>7. ParseLines(logical) = Parsed(u[Len(logical.lines)], logical.open)
  BY DEF ParseLines, Reading, NoTree
<1> HIDE DEF u
<1>8. u[0] = NoTree
  BY <1>6
<1>9. ASSUME NEW n \in 1..Len(logical.lines) PROVE u[n] = ReadCommand(u[n - 1], logical.lines[n])
  <2>1. n \in 0..Len(logical.lines) /\ n # 0
    OBVIOUS
  <2>2. u[n] = CHOOSE read \in {ReadCommand(before, logical.lines[n]) :
                                  before \in {u[n - 1]}} : TRUE
    BY <1>6, <2>1, Zenon
  <2>3. {ReadCommand(before, logical.lines[n]) : before \in {u[n - 1]}}
          = {ReadCommand(u[n - 1], logical.lines[n])}
    OBVIOUS
  <2>4. QED
    BY <2>2, <2>3
<1>10. u[Len(logical.lines)] = v[Len(logical.lines)]
  <2> DEFINE P == {n \in Nat : n <= Len(logical.lines) => u[n] = v[n]}
  <2>1. 0 \in P
    BY <1>3, <1>8
  <2>2. ASSUME NEW n \in 0..(Len(logical.lines) - 1), n \in P PROVE n + 1 \in P
    BY <1>4, <1>9, <2>2
  <2>3. Len(logical.lines) \in P
    <3>1. Len(logical.lines) \in Nat /\ Len(logical.lines) \in 0..Len(logical.lines)
      BY <1>2
    <3> HIDE DEF P
    <3>2. QED
      BY <2>1, <2>2, <3>1, NumbersUpTo
  <2>4. QED
    BY <2>3
<1>11. v \in StatesOf(TreeReads(C), logical.lines)
  BY DEF StatesOf, D
<1>12. QED
  BY <1>3, <1>4, <1>7, <1>10, <1>11

-----------------------------------------------------------------------------
(* The logical lines are the lines of the text.                            *)

IsOpen(buffer) == Cardinality(Quotes(buffer)) % 2 # 0

\* The lines of a text from one to another with breaks between them, where the
\* quotes are open at each break.
Glued(C, text, first, last, buffer) ==
  \E glued \in [first..last -> Seq(C)] :
    /\ glued[first] = text[first] /\ glued[last] = buffer
    /\ \A i \in (first + 1)..last :
         glued[i] = glued[i - 1] \o <<Break>> \o text[i] /\ IsOpen(glued[i - 1])

\* Where the k-th logical line begins; the last is the one that is open.
StartOf(read, k) ==
  IF k <= Len(read.lines) THEN read.lines[k].number
  ELSE IF read.open = 0 THEN read.number + 1 ELSE read.open

\* Each logical line is the lines up to the next one, and ends where its quotes
\* are closed for the first time.
LinesAre(C, text, read) ==
  /\ StartOf(read, 1) = 1
  /\ \A k \in 1..Len(read.lines) :
       /\ StartOf(read, k) < StartOf(read, k + 1)
       /\ Glued(C, text, StartOf(read, k), StartOf(read, k + 1) - 1, read.lines[k].raw)
       /\ ~IsOpen(read.lines[k].raw)
  /\ read.open # 0 =>
       /\ read.open <= read.number /\ IsOpen(read.buffer)
       /\ Glued(C, text, read.open, read.number, read.buffer)

LEMMA GluedOne ==
  ASSUME NEW C, NEW text \in Seq(Seq(C)), NEW n \in 1..Len(text)
  PROVE  Glued(C, text, n, n, text[n])
<1> DEFINE glued == [i \in n..n |-> text[n]]
<1>1. text[n] \in Seq(C) /\ n..n = {n}
  OBVIOUS
<1>2. glued \in [n..n -> Seq(C)] /\ glued[n] = text[n] /\ (n + 1)..n = {}
  BY <1>1
<1> HIDE DEF glued
<1>3. QED
  BY <1>2 DEF Glued

LEMMA GluedLonger ==
  ASSUME NEW C, Break \in C, NEW text \in Seq(Seq(C)), NEW n \in 1..(Len(text) - 1),
         NEW first \in 1..n, NEW buffer \in Seq(C), IsOpen(buffer),
         Glued(C, text, first, n, buffer)
  PROVE  Glued(C, text, first, n + 1, buffer \o <<Break>> \o text[n + 1])
<1>1. PICK old \in [first..n -> Seq(C)] :
         /\ old[first] = text[first] /\ old[n] = buffer
         /\ \A i \in (first + 1)..n :
              old[i] = old[i - 1] \o <<Break>> \o text[i] /\ IsOpen(old[i - 1])
  BY DEF Glued
<1> DEFINE longer == buffer \o <<Break>> \o text[n + 1]
           glued == [i \in first..(n + 1) |-> IF i = n + 1 THEN longer ELSE old[i]]
<1>2. longer \in Seq(C) /\ n \in Nat /\ first \in Nat /\ first <= n
  <2>1. n + 1 \in 1..Len(text)
    OBVIOUS
  <2>2. text[n + 1] \in Seq(C) /\ <<Break>> \in Seq(C)
    BY <2>1
  <2>3. QED
    BY <2>2
<1> HIDE DEF longer
<1>3. \A i \in first..n : glued[i] = old[i]
  BY <1>2
<1>4. glued[n + 1] = longer /\ glued \in [first..(n + 1) -> Seq(C)]
  BY <1>2
<1> HIDE DEF glued
<1>5. glued[first] = text[first]
  BY <1>1, <1>2, <1>3
<1>6. ASSUME NEW i \in (first + 1)..(n + 1)
      PROVE  glued[i] = glued[i - 1] \o <<Break>> \o text[i] /\ IsOpen(glued[i - 1])
  <2>1. i - 1 \in first..n /\ glued[i - 1] = old[i - 1]
    BY <1>2, <1>3
  <2>2. CASE i = n + 1
    <3>1. i - 1 = n
      BY <1>2, <2>2
    <3>2. glued[i - 1] = buffer
      BY <1>1, <2>1, <3>1
    <3>3. QED
      BY <1>4, <2>2, <3>2 DEF longer
  <2>3. CASE i # n + 1
    <3>1. i \in (first + 1)..n /\ i \in first..n
      BY <1>2, <2>3
    <3>2. QED
      BY <1>1, <1>3, <2>1, <3>1
  <2>4. QED
    BY <2>2, <2>3
<1>7. Glued(C, text, first, n + 1, longer)
  BY <1>4, <1>5, <1>6 DEF Glued
<1>8. QED
  BY <1>7 DEF longer

\* A line read: the logical line goes on, or ends.
LEMMA LineIs ==
  ASSUME NEW C, NEW read \in LineReads(C), NEW line \in Seq(C)
  PROVE  LET start  == IF read.open = 0 THEN read.number + 1 ELSE read.open
             buffer == IF read.open = 0 THEN line ELSE read.buffer \o <<Break>> \o line IN
         ReadLine(read, line) =
           IF IsOpen(buffer)
             THEN [number |-> read.number + 1, open |-> start, buffer |-> buffer,
                   lines |-> read.lines]
             ELSE [number |-> read.number + 1, open |-> 0, buffer |-> <<>>,
                   lines |-> Append(read.lines, [number |-> start, raw |-> buffer])]
<1> DEFINE n      == read.number + 1
           start  == IF read.open = 0 THEN n ELSE read.open
           buffer == IF read.open = 0 THEN line ELSE read.buffer \o <<Break>> \o line
           closed == [number |-> n, open |-> 0, buffer |-> <<>>,
                      lines |-> Append(read.lines, [number |-> start, raw |-> buffer])]
           opened == [number |-> n, open |-> start, buffer |-> buffer, lines |-> read.lines]
           next   == ReadLine(read, line)
<1>1. read = [number |-> read.number, open |-> read.open, buffer |-> read.buffer,
              lines |-> read.lines]
  BY DEF LineReads
<1>2. next = IF IsOpen(buffer) THEN opened ELSE closed
  <2>1. next = Buffered(read, start, buffer)
    BY DEF ReadLine
  <2>2. [read EXCEPT !.number = @ + 1, !.open = start, !.buffer = buffer] = opened
    <3> HIDE DEF n, start, buffer
    <3>1. [read EXCEPT !.number = n, !.open = start, !.buffer = buffer] = opened
      <4>1. PICK a, b, c, d : read = [number |-> a, open |-> b, buffer |-> c, lines |-> d]
        BY <1>1, Zenon
      <4>2. read.lines = d
        BY <4>1
      <4>3. PICK first : first = [read EXCEPT !.number = n]
        OBVIOUS
      <4>4. PICK second : second = [first EXCEPT !.open = start]
        OBVIOUS
      <4>5. first = [number |-> n, open |-> b, buffer |-> c, lines |-> d]
        BY <4>1, <4>3
      <4>6. second = [number |-> n, open |-> start, buffer |-> c, lines |-> d]
        BY <4>4, <4>5
      <4>7. [second EXCEPT !.buffer = buffer] = opened
        BY <4>2, <4>6
      <4>8. QED
        BY <4>3, <4>4, <4>7
    <3>2. n = read.number + 1
      BY DEF n
    <3> HIDE DEF opened
    <3>3. QED
      BY <3>1, <3>2
  <2> HIDE DEF start, buffer, opened, next
  <2>3. QED
    BY <2>1, <2>2 DEF Buffered, IsOpen
<1>3. QED
  BY <1>2

\* The next line goes on with the open one, or is one of its own.
LEMMA LineStep ==
  ASSUME NEW C, Break \in C, NEW text \in Seq(Seq(C)), NEW read \in LineReads(C),
         read.number \in 0..(Len(text) - 1), LinesAre(C, text, read)
  PROVE  LET next == ReadLine(read, text[read.number + 1]) IN
           next.number = read.number + 1 /\ LinesAre(C, text, next)
<1> DEFINE n      == read.number + 1
           start  == IF read.open = 0 THEN n ELSE read.open
           buffer == IF read.open = 0 THEN text[n] ELSE read.buffer \o <<Break>> \o text[n]
           closed == [number |-> n, open |-> 0, buffer |-> <<>>,
                      lines |-> Append(read.lines, [number |-> start, raw |-> buffer])]
           opened == [number |-> n, open |-> start, buffer |-> buffer, lines |-> read.lines]
           next   == ReadLine(read, text[n])
<1> SUFFICES next.number = n /\ LinesAre(C, text, next)
  OBVIOUS
<1>1. read.number \in Nat /\ read.open \in Nat /\ read.buffer \in Seq(C)
      /\ read.lines \in Seq(LogicalOf(C))
      /\ read = [number |-> read.number, open |-> read.open, buffer |-> read.buffer,
                 lines |-> read.lines]
  BY DEF LineReads
<1>2. n \in 1..Len(text) /\ n \in Nat /\ text[n] \in Seq(C)
  BY <1>1
<1>3. next = IF IsOpen(buffer) THEN opened ELSE closed
  BY <1>2, LineIs
<1>4. Glued(C, text, start, n, buffer) /\ buffer \in Seq(C)
  <2>1. CASE read.open = 0
    BY <1>2, <2>1, GluedOne
  <2>2. CASE read.open # 0
    <3>1. read.open \in 1..read.number /\ IsOpen(read.buffer)
          /\ Glued(C, text, read.open, read.number, read.buffer)
      BY <1>1, <2>2 DEF LinesAre
    <3>2. read.number \in 1..(Len(text) - 1)
      BY <1>1, <3>1
    <3>3. Glued(C, text, read.open, n, read.buffer \o <<Break>> \o text[n])
      BY <1>1, <3>1, <3>2, GluedLonger
    <3>4. read.buffer \o <<Break>> \o text[n] \in Seq(C)
      BY <1>1, <1>2
    <3>5. QED
      BY <2>2, <3>3, <3>4
  <2>3. QED
    BY <2>1, <2>2
<1>5. start = StartOf(read, Len(read.lines) + 1) /\ start \in 1..n
  <2>1. start = StartOf(read, Len(read.lines) + 1)
    BY <1>1 DEF StartOf
  <2>2. read.open # 0 => read.open <= read.number
    BY DEF LinesAre
  <2>3. QED
    BY <1>1, <1>2, <2>1, <2>2
<1> HIDE DEF n, start, buffer
<1>6. CASE IsOpen(buffer)
  <2>1. next = opened
    BY <1>3, <1>6
  <2>2. \A k \in 1..(Len(read.lines) + 1) : StartOf(opened, k) = StartOf(read, k)
    <3>1. opened.lines = read.lines /\ opened.open = start /\ start # 0
      BY <1>5
    <3> HIDE DEF opened
    <3>2. ASSUME NEW k \in 1..(Len(read.lines) + 1)
          PROVE  StartOf(opened, k) = StartOf(read, k)
      <4>1. CASE k <= Len(read.lines)
        BY <3>1, <4>1 DEF StartOf
      <4>2. CASE ~(k <= Len(read.lines))
        <5>1. k = Len(read.lines) + 1
          BY <1>1, <4>2
        <5>2. StartOf(opened, k) = start
          BY <3>1, <4>2 DEF StartOf
        <5>3. QED
          BY <1>5, <5>1, <5>2
      <4>3. QED
        BY <4>1, <4>2
    <3>3. QED
      BY <3>2
  <2>3. LinesAre(C, text, opened)
    <3>1. opened.lines = read.lines /\ opened.open = start /\ opened.number = n
          /\ opened.buffer = buffer
      OBVIOUS
    <3> HIDE DEF opened
    <3>2. StartOf(opened, 1) = 1
      <4>1. 1 \in 1..(Len(read.lines) + 1)
        BY <1>1
      <4>2. QED
        BY <2>2, <4>1 DEF LinesAre
    <3>3. ASSUME NEW k \in 1..Len(opened.lines)
          PROVE  /\ StartOf(opened, k) < StartOf(opened, k + 1)
                 /\ Glued(C, text, StartOf(opened, k), StartOf(opened, k + 1) - 1,
                          opened.lines[k].raw)
                 /\ ~IsOpen(opened.lines[k].raw)
      <4>1. k \in 1..Len(read.lines) /\ k \in 1..(Len(read.lines) + 1)
            /\ k + 1 \in 1..(Len(read.lines) + 1)
        BY <1>1, <3>1
      <4>2. StartOf(opened, k) = StartOf(read, k) /\ StartOf(opened, k + 1) = StartOf(read, k + 1)
        BY <2>2, <4>1
      <4>3. /\ StartOf(read, k) < StartOf(read, k + 1)
            /\ Glued(C, text, StartOf(read, k), StartOf(read, k + 1) - 1, read.lines[k].raw)
            /\ ~IsOpen(read.lines[k].raw)
        BY <4>1 DEF LinesAre
      <4>4. QED
        BY <3>1, <4>2, <4>3
    <3>4. start <= n
      BY <1>5
    <3>5. QED
      BY <1>4, <1>6, <3>1, <3>2, <3>3, <3>4 DEF LinesAre
  <2>4. QED
    BY <2>1, <2>3
<1>7. CASE ~IsOpen(buffer)
  <2> DEFINE m == Len(read.lines)
  <2>1. next = closed
    BY <1>3, <1>7
  <2>2. [number |-> start, raw |-> buffer] \in LogicalOf(C) /\ m \in Nat
    BY <1>1, <1>4, <1>5 DEF LogicalOf
  <2>3. /\ Len(closed.lines) = m + 1 /\ closed.open = 0 /\ closed.number = n
        /\ \A k \in 1..m : closed.lines[k] = read.lines[k]
        /\ closed.lines[m + 1] = [number |-> start, raw |-> buffer]
    BY <1>1, <2>2, AppendProperties
  <2> HIDE DEF closed
  <2>4. \A k \in 1..(m + 1) : StartOf(closed, k) = StartOf(read, k)
    <3>1. ASSUME NEW k \in 1..(m + 1) PROVE StartOf(closed, k) = StartOf(read, k)
      <4>1. k <= Len(closed.lines) /\ StartOf(closed, k) = closed.lines[k].number
        BY <2>2, <2>3 DEF StartOf
      <4>2. CASE k = m + 1
        BY <1>5, <2>3, <4>1, <4>2
      <4>3. CASE k # m + 1
        <5>1. k \in 1..m /\ k <= m
          BY <2>2, <4>3
        <5>2. StartOf(read, k) = read.lines[k].number
          BY <5>1 DEF StartOf
        <5>3. QED
          BY <2>3, <4>1, <5>1, <5>2
      <4>4. QED
        BY <4>2, <4>3
    <3>2. QED
      BY <3>1
  <2>5. StartOf(closed, m + 2) = n + 1
    BY <2>2, <2>3 DEF StartOf
  <2>6. StartOf(closed, 1) = 1
    <3>1. 1 \in 1..(m + 1)
      BY <2>2
    <3>2. QED
      BY <2>4, <3>1 DEF LinesAre
  <2>7. ASSUME NEW k \in 1..Len(closed.lines)
        PROVE  /\ StartOf(closed, k) < StartOf(closed, k + 1)
               /\ Glued(C, text, StartOf(closed, k), StartOf(closed, k + 1) - 1,
                        closed.lines[k].raw)
               /\ ~IsOpen(closed.lines[k].raw)
    <3>1. CASE k = m + 1
      <4>1. StartOf(closed, k) = start /\ StartOf(closed, k + 1) = n + 1
            /\ closed.lines[k].raw = buffer
        <5>1. k \in 1..(m + 1) /\ k + 1 = m + 2
          BY <2>2, <3>1
        <5>2. QED
          BY <1>5, <2>3, <2>4, <2>5, <3>1, <5>1
      <4>2. start < n + 1 /\ (n + 1) - 1 = n
        BY <1>2, <1>5
      <4>3. QED
        BY <1>4, <1>7, <4>1, <4>2
    <3>2. CASE k # m + 1
      <4>1. k \in 1..m /\ k \in 1..(m + 1) /\ k + 1 \in 1..(m + 1)
        BY <2>2, <2>3, <3>2
      <4>2. StartOf(closed, k) = StartOf(read, k) /\ StartOf(closed, k + 1) = StartOf(read, k + 1)
            /\ closed.lines[k] = read.lines[k]
        BY <2>3, <2>4, <4>1
      <4>3. /\ StartOf(read, k) < StartOf(read, k + 1)
            /\ Glued(C, text, StartOf(read, k), StartOf(read, k + 1) - 1, read.lines[k].raw)
            /\ ~IsOpen(read.lines[k].raw)
        BY <4>1 DEF LinesAre
      <4>4. QED
        BY <4>2, <4>3
    <3>3. QED
      BY <3>1, <3>2
  <2>8. LinesAre(C, text, closed)
    BY <2>3, <2>6, <2>7 DEF LinesAre
  <2>9. QED
    BY <2>1, <2>3, <2>8
<1>8. QED
  BY <1>6, <1>7

\* Nothing of a text is lost or read twice: the logical lines are its lines, one
\* after the other from the first on, each with the number of the line it begins
\* on, and a line goes on with the next one exactly while its quotes are open.
\* When none is open at the end, they are all of the text.  (l1_fortios.parse)
THEOREM LogicalLinesAreTheText ==
  ASSUME NEW C, Break \in C, NEW text \in Seq(Seq(C))
  PROVE  /\ LogicalLines(text) \in LineReads(C)
         /\ LogicalLines(text).number = Len(text)
         /\ LinesAre(C, text, LogicalLines(text))
<1>1. PICK after \in StatesOf(LineReads(C), text) :
         /\ after[0] = NoLine
         /\ \A n \in 1..Len(text) : after[n] = ReadLine(after[n - 1], text[n])
         /\ LogicalLines(text) = after[Len(text)]
  BY LinesRead
<1>2. Len(text) \in Nat /\ after \in [0..Len(text) -> LineReads(C)]
  BY DEF StatesOf
<1> DEFINE P == {n \in 0..Len(text) : after[n].number = n /\ LinesAre(C, text, after[n])}
<1>3. 0 \in P
  <2>1. LinesAre(C, text, NoLine)
    <3>1. Len(NoLine.lines) = 0 /\ NoLine.open = 0 /\ NoLine.number = 0
      BY DEF NoLine
    <3>2. QED
      BY <3>1 DEF LinesAre, StartOf
  <2>2. QED
    BY <1>1, <1>2, <2>1 DEF NoLine
<1>4. ASSUME NEW n \in 0..(Len(text) - 1), n \in P PROVE n + 1 \in P
  <2>1. n + 1 \in 1..Len(text) /\ (n + 1) - 1 = n /\ n \in 0..Len(text) /\ n + 1 \in 0..Len(text)
    BY <1>2
  <2>2. after[n + 1] = ReadLine(after[n], text[n + 1]) /\ after[n] \in LineReads(C)
        /\ after[n].number = n /\ LinesAre(C, text, after[n])
    BY <1>1, <1>2, <1>4, <2>1
  <2>3. after[n + 1].number = n + 1 /\ LinesAre(C, text, after[n + 1])
    BY <2>2, LineStep
  <2>4. QED
    BY <2>1, <2>3
<1>5. Len(text) \in P
  <2> HIDE DEF P
  <2>1. \A n \in 0..Len(text) : n \in P
    BY <1>2, <1>3, <1>4, NumbersUpTo
  <2>2. QED
    BY <1>2, <2>1
<1>6. QED
  BY <1>1, <1>2, <1>5

-----------------------------------------------------------------------------
(* The tree is what the lines say.                                         *)

\* The block that a line begins, the attribute it sets or unsets, and to what.
Opens(line, step) ==
  LET tokens == Tokenize(line.raw) IN
  /\ ~IsComment(line.raw) /\ tokens # <<>>
  /\ \/ tokens[1] = <<"config">>
        /\ step = [kind |-> "config", name |-> Joined(Tail(tokens), Blank)]
     \/ tokens[1] = <<"edit">>
        /\ step = [kind |-> "edit", name |-> IF Len(tokens) > 1 THEN tokens[2] ELSE <<>>]

Names(line, name) ==
  LET tokens == Tokenize(line.raw) IN
  /\ ~IsComment(line.raw) /\ Len(tokens) > 1
  /\ tokens[1] \in {<<"set">>, <<"unset">>} /\ tokens[2] = name

AttrBy(line) ==
  LET tokens == Tokenize(line.raw) IN
  [values |-> IF tokens[1] = <<"set">> THEN SubSeq(tokens, 3, Len(tokens)) ELSE <<>>,
   line |-> line.number, unset |-> tokens[1] = <<"unset">>]

\* What a line does to the tree.
LEMMA CommandIs ==
  ASSUME NEW C, NEW state \in TreeReads(C), NEW line \in LogicalOf(C)
  PROVE  LET next == ReadCommand(state, line) IN
         \/ /\ next.tree = state.tree
            /\ \A name : ~(state.ok /\ Names(line, name))
         \/ /\ state.ok /\ \A name : ~Names(line, name)
            /\ \E step \in StepOf(C) :
                 Opens(line, step) /\ next = Enter(state, step.kind, step.name, line.number)
         \/ /\ state.ok
            /\ \E name \in Seq(C) :
                 /\ Names(line, name) /\ \A other : Names(line, other) => other = name
                 /\ AttrBy(line) \in AttrOf(C)
                 /\ next = Assign(state, name, AttrBy(line).values, line.number,
                                  AttrBy(line).unset)
<1> DEFINE tokens == Tokenize(line.raw)
           next   == ReadCommand(state, line)
           attr   == AttrBy(line)
<1> DEFINE Idle == next.tree = state.tree /\ \A name : ~(state.ok /\ Names(line, name))
           Enters == /\ state.ok /\ \A name : ~Names(line, name)
                     /\ \E step \in StepOf(C) :
                          Opens(line, step)
                          /\ next = Enter(state, step.kind, step.name, line.number)
           Assigned == /\ state.ok
                       /\ \E name \in Seq(C) :
                            /\ Names(line, name)
                            /\ \A other : Names(line, other) => other = name
                            /\ attr \in AttrOf(C)
                            /\ next = Assign(state, name, attr.values, line.number, attr.unset)
<1> SUFFICES Idle \/ Enters \/ Assigned
  OBVIOUS
<1> SUFFICES ASSUME state.ok, ~IsComment(line.raw), tokens # <<>>
             PROVE  Idle \/ Enters \/ Assigned
  <2>1. ASSUME ~state.ok \/ IsComment(line.raw) \/ tokens = <<>> PROVE Idle
    <3>1. next = state
      BY <2>1 DEF ReadCommand, ReadTokens
    <3>2. \A name : ~(state.ok /\ Names(line, name))
      <4>1. CASE ~state.ok \/ IsComment(line.raw)
        BY <4>1 DEF Names
      <4>2. CASE tokens = <<>>
        <5>1. ~(Len(tokens) > 1)
          BY <4>2
        <5>2. QED
          BY <5>1 DEF Names
      <4>3. QED
        BY <2>1, <4>1, <4>2
    <3>3. QED
      BY <3>1, <3>2
  <2> HIDE DEF Idle, Enters, Assigned, tokens
  <2>2. QED
    BY <2>1
<1>1. line.number \in Nat /\ tokens \in Seq(Seq(C)) /\ state.path \in Seq(StepOf(C))
  BY TokensType DEF LogicalOf, TreeReads
<1>2. next = ReadTokens(state, tokens, line.number)
  BY DEF ReadCommand
<1>3. Len(tokens) \in Nat /\ Len(tokens) # 0 /\ Tail(tokens) \in Seq(Seq(C))
      /\ \A i \in 1..Len(tokens) : tokens[i] \in Seq(C)
  BY <1>1
<1>4. SubSeq(tokens, 3, Len(tokens)) \in Seq(Seq(C)) /\ <<>> \in Seq(Seq(C)) /\ <<>> \in Seq(C)
  BY <1>1, SubSeqProperties
<1> DEFINE rest == SubSeq(tokens, 3, Len(tokens))
<1>5. /\ \A name : Names(line, name) <=> /\ Len(tokens) > 1 /\ tokens[2] = name
                                         /\ tokens[1] \in {<<"set">>, <<"unset">>}
      /\ attr = [values |-> IF tokens[1] = <<"set">> THEN rest ELSE <<>>,
                 line |-> line.number, unset |-> tokens[1] = <<"unset">>]
      /\ \A step : Opens(line, step) <=>
           \/ tokens[1] = <<"config">>
              /\ step = [kind |-> "config", name |-> Joined(Tail(tokens), Blank)]
           \/ tokens[1] = <<"edit">>
              /\ step = [kind |-> "edit", name |-> IF Len(tokens) > 1 THEN tokens[2] ELSE <<>>]
  BY DEF Names, AttrBy, Opens
<1> HIDE DEF tokens, next, attr, rest
<1>6. CASE tokens[1] = <<"config">>
  <2> DEFINE step == [kind |-> "config", name |-> Joined(Tail(tokens), Blank)]
  <2>1. step \in StepOf(C)
    BY <1>3 DEF StepOf, NamesOf
  <2>2. Opens(line, step)
    BY <1>5, <1>6
  <2>3. next = Enter(state, step.kind, step.name, line.number)
    BY <1>2, <1>6 DEF ReadTokens
  <2>4. \A name : ~Names(line, name)
    BY <1>5, <1>6
  <2> HIDE DEF step
  <2>5. QED
    BY <2>1, <2>2, <2>3, <2>4
<1>7. CASE tokens[1] = <<"edit">>
  <2> DEFINE name == IF Len(tokens) > 1 THEN tokens[2] ELSE <<>>
             step == [kind |-> "edit", name |-> name]
  <2>1. name \in NamesOf(C)
    BY <1>3, <1>4 DEF NamesOf
  <2>2. Opens(line, step)
    BY <1>5, <1>7
  <2>3. next = Enter(state, "edit", name, line.number)
    BY <1>2, <1>7 DEF ReadTokens
  <2> HIDE DEF name
  <2>4. step \in StepOf(C) /\ next = Enter(state, step.kind, step.name, line.number)
    BY <2>1, <2>3 DEF StepOf
  <2>5. \A n : ~Names(line, n)
    BY <1>5, <1>7
  <2> HIDE DEF step
  <2>6. QED
    BY <2>2, <2>4, <2>5
<1>8. CASE tokens[1] \in {<<"set">>, <<"unset">>} /\ Len(tokens) > 1
  <2>1. Names(line, tokens[2]) /\ \A other : Names(line, other) => other = tokens[2]
    BY <1>5, <1>8
  <2>2. tokens[2] \in Seq(C)
    BY <1>3, <1>8
  <2>3. attr \in AttrOf(C)
    BY <1>1, <1>4, <1>5 DEF AttrOf, rest
  <2>4. tokens # <<>> /\ Len(tokens) > 1 /\ ~(Len(tokens) < 2)
    BY <1>3, <1>8
  <2>5. next = Assign(state, tokens[2], attr.values, line.number, attr.unset)
    <3>1. CASE tokens[1] = <<"set">>
      <4>1. <<"set">> # <<"unset">>
        OBVIOUS
      <4>2. attr.values = rest /\ attr.unset = FALSE
        BY <1>5, <3>1, <4>1, Zenon
      <4>3. next = Assign(state, tokens[2], rest, line.number, FALSE)
        BY <1>2, <2>4, <3>1, <4>1 DEF ReadTokens, rest
      <4>4. QED
        BY <4>2, <4>3
    <3>2. CASE tokens[1] = <<"unset">>
      <4>1. <<"set">> # <<"unset">>
        OBVIOUS
      <4>2. attr.values = <<>> /\ attr.unset = TRUE
        BY <1>5, <3>2, <4>1, Zenon
      <4>3. next = Assign(state, tokens[2], <<>>, line.number, TRUE)
        BY <1>2, <2>4, <3>2, <4>1 DEF ReadTokens
      <4>4. QED
        BY <4>2, <4>3
    <3>3. QED
      BY <1>8, <3>1, <3>2
  <2>6. QED
    BY <2>1, <2>2, <2>3, <2>5
<1>9. CASE /\ tokens[1] \notin {<<"config">>, <<"edit">>}
           /\ ~(tokens[1] \in {<<"set">>, <<"unset">>} /\ Len(tokens) > 1)
  <2>1. \A name : ~Names(line, name)
    BY <1>5, <1>9
  <2>2. [state EXCEPT !.ok = FALSE].tree = state.tree
        /\ [state EXCEPT !.path = Front(@)].tree = state.tree
    BY DEF TreeReads
  <2>3. next \in {state, [state EXCEPT !.ok = FALSE], [state EXCEPT !.path = Front(@)]}
    <3>1. CASE tokens[1] \in {<<"set">>, <<"unset">>}
      <4>1. Len(tokens) < 2
        BY <1>3, <1>9, <3>1
      <4>2. QED
        BY <1>2, <3>1, <4>1 DEF ReadTokens
    <3>2. CASE tokens[1] \notin {<<"set">>, <<"unset">>}
      BY <1>2, <1>9, <3>2 DEF ReadTokens
    <3>3. QED
      BY <3>1, <3>2
  <2>4. QED
    BY <2>1, <2>2, <2>3
<1>10. QED
  BY <1>6, <1>7, <1>8, <1>9

\* The states of the parser before and after each line.
Reads(C, lines, after) ==
  /\ after \in StatesOf(TreeReads(C), lines) /\ after[0] = NoTree
  /\ \A n \in 1..Len(lines) : after[n] = ReadCommand(after[n - 1], lines[n])

\* Line k is read in the block at path and says something of the attribute.
Says(lines, after, k, path, name) ==
  after[k - 1].ok /\ after[k - 1].path = path /\ Names(lines[k], name)

\* After n lines: a node is where a line began it in its parent, an attribute is
\* what the last line in its block said of it, and no line is forgotten.
TreeSays(lines, after, n) ==
  LET tree == after[n].tree IN
  /\ \A path \in DOMAIN tree : path # <<>> =>
       \E k \in 1..n : /\ after[k - 1].path = Front(path) /\ Opens(lines[k], Last(path))
                       /\ tree[path].line = lines[k].number
  /\ \A path \in DOMAIN tree : \A name \in DOMAIN tree[path].attrs :
       \E k \in 1..n : /\ Says(lines, after, k, path, name)
                       /\ tree[path].attrs[name] = AttrBy(lines[k])
                       /\ \A later \in (k + 1)..n : ~Says(lines, after, later, path, name)
  /\ \A k \in 1..n : \A path, name :
       Says(lines, after, k, path, name) =>
         path \in DOMAIN tree /\ name \in DOMAIN tree[path].attrs

LEMMA EnterDoes ==
  ASSUME NEW C, NEW state \in TreeReads(C), NEW step \in StepOf(C), NEW number \in Nat
  PROVE  LET next == Enter(state, step.kind, step.name, number)
             path == Append(state.path, step) IN
         /\ next.ok = state.ok /\ next.path = path
         /\ Front(path) = state.path /\ Last(path) = step /\ path # <<>>
         /\ DOMAIN next.tree = DOMAIN state.tree \cup {path}
         /\ \A p \in DOMAIN state.tree : next.tree[p] = state.tree[p]
         /\ path \notin DOMAIN state.tree =>
              next.tree[path] = [line |-> number, attrs |-> NoAttributes]
<1> DEFINE path == Append(state.path, step)
           node == [line |-> number, attrs |-> NoAttributes]
           tree == [p \in DOMAIN state.tree \cup {path} |->
                      IF p \in DOMAIN state.tree THEN state.tree[p] ELSE node]
           next == Enter(state, step.kind, step.name, number)
<1>1. state = [ok |-> state.ok, path |-> state.path, tree |-> state.tree]
      /\ state.path \in Seq(StepOf(C))
  BY DEF TreeReads
<1>2. step = [kind |-> step.kind, name |-> step.name]
  BY DEF StepOf
<1>3. next = [state EXCEPT !.path = path, !.tree = tree]
  BY <1>2 DEF Enter
<1>4. Front(path) = state.path /\ Last(path) = step /\ path # <<>>
  BY <1>1, FrontOfAppend
<1>5. DOMAIN tree = DOMAIN state.tree \cup {path}
      /\ (\A p \in DOMAIN state.tree : tree[p] = state.tree[p])
      /\ (path \notin DOMAIN state.tree => tree[path] = node)
  BY DEF tree
<1> HIDE DEF path, tree, next
<1>6. next.ok = state.ok /\ next.path = path /\ next.tree = tree
  BY <1>1, <1>3
<1>7. QED
  BY <1>4, <1>5, <1>6 DEF path, next

LEMMA AssignDoes ==
  ASSUME NEW C, NEW state \in TreeReads(C), NEW name \in Seq(C),
         NEW attr \in AttrOf(C)
  PROVE  LET next == Assign(state, name, attr.values, attr.line, attr.unset)
             path == state.path IN
         /\ next.ok = state.ok /\ next.path = path /\ path \in DOMAIN state.tree
         /\ DOMAIN next.tree = DOMAIN state.tree
         /\ \A p \in DOMAIN state.tree : next.tree[p].line = state.tree[p].line
         /\ \A p \in DOMAIN state.tree \ {path} : next.tree[p] = state.tree[p]
         /\ DOMAIN next.tree[path].attrs = DOMAIN state.tree[path].attrs \cup {name}
         /\ next.tree[path].attrs[name] = attr
         /\ \A n \in DOMAIN state.tree[path].attrs \ {name} :
              next.tree[path].attrs[n] = state.tree[path].attrs[n]
<1> DEFINE path  == state.path
           old   == state.tree[path].attrs
           attrs == [n \in DOMAIN old \cup {name} |-> IF n = name THEN attr ELSE old[n]]
           tree  == [state.tree EXCEPT ![path].attrs = attrs]
           next  == Assign(state, name, attr.values, attr.line, attr.unset)
<1>1. state = [ok |-> state.ok, path |-> state.path, tree |-> state.tree]
      /\ state.tree \in TreeOf(C) /\ path \in DOMAIN state.tree
  BY DEF TreeReads
<1>2. attr = [values |-> attr.values, line |-> attr.line, unset |-> attr.unset]
  BY DEF AttrOf
<1>3. next = [state EXCEPT !.tree = tree]
  BY <1>2 DEF Assign
<1>4. state.tree \in [DOMAIN state.tree -> NodeOf(C)]
  BY <1>1, TreeIs
<1>5. \A p \in DOMAIN state.tree :
        state.tree[p] = [line |-> state.tree[p].line, attrs |-> state.tree[p].attrs]
  BY <1>4 DEF NodeOf
<1>6. DOMAIN attrs = DOMAIN old \cup {name} /\ attrs[name] = attr
      /\ \A n \in DOMAIN old \ {name} : attrs[n] = old[n]
  OBVIOUS
<1> HIDE DEF attrs
<1>7. /\ DOMAIN tree = DOMAIN state.tree
      /\ \A p \in DOMAIN state.tree \ {path} : tree[p] = state.tree[p]
      /\ tree[path] = [line |-> state.tree[path].line, attrs |-> attrs]
  BY <1>1, <1>4, <1>5
<1> HIDE DEF tree, next
<1>8. next.ok = state.ok /\ next.path = path /\ next.tree = tree
  BY <1>1, <1>3
<1>9. \A p \in DOMAIN state.tree : tree[p].line = state.tree[p].line
  BY <1>7
<1>10. tree[path].attrs = attrs
  BY <1>7
<1>11. QED
  BY <1>1, <1>6, <1>7, <1>8, <1>9, <1>10 DEF next, old

\* One line more.
LEMMA TreeSaysMore ==
  ASSUME NEW C, NEW lines \in Seq(LogicalOf(C)), NEW after, Reads(C, lines, after),
         NEW n \in 0..(Len(lines) - 1), TreeSays(lines, after, n)
  PROVE  TreeSays(lines, after, n + 1)
<1> DEFINE state == after[n]
           line  == lines[n + 1]
           next  == after[n + 1]
<1>1. n \in Nat /\ n + 1 \in 1..Len(lines) /\ (n + 1) - 1 = n /\ n \in 0..Len(lines)
      /\ 1..(n + 1) = 1..n \cup {n + 1} /\ Len(lines) \in Nat
  OBVIOUS
<1>2. state \in TreeReads(C) /\ line \in LogicalOf(C) /\ next = ReadCommand(state, line)
  BY <1>1 DEF Reads, StatesOf
<1>3. state.path \in DOMAIN state.tree /\ line.number \in Nat
  BY <1>2 DEF TreeReads, LogicalOf
<1>4. \A path, name : Says(lines, after, n + 1, path, name) <=>
                        state.ok /\ state.path = path /\ Names(line, name)
  BY <1>1 DEF Says
<1>5. /\ \A path \in DOMAIN state.tree : path # <<>> =>
           \E k \in 1..n : /\ after[k - 1].path = Front(path) /\ Opens(lines[k], Last(path))
                           /\ state.tree[path].line = lines[k].number
      /\ \A path \in DOMAIN state.tree : \A name \in DOMAIN state.tree[path].attrs :
           \E k \in 1..n : /\ Says(lines, after, k, path, name)
                           /\ state.tree[path].attrs[name] = AttrBy(lines[k])
                           /\ \A later \in (k + 1)..n : ~Says(lines, after, later, path, name)
      /\ \A k \in 1..n : \A path, name :
           Says(lines, after, k, path, name) =>
             path \in DOMAIN state.tree /\ name \in DOMAIN state.tree[path].attrs
  BY DEF TreeSays
<1> DEFINE Begun1(path) ==
             \E k \in 1..(n + 1) :
               /\ after[k - 1].path = Front(path) /\ Opens(lines[k], Last(path))
               /\ next.tree[path].line = lines[k].number
           Last1(path, name) ==
             \E k \in 1..(n + 1) :
               /\ Says(lines, after, k, path, name)
               /\ next.tree[path].attrs[name] = AttrBy(lines[k])
               /\ \A later \in (k + 1)..(n + 1) : ~Says(lines, after, later, path, name)
           Kept1 == \A k \in 1..(n + 1) : \A path, name :
               Says(lines, after, k, path, name) =>
                 path \in DOMAIN next.tree /\ name \in DOMAIN next.tree[path].attrs
<1>6. SUFFICES /\ \A path \in DOMAIN next.tree : path # <<>> => Begun1(path)
               /\ \A path \in DOMAIN next.tree : \A name \in DOMAIN next.tree[path].attrs :
                    Last1(path, name)
               /\ Kept1
  BY DEF TreeSays
<1>7. ASSUME NEW path \in DOMAIN state.tree, path # <<>>,
             next.tree[path].line = state.tree[path].line
      PROVE  Begun1(path)
  <2>1. PICK k \in 1..n : /\ after[k - 1].path = Front(path) /\ Opens(lines[k], Last(path))
                          /\ state.tree[path].line = lines[k].number
    BY <1>5, <1>7
  <2>2. k \in 1..(n + 1)
    BY <1>1
  <2>3. QED
    BY <1>7, <2>1, <2>2
<1>8. ASSUME NEW path \in DOMAIN state.tree, NEW name \in DOMAIN state.tree[path].attrs,
             next.tree[path].attrs[name] = state.tree[path].attrs[name],
             ~Says(lines, after, n + 1, path, name)
      PROVE  Last1(path, name)
  <2>1. PICK k \in 1..n : /\ Says(lines, after, k, path, name)
                          /\ state.tree[path].attrs[name] = AttrBy(lines[k])
                          /\ \A later \in (k + 1)..n : ~Says(lines, after, later, path, name)
    BY <1>5
  <2>2. k \in 1..(n + 1) /\ (k + 1)..(n + 1) \subseteq (k + 1)..n \cup {n + 1}
    BY <1>1
  <2>3. \A later \in (k + 1)..(n + 1) : ~Says(lines, after, later, path, name)
    BY <1>8, <2>1, <2>2
  <2>4. QED
    BY <1>8, <2>1, <2>2, <2>3
<1>9. CASE next.tree = state.tree /\ \A name : ~(state.ok /\ Names(line, name))
  <2>1. \A path, name : ~Says(lines, after, n + 1, path, name)
    BY <1>4, <1>9
  <2>2. Kept1
    BY <1>1, <1>5, <1>9, <2>1
  <2> HIDE DEF Begun1, Last1, Kept1
  <2>3. QED
    BY <1>7, <1>8, <1>9, <2>1, <2>2
<1>10. CASE /\ state.ok /\ \A name : ~Names(line, name)
            /\ \E step \in StepOf(C) :
                 Opens(line, step) /\ next = Enter(state, step.kind, step.name, line.number)
  <2>1. PICK step \in StepOf(C) :
          Opens(line, step) /\ next = Enter(state, step.kind, step.name, line.number)
    BY <1>10
  <2> DEFINE new == Append(state.path, step)
  <2>2. /\ next.path = new /\ Front(new) = state.path /\ Last(new) = step /\ new # <<>>
        /\ DOMAIN next.tree = DOMAIN state.tree \cup {new}
        /\ \A p \in DOMAIN state.tree : next.tree[p] = state.tree[p]
        /\ new \notin DOMAIN state.tree =>
             next.tree[new] = [line |-> line.number, attrs |-> NoAttributes]
    <3> HIDE DEF state, line, next
    <3>1. QED
      BY <1>2, <1>3, <2>1, EnterDoes
  <2> HIDE DEF new
  <2>3. \A path, name : ~Says(lines, after, n + 1, path, name)
    BY <1>4, <1>10
  <2>4. ASSUME new \notin DOMAIN state.tree
        PROVE  Begun1(new) /\ DOMAIN next.tree[new].attrs = {}
    <3>1. next.tree[new].line = line.number /\ next.tree[new].attrs = NoAttributes
      BY <2>2, <2>4
    <3>2. n + 1 \in 1..(n + 1) /\ after[(n + 1) - 1].path = Front(new) /\ Opens(line, Last(new))
      BY <1>1, <2>1, <2>2
    <3>3. QED
      BY <3>1, <3>2, NoAttributesType
  <2>5. Kept1
    BY <1>1, <1>5, <2>2, <2>3
  <2> HIDE DEF Begun1, Last1, Kept1
  <2>6. ASSUME NEW path \in DOMAIN next.tree, path # <<>> PROVE Begun1(path)
    BY <1>7, <2>2, <2>4, <2>6
  <2>7. ASSUME NEW path \in DOMAIN next.tree, NEW name \in DOMAIN next.tree[path].attrs
        PROVE  Last1(path, name)
    <3>1. path \in DOMAIN state.tree /\ next.tree[path] = state.tree[path]
      BY <2>2, <2>4, <2>7
    <3>2. QED
      BY <1>8, <2>3, <3>1
  <2>8. QED
    BY <2>5, <2>6, <2>7
<1>11. CASE /\ state.ok
            /\ \E name \in Seq(C) :
                 /\ Names(line, name) /\ \A other : Names(line, other) => other = name
                 /\ AttrBy(line) \in AttrOf(C)
                 /\ next = Assign(state, name, AttrBy(line).values, line.number,
                                  AttrBy(line).unset)
  <2>1. PICK name \in Seq(C) :
          /\ Names(line, name) /\ \A other : Names(line, other) => other = name
          /\ AttrBy(line) \in AttrOf(C)
          /\ next = Assign(state, name, AttrBy(line).values, line.number, AttrBy(line).unset)
    BY <1>11
  <2> DEFINE here == state.path
             attr == AttrBy(line)
  <2>2. attr.line = line.number
    BY DEF AttrBy
  <2>3. /\ next.path = here /\ here \in DOMAIN state.tree
        /\ DOMAIN next.tree = DOMAIN state.tree
        /\ \A p \in DOMAIN state.tree : next.tree[p].line = state.tree[p].line
        /\ \A p \in DOMAIN state.tree \ {here} : next.tree[p] = state.tree[p]
        /\ DOMAIN next.tree[here].attrs = DOMAIN state.tree[here].attrs \cup {name}
        /\ next.tree[here].attrs[name] = attr
        /\ \A m \in DOMAIN state.tree[here].attrs \ {name} :
             next.tree[here].attrs[m] = state.tree[here].attrs[m]
    <3>1. next = Assign(state, name, attr.values, attr.line, attr.unset)
      BY <2>1, <2>2
    <3> HIDE DEF attr
    <3>2. attr \in AttrOf(C)
      BY <2>1 DEF attr
    <3>3. state \in TreeReads(C) /\ name \in Seq(C)
      BY <1>2
    <3> DEFINE result == Assign(state, name, attr.values, attr.line, attr.unset)
    <3> HIDE DEF state, line, next
    <3>4. /\ result.path = state.path /\ state.path \in DOMAIN state.tree
          /\ DOMAIN result.tree = DOMAIN state.tree
          /\ \A p \in DOMAIN state.tree : result.tree[p].line = state.tree[p].line
          /\ \A p \in DOMAIN state.tree \ {state.path} : result.tree[p] = state.tree[p]
          /\ DOMAIN result.tree[state.path].attrs
               = DOMAIN state.tree[state.path].attrs \cup {name}
          /\ result.tree[state.path].attrs[name] = attr
          /\ \A m \in DOMAIN state.tree[state.path].attrs \ {name} :
               result.tree[state.path].attrs[m] = state.tree[state.path].attrs[m]
      BY <3>2, <3>3, AssignDoes
    <3> HIDE DEF result
    <3>5. next = result
      BY <3>1 DEF result
    <3>6. QED
      BY <3>4, <3>5
  <2>4. \A path, other : Says(lines, after, n + 1, path, other) <=>
                           path = here /\ other = name
    BY <1>4, <1>11, <2>1
  <2> HIDE DEF here
  <2>5. Last1(here, name)
    <3>1. n + 1 \in 1..(n + 1) /\ Says(lines, after, n + 1, here, name)
          /\ next.tree[here].attrs[name] = AttrBy(lines[n + 1])
      BY <1>1, <2>3, <2>4
    <3>2. \A later \in ((n + 1) + 1)..(n + 1) : ~Says(lines, after, later, here, name)
      BY <1>1
    <3>3. QED
      BY <3>1, <3>2
  <2>6. Kept1
    <3>1. ASSUME NEW k \in 1..(n + 1), NEW path, NEW other, Says(lines, after, k, path, other)
          PROVE  path \in DOMAIN next.tree /\ other \in DOMAIN next.tree[path].attrs
      <4>1. CASE k = n + 1
        BY <2>3, <2>4, <3>1, <4>1
      <4>2. CASE k # n + 1
        <5>1. k \in 1..n
          BY <1>1, <4>2
        <5>2. path \in DOMAIN state.tree /\ other \in DOMAIN state.tree[path].attrs
          BY <1>5, <3>1, <5>1
        <5>3. CASE path = here
          BY <2>3, <5>2, <5>3
        <5>4. CASE path # here
          <6>1. next.tree[path] = state.tree[path]
            BY <2>3, <5>2, <5>4
          <6>2. QED
            BY <2>3, <5>2, <6>1
        <5>5. QED
          BY <5>3, <5>4
      <4>3. QED
        BY <4>1, <4>2
    <3>2. QED
      BY <3>1
  <2> HIDE DEF Begun1, Last1, Kept1
  <2>7. ASSUME NEW path \in DOMAIN next.tree, path # <<>> PROVE Begun1(path)
    BY <1>7, <2>3, <2>7
  <2>8. ASSUME NEW path \in DOMAIN next.tree, NEW other \in DOMAIN next.tree[path].attrs
        PROVE  Last1(path, other)
    <3>1. CASE path = here /\ other = name
      BY <2>5, <3>1
    <3>2. CASE path = here /\ other # name
      <4>1. other \in DOMAIN state.tree[path].attrs
            /\ next.tree[path].attrs[other] = state.tree[path].attrs[other]
            /\ path \in DOMAIN state.tree
        BY <2>3, <2>8, <3>2
      <4>2. QED
        BY <1>8, <2>4, <3>2, <4>1
    <3>3. CASE path # here
      <4>1. path \in DOMAIN state.tree /\ next.tree[path] = state.tree[path]
        BY <2>3, <3>3
      <4>2. QED
        BY <1>8, <2>4, <2>8, <3>3, <4>1
    <3>4. QED
      BY <3>1, <3>2, <3>3
  <2>9. QED
    BY <2>6, <2>7, <2>8
<1>12. QED
  <2> HIDE DEF state, line, next, Begun1, Last1, Kept1
  <2>1. \/ next.tree = state.tree /\ \A name : ~(state.ok /\ Names(line, name))
        \/ /\ state.ok /\ \A name : ~Names(line, name)
           /\ \E step \in StepOf(C) :
                Opens(line, step) /\ next = Enter(state, step.kind, step.name, line.number)
        \/ /\ state.ok
           /\ \E name \in Seq(C) :
                /\ Names(line, name) /\ \A other : Names(line, other) => other = name
                /\ AttrBy(line) \in AttrOf(C)
                /\ next = Assign(state, name, AttrBy(line).values, line.number,
                                 AttrBy(line).unset)
    BY <1>2, CommandIs
  <2>2. QED
    BY <1>9, <1>10, <1>11, <2>1

\* The tree is what the text says, no more and no less: every node was begun by
\* a line in the block around it, and has that line's number; every attribute is
\* what the last line of its block that names it says, with that line's number;
\* and every line that sets or unsets one is accounted for.  (l1_fortios.parse)
THEOREM TreeIsWhatTheTextSays ==
  ASSUME NEW C, Break \in C, NEW text \in Seq(Seq(C))
  PROVE  LET logical == LogicalLines(text) IN
         \E after :
           /\ Reads(C, logical.lines, after)
           /\ Parse(text) = Parsed(after[Len(logical.lines)], logical.open)
           /\ \A n \in 0..Len(logical.lines) : TreeSays(logical.lines, after, n)
<1> DEFINE logical == LogicalLines(text)
           lines   == logical.lines
<1>1. logical \in LineReads(C) /\ lines \in Seq(LogicalOf(C)) /\ Len(lines) \in Nat
  BY LogicalLinesAreTheText DEF LineReads
<1> HIDE DEF logical
<1>2. PICK after \in StatesOf(TreeReads(C), lines) :
         /\ after[0] = NoTree
         /\ \A n \in 1..Len(lines) : after[n] = ReadCommand(after[n - 1], lines[n])
         /\ ParseLines(logical) = Parsed(after[Len(lines)], logical.open)
  BY <1>1, CommandsRead
<1>3. Reads(C, lines, after)
  BY <1>2 DEF Reads
<1> HIDE DEF lines
<1>4. TreeSays(lines, after, 0)
  <2>1. DOMAIN NoTree.tree = {<<>>} /\ NoTree.tree[<<>>].attrs = NoAttributes
    BY DEF NoTree
  <2>2. DOMAIN NoTree.tree[<<>>].attrs = {}
    BY <2>1, NoAttributesType
  <2>3. QED
    BY <1>2, <2>1, <2>2 DEF TreeSays
<1>5. \A n \in 0..Len(lines) : TreeSays(lines, after, n)
  <2> DEFINE P == {n \in 0..Len(lines) : TreeSays(lines, after, n)}
  <2>1. 0 \in P
    BY <1>1, <1>4
  <2>2. ASSUME NEW n \in 0..(Len(lines) - 1), n \in P PROVE n + 1 \in P
    <3>1. n + 1 \in 0..Len(lines)
      BY <1>1
    <3>2. QED
      BY <1>1, <1>3, <2>2, <3>1, TreeSaysMore
  <2> HIDE DEF P
  <2>3. \A n \in 0..Len(lines) : n \in P
    BY <1>1, <2>1, <2>2, NumbersUpTo
  <2>4. QED
    BY <2>3 DEF P
<1>6. Parse(text) = ParseLines(logical)
  BY DEF Parse, logical
<1>7. QED
  BY <1>2, <1>3, <1>5, <1>6 DEF lines, logical

-----------------------------------------------------------------------------
(* Where a finding points.                                                 *)

LinesOf(text) == {LogicalLines(text).lines[k] : k \in 1..Len(LogicalLines(text).lines)}

\* The attributes and the sections a rule points at.
Attributes ==
  {<<"dangling", <<a>>>> : a \in DOMAIN References}
  \cup {<<"wan-admin-access", <<"allowaccess">>>>, <<"utm-without-ssl", <<"utm-status">>>>,
        <<"no-syslog-target", <<"status">>>>, <<"no-syslog-target", <<"server">>>>,
        <<"no-ntp-sync", <<"ntpsync">>>>}
Heads ==
  {<<"vdom-unsupported", Vdom>>, <<"no-syslog-target", Syslog>>,
   <<"no-ntp-sync", Ntp>>, <<"no-ntp-sync", <<"ntpserver">>>>}

\* The number of a line that says something of the attribute, or begins the
\* section; 0 only when a section is missed.
PointsAt(rule, line, name) == Names(line, name) /\ <<rule, name>> \in Attributes
Begins(rule, line) ==
  \E step : Opens(line, step) /\ step.kind = "config" /\ <<rule, step.name>> \in Heads
Grounded(tree, lines, rule, section, number) ==
  \/ number = 0 /\ rule \in {"no-syslog-target", "no-ntp-sync"} /\ ~HasSection(tree, <<section>>)
  \/ \E line \in lines :
       line.number = number /\ (Begins(rule, line) \/ \E name : PointsAt(rule, line, name))

\* A tree whose nodes and attributes have the numbers of their lines.
PlacedIn(C, tree, lines) ==
  /\ tree \in TreeOf(C)
  /\ \A path \in DOMAIN tree : path # <<>> =>
       \E line \in lines : tree[path].line = line.number /\ Opens(line, Last(path))
  /\ \A path \in DOMAIN tree : \A name \in DOMAIN tree[path].attrs :
       \E line \in lines : tree[path].attrs[name].line = line.number /\ Names(line, name)

LEMMA LineNumbers ==
  ASSUME NEW C, Break \in C, NEW text \in Seq(Seq(C)), NEW line \in LinesOf(text)
  PROVE  line.number \in 1..Len(text) /\ line \in LogicalOf(C)
<1> DEFINE read == LogicalLines(text)
           m    == Len(read.lines)
<1>1. read \in LineReads(C) /\ read.number = Len(text) /\ LinesAre(C, text, read)
  BY LogicalLinesAreTheText
<1> HIDE DEF read
<1>2. read.lines \in Seq(LogicalOf(C)) /\ read.open \in Nat /\ Len(text) \in Nat
  BY <1>1 DEF LineReads
<1>3. m \in Nat /\ \A k \in 1..m : read.lines[k] \in LogicalOf(C)
  BY <1>2
<1>4. \A k \in 1..m : StartOf(read, k) = read.lines[k].number
  BY <1>3 DEF StartOf
<1>5. StartOf(read, m + 1) \in Nat /\ StartOf(read, m + 1) <= Len(text) + 1
  BY <1>1, <1>2, <1>3 DEF StartOf, LinesAre
<1>6. \A k \in 1..m : StartOf(read, k) \in Nat \ {0} /\ StartOf(read, k) < StartOf(read, k + 1)
  BY <1>1, <1>3, <1>4 DEF LinesAre, LogicalOf
<1>7. PICK k \in 1..m : line = read.lines[k]
  BY DEF LinesOf, read
<1> HIDE DEF m
<1> DEFINE P == {d \in Nat : StartOf(read, m + 1 - d) <= Len(text) + 1 - d
                             /\ StartOf(read, m + 1 - d) \in Nat}
<1>8. 0 \in P
  BY <1>2, <1>3, <1>5
<1>9. ASSUME NEW d \in 0..(m - 1), d \in P PROVE d + 1 \in P
  <2>1. m + 1 - (d + 1) \in 1..m /\ (m + 1 - (d + 1)) + 1 = m + 1 - d /\ d + 1 \in Nat
        /\ d \in Nat
    BY <1>3
  <2>2. StartOf(read, m + 1 - (d + 1)) < StartOf(read, m + 1 - d)
        /\ StartOf(read, m + 1 - (d + 1)) \in Nat
    BY <1>6, <2>1
  <2>3. PICK x \in Nat, y \in Nat :
          x = StartOf(read, m + 1 - d) /\ y = StartOf(read, m + 1 - (d + 1))
    BY <1>9, <2>2
  <2>4. y < x /\ x <= Len(text) + 1 - d
    BY <1>9, <2>2, <2>3
  <2>5. y <= Len(text) + 1 - (d + 1)
    BY <1>2, <2>1, <2>4
  <2>6. QED
    BY <2>1, <2>3, <2>5
<1>10. \A d \in 0..m : d \in P
  <2> HIDE DEF P
  <2>1. QED
    BY <1>3, <1>8, <1>9, NumbersUpTo
<1>11. m + 1 - k \in 0..m /\ m + 1 - (m + 1 - k) = k
  BY <1>3
<1>12. StartOf(read, k) <= Len(text) + 1 - (m + 1 - k) /\ StartOf(read, k) \in Nat
  BY <1>10, <1>11
<1>13. StartOf(read, k) <= Len(text)
  <2>1. PICK x \in Nat : x = StartOf(read, k)
    BY <1>12
  <2>2. x <= Len(text) + 1 - (m + 1 - k)
    BY <1>12, <2>1
  <2>3. QED
    BY <1>2, <1>3, <2>1, <2>2
<1>14. QED
  BY <1>2, <1>3, <1>4, <1>6, <1>7, <1>13

LEMMA ParsedIsPlaced ==
  ASSUME NEW C, Break \in C, NEW text \in Seq(Seq(C))
  PROVE  PlacedIn(C, Parse(text).tree, LinesOf(text)) /\ IsTree(Parse(text).tree)
<1> DEFINE logical == LogicalLines(text)
           lines   == logical.lines
<1>1. PICK after :
        /\ Reads(C, lines, after)
        /\ Parse(text) = Parsed(after[Len(lines)], logical.open)
        /\ \A n \in 0..Len(lines) : TreeSays(lines, after, n)
  BY TreeIsWhatTheTextSays
<1>2. Len(lines) \in Nat
  BY LogicalLinesAreTheText DEF LineReads
<1>3. LinesOf(text) = {lines[k] : k \in 1..Len(lines)}
  BY DEF LinesOf
<1> HIDE DEF logical, lines
<1> DEFINE state == after[Len(lines)]
<1>4. state \in TreeReads(C) /\ Parse(text).tree = state.tree /\ TreeSays(lines, after, Len(lines))
  BY <1>1, <1>2 DEF Reads, StatesOf, Parsed
<1> HIDE DEF state
<1>5. state.tree \in TreeOf(C) /\ IsTree(state.tree)
  BY <1>4 DEF TreeReads
<1>6. ASSUME NEW path \in DOMAIN state.tree, path # <<>>
      PROVE  \E line \in LinesOf(text) :
               state.tree[path].line = line.number /\ Opens(line, Last(path))
  <2>1. PICK k \in 1..Len(lines) :
          Opens(lines[k], Last(path)) /\ state.tree[path].line = lines[k].number
    BY <1>4, <1>6 DEF TreeSays, state
  <2>2. QED
    BY <1>3, <2>1
<1>7. ASSUME NEW path \in DOMAIN state.tree, NEW name \in DOMAIN state.tree[path].attrs
      PROVE  \E line \in LinesOf(text) :
               state.tree[path].attrs[name].line = line.number /\ Names(line, name)
  <2>1. PICK k \in 1..Len(lines) :
          Says(lines, after, k, path, name)
          /\ state.tree[path].attrs[name] = AttrBy(lines[k])
    BY <1>4, <1>7 DEF TreeSays, state
  <2>2. Names(lines[k], name) /\ state.tree[path].attrs[name].line = lines[k].number
    BY <2>1 DEF Says, AttrBy
  <2>3. QED
    BY <1>3, <2>2
<1>8. QED
  BY <1>4, <1>5, <1>6, <1>7 DEF PlacedIn

LEMMA ValuesAreSet ==
  ASSUME NEW tree, NEW path, NEW name, Values(tree, path, name) # <<>>
  PROVE  name \in DOMAIN tree[path].attrs
BY DEF Values, Has

LEMMA NoValue ==
  ASSUME NEW tree, NEW path, NEW name, Values(tree, path, name) = <<>>
  PROVE  Value(tree, path, name) = <<>>
BY DEF Value, Joined

LEMMA LinePlaced ==
  ASSUME NEW C, NEW tree, NEW lines \in SUBSET LogicalOf(C), PlacedIn(C, tree, lines),
         NEW path \in DOMAIN tree, NEW name \in DOMAIN tree[path].attrs
  PROVE  \E line \in lines : LineOf(tree, path, name) = line.number /\ Names(line, name)
BY DEF PlacedIn, LineOf

LEMMA HeadPlaced ==
  ASSUME NEW C, NEW tree, NEW lines \in SUBSET LogicalOf(C), PlacedIn(C, tree, lines),
         NEW names, names # <<>>, Len(names) \in Nat \ {0},
         DOMAIN names = 1..Len(names), HasSection(tree, names)
  PROVE  \E line \in lines :
           /\ tree[Section(names)].line = line.number
           /\ Opens(line, [kind |-> "config", name |-> names[Len(names)]])
<1> DEFINE path == Section(names)
<1>1. path \in DOMAIN tree /\ path \in Seq(StepOf(C))
  BY TreeIs DEF HasSection, PlacedIn
<1>2. DOMAIN path = 1..Len(names)
        /\ path[Len(names)] = [kind |-> "config", name |-> names[Len(names)]]
  BY DEF Section
<1> HIDE DEF path
<1>3. Len(path) = Len(names) /\ path # <<>>
  BY <1>1, <1>2, LenProperties
<1>4. Last(path) = [kind |-> "config", name |-> names[Len(names)]]
  BY <1>2, <1>3 DEF Last
<1>5. QED
  BY <1>1, <1>3, <1>4 DEF PlacedIn, path

LEMMA LineOrPlaced ==
  ASSUME NEW C, NEW tree, NEW lines \in SUBSET LogicalOf(C), PlacedIn(C, tree, lines),
         NEW section, HasSection(tree, <<section>>), NEW name
  PROVE  \E line \in lines :
           /\ LineOr(tree, Section(<<section>>), name) = line.number
           /\ Names(line, name) \/ Opens(line, [kind |-> "config", name |-> section])
<1> DEFINE path == Section(<<section>>)
<1>1. path \in DOMAIN tree
  BY DEF HasSection
<1>2. \E line \in lines : tree[path].line = line.number
                          /\ Opens(line, [kind |-> "config", name |-> section])
  <2> DEFINE names == <<section>>
  <2>1. names # <<>> /\ Len(names) = 1 /\ DOMAIN names = 1..Len(names) /\ names[1] = section
        /\ HasSection(tree, names)
    OBVIOUS
  <2> HIDE DEF names, path
  <2>2. \E line \in lines : tree[Section(names)].line = line.number
                            /\ Opens(line, [kind |-> "config", name |-> names[Len(names)]])
    BY <2>1, HeadPlaced
  <2>3. QED
    BY <2>1, <2>2 DEF names, path
<1> HIDE DEF path
<1>3. CASE name \in DOMAIN tree[path].attrs
  <2>1. PICK line \in lines : LineOf(tree, path, name) = line.number /\ Names(line, name)
    BY <1>1, <1>3, LinePlaced
  <2>2. line.number # 0
    BY DEF LogicalOf
  <2>3. QED
    BY <2>1, <2>2 DEF LineOr, path
<1>4. CASE name \notin DOMAIN tree[path].attrs
  <2>1. LineOr(tree, path, name) = tree[path].line
    BY <1>4 DEF LineOr, LineOf
  <2>2. QED
    BY <1>2, <2>1 DEF path
<1>5. QED
  BY <1>3, <1>4

\* What the checks find is grounded.
LEMMA HitsAreGrounded ==
  ASSUME NEW C, NEW tree, NEW lines \in SUBSET LogicalOf(C), PlacedIn(C, tree, lines),
         NEW rule \in ScopeGates \cup OtherRules, NEW hit \in Check(rule, tree)
  PROVE  Grounded(tree, lines, rule, hit.section, hit.line)
<1>1. ASSUME NEW r, NEW path \in DOMAIN tree, NEW name \in DOMAIN tree[path].attrs,
             NEW section, <<r, name>> \in Attributes
      PROVE  Grounded(tree, lines, r, section, LineOf(tree, path, name))
  <2>1. PICK line \in lines : LineOf(tree, path, name) = line.number /\ Names(line, name)
    BY LinePlaced
  <2>2. QED
    BY <1>1, <2>1 DEF Grounded, PointsAt
<1>2. \A names, p : p \in Entries(tree, names) => p \in DOMAIN tree
  BY DEF Entries
<1>3. CASE rule = "vdom-unsupported"
  <2>1. HasSection(tree, <<Vdom>>) /\ hit.section = Vdom
        /\ hit.line = tree[Section(<<Vdom>>)].line
    BY <1>3 DEF Check, VdomUnsupported, Hit
  <2> DEFINE names == <<Vdom>>
  <2>2. names # <<>> /\ Len(names) = 1 /\ DOMAIN names = 1..Len(names) /\ names[1] = Vdom
        /\ HasSection(tree, names)
    BY <2>1
  <2> HIDE DEF names
  <2>3. PICK line \in lines : tree[Section(names)].line = line.number
                              /\ Opens(line, [kind |-> "config", name |-> names[Len(names)]])
    BY <2>2, HeadPlaced
  <2>4. Begins(rule, line) /\ line.number = hit.line
    BY <1>3, <2>1, <2>2, <2>3 DEF Begins, Heads, names
  <2>5. QED
    BY <2>4 DEF Grounded
<1>4. CASE rule = "dangling"
  <2>1. PICK policy \in Entries(tree, <<Policy>>), attribute \in DOMAIN References :
          /\ hit.line = LineOf(tree, policy, <<attribute>>)
          /\ Range(Values(tree, policy, <<attribute>>)) # {}
    <3>1. hit \in DanglingReference(tree)
      BY <1>4 DEF Check
    <3> DEFINE Found(p, a) ==
                 {Hit(Joined(<<ObjectKey(p), <<a>>, value>>, "/"), Policy, LineOf(tree, p, <<a>>)) :
                    value \in Range(Values(tree, p, <<a>>))
                                \ (References[a].builtins \cup Defined(tree, a))}
    <3>2. DanglingReference(tree)
            = UNION {Found(p, a) : p \in Entries(tree, <<Policy>>), a \in DOMAIN References}
      BY SMT DEF DanglingReference
    <3> HIDE DEF Found
    <3>3. PICK p \in Entries(tree, <<Policy>>), a \in DOMAIN References : hit \in Found(p, a)
      BY <3>1, <3>2
    <3>4. PICK value \in Range(Values(tree, p, <<a>>)) :
            hit = Hit(Joined(<<ObjectKey(p), <<a>>, value>>, "/"), Policy, LineOf(tree, p, <<a>>))
      BY <3>3, Zenon DEF Found
    <3>5. QED
      BY <3>4 DEF Hit
  <2>2. Values(tree, policy, <<attribute>>) # <<>>
    BY <2>1 DEF Range
  <2>3. <<attribute>> \in DOMAIN tree[policy].attrs /\ policy \in DOMAIN tree
    BY <1>2, <2>2, ValuesAreSet
  <2>4. <<rule, <<attribute>>>> \in Attributes
    BY <1>4 DEF Attributes
  <2>5. QED
    BY <1>1, <2>1, <2>3, <2>4
<1>5. CASE rule = "wan-admin-access"
  <2>1. PICK interface \in Entries(tree, <<Interface>>) :
          /\ hit.line = LineOf(tree, interface, <<"allowaccess">>)
          /\ Range(Values(tree, interface, <<"allowaccess">>)) # {}
    BY <1>5 DEF Check, AdminAccessOnUntrustedInterface, Hit
  <2>2. Values(tree, interface, <<"allowaccess">>) # <<>>
    BY <2>1 DEF Range
  <2>3. <<"allowaccess">> \in DOMAIN tree[interface].attrs /\ interface \in DOMAIN tree
    BY <1>2, <2>2, ValuesAreSet
  <2>4. <<rule, <<"allowaccess">>>> \in Attributes
    BY <1>5 DEF Attributes
  <2>5. QED
    BY <1>1, <2>1, <2>3, <2>4
<1>6. CASE rule = "utm-without-ssl"
  <2>1. PICK policy \in Entries(tree, <<Policy>>) :
          /\ hit.line = LineOf(tree, policy, <<"utm-status">>)
          /\ Value(tree, policy, <<"utm-status">>) = <<"enable">>
    BY <1>6 DEF Check, UtmWithoutSslProfile, Hit
  <2>2. <<"enable">> # <<>>
    OBVIOUS
  <2>3. Values(tree, policy, <<"utm-status">>) # <<>>
    BY <2>1, <2>2, NoValue
  <2>4. <<"utm-status">> \in DOMAIN tree[policy].attrs /\ policy \in DOMAIN tree
    BY <1>2, <2>3, ValuesAreSet
  <2>5. <<rule, <<"utm-status">>>> \in Attributes
    BY <1>6 DEF Attributes
  <2>6. QED
    BY <1>1, <2>1, <2>4, <2>5
<1>7. ASSUME NEW r, NEW section, NEW name, HasSection(tree, <<section>>),
             <<r, name>> \in Attributes, <<r, section>> \in Heads
      PROVE  Grounded(tree, lines, r, section, LineOr(tree, Section(<<section>>), name))
  <2>1. PICK line \in lines :
          /\ LineOr(tree, Section(<<section>>), name) = line.number
          /\ Names(line, name) \/ Opens(line, [kind |-> "config", name |-> section])
    BY <1>7, LineOrPlaced
  <2>2. (\E n : PointsAt(r, line, n)) \/ Begins(r, line)
    <3>1. CASE Names(line, name)
      BY <1>7, <3>1 DEF PointsAt
    <3>2. CASE Opens(line, [kind |-> "config", name |-> section])
      <4>1. [kind |-> "config", name |-> section].kind = "config"
            /\ [kind |-> "config", name |-> section].name = section
        OBVIOUS
      <4>2. QED
        BY <1>7, <3>2, <4>1 DEF Begins
    <3>3. QED
      BY <2>1, <3>1, <3>2
  <2>3. QED
    BY <2>1, <2>2 DEF Grounded
<1>8. CASE rule = "no-syslog-target"
  <2>1. hit.section = Syslog
        /\ \/ ~HasSection(tree, <<Syslog>>) /\ hit.line = 0
           \/ /\ HasSection(tree, <<Syslog>>)
              /\ \/ hit.line = LineOr(tree, Section(<<Syslog>>), <<"status">>)
                 \/ hit.line = LineOr(tree, Section(<<Syslog>>), <<"server">>)
    BY <1>8 DEF Check, NoSyslogTarget, Hit
  <2>2. <<rule, <<"status">>>> \in Attributes /\ <<rule, <<"server">>>> \in Attributes
        /\ <<rule, Syslog>> \in Heads
    BY <1>8 DEF Attributes, Heads
  <2>3. CASE HasSection(tree, <<Syslog>>)
    BY <1>7, <2>1, <2>2, <2>3
  <2>4. CASE ~HasSection(tree, <<Syslog>>)
    BY <1>8, <2>1, <2>4 DEF Grounded
  <2>5. QED
    BY <2>3, <2>4
<1>9. CASE rule = "no-ntp-sync"
  <2> DEFINE servers == <<Ntp, <<"ntpserver">>>>
  <2>1. hit.section = Ntp
        /\ \/ ~HasSection(tree, <<Ntp>>) /\ hit.line = 0
           \/ /\ HasSection(tree, <<Ntp>>)
              /\ \/ hit.line = LineOr(tree, Section(<<Ntp>>), <<"ntpsync">>)
                 \/ hit.line = tree[Section(<<Ntp>>)].line
                 \/ HasSection(tree, servers) /\ hit.line = tree[Section(servers)].line
    BY <1>9 DEF Check, NoNtpSync, Hit
  <2>2. <<rule, <<"ntpsync">>>> \in Attributes /\ <<rule, Ntp>> \in Heads
        /\ <<rule, <<"ntpserver">>>> \in Heads
    BY <1>9 DEF Attributes, Heads
  <2>3. ASSUME NEW names, names # <<>>, Len(names) \in Nat \ {0},
               DOMAIN names = 1..Len(names), HasSection(tree, names),
               <<rule, names[Len(names)]>> \in Heads, hit.line = tree[Section(names)].line
        PROVE  Grounded(tree, lines, rule, hit.section, hit.line)
    <3>1. PICK line \in lines :
            /\ tree[Section(names)].line = line.number
            /\ Opens(line, [kind |-> "config", name |-> names[Len(names)]])
      BY <2>3, HeadPlaced
    <3>2. [kind |-> "config", name |-> names[Len(names)]].kind = "config"
          /\ [kind |-> "config", name |-> names[Len(names)]].name = names[Len(names)]
      OBVIOUS
    <3>3. Begins(rule, line)
      BY <2>3, <3>1, <3>2 DEF Begins
    <3>4. QED
      BY <2>3, <3>1, <3>3 DEF Grounded
  <2>4. CASE ~HasSection(tree, <<Ntp>>) /\ hit.line = 0
    BY <1>9, <2>1, <2>4 DEF Grounded
  <2>5. CASE HasSection(tree, <<Ntp>>)
             /\ hit.line = LineOr(tree, Section(<<Ntp>>), <<"ntpsync">>)
    BY <1>7, <2>1, <2>2, <2>5
  <2>6. CASE HasSection(tree, <<Ntp>>) /\ hit.line = tree[Section(<<Ntp>>)].line
    <3> DEFINE names == <<Ntp>>
    <3>1. names # <<>> /\ Len(names) = 1 /\ DOMAIN names = 1..Len(names) /\ names[1] = Ntp
          /\ HasSection(tree, names) /\ hit.line = tree[Section(names)].line
      BY <2>6
    <3> HIDE DEF names
    <3>2. QED
      BY <2>2, <2>3, <3>1
  <2>7. CASE HasSection(tree, servers) /\ hit.line = tree[Section(servers)].line
    <3>1. servers # <<>> /\ Len(servers) = 2 /\ DOMAIN servers = 1..Len(servers)
          /\ servers[2] = <<"ntpserver">>
      OBVIOUS
    <3> HIDE DEF servers
    <3>2. QED
      BY <2>2, <2>3, <2>7, <3>1
  <2>8. QED
    BY <2>1, <2>4, <2>5, <2>6, <2>7
<1>10. QED
  BY <1>3, <1>4, <1>5, <1>6, <1>8, <1>9 DEF ScopeGates, OtherRules

\* Every finding of every text can be looked up: its line is one of the text's,
\* where the attribute it is about is set or unset or the section it is about
\* begins, and it has no line only when it is that the section is missing.
\* (rules.fortios, engine.run)
THEOREM FindingsPointAtTheText ==
  ASSUME NEW C, Break \in C, NEW text \in Seq(Seq(C)), NEW f \in RunRules(Parse(text).tree)
  PROVE  /\ f.line \in 0..Len(text)
         /\ Grounded(Parse(text).tree, LinesOf(text), f.rule, f.section, f.line)
<1> DEFINE tree  == Parse(text).tree
           lines == LinesOf(text)
<1>1. PlacedIn(C, tree, lines) /\ \A line \in lines : line.number \in 1..Len(text)
                                                       /\ line \in LogicalOf(C)
  BY ParsedIsPlaced, LineNumbers
<1> HIDE DEF tree, lines
<1>2. lines \in SUBSET LogicalOf(C)
  BY <1>1
<1>3. PICK rule \in ScopeGates \cup OtherRules : \E hit \in Check(rule, tree) :
        f = [rule |-> rule, key |-> hit.key, section |-> hit.section, line |-> hit.line]
  <2>1. f \in Collect(tree, ScopeGates) \/ f \in Collect(tree, OtherRules)
    BY DEF RunRules, Unless, tree
  <2>2. QED
    BY <2>1 DEF Collect
<1>4. PICK hit \in Check(rule, tree) :
        f = [rule |-> rule, key |-> hit.key, section |-> hit.section, line |-> hit.line]
  BY <1>3
<1>5. Grounded(tree, lines, rule, hit.section, hit.line)
  BY <1>1, <1>2, HitsAreGrounded
<1>6. f.rule = rule /\ f.section = hit.section /\ f.line = hit.line
  BY <1>4
<1>7. Len(text) \in Nat
  OBVIOUS
<1>8. f.line \in 0..Len(text)
  BY <1>1, <1>5, <1>6, <1>7 DEF Grounded
<1>9. QED
  BY <1>5, <1>6, <1>8 DEF tree, lines

-----------------------------------------------------------------------------
(* What the layout of a text does not change.                              *)

\* Trees that differ in the numbers of lines only.
SameTree(one, two) ==
  /\ DOMAIN one = DOMAIN two
  /\ \A path \in DOMAIN one :
       /\ DOMAIN one[path].attrs = DOMAIN two[path].attrs
       /\ \A name \in DOMAIN one[path].attrs :
            /\ one[path].attrs[name].values = two[path].attrs[name].values
            /\ one[path].attrs[name].unset = two[path].attrs[name].unset

SameState(one, two) ==
  one.ok = two.ok /\ one.path = two.path /\ SameTree(one.tree, two.tree)

\* Logical lines that the parser does not tell apart, and ones it leaves out.
IsIdle(raw) == IsComment(raw) \/ Tokenize(raw) = <<>>
SaySame(one, two) ==
  \/ IsIdle(one) /\ IsIdle(two)
  \/ ~IsComment(one) /\ ~IsComment(two) /\ Tokenize(one) = Tokenize(two)

LEMMA IdleKeeps ==
  ASSUME NEW state, NEW line, IsIdle(line.raw) PROVE ReadCommand(state, line) = state
BY DEF IsIdle, ReadCommand, ReadTokens

LEMMA EnterSame ==
  ASSUME NEW C, NEW one \in TreeReads(C), NEW two \in TreeReads(C), SameState(one, two),
         NEW step \in StepOf(C), NEW m \in Nat, NEW n \in Nat
  PROVE  SameState(Enter(one, step.kind, step.name, m), Enter(two, step.kind, step.name, n))
<1> DEFINE path   == Append(one.path, step)
           first  == Enter(one, step.kind, step.name, m)
           second == Enter(two, step.kind, step.name, n)
<1>1. one.ok = two.ok /\ one.path = two.path /\ SameTree(one.tree, two.tree)
  BY DEF SameState
<1>2. /\ first.ok = one.ok /\ first.path = path
      /\ DOMAIN first.tree = DOMAIN one.tree \cup {path}
      /\ \A p \in DOMAIN one.tree : first.tree[p] = one.tree[p]
      /\ path \notin DOMAIN one.tree =>
           first.tree[path] = [line |-> m, attrs |-> NoAttributes]
  BY EnterDoes
<1>3. /\ second.ok = two.ok /\ second.path = path
      /\ DOMAIN second.tree = DOMAIN two.tree \cup {path}
      /\ \A p \in DOMAIN two.tree : second.tree[p] = two.tree[p]
      /\ path \notin DOMAIN two.tree =>
           second.tree[path] = [line |-> n, attrs |-> NoAttributes]
  BY <1>1, EnterDoes
<1> HIDE DEF path, first, second
<1>4. ASSUME NEW p \in DOMAIN first.tree
      PROVE  /\ DOMAIN first.tree[p].attrs = DOMAIN second.tree[p].attrs
             /\ \A name \in DOMAIN first.tree[p].attrs :
                  /\ first.tree[p].attrs[name].values = second.tree[p].attrs[name].values
                  /\ first.tree[p].attrs[name].unset = second.tree[p].attrs[name].unset
  <2>1. CASE p \in DOMAIN one.tree
    <3>1. first.tree[p] = one.tree[p] /\ second.tree[p] = two.tree[p]
      BY <1>1, <1>2, <1>3, <2>1 DEF SameTree
    <3>2. QED
      BY <1>1, <2>1, <3>1 DEF SameTree
  <2>2. CASE p \notin DOMAIN one.tree
    <3>1. p = path /\ path \notin DOMAIN one.tree /\ path \notin DOMAIN two.tree
      BY <1>1, <1>2, <2>2 DEF SameTree
    <3>2. first.tree[p].attrs = NoAttributes /\ second.tree[p].attrs = NoAttributes
      BY <1>2, <1>3, <3>1
    <3>3. QED
      BY <3>2
  <2>3. QED
    BY <2>1, <2>2
<1>5. SameTree(first.tree, second.tree)
  BY <1>1, <1>2, <1>3, <1>4 DEF SameTree
<1>6. QED
  BY <1>1, <1>2, <1>3, <1>5 DEF SameState, first, second

LEMMA AssignSame ==
  ASSUME NEW C, NEW one \in TreeReads(C), NEW two \in TreeReads(C), SameState(one, two),
         NEW name \in Seq(C), NEW a \in AttrOf(C), NEW b \in AttrOf(C),
         a.values = b.values, a.unset = b.unset
  PROVE  SameState(Assign(one, name, a.values, a.line, a.unset),
                   Assign(two, name, b.values, b.line, b.unset))
<1> DEFINE path   == one.path
           first  == Assign(one, name, a.values, a.line, a.unset)
           second == Assign(two, name, b.values, b.line, b.unset)
<1>1. one.ok = two.ok /\ one.path = two.path /\ SameTree(one.tree, two.tree)
  BY DEF SameState
<1>2. /\ first.ok = one.ok /\ first.path = path /\ path \in DOMAIN one.tree
      /\ DOMAIN first.tree = DOMAIN one.tree
      /\ \A p \in DOMAIN one.tree \ {path} : first.tree[p] = one.tree[p]
      /\ DOMAIN first.tree[path].attrs = DOMAIN one.tree[path].attrs \cup {name}
      /\ first.tree[path].attrs[name] = a
      /\ \A m \in DOMAIN one.tree[path].attrs \ {name} :
           first.tree[path].attrs[m] = one.tree[path].attrs[m]
  BY AssignDoes
<1>3. /\ second.ok = two.ok /\ second.path = two.path /\ two.path \in DOMAIN two.tree
      /\ DOMAIN second.tree = DOMAIN two.tree
      /\ \A p \in DOMAIN two.tree \ {two.path} : second.tree[p] = two.tree[p]
      /\ DOMAIN second.tree[two.path].attrs = DOMAIN two.tree[two.path].attrs \cup {name}
      /\ second.tree[two.path].attrs[name] = b
      /\ \A m \in DOMAIN two.tree[two.path].attrs \ {name} :
           second.tree[two.path].attrs[m] = two.tree[two.path].attrs[m]
  BY AssignDoes
<1> HIDE DEF first, second
<1>4. ASSUME NEW p \in DOMAIN first.tree
      PROVE  /\ DOMAIN first.tree[p].attrs = DOMAIN second.tree[p].attrs
             /\ \A m \in DOMAIN first.tree[p].attrs :
                  /\ first.tree[p].attrs[m].values = second.tree[p].attrs[m].values
                  /\ first.tree[p].attrs[m].unset = second.tree[p].attrs[m].unset
  <2>1. CASE p # path
    <3>1. p \in DOMAIN one.tree \ {path} /\ p \in DOMAIN two.tree \ {two.path}
      BY <1>1, <1>2, <2>1 DEF SameTree
    <3>2. first.tree[p] = one.tree[p] /\ second.tree[p] = two.tree[p]
      BY <1>2, <1>3, <3>1
    <3>3. QED
      BY <1>1, <3>1, <3>2 DEF SameTree
  <2>2. CASE p = path
    <3>1. DOMAIN one.tree[path].attrs = DOMAIN two.tree[path].attrs
          /\ \A m \in DOMAIN one.tree[path].attrs :
               /\ one.tree[path].attrs[m].values = two.tree[path].attrs[m].values
               /\ one.tree[path].attrs[m].unset = two.tree[path].attrs[m].unset
      BY <1>1, <1>2 DEF SameTree
    <3>2. DOMAIN first.tree[path].attrs = DOMAIN second.tree[path].attrs
      BY <1>1, <1>2, <1>3, <3>1
    <3>3. ASSUME NEW m \in DOMAIN first.tree[path].attrs
          PROVE  /\ first.tree[path].attrs[m].values = second.tree[path].attrs[m].values
                 /\ first.tree[path].attrs[m].unset = second.tree[path].attrs[m].unset
      <4>1. CASE m = name
        BY <1>1, <1>2, <1>3, <4>1
      <4>2. CASE m # name
        BY <1>1, <1>2, <1>3, <3>1, <4>2
      <4>3. QED
        BY <4>1, <4>2
    <3>4. QED
      BY <2>2, <3>2, <3>3
  <2>3. QED
    BY <2>1, <2>2
<1>5. SameTree(first.tree, second.tree)
  BY <1>1, <1>2, <1>3, <1>4 DEF SameTree
<1>6. QED
  BY <1>1, <1>2, <1>3, <1>5 DEF SameState, first, second

LEMMA CommandSame ==
  ASSUME NEW C, NEW one \in TreeReads(C), NEW two \in TreeReads(C), SameState(one, two),
         NEW a \in LogicalOf(C), NEW b \in LogicalOf(C), SaySame(a.raw, b.raw)
  PROVE  SameState(ReadCommand(one, a), ReadCommand(two, b))
<1> DEFINE tokens == Tokenize(a.raw)
           name   == IF Len(tokens) > 1 THEN tokens[2] ELSE <<>>
           rest   == SubSeq(tokens, 3, Len(tokens))
           first  == ReadCommand(one, a)
           second == ReadCommand(two, b)
<1>1. CASE IsIdle(a.raw) /\ IsIdle(b.raw)
  BY <1>1, IdleKeeps
<1>2. CASE ~one.ok
  <2>1. ~two.ok
    BY <1>2 DEF SameState
  <2>2. QED
    BY <1>2, <2>1 DEF ReadCommand
<1>3. CASE one.ok /\ ~IsIdle(a.raw) /\ ~IsComment(b.raw) /\ Tokenize(b.raw) = tokens
  <2>1. two.ok /\ ~IsComment(a.raw) /\ tokens # <<>>
    BY <1>3 DEF SameState, IsIdle
  <2>2. first = ReadTokens(one, tokens, a.number) /\ second = ReadTokens(two, tokens, b.number)
    BY <1>3, <2>1 DEF ReadCommand
  <2>3. a.number \in Nat /\ b.number \in Nat /\ tokens \in Seq(Seq(C))
    BY TokensType DEF LogicalOf
  <2> HIDE DEF tokens, first, second
  <2>4. Joined(Tail(tokens), Blank) \in NamesOf(C) /\ rest \in Seq(Seq(C)) /\ name \in Seq(C)
        /\ name \in NamesOf(C) /\ <<>> \in Seq(Seq(C)) /\ Len(tokens) \in Nat
    <3>1. Tail(tokens) \in Seq(Seq(C))
      BY <2>1, <2>3
    <3>2. rest \in Seq(Seq(C))
      BY <2>3, SubSeqProperties
    <3>3. name \in Seq(C)
      BY <2>3
    <3> HIDE DEF rest, name
    <3>4. Joined(Tail(tokens), Blank) \in NamesOf(C)
      BY <3>1 DEF NamesOf
    <3>5. name \in NamesOf(C)
      BY <3>3 DEF NamesOf
    <3>6. <<>> \in Seq(Seq(C)) /\ Len(tokens) \in Nat
      BY <2>3
    <3>7. QED
      BY <3>2, <3>3, <3>4, <3>5, <3>6
  <2>5. CASE tokens[1] = <<"config">>
    <3> DEFINE step == [kind |-> "config", name |-> Joined(Tail(tokens), Blank)]
    <3>1. step \in StepOf(C)
      BY <2>4 DEF StepOf
    <3>2. first = Enter(one, step.kind, step.name, a.number)
          /\ second = Enter(two, step.kind, step.name, b.number)
      BY <2>1, <2>2, <2>5 DEF ReadTokens
    <3> HIDE DEF step
    <3>3. QED
      BY <2>3, <3>1, <3>2, EnterSame DEF first, second
  <2>6. CASE tokens[1] = <<"edit">>
    <3>1. first = Enter(one, "edit", name, a.number) /\ second = Enter(two, "edit", name, b.number)
      BY <2>1, <2>2, <2>6 DEF ReadTokens
    <3> DEFINE step == [kind |-> "edit", name |-> name]
    <3> HIDE DEF name
    <3>2. step \in StepOf(C) /\ first = Enter(one, step.kind, step.name, a.number)
          /\ second = Enter(two, step.kind, step.name, b.number)
      BY <2>4, <3>1 DEF StepOf
    <3> HIDE DEF step
    <3>3. QED
      BY <2>3, <3>2, EnterSame DEF first, second
  <2>7. CASE tokens[1] \in {<<"set">>, <<"unset">>} /\ Len(tokens) > 1
    <3> DEFINE values == IF tokens[1] = <<"set">> THEN rest ELSE <<>>
    <3>1. PICK unset \in BOOLEAN :
             /\ first = Assign(one, name, values, a.number, unset)
             /\ second = Assign(two, name, values, b.number, unset)
      <4>1. ~(Len(tokens) < 2) /\ <<"set">> # <<"unset">>
        BY <2>4, <2>7
      <4>2. CASE tokens[1] = <<"set">>
        <5>1. first = Assign(one, name, rest, a.number, FALSE)
              /\ second = Assign(two, name, rest, b.number, FALSE)
          <6> HIDE DEF rest
          <6>1. QED
            BY <2>1, <2>2, <4>1, <4>2 DEF ReadTokens, rest
        <5>2. values = rest
          BY <4>2
        <5> HIDE DEF values
        <5>3. QED
          BY <5>1, <5>2
      <4>3. CASE tokens[1] = <<"unset">>
        <5>1. first = Assign(one, name, <<>>, a.number, TRUE)
              /\ second = Assign(two, name, <<>>, b.number, TRUE)
          BY <2>1, <2>2, <4>1, <4>3 DEF ReadTokens
        <5>2. values = <<>>
          BY <4>1, <4>3
        <5> HIDE DEF values
        <5>3. QED
          BY <5>1, <5>2
      <4>4. QED
        BY <2>7, <4>2, <4>3
    <3> DEFINE x == [values |-> values, line |-> a.number, unset |-> unset]
               y == [values |-> values, line |-> b.number, unset |-> unset]
    <3>2. values \in Seq(Seq(C))
      BY <2>4
    <3> HIDE DEF values, name
    <3>3. x \in AttrOf(C) /\ y \in AttrOf(C) /\ x.values = y.values /\ x.unset = y.unset
      BY <2>3, <3>2 DEF AttrOf
    <3>4. first = Assign(one, name, x.values, x.line, x.unset)
          /\ second = Assign(two, name, y.values, y.line, y.unset)
      BY <3>1
    <3> HIDE DEF x, y
    <3>5. QED
      BY <2>4, <3>3, <3>4, AssignSame DEF first, second
  <2>8. CASE tokens[1] \in {<<"next">>, <<"end">>} /\ one.path # <<>>
    <3>1. two.path = one.path
      BY DEF SameState
    <3>2. first = [one EXCEPT !.path = Front(@)] /\ second = [two EXCEPT !.path = Front(@)]
      BY <2>1, <2>2, <2>8, <3>1 DEF ReadTokens
    <3>3. first.ok = one.ok /\ first.path = Front(one.path) /\ first.tree = one.tree
          /\ second.ok = two.ok /\ second.path = Front(two.path) /\ second.tree = two.tree
      BY <3>2 DEF TreeReads
    <3>4. QED
      BY <3>1, <3>3 DEF SameState, first, second
  <2>9. CASE \/ tokens[1] \in {<<"next">>, <<"end">>} /\ one.path = <<>>
             \/ tokens[1] \in {<<"set">>, <<"unset">>} /\ ~(Len(tokens) > 1)
    <3>1. two.path = one.path /\ (~(Len(tokens) > 1) => Len(tokens) < 2)
      BY <2>4 DEF SameState
    <3>2. first = [one EXCEPT !.ok = FALSE] /\ second = [two EXCEPT !.ok = FALSE]
      <4>1. CASE tokens[1] \in {<<"next">>, <<"end">>} /\ one.path = <<>>
        BY <2>1, <2>2, <3>1, <4>1 DEF ReadTokens
      <4>2. CASE tokens[1] \in {<<"set">>, <<"unset">>} /\ ~(Len(tokens) > 1)
        <5>1. Len(tokens) < 2
          BY <3>1, <4>2
        <5>2. QED
          BY <2>1, <2>2, <4>2, <5>1 DEF ReadTokens
      <4>3. QED
        BY <2>9, <4>1, <4>2
    <3>3. first.ok = FALSE /\ first.path = one.path /\ first.tree = one.tree
          /\ second.ok = FALSE /\ second.path = two.path /\ second.tree = two.tree
      BY <3>2 DEF TreeReads
    <3>4. QED
      BY <3>3 DEF SameState, first, second
  <2>10. CASE tokens[1] \notin {<<"config">>, <<"edit">>, <<"set">>, <<"unset">>, <<"next">>,
                                <<"end">>}
    <3>1. first = one /\ second = two
      BY <2>1, <2>2, <2>10 DEF ReadTokens
    <3>2. QED
      BY <3>1 DEF first, second
  <2>11. QED
    BY <2>5, <2>6, <2>7, <2>8, <2>9, <2>10
<1>4. QED
  BY <1>1, <1>2, <1>3 DEF SaySame, IsIdle

\* Two sequences of logical lines that say the same, but for idle lines of the
\* second: i[k] is the number of lines of the first that k lines of it stand for.
SaysTheSame(one, two) ==
  \E i \in [0..Len(two) -> 0..Len(one)] :
    /\ i[0] = 0 /\ i[Len(two)] = Len(one)
    /\ \A k \in 1..Len(two) :
         \/ i[k] = i[k - 1] /\ IsIdle(two[k].raw)
         \/ i[k] = i[k - 1] + 1 /\ SaySame(one[i[k]].raw, two[k].raw)

LEMMA ParseSame ==
  ASSUME NEW C, NEW one \in LineReads(C), NEW two \in LineReads(C),
         SaysTheSame(one.lines, two.lines), one.open = 0 <=> two.open = 0
  PROVE  /\ ParseLines(one).ok = ParseLines(two).ok
         /\ SameTree(ParseLines(one).tree, ParseLines(two).tree)
<1>1. PICK first \in StatesOf(TreeReads(C), one.lines) :
         /\ first[0] = NoTree
         /\ \A n \in 1..Len(one.lines) : first[n] = ReadCommand(first[n - 1], one.lines[n])
         /\ ParseLines(one) = Parsed(first[Len(one.lines)], one.open)
  BY CommandsRead
<1>2. PICK second \in StatesOf(TreeReads(C), two.lines) :
         /\ second[0] = NoTree
         /\ \A n \in 1..Len(two.lines) : second[n] = ReadCommand(second[n - 1], two.lines[n])
         /\ ParseLines(two) = Parsed(second[Len(two.lines)], two.open)
  BY CommandsRead
<1> DEFINE l == one.lines
           r == two.lines
<1>3. l \in Seq(LogicalOf(C)) /\ r \in Seq(LogicalOf(C)) /\ Len(l) \in Nat /\ Len(r) \in Nat
  BY DEF LineReads
<1>4. (\A n \in 0..Len(l) : first[n] \in TreeReads(C))
      /\ (\A n \in 0..Len(r) : second[n] \in TreeReads(C))
  BY DEF StatesOf
<1>5. (\A n \in 1..Len(l) : first[n] = ReadCommand(first[n - 1], l[n]) /\ l[n] \in LogicalOf(C))
      /\ (\A n \in 1..Len(r) : second[n] = ReadCommand(second[n - 1], r[n])
                                /\ r[n] \in LogicalOf(C))
  BY <1>1, <1>2, <1>3
<1>6. PICK i \in [0..Len(r) -> 0..Len(l)] :
         /\ i[0] = 0 /\ i[Len(r)] = Len(l)
         /\ \A k \in 1..Len(r) :
              \/ i[k] = i[k - 1] /\ IsIdle(r[k].raw)
              \/ i[k] = i[k - 1] + 1 /\ SaySame(l[i[k]].raw, r[k].raw)
  BY DEF SaysTheSame
<1> HIDE DEF l, r
<1> DEFINE P == {k \in 0..Len(r) : SameState(first[i[k]], second[k])}
<1>7. 0 \in P
  BY <1>1, <1>2, <1>3, <1>6 DEF SameState, SameTree
<1>8. ASSUME NEW n \in 0..(Len(r) - 1), n \in P PROVE n + 1 \in P
  <2> DEFINE k == n + 1
  <2>1. k \in 1..Len(r) /\ k - 1 = n /\ n \in 0..Len(r) /\ k \in 0..Len(r)
    BY <1>3
  <2> HIDE DEF k
  <2>2. \/ i[k] = i[n] /\ IsIdle(r[k].raw)
        \/ i[k] = i[n] + 1 /\ SaySame(l[i[k]].raw, r[k].raw)
    BY <1>6, <2>1
  <2>3. i[n] \in 0..Len(l) /\ i[k] \in 0..Len(l)
    BY <1>6, <2>1
  <2>4. second[k] = ReadCommand(second[n], r[k]) /\ r[k] \in LogicalOf(C)
    BY <1>5, <2>1
  <2>5. first[i[n]] \in TreeReads(C) /\ second[n] \in TreeReads(C)
        /\ SameState(first[i[n]], second[n])
    BY <1>4, <1>8, <2>1, <2>3
  <2>6. SameState(first[i[k]], second[k])
    <3>1. CASE i[k] = i[n] /\ IsIdle(r[k].raw)
      BY <2>4, <2>5, <3>1, IdleKeeps
    <3>2. CASE i[k] = i[n] + 1 /\ SaySame(l[i[k]].raw, r[k].raw)
      <4>1. i[k] \in 1..Len(l) /\ i[k] - 1 = i[n]
        <5>1. PICK x \in 0..Len(l), y \in 0..Len(l) : x = i[n] /\ y = i[k]
          BY <2>3
        <5>2. y = x + 1
          BY <3>2, <5>1
        <5>3. y \in 1..Len(l) /\ y - 1 = x
          BY <1>3, <5>2
        <5>4. QED
          BY <5>1, <5>3
      <4>2. first[i[k]] = ReadCommand(first[i[n]], l[i[k]]) /\ l[i[k]] \in LogicalOf(C)
        BY <1>5, <4>1
      <4>3. QED
        BY <2>4, <2>5, <3>2, <4>2, CommandSame
    <3>3. QED
      BY <2>2, <3>1, <3>2
  <2>7. QED
    BY <2>1, <2>6 DEF k
<1>9. Len(r) \in P
  <2>1. Len(r) \in 0..Len(r)
    BY <1>3
  <2> HIDE DEF P
  <2>2. \A k \in 0..Len(r) : k \in P
    BY <1>3, <1>7, <1>8, NumbersUpTo
  <2>3. QED
    BY <2>1, <2>2
<1>10. SameState(first[Len(l)], second[Len(r)])
  BY <1>6, <1>9
<1>11. /\ first[Len(l)].ok = second[Len(r)].ok /\ first[Len(l)].path = second[Len(r)].path
       /\ SameTree(first[Len(l)].tree, second[Len(r)].tree)
  BY <1>10 DEF SameState
<1>12. ParseLines(one) = Parsed(first[Len(l)], one.open)
       /\ ParseLines(two) = Parsed(second[Len(r)], two.open)
  BY <1>1, <1>2 DEF l, r
<1>13. QED
  BY <1>11, <1>12 DEF Parsed

-----------------------------------------------------------------------------
(* The checks see no numbers of lines.                                     *)

LEMMA LooksSame ==
  ASSUME NEW one, NEW two, SameTree(one, two)
  PROVE  /\ \A names : HasSection(one, names) <=> HasSection(two, names)
         /\ \A names : Entries(one, names) = Entries(two, names)
         /\ \A names : EntryNames(one, names) = EntryNames(two, names)
         /\ \A a : Defined(one, a) = Defined(two, a)
         /\ \A path \in DOMAIN one : \A name :
              Values(one, path, name) = Values(two, path, name)
         /\ \A path \in DOMAIN one : \A name : Value(one, path, name) = Value(two, path, name)
<1>1. DOMAIN one = DOMAIN two
  BY DEF SameTree
<1>2. \A names : HasSection(one, names) <=> HasSection(two, names)
  BY <1>1 DEF HasSection
<1>3. \A names : Entries(one, names) = Entries(two, names)
  BY <1>1 DEF Entries
<1>4. \A names : EntryNames(one, names) = EntryNames(two, names)
  BY <1>3 DEF EntryNames
<1>5. \A a : Defined(one, a) = Defined(two, a)
  BY <1>4 DEF Defined
<1>6. ASSUME NEW path \in DOMAIN one, NEW name
      PROVE  Values(one, path, name) = Values(two, path, name)
  <2>1. DOMAIN one[path].attrs = DOMAIN two[path].attrs
        /\ \A n \in DOMAIN one[path].attrs :
             /\ one[path].attrs[n].values = two[path].attrs[n].values
             /\ one[path].attrs[n].unset = two[path].attrs[n].unset
    BY DEF SameTree
  <2>2. CASE name \in DOMAIN one[path].attrs
    BY <2>1, <2>2 DEF Values, Has
  <2>3. CASE name \notin DOMAIN one[path].attrs
    BY <2>1, <2>3 DEF Values, Has
  <2>4. QED
    BY <2>2, <2>3
<1>7. \A path \in DOMAIN one : \A name : Value(one, path, name) = Value(two, path, name)
  BY <1>6 DEF Value
<1>8. QED
  BY <1>2, <1>3, <1>4, <1>5, <1>6, <1>7

LEMMA SameIsSymmetric ==
  ASSUME NEW one, NEW two, SameTree(one, two) PROVE SameTree(two, one)
BY DEF SameTree

LEMMA HitsSame ==
  ASSUME NEW one, NEW two, SameTree(one, two),
         NEW rule \in ScopeGates \cup OtherRules, NEW hit \in Check(rule, one)
  PROVE  \E other \in Check(rule, two) : other.key = hit.key
<1>1. /\ \A names : HasSection(one, names) <=> HasSection(two, names)
      /\ \A names : Entries(one, names) = Entries(two, names)
      /\ \A a : Defined(one, a) = Defined(two, a)
      /\ \A path \in DOMAIN one : \A name : Values(one, path, name) = Values(two, path, name)
      /\ \A path \in DOMAIN one : \A name : Value(one, path, name) = Value(two, path, name)
  BY LooksSame
<1>2. \A names, p : p \in Entries(one, names) => p \in DOMAIN one
  BY DEF Entries
<1>3. \A key, section, line : Hit(key, section, line).key = key
  BY DEF Hit
<1>4. CASE rule = "vdom-unsupported"
  <2>1. HasSection(one, <<Vdom>>) /\ hit = Hit(Vdom, Vdom, one[Section(<<Vdom>>)].line)
    BY <1>4 DEF Check, VdomUnsupported
  <2>2. Hit(Vdom, Vdom, two[Section(<<Vdom>>)].line) \in Check(rule, two)
    BY <1>1, <1>4, <2>1 DEF Check, VdomUnsupported
  <2>3. QED
    BY <1>3, <2>1, <2>2
<1>5. CASE rule = "dangling"
  <2> DEFINE Found(tree, p, a) ==
               {Hit(Joined(<<ObjectKey(p), <<a>>, value>>, "/"), Policy, LineOf(tree, p, <<a>>)) :
                  value \in Range(Values(tree, p, <<a>>))
                              \ (References[a].builtins \cup Defined(tree, a))}
  <2>1. DanglingReference(one)
          = UNION {Found(one, p, a) : p \in Entries(one, <<Policy>>), a \in DOMAIN References}
    BY SMT DEF DanglingReference
  <2>2. DanglingReference(two)
          = UNION {Found(two, p, a) : p \in Entries(two, <<Policy>>), a \in DOMAIN References}
    BY SMT DEF DanglingReference
  <2>3. hit \in DanglingReference(one) /\ Check(rule, two) = DanglingReference(two)
    BY <1>5 DEF Check
  <2> HIDE DEF Found
  <2>4. PICK p \in Entries(one, <<Policy>>), a \in DOMAIN References : hit \in Found(one, p, a)
    BY <2>1, <2>3
  <2>5. PICK value \in Range(Values(one, p, <<a>>))
                         \ (References[a].builtins \cup Defined(one, a)) :
          hit = Hit(Joined(<<ObjectKey(p), <<a>>, value>>, "/"), Policy, LineOf(one, p, <<a>>))
    BY <2>4, Zenon DEF Found
  <2>6. value \in Range(Values(two, p, <<a>>)) \ (References[a].builtins \cup Defined(two, a))
        /\ p \in Entries(two, <<Policy>>)
    BY <1>1, <1>2
  <2> DEFINE other ==
        Hit(Joined(<<ObjectKey(p), <<a>>, value>>, "/"), Policy, LineOf(two, p, <<a>>))
  <2>7. other \in Found(two, p, a)
    BY <2>6, Zenon DEF Found
  <2>8. other.key = hit.key
    BY <2>5 DEF Hit
  <2> HIDE DEF other
  <2>9. QED
    BY <2>2, <2>3, <2>6, <2>7, <2>8
<1>6. CASE rule = "wan-admin-access"
  <2>1. PICK i \in Entries(one, <<Interface>>) :
          /\ hit = Hit(ObjectKey(i), Interface, LineOf(one, i, <<"allowaccess">>))
          /\ Value(one, i, <<"role">>) = <<"wan">>
          /\ Range(Values(one, i, <<"allowaccess">>)) \cap AdminServices # {}
    BY <1>6 DEF Check, AdminAccessOnUntrustedInterface
  <2>2. i \in Entries(two, <<Interface>>) /\ Value(two, i, <<"role">>) = <<"wan">>
        /\ Range(Values(two, i, <<"allowaccess">>)) \cap AdminServices # {}
    BY <1>1, <1>2, <2>1
  <2>3. Hit(ObjectKey(i), Interface, LineOf(two, i, <<"allowaccess">>)) \in Check(rule, two)
    BY <1>6, <2>2 DEF Check, AdminAccessOnUntrustedInterface
  <2>4. QED
    BY <1>3, <2>1, <2>3
<1>7. CASE rule = "utm-without-ssl"
  <2>1. PICK p \in Entries(one, <<Policy>>) :
          /\ hit = Hit(ObjectKey(p), Policy, LineOf(one, p, <<"utm-status">>))
          /\ Value(one, p, <<"utm-status">>) = <<"enable">>
          /\ Value(one, p, <<"ssl-ssh-profile">>) = <<>>
    BY <1>7 DEF Check, UtmWithoutSslProfile
  <2>2. p \in Entries(two, <<Policy>>) /\ Value(two, p, <<"utm-status">>) = <<"enable">>
        /\ Value(two, p, <<"ssl-ssh-profile">>) = <<>>
    BY <1>1, <1>2, <2>1
  <2>3. Hit(ObjectKey(p), Policy, LineOf(two, p, <<"utm-status">>)) \in Check(rule, two)
    BY <1>7, <2>2 DEF Check, UtmWithoutSslProfile
  <2>4. QED
    BY <1>3, <2>1, <2>3
<1>8. CASE rule = "no-syslog-target"
  <2> DEFINE section == Section(<<Syslog>>)
  <2>1. hit.key = Syslog
        /\ \/ ~HasSection(one, <<Syslog>>)
           \/ Value(one, section, <<"status">>) # <<"enable">>
           \/ Value(one, section, <<"server">>) = <<>>
    BY <1>8 DEF Check, NoSyslogTarget, Hit
  <2>2. HasSection(one, <<Syslog>>) => section \in DOMAIN one
    BY DEF HasSection
  <2>3. \/ ~HasSection(two, <<Syslog>>)
        \/ Value(two, section, <<"status">>) # <<"enable">>
        \/ Value(two, section, <<"server">>) = <<>>
    BY <1>1, <2>1, <2>2
  <2>4. \E line : Hit(Syslog, Syslog, line) \in Check(rule, two)
    <3>1. Check(rule, two) = NoSyslogTarget(two)
      BY <1>8 DEF Check
    <3>2. CASE ~HasSection(two, <<Syslog>>)
      BY <3>1, <3>2 DEF NoSyslogTarget
    <3>3. CASE HasSection(two, <<Syslog>>) /\ Value(two, section, <<"status">>) # <<"enable">>
      BY <3>1, <3>3 DEF NoSyslogTarget
    <3>4. CASE HasSection(two, <<Syslog>>) /\ ~(Value(two, section, <<"status">>) # <<"enable">>)
      BY <2>3, <3>1, <3>4 DEF NoSyslogTarget
    <3>5. QED
      BY <3>2, <3>3, <3>4
  <2>5. QED
    BY <1>3, <2>1, <2>4
<1>9. CASE rule = "no-ntp-sync"
  <2> DEFINE section == Section(<<Ntp>>)
             servers == <<Ntp, <<"ntpserver">>>>
             Served(tree) == \E entry \in Entries(tree, servers) :
                               Value(tree, entry, <<"server">>) # <<>>
  <2>1. Served(one) <=> Served(two)
    BY <1>1, <1>2
  <2>2. hit.key = Ntp
        /\ \/ ~HasSection(one, <<Ntp>>)
           \/ Value(one, section, <<"ntpsync">>) # <<"enable">>
           \/ Value(one, section, <<"type">>) = <<"custom">> /\ ~Served(one)
    BY <1>9 DEF Check, NoNtpSync, Hit
  <2>3. HasSection(one, <<Ntp>>) => section \in DOMAIN one
    BY DEF HasSection
  <2>4. \/ ~HasSection(two, <<Ntp>>)
        \/ Value(two, section, <<"ntpsync">>) # <<"enable">>
        \/ Value(two, section, <<"type">>) = <<"custom">> /\ ~Served(two)
    <3> HIDE DEF Served
    <3>1. QED
      BY <1>1, <2>1, <2>2, <2>3
  <2>5. \E line : Hit(Ntp, Ntp, line) \in Check(rule, two)
    <3>1. Check(rule, two) = NoNtpSync(two)
      BY <1>9 DEF Check
    <3>2. CASE ~HasSection(two, <<Ntp>>)
      BY <3>1, <3>2 DEF NoNtpSync
    <3>3. CASE HasSection(two, <<Ntp>>) /\ Value(two, section, <<"ntpsync">>) # <<"enable">>
      BY <3>1, <3>3 DEF NoNtpSync
    <3>4. CASE HasSection(two, <<Ntp>>) /\ ~(Value(two, section, <<"ntpsync">>) # <<"enable">>)
      BY <2>4, <3>1, <3>4 DEF NoNtpSync
    <3>5. QED
      BY <3>2, <3>3, <3>4
  <2>6. QED
    BY <1>3, <2>2, <2>5
<1>10. QED
  BY <1>4, <1>5, <1>6, <1>7, <1>8, <1>9 DEF ScopeGates, OtherRules

LEMMA FoundSame ==
  ASSUME NEW one, NEW two, SameTree(one, two),
         NEW rules \in SUBSET (ScopeGates \cup OtherRules), NEW f \in Collect(one, rules)
  PROVE  \E g \in Collect(two, rules) : Fingerprint(g) = Fingerprint(f)
<1>1. PICK rule \in rules : \E hit \in Check(rule, one) :
        f = [rule |-> rule, key |-> hit.key, section |-> hit.section, line |-> hit.line]
  BY DEF Collect
<1>2. PICK hit \in Check(rule, one) :
        f = [rule |-> rule, key |-> hit.key, section |-> hit.section, line |-> hit.line]
  BY <1>1
<1>3. PICK other \in Check(rule, two) : other.key = hit.key
  BY HitsSame
<1> DEFINE g == [rule |-> rule, key |-> other.key, section |-> other.section,
                 line |-> other.line]
<1>4. g \in Collect(two, rules)
  <2> DEFINE Of(r) == {[rule |-> r, key |-> h.key, section |-> h.section, line |-> h.line] :
                         h \in Check(r, two)}
  <2>1. Collect(two, rules) = UNION {Of(r) : r \in rules}
    BY DEF Collect
  <2>2. g \in Of(rule)
    OBVIOUS
  <2> HIDE DEF Of, g
  <2>3. QED
    BY <2>1, <2>2
<1>5. Fingerprint(g) = Fingerprint(f)
  BY <1>2, <1>3 DEF Fingerprint
<1>6. QED
  BY <1>4, <1>5

LEMMA FingerprintsSame ==
  ASSUME NEW one, NEW two, SameTree(one, two)
  PROVE  {Fingerprint(f) : f \in RunRules(one)} = {Fingerprint(f) : f \in RunRules(two)}
<1>1. ScopeGates \in SUBSET (ScopeGates \cup OtherRules)
      /\ OtherRules \in SUBSET (ScopeGates \cup OtherRules)
  OBVIOUS
<1>2. SameTree(two, one)
  BY SameIsSymmetric
<1>3. Collect(one, ScopeGates) = {} <=> Collect(two, ScopeGates) = {}
  BY <1>1, <1>2, FoundSame
<1>4. ASSUME NEW a, NEW b, SameTree(a, b),
             Collect(a, ScopeGates) = {} <=> Collect(b, ScopeGates) = {},
             NEW f \in RunRules(a)
      PROVE  \E g \in RunRules(b) : Fingerprint(g) = Fingerprint(f)
  <2>1. CASE Collect(a, ScopeGates) # {}
    <3>1. f \in Collect(a, ScopeGates) /\ RunRules(b) = Collect(b, ScopeGates)
      BY <1>4, <2>1 DEF RunRules, Unless
    <3>2. QED
      BY <1>1, <1>4, <3>1, FoundSame
  <2>2. CASE Collect(a, ScopeGates) = {}
    <3>1. f \in Collect(a, OtherRules) /\ RunRules(b) = Collect(b, OtherRules)
      BY <1>4, <2>2 DEF RunRules, Unless
    <3>2. QED
      BY <1>1, <1>4, <3>1, FoundSame
  <2>3. QED
    BY <2>1, <2>2
<1>5. \A f \in RunRules(one) : \E g \in RunRules(two) : Fingerprint(g) = Fingerprint(f)
  BY <1>3, <1>4
<1>6. \A f \in RunRules(two) : \E g \in RunRules(one) : Fingerprint(g) = Fingerprint(f)
  BY <1>2, <1>3, <1>4
<1>7. QED
  BY <1>5, <1>6

-----------------------------------------------------------------------------
(* Blanks before a line, and lines between.                                *)

Blanks == Seq({Blank})

LEMMA PadIs ==
  ASSUME NEW C, Blank \in C, NEW pad \in Blanks, NEW raw \in Seq(C)
  PROVE  /\ Len(pad) \in Nat /\ Len(raw) \in Nat
         /\ pad \o raw \in Seq(C) /\ Len(pad \o raw) = Len(pad) + Len(raw)
         /\ \A i \in 1..Len(pad) : (pad \o raw)[i] = Blank
         /\ \A i \in 1..Len(raw) : (pad \o raw)[Len(pad) + i] = raw[i]
<1>1. pad \in Seq({Blank})
  BY DEF Blanks
<1>2. pad \in Seq(C) /\ Len(pad) \in Nat /\ \A i \in 1..Len(pad) : pad[i] = Blank
  <2>1. Len(pad) \in Nat /\ \A i \in 1..Len(pad) : pad[i] = Blank
    BY <1>1
  <2>2. {Blank} \subseteq C
    OBVIOUS
  <2>3. QED
    BY <1>1, <2>1, <2>2, SeqMonotonic
<1>3. QED
  BY <1>2, ConcatProperties

\* Before a line, blanks change no quotes, no tokens and no comment.
LEMMA PadQuotes ==
  ASSUME NEW C, Blank \in C, NEW pad \in Blanks, NEW raw \in Seq(C)
  PROVE  IsOpen(pad \o raw) = IsOpen(raw)
<1> DEFINE p == Len(pad)
           long == pad \o raw
           f == [i \in Quotes(raw) |-> p + i]
<1>1. p \in Nat /\ Len(raw) \in Nat /\ Len(long) = p + Len(raw) /\ long \in Seq(C)
      /\ (\A i \in 1..p : long[i] = Blank) /\ (\A i \in 1..Len(raw) : long[p + i] = raw[i])
  BY PadIs
<1>2. DOMAIN long = 1..(p + Len(raw)) /\ DOMAIN raw = 1..Len(raw)
  BY <1>1
<1>3. Blank # Quote /\ Blank # Backslash
  BY DEF Blank, Quote, Backslash
<1> HIDE DEF p, long
<1>4. ASSUME NEW i \in 1..Len(raw) PROVE i \in Quotes(raw) <=> p + i \in Quotes(long)
  <2>1. p + i \in DOMAIN long /\ long[p + i] = raw[i] /\ i \in DOMAIN raw
    BY <1>1, <1>2
  <2>2. CASE i = 1
    <3>1. p + i > 1 => long[(p + i) - 1] # Backslash
      <4>1. SUFFICES ASSUME p + i > 1 PROVE long[(p + i) - 1] # Backslash
        OBVIOUS
      <4>2. (p + i) - 1 \in 1..p
        BY <1>1, <2>2, <4>1
      <4>3. QED
        BY <1>1, <1>3, <4>2
    <3>2. QED
      BY <2>1, <2>2, <3>1 DEF Quotes
  <2>3. CASE i # 1
    <3>1. i - 1 \in 1..Len(raw) /\ (p + i) - 1 = p + (i - 1) /\ i > 1 /\ p + i > 1
      BY <1>1, <2>3
    <3>2. long[(p + i) - 1] = raw[i - 1]
      BY <1>1, <3>1
    <3>3. QED
      BY <2>1, <3>1, <3>2 DEF Quotes
  <2>4. QED
    BY <2>2, <2>3
<1>5. Quotes(raw) \subseteq 1..Len(raw) /\ Quotes(long) \subseteq 1..(p + Len(raw))
  BY <1>2 DEF Quotes
<1>6. ASSUME NEW q \in Quotes(long) PROVE q - p \in 1..Len(raw) /\ p + (q - p) = q
  <2>1. long[q] = Quote /\ q \in 1..(p + Len(raw))
    BY <1>5 DEF Quotes
  <2>2. q \notin 1..p
    BY <1>1, <1>3, <2>1
  <2>3. QED
    BY <1>1, <2>1, <2>2
<1>7. f \in Bijection(Quotes(raw), Quotes(long))
  <2>1. \A i \in Quotes(raw) : f[i] = p + i /\ f[i] \in Quotes(long)
    BY <1>4, <1>5
  <2>2. f \in [Quotes(raw) -> Quotes(long)]
    BY <2>1
  <2>3. ASSUME NEW i \in Quotes(raw), NEW k \in Quotes(raw), f[i] = f[k] PROVE i = k
    <3>1. p + i = p + k /\ i \in Nat /\ k \in Nat
      BY <1>5, <2>1, <2>3
    <3>2. QED
      BY <1>1, <3>1
  <2>4. \A q \in Quotes(long) : \E i \in Quotes(raw) : f[i] = q
    BY <1>4, <1>6, <2>1
  <2> HIDE DEF f
  <2>5. QED
    BY <2>2, <2>3, <2>4, Fun_IsBij
<1>8. IsFiniteSet(Quotes(raw))
  <2>1. IsFiniteSet(1..Len(raw))
    <3>1. 1 \in Int /\ Len(raw) \in Int
      BY <1>1
    <3>2. QED
      BY <3>1, FS_Interval
  <2>2. QED
    BY <1>5, <2>1, FS_Subset
<1>9. Cardinality(Quotes(raw)) = Cardinality(Quotes(long))
  <2> HIDE DEF f
  <2>1. QED
    BY <1>7, <1>8, FS_Bijection DEF ExistsBijection
<1>10. QED
  BY <1>9 DEF IsOpen, long

\* Before a line, blanks make or unmake no comment.
LEMMA PadComment ==
  ASSUME NEW C, Blank \in C, NEW pad \in Blanks, NEW raw \in Seq(C)
  PROVE  IsComment(pad \o raw) <=> IsComment(raw)
<1> DEFINE p == Len(pad)
           long == pad \o raw
<1>1. p \in Nat /\ Len(raw) \in Nat /\ Len(long) = p + Len(raw) /\ long \in Seq(C)
      /\ (\A i \in 1..p : long[i] = Blank) /\ (\A i \in 1..Len(raw) : long[p + i] = raw[i])
  BY PadIs
<1>2. DOMAIN long = 1..(p + Len(raw)) /\ DOMAIN raw = 1..Len(raw)
  BY <1>1
<1>3. Blank # Comment
  BY DEF Blank, Comment
<1>4. IsComment(long) <=> \E i \in DOMAIN long : long[i] = Comment
                                     /\ \A j \in 1..(i - 1) : long[j] = Blank
  BY DEF IsComment
<1> HIDE DEF p, long
<1>5. ASSUME NEW i \in DOMAIN raw, raw[i] = Comment, \A j \in 1..(i - 1) : raw[j] = Blank
      PROVE  IsComment(long)
  <2>1. p + i \in DOMAIN long /\ long[p + i] = Comment
    BY <1>1, <1>2, <1>5
  <2>2. ASSUME NEW j \in 1..((p + i) - 1) PROVE long[j] = Blank
    <3>1. CASE j <= p
      <4>1. j \in 1..p
        BY <1>1, <3>1
      <4>2. QED
        BY <1>1, <4>1
    <3>2. CASE ~(j <= p)
      <4>1. j - p \in 1..(i - 1) /\ j - p \in 1..Len(raw) /\ p + (j - p) = j
        BY <1>1, <1>2, <3>2
      <4>2. raw[j - p] = Blank
        BY <1>5, <4>1
      <4>3. QED
        BY <1>1, <4>1, <4>2
    <3>3. QED
      BY <3>1, <3>2
  <2>3. QED
    BY <1>4, <2>1, <2>2
<1>6. ASSUME NEW i \in DOMAIN long, long[i] = Comment, \A j \in 1..(i - 1) : long[j] = Blank
      PROVE  IsComment(raw)
  <2>1. i - p \in DOMAIN raw /\ p + (i - p) = i
    BY <1>1, <1>2, <1>3, <1>6
  <2>2. raw[i - p] = Comment
    BY <1>1, <1>2, <1>6, <2>1
  <2>3. ASSUME NEW j \in 1..((i - p) - 1) PROVE raw[j] = Blank
    <3>1. p + j \in 1..(i - 1) /\ j \in 1..Len(raw)
      BY <1>1, <1>2, <2>1
    <3>2. QED
      BY <1>1, <1>6, <3>1
  <2>4. QED
    BY <2>1, <2>2, <2>3 DEF IsComment
<1>7. IsComment(raw) => IsComment(long)
  BY <1>5 DEF IsComment
<1>8. IsComment(long) => IsComment(raw)
  BY <1>4, <1>6
<1>9. QED
  BY <1>7, <1>8 DEF long

\* Before a line, blanks change no token.
LEMMA PadTokens ==
  ASSUME NEW C, Blank \in C, NEW pad \in Blanks, NEW raw \in Seq(C)
  PROVE  Tokenize(pad \o raw) = Tokenize(raw)
<1> DEFINE p == Len(pad)
           long == pad \o raw
<1>1. p \in Nat /\ Len(raw) \in Nat /\ Len(long) = p + Len(raw) /\ long \in Seq(C)
      /\ (\A i \in 1..p : long[i] = Blank) /\ (\A i \in 1..Len(raw) : long[p + i] = raw[i])
  BY PadIs
<1> HIDE DEF p, long
<1>2. PICK short \in StatesOf(CharReads(C), raw) :
         /\ short[0] = NoCharacter
         /\ \A n \in 1..Len(raw) : short[n] = ReadCharacter(short[n - 1], raw[n])
         /\ Tokenize(raw) = Tokens(short[Len(raw)])
  BY CharactersRead
<1>3. PICK after \in StatesOf(CharReads(C), long) :
         /\ after[0] = NoCharacter
         /\ \A n \in 1..Len(long) : after[n] = ReadCharacter(after[n - 1], long[n])
         /\ Tokenize(long) = Tokens(after[Len(long)])
  BY <1>1, CharactersRead
<1>4. ReadCharacter(NoCharacter, Blank) = NoCharacter
  BY DEF ReadCharacter, NoCharacter, Blank, Quote, Backslash
<1>5. after[p] = NoCharacter
  <2> DEFINE P == {n \in 0..p : after[n] = NoCharacter}
  <2>1. 0 \in P
    BY <1>1, <1>3
  <2>2. ASSUME NEW n \in 0..(p - 1), n \in P PROVE n + 1 \in P
    <3>1. n + 1 \in 1..Len(long) /\ n + 1 \in 1..p /\ (n + 1) - 1 = n
      BY <1>1
    <3>2. after[n + 1] = ReadCharacter(after[n], long[n + 1]) /\ long[n + 1] = Blank
      BY <1>1, <1>3, <3>1
    <3>3. after[n + 1] = NoCharacter
      BY <1>4, <2>2, <3>2
    <3>4. QED
      BY <3>1, <3>3
  <2>3. p \in 0..p
    BY <1>1
  <2> HIDE DEF P
  <2>4. \A n \in 0..p : n \in P
    BY <1>1, <2>1, <2>2, NumbersUpTo
  <2>5. QED
    BY <2>3, <2>4 DEF P
<1>6. after[p + Len(raw)] = short[Len(raw)]
  <2> DEFINE P == {n \in 0..Len(raw) : after[p + n] = short[n]}
  <2>1. 0 \in P
    BY <1>1, <1>2, <1>5
  <2>2. ASSUME NEW n \in 0..(Len(raw) - 1), n \in P PROVE n + 1 \in P
    <3>1. n + 1 \in 1..Len(raw) /\ p + (n + 1) \in 1..Len(long)
          /\ (n + 1) - 1 = n /\ (p + (n + 1)) - 1 = p + n /\ n + 1 \in 0..Len(raw)
      BY <1>1
    <3>2. after[p + (n + 1)] = ReadCharacter(after[p + n], raw[n + 1])
          /\ short[n + 1] = ReadCharacter(short[n], raw[n + 1])
      BY <1>1, <1>2, <1>3, <3>1
    <3>3. after[p + (n + 1)] = short[n + 1]
      BY <2>2, <3>2
    <3>4. QED
      BY <3>1, <3>3
  <2>3. Len(raw) \in 0..Len(raw)
    BY <1>1
  <2> HIDE DEF P
  <2>4. \A n \in 0..Len(raw) : n \in P
    BY <1>1, <2>1, <2>2, NumbersUpTo
  <2>5. QED
    BY <2>3, <2>4 DEF P
<1>7. QED
  BY <1>1, <1>2, <1>3, <1>6 DEF long

LEMMA PadSame ==
  ASSUME NEW C, Blank \in C, NEW pad \in Blanks, NEW raw \in Seq(C)
  PROVE  SaySame(raw, pad \o raw)
BY PadTokens, PadComment DEF SaySame, IsIdle

\* What the first lines of a text are read as.
LEMMA PrefixRead ==
  ASSUME NEW C, Break \in C, NEW text \in Seq(Seq(C)),
         NEW after \in StatesOf(LineReads(C), text), after[0] = NoLine,
         \A n \in 1..Len(text) : after[n] = ReadLine(after[n - 1], text[n]),
         NEW m \in 0..Len(text)
  PROVE  LogicalLines(SubSeq(text, 1, m)) = after[m]
<1> DEFINE part == SubSeq(text, 1, m)
<1>1. part \in Seq(Seq(C)) /\ Len(part) = m /\ (\A n \in 1..m : part[n] = text[n])
      /\ m \in Nat /\ Len(text) \in Nat
  <2>1. text \in Seq(Seq(C)) /\ Len(text) \in Nat /\ m \in Nat /\ m <= Len(text)
    OBVIOUS
  <2>2. 1 \in 1..(Len(text) + 1) /\ m \in (1 - 1)..Len(text)
    BY <2>1
  <2>3. part \in Seq(Seq(C)) /\ Len(part) = m /\ \A n \in 1..m : part[n] = text[n]
    BY <2>1, <2>2, SubSeqProperties
  <2>4. QED
    BY <2>1, <2>3
<1> HIDE DEF part
<1>2. PICK v \in StatesOf(LineReads(C), part) :
         /\ v[0] = NoLine
         /\ \A n \in 1..Len(part) : v[n] = ReadLine(v[n - 1], part[n])
         /\ LogicalLines(part) = v[Len(part)]
  BY <1>1, LinesRead
<1> DEFINE P == {n \in 0..m : v[n] = after[n]}
<1>3. 0 \in P
  BY <1>1, <1>2
<1>4. ASSUME NEW n \in 0..(m - 1), n \in P PROVE n + 1 \in P
  <2>1. n + 1 \in 1..m /\ n + 1 \in 1..Len(text) /\ (n + 1) - 1 = n /\ n + 1 \in 0..m
    BY <1>1
  <2>2. v[n + 1] = ReadLine(v[n], text[n + 1]) /\ after[n + 1] = ReadLine(after[n], text[n + 1])
    BY <1>1, <1>2, <2>1
  <2>3. v[n + 1] = after[n + 1]
    BY <1>4, <2>2
  <2>4. QED
    BY <2>1, <2>3
<1>5. m \in P
  <2>1. m \in 0..m
    BY <1>1
  <2> HIDE DEF P
  <2>2. \A n \in 0..m : n \in P
    BY <1>1, <1>3, <1>4, NumbersUpTo
  <2>3. QED
    BY <2>1, <2>2
<1>6. QED
  BY <1>1, <1>2, <1>5 DEF part

LEMMA SayMore ==
  ASSUME NEW R, NEW one \in Seq(R), NEW two \in Seq(R), SaysTheSame(one, two),
         NEW x \in R, NEW y \in R, SaySame(x.raw, y.raw)
  PROVE  SaysTheSame(Append(one, x), Append(two, y))
<1> DEFINE l == Len(one)
           r == Len(two)
           l2 == Append(one, x)
           r2 == Append(two, y)
<1>1. PICK i \in [0..r -> 0..l] :
         /\ i[0] = 0 /\ i[r] = l
         /\ \A k \in 1..r :
              \/ i[k] = i[k - 1] /\ IsIdle(two[k].raw)
              \/ i[k] = i[k - 1] + 1 /\ SaySame(one[i[k]].raw, two[k].raw)
  BY DEF SaysTheSame
<1>2. /\ l \in Nat /\ r \in Nat /\ Len(l2) = l + 1 /\ Len(r2) = r + 1
      /\ (\A k \in 1..l : l2[k] = one[k]) /\ l2[l + 1] = x
      /\ (\A k \in 1..r : r2[k] = two[k]) /\ r2[r + 1] = y
  OBVIOUS
<1> HIDE DEF l, r, l2, r2
<1> DEFINE j == [k \in 0..(r + 1) |-> IF k = r + 1 THEN l + 1 ELSE i[k]]
<1>3. j \in [0..(r + 1) -> 0..(l + 1)] /\ j[r + 1] = l + 1 /\ \A k \in 0..r : j[k] = i[k]
  <2>1. ASSUME NEW k \in 0..(r + 1) PROVE j[k] \in 0..(l + 1)
    <3>1. CASE k = r + 1
      BY <1>2, <3>1
    <3>2. CASE k # r + 1
      <4>1. k \in 0..r /\ j[k] = i[k]
        BY <1>2, <3>2
      <4>2. i[k] \in 0..l
        BY <1>1, <4>1
      <4>3. QED
        BY <1>2, <4>1, <4>2
    <3>3. QED
      BY <3>1, <3>2
  <2>2. r + 1 \in 0..(r + 1) /\ \A k \in 0..r : k \in 0..(r + 1) /\ k # r + 1
    BY <1>2
  <2>3. QED
    BY <2>1, <2>2
<1> HIDE DEF j
<1>4. j[0] = 0
  BY <1>1, <1>2, <1>3
<1>5. ASSUME NEW k \in 1..(r + 1)
      PROVE  \/ j[k] = j[k - 1] /\ IsIdle(r2[k].raw)
             \/ j[k] = j[k - 1] + 1 /\ SaySame(l2[j[k]].raw, r2[k].raw)
  <2>1. CASE k = r + 1
    <3>1. k - 1 = r /\ r \in 0..r
      BY <1>2, <2>1
    <3>2. j[k] = l + 1 /\ j[k - 1] = l
      BY <1>1, <1>3, <2>1, <3>1
    <3>3. QED
      BY <1>2, <2>1, <3>2
  <2>2. CASE k # r + 1
    <3>1. k \in 1..r /\ k \in 0..r /\ k - 1 \in 0..r
      BY <1>2, <2>2
    <3>2. j[k] = i[k] /\ j[k - 1] = i[k - 1] /\ r2[k] = two[k]
      BY <1>2, <1>3, <3>1
    <3>3. CASE i[k] = i[k - 1] /\ IsIdle(two[k].raw)
      BY <3>2, <3>3
    <3>4. CASE i[k] = i[k - 1] + 1 /\ SaySame(one[i[k]].raw, two[k].raw)
      <4>1. PICK a \in 0..l, b \in 0..l : a = i[k - 1] /\ b = i[k]
        BY <1>1, <3>1
      <4>2. b \in 1..l
        BY <1>2, <3>4, <4>1
      <4>3. l2[j[k]] = one[i[k]]
        BY <1>2, <3>2, <4>1, <4>2
      <4>4. QED
        BY <3>2, <3>4, <4>3
    <3>5. QED
      BY <1>1, <3>1, <3>3, <3>4
  <2>3. QED
    BY <2>1, <2>2
<1>6. SaysTheSame(l2, r2)
  BY <1>2, <1>3, <1>4, <1>5 DEF SaysTheSame
<1>7. QED
  BY <1>6 DEF l2, r2

LEMMA SayIdle ==
  ASSUME NEW R, NEW one \in Seq(R), NEW two \in Seq(R), SaysTheSame(one, two),
         NEW y \in R, IsIdle(y.raw)
  PROVE  SaysTheSame(one, Append(two, y))
<1> DEFINE l == Len(one)
           r == Len(two)
           r2 == Append(two, y)
<1>1. PICK i \in [0..r -> 0..l] :
         /\ i[0] = 0 /\ i[r] = l
         /\ \A k \in 1..r :
              \/ i[k] = i[k - 1] /\ IsIdle(two[k].raw)
              \/ i[k] = i[k - 1] + 1 /\ SaySame(one[i[k]].raw, two[k].raw)
  BY DEF SaysTheSame
<1>2. /\ l \in Nat /\ r \in Nat /\ Len(r2) = r + 1
      /\ (\A k \in 1..r : r2[k] = two[k]) /\ r2[r + 1] = y
  OBVIOUS
<1> HIDE DEF r, r2
<1> DEFINE j == [k \in 0..(r + 1) |-> IF k = r + 1 THEN l ELSE i[k]]
<1>3. j \in [0..(r + 1) -> 0..l] /\ j[r + 1] = l /\ \A k \in 0..r : j[k] = i[k]
  <2>1. r + 1 \in 0..(r + 1) /\ (\A k \in 0..r : k \in 0..(r + 1) /\ k # r + 1) /\ l \in 0..l
        /\ \A k \in 0..(r + 1) : k # r + 1 => k \in 0..r
    BY <1>2
  <2> HIDE DEF l
  <2>2. \A k \in 0..(r + 1) : j[k] \in 0..l
    BY <1>1, <2>1
  <2>3. QED
    BY <2>1, <2>2
<1> HIDE DEF j, l
<1>4. j[0] = 0
  BY <1>1, <1>2, <1>3
<1>5. ASSUME NEW k \in 1..(r + 1)
      PROVE  \/ j[k] = j[k - 1] /\ IsIdle(r2[k].raw)
             \/ j[k] = j[k - 1] + 1 /\ SaySame(one[j[k]].raw, r2[k].raw)
  <2>1. CASE k = r + 1
    <3>1. k - 1 = r /\ r \in 0..r
      BY <1>2, <2>1
    <3>2. j[k] = l /\ j[k - 1] = l
      BY <1>1, <1>3, <2>1, <3>1
    <3>3. QED
      BY <1>2, <2>1, <3>2
  <2>2. CASE k # r + 1
    <3>1. k \in 1..r /\ k \in 0..r /\ k - 1 \in 0..r
      BY <1>2, <2>2
    <3>2. j[k] = i[k] /\ j[k - 1] = i[k - 1] /\ r2[k] = two[k]
      BY <1>2, <1>3, <3>1
    <3>3. QED
      BY <1>1, <3>1, <3>2
  <2>3. QED
    BY <2>1, <2>2
<1>6. SaysTheSame(one, r2)
  BY <1>2, <1>3, <1>4, <1>5 DEF SaysTheSame, l
<1>7. QED
  BY <1>6 DEF r2

\* A text written otherwise: outside the quotes, lines that hold no command are put
\* between the lines of the first text, and blanks before them.  k lines of the
\* second are what i[k] lines of the first became.
WrittenOtherwise(one, two) ==
  \E i \in [0..Len(two) -> 0..Len(one)] :
    /\ i[0] = 0 /\ i[Len(two)] = Len(one)
    /\ \A k \in 1..Len(two) :
         \/ /\ i[k] = i[k - 1] /\ LogicalLines(SubSeq(one, 1, i[k - 1])).open = 0
            /\ IsIdle(two[k]) /\ ~IsOpen(two[k])
         \/ i[k] = i[k - 1] + 1 /\ two[k] = one[i[k]]
         \/ /\ i[k] = i[k - 1] + 1 /\ LogicalLines(SubSeq(one, 1, i[k - 1])).open = 0
            /\ \E pad \in Blanks : two[k] = pad \o one[i[k]]

\* The two have been read to the same place.
ReadAlike(x, y) ==
  /\ x.open = 0 <=> y.open = 0
  /\ SaysTheSame(x.lines, y.lines)
  /\ x.open # 0 => \E pad \in Blanks : y.buffer = pad \o x.buffer

LEMMA BufferedAlike ==
  ASSUME NEW C, Blank \in C, NEW x \in LineReads(C), NEW y \in LineReads(C),
         SaysTheSame(x.lines, y.lines), NEW m \in Nat \ {0}, NEW n \in Nat \ {0},
         NEW raw \in Seq(C), NEW pad \in Blanks
  PROVE  ReadAlike(Buffered(x, m, raw), Buffered(y, n, pad \o raw))
<1> DEFINE other == pad \o raw
           first == Buffered(x, m, raw)
           second == Buffered(y, n, other)
<1>1. other \in Seq(C) /\ IsOpen(other) = IsOpen(raw) /\ SaySame(raw, other)
  BY PadIs, PadQuotes, PadSame
<1>2. x.lines \in Seq(LogicalOf(C)) /\ y.lines \in Seq(LogicalOf(C))
  BY DEF LineReads
<1>3. CASE IsOpen(raw)
  <2>1. first = [x EXCEPT !.number = @ + 1, !.open = m, !.buffer = raw]
        /\ second = [y EXCEPT !.number = @ + 1, !.open = n, !.buffer = other]
    <3> HIDE DEF other
    <3>1. QED
      BY <1>1, <1>3 DEF Buffered, IsOpen
  <2>2. first.open = m /\ first.buffer = raw /\ first.lines = x.lines
        /\ second.open = n /\ second.buffer = other /\ second.lines = y.lines
    <3> HIDE DEF other, first, second
    <3>1. QED
      BY <2>1 DEF LineReads
  <2> HIDE DEF first, second
  <2>3. QED
    BY <2>2 DEF ReadAlike, first, second
<1>4. CASE ~IsOpen(raw)
  <2> DEFINE a == [number |-> m, raw |-> raw]
             b == [number |-> n, raw |-> other]
  <2>1. first = [number |-> x.number + 1, open |-> 0, buffer |-> <<>>, lines |-> Append(x.lines, a)]
        /\ second
             = [number |-> y.number + 1, open |-> 0, buffer |-> <<>>, lines |-> Append(y.lines, b)]
    <3> HIDE DEF other
    <3>1. QED
      BY <1>1, <1>4 DEF Buffered, IsOpen
  <2>2. a \in LogicalOf(C) /\ b \in LogicalOf(C) /\ a.raw = raw /\ b.raw = other
    BY <1>1 DEF LogicalOf
  <2> HIDE DEF a, b, other, first, second
  <2>3. SaysTheSame(Append(x.lines, a), Append(y.lines, b))
    BY <1>1, <1>2, <2>2, SayMore
  <2>4. first.open = 0 /\ second.open = 0 /\ first.lines = Append(x.lines, a)
        /\ second.lines = Append(y.lines, b)
    BY <2>1
  <2>5. QED
    BY <2>3, <2>4 DEF ReadAlike, first, second, other
<1>5. QED
  BY <1>3, <1>4

LEMMA Regroup ==
  ASSUME NEW C, NEW s \in Seq(C), NEW t \in Seq(C), NEW u \in Seq(C)
  PROVE  (s \o t) \o u = s \o (t \o u)
BY ConcatAssociative

LEMMA LineAlike ==
  ASSUME NEW C, {Blank, Break} \subseteq C, NEW x \in LineReads(C), NEW y \in LineReads(C),
         ReadAlike(x, y), NEW line \in Seq(C), NEW pad \in Blanks,
         pad = <<>> \/ x.open = 0
  PROVE  ReadAlike(ReadLine(x, line), ReadLine(y, pad \o line))
<1>1. (x.open = 0 <=> y.open = 0) /\ SaysTheSame(x.lines, y.lines)
  BY DEF ReadAlike
<1>2. x.number + 1 \in Nat \ {0} /\ y.number + 1 \in Nat \ {0} /\ x.open \in Nat /\ y.open \in Nat
      /\ x.buffer \in Seq(C) /\ y.buffer \in Seq(C)
  BY DEF LineReads
<1>3. CASE x.open = 0
  <2>1. ReadLine(x, line) = Buffered(x, x.number + 1, line)
        /\ ReadLine(y, pad \o line) = Buffered(y, y.number + 1, pad \o line)
    BY <1>1, <1>3 DEF ReadLine
  <2>2. ReadAlike(Buffered(x, x.number + 1, line), Buffered(y, y.number + 1, pad \o line))
    BY <1>1, <1>2, BufferedAlike
  <2>3. QED
    BY <2>1, <2>2
<1>4. CASE x.open # 0
  <2>1. PICK before \in Blanks : y.buffer = before \o x.buffer
    BY <1>4 DEF ReadAlike
  <2> DEFINE rest == <<Break>> \o line
             raw  == x.buffer \o rest
  <2>2. rest \in Seq(C) /\ raw \in Seq(C) /\ pad \o line = line
    <3>1. <<Break>> \in Seq(C)
      OBVIOUS
    <3>2. rest \in Seq(C)
      BY <3>1, ConcatProperties
    <3>3. raw \in Seq(C)
      BY <1>2, <3>2, ConcatProperties
    <3>4. pad \o line = line
      BY <1>4, ConcatEmptySeq
    <3>5. QED
      BY <3>2, <3>3, <3>4
  <2>3. x.buffer \o <<Break>> \o line = raw /\ y.buffer \o <<Break>> \o line = y.buffer \o rest
    <3>1. <<Break>> \in Seq(C)
      OBVIOUS
    <3>2. PICK b \in Seq(C), s \in Seq(C), t \in Seq(C) :
             b = <<Break>> /\ s = x.buffer /\ t = y.buffer
      BY <1>2, <3>1
    <3>3. (s \o b) \o line = s \o (b \o line)
      BY Regroup
    <3>4. (t \o b) \o line = t \o (b \o line)
      BY Regroup
    <3>5. QED
      BY <3>2, <3>3, <3>4
  <2>4. y.buffer \o rest = before \o raw
    <3>1. before \in Seq(C)
      <4>1. before \in Seq({Blank}) /\ {Blank} \subseteq C
        BY DEF Blanks
      <4>2. QED
        BY <4>1, SeqMonotonic
    <3> HIDE DEF rest
    <3>2. PICK b \in Seq(C), s \in Seq(C), t \in Seq(C) :
             b = before /\ s = x.buffer /\ t = rest
      BY <1>2, <2>2, <3>1
    <3>3. (b \o s) \o t = b \o (s \o t)
      BY Regroup
    <3>4. QED
      BY <2>1, <3>2, <3>3
  <2>5. ReadLine(x, line) = Buffered(x, x.open, raw)
        /\ ReadLine(y, pad \o line) = Buffered(y, y.open, before \o raw)
    <3> HIDE DEF rest, raw
    <3>1. QED
      BY <1>1, <1>4, <2>2, <2>3, <2>4 DEF ReadLine
  <2>6. x.open \in Nat \ {0} /\ y.open \in Nat \ {0}
    BY <1>1, <1>2, <1>4
  <2> HIDE DEF raw
  <2>7. ReadAlike(Buffered(x, x.open, raw), Buffered(y, y.open, before \o raw))
    BY <1>1, <2>2, <2>6, BufferedAlike
  <2>8. QED
    BY <2>5, <2>7
<1>5. QED
  BY <1>3, <1>4

LEMMA IdleAlike ==
  ASSUME NEW C, NEW x \in LineReads(C), NEW y \in LineReads(C),
         ReadAlike(x, y), x.open = 0, NEW line \in Seq(C), IsIdle(line), ~IsOpen(line)
  PROVE  ReadAlike(x, ReadLine(y, line))
<1> DEFINE b == [number |-> y.number + 1, raw |-> line]
           second == ReadLine(y, line)
<1>1. y.open = 0 /\ SaysTheSame(x.lines, y.lines)
  BY DEF ReadAlike
<1>2. x.lines \in Seq(LogicalOf(C)) /\ y.lines \in Seq(LogicalOf(C)) /\ y.number + 1 \in Nat \ {0}
  BY DEF LineReads
<1>3. b \in LogicalOf(C) /\ b.raw = line
  BY <1>2 DEF LogicalOf
<1>4. second = Buffered(y, y.number + 1, line)
  BY <1>1 DEF ReadLine
<1>5. second = [number |-> y.number + 1, open |-> 0, buffer |-> <<>>, lines |-> Append(y.lines, b)]
  BY <1>4 DEF Buffered, IsOpen
<1> HIDE DEF b, second
<1>6. SaysTheSame(x.lines, Append(y.lines, b))
  BY <1>1, <1>2, <1>3, SayIdle
<1>7. second.open = 0 /\ second.lines = Append(y.lines, b)
  BY <1>5
<1>8. QED
  BY <1>6, <1>7 DEF ReadAlike, second

\* Whatever blanks and idle lines a text is written with, outside its quotes, it is
\* as readable and its findings have the same fingerprints: a device that is
\* reformatted has no finding more or less.  (l1_fortios.parse, rules.fortios)
THEOREM LayoutDoesNotMatter ==
  ASSUME NEW C, {Blank, Break} \subseteq C, NEW one \in Seq(Seq(C)), NEW two \in Seq(Seq(C)),
         WrittenOtherwise(one, two)
  PROVE  Readable(one) = Readable(two) /\ FingerprintsOf(one) = FingerprintsOf(two)
<1>1. PICK first \in StatesOf(LineReads(C), one) :
         /\ first[0] = NoLine
         /\ \A n \in 1..Len(one) : first[n] = ReadLine(first[n - 1], one[n])
         /\ LogicalLines(one) = first[Len(one)]
  BY LinesRead
<1>2. PICK second \in StatesOf(LineReads(C), two) :
         /\ second[0] = NoLine
         /\ \A n \in 1..Len(two) : second[n] = ReadLine(second[n - 1], two[n])
         /\ LogicalLines(two) = second[Len(two)]
  BY LinesRead
<1> DEFINE l == Len(one)
           r == Len(two)
<1>3. l \in Nat /\ r \in Nat /\ (\A n \in 1..l : one[n] \in Seq(C))
      /\ (\A n \in 1..r : two[n] \in Seq(C))
  OBVIOUS
<1>4. (\A n \in 0..l : first[n] \in LineReads(C)) /\ (\A n \in 0..r : second[n] \in LineReads(C))
  BY DEF StatesOf
<1>5. \A n \in 0..l : LogicalLines(SubSeq(one, 1, n)) = first[n]
  BY <1>1, PrefixRead
<1>6. PICK i \in [0..r -> 0..l] :
         /\ i[0] = 0 /\ i[r] = l
         /\ \A k \in 1..r :
              \/ /\ i[k] = i[k - 1] /\ LogicalLines(SubSeq(one, 1, i[k - 1])).open = 0
                 /\ IsIdle(two[k]) /\ ~IsOpen(two[k])
              \/ i[k] = i[k - 1] + 1 /\ two[k] = one[i[k]]
              \/ /\ i[k] = i[k - 1] + 1 /\ LogicalLines(SubSeq(one, 1, i[k - 1])).open = 0
                 /\ \E pad \in Blanks : two[k] = pad \o one[i[k]]
  BY DEF WrittenOtherwise
<1>7. (\A n \in 1..l : first[n] = ReadLine(first[n - 1], one[n]))
      /\ (\A n \in 1..r : second[n] = ReadLine(second[n - 1], two[n]))
  BY <1>1, <1>2
<1> HIDE DEF l, r
<1> DEFINE P == {k \in 0..r : ReadAlike(first[i[k]], second[k])}
<1>8. 0 \in P
  <2>1. SaysTheSame(<<>>, <<>>)
    <3> DEFINE j == [k \in 0..0 |-> 0]
    <3>1. j \in [0..Len(<<>>) -> 0..Len(<<>>)] /\ j[0] = 0 /\ Len(<<>>) = 0 /\ 1..Len(<<>>) = {}
      OBVIOUS
    <3> HIDE DEF j
    <3>2. QED
      BY <3>1 DEF SaysTheSame
  <2>2. ReadAlike(NoLine, NoLine)
    BY <2>1 DEF ReadAlike, NoLine
  <2>3. QED
    BY <1>1, <1>2, <1>3, <1>6, <2>2
<1>9. ASSUME NEW n \in 0..(r - 1), n \in P PROVE n + 1 \in P
  <2> DEFINE k == n + 1
  <2>1. k \in 1..r /\ k - 1 = n /\ n \in 0..r /\ k \in 0..r
    BY <1>3
  <2> HIDE DEF k
  <2>2. i[n] \in 0..l /\ i[k] \in 0..l
    BY <1>6, <2>1
  <2>3. LogicalLines(SubSeq(one, 1, i[n])) = first[i[n]]
    BY <1>5, <2>2
  <2>4. \/ i[k] = i[n] /\ first[i[n]].open = 0 /\ IsIdle(two[k]) /\ ~IsOpen(two[k])
        \/ i[k] = i[n] + 1 /\ two[k] = one[i[k]]
        \/ /\ i[k] = i[n] + 1 /\ first[i[n]].open = 0
           /\ \E pad \in Blanks : two[k] = pad \o one[i[k]]
    BY <1>6, <2>1, <2>3
  <2>5. second[k] = ReadLine(second[n], two[k]) /\ two[k] \in Seq(C)
    BY <1>3, <1>7, <2>1
  <2>6. first[i[n]] \in LineReads(C) /\ second[n] \in LineReads(C)
        /\ ReadAlike(first[i[n]], second[n])
    BY <1>4, <1>9, <2>1, <2>2
  <2>7. ReadAlike(first[i[k]], second[k])
    <3>1. CASE i[k] = i[n] /\ first[i[n]].open = 0 /\ IsIdle(two[k]) /\ ~IsOpen(two[k])
      BY <2>5, <2>6, <3>1, IdleAlike
    <3>2. CASE /\ i[k] = i[n] + 1
               /\ \E pad \in Blanks : two[k] = pad \o one[i[k]]
                                      /\ (pad = <<>> \/ first[i[n]].open = 0)
      <4>1. i[k] \in 1..l /\ i[k] - 1 = i[n]
        <5>1. PICK x \in 0..l, y \in 0..l : x = i[n] /\ y = i[k]
          BY <2>2
        <5>2. y = x + 1
          BY <3>2, <5>1
        <5>3. y \in 1..l /\ y - 1 = x
          BY <1>3, <5>2
        <5>4. QED
          BY <5>1, <5>3
      <4>2. first[i[k]] = ReadLine(first[i[n]], one[i[k]]) /\ one[i[k]] \in Seq(C)
        BY <1>3, <1>7, <4>1
      <4>3. PICK pad \in Blanks :
               two[k] = pad \o one[i[k]] /\ (pad = <<>> \/ first[i[n]].open = 0)
        BY <3>2
      <4>4. ReadAlike(ReadLine(first[i[n]], one[i[k]]), ReadLine(second[n], pad \o one[i[k]]))
        BY <2>6, <4>2, <4>3, LineAlike
      <4>5. QED
        BY <2>5, <4>2, <4>3, <4>4
    <3>3. CASE i[k] = i[n] + 1 /\ two[k] = one[i[k]]
      <4>1. <<>> \in Blanks /\ <<>> \o two[k] = two[k]
        BY <2>5, ConcatEmptySeq DEF Blanks
      <4>2. QED
        BY <3>2, <3>3, <4>1
    <3>4. QED
      BY <2>4, <3>1, <3>2, <3>3
  <2>8. QED
    BY <2>1, <2>7 DEF k
<1>10. r \in P
  <2>1. r \in 0..r
    BY <1>3
  <2> HIDE DEF P
  <2>2. \A k \in 0..r : k \in P
    BY <1>3, <1>8, <1>9, NumbersUpTo
  <2>3. QED
    BY <2>1, <2>2
<1>11. ReadAlike(LogicalLines(one), LogicalLines(two))
  BY <1>1, <1>2, <1>6, <1>10 DEF l, r
<1>12. LogicalLines(one) \in LineReads(C) /\ LogicalLines(two) \in LineReads(C)
  <2>1. l \in 0..l /\ r \in 0..r
    BY <1>3
  <2>2. QED
    BY <1>1, <1>2, <1>4, <2>1 DEF l, r
<1>13. Parse(one).ok = Parse(two).ok /\ SameTree(Parse(one).tree, Parse(two).tree)
  BY <1>11, <1>12, ParseSame DEF Parse, ReadAlike
<1>14. QED
  BY <1>13, FingerprintsSame DEF Readable, FingerprintsOf

=============================================================================
