------------------------------- MODULE Auditor --------------------------------
(***************************************************************************)
(* netops-auditor: executions of its command line ("run" on a file,        *)
(* "collect" from a device) over one SQLite store, and the calls of its    *)
(* read-only MCP server on the same store.                                 *)
(*                                                                         *)
(* Each execution is a process.  It takes a snapshot of the configuration, *)
(* for the ssh channel by a series of commands with the private key in a   *)
(* temporary directory, makes findings of it, and then goes through the    *)
(* store in one transaction or select after the other: the baseline, the   *)
(* last run, its own run, its channel events, the acceptance.  Executions  *)
(* and MCP calls interleave between these steps, and any step may fail.    *)
(*                                                                         *)
(* The model has one tenant and one device: every statement of the store   *)
(* names both.  An execution finds any one of the texts, because the       *)
(* configuration may have changed in any way since the last one, and keeps *)
(* the fingerprints the rules make of it; one that does not parse ends it. *)
(***************************************************************************)
EXTENDS Rules

CONSTANTS
  Texts,       \* the configurations the device may have
  Required,    \* the sections the inventory requires of a collected one
  Expires,     \* Expires[f]: when the suppression of f expires, 0 without one
  Kinds,       \* "run", and the channels of "collect"
  Audits,      \* executions of the command line
  Readers,     \* calls of list_findings
  MaxTime,     \* bound on the clock
  MaxChanges,  \* bound on what is done to the baseline or the clock by hand
  MaxFailures  \* bound on kills, removals that fail and events the store refuses

\* What parses, what the completeness gate keeps from being parsed, and the rest.
Understood == {text \in Texts : Readable(text)}
Short      == {text \in Texts : MissingSections(text, Required) # {}}
Garbled    == Texts \ Understood

\* What is recorded of a file, which goes without the completeness gate, and of
\* what was collected.
FileSnapshots == {FingerprintsOf(text) : text \in Understood}
Snapshots     == {Collected(text, Required) : text \in Understood \cup Short}

Findings == UNION (FileSnapshots \cup Snapshots)

ASSUME AuditorAssumption ==
  /\ Kinds \subseteq {"run", "file", "ssh"}
  /\ Expires \in [Findings -> Nat]
  /\ MaxTime \in Nat /\ MaxChanges \in Nat /\ MaxFailures \in Nat

VARIABLES
  now,       \* the wall clock, in the seconds of started_at
  audit,     \* audit[a]: where execution a is and what it has read
  report,    \* report[a]: what it printed
  runs,      \* table runs with its findings; the id is the position
  baseline,  \* table baseline: baseline[f] is the run f was accepted with, or 0
  events,    \* table channel_events; the id is the position
  keys,      \* executions whose private key lies on the disk
  sent,      \* the commands that were sent to the device
  reader,    \* reader[r]: an MCP call between two of its selects
  answer,    \* answer[r]: what it returned
  forgotten, \* findings that were taken out of the baseline by hand
  steady,    \* the clock never went back
  changes, failures

storeVars == <<runs, baseline, events>>
worldVars == <<now, forgotten, steady, changes>>
vars == <<audit, report, storeVars, keys, sent, reader, answer, worldVars, failures>>

Outcomes    == {"ok", "failed"}
Collecting  == {"scan", "prepare", "command", "shred"}
Storing     == {"previous", "stamp", "insert"}
Active      == Collecting \cup Storing
                 \cup {"trace", "evaluate", "baseline", "events", "accept", "report"}
Run         == [at : 0..MaxTime, findings : SUBSET Findings]
Event       == [run : Nat, audit : Audits, command : 1..2, outcome : Outcomes]
States      == [last : Nat, new : SUBSET Findings, known : SUBSET Findings,
                suppressed : SUBSET Findings, gone : SUBSET Findings]

NoStates == [last |-> 0, new |-> {}, known |-> {}, suppressed |-> {}, gone |-> {}]
NewAudit == [pc |-> "idle", kind |-> "none", accept |-> FALSE, command |-> 1, ok |-> TRUE,
             began |-> {}, found |-> {}, base |-> {}, last |-> 0, at |-> 0, run |-> 0,
             alone |-> TRUE, left |-> FALSE]

TypeOK ==
  /\ now \in 0..MaxTime
  /\ audit \in [Audits ->
       [pc : {"idle", "done", "failed", "dead"} \cup Active, kind : {"none"} \cup Kinds,
        accept : BOOLEAN, command : 1..2, ok : BOOLEAN,
        began : SUBSET Findings, found : SUBSET Findings, base : SUBSET Findings,
        last : 0..Len(runs), at : 0..MaxTime, run : 0..Len(runs), alone : BOOLEAN,
        left : BOOLEAN]]
  /\ report \in [Audits -> States] /\ answer \in [Readers -> States]
  /\ runs \in Seq(Run)
  /\ baseline \in [Findings -> 0..Len(runs)]
  /\ events \in Seq(Event) /\ \A k \in 1..Len(events) : events[k].run <= Len(runs)
  /\ keys \subseteq Audits /\ sent \subseteq Audits \X (1..2)
  /\ reader \in [Readers -> [pc : {"idle", "answer", "done"}, seen : 0..Len(runs),
                             at : 0..MaxTime, began : SUBSET Findings]]
  /\ forgotten \subseteq Findings /\ steady \in BOOLEAN
  /\ changes \in 0..MaxChanges /\ failures \in 0..MaxFailures

Init ==
  /\ now = 0
  /\ audit = [a \in Audits |-> NewAudit]
  /\ report = [a \in Audits |-> NoStates]
  /\ runs = <<>> /\ baseline = [f \in Findings |-> 0] /\ events = <<>>
  /\ keys = {} /\ sent = {}
  /\ reader = [r \in Readers |-> [pc |-> "idle", seen |-> 0, at |-> 0, began |-> {}]]
  /\ answer = [r \in Readers |-> NoStates]
  /\ forgotten = {} /\ steady = TRUE /\ changes = 0 /\ failures = 0

-----------------------------------------------------------------------------
(* The order of runs, and classify()                                       *)

\* Mutant: runs of the same second are not told apart.
NewerByTime(i, j) == runs[i].at >= runs[j].at

\* ORDER BY started_at DESC, id DESC
Newer(i, j) ==
  \/ runs[i].at > runs[j].at
  \/ runs[i].at = runs[j].at /\ i > j

\* The newest of a set of runs, 0 when there is none.
Newest(ids) ==
  IF ids = {} THEN 0 ELSE CHOOSE i \in ids : \A j \in ids \ {i} : Newer(i, j)

LastRun == Newest(1..Len(runs))

FindingsOfRun(id) == IF id = 0 THEN {} ELSE runs[id].findings

Baseline == {f \in Findings : baseline[f] # 0}

Suppressed(f, time) == time < Expires[f]

\* A finding of today is suppressed, else known by the baseline, else new; one
\* of the previous run that is not there today is gone.
Classify(id, today, base, previous, time) ==
  LET suppressed == {f \in today : Suppressed(f, time)}
  IN  [last |-> id, suppressed |-> suppressed,
       known |-> (today \cap base) \ suppressed,
       new   |-> today \ (base \cup suppressed),
       gone  |-> previous \ today]

-----------------------------------------------------------------------------
(* Collection                                                              *)

Commands(kind) == CASE kind = "run" -> 0 [] kind = "file" -> 1 [] kind = "ssh" -> 2

Goto(a, pc) == audit' = [audit EXCEPT ![a].pc = pc]

\* The execution is over; what it knew is kept where a property asks for it.
Ended(a, pc) ==
  [NewAudit EXCEPT !.pc = pc, !.kind = audit[a].kind, !.accept = audit[a].accept,
                   !.run = audit[a].run, !.alone = audit[a].alone, !.left = audit[a].left]

Begin(a, kind, pc) ==
  \E accept \in BOOLEAN :
    audit' = [audit EXCEPT ![a] =
      [@ EXCEPT !.kind = kind, !.pc = pc, !.accept = accept, !.began = Baseline]]

\* "run" reads a file with the configuration, "collect" begins its channel.
Start(a) ==
  /\ audit[a].pc = "idle"
  /\ \/ "run" \in Kinds /\ Begin(a, "run", "evaluate")
     \/ "file" \in Kinds /\ Begin(a, "file", "command")
     \/ "ssh" \in Kinds /\ Begin(a, "ssh", "scan")
  /\ UNCHANGED <<report, storeVars, keys, sent, reader, answer, worldVars, failures>>

\* The channel has failed; what it may have left on the disk goes first.
ChannelFails(a, pc) == audit' = [audit EXCEPT ![a].pc = pc, ![a].ok = FALSE]

\* _host_key_line: ssh-keyscan, before the key is touched.
Scan(a) ==
  /\ audit[a].pc = "scan"
  /\ Goto(a, "prepare") \/ ChannelFails(a, "trace")
  /\ UNCHANGED <<report, storeVars, keys, sent, reader, answer, worldVars, failures>>

\* The temporary directory, known_hosts and the private key in it.
Prepare(a) ==
  /\ audit[a].pc = "prepare"
  /\ keys' = keys \cup {a}
  /\ Goto(a, "command") \/ ChannelFails(a, "shred")
  /\ UNCHANGED <<report, storeVars, sent, reader, answer, worldVars, failures>>

\* Mutant: one command more than there are.
LastCommandOffByOne(a) == audit[a].command > Commands(audit[a].kind)

LastCommand(a) == audit[a].command = Commands(audit[a].kind)
After(a)       == IF audit[a].kind = "ssh" THEN "shred" ELSE "evaluate"

\* A command (or the only request of the other channels) is answered as it
\* must be; the last one is the snapshot.
CommandSucceeds(a) ==
  /\ audit[a].pc = "command"
  /\ sent' = sent \cup {<<a, audit[a].command>>}
  /\ IF LastCommand(a) THEN Goto(a, After(a))
                       ELSE audit' = [audit EXCEPT ![a].command = @ + 1]
  /\ UNCHANGED <<report, storeVars, keys, reader, answer, worldVars, failures>>

\* No answer, an exit code, a console setting that must not be, or no UTF-8.
CommandFails(a) ==
  /\ audit[a].pc = "command"
  /\ sent' = sent \cup {<<a, audit[a].command>>}
  /\ ChannelFails(a, IF audit[a].kind = "ssh" THEN "shred" ELSE "trace")
  /\ UNCHANGED <<report, storeVars, keys, reader, answer, worldVars, failures>>

AfterShred(a) == IF audit[a].ok THEN "evaluate" ELSE "trace"

\* Mutant: the directory is removed after success only.
ShredAfterSuccess(a) ==
  /\ audit[a].pc = "shred"
  /\ keys' = IF audit[a].ok THEN keys \ {a} ELSE keys
  /\ Goto(a, AfterShred(a))
  /\ UNCHANGED <<report, storeVars, sent, reader, answer, worldVars, failures>>

\* The finally clause: rmtree ignores its errors, so the execution goes on in the
\* same way when the directory could not be removed.
Shred(a) ==
  /\ audit[a].pc = "shred"
  /\ \/ keys' = keys \ {a} /\ Goto(a, AfterShred(a)) /\ UNCHANGED failures
     \/ /\ failures < MaxFailures /\ failures' = failures + 1
        /\ audit' = [audit EXCEPT ![a].pc = AfterShred(a), ![a].left = TRUE]
        /\ UNCHANGED keys
  /\ UNCHANGED <<report, storeVars, sent, reader, answer, worldVars>>

FailedEvent(a) ==
  [run |-> 0, audit |-> a, command |-> audit[a].command, outcome |-> "failed"]

\* _traced: the event of the failure alone, without a run, unless the store
\* refuses it, which the message tells and nothing else.
Trace(a) ==
  /\ audit[a].pc = "trace"
  /\ \/ /\ events' = Append(events, FailedEvent(a))
        /\ UNCHANGED failures
     \/ /\ failures < MaxFailures /\ failures' = failures + 1
        /\ UNCHANGED events
  /\ audit' = [audit EXCEPT ![a] = Ended(a, "failed")]
  /\ UNCHANGED <<report, runs, baseline, keys, sent, reader, answer, worldVars>>

\* The gate, the parser and the rules.  A text that is complete enough to be
\* parsed and does not parse ends the execution: what the channel did is in a
\* tuple of it and nowhere else.
Evaluate(a) ==
  /\ audit[a].pc = "evaluate"
  /\ \/ \E s \in IF audit[a].kind = "run" THEN FileSnapshots ELSE Snapshots :
          audit' = [audit EXCEPT ![a].pc = "baseline", ![a].found = s]
     \/ /\ (IF audit[a].kind = "run" THEN Garbled ELSE Garbled \ Short) # {}
        /\ audit' = [audit EXCEPT ![a] = Ended(a, "failed")]
  /\ UNCHANGED <<report, storeVars, keys, sent, reader, answer, worldVars, failures>>

-----------------------------------------------------------------------------
(* The store                                                               *)

\* Somebody between the read of the last run and the insert of its own.
Overlapping(a) == {b \in Audits \ {a} : audit[b].pc \in Storing}

ReadBaseline(a) ==
  /\ audit[a].pc = "baseline"
  /\ audit' = [b \in Audits |->
       IF b = a
         THEN [audit[a] EXCEPT !.pc = "previous", !.base = Baseline,
                               !.alone = Overlapping(a) = {}]
         ELSE [audit[b] EXCEPT !.alone = @ /\ b \notin Overlapping(a)]]
  /\ UNCHANGED <<report, storeVars, keys, sent, reader, answer, worldVars, failures>>

\* _previous: the last run; its findings never change and are read here, too.
ReadPrevious(a) ==
  /\ audit[a].pc = "previous"
  /\ audit' = [audit EXCEPT ![a].pc = "stamp", ![a].last = LastRun]
  /\ UNCHANGED <<report, storeVars, keys, sent, reader, answer, worldVars, failures>>

\* record_run takes the time before it waits for the database.
Stamp(a) ==
  /\ audit[a].pc = "stamp"
  /\ audit' = [audit EXCEPT ![a].pc = "insert", ![a].at = now]
  /\ UNCHANGED <<report, storeVars, keys, sent, reader, answer, worldVars, failures>>

AfterEvents(a) == IF audit[a].accept THEN "accept" ELSE "report"

InsertRun(a) ==
  /\ audit[a].pc = "insert"
  /\ runs' = Append(runs, [at |-> audit[a].at, findings |-> audit[a].found])
  /\ audit' = [audit EXCEPT
       ![a].run = Len(runs) + 1,
       ![a].pc  = IF audit[a].kind = "run" THEN AfterEvents(a) ELSE "events"]
  /\ UNCHANGED <<report, baseline, events, keys, sent, reader, answer, worldVars, failures>>

OkEvent(a, i) == [run |-> audit[a].run, audit |-> a, command |-> i, outcome |-> "ok"]

\* Mutant: the event of the last command only.
EventsOfSnapshot(a) == <<OkEvent(a, audit[a].command)>>

EventsOf(a) == [i \in 1..Commands(audit[a].kind) |-> OkEvent(a, i)]

RecordEvents(a) ==
  /\ audit[a].pc = "events"
  /\ events' = events \o EventsOf(a)
  /\ Goto(a, AfterEvents(a))
  /\ UNCHANGED <<report, runs, baseline, keys, sent, reader, answer, worldVars, failures>>

\* Mutant: the last run of the device is accepted.
AcceptedByLast(a) == FindingsOfRun(LastRun)

Accepted(a) == FindingsOfRun(audit[a].run)

\* Mutant: the findings of the run become the baseline.
AcceptReplacing(a) ==
  /\ audit[a].pc = "accept"
  /\ baseline' = [f \in Findings |-> IF f \in Accepted(a) THEN audit[a].run ELSE 0]
  /\ Goto(a, "report")
  /\ UNCHANGED <<report, runs, events, keys, sent, reader, answer, worldVars, failures>>

\* accept_baseline, INSERT OR IGNORE
Accept(a) ==
  /\ audit[a].pc = "accept"
  /\ baseline' = [f \in Findings |->
       IF baseline[f] = 0 /\ f \in Accepted(a) THEN audit[a].run ELSE baseline[f]]
  /\ Goto(a, "report")
  /\ UNCHANGED <<report, runs, events, keys, sent, reader, answer, worldVars, failures>>

Base(a) == audit[a].base

Conclude(a) ==
  /\ audit[a].pc = "report"
  /\ report' = [report EXCEPT ![a] =
       Classify(audit[a].run, audit[a].found, Base(a), FindingsOfRun(audit[a].last),
                now)]
  /\ audit' = [audit EXCEPT ![a] =
       [Ended(a, "done") EXCEPT !.began = audit[a].began, !.found = audit[a].found]]
  /\ UNCHANGED <<storeVars, keys, sent, reader, answer, worldVars, failures>>

\* It is killed, the database stays busy, or nobody reads its output.
Die(a) ==
  /\ audit[a].pc \in Active /\ failures < MaxFailures
  /\ failures' = failures + 1
  /\ audit' = [audit EXCEPT ![a] = Ended(a, "dead")]
  /\ UNCHANGED <<report, storeVars, keys, sent, reader, answer, worldVars>>

-----------------------------------------------------------------------------
(* MCP calls                                                               *)

\* The time of the call, and runs_for_device.
ReadRuns(r) ==
  /\ reader[r].pc = "idle"
  /\ reader' = [reader EXCEPT ![r] =
       [pc |-> "answer", seen |-> Len(runs), at |-> now, began |-> Baseline]]
  /\ UNCHANGED <<audit, report, storeVars, keys, sent, answer, worldVars, failures>>

Second(ids) == Newest(ids \ {Newest(ids)})

\* The findings of the two newest runs, then the baseline as it is now.
Answer(r) ==
  LET ids == 1..reader[r].seen IN
  /\ reader[r].pc = "answer"
  /\ answer' = [answer EXCEPT ![r] =
       IF ids = {} THEN NoStates
       ELSE Classify(Newest(ids), FindingsOfRun(Newest(ids)), Baseline, FindingsOfRun(Second(ids)),
                     reader[r].at)]
  /\ reader' = [reader EXCEPT ![r].pc = "done", ![r].seen = 0, ![r].at = 0]
  /\ UNCHANGED <<audit, report, storeVars, keys, sent, worldVars, failures>>

-----------------------------------------------------------------------------
(* The world                                                               *)

\* forget_baseline, called by hand
Forget ==
  /\ changes < MaxChanges
  /\ changes' = changes + 1
  /\ \E f \in Baseline :
       baseline' = [baseline EXCEPT ![f] = 0] /\ forgotten' = forgotten \cup {f}
  /\ UNCHANGED <<audit, report, runs, events, keys, sent, reader, answer, now, steady, failures>>

Tick ==
  /\ now < MaxTime
  /\ now' = now + 1
  /\ UNCHANGED <<audit, report, storeVars, keys, sent, reader, answer, forgotten,
                 steady, changes, failures>>

\* The wall clock is set back.
SetBack ==
  /\ now > 0 /\ changes < MaxChanges
  /\ now' = now - 1 /\ steady' = FALSE /\ changes' = changes + 1
  /\ UNCHANGED <<audit, report, storeVars, keys, sent, reader, answer, forgotten,
                 failures>>

Next ==
  \/ \E a \in Audits :
       \/ Start(a) \/ Scan(a) \/ Prepare(a) \/ CommandSucceeds(a) \/ CommandFails(a)
       \/ Shred(a) \/ Trace(a) \/ Evaluate(a)
       \/ ReadBaseline(a) \/ ReadPrevious(a) \/ Stamp(a) \/ InsertRun(a)
       \/ RecordEvents(a) \/ Accept(a) \/ Conclude(a) \/ Die(a)
  \/ \E r \in Readers : ReadRuns(r) \/ Answer(r)
  \/ Forget \/ Tick \/ SetBack

Spec == Init /\ [][Next]_vars

-----------------------------------------------------------------------------

\* What list_findings says of the last run agrees with what its own report
\* said, although the one sorts all runs afterwards and the other asked for
\* the last run before it recorded its own: they have the same findings, call
\* the same ones gone, and nothing the report called known is new for the
\* query unless it was forgotten.  It takes that no other execution stored a
\* run at the same time and that the clock was not set back.
\* (cli._previous, query._classified)
QueryAgreesWithReport ==
  \A a \in Audits, r \in Readers :
    /\ audit[a].pc = "done" /\ reader[r].pc = "done" /\ answer[r].last = audit[a].run
    /\ steady /\ \A b \in Audits : audit[b].alone
    => /\ answer[r].gone = report[a].gone
       /\ answer[r].new \cup answer[r].known \cup answer[r].suppressed = audit[a].found
       /\ answer[r].new \cap report[a].known \subseteq forgotten

\* An entry of the baseline names a run that found it and was accepted by its
\* operator, and whoever accepted it is told so: that run's own report shows it
\* as something new or suppressed, not as known.  The acceptance is committed
\* first, so there are entries that nobody was told: those of an execution that
\* is about to print, and of one that ended between the two.  (accept_baseline
\* after baseline_fingerprints, _recorded before the report)
AcceptedAsNew ==
  \A f \in Baseline :
    /\ f \in FindingsOfRun(baseline[f])
    /\ \E a \in Audits :
         /\ audit[a].run = baseline[f] /\ audit[a].accept
         /\ \/ f \in report[a].new \cup report[a].suppressed
            \/ audit[a].pc \in {"report", "dead"}
            \/ f \in forgotten

\* Whoever begins after an acceptance never calls the finding new, whatever is
\* recorded and accepted in between.  (baseline_fingerprints)
AcceptedStaysKnown ==
  /\ \A a \in Audits : report[a].new \cap audit[a].began \subseteq forgotten
  /\ \A r \in Readers : answer[r].new \cap reader[r].began \subseteq forgotten

Sent(a) == {i \in 1..2 : <<a, i>> \in sent}
Mine(a) == {k \in 1..Len(events) : events[k].audit = a}

\* After the first p events of the table come those of a: one of each command of
\* its kind, in the order they were sent, as answered and under its run.
TracedAfter(a, p) ==
  LET n == Commands(audit[a].kind)
  IN  /\ Mine(a) = (p + 1)..(p + n)
      /\ \A i \in 1..n :
           events[p + i] = [run |-> audit[a].run, audit |-> a, command |-> i, outcome |-> "ok"]

\* What the table says of an execution.  With a run, it has sent each of its
\* commands; they are in the table all and in order, with nobody else's between
\* them, or, if it was killed before or is about to write them, not at all; when
\* it has printed they are there.  Without a run the table has one failed event
\* of it at most, whatever it sent.  (record_channel_events, _traced)
RunsAreTraced ==
  \A a \in Audits :
    /\ audit[a].run # 0 =>
         /\ Sent(a) = 1..Commands(audit[a].kind)
         /\ \/ \E p \in 0..Len(events) : TracedAfter(a, p)
            \/ Mine(a) = {} /\ audit[a].pc \in {"events", "dead"}
    /\ audit[a].run = 0 =>
         \/ Mine(a) = {}
         \/ \E k \in 1..Len(events) :
              Mine(a) = {k} /\ events[k].run = 0 /\ events[k].outcome = "failed"

\* "Every command sent to a device is one ChannelEvent": of an execution that has
\* ended by itself, whether it printed or not, every command that was sent is in
\* the table.  (docs/channels.md; the events of cli._collected)
EveryCommandIsAnEvent ==
  \A a \in Audits : audit[a].pc \in {"done", "failed"} =>
    \A i \in Sent(a) : \E k \in Mine(a) : events[k].command = i

\* The private key is on the disk while the commands run, and after that only if
\* the execution was killed or the removal itself failed: no failure of a command
\* or of the preparation leaves it.  (the finally clause of collect_ssh, _shredded)
KeyIsShredded ==
  \A a \in keys : audit[a].pc \in {"command", "shred", "dead"} \/ audit[a].left

=============================================================================
