------------------------------- MODULE AuditLog -------------------------------
(***************************************************************************)
(* The mandatory audit of the helper: _audit_device_call (engine.py) puts  *)
(* a "started" record before every device operation and a terminal record  *)
(* after it, and record() (audit.py) appends each to a log it rotates.     *)
(* record() holds a lock of its process; every session of a client has a   *)
(* process of its own, and all of them share the files.                    *)
(*                                                                         *)
(* Each system call on the files is a step, because another process or the *)
(* end of this one may come between two.  A file is an identity with its   *)
(* records, and a name refers to a file or to none: a handle stays with    *)
(* its file when the name moves on.                                        *)
(***************************************************************************)
EXTENDS Integers, Sequences, FiniteSets, Functions, SequencesExt

CONSTANTS
  Calls,       \* calls of audited tools
  Processes,
  ProcessOf,   \* ProcessOf[c]: the process that runs call c
  Limit,       \* AUDIT_SEGMENT_BYTES, in units
  Segments,    \* AUDIT_RETAINED_SEGMENTS
  SizeOf,      \* SizeOf["started"], SizeOf["ended"]: units of such a record
  MaxFiles,    \* bound on the files ever created
  MaxFailures  \* bound on the errors and kills

Nobody == "nobody"

ASSUME AuditAssumption ==
  /\ Nobody \notin Calls
  /\ ProcessOf \in [Calls -> Processes]
  /\ Segments \in Nat /\ Segments >= 3
  /\ Limit \in Nat \ {0} /\ SizeOf \in [{"started", "ended"} -> 1..Limit]
  /\ MaxFiles \in Nat /\ MaxFailures \in Nat

VARIABLES
  name,      \* name[i]: the file called audit.jsonl (0) or audit.jsonl.i, or 0
  content,   \* content[f]: the records of file f
  lock,      \* lock[p]: the call that is in record() in process p
  call,      \* call[c]: where it is, the record it writes, its loop index and handle
  written,   \* every record ever appended, in order
  durable,   \* the records that were flushed and synced
  touched,   \* the calls whose device operation began
  failures,  \* errors and kills so far
  broken     \* rotations that stopped half way

fileVars == <<name, content>>
vars == <<fileVars, lock, call, written, durable, touched, failures, broken>>

Names   == 0..(Segments - 1)
Rotating  == {"shift", "replace", "active", "chmod1"}
Recording == {"stat", "unlink", "touch", "chmod", "open", "append", "sync"} \cup Rotating
Finished  == {"returned", "preflight", "postfailed", "killed"}
Record    == [call : Calls, status : {"started", "ended"}]

Units(s) ==
  LET units[i \in 0..Len(s)] == IF i = 0 THEN 0 ELSE units[i - 1] + SizeOf[s[i].status]
  IN  units[Len(s)]

\* No segment outgrows its limit, whichever call writes and wherever a rotation
\* stopped: "The active file and four retained segments are limited to 2 MB each"
\* (docs/security-model.md:85).
SegmentsBounded == \A f \in 1..Len(content) : Units(content[f]) <= Limit

\* Types, and the limit of the segments.  (_rotate)
TypeOK ==
  /\ name \in [Names -> 0..Len(content)]
  /\ content \in Seq(Seq(Record)) /\ Len(content) <= MaxFiles
  /\ SegmentsBounded
  /\ lock \in [Processes -> Calls \cup {Nobody}]
  /\ call \in [Calls -> [pc : {"idle", "wait", "device"} \cup Recording \cup Finished,
                         status : {"started", "ended"}, index : Names, file : 0..MaxFiles]]
  /\ written \in Seq(Record)
  /\ durable \subseteq Record /\ touched \subseteq Calls
  /\ failures \in 0..MaxFailures /\ broken \in 0..MaxFailures

Init ==
  /\ name = [i \in Names |-> 0]
  /\ content = <<>>
  /\ lock = [p \in Processes |-> Nobody]
  /\ call = [c \in Calls |-> [pc |-> "idle", status |-> "started", index |-> 0, file |-> 0]]
  /\ written = <<>> /\ durable = {} /\ touched = {}
  /\ failures = 0 /\ broken = 0

-----------------------------------------------------------------------------
(* record()                                                                *)

RecordOf(c) == [call |-> c, status |-> call[c].status]
Incoming(c) == SizeOf[call[c].status]
SizeOfFile(f) == Units(content[f])

Goto(c, pc) == call' = [call EXCEPT ![c].pc = pc]
Log == <<written, durable, touched, failures, broken>>

\* A call of an audited tool begins: preflight.
Begin(c) ==
  /\ call[c].pc = "idle"
  /\ Goto(c, "wait")
  /\ UNCHANGED <<fileVars, lock, Log>>

Lock(c) ==
  /\ call[c].pc = "wait" /\ lock[ProcessOf[c]] = Nobody
  /\ lock' = [lock EXCEPT ![ProcessOf[c]] = c]
  /\ Goto(c, "stat")
  /\ UNCHANGED <<fileVars, Log>>

\* Mutant: the size of the record to come is left out.
FitsAlready(c) == SizeOfFile(name[0]) <= Limit

Fits(c) == SizeOfFile(name[0]) + Incoming(c) <= Limit

Stat(c) ==
  /\ call[c].pc = "stat"
  /\ Goto(c, IF name[0] = 0 \/ Fits(c) THEN "touch" ELSE "unlink")
  /\ UNCHANGED <<fileVars, lock, Log>>

\* Mutant: the loop begins one segment too low.
UnlinkOffByOne(c) ==
  /\ call[c].pc = "unlink"
  /\ name' = [name EXCEPT ![Segments - 1] = 0]
  /\ call' = [call EXCEPT ![c].pc = "shift", ![c].index = Segments - 3]
  /\ UNCHANGED <<content, lock, Log>>

\* oldest.unlink(missing_ok=True), and on to the loop over the other backups.
Unlink(c) ==
  /\ call[c].pc = "unlink"
  /\ name' = [name EXCEPT ![Segments - 1] = 0]
  /\ call' = [call EXCEPT ![c].pc = "shift", ![c].index = Segments - 2]
  /\ UNCHANGED <<content, lock, Log>>

\* "if source.exists()" for the current index.
Shift(c) ==
  /\ call[c].pc = "shift"
  /\ LET i == call[c].index IN
       call' = [call EXCEPT
         ![c].pc    = IF i = 0 THEN "active" ELSE IF name[i] # 0 THEN "replace" ELSE "shift",
         ![c].index = IF i > 0 /\ name[i] = 0 THEN i - 1 ELSE i]
  /\ UNCHANGED <<fileVars, lock, Log>>

\* Mutant: the segment is linked under its new name, and keeps the old one.
RenameByLink(i) == name' = [name EXCEPT ![i + 1] = name[i]]

\* os.replace of file i + 1 by file i; it needs the source to be there still.
Rename(i) == name' = [name EXCEPT ![i] = 0, ![i + 1] = name[i]]

Replace(c) ==
  LET i == call[c].index IN
  /\ call[c].pc = "replace" /\ name[i] # 0
  /\ Rename(i)
  /\ call' = [call EXCEPT ![c].pc = "shift", ![c].index = i - 1]
  /\ UNCHANGED <<content, lock, Log>>

ReplaceActive(c) ==
  /\ call[c].pc = "active" /\ name[0] # 0
  /\ Rename(0)
  /\ Goto(c, "chmod1")
  /\ UNCHANGED <<content, lock, Log>>

ChmodRotated(c) ==
  /\ call[c].pc = "chmod1" /\ name[1] # 0
  /\ Goto(c, "touch")
  /\ UNCHANGED <<fileVars, lock, Log>>

\* The active file, made if it is not there.
WithActive ==
  IF name[0] # 0 THEN UNCHANGED fileVars
  ELSE /\ Len(content) < MaxFiles
       /\ content' = Append(content, <<>>)
       /\ name' = [name EXCEPT ![0] = Len(content) + 1]

Touch(c) ==
  /\ call[c].pc = "touch"
  /\ WithActive
  /\ Goto(c, "chmod")
  /\ UNCHANGED <<lock, Log>>

Chmod(c) ==
  /\ call[c].pc = "chmod" /\ name[0] # 0
  /\ Goto(c, "open")
  /\ UNCHANGED <<fileVars, lock, Log>>

\* open("ab")
Open(c) ==
  /\ call[c].pc = "open"
  /\ WithActive
  /\ call' = [call EXCEPT ![c].pc = "append", ![c].file = name'[0]]
  /\ UNCHANGED <<lock, Log>>

\* write and flush, to the file that was opened
AppendRecord(c) ==
  /\ call[c].pc = "append"
  /\ content' = [content EXCEPT ![call[c].file] = Append(@, RecordOf(c))]
  /\ written' = Append(written, RecordOf(c))
  /\ Goto(c, "sync")
  /\ UNCHANGED <<name, lock, durable, touched, failures, broken>>

\* fsync, close and the end of the lock: the call goes on.
Sync(c) ==
  /\ call[c].pc = "sync"
  /\ durable' = durable \cup {RecordOf(c)}
  /\ lock' = [lock EXCEPT ![ProcessOf[c]] = Nobody]
  /\ Goto(c, IF call[c].status = "started" THEN "device" ELSE "returned")
  /\ UNCHANGED <<fileVars, written, touched, failures, broken>>

-----------------------------------------------------------------------------
(* The wrapper around the device call                                      *)

\* The device operation, whatever its outcome, and then complete().
Device(c) ==
  /\ call[c].pc = "device"
  /\ touched' = touched \cup {c}
  /\ call' = [call EXCEPT ![c].pc = "wait", ![c].status = "ended"]
  /\ UNCHANGED <<fileVars, lock, written, durable, failures, broken>>

\* Mutant: a failed preflight is logged and forgotten.
AfterErrorGoOn(c) == IF call[c].status = "started" THEN "device" ELSE "postfailed"

\* AuditPreflightError: the operation is not started.  AuditPostOperationError:
\* it was.
AfterError(c) == IF call[c].status = "started" THEN "preflight" ELSE "postfailed"

\* Any of the system calls fails, and record() with it; the files stay as the
\* calls before it left them.
Raise(c) ==
  /\ call[c].pc \in Recording /\ failures < MaxFailures
  /\ failures' = failures + 1
  /\ broken' = IF call[c].pc \in Rotating THEN broken + 1 ELSE broken
  /\ lock' = [lock EXCEPT ![ProcessOf[c]] = Nobody]
  /\ Goto(c, AfterError(c))
  /\ UNCHANGED <<fileVars, written, durable, touched>>

\* The process is killed: its calls end where they are, its device operations
\* may have been sent, and later calls run in the next process.
Kill(p) ==
  LET dying == {c \in Calls : ProcessOf[c] = p /\ call[c].pc \notin Finished \cup {"idle"}}
  IN
  /\ dying # {} /\ failures < MaxFailures
  /\ failures' = failures + 1
  /\ broken' = IF \E c \in dying : call[c].pc \in Rotating THEN broken + 1 ELSE broken
  /\ call' = [c \in Calls |-> IF c \in dying THEN [call[c] EXCEPT !.pc = "killed"] ELSE call[c]]
  /\ touched' \in {touched, touched \cup {c \in dying : call[c].pc = "device"}}
  /\ lock' = [lock EXCEPT ![p] = Nobody]
  /\ UNCHANGED <<fileVars, written, durable>>

Next ==
  \/ \E c \in Calls :
       \/ Begin(c) \/ Lock(c) \/ Stat(c) \/ Unlink(c) \/ Shift(c) \/ Replace(c)
       \/ ReplaceActive(c) \/ ChmodRotated(c) \/ Touch(c) \/ Chmod(c) \/ Open(c)
       \/ AppendRecord(c) \/ Sync(c) \/ Device(c) \/ Raise(c)
  \/ \E p \in Processes : Kill(p)

Spec == Init /\ [][Next]_vars

-----------------------------------------------------------------------------

\* No device operation begins before its "started" record is on disk, and a
\* result is returned only when its terminal record is on disk as well.
\* (_audit_device_call)
AuditedBeforeAndAfter ==
  /\ \A c \in touched : [call |-> c, status |-> "started"] \in durable
  /\ \A c \in Calls : call[c].pc = "returned" =>
       c \in touched /\ [call |-> c, status |-> "ended"] \in durable
  /\ \A c \in Calls : call[c].pc = "preflight" => c \notin touched

\* The names from the oldest to the active one, read in that order.
Retained ==
  FlattenSeq([k \in 1..Segments |->
    LET f == name[Segments - k] IN IF f = 0 THEN <<>> ELSE content[f]])

\* What the five files hold, read from the oldest to the active one, is the end
\* of what was written, with no record missing, doubled or out of order, at
\* every step of a rotation and after one that stopped half way.  (_rotate)
RetainedIsSuffix == IsSuffix(Retained, written)

Largest ==
  IF SizeOf["started"] > SizeOf["ended"] THEN SizeOf["started"] ELSE SizeOf["ended"]

\* A rotation lets go of one full segment only: all but one of the segments are
\* kept, and one less for each rotation that stopped half way.  (_rotate)
EnoughRetained ==
  Retained = written
    \/ Units(Retained) >= (Segments - 1 - broken) * (Limit - Largest + 1)

=============================================================================
