------------------------------ MODULE EgressApply ------------------------------
(***************************************************************************)
(* scripts/apply_egress_rules.py: the installer of a reviewed egress       *)
(* bundle.  Under a file lock it inspects the host, takes a snapshot of    *)
(* the part of the firewall that is its own (a marked jump in DOCKER-USER  *)
(* and a private chain), replaces that part by one atomic iptables-restore,*)
(* inspects again, checks (check_egress_rules.py), and puts the snapshot   *)
(* back if the check or the inspection failed.  Everything else on the     *)
(* host - Docker, other tools, the operator - changes the same ruleset     *)
(* whenever it likes.                                                      *)
(*                                                                         *)
(* A bundle stands for its jump rule and its list of chain rules: both are *)
(* a function of the manifest and carry its digest.  A rule of DOCKER-USER *)
(* is the marked jump of a bundle, "bare" (some other rule that names the  *)
(* chain or bears the marker) or "foreign".  The chain holds the rules of  *)
(* a bundle, "other" rules that look like the tool's own and end in DROP,  *)
(* or "foreign" ones, or it does not exist ("none").                       *)
(***************************************************************************)
EXTENDS Integers, Sequences, SequencesExt

CONSTANTS
  Bundles,     \* bundle files that pass load_bundle
  Runs,        \* executions of the tool
  MaxOthers,   \* bound on what others do to the host
  MaxFailures  \* bound on the host commands that fail, and on kills

ASSUME EgressAssumption ==
  /\ Bundles \cap {"bare", "foreign", "other", "none"} = {}
  /\ MaxOthers \in Nat /\ MaxFailures \in Nat

VARIABLES
  host,      \* FORWARD begins with the DOCKER-USER jump; DOCKER-USER; the
             \* chain; whether the Docker network is the reviewed one
  lock,      \* who holds LOCK_PATH
  run,       \* run[r]: where it is, its bundle, its snapshot, "committed"
  found,     \* found[r]: the rules when the snapshot was taken
  alone,     \* alone[r]: nobody else changed the host since then, or since
             \* the check that r passed
  effect,    \* effect[r]: r's restore took effect
  others, failures

vars == <<host, lock, run, found, alone, effect, others, failures>>

Nobody   == "nobody"
Valid    == Bundles \cup {"other"}
Host     == [forward : BOOLEAN, user : Seq(Bundles \cup {"bare", "foreign"}),
             chain : Valid \cup {"foreign", "none"}, network : BOOLEAN]
Absent   == [jump |-> "none", chain |-> "none"]
Snapshot == [jump : Bundles, chain : Valid] \cup {Absent}
Held     == {"network", "rules", "restore", "recheck", "verify", "rollback"}
Orphans  == {"orphan", "rollback_orphan"}
Ended    == {"ok", "locked", "failed", "rollback_failed", "killed"}

TypeOK ==
  /\ host \in Host
  /\ lock \in Runs \cup {Nobody}
  /\ run \in [Runs -> [pc : {"idle"} \cup Held \cup Orphans \cup Ended,
                       bundle : Bundles, snap : Snapshot, committed : BOOLEAN]]
  /\ found \in [Runs -> Host]
  /\ alone \in [Runs -> BOOLEAN] /\ effect \in [Runs -> BOOLEAN]
  /\ others \in 0..MaxOthers /\ failures \in 0..MaxFailures

\* A host without the tool's rules, or with those of an earlier run.
Init ==
  /\ host \in [forward : {TRUE}, user : {<<>>, <<"foreign">>}, chain : {"none"}, network : {TRUE}]
       \cup {[forward |-> TRUE, user |-> <<b>>, chain |-> b, network |-> TRUE] : b \in Bundles}
  /\ lock = Nobody
  /\ run \in [Runs -> [pc : {"idle"}, bundle : Bundles, snap : {Absent}, committed : {FALSE}]]
  /\ found = [r \in Runs |-> host]
  /\ alone = [r \in Runs |-> TRUE] /\ effect = [r \in Runs |-> FALSE]
  /\ others = 0 /\ failures = 0

-----------------------------------------------------------------------------
(* The ruleset                                                             *)

References(h) == {i \in DOMAIN h.user : h.user[i] # "foreign"}

\* Mutant: the rules in the chain are not looked at.
RefusedByJump(h) ==
  \/ "bare" \in {h.user[i] : i \in DOMAIN h.user} \/ ~h.forward
  \/ h.chain = "none" /\ References(h) # {}
  \/ h.chain # "none" /\ References(h) # {1}

\* snapshot_owned raises: a marker or a chain that is not the tool's own, or
\* DOCKER-USER is not the first stop of forwarded packets.
Refused(h) ==
  \/ "bare" \in {h.user[i] : i \in DOMAIN h.user} \/ ~h.forward
  \/ h.chain = "none" /\ References(h) # {}
  \/ h.chain # "none" /\ (References(h) # {1} \/ h.chain \notin Valid)

SnapshotOwned(h) ==
  IF h.chain = "none" THEN Absent ELSE [jump |-> h.user[1], chain |-> h.chain]

Has(h, jump) == \E i \in DOMAIN h.user : h.user[i] = jump
Without(h, jump) == RemoveFirst(h.user, jump)

\* Mutant: DOCKER-USER is flushed together with the chain.
AppliedFlushing(h, snap, b) ==
  IF (snap = Absent) = (h.chain = "none") THEN {[h EXCEPT !.user = <<b>>, !.chain = b]} ELSE {}

\* build_apply_payload, committed as a whole; the empty set when one of its
\* commands does not apply to the rules as they are now.
Applied(h, snap, b) ==
  IF snap = Absent
    THEN IF h.chain = "none" THEN {[h EXCEPT !.user = <<b>> \o @, !.chain = b]} ELSE {}
    ELSE IF Has(h, snap.jump) /\ h.chain # "none"
           THEN {[h EXCEPT !.user = <<b>> \o Without(h, snap.jump), !.chain = b]} ELSE {}

\* Mutant: the chain is always removed, as if there had been none.
RolledBackToNothing(h, snap, b) ==
  IF ~Has(h, b) \/ h.chain = "none" \/ \E i \in DOMAIN Without(h, b) : Without(h, b)[i] # "foreign"
    THEN {} ELSE {[h EXCEPT !.user = Without(h, b), !.chain = "none"]}

\* build_rollback_payload: "-X" needs a chain that nothing refers to.
RolledBack(h, snap, b) ==
  IF ~Has(h, b) \/ h.chain = "none" THEN {}
  ELSE IF snap # Absent
    THEN {[h EXCEPT !.user = <<snap.jump>> \o Without(h, b), !.chain = snap.chain]}
  ELSE IF \E i \in DOMAIN Without(h, b) : Without(h, b)[i] # "foreign" THEN {}
  ELSE {[h EXCEPT !.user = Without(h, b), !.chain = "none"]}

\* Mutant: the jump may be anywhere in DOCKER-USER.
PassesAnywhere(h, b) == h.forward /\ Has(h, b) /\ h.chain = b

\* _check_family finds no error; what check() compares besides was compared by
\* _inspect_host before.
Passes(h, b) == h.forward /\ h.user # <<>> /\ h.user[1] = b /\ h.chain = b

-----------------------------------------------------------------------------
(* A run: main() and apply_bundle()                                        *)

Goto(r, pc) == run' = [run EXCEPT ![r].pc = pc]

\* The host changes by the hand of r.
Change(r, h) ==
  /\ host' = h
  /\ alone' = [q \in Runs |-> alone[q] /\ (q = r \/ h = host)]

\* The run is over and its file descriptor closed.
Finish(r, code) == Goto(r, code) /\ lock' = Nobody

Lock(r) ==
  /\ run[r].pc = "idle"
  /\ IF lock = Nobody
       THEN lock' = r /\ Goto(r, "network")
       ELSE Goto(r, "locked") /\ UNCHANGED lock
  /\ UNCHANGED <<host, found, alone, effect, others, failures>>

\* The first commands of _inspect_host, before the restore and after it.
InspectNetwork(r) ==
  /\ run[r].pc \in {"network", "recheck"}
  /\ host.network
  /\ Goto(r, IF run[r].pc = "network" THEN "rules" ELSE "verify")
  /\ UNCHANGED <<host, lock, found, alone, effect, others, failures>>

\* iptables-save, and snapshot_owned accepts what it shows.
TakeSnapshot(r) ==
  /\ run[r].pc = "rules" /\ ~Refused(host)
  /\ run' = [run EXCEPT ![r].pc = "restore", ![r].snap = SnapshotOwned(host)]
  /\ found' = [found EXCEPT ![r] = host] /\ alone' = [alone EXCEPT ![r] = TRUE]
  /\ UNCHANGED <<host, lock, effect, others, failures>>

\* The network, the rules or one of the commands are not as they must be, and
\* the restore was not run.
Stop(r) ==
  /\ \/ run[r].pc = "network" /\ ~host.network
     \/ run[r].pc = "rules" /\ Refused(host)
     \/ run[r].pc = "restore" /\ Applied(host, run[r].snap, run[r].bundle) = {}
  /\ Finish(r, "failed")
  /\ UNCHANGED <<host, found, alone, effect, others, failures>>

Restore(r) ==
  /\ run[r].pc = "restore"
  /\ \E h \in Applied(host, run[r].snap, run[r].bundle) : Change(r, h)
  /\ effect' = [effect EXCEPT ![r] = TRUE]
  /\ run' = [run EXCEPT ![r].pc = "recheck", ![r].committed = TRUE]
  /\ UNCHANGED <<lock, found, others, failures>>

\* The restore takes effect, and _run raises all the same: the command was
\* killed at its timeout.
RestoreTimesOut(r) ==
  /\ run[r].pc = "restore" /\ failures < MaxFailures
  /\ failures' = failures + 1
  /\ \E h \in Applied(host, run[r].snap, run[r].bundle) : Change(r, h)
  /\ effect' = [effect EXCEPT ![r] = TRUE]
  /\ Finish(r, "failed")
  /\ UNCHANGED <<found, others>>

\* Mutant: a failed check is reported and no more.
AfterFailedCheckReport(r) == Finish(r, "failed")

\* The except clause rolls back what was committed.
AfterFailedCheck(r) == Goto(r, "rollback") /\ UNCHANGED lock

\* The second inspection, and check() on it.
Verify(r) ==
  /\ run[r].pc = "verify"
  /\ IF Passes(host, run[r].bundle)
       THEN Finish(r, "ok") /\ alone' = [alone EXCEPT ![r] = TRUE]
       ELSE AfterFailedCheck(r) /\ UNCHANGED alone
  /\ UNCHANGED <<host, found, effect, others, failures>>

LoseNetwork(r) ==
  /\ run[r].pc = "recheck" /\ ~host.network
  /\ AfterFailedCheck(r)
  /\ UNCHANGED <<host, found, alone, effect, others, failures>>

\* A command fails or times out: before the restore nothing was done, after it
\* the rollback follows.
CommandFails(r) ==
  /\ run[r].pc \in Held \ {"rollback"} /\ failures < MaxFailures
  /\ failures' = failures + 1
  /\ IF run[r].committed THEN AfterFailedCheck(r) ELSE Finish(r, "failed")
  /\ UNCHANGED <<host, found, alone, effect, others>>

RollBack(r) ==
  LET result == RolledBack(host, run[r].snap, run[r].bundle) IN
  /\ run[r].pc = "rollback"
  /\ IF result = {} THEN Finish(r, "rollback_failed") /\ UNCHANGED <<host, alone, effect>>
     ELSE /\ \E h \in result : Change(r, h)
          /\ effect' = [effect EXCEPT ![r] = FALSE]
          /\ Finish(r, "failed")
  /\ UNCHANGED <<found, others, failures>>

\* The rollback's restore fails, or is killed at its timeout after it took effect.
RollBackFails(r) ==
  /\ run[r].pc = "rollback" /\ failures < MaxFailures
  /\ failures' = failures + 1
  /\ Finish(r, "rollback_failed")
  /\ \/ UNCHANGED <<host, alone, effect>>
     \/ /\ \E h \in RolledBack(host, run[r].snap, run[r].bundle) : Change(r, h)
        /\ effect' = [effect EXCEPT ![r] = FALSE]
  /\ UNCHANGED <<found, others>>

\* What a kill leaves running: the iptables-restore the tool had begun, with
\* the payload of the bundle or with that of the rollback.
Survivor(pc) ==
  CASE pc = "restore"  -> "orphan"
    [] pc = "rollback" -> "rollback_orphan"
    [] OTHER           -> "killed"

\* The tool is killed; the lock goes with it, a restore it had begun may not.
Kill(r) ==
  /\ run[r].pc \in Held /\ failures < MaxFailures
  /\ failures' = failures + 1
  /\ Finish(r, Survivor(run[r].pc))
  /\ UNCHANGED <<host, found, alone, effect, others>>

\* It was killed too, or had not begun; or it commits, without the lock.
OrphanEnds(r) ==
  /\ run[r].pc \in Orphans
  /\ \/ UNCHANGED <<host, alone, effect>>
     \/ /\ run[r].pc = "orphan"
        /\ \E h \in Applied(host, run[r].snap, run[r].bundle) : Change(r, h)
        /\ effect' = [effect EXCEPT ![r] = TRUE]
     \/ /\ run[r].pc = "rollback_orphan"
        /\ \E h \in RolledBack(host, run[r].snap, run[r].bundle) : Change(r, h)
        /\ effect' = [effect EXCEPT ![r] = FALSE]
  /\ Goto(r, "killed")
  /\ UNCHANGED <<lock, found, others, failures>>

-----------------------------------------------------------------------------
(* Everybody else                                                          *)

\* What others can make of the rules in one step: the kernel refuses to remove
\* a chain something refers to, and to refer to one that is not there.
Altered(h) ==
  {[h EXCEPT !.user = <<"foreign">> \o @], [h EXCEPT !.forward = ~@],
   [h EXCEPT !.network = ~@]}
  \cup {[h EXCEPT !.user = RemoveAt(@, i)] : i \in DOMAIN h.user}
  \cup (IF h.chain = "none"
          THEN {[h EXCEPT !.chain = "foreign"]}
          ELSE {[h EXCEPT !.user = <<"bare">> \o @]}
               \cup {[h EXCEPT !.chain = c] : c \in {"other", "foreign"} \ {h.chain}})
  \cup (IF h.chain # "none" /\ References(h) = {} THEN {[h EXCEPT !.chain = "none"]} ELSE {})

Others ==
  /\ others < MaxOthers
  /\ others' = others + 1
  /\ \E h \in Altered(host) : host' = h
  /\ alone' = [r \in Runs |-> FALSE]
  /\ UNCHANGED <<lock, run, found, effect, failures>>

\* A reboot leaves neither rules nor processes.
Reboot ==
  /\ others < MaxOthers
  /\ others' = others + 1
  /\ host' = [host EXCEPT !.forward = TRUE, !.user = <<>>, !.chain = "none"]
  /\ run' = [r \in Runs |->
               IF run[r].pc \in Held \cup Orphans THEN [run[r] EXCEPT !.pc = "killed"]
               ELSE run[r]]
  /\ lock' = Nobody
  /\ alone' = [r \in Runs |-> FALSE]
  /\ UNCHANGED <<found, effect, failures>>

ToolStep(r) ==
  \/ Lock(r) \/ InspectNetwork(r) \/ TakeSnapshot(r) \/ Stop(r) \/ Restore(r)
  \/ RestoreTimesOut(r) \/ Verify(r) \/ LoseNetwork(r) \/ CommandFails(r)
  \/ RollBack(r) \/ RollBackFails(r) \/ Kill(r) \/ OrphanEnds(r)

Next == (\E r \in Runs : ToolStep(r)) \/ Others \/ Reboot

Spec == Init /\ [][Next]_vars

-----------------------------------------------------------------------------

\* Forwarded packets of the bridge go through the chain and end in its DROP.
Filtered(h) ==
  h.forward /\ h.user # <<>> /\ h.user[1] \in Bundles /\ h.chain \in Valid

\* No step of the tool opens a bridge that was filtered, unless it takes back
\* its own rules from a host that had none: not between the old rules and the
\* new ones, not in a rollback, not with a snapshot that others have made
\* stale.  (the single COMMIT of both payloads)
NeverOpens ==
  [][\A r \in Runs :
       ToolStep(r) /\ Filtered(host) /\ run[r].snap # Absent => Filtered(host')]_vars

\* The rules of t that are not marked jumps are those of s, in the same order.
Foreign(s) == {i \in DOMAIN s : s[i] \notin Bundles}
KeepsForeign(s, t) ==
  \E f \in [Foreign(s) -> Foreign(t)] :
    /\ \A i \in Foreign(s) : t[f[i]] = s[i]
    /\ \A i, j \in Foreign(s) : i < j => f[i] < f[j]
    /\ \A k \in Foreign(t) : \E i \in Foreign(s) : f[i] = k

\* The tool never removes, adds or reorders a rule of DOCKER-USER that is not
\* a marked jump, whatever happened to it since the snapshot.
\* (build_apply_payload, build_rollback_payload)
ForeignUntouched ==
  [][(\E r \in Runs : ToolStep(r)) => KeepsForeign(host.user, host'.user)]_vars

\* After a run that says "ok" the host enforces its bundle until another run or
\* somebody else changes it, also when others interfered before the check.
\* (the second inspection)
OkIsEnforced ==
  \A r \in Runs : run[r].pc = "ok" /\ alone[r] =>
    Filtered(host) /\ host.user[1] = run[r].bundle /\ host.chain = run[r].bundle

\* A run that fails leaves the rules as it found them, when nobody else changed
\* them: only "rollback_failed", a kill and a restore whose outcome was lost
\* leave something behind.  (the except clause of apply_bundle)
FailureLeavesNothing ==
  \A r \in Runs :
    run[r].pc = "failed" /\ alone[r] /\ (effect[r] => run[r].committed)
      => [host EXCEPT !.network = TRUE] = [found[r] EXCEPT !.network = TRUE]

\* The module's own words: "later failures use a best-effort rollback".  A run
\* that ends as failed has taken back what its COMMIT did.
LaterFailuresRollBack == \A r \in Runs : run[r].pc = "failed" => ~effect[r]

=============================================================================
