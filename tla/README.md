# TLA+ specifications of netops-helper and netops-auditor

The repository holds two programs. **netops-helper** lets an MCP client run
read-only diagnostics on enrolled network devices: a local proxy injects
credentials into each call and forwards it over ssh to a server process in a
container, and an installer puts that container behind a host firewall.
**netops-auditor** takes snapshots of device configurations, makes findings of
them by rules, and keeps runs, findings and an accepted baseline in SQLite. This
directory models both with TLA+, checks the models with TLC, and proves with
TLAPS that what TLC finds on small instances holds for all values of the
constants.

Paths below are relative to `components/`; *helper* is `netops-helper`,
*auditor* is `netops-auditor`.

## 1. Inventory

| Component | State it keeps | Operations | Correct when |
|---|---|---|---|
| Proxy threads, `helper/scripts/remote_mcp_proxy.py` | `pending`, `pending_tools`, `response_secrets`, `control_payloads` per id; `session_secrets`; stdout | `request()` on the main thread, `response()` on the response thread | each line is answered once, as its kind demands; no id is lost or shared; no credential returns; an envelope is consistent |
| Proxy rate window, same file | `rate_history` per alias | `_consume_rate_limit`, `_rate_status` | never more grants in a window than allowed; the announced wait is right |
| Proxy authorization, same file | none (reads vault, policy, known_hosts) | `_validate_record`, `_validate_target_policy`, `_validate_target_binding`, `_validate_tool_arguments`, `_authorize_tool`, `_auth_context` | it admits what the server admits, and no more than the guide allows |
| Proxy transport, same file | ssh child, askpass socket, stderr state | `main`, `_AskpassHandoff`, `_drain_stderr` | the secret is handed out once; the process ends, with a status that is true |
| Server `ssh_read`, `helper/src/netops_helper/engine.py` | `_SSH_PAGE_CACHE` | `ssh_read` and its three locked sections | pages come from one output, in time, in bounds |
| Server audit, `engine.py`, `audit.py` | five files shared by all sessions; a lock per process | `_audit_device_call`, `record`, `_rotate` | nothing happens on a device unaudited; rotation loses no more than it must |
| Server authorization, `auth.py`, `read_policy.py` | none | `TargetAuth.decode`, `EgressPolicy`, `render_read_query` | as for the proxy |
| Other device tools, `engine.py`, `server.py` | none | one network call each | connections go where the policy says, passwords to peers that were identified |
| Query catalog, `idle.py` | none | - | - |
| Egress installer, `helper/scripts/apply_egress_rules.py`, `check_egress_rules.py` | the host's firewall, shared with everybody; a lock file | `apply_bundle`, `main`, `check` | no open moment; foreign rules untouched; "ok" and "failed" mean what they say |
| Egress generator, `generate_egress_rules.py` | none | `build_manifest`, `build_ruleset`, `build_bundle` | the rules are the scopes |
| Auditor executions, `auditor/src/netops_auditor/cli.py`, `collect.py`, `store.py` | tables `runs`, `findings`, `baseline`, `channel_events`; a temporary directory with the private key | `run`, `collect`, `status` | reports agree with the store; who accepts is shown what; events are in order and complete; the key is removed |
| States of findings, `state.py`, `suppressions.py` | none | `classify` | new, known, suppressed and gone mean what they say |
| Auditor MCP server, `mcp_server.py`, `query.py` | none (reads the store) | `list_findings`, ... | its answers agree with the reports |
| Auditor parser and rules, `l1_fortios.py`, `checks_fortios.py`, `engine.py` | none | `parse`, `run`, `missing_sections` | the findings are what is wrong with the device, however its text is written |
| Release tooling | none | checks of the repository | not part of the running system |

How they interact. The MCP client writes lines to the proxy's stdin; the main
thread answers some itself and writes the others to the ssh child, whose lines
the response thread transforms and writes to the shared stdout. The operator
edits the vault and the policy file at any time, and generates and installs
firewall rules from them. The server runs in one process per session; the tools
of a session share its page cache and its audit lock, all sessions share the
audit files. The installer shares the iptables ruleset with Docker and everyone
else on the host. Executions of the auditor and its MCP server share a SQLite
file and nothing else.

What is hard here: two threads over four maps with ids the client chooses; files
read one after the other while they are edited; one policy validated by three
programs; names and endpoints that the network chooses; a shutdown of three
threads and a child through timeouts; a cache shared by calls in threads; a log
rotation of six system calls that may stop anywhere, under a lock that other
processes do not see; a firewall that changes between snapshot and restore, and
commands whose outcome is unknown after a timeout; transactions of several
executions that interleave, ordered by a wall clock of whole seconds; a
configuration language that says one thing in many ways. PROJECT.json lists each
hazard at its line, with the properties that cover it.

## 2. Modules

| Module | Models |
|---|---|
| `RateLimit` | the rate window of one proxy process, with a clock finer than the second |
| `Proxy` | both threads of the proxy, the maps, vault and policy under edit, the server as far as its lines go |
| `Ledger` | the abstract promise of the proxy: every request answered once, suitably, eventually |
| `Transport` | one session of the proxy process: ssh child, password handoff, pipes, threads and shutdown |
| `ReadPolicy` | platforms, queries, their typed parameters and how each is rendered |
| `TargetPolicy` | what the proxy validates, authorizes and forwards |
| `ServerAuth` | what the server decodes, admits, connects to and logs in to |
| `EgressRules` | what the generator accepts and writes, and what its checker takes |
| `Enrollment` | composes the last four: a call through proxy, server and network, with edits and installations in between |
| `PageCache` | `ssh_read` and the page cache |
| `AuditLog` | the audit wrapper and the rotation, one system call a step |
| `EgressApply` | the installer and its check against a host others change |
| `FortiOS` | the parser: logical lines, tokens, the tree |
| `Rules` | the six checks, the engine, fingerprints and the completeness gate |
| `Configurations` | a reference: devices, what is wrong with them, and their texts |
| `Auditor` | executions of the auditor and MCP calls over the store, on top of `Rules` |
| `RateLimitProofs`, `ProxyProofs`, `TransportProofs`, `PageCacheProofs`, `AuditLogProofs`, `EgressApplyProofs`, `AuditorProofs`, `EnrollmentProofs` | the theorems about these eight modules, with their invariants and lemmas |
| `MC*` | constants for TLC; `MCAuditor` also has the property that joins `Auditor` and `Configurations` |

Every action carries the name of the function or of the step in it that it
models. Definitions with a comment *Mutant* are variants with a plausible bug;
nothing uses them, they document what the property they are listed with in
PROJECT.json would catch.

### Proxy

The variable `main.pc` says how far `request()` has come with the latest line.
Steps end where another thread or the operator can interfere: each section under
`pending_lock`, each write to the maps, each file read, each line written.
`_validate_tool_arguments` touches nothing shared and is folded into the kind
"malformed". `response()` is two steps: taking the entries out of the maps, and
cleaning and writing the line with the session credentials of *that* moment. A
record is its generation; the policy of an alias is the set of generations whose
host its addresses allow, so that `Binding` is `_validate_target_binding` for
hosts given as addresses (a DNS name passes whenever the policy allows DNS).
Fail stands for every ProxyError of `_load_*`, `_authorize_tool` and
`_auth_context`; `Enrollment` has their decisions.

`Ledger` is what a client may expect of the proxy, without threads and maps: a
line is of a kind, and gets at most one of the outcomes its kind allows, and in
the end gets one. `Proxy` ends with the mapping (`Promise`): the kind of a line
that was read and expects an answer, and the answer that was written.

About the server it is assumed that it answers a request once and only after it
was sent, drops tools/call notifications (so that the credentials of one, which
`session_secrets` does not get, stay there), and puts credentials into JSON
lines only. JSON-RPC batches, envelope errors answered with id null, and an end
of the response thread on undecodable bytes are left out.

### RateLimit

Ticks are fractions of a second, since `time.monotonic()` is finer than
`retry_after_seconds`. `EditLimit` is the operator saving another limit, which
the next call reads. `shortest` is a ghost: grants that a shorter window let go
are forgotten, so the promise holds for the shortest window the alias had.
`rate_lock` is only ever taken by the main thread and has no step. After the
operator lowers a limit the wait announced is for the oldest call only and may be
too short; `RetryAfterExact` leaves out that case (`crowded`).

### Transport

What `request()` and `response()` do with a line is `Proxy`; here a line of the
client is answered locally or forwarded, and a line of the child is its number.
`main` goes through the setup, the loop over stdin, the end of the child's
stdin, the join of the response thread, up to three waits for the child with
`terminate()` and `kill()` between them, the join of the stderr thread and the
last diagnostic. There is no clock: a join or a wait runs out whenever what it
waits for has not happened. `hurried` is a ghost that remembers which joins ran
out. When main returns the daemon threads stop where they are. The pipes to and
from the child and the client's stdin hold `PipeSize` lines; stdout blocks while
the client is "stalled". The socket is abstract and may be called by any local
process; `SO_PEERCRED` tells the proxy's own user from a "stranger".
A handoff that was made before ssh failed to start goes with the process. That
Popen returns without pipes does not happen and is left out.

### ReadPolicy, TargetPolicy, ServerAuth, EgressRules, Enrollment

The first is used by the three others, which translate `remote_mcp_proxy.py`,
`auth.py` with `engine.py`, and `generate_egress_rules.py` with
`check_egress_rules.py` separately, as the code has them separately. A
validator is a predicate, or the category of its error where the proxy reports
one; a normalizer is the set of its results, empty where it raises. JSON values
of the wrong type are values outside the range the check allows. A path is how
many slashes it starts with, its components, and whether it is its own
`PurePosixPath` text; a value of the inventory its letters, numbers and odd
characters, which is what the patterns of `read_policy.py` look at. A line of
known_hosts is a set of host tokens, a key and a marker (`@revoked`,
`@cert-authority`), which `SelectKnownHosts` passes on as the proxy does. What the SSH
libraries of the server make of a marked line - taking a host certificate, refusing a
revoked key - is not in the repository and left out: in `KnownKeys` a marked line makes
no host key known.

In `Enrollment` a call goes through its stages: arguments, record, policy,
envelope (the proxy, each reading its file at its own moment), decoding and
admission, resolution, connection and passive endpoint (the server). `Edit`
replaces the files and `Install` the firewall chain at any time. DNS answers any
set of addresses, a device names any endpoint, and any peer with any host key and
certificate may answer; `told` is a ghost of who got the password. Its
assumptions say what the constants are: the values in a file have the JSON types
that every reader tests first, and are otherwise any; an enrolled address or name
is written in its canonical form and is neither blank nor an IPv6 address, which
stand for what the readers refuse.

The validators differ where they are meant to, and `ValidatorsAgree`, which looks
at the aliases a call can name, says each difference: the proxy takes only canonical
platforms, hosts and roots and checks the rate limit (so does the generator), which
the server takes as the proxy sent it; the generator wants resolvers for DNS and no
range over the credential port it derives. One difference is at a boundary: the
generator bounds the list of ports it reads and then adds the credential port, and the
checker bounds the list it finds. A target with 256 TCP ports and a query or a root gets
a bundle that `check_egress_rules.py` and with it the installer refuse.

### PageCache

An output is its length in units, a page a range. The three locked sections
(load, store, pop) and the device call are the steps. `ReadExpired` also stands
for an offset that is outside the cached output or inside a character.

### AuditLog

Names, files and handles are told apart, so that a rename under an open handle,
or a second process, does what it does on a file system. Writes are whole: torn
records and the loss of unsynced data in a power failure are left out.

### EgressApply

The ruleset is the part the tool reads or writes: the first FORWARD jump, the
DOCKER-USER rules by kind, and the private chain. A bundle is its jump and its
rules, both marked with its digest; what the rules accept is `EgressRules`. A
payload either applies as a whole or not at all, and does not when one of its
commands does not fit the rules of the moment. `Others` is anything the kernel
lets others do; `Reboot` empties the rules. A timeout kills the command's
process, which may have committed; after SIGKILL of the tool its child, the
restore of the bundle or that of the rollback, may still commit, when the lock is
free (`Survivor`, `OrphanEnds`).

### FortiOS, Rules, Configurations

A line is a sequence of characters in which a whole word counts as one: the
reader tells apart the blank, the quote, the backslash, the comment sign and the
line break. The tree is a function from paths to nodes, so that a block that
comes again is the node it was before. `Reading` is a fold that TLC can take over
some hundred lines (FoldLeft of the library recurses too deep there).

`Configurations` is the reference definition: a device is a record of its
settings, `Defects` says by the titles of the catalogue what is wrong with it,
and `TextOf` writes it down in five styles: plainly, with indentation and
comments, in reverse order of the blocks, with every section opened again for
each entry, and with a quoted comment of several lines that look like blocks.
The parser and the rules must find the defects in every one of these texts.

What the parser does not do, met on the way and named in the hazards: a quote
after an escaped backslash is taken for escaped when lines are joined, so that
one value ending in a backslash makes the text unreadable (an error, which
`BackslashIsRefused` shows) and two of them hide what is between; the
completeness gate looks at lines and not at blocks, so that a text that was cut
passes it if each section began before the cut, in a quoted value or in an
earlier block of the same name. `CutsAreNoticed` therefore speaks of the styles
in which a section is begun once.

### Auditor

One tenant and one device: every statement names both. An execution finds any of
the texts of the instance, because the configuration may have changed in any way
since the last one, and what it records is what `Rules` makes of it, with the
completeness gate for what was collected. `steady` and `alone` are ghosts that
say when two executions overlapped or the clock went back. Findings of a run
never change, so the selects of `list_findings` on them are one step with the
select of the runs; the time of the call is taken there, and the baseline is read
later. `Die` is a kill, a database that stays busy (not a StoreError) or an output
nobody reads, and may come between any two steps. The removal of the private key may
fail, in which case the code goes on as if it had not (`Shred`), and the store may refuse
the event of a failure (`Trace`). The events are a sequence, as `channel_events` returns
them. The texts are those that parse, those the completeness gate keeps from being parsed
and those that end the execution in `Evaluate`. The suppression file is constant.
Executions without `--store` keep no state and are left out, as are `status` and the other MCP tools
(`audit_status`, `finding_detail`, `compare`), which select from the same tables:
with them the instance takes TLC too long.

## 3. Runs

| Run | Instance and bounds | Shows |
|---|---|---|
| `RateWindow` | one alias, two limits, ticks of half a second, clock to 10 | `WindowRespected`, `RetryAfterExact` |
| `Proxy` | 2 ids, 2 lines of every kind, 1 slot, 1 edit, 1 line of the server's own, fairness | `AnswersMatchRequests`, `PendingExact`, `NoCredentialReachesClient`, `EnvelopeIsBound`, `SlotsAreForForwardedCalls`, `ImplementsLedger` |
| `Transport` | 2 lines of the client, 2 of the child, 1 of stderr, 2 calls at the socket, pipes of one line, fairness | `SecretGoesOnce`, `ReturnIsHonest`, `MainReturns` |
| `PagesOwn` | 3 readers of 3 queries, 2 entries, TTL 2, outputs to 3 units | `OneSnapshot`, `NoneOutlivesTTL`, `RetainedUnlessCrowded`, `LastPageReleases` |
| `PagesShared` | 2 readers of one query | **violates** `OneSnapshot` |
| `AuditOne` | 4 calls of a process, 3 segments of 3 units, 2 failures | `AuditedBeforeAndAfter`, `RetainedIsSuffix`, `EnoughRetained` |
| `AuditTwo` | 2 sessions, no failure | **violates** `SegmentsBounded` |
| `EgressApply` | 2 runs, 2 bundles, 2 changes by others, 2 failures | `NeverOpens`, `ForeignUntouched`, `OkIsEnforced`, `FailureLeavesNothing` |
| `EgressTimeout` | 2 runs, 1 failure, nobody else | **violates** `LaterFailuresRollBack` |
| `Enrollment` | 3 enrollments, 126 variants, 41 calls, 1 edit, any number of installations and calls | `ValidatorsAgree`, `GatesAgree`, `ConnectionsEnrolled`, `ChainFitsCalls` |
| `Auditor` | 2 executions of run, file or ssh, 1 MCP call, 3 texts, 2 fingerprints one of which is suppressed for a time, clock 0..1, 1 change, 1 failure; 31 devices in 5 styles | `QueryAgreesWithReport`, `AcceptedAsNew`, `AcceptedStaysKnown`, `RunsAreTraced`, `KeyIsShredded`, `FindingsAreDefects` |
| `AuditorEvents` | 1 collection over ssh, no kill, no store that refuses | **violates** `EveryCommandIsAnEvent` |

Each `TypeOK` also has the limits the code keeps: the entries of the page cache,
the size of the log segments of one process, the backlog of the socket, the
deque of the rate window.

Why the bounds are enough. Windows: 10 ticks hold two windows of the longer
limit and an edit between them. Proxy: an id must be used, released and used
again while what the first use left is still on its way, which takes two lines on
one id, and a line of the server's own may come between them; two lines on two ids
give the two threads different entries to confuse. One slot lets a second device call be
refused, while pages and control calls pass. That a third line adds nothing is
not a matter of bounds: all six invariants and the safety of the refinement are proved
for any number of lines and ids. A generation race takes one edit, of the vault
or of the policy, between the two reads, and files that begin at any generation.
Aliases do not interact except through the credentials of the session, so one is
enough. Transport: a pipe of one line is full after one,
two lines of the child show their order, two calls at a socket with one place
overflow it, and each timeout may occur at every moment. Cache: three readers on two
entries evict; three outputs of three units make a first, a middle and a last
page. Log: three segments are the least with a middle one that is shifted, and
four calls write eight records, enough to fill and rotate all of them.
Installer: two runs race for the lock or follow each other. Enrollment: the
variants change one field of an enrollment to each value a check tells apart, as
`helper/tests/test_policy_parity.py` does; `MaxItems` 3 and `MaxRanges` 2 stand for
256 and 64; one edit separates any two of the three reads or the chain from the
files. Auditor: two runs give a previous one to compare with, two executions a
race for acceptance; runs of the same second and of different seconds occur; the
three texts are a device with a finding, the same text without its last line, which does
not parse, and a clean one that was cut, which has no finding as a file and that of the
completeness gate as a collection. One failure is a kill between any two steps, a
removal that fails or an event the store refuses.

TLC stops in states with no successor once the bounds are used up, and a
real client, host or operator may stop as well, so all runs but `RateWindow` and
`Enrollment` (in which the next call or status request is always possible) turn
the deadlock check off.

**Findings.** Four runs end in a violation, each of a sentence of the docs:

* `PagesShared`: "A continuation uses the same snapshot" (security-model.md:69).
  The key of the cache has no notion of a reader. A second read of the same query
  at offset 0 replaces the output under the first; its offset then points into
  another text. `content_sha256` lets a careful client notice.
* `AuditTwo`: "The active file and four retained segments are limited to 2 MB
  each" (security-model.md:85). `_LOCK` is a lock of one process, and two sessions
  can pass the size check together.
* `EgressTimeout`: "later failures use a best-effort rollback" (the docstring of
  apply_egress_rules.py). `committed` is set after the command returned; a commit
  whose command times out is not rolled back.
* `AuditorEvents`: "every command sent to a device is one `ChannelEvent`"
  (auditor/docs/channels.md:14). A collection over ssh sends two commands. When the
  second fails, `_collected` keeps the one event the error carries (cli.py:532) and
  that of the first command is lost; when what was collected does not parse, the
  execution ends with the tuple of events in its hands (cli.py:602). `RunsAreTraced`
  says what the table does hold, and is what is proved.

**Fairness.** `Proxy`: weak fairness of the main thread within `request()`, of
the two steps of the response thread, and of the server's answer to each request.
The interpreter runs both threads as long as the process lives, neither blocks on
a lock the other keeps, and a server that answers no more is a failure of the
transport, which is the next run. `Transport`: weak fairness of main's steps, each
of which is one statement that is either enabled or blocked, and of the child's
reading of its stdin while it runs: `child.stdin.write` has no timeout, so an ssh
that stays up and never reads keeps main for ever. The same holds for a client that
stops reading stdout while main answers a line; `MainReturns` excuses one that
stalls for good and no other. Nothing else is fair there: the child need not exit,
not even when it is killed, and the threads need not move, because every join and
wait has its timeout. The client, the operator and the server's own lines are
under no fairness in either run.

## 4. Proofs

Eight modules hold the theorems that PROJECT.json lists. Together they state every
invariant and every action property of the passing runs except
`FindingsAreDefects`, and some properties that no run has (said below), for all
values of the constants that the named assumptions of the modules admit: any number
of ids, readers, calls, runs, executions and aliases, any limits and sizes, any files,
any bounds on failures and edits. Each proof follows one pattern: an invariant that
holds at the start and is kept by every action, one step of the proof for each
action, and the properties as its consequences. The lemmas of a module come first
and say what its operators and its steps do.

### RateLimit

`RateTypeCorrect` and `RateWindowRespected`. `WindowRespected` speaks of grants the
deque has dropped and is not inductive. `WindowInv` adds that the deque holds the
times of the latest grants, in order (`KeepsLatest`), that what was dropped is at
least the shortest window old (`DroppedAreOld`), and that no current window is
below the shortest (`ShortestIsShort`). A grant then finds the call r places
before it either in the deque, past which it was admitted only because it had
expired, or among those dropped.

`WaitsAreExact`: `RetryAfterExact`. Whether a call would be taken is the guard of
`Admit`, stated as `MayAdmit` because ENABLED is out of the provers' reach. `WaitInv`
remembers the first entry the refused caller was measured by: while it is in the
deque the deque is full, and once it is gone its window is over and there is room.
That `math.ceil` covers the distance, and a second less does not, is the lemma
`RetryAfterCovers`; that pruning stops at the first live entry is `PruningEnds`.
Assumed: at least one request per window (`LimitsAssumption`) and a positive
resolution (`ClockAssumption`).

### Proxy

Each invariant adds to the one before.

* `PipeInvariant`, `ProxyTypeCorrect`: types, with two strengthenings. `OutIsSent`:
  what is at the server, in its pipe or in the response thread is a line that was
  read and expects an answer, under its id - without it the type of an answer's
  place cannot be shown. `OnPath`: each step of `request()` is only reached by the
  kinds of call that have it.
* `CredentialsStay`: `NoCredentialReachesClient`. The invariant behind it says
  that all the server learned is in `session`, that every line in a pipe carries
  only what is in `session`, and that a device call that expects an answer and is
  about to be written has its credentials there: recording before writing is what
  makes it inductive.
* `EnvelopesAreBound`: `EnvelopeIsBound`, since the record and the addresses kept
  by the main thread do not change between the check and the write.
* `IdsAreHeldOnce`: `PendingExact`. A request is in one place at a time
  (`OnePlace`): at main, at the server, once in the pipe, or in the response thread.
* `AnswersMatch`: `AnswersMatchRequests`. The entries of the four maps are those of
  the one line that holds the id (`OutEntered`, `ThreadEntered`, `MainEntered`),
  whether it waits, is in the thread or is at main, and nothing on its way has been
  answered (`Unanswered`). All of it together is `AnswerInvariant`.
* `PromiseIsSafe`: `Spec => Promise!Safe`, where `Safe` is `Ledger` without its
  fairness: the initial states map to the initial state of the ledger, and every
  step of the two threads to reading a line, giving one an outcome its kind allows,
  or a stutter. That an outcome comes in the end is the part of `ImplementsLedger`
  that stays with TLC.
* `SlotsAreForForwarded`: `SlotsAreForForwardedCalls`. A call has its slot from
  `ConsumeRate` to the write, and none before (`SlotAtMain`).
* `NoLineIsForgotten` and `EveryLineMovesOn`: all that the liveness of
  `ImplementsLedger` rests on but the fairness itself. A line that expects an answer
  and has none is always with somebody: the main thread, the server, the pipe to the
  response thread or that thread. `Way` is the pair of its place and of what is
  still to be done there, the steps of `request()` ahead of it or the lines ahead of it in
  the pipe. No step of anybody makes the way longer, a step of the one whose turn it
  is makes it shorter (`WaysOnlyShorten`), and it is a pair of naturals, whose order
  is well founded (`WayIsFinite`, `ShorterIsWellFounded`). That the guard of each place
  is ENABLED of the step of its holder was compared with TLC on the instance of
  `Proxy`.

### Transport

From the types and the order of main's steps:

* `TransportTypeCorrect`: types and the sizes of pipes, backlog and captured text.
* `PasswordGoesOnce`: `SecretGoesOnce` is inductive once `Beginning` says that
  nobody is served before the child was started.
* `ExitIsHonest`: `ReturnIsHonest` speaks of the end only. Its invariant follows
  three stories to that end: `Statuses` (the code is the child's or that of a kill
  in vain), `Diagnoses` (one class of the captured text, written between the end of
  stderr and `emitted`, and what a join that ran in time entitles main to assume),
  and `Replies` (delivered, held and waiting lines are the child's lines in order,
  so that an ended response thread has delivered all).
* `MainIsNeverStuck` and `MainMovesToItsEnd`: what `MainReturns` rests on but the
  fairness. After the end of stdin, and while the client reads, main has a step or the
  child can make room for the line main is writing; each step of main lowers `Rank`,
  no other step raises it, and a guard of main that holds stays true until main
  moves. `MayGoOn` states these guards, as ENABLED cannot be proved about; that it is
  the same as ENABLED of main's steps was compared with TLC on the instance of `Transport`.

`TransportAssumption` gives the limits their types; backlog, pipes and captured
text hold at least one entry.

### PageCache

* `CacheInvariant`, `TypeCorrect`, `PagesAreRecent` (`NoneOutlivesTTL`) hold for any
  readers. `StoreInv` counts the stores: an entry has the number of its store, no two
  have the same, and every number was given to an output. `WaitsAlone` says that an
  output that waits to be stored has one thread that stores it.
* `OwnInvariant`, `ReadersReadOneOutput` (`OneSnapshot`), `OutputsAreRetained`
  (`RetainedUnlessCrowded`) and `LastPagesRelease` (`LastPageReleases`) assume
  `OwnQueries`: no two readers run the same query. That is the condition of the run
  `PagesOwn`; without it `PagesShared` violates `OneSnapshot`. `OwnOK` says that the key
  of a reader holds the output it reads, or nothing. An entry is the victim of an
  eviction only if every other was stored later; that the store holds as many
  later ones is a statement on cardinalities, for which the numbers in `StoreInv` are
  there.

### AuditLog

* `AuditInvariant` and `DeviceCallsAreAudited` (`AuditedBeforeAndAfter`) hold for any
  processes on the files, with any failures and kills.
* `SessionInvariant`, `AuditTypeCorrect`, `FilesAreTheEnd` (`RetainedIsSuffix`) and
  `SegmentsAreKept` (`EnoughRetained`) assume `OneSession`: one process has all
  calls. With two, `AuditTwo` shows that a segment outgrows its limit. The invariant
  says that there are two functions on the names: `cut` (the file of a name holds the
  written records between its cut and that of the next name) and `gap` (how many
  names below one are missing). A rotation has one gap of its own, above
  its index (`Slack`), and a rotation that stopped half way leaves at most one for
  good (`broken`). A backup is rotated only when it could not take every record
  (`Full`), so that the number of names that are there bounds what is retained from
  below.
* `OnlyTheOldestGoes`, under the same assumption, says it step by step (`OldestFirst`):
  what the files hold, read oldest first, stays as it is, or gets the record of the
  call at its end, or loses at its beginning exactly the oldest file, and this only
  in `Unlink` and when the active file is full. `FilesAreTheEnd` alone would allow
  a step that loses more.

### EgressApply

`EgressInvariant` is the story of one run: before its restore the host is as it was
found, after it as the payload makes it of that, and at a failure as it was found
again, each as long as nobody else changed it; at a failure the restore must also
not have taken effect without the tool's knowledge (`FoundOK`); after "ok" the
bundle is enforced (`EnforcedOK`). `OkMeansEnforced` (`OkIsEnforced`) and
`FailuresLeaveNothing` (`FailureLeavesNothing`) are its ends.
`StepsNeverOpen` (`NeverOpens`) and `ForeignRulesStay` (`ForeignUntouched`) are about every
step, the orphans of killed runs and of killed rollbacks included: a payload was built
from the run's snapshot, and where it applies to the rules of the moment it keeps the foreign ones,
their number and their order (`KeepsForeign`), whatever the length of the chain.

### Auditor

* `AuditorInvariant` relates executions and store at each step: `PlaceOK` (which
  kinds of execution are there, whether their run is stored and their key on the disk),
  `TraceOK` (what has been sent, and at which places of the table the events that will or
  do say so are), `BaseOK` (what an execution read of the baseline is still there, under
  another run than its own, unless an operator forgot it), `FoundOK` (the run of an
  execution has the findings it will print). Its consequences:
  * `AuditorTypeCorrect`.
  * `KeysAreShredded` (`KeyIsShredded`): no failing command, no failing preparation and no
    way to the end leaves the key. Two things do, and the property names them: a kill, and
    a removal that fails itself, which `rmtree(ignore_errors=True)` swallows
    (`left`).
  * `EventsAreTheCommands` (`RunsAreTraced`): the events of a stored run are a consecutive
    piece of the table, one for each command of its channel and in the order these were
    sent; or, between `record_run` and `record_channel_events` or after a kill there, none
    of them. That they are one piece rests on the transaction around them. Of an
    execution without a run there is at most the event of its failure. It does not say
    that every command has an event: that is `EveryCommandIsAnEvent`, which is violated.
  * `AcceptedWasReported` (`AcceptedAsNew`): an entry of the baseline was found by the run
    it names, and the execution of that run has printed it as new or suppressed, or is about
    to, or ended between the commit of the acceptance and its report, or the entry was
    forgotten by hand since. It does not say that somebody was told: a kill after the
    commit leaves a finding known that nobody was shown.
  * `AcceptedRemainKnown` (`AcceptedStaysKnown`).
* `QuietInvariant` and `QueriesAgree` (`QueryAgreesWithReport`): the part of the
  invariant that needs quiet, which is the premise of the property itself. If no two
  executions stored at the same time and the clock was not set back, the runs are in
  the order of their times (`InOrder`) and the run an execution compares with is the one before
  its own (`QuietOK`). The newest run by time and id is then the last one, which
  takes a greatest element of a set of numbers (`Greatest`).

The parser and the checks are functions of a text, and four theorems speak of every
text over every set of characters, not of the corpus of the run only:

* `LogicalLinesAreTheText`: the logical lines are the lines of the text, in order,
  none lost or read twice, joined exactly while a quote is open.
* `TreeIsWhatTheTextSays`: after each logical line, a node is there because a line
  began it in the block around it, an attribute is as the last line that names it in
  its block says, both with the number of that line; and every line that sets or unsets
  one is accounted for (`TreeSays`). What a line says is read with the tokenizer of the
  model, which the lemmas on `Tokenize` describe.
* `FindingsPointAtTheText`: the line of a finding is where its attribute or its
  section stands, or 0 for a section that is missing (`Grounded`).
* `LayoutDoesNotMatter`: two texts of which one is the other with blanks before lines
  and with lines that hold no command between them, all outside the quotes
  (`WrittenOtherwise`), are both readable or neither, and their findings have the
  same fingerprints. A comment that is put in must have an even number of quotes: the
  code counts the quotes of a line before it looks for `#`, so that an odd one opens a
  logical line.

### Enrollment

`EnrollmentInvariant`: a call at a stage has passed every check before it.
`CallInv` keeps the *results* of the checks and not the files they were made on,
because these are edited in between: the arguments are well formed, the record has
no error, record and normalized policy are enrolled together and authorize
the call, the envelope is made of them and of the known hosts of some file, the
server admitted it (`PassedBy`), a connection goes to the address the call chose at
a port in its scope (`ConnectionFits`). `ChainInv` says that the chain is the ruleset
of the files in `source`, which the generator took. Consequences:

* `ConnectionsAreEnrolled` (`ConnectionsEnrolled`), `TheGatesAgree` (`GatesAgree`),
  `EnrollmentTypeCorrect`.
* `TheValidatorsAgree` (`ValidatorsAgree`) needs no history. Each condition that the proxy,
  the server and the generator state in their own way is brought to the proxy's
  words by a lemma of its own (lists without repetition, ranges that do not
  touch, hosts and names, paths, typed values, inventories); `ProxyAccepted`,
  `ServerAccepted`, `GeneratorAccepted` and `BundlesTaken` put them together.
* `TheChainFitsCalls` (`ChainFitsCalls`): one lemma says what each rule of a bundle is
  for, another that each scope of a target has its rules in each profile.

### How the provers are used

Induction on numbers: the library's induction theorems take an operator as a
parameter, which the installed provers cannot instantiate. Where a proof needs
induction it takes the least counterexample instead, which exists by `WFMin` and
`NatLessThanWellFounded` (`AllNumbers` of `AuditLogProofs` and `AuditorProofs`,
`Smallest` and `Greatest` elsewhere). So it is proved, for instance, that the recursive
functions `Units` (the size of a file) and the concatenation of all files are what
their equations say, and that a fold over a text has a state after each of its lines
(`LinesRead`), which is what the theorems on the parser argue about.
A range with a large bound is given a name (`Port`, `MaxOffset`) and its
definition is used only where its numbers matter. `KeepsForeign` says by
places what "the same rules in the same order" means, because the provers do not
expand `SelectSeq`.

### Only model-checked

* `MainReturns` and the liveness part of `ImplementsLedger`: the last step, from fair
  actions that stay enabled and shorten the way to the end of the way, is out of the
  reach of these provers, as is ENABLED. What comes before it is proved
  (`MainIsNeverStuck`, `MainMovesToItsEnd`, `NoLineIsForgotten`, `EveryLineMovesOn`).
* `FindingsAreDefects`: that the findings of every text of every device are what
  `Configurations` says is wrong with it. The theorems on the parser hold for every
  text, but the texts of `TextOf` are built by nested folds over the settings of a
  device, and what these write would have to be proved style by style. It is checked
  on the corpus, all of it: its first part (`CorpusAgrees`) has no constants and no
  variables, so that the run leaves no instance out.

## 5. Not modelled

The reasons are in PROJECT.json, component by component. In short: wording and
patterns (redaction, rendering), what a network library sends and parses, the
command templates of the query catalogue and the patterns of four of the nine
platforms, base64 and JSON, the lengths of texts and the sorting of lists,
severities and evidence of findings, the loading of the rule catalogue, the MCP
tools of the auditor other than `list_findings`, the auditor's inventory and
vault files, and the release tooling.

Behaviour met on the way that a property admits or none covers, and why: a private key
that could not be removed stays on the disk without a word, although
auditor/docs/channels.md:86 has its directory removed "on every path" (`KeyIsShredded`
admits it, as the code notices nothing); a crash after the acceptance was committed and
before the report leaves findings known that nobody was told (`AcceptedAsNew` admits it),
and one after `record_run` leaves a disappearance unreported by the command line: the code
keeps no mark of a report that was printed; the order of runs is the order of recording,
not of collection; with two sessions a rotation may lose a whole backup; with a shared key
the last page of one reader drops the output another has just stored, which
`LastPageReleases` does not see, since it is stated for readers with queries of their own;
cut texts with repeated sections, and two values that end in a backslash, mislead the
auditor. They are listed as hazards with their lines.

## 6. Plan

1. *Proofs*. All safety properties of the runs are proved except
   `FindingsAreDefects`. Next: what `TextOf` writes in each of its styles, which with
   `TreeIsWhatTheTextSays` would give that property for every device, and the theorems
   for the compositions of the next item.
2. *Composition*: `EgressApply` with bundles of `EgressRules`, so that "ok" says
   what the host accepts; `AuditLog` and `PageCache` on the calls of one session.
3. *Query catalogue*: the two validators of its shape
   (`_validate_query_command`, `_validate_query_catalogs`) and the remaining
   platforms in `ReadPolicy`.
4. *Auditor*: `audit_status` and `finding_detail` in an instance of their own, in
   place of a run that is no longer needed.
