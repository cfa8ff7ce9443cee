------------------------------ MODULE Transport ------------------------------
(***************************************************************************)
(* scripts/remote_mcp_proxy.py, main(): one session of the proxy process.  *)
(* It starts the ssh child, hands the runner password to the askpass       *)
(* process ssh spawns, moves lines between client and child with two       *)
(* threads, drains the child's stderr with a third, and shuts down when    *)
(* stdin ends or a pipe breaks.                                            *)
(*                                                                         *)
(* What request() and response() do with a line is module Proxy; here a    *)
(* line of the client is "local" (answered at once) or "forward", and a    *)
(* line of the child is its number.  A timeout may fire whenever what it   *)
(* waits for has not happened: no clock is kept.  When main returns the    *)
(* interpreter exits and its daemon threads stop where they are.           *)
(***************************************************************************)
EXTENDS Integers, Sequences

CONSTANTS
  Backlog,       \* connections the listening socket keeps waiting
  PipeSize,      \* lines a pipe holds before its writer blocks
  Phrases,       \* what the child writes to stderr
  CapturedLines, \* lines of stderr that are kept (64 KiB)
  MaxLines,      \* bound on the lines of the client
  MaxReplies,    \* bound on the lines of the child
  MaxErrors,     \* bound on the lines of stderr
  MaxCalls       \* bound on the connections to the socket

\* Who calls at the socket: a process of the proxy's user, as the askpass helper
\* of ssh is, or of another.
Peers == {"user", "stranger"}
AllPhrases == {"host_key", "docker", "denied", "connection", "chatter"}

ASSUME TransportAssumption ==
  /\ Phrases \subseteq AllPhrases
  /\ Backlog \in Nat \ {0} /\ PipeSize \in Nat \ {0} /\ CapturedLines \in Nat \ {0}
  /\ MaxLines \in Nat /\ MaxReplies \in Nat /\ MaxErrors \in Nat
  /\ MaxCalls \in Nat

VARIABLES
  stdin,         \* lines of the client not read yet
  eof,           \* the client has closed stdin
  stdout,        \* the client "reads" it, is "stalled", or is "gone"
  sent,          \* lines the client has written
  main,          \* where main() is
  timedOut,      \* timed_out
  code,          \* exit_code, what main returns
  hurried,       \* ghost: the threads whose join timed out
  child,         \* ssh: "none", "running" or "exited"
  childCode,     \* its exit status
  toChild,       \* child.stdin
  childStdin,    \* its writing end: "open" or "closed"
  fromChild,     \* child.stdout
  written,       \* lines the child has written there
  responder,     \* the response thread: "none", "reading", "holding", "ended", "broken"
  inHand,        \* the line it holds
  delivered,     \* lines of the child that reached the client, in order
  stderr,        \* child.stderr
  errors,        \* lines the child has written there
  drain,         \* the stderr thread: "none", "reading", "reported", "ended"
  captured,      \* captured
  emitted,       \* stderr_state["emitted"]
  diagnostics,   \* categories written to the proxy's stderr
  handoff,       \* the handoff thread: "none", "waiting", "accepted", "closing", "ended"
  listener,      \* the abstract socket: "open" or "closed"
  secret,        \* whether the handoff still holds the password
  calling,       \* peers connected and not accepted yet
  peer,          \* the peer of the accepted connection
  calls,         \* calls so far
  got            \* the peers that received the password, in order

clientVars  == <<stdin, eof, stdout, sent>>
mainVars    == <<main, timedOut, code, hurried>>
childVars   == <<child, childCode, toChild, childStdin, fromChild, written, stderr, errors>>
threadVars  == <<responder, inHand, delivered>>
drainVars   == <<drain, captured, emitted>>
socketVars  == <<handoff, listener, secret, calling, peer, calls, got>>
vars == <<clientVars, mainVars, childVars, threadVars, drainVars, diagnostics, socketVars>>

NoPeer == "none"
NoLine == 0
Codes  == {0, 1, 2, 255}     \* 1 after a kill in vain, 2 before ssh runs, 255 a failed ssh
SetupCategories == {"runner_alias", "vault_permission", "vault_schema", "auth_material",
                    "ssh_transport"}
ErrorCategories == {"ssh_host_key", "remote_exec", "ssh_authentication", "ssh_connection",
                    "ssh_transport"}
Categories == SetupCategories \cup ErrorCategories \cup {"ssh_timeout"}

Init ==
  /\ stdin = <<>> /\ eof = FALSE /\ stdout = "reads" /\ sent = 0
  /\ main = "setup" /\ timedOut = FALSE /\ code = 0 /\ hurried = {}
  /\ child = "none" /\ childCode = 0
  /\ toChild = <<>> /\ childStdin = "closed" /\ fromChild = <<>> /\ written = 0
  /\ responder = "none" /\ inHand = NoLine /\ delivered = <<>>
  /\ stderr = <<>> /\ errors = 0
  /\ drain = "none" /\ captured = <<>> /\ emitted = FALSE
  /\ diagnostics = <<>>
  /\ handoff = "none" /\ listener = "closed" /\ secret = FALSE
  /\ calling = <<>> /\ peer = NoPeer /\ calls = 0 /\ got = <<>>

\* The process runs: its threads take steps only as long as main does.
Alive == main # "returned"
Report(category) == diagnostics' = Append(diagnostics, category)

-----------------------------------------------------------------------------
(* The client.                                                             *)

ClientSends ==
  /\ ~eof /\ sent < MaxLines /\ Len(stdin) < PipeSize
  /\ sent' = sent + 1
  /\ \E kind \in {"local", "forward"} : stdin' = Append(stdin, kind)
  /\ UNCHANGED <<eof, stdout, mainVars, childVars, threadVars, drainVars, diagnostics, socketVars>>

ClientCloses ==
  /\ ~eof /\ eof' = TRUE
  /\ UNCHANGED <<stdin, stdout, sent, mainVars, childVars, threadVars, drainVars, diagnostics, socketVars>>

\* It stops reading with a full pipe, reads on, or goes away.
ClientChanges ==
  /\ \/ stdout = "reads" /\ stdout' = "stalled" /\ UNCHANGED eof
     \/ stdout = "stalled" /\ stdout' = "reads" /\ UNCHANGED eof
     \/ stdout # "gone" /\ stdout' = "gone" /\ eof' = TRUE
  /\ UNCHANGED <<stdin, sent, mainVars, childVars, threadVars, drainVars, diagnostics, socketVars>>

-----------------------------------------------------------------------------
(* The ssh child, and through it the server.                               *)

ChildReads ==
  /\ child = "running" /\ toChild # <<>>
  /\ toChild' = Tail(toChild)
  /\ UNCHANGED <<clientVars, mainVars, child, childCode, childStdin, fromChild, written, stderr,
                 errors, threadVars, drainVars, diagnostics, socketVars>>

ChildWrites ==
  /\ child = "running" /\ written < MaxReplies /\ Len(fromChild) < PipeSize
  /\ written' = written + 1
  /\ fromChild' = Append(fromChild, written + 1)
  /\ UNCHANGED <<clientVars, mainVars, child, childCode, toChild, childStdin, stderr, errors,
                 threadVars, drainVars, diagnostics, socketVars>>

ChildComplains ==
  /\ child = "running" /\ errors < MaxErrors
  /\ errors' = errors + 1
  /\ \E p \in Phrases : stderr' = Append(stderr, p)
  /\ UNCHANGED <<clientVars, mainVars, child, childCode, toChild, childStdin, fromChild, written,
                 threadVars, drainVars, diagnostics, socketVars>>

Exits(status) ==
  /\ child = "running"
  /\ child' = "exited" /\ childCode' = status
  /\ UNCHANGED <<toChild, childStdin, fromChild, written, stderr, errors>>

\* The server ends when its stdin does; ssh may fail at any time.
ChildExits ==
  /\ \/ childStdin = "closed" /\ toChild = <<>> /\ Exits(0)
     \/ Exits(255)
  /\ UNCHANGED <<clientVars, mainVars, threadVars, drainVars, diagnostics, socketVars>>

-----------------------------------------------------------------------------
(* The handoff of the password.                                            *)

\* Mutant: the backlog is not bounded.
MutantPeerCalls(p) ==
  /\ Alive /\ listener = "open" /\ calls < MaxCalls
  /\ calls' = calls + 1 /\ calling' = Append(calling, p)
  /\ UNCHANGED <<clientVars, mainVars, childVars, threadVars, drainVars, diagnostics, handoff,
                 listener, secret, peer, got>>

\* A process connects; over a full backlog it gets an error and gives up.
PeerCalls(p) ==
  /\ Alive /\ listener = "open" /\ calls < MaxCalls
  /\ calls' = calls + 1
  /\ calling' = IF Len(calling) < Backlog THEN Append(calling, p) ELSE calling
  /\ UNCHANGED <<clientVars, mainVars, childVars, threadVars, drainVars, diagnostics, handoff,
                 listener, secret, peer, got>>

\* while child.poll() is None: accept.
Accept ==
  /\ Alive /\ handoff = "waiting" /\ calling # <<>>
  /\ handoff' = "accepted" /\ peer' = Head(calling) /\ calling' = Tail(calling)
  /\ UNCHANGED <<clientVars, mainVars, childVars, threadVars, drainVars, diagnostics, listener,
                 secret, calls, got>>

\* A loop finds that the child is gone.
StopServing ==
  /\ Alive /\ handoff = "waiting" /\ child = "exited"
  /\ handoff' = "closing"
  /\ UNCHANGED <<clientVars, mainVars, childVars, threadVars, drainVars, diagnostics, listener,
                 secret, calling, peer, calls, got>>

\* Mutant: the thread serves on after a delivery.
MutantHandOver ==
  /\ Alive /\ handoff = "accepted"
  /\ handoff' = "waiting"
  /\ got' \in IF peer = "user" THEN {got, Append(got, peer)} ELSE {got}
  /\ peer' = NoPeer
  /\ UNCHANGED <<clientVars, mainVars, childVars, threadVars, drainVars, diagnostics, listener,
                 secret, calling, calls>>

\* SO_PEERCRED: the password goes to a process of this user, and the thread
\* ends; a stranger is disconnected.  sendall fails when the peer has left.
HandOver ==
  /\ Alive /\ handoff = "accepted"
  /\ IF peer = "user"
     THEN handoff' = "closing" /\ got' \in {got, Append(got, peer)}
     ELSE handoff' = "waiting" /\ got' = got
  /\ peer' = NoPeer
  /\ UNCHANGED <<clientVars, mainVars, childVars, threadVars, drainVars, diagnostics, listener,
                 secret, calling, calls>>

\* finally: the password is dropped and the socket closed, with it whoever
\* still waits for an accept.
CloseListener ==
  /\ Alive /\ handoff = "closing"
  /\ handoff' = "ended" /\ listener' = "closed" /\ secret' = FALSE /\ calling' = <<>>
  /\ UNCHANGED <<clientVars, mainVars, childVars, threadVars, drainVars, diagnostics, peer, calls,
                 got>>

-----------------------------------------------------------------------------
(* The response thread and the stderr thread.                              *)

ReadReply ==
  /\ Alive /\ responder = "reading" /\ fromChild # <<>>
  /\ responder' = "holding" /\ inHand' = Head(fromChild) /\ fromChild' = Tail(fromChild)
  /\ UNCHANGED <<clientVars, mainVars, child, childCode, toChild, childStdin, written, stderr,
                 errors, delivered, drainVars, diagnostics, socketVars>>

\* write and flush under stdout_lock; without a reader BrokenPipeError ends
\* the thread.
DeliverReply ==
  /\ Alive /\ responder = "holding" /\ stdout # "stalled"
  /\ IF stdout = "reads"
     THEN responder' = "reading" /\ delivered' = Append(delivered, inHand)
     ELSE responder' = "broken" /\ delivered' = delivered
  /\ inHand' = NoLine
  /\ UNCHANGED <<clientVars, mainVars, childVars, drainVars, diagnostics, socketVars>>

\* Mutant: the thread stops when the child is gone, not at the end of its output.
MutantEndOfReplies ==
  /\ Alive /\ responder = "reading" /\ child = "exited"
  /\ responder' = "ended"
  /\ UNCHANGED <<clientVars, mainVars, childVars, inHand, delivered, drainVars, diagnostics,
                 socketVars>>

EndOfReplies ==
  /\ Alive /\ responder = "reading" /\ fromChild = <<>> /\ child = "exited"
  /\ responder' = "ended"
  /\ UNCHANGED <<clientVars, mainVars, childVars, inHand, delivered, drainVars, diagnostics,
                 socketVars>>

ReadError ==
  /\ Alive /\ drain = "reading" /\ stderr # <<>>
  /\ stderr' = Tail(stderr)
  /\ captured' = IF Len(captured) < CapturedLines THEN Append(captured, Head(stderr))
                 ELSE captured
  /\ UNCHANGED <<clientVars, mainVars, child, childCode, toChild, childStdin, fromChild, written,
                 errors, threadVars, drain, emitted, diagnostics, socketVars>>

\* The first class of which any phrase was captured.  "docker" stands for a
\* missing or refused docker command, whose text may hold "permission denied".
Classify(text) ==
  LET has(p) == \E i \in DOMAIN text : text[i] = p
  IN CASE has("host_key")   -> "ssh_host_key"
       [] ~has("host_key") /\ has("docker") -> "remote_exec"
       [] ~has("host_key") /\ ~has("docker") /\ has("denied") -> "ssh_authentication"
       [] ~has("host_key") /\ ~has("docker") /\ ~has("denied") /\ has("connection")
            -> "ssh_connection"
       [] OTHER -> "ssh_transport"

\* End of stderr: one diagnostic, if anything came.
ReportErrors ==
  /\ Alive /\ drain = "reading" /\ stderr = <<>> /\ child = "exited"
  /\ IF captured = <<>>
     THEN drain' = "ended" /\ UNCHANGED diagnostics
     ELSE drain' = "reported" /\ Report(Classify(captured))
  /\ UNCHANGED <<clientVars, mainVars, childVars, threadVars, captured, emitted, socketVars>>

\* state.update(emitted=True), after the line was written.
NoteEmitted ==
  /\ Alive /\ drain = "reported"
  /\ drain' = "ended" /\ emitted' = TRUE
  /\ UNCHANGED <<clientVars, mainVars, childVars, threadVars, captured, diagnostics, socketVars>>

-----------------------------------------------------------------------------
(* main().                                                                 *)

Goto(pc) == main' = pc

\* No runner record, a host ssh would take for an option, a script that is not
\* executable, no ssh: a diagnostic, and 2 is returned.  A handoff that was
\* made for a child that did not start is never served.
SetupFails ==
  /\ main = "setup"
  /\ Goto("returned") /\ code' = 2
  /\ \E category \in SetupCategories : Report(category)
  /\ UNCHANGED <<clientVars, timedOut, hurried, childVars, threadVars, drainVars, socketVars>>

\* The socket listens before ssh starts, and the threads after.
StartChild ==
  /\ main = "setup"
  /\ Goto("reading")
  /\ child' = "running" /\ childStdin' = "open"
  /\ listener' = "open" /\ secret' = TRUE /\ handoff' = "waiting"
  /\ responder' = "reading" /\ drain' = "reading"
  /\ UNCHANGED <<clientVars, timedOut, code, hurried, childCode, toChild, fromChild, written, stderr, errors,
                 inHand, delivered, captured, emitted, diagnostics, calling, peer, calls, got>>

ReadLine ==
  /\ main = "reading" /\ stdin # <<>>
  /\ Goto(IF Head(stdin) = "local" THEN "answering" ELSE "forwarding")
  /\ stdin' = Tail(stdin)
  /\ UNCHANGED <<eof, stdout, sent, timedOut, code, hurried, childVars, threadVars, drainVars, diagnostics,
                 socketVars>>

EndOfStdin ==
  /\ main = "reading" /\ stdin = <<>> /\ eof
  /\ Goto("closing")
  /\ UNCHANGED <<clientVars, timedOut, code, hurried, childVars, threadVars, drainVars, diagnostics,
                 socketVars>>

\* _emit: under stdout_lock, or BrokenPipeError out of the loop.
AnswerLocally ==
  /\ main = "answering" /\ stdout # "stalled"
  /\ Goto(IF stdout = "reads" THEN "reading" ELSE "closing")
  /\ UNCHANGED <<clientVars, timedOut, code, hurried, childVars, threadVars, drainVars, diagnostics,
                 socketVars>>

\* child.stdin.write blocks on a full pipe and breaks when the child is gone.
ForwardLine ==
  /\ main = "forwarding"
  /\ \/ /\ child = "running" /\ Len(toChild) < PipeSize
        /\ toChild' = Append(toChild, "line") /\ Goto("reading")
     \/ /\ child = "exited" /\ Goto("closing") /\ UNCHANGED toChild
  /\ UNCHANGED <<clientVars, timedOut, code, hurried, child, childCode, childStdin, fromChild, written,
                 stderr, errors, threadVars, drainVars, diagnostics, socketVars>>

CloseChildStdin ==
  /\ main = "closing"
  /\ childStdin' = "closed" /\ Goto("joining")
  /\ UNCHANGED <<clientVars, timedOut, code, hurried, child, childCode, toChild, fromChild, written, stderr,
                 errors, threadVars, drainVars, diagnostics, socketVars>>

\* response_thread.join(timeout=5): the thread has ended, or five seconds have.
JoinResponder ==
  /\ main = "joining" /\ Goto("waiting")
  /\ hurried' = IF responder \in {"ended", "broken"} THEN hurried ELSE hurried \cup {"replies"}
  /\ UNCHANGED <<clientVars, timedOut, code, childVars, threadVars, drainVars, diagnostics,
                 socketVars>>

\* child.wait(timeout=...), first of itself, then after terminate(), then after
\* kill().
ChildEnded ==
  /\ main \in {"waiting", "terminated", "killed"} /\ child = "exited"
  /\ code' = childCode /\ Goto("draining")
  /\ UNCHANGED <<clientVars, timedOut, hurried, childVars, threadVars, drainVars, diagnostics, socketVars>>

\* Mutant: no kill after a terminate that is ignored.
MutantWaitTimesOut ==
  /\ child = "running" /\ main = "waiting"
  /\ Goto("terminated") /\ timedOut' = TRUE
  /\ Exits(255) \/ UNCHANGED childVars
  /\ UNCHANGED <<clientVars, code, hurried, threadVars, drainVars, diagnostics, socketVars>>

\* After a timeout terminate(), then kill(): the child may need time to die, or
\* be stuck in the kernel.
WaitTimesOut ==
  /\ child = "running"
  /\ \/ main = "waiting" /\ Goto("terminated") /\ timedOut' = TRUE
     \/ main = "terminated" /\ Goto("killed") /\ UNCHANGED timedOut
  /\ Exits(255) \/ UNCHANGED childVars
  /\ UNCHANGED <<clientVars, code, hurried, threadVars, drainVars, diagnostics, socketVars>>

KillInVain ==
  /\ main = "killed" /\ child = "running"
  /\ code' = 1 /\ Goto("draining")
  /\ UNCHANGED <<clientVars, timedOut, hurried, childVars, threadVars, drainVars, diagnostics, socketVars>>

\* stderr_thread.join(timeout=1).
JoinDrain ==
  /\ main = "draining" /\ Goto("reporting")
  /\ hurried' = IF drain = "ended" THEN hurried ELSE hurried \cup {"errors"}
  /\ UNCHANGED <<clientVars, timedOut, code, childVars, threadVars, drainVars, diagnostics,
                 socketVars>>

\* The last diagnostic, and return exit_code.
Return ==
  /\ main = "reporting" /\ Goto("returned")
  /\ IF timedOut THEN Report("ssh_timeout")
     ELSE IF code # 0 /\ ~emitted THEN Report("ssh_transport")
     ELSE UNCHANGED diagnostics
  /\ UNCHANGED <<clientVars, timedOut, code, hurried, childVars, threadVars, drainVars, socketVars>>

-----------------------------------------------------------------------------

MainStep ==
  \/ SetupFails \/ StartChild \/ ReadLine \/ EndOfStdin \/ AnswerLocally \/ ForwardLine
  \/ CloseChildStdin \/ JoinResponder \/ ChildEnded \/ WaitTimesOut \/ KillInVain
  \/ JoinDrain \/ Return
ResponderStep == ReadReply \/ DeliverReply \/ EndOfReplies
DrainStep     == ReadError \/ ReportErrors \/ NoteEmitted
HandoffStep   == Accept \/ StopServing \/ HandOver \/ CloseListener

Next ==
  \/ ClientSends \/ ClientCloses \/ ClientChanges
  \/ ChildReads \/ ChildWrites \/ ChildComplains \/ ChildExits
  \/ \E p \in Peers : PeerCalls(p)
  \/ HandoffStep \/ ResponderStep \/ DrainStep \/ MainStep

Spec == Init /\ [][Next]_vars

\* The threads run, and a child that stays up reads its stdin.
Fairness == WF_vars(MainStep) /\ WF_vars(ChildReads)
FairSpec == Spec /\ Fairness

-----------------------------------------------------------------------------
(* Properties.                                                             *)

\* Types of all variables.
TypeOK ==
  /\ stdin \in Seq({"local", "forward"}) /\ Len(stdin) <= PipeSize
  /\ eof \in BOOLEAN /\ stdout \in {"reads", "stalled", "gone"} /\ sent \in 0..MaxLines
  /\ main \in {"setup", "reading", "answering", "forwarding", "closing", "joining", "waiting",
               "terminated", "killed", "draining", "reporting", "returned"}
  /\ timedOut \in BOOLEAN /\ code \in Codes /\ hurried \subseteq {"replies", "errors"}
  /\ child \in {"none", "running", "exited"} /\ childCode \in Codes
  /\ toChild \in Seq({"line"}) /\ Len(toChild) <= PipeSize
  /\ childStdin \in {"open", "closed"}
  /\ fromChild \in Seq(1..MaxReplies) /\ Len(fromChild) <= PipeSize
  /\ written \in 0..MaxReplies
  /\ responder \in {"none", "reading", "holding", "ended", "broken"}
  /\ inHand \in 0..MaxReplies /\ delivered \in Seq(1..MaxReplies)
  /\ stderr \in Seq(Phrases) /\ errors \in 0..MaxErrors
  /\ drain \in {"none", "reading", "reported", "ended"}
  /\ captured \in Seq(Phrases) /\ Len(captured) <= CapturedLines /\ emitted \in BOOLEAN
  /\ diagnostics \in Seq(Categories)
  /\ handoff \in {"none", "waiting", "accepted", "closing", "ended"}
  /\ listener \in {"open", "closed"} /\ secret \in BOOLEAN
  /\ calling \in Seq(Peers) /\ Len(calling) <= Backlog /\ peer \in Peers \cup {NoPeer}
  /\ calls \in 0..MaxCalls /\ got \in Seq(Peers)

\* "The runner password reaches OpenSSH's askpass helper exactly once ... the
\* listener checks the peer's UID and discards the secret after the first
\* delivery" (docs/security-model.md:27): whatever the order in which processes
\* call and the child dies, there is at most one delivery, to a process of the
\* user, and none after the thread began to close; at its end the password is
\* gone and the socket closed.
SecretGoesOnce ==
  /\ Len(got) <= 1
  /\ \A i \in DOMAIN got : got[i] = "user"
  /\ got # <<>> => handoff \in {"closing", "ended"} /\ child # "none"
  /\ handoff = "ended" => ~secret /\ listener = "closed" /\ calling = <<>>

\* What main() returns is true.  A failure is reported on stderr
\* (docs/configuration.md:192), a failed ssh once and with the class of its
\* text unless a join or a wait ran out of time; a status other than the
\* child's own comes only of a kill in vain; and unless the join ran out of
\* time or the client went away, it has every line of the child, in order.
ReturnIsHonest == main = "returned" =>
  /\ code # 0 => diagnostics # <<>>
  /\ child = "none" => code = 2
  /\ child = "exited" /\ ~(timedOut /\ code = 1) => code = childCode
  /\ child # "none" /\ ~timedOut /\ "errors" \notin hurried =>
       /\ Len(diagnostics) <= 1
       /\ captured # <<>> => diagnostics = <<Classify(captured)>>
  /\ child # "none" /\ "replies" \notin hurried /\ stdout # "gone" =>
       delivered = [n \in 1..written |-> n]

\* Once the client has closed stdin main() returns, whatever ssh does about the
\* signals, if the client does not stop reading for good.
MainReturns == <>[](stdout # "stalled") => (eof ~> main = "returned")
=============================================================================
