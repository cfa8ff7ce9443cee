-------------------------------- MODULE Proxy --------------------------------
(***************************************************************************)
(* scripts/remote_mcp_proxy.py: the local process between an MCP client    *)
(* and the remote helper.  Its main thread runs request() on every line of *)
(* stdin and writes what it returns to the ssh child; its response thread  *)
(* runs response() on every line of the child and writes it to stdout.     *)
(* They share the four per-request maps (pending_lock), the credentials of *)
(* the session, and stdout.  The operator edits the vault and the policy   *)
(* file while calls are under way, and main reads them one after the other.*)
(*                                                                         *)
(* A message is abstracted to its kind: "list" a method other than         *)
(* tools/call, "reply" the client's answer to a request of the server      *)
(* (no method), "malformed" a tools/call that fails argument validation,   *)
(* "scope" target_scope, "status" helper_status, "catalog"                 *)
(* read_query_catalog, "device" a device tool, "page" an ssh_read          *)
(* continuation.  A vault record is its generation: every edit moves the   *)
(* device to a new host with new credentials.                              *)
(***************************************************************************)
EXTENDS Integers, Sequences

CONSTANTS
  Ids,          \* the JSON-RPC ids of the client
  NoId,         \* a message without one: a notification
  Aliases,      \* vault aliases of device targets
  Calls,        \* the kinds of message this client sends
  Budget,       \* rate_limit.requests
  MaxRequests,  \* bound on the lines the client writes
  MaxEdits,     \* bound on the operator's edits
  MaxNotes      \* bound on the lines the server writes unasked

Tools       == {"scope", "status", "catalog", "device", "page"}
DeviceTools == {"device", "page"}
ControlTools == {"scope", "status", "catalog"}
Kinds == Tools \cup {"list", "reply", "malformed"}

ASSUME ProxyAssumption ==
  /\ NoId \notin Ids
  /\ Calls \subseteq Kinds
  /\ Budget \in Nat \ {0}
  /\ MaxRequests \in Nat /\ MaxEdits \in Nat /\ MaxNotes \in Nat

VARIABLES
  request,          \* what the client sent: the n-th line of stdin
  main,             \* main thread: where it is, the record and addresses it read
  pending,          \* pending[id]: "call" or "list", the method waiting
  pendingTool,      \* pending_tools
  responseSecrets,  \* response_secrets
  control,          \* control_payloads: whether there is one
  session,          \* session_secrets
  used,             \* used[a]: length of rate_history[a]
  vault, policy,    \* the files: generation of the record, generations allowed
  edits,
  atServer,         \* calls written to the child and not answered yet
  learned,          \* credentials the server has been handed
  toProxy,          \* the child's stdout
  notes,
  thread,           \* response thread: the line in hand and what it popped
  answers,          \* answers[n]: what the client was sent for line n
  leaked,           \* credentials that reached the client
  charged,          \* calls that took a rate slot
  forwarded,        \* lines written to the child
  envelope          \* envelope[n]: record and addresses injected in call n

mapVars  == <<pending, pendingTool, responseSecrets, control>>
fileVars == <<vault, policy, edits>>
pipeVars == <<atServer, learned, toProxy, notes>>
ghosts   == <<charged, forwarded, envelope>>
vars == <<request, main, mapVars, session, used, fileVars, pipeVars, thread,
          answers, leaked, ghosts>>

Serials     == 1..MaxRequests
Generations == 0..MaxEdits
Secrets     == Aliases \X Generations
Treatments  == {"refused", "local", "listed", "merged", "untrusted", "plain"}

Idle     == [pc |-> "idle", record |-> 0, addresses |-> {}]
NoLine   == [kind |-> "none", n |-> 0, id |-> NoId, carries |-> {}]
NoThread == [line |-> NoLine, method |-> "none", tool |-> "none",
             secrets |-> {}, control |-> FALSE]
NoEnvelope == [record |-> 0, addresses |-> {}]

Request  == [id : Ids \cup {NoId}, call : Kinds, alias : Aliases]
Line     == [kind : {"none", "answer", "request", "note", "raw"}, n : {0} \cup Serials,
             id : Ids \cup {NoId}, carries : SUBSET Secrets]
Envelope == [record : Generations, addresses : SUBSET Generations]

TypeOK ==
  /\ request \in Seq(Request) /\ Len(request) <= MaxRequests
  /\ main \in [pc : {"idle", "register", "status", "vault", "policy", "authorize",
                     "rate", "local", "record", "write", "reject", "clear"},
               record : Generations, addresses : SUBSET Generations]
  /\ pending \in [Ids -> {"none", "call", "list"}]
  /\ pendingTool \in [Ids -> Tools \cup {"none"}]
  /\ responseSecrets \in [Ids -> SUBSET Secrets]
  /\ control \in [Ids -> BOOLEAN]
  /\ session \in SUBSET Secrets
  /\ used \in [Aliases -> 0..Budget]
  /\ vault \in [Aliases -> Generations] /\ policy \in [Aliases -> SUBSET Generations]
  /\ edits \in 0..MaxEdits
  /\ atServer \in SUBSET Serials /\ learned \in SUBSET Secrets
  /\ toProxy \in Seq(Line) /\ notes \in 0..MaxNotes
  /\ thread \in [line : Line, method : {"none", "call", "list"},
                 tool : Tools \cup {"none"}, secrets : SUBSET Secrets, control : BOOLEAN]
  /\ answers \in [Serials -> SUBSET Treatments]
  /\ leaked \in SUBSET Secrets
  /\ charged \in SUBSET Serials /\ forwarded \in SUBSET Serials
  /\ envelope \in [Serials -> Envelope]

Init ==
  /\ request = <<>>
  /\ main = Idle
  /\ pending = [i \in Ids |-> "none"]
  /\ pendingTool = [i \in Ids |-> "none"]
  /\ responseSecrets = [i \in Ids |-> {}]
  /\ control = [i \in Ids |-> FALSE]
  /\ session = {}
  /\ used = [a \in Aliases |-> 0]
  /\ vault = [a \in Aliases |-> 0]
  /\ \E g \in Generations : policy = [a \in Aliases |-> {g}]
  /\ edits = 0
  /\ atServer = {} /\ learned = {} /\ toProxy = <<>> /\ notes = 0
  /\ thread = NoThread
  /\ answers = [n \in Serials |-> {}]
  /\ leaked = {}
  /\ charged = {} /\ forwarded = {}
  /\ envelope = [n \in Serials |-> NoEnvelope]

-----------------------------------------------------------------------------
(* The main thread: request(), for the latest line of stdin.               *)

Current == Len(request)
Id      == request[Current].id
Call    == request[Current].call
Alias   == request[Current].alias

Method(call)  == IF call = "list" THEN "list" ELSE "call"
Expected(r)   == r.id # NoId /\ r.call # "reply"

Goto(pc) == main' = [main EXCEPT !.pc = pc]

\* map[id] := value, unless the line is a notification.
Set(map, value) == IF Id = NoId THEN map ELSE [map EXCEPT ![Id] = value]

\* _emit_error and _emit write nothing for a notification.
Emit(n, r, treatment) ==
  answers' = IF r.id = NoId THEN answers
             ELSE [answers EXCEPT ![n] = @ \cup {treatment}]

\* A second request under an id still pending is refused and changes no map.
ReceiveDuplicate(r) ==
  /\ main.pc = "idle" /\ Current < MaxRequests
  /\ Expected(r)
  /\ pending[r.id] # "none"
  /\ request' = Append(request, r)
  /\ Emit(Current + 1, r, "refused")
  /\ UNCHANGED <<main, mapVars, session, used, fileVars, pipeVars, thread, leaked, ghosts>>

\* Any other line; one with an id and a method is entered in pending.
Receive(r) ==
  /\ main.pc = "idle" /\ Current < MaxRequests
  /\ Expected(r) => pending[r.id] = "none"
  /\ request' = Append(request, r)
  /\ pending' = IF Expected(r) THEN [pending EXCEPT ![r.id] = Method(r.call)] ELSE pending
  /\ Goto(CASE r.call \in {"list", "reply"} -> "write"
            [] r.call = "malformed"         -> "reject"
            [] OTHER                        -> "register")
  /\ UNCHANGED <<pendingTool, responseSecrets, control, session, used, fileVars,
                 pipeVars, thread, answers, leaked, ghosts>>

Register ==
  /\ main.pc = "register"
  /\ pendingTool' = Set(pendingTool, Call)
  /\ Goto(CASE Call = "status"  -> "status"
            [] Call = "catalog" -> "record"
            [] OTHER            -> "vault")
  /\ UNCHANGED <<request, pending, responseSecrets, control, session, used, fileVars,
                 pipeVars, thread, answers, leaked, ghosts>>

\* helper_status: _helper_status_payload, which also prunes the rate windows.
BuildStatus ==
  /\ main.pc = "status"
  /\ control' = Set(control, TRUE)
  /\ \E u \in [Aliases -> 0..Budget] : (\A a \in Aliases : u[a] <= used[a]) /\ used' = u
  /\ Goto("record")
  /\ UNCHANGED <<request, pending, pendingTool, responseSecrets, session, fileVars,
                 pipeVars, thread, answers, leaked, ghosts>>

ReadVault ==
  /\ main.pc = "vault"
  /\ main' = [main EXCEPT !.pc = "policy", !.record = vault[Alias]]
  /\ UNCHANGED <<request, mapVars, session, used, fileVars, pipeVars, thread, answers,
                 leaked, ghosts>>

\* Mutant: the binding is checked on a record read once more.
BindingReread == vault[Alias] \in policy[Alias]

\* _validate_target_binding: the host of the record that was read is allowed by
\* the policy read after it.
Binding == main.record \in policy[Alias]

\* _load_target_policy and _validate_target_binding, one file read for both.
ReadPolicy ==
  /\ main.pc = "policy"
  /\ main' = [main EXCEPT
       !.addresses = policy[Alias],
       !.pc = IF ~Binding THEN "reject"
              ELSE IF Call = "scope" THEN "local" ELSE "authorize"]
  /\ UNCHANGED <<request, mapVars, session, used, fileVars, pipeVars, thread, answers,
                 leaked, ghosts>>

\* Mutant: a continuation takes a slot, too.
CostsSlotAlways == TRUE

\* _rate_costs_slot: an ssh_read with an offset costs none.
CostsSlot == Call # "page"

\* _authorize_tool and _auth_context pass.
Authorize ==
  /\ main.pc = "authorize"
  /\ Goto(IF CostsSlot THEN "rate" ELSE "record")
  /\ UNCHANGED <<request, mapVars, session, used, fileVars, pipeVars, thread, answers,
                 leaked, ghosts>>

\* An unreadable or malformed file, an unknown alias, a tool outside the
\* policy's scope or a missing host key: one ProxyError or another.
Fail ==
  /\ main.pc \in {"status", "vault", "policy", "authorize"}
  /\ Goto("reject")
  /\ UNCHANGED <<request, mapVars, session, used, fileVars, pipeVars, thread, answers,
                 leaked, ghosts>>

\* Mutant: one call more than the limit.
BelowLimitOffByOne(live) == live <= Budget

BelowLimit(live) == live < Budget

\* _consume_rate_limit; module RateLimit has its clock, here any number of the
\* oldest grants may have left the window.
ConsumeRate ==
  /\ main.pc = "rate"
  /\ \E live \in 0..used[Alias] :
       IF BelowLimit(live)
         THEN /\ used' = [used EXCEPT ![Alias] = live + 1]
              /\ charged' = charged \cup {Current}
              /\ Goto("record")
         ELSE /\ used' = [used EXCEPT ![Alias] = live]
              /\ Goto("reject")
              /\ UNCHANGED charged
  /\ UNCHANGED <<request, mapVars, session, fileVars, pipeVars, thread, answers, leaked,
                 forwarded, envelope>>

CallSecrets == IF Call \in DeviceTools THEN {<<Alias, main.record>>} ELSE {}

\* The credentials of the call are kept for its answer and for the session,
\* before the line is written.
RecordSecrets ==
  /\ main.pc = "record"
  /\ responseSecrets' = Set(responseSecrets, CallSecrets)
  /\ session' = IF Id = NoId THEN session ELSE session \cup CallSecrets
  /\ Goto("write")
  /\ UNCHANGED <<request, pending, pendingTool, control, used, fileVars, pipeVars,
                 thread, answers, leaked, ghosts>>

\* main(): child.stdin.write.  The server runs requests; it drops a tools/call
\* that came as a notification.
Write ==
  /\ main.pc = "write"
  /\ forwarded' = forwarded \cup {Current}
  /\ IF Expected(request[Current])
       THEN atServer' = atServer \cup {Current} /\ learned' = learned \cup CallSecrets
       ELSE UNCHANGED <<atServer, learned>>
  /\ envelope' = IF Call \in DeviceTools
                 THEN [envelope EXCEPT ![Current] =
                         [record |-> main.record, addresses |-> main.addresses]]
                 ELSE envelope
  /\ main' = Idle
  /\ UNCHANGED <<request, mapVars, session, used, fileVars, toProxy, notes, thread,
                 answers, leaked, charged>>

\* target_scope is answered here, with the rate state of the alias.
AnswerLocally ==
  /\ main.pc = "local"
  /\ Emit(Current, request[Current], "local")
  /\ \E live \in 0..used[Alias] : used' = [used EXCEPT ![Alias] = live]
  /\ Goto("clear")
  /\ UNCHANGED <<request, mapVars, session, fileVars, pipeVars, thread, leaked, ghosts>>

Reject ==
  /\ main.pc = "reject"
  /\ Emit(Current, request[Current], "refused")
  /\ Goto("clear")
  /\ UNCHANGED <<request, mapVars, session, used, fileVars, pipeVars, thread, leaked, ghosts>>

\* Mutant: only the method is cleared.
ClearMethodOnly ==
  /\ main.pc = "clear"
  /\ pending' = Set(pending, "none")
  /\ main' = Idle
  /\ UNCHANGED <<request, pendingTool, responseSecrets, control, session, used, fileVars,
                 pipeVars, thread, answers, leaked, ghosts>>

\* _clear_pending
ClearPending ==
  /\ main.pc = "clear"
  /\ pending' = Set(pending, "none")
  /\ pendingTool' = Set(pendingTool, "none")
  /\ responseSecrets' = Set(responseSecrets, {})
  /\ control' = Set(control, FALSE)
  /\ main' = Idle
  /\ UNCHANGED <<request, session, used, fileVars, pipeVars, thread, answers, leaked, ghosts>>

-----------------------------------------------------------------------------
(* The remote server: it answers each request once, in any order, and      *)
(* writes lines of its own under ids of its own.  Any line may carry any   *)
(* credential it was handed.                                               *)

ServerAnswer(n) ==
  /\ n \in atServer
  /\ atServer' = atServer \ {n}
  /\ toProxy' = Append(toProxy, [kind |-> "answer", n |-> n, id |-> request[n].id,
                                 carries |-> learned])
  /\ UNCHANGED <<request, main, mapVars, session, used, fileVars, learned, notes,
                 thread, answers, leaked, ghosts>>

ServerSpeaks ==
  /\ notes < MaxNotes
  /\ notes' = notes + 1
  /\ \E l \in {[kind |-> "note", n |-> 0, id |-> NoId, carries |-> learned],
               [kind |-> "raw",  n |-> 0, id |-> NoId, carries |-> {}]}
            \cup [kind : {"request"}, n : {0}, id : Ids, carries : {learned}] :
       toProxy' = Append(toProxy, l)
  /\ UNCHANGED <<request, main, mapVars, session, used, fileVars, atServer, learned,
                 thread, answers, leaked, ghosts>>

-----------------------------------------------------------------------------
(* The response thread: response().                                        *)

\* Mutant: any line with an id counts, also a request of the server's own.
IsResponseById(l) == l.kind \in {"answer", "request"}

\* Only a line with a result or an error and no method takes the entries of
\* its id out of the maps.
IsResponse(l) == l.kind = "answer"

TakeLine ==
  /\ thread = NoThread /\ toProxy # <<>>
  /\ toProxy' = Tail(toProxy)
  /\ LET l == Head(toProxy) IN
       IF IsResponse(l)
         THEN /\ thread' = [line |-> l, method |-> pending[l.id], tool |-> pendingTool[l.id],
                            secrets |-> responseSecrets[l.id], control |-> control[l.id]]
              /\ pending' = [pending EXCEPT ![l.id] = "none"]
              /\ pendingTool' = [pendingTool EXCEPT ![l.id] = "none"]
              /\ responseSecrets' = [responseSecrets EXCEPT ![l.id] = {}]
              /\ control' = [control EXCEPT ![l.id] = FALSE]
         ELSE /\ thread' = [NoThread EXCEPT !.line = l]
              /\ UNCHANGED mapVars
  /\ UNCHANGED <<request, main, session, used, fileVars, atServer, learned, notes,
                 answers, leaked, ghosts>>

\* What the answer becomes: _merge_control_payload, _mark_untrusted_result, the
\* filter on tools/list, or nothing.
Treatment ==
  CASE thread.method = "call" /\ thread.tool = "status" /\ thread.control -> "merged"
    [] thread.method = "call" /\ thread.tool \notin ControlTools -> "untrusted"
    [] thread.method = "list" -> "listed"
    [] OTHER -> "plain"

\* Mutant: a line is cleaned of the credentials of its own call only.
SanitizedByCall == thread.line.carries \
  (IF thread.line.kind = "raw" THEN {} ELSE thread.secrets)

\* sanitize_object, with the credentials of the session as they are now, then
\* the write to stdout.  A line that is not JSON is passed on as it is.
Sanitized == thread.line.carries \
  (IF thread.line.kind = "raw" THEN {} ELSE thread.secrets \cup session)

Deliver ==
  /\ thread # NoThread
  /\ leaked' = leaked \cup Sanitized
  /\ answers' = IF thread.line.kind = "answer"
                THEN [answers EXCEPT ![thread.line.n] = @ \cup {Treatment}]
                ELSE answers
  /\ thread' = NoThread
  /\ UNCHANGED <<request, main, mapVars, session, used, fileVars, pipeVars, ghosts>>

-----------------------------------------------------------------------------
(* The operator edits one file, then perhaps the other.                    *)

EditVault ==
  /\ edits < MaxEdits
  /\ edits' = edits + 1
  /\ \E a \in Aliases : vault' = [vault EXCEPT ![a] = edits + 1]
  /\ UNCHANGED <<request, main, mapVars, session, used, policy, pipeVars, thread, answers,
                 leaked, ghosts>>

EditPolicy ==
  /\ edits < MaxEdits
  /\ edits' = edits + 1
  /\ \E a \in Aliases : \E s \in SUBSET (0..edits) :
       s # policy[a] /\ policy' = [policy EXCEPT ![a] = s]
  /\ UNCHANGED <<request, main, mapVars, session, used, vault, pipeVars, thread, answers,
                 leaked, ghosts>>

-----------------------------------------------------------------------------

ClientLines ==
  {r \in [id : Ids \cup {NoId}, call : Calls, alias : Aliases] :
     r.call = "reply" => r.id # NoId}

ClientStep == \E r \in ClientLines : ReceiveDuplicate(r) \/ Receive(r)

MainStep ==
  \/ Register \/ BuildStatus \/ ReadVault \/ ReadPolicy \/ Authorize \/ Fail
  \/ ConsumeRate \/ RecordSecrets \/ Write \/ AnswerLocally \/ Reject \/ ClearPending

Next ==
  \/ ClientStep \/ MainStep
  \/ TakeLine \/ Deliver
  \/ (\E n \in Serials : ServerAnswer(n)) \/ ServerSpeaks
  \/ EditVault \/ EditPolicy

Spec == Init /\ [][Next]_vars

\* Both threads run while the process lives, and the server gets to every
\* request it was sent.
Fairness ==
  /\ WF_vars(MainStep)
  /\ WF_vars(TakeLine) /\ WF_vars(Deliver)
  /\ \A n \in Serials : WF_vars(ServerAnswer(n))

FairSpec == Spec /\ Fairness

-----------------------------------------------------------------------------

\* What a client may be told about a line of each kind.
Allowed(call) ==
  CASE call = "list"       -> {"refused", "listed"}
    [] call = "malformed"  -> {"refused"}
    [] call = "scope"      -> {"refused", "local"}
    [] call = "status"     -> {"refused", "merged"}
    [] call = "catalog"    -> {"refused", "plain"}
    [] call \in DeviceTools -> {"refused", "untrusted"}
    [] OTHER               -> {}

\* Every line gets at most one answer, notifications none, and each answer of
\* the server is treated as the call it answers: device output is marked
\* untrusted, control output is not, helper_status gets the local payload and
\* tools/list the local filter - however ids are reused, whatever ids the
\* server uses for its own requests, and whichever thread runs first.
\* (request, response, the maps under pending_lock)
AnswersMatchRequests ==
  \A n \in Serials :
    /\ \A t, u \in answers[n] : t = u
    /\ answers[n] # {} =>
         /\ n <= Len(request) /\ Expected(request[n])
         /\ answers[n] \subseteq Allowed(request[n].call)

\* No credential that the server was handed comes back to the client in any
\* JSON line, also not in another call's answer or in a line of the server's
\* own, at whatever moment it is written.  (session_secrets)
NoCredentialReachesClient == leaked = {}

\* A line holds its id while main is at it, while the server has it, and while
\* its answer is on the way back.
InPipe(n)  == \E k \in 1..Len(toProxy) : toProxy[k].kind = "answer" /\ toProxy[k].n = n
Out(n)     == n \in atServer \/ InPipe(n)
AtMain(n)  == n = Current /\ main.pc # "idle"
Holders(i) ==
  {n \in 1..Len(request) :
     Expected(request[n]) /\ request[n].id = i /\ (Out(n) \/ AtMain(n))}

\* An id is pending exactly while one line holds it, and when none does nothing
\* is left over in the other maps for its next user.  So no id stays blocked
\* for ever and no two calls ever share one.  (pending_lock sections)
PendingExact ==
  \A i \in Ids :
    /\ \A m, n \in Holders(i) : m = n
    /\ pending[i] = "none" <=> Holders(i) = {}
    /\ pending[i] = "none" =>
         pendingTool[i] = "none" /\ responseSecrets[i] = {} /\ ~control[i]

\* A rate slot is taken by the device calls that are forwarded and by no other:
\* a call that any check refuses is free, a continuation is free.
\* (_rate_costs_slot, and the order of the checks in request)
SlotsAreForForwardedCalls ==
  \A n \in 1..Len(request) :
    /\ n \in charged => request[n].call = "device" /\ "refused" \notin answers[n]
    /\ n \in forwarded /\ request[n].call = "device" => n \in charged

\* Whatever the operator edits between the reads of the two files, the record
\* in an envelope names a host that the addresses in the same envelope allow.
\* (_validate_target_binding on the values that are then sent)
EnvelopeIsBound ==
  \A n \in forwarded :
    request[n].call \in DeviceTools => envelope[n].record \in envelope[n].addresses

\* A line that expects an answer opens an entry of the ledger.
Promise == INSTANCE Ledger WITH
  Lines   <- Serials,
  Kinds   <- Calls \ {"reply"},
  Allowed <- Allowed,
  kind    <- [n \in Serials |->
                IF n <= Len(request) /\ Expected(request[n]) THEN request[n].call ELSE "none"],
  outcome <- answers

\* The two threads and their maps implement the promise: one answer for every
\* request, of its own kind, and in the end always one.  (request, response)
ImplementsLedger == Promise!Spec

=============================================================================
