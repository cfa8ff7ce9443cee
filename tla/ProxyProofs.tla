----------------------------- MODULE ProxyProofs -----------------------------
(***************************************************************************)
(* The proxy for every set of ids and aliases, every limit and every       *)
(* bound: types, what the pipes may hold, credentials, envelopes; the maps *)
(* of pending ids, the answers, the promise of Ledger, the rate slots, and *)
(* why every line gets its answer.                                         *)
(***************************************************************************)
EXTENDS Proxy, WellFoundedInduction, TLAPS

\* A line of stdin that the pipes may still refer to.
Sent(n, i) == n \in 1..Len(request) /\ request[n].id = i /\ Expected(request[n])

\* What is out at the server, in its pipe or in the response thread is a line
\* that was read and expects an answer, under its own id.
OutIsSent ==
  /\ main.pc # "idle" => Current \in 1..MaxRequests
  /\ \A n \in atServer : Sent(n, request[n].id)
  /\ \A k \in 1..Len(toProxy) :
       toProxy[k].kind = "answer" => Sent(toProxy[k].n, toProxy[k].id)
  /\ thread.line.kind = "answer" => Sent(thread.line.n, thread.line.id)

\* The kinds of call that get to each place in request().
PathOf(pc) ==
  CASE pc = "register"             -> Tools
    [] pc = "status"               -> {"status"}
    [] pc \in {"vault", "policy"}  -> DeviceTools \cup {"scope"}
    [] pc = "authorize"            -> DeviceTools
    [] pc = "rate"                 -> {"device"}
    [] pc = "local"                -> {"scope"}
    [] pc = "record"               -> DeviceTools \cup {"status", "catalog"}
    [] pc = "write"                -> Kinds \ {"malformed", "scope"}
    [] pc \in {"reject", "clear"}  -> Kinds \ {"reply"}
    [] OTHER                       -> Kinds

OnPath == main.pc # "idle" => Call \in PathOf(main.pc)

PipeInv == TypeOK /\ OutIsSent /\ OnPath

-----------------------------------------------------------------------------

\* The line main is at, while it is at one.
LEMMA CurrentLine ==
  ASSUME PipeInv, main.pc # "idle"
  PROVE  /\ Current \in 1..Len(request) /\ Current \in Serials
         /\ request[Current] \in Request
         /\ Id \in Ids \cup {NoId} /\ Call \in Kinds /\ Alias \in Aliases
<1>1. request \in Seq(Request) /\ Len(request) <= MaxRequests
  BY DEF PipeInv, TypeOK
<1>2. Current \in 1..MaxRequests
  BY DEF PipeInv, OutIsSent
<1>3. Current \in 1..Len(request)
  BY <1>1, <1>2 DEF Current
<1>4. request[Current] \in Request
  BY <1>1, <1>3
<1>5. QED
  BY <1>2, <1>3, <1>4 DEF Serials, Request, Id, Call, Alias

\* Reading a line leaves the earlier ones where they are.
LEMMA ReadKeeps ==
  ASSUME PipeInv, NEW r \in Request, request' = Append(request, r), Current < MaxRequests
  PROVE  /\ Len(request') = Len(request) + 1
         /\ Len(request) \in Nat
         /\ request'[Len(request) + 1] = r
         /\ \A n \in 1..Len(request) : request'[n] = request[n]
         /\ request' \in Seq(Request) /\ Len(request') <= MaxRequests
BY ProxyAssumption DEF PipeInv, TypeOK, Current

\* The lines a client writes are requests.
LEMMA ClientLineType == ClientLines \subseteq Request
BY ProxyAssumption DEF ClientLines, Request


\* Setting an entry of a map, answering, and moving on keep their types.
LEMMA SetType ==
  ASSUME PipeInv, main.pc # "idle", NEW S, NEW map \in [Ids -> S], NEW v \in S
  PROVE  Set(map, v) \in [Ids -> S]
BY CurrentLine DEF Set

LEMMA EmitType ==
  ASSUME TypeOK, NEW n \in Serials, NEW r \in Request, NEW t \in Treatments, Emit(n, r, t)
  PROVE  answers' \in [Serials -> SUBSET Treatments]
<1>1. answers \in [Serials -> SUBSET Treatments]
  BY DEF TypeOK
<1>2. CASE answers' = answers
  BY <1>1, <1>2
<1>3. CASE answers' = [answers EXCEPT ![n] = @ \cup {t}]
  BY <1>1, <1>3
<1>4. QED
  BY <1>2, <1>3 DEF Emit

\* The types survive every step of the main thread.
LEMMA TypeMain ==
  ASSUME PipeInv, MainStep
  PROVE  TypeOK'
<1> USE DEF mapVars, fileVars, pipeVars, ghosts
<1> DEFINE Pcs == {"idle", "register", "status", "vault", "policy", "authorize",
                   "rate", "local", "record", "write", "reject", "clear"}
<1>a. TypeOK
  BY DEF PipeInv
<1>b. ASSUME NEW pc \in Pcs, Goto(pc)
      PROVE  main' \in [pc : Pcs, record : Generations, addresses : SUBSET Generations]
  BY <1>a, <1>b DEF TypeOK, Goto
<1>c. Idle \in [pc : Pcs, record : Generations, addresses : SUBSET Generations]
  BY ProxyAssumption DEF Idle, Generations
<1>1. CASE Register
  <2>1. pendingTool' \in [Ids -> Tools \cup {"none"}]
    BY <1>1, <1>a, CurrentLine, SetType DEF Register, TypeOK, PipeInv, OnPath, PathOf
  <2>2. QED
    BY <1>1, <1>a, <1>b, <2>1 DEF Register, TypeOK
<1>2. CASE BuildStatus
  BY <1>2, CurrentLine, ProxyAssumption DEF PipeInv, TypeOK, BuildStatus, Goto, Set
<1>3. CASE ReadVault
  BY <1>3, CurrentLine, ProxyAssumption DEF PipeInv, TypeOK, ReadVault, Goto, Set
<1>4. CASE ReadPolicy
  BY <1>4, CurrentLine, ProxyAssumption DEF PipeInv, TypeOK, ReadPolicy, Goto, Set
<1>5. CASE Authorize
  BY <1>5, CurrentLine, ProxyAssumption DEF PipeInv, TypeOK, Authorize, Goto, Set
<1>6. CASE Fail
  BY <1>6, CurrentLine, ProxyAssumption DEF PipeInv, TypeOK, Fail, Goto, Set
<1>7. CASE ConsumeRate
  <2>1. Current \in Serials /\ Alias \in Aliases
    BY <1>7, CurrentLine DEF ConsumeRate
  <2>2. PICK live \in 0..used[Alias] :
          /\ used' = [used EXCEPT ![Alias] = IF live < Budget THEN live + 1 ELSE live]
          /\ charged' \in {charged, charged \cup {Current}}
          /\ Goto("record") \/ Goto("reject")
    BY <1>7 DEF ConsumeRate, BelowLimit
  <2>3. used \in [Aliases -> 0..Budget]
    BY <1>a DEF TypeOK
  <2>4. used' \in [Aliases -> 0..Budget]
    BY <2>1, <2>2, <2>3, ProxyAssumption
  <2>5. charged' \in SUBSET Serials
    BY <1>a, <2>1, <2>2 DEF TypeOK
  <2>6. QED
    BY <1>7, <1>a, <1>b, <2>2, <2>4, <2>5 DEF ConsumeRate, TypeOK
<1>8. CASE RecordSecrets
  <2>1. CallSecrets \in SUBSET Secrets
    BY <1>8, <1>a, CurrentLine DEF RecordSecrets, CallSecrets, Secrets, TypeOK
  <2>2. responseSecrets' \in [Ids -> SUBSET Secrets] /\ session' \in SUBSET Secrets
    BY <1>8, <1>a, <2>1, SetType DEF RecordSecrets, TypeOK
  <2>3. QED
    BY <1>8, <1>a, <1>b, <2>2 DEF RecordSecrets, TypeOK
<1>9. CASE Write
  <2>1. CallSecrets \in SUBSET Secrets /\ Current \in Serials
    BY <1>9, <1>a, CurrentLine DEF Write, CallSecrets, Secrets, TypeOK
  <2>2. [record |-> main.record, addresses |-> main.addresses] \in Envelope
    BY <1>a DEF TypeOK, Envelope
  <2>3. envelope' \in [Serials -> Envelope]
    BY <1>9, <1>a, <2>1, <2>2 DEF Write, TypeOK
  <2>4. /\ atServer' \in SUBSET Serials /\ learned' \in SUBSET Secrets
        /\ forwarded' \in SUBSET Serials
    BY <1>9, <1>a, <2>1 DEF Write, TypeOK
  <2>5. QED
    BY <1>9, <1>a, <1>c, <2>3, <2>4 DEF Write, TypeOK
<1>10. CASE AnswerLocally
  <2>1. Current \in Serials /\ request[Current] \in Request /\ Alias \in Aliases
    BY <1>10, CurrentLine DEF AnswerLocally
  <2>2. answers' \in [Serials -> SUBSET Treatments]
    BY <1>10, <1>a, <2>1, EmitType DEF AnswerLocally, Treatments
  <2>3. used' \in [Aliases -> 0..Budget]
    BY <1>10, <1>a, <2>1, ProxyAssumption DEF AnswerLocally, TypeOK
  <2>4. QED
    BY <1>10, <1>a, <1>b, <2>2, <2>3 DEF AnswerLocally, TypeOK
<1>11. CASE Reject
  <2>1. Current \in Serials /\ request[Current] \in Request
    BY <1>11, CurrentLine DEF Reject
  <2>2. answers' \in [Serials -> SUBSET Treatments]
    BY <1>11, <1>a, <2>1, EmitType DEF Reject, Treatments
  <2>3. QED
    BY <1>11, <1>a, <1>b, <2>2 DEF Reject, TypeOK
<1>12. CASE ClearPending
  <2>1. /\ pending' \in [Ids -> {"none", "call", "list"}]
        /\ pendingTool' \in [Ids -> Tools \cup {"none"}]
        /\ responseSecrets' \in [Ids -> SUBSET Secrets]
        /\ control' \in [Ids -> BOOLEAN]
    BY <1>12, <1>a, SetType DEF ClearPending, TypeOK
  <2>2. QED
    BY <1>12, <1>a, <1>c, <2>1 DEF ClearPending, TypeOK
<1>13. QED
  BY <1>1, <1>2, <1>3, <1>4, <1>5, <1>6, <1>7, <1>8, <1>9, <1>10, <1>11, <1>12
     DEF MainStep

\* The types survive a line of the client.
LEMMA TypeClient ==
  ASSUME PipeInv, ClientStep
  PROVE  TypeOK'
<1> USE DEF mapVars, fileVars, pipeVars, ghosts
<1>a. TypeOK
  BY DEF PipeInv
<1>1. PICK r \in ClientLines : ReceiveDuplicate(r) \/ Receive(r)
  BY DEF ClientStep
<1>2. r \in Request /\ (Expected(r) => r.id \in Ids)
  BY ClientLineType DEF Request, Expected
<1>3. /\ Current < MaxRequests /\ request' = Append(request, r)
  BY <1>1 DEF ReceiveDuplicate, Receive
<1>4. request' \in Seq(Request) /\ Len(request') <= MaxRequests
  BY <1>2, <1>3, ReadKeeps
<1>5. CASE ReceiveDuplicate(r)
  <2>1. Current + 1 \in Serials
    BY <1>a, <1>3, ProxyAssumption DEF TypeOK, Current, Serials
  <2>2. answers' \in [Serials -> SUBSET Treatments]
    BY <1>5, <1>a, <1>2, <2>1, EmitType DEF ReceiveDuplicate, Treatments
  <2>3. QED
    BY <1>5, <1>a, <1>4, <2>2 DEF ReceiveDuplicate, TypeOK
<1>6. CASE Receive(r)
  <2>1. pending' \in [Ids -> {"none", "call", "list"}]
    BY <1>6, <1>a, <1>2 DEF Receive, TypeOK, Method
  <2>2. main' = [main EXCEPT !.pc = "write"] \/ main' = [main EXCEPT !.pc = "reject"]
        \/ main' = [main EXCEPT !.pc = "register"]
    BY <1>6 DEF Receive, Goto
  <2>3. QED
    BY <1>6, <1>a, <1>4, <2>1, <2>2 DEF Receive, TypeOK
<1>7. QED
  BY <1>1, <1>5, <1>6

\* The types survive every step of the server, the response thread and the
\* operator.
LEMMA TypeRest ==
  ASSUME PipeInv,
         \/ TakeLine \/ Deliver \/ ServerSpeaks \/ EditVault \/ EditPolicy
         \/ \E n \in Serials : ServerAnswer(n)
  PROVE  TypeOK'
<1> USE DEF mapVars, fileVars, pipeVars, ghosts
<1>a. TypeOK
  BY DEF PipeInv
<1>1. CASE TakeLine
  <2>1. toProxy \in Seq(Line) /\ toProxy # <<>>
    BY <1>1, <1>a DEF TakeLine, TypeOK
  <2>2. Head(toProxy) \in Line /\ toProxy' \in Seq(Line)
    BY <1>1, <2>1 DEF TakeLine
  <2>3. CASE Head(toProxy).kind = "answer"
    <3> DEFINE id == Head(toProxy).id
    <3>1. id \in Ids
      <4>1. Head(toProxy) = toProxy[1] /\ 1 \in 1..Len(toProxy)
        BY <2>1
      <4>2. Sent(toProxy[1].n, toProxy[1].id)
        BY <2>3, <4>1 DEF PipeInv, OutIsSent
      <4>3. QED
        BY <2>2, <4>1, <4>2 DEF Sent, Expected, Line
    <3>2. /\ thread' = [line |-> Head(toProxy), method |-> pending[id],
                        tool |-> pendingTool[id], secrets |-> responseSecrets[id],
                        control |-> control[id]]
          /\ pending' = [pending EXCEPT ![id] = "none"]
          /\ pendingTool' = [pendingTool EXCEPT ![id] = "none"]
          /\ responseSecrets' = [responseSecrets EXCEPT ![id] = {}]
          /\ control' = [control EXCEPT ![id] = FALSE]
      BY <1>1, <2>3 DEF TakeLine, IsResponse
    <3>3. /\ pending' \in [Ids -> {"none", "call", "list"}]
          /\ pendingTool' \in [Ids -> Tools \cup {"none"}]
          /\ responseSecrets' \in [Ids -> SUBSET Secrets]
          /\ control' \in [Ids -> BOOLEAN]
      BY <1>a, <3>1, <3>2 DEF TypeOK
    <3>4. thread' \in [line : Line, method : {"none", "call", "list"},
                       tool : Tools \cup {"none"}, secrets : SUBSET Secrets,
                       control : BOOLEAN]
      BY <1>a, <2>2, <3>1, <3>2 DEF TypeOK
    <3>5. QED
      BY <1>1, <1>a, <2>2, <3>3, <3>4 DEF TakeLine, TypeOK
  <2>4. CASE Head(toProxy).kind # "answer"
    <3>1. thread' = [NoThread EXCEPT !.line = Head(toProxy)] /\ UNCHANGED mapVars
      BY <1>1, <2>4 DEF TakeLine, IsResponse
    <3>2. thread' \in [line : Line, method : {"none", "call", "list"},
                       tool : Tools \cup {"none"}, secrets : SUBSET Secrets,
                       control : BOOLEAN]
      BY <2>2, <3>1 DEF NoThread
    <3>3. QED
      BY <1>1, <1>a, <2>2, <3>1, <3>2 DEF TakeLine, TypeOK
  <2>5. QED
    BY <2>3, <2>4
<1>2. CASE Deliver
  <2>1. leaked' \in SUBSET Secrets
    BY <1>2, <1>a DEF Deliver, Sanitized, TypeOK, Line
  <2>2. NoThread \in [line : Line, method : {"none", "call", "list"},
                      tool : Tools \cup {"none"}, secrets : SUBSET Secrets,
                      control : BOOLEAN]
    BY DEF NoThread, NoLine, Line
  <2>3. answers' \in [Serials -> SUBSET Treatments]
    <3>1. Treatment \in Treatments
      BY DEF Treatment, Treatments
    <3>2. QED
      BY <1>2, <1>a, <3>1 DEF Deliver, TypeOK
  <2>4. QED
    BY <1>2, <1>a, <2>1, <2>2, <2>3 DEF Deliver, TypeOK
<1>3. CASE ServerSpeaks
  <2>1. PICK l \in {[kind |-> "note", n |-> 0, id |-> NoId, carries |-> learned],
                    [kind |-> "raw",  n |-> 0, id |-> NoId, carries |-> {}]}
                 \cup [kind : {"request"}, n : {0}, id : Ids, carries : {learned}] :
          toProxy' = Append(toProxy, l)
    BY <1>3 DEF ServerSpeaks
  <2>2. l \in Line
    BY <1>a, <2>1 DEF Line, TypeOK
  <2>3. toProxy' \in Seq(Line) /\ notes' \in 0..MaxNotes
    BY <1>3, <1>a, <2>1, <2>2, ProxyAssumption DEF ServerSpeaks, TypeOK
  <2>4. QED
    BY <1>3, <1>a, <2>3 DEF ServerSpeaks, TypeOK
<1>4. CASE EditVault
  BY <1>4, <1>a, ProxyAssumption DEF EditVault, TypeOK, Generations
<1>5. CASE EditPolicy
  <2>1. PICK a \in Aliases, g \in SUBSET (0..edits) : policy' = [policy EXCEPT ![a] = g]
    BY <1>5 DEF EditPolicy
  <2>2. edits' \in 0..MaxEdits /\ g \in SUBSET Generations
    BY <1>5, <1>a, <2>1, ProxyAssumption DEF EditPolicy, TypeOK, Generations
  <2>3. QED
    BY <1>5, <1>a, <2>1, <2>2 DEF EditPolicy, TypeOK
<1>6. ASSUME NEW n \in Serials, ServerAnswer(n) PROVE TypeOK'
  <2>1. n \in 1..Len(request) /\ request[n] \in Request
    BY <1>6, <1>a DEF ServerAnswer, PipeInv, OutIsSent, Sent, TypeOK
  <2>2. [kind |-> "answer", n |-> n, id |-> request[n].id, carries |-> learned] \in Line
    BY <1>6, <1>a, <2>1 DEF Line, Request, TypeOK
  <2>3. toProxy' \in Seq(Line) /\ atServer' \in SUBSET Serials
    BY <1>6, <1>a, <2>2 DEF ServerAnswer, TypeOK
  <2>4. QED
    BY <1>6, <1>a, <2>3 DEF ServerAnswer, TypeOK
<1>7. QED
  BY <1>1, <1>2, <1>3, <1>4, <1>5, <1>6

\* A line that was sent stays as it is, whoever moves.
LEMMA SentKeeps ==
  ASSUME PipeInv, [Next]_vars, NEW n, NEW i, Sent(n, i)
  PROVE  Sent(n, i)'
<1>1. CASE request' = request
  BY <1>1 DEF Sent, Expected
<1>2. ASSUME NEW r \in ClientLines, ReceiveDuplicate(r) \/ Receive(r)
      PROVE  Sent(n, i)'
  <2>1. r \in Request /\ request' = Append(request, r) /\ Current < MaxRequests
    BY <1>2, ClientLineType DEF ReceiveDuplicate, Receive
  <2>2. QED
    BY <2>1, ReadKeeps DEF Sent, Expected
<1>3. QED
  BY <1>1, <1>2 DEF Next, vars, ClientStep, MainStep, Register, BuildStatus, ReadVault,
     ReadPolicy, Authorize, Fail, ConsumeRate, RecordSecrets, Write, AnswerLocally,
     Reject, ClearPending, TakeLine, Deliver, ServerAnswer, ServerSpeaks, EditVault,
     EditPolicy

\* The pipes hold lines that were sent, after every step.
LEMMA SentStep ==
  ASSUME PipeInv, [Next]_vars
  PROVE  OutIsSent'
<1> USE DEF mapVars, fileVars, pipeVars, ghosts
<1>a. TypeOK /\ OutIsSent
  BY DEF PipeInv
<1>b. Len(request) \in Nat /\ Len(request) <= MaxRequests
  BY <1>a DEF TypeOK
<1>1. (main.pc # "idle" => Current \in 1..MaxRequests)'
  <2>1. CASE request' = request /\ (main'.pc = "idle" \/ main.pc # "idle")
    BY <1>a, <2>1 DEF OutIsSent, Current
  <2>2. ASSUME NEW r \in ClientLines, ReceiveDuplicate(r) \/ Receive(r)
        PROVE  Len(request') \in 1..MaxRequests
    <3>1. r \in Request /\ request' = Append(request, r) /\ Current < MaxRequests
      BY <2>2, ClientLineType DEF ReceiveDuplicate, Receive
    <3>2. QED
      BY <1>b, <3>1, ReadKeeps, ProxyAssumption DEF Current
  <2>3. CASE MainStep
    <3>1. request' = request /\ main.pc # "idle"
      BY <2>3 DEF MainStep, Register, BuildStatus, ReadVault, ReadPolicy, Authorize, Fail,
         ConsumeRate, RecordSecrets, Write, AnswerLocally, Reject, ClearPending
    <3>2. QED
      BY <2>1, <3>1
  <2>4. CASE UNCHANGED <<request, main>>
    BY <2>1, <2>4
  <2>5. QED
    BY <2>2, <2>3, <2>4 DEF ClientStep, Current, Next, vars, TakeLine, Deliver,
       ServerAnswer, ServerSpeaks, EditVault, EditPolicy
<1>2. ASSUME NEW n \in atServer'
      PROVE  Sent(n, request[n].id)'
  <2>1. CASE n \in atServer
    <3>1. Sent(n, request[n].id)
      BY <1>a, <2>1 DEF OutIsSent
    <3>2. Sent(n, request[n].id)' \/ request'[n].id # request[n].id
      BY <3>1, SentKeeps
    <3>3. QED
      BY <3>1, SentKeeps DEF Sent
  <2>2. CASE Write /\ n = Current /\ Expected(request[Current])
    BY <2>2, CurrentLine DEF Write, Sent
  <2>3. QED
    BY <1>2, <2>1, <2>2 DEF Next, vars, ClientStep, MainStep, Register, BuildStatus,
       ReadVault, ReadPolicy, Authorize, Fail, ConsumeRate, RecordSecrets, Write,
       AnswerLocally, Reject, ClearPending, TakeLine, Deliver, ServerAnswer,
       ServerSpeaks, ReceiveDuplicate, Receive, EditVault, EditPolicy
<1>3. ASSUME NEW k \in 1..Len(toProxy'), toProxy'[k].kind = "answer"
      PROVE  Sent(toProxy[k].n, toProxy[k].id)'
  <2>1. toProxy \in Seq(Line)
    BY <1>a DEF TypeOK
  <2>2. CASE toProxy' = toProxy
    BY <1>3, <1>a, <2>2, SentKeeps DEF OutIsSent
  <2>3. CASE TakeLine
    <3>1. toProxy' = Tail(toProxy) /\ toProxy # <<>>
      BY <2>3 DEF TakeLine
    <3>2. k + 1 \in 1..Len(toProxy) /\ toProxy'[k] = toProxy[k + 1]
      BY <1>3, <2>1, <3>1
    <3>3. QED
      BY <1>3, <1>a, <3>2, SentKeeps DEF OutIsSent
  <2>4. ASSUME NEW l, toProxy' = Append(toProxy, l),
               l.kind = "answer" => Sent(l.n, l.id)
        PROVE  Sent(toProxy[k].n, toProxy[k].id)'
    <3>1. CASE k \in 1..Len(toProxy)
      <4>1. toProxy'[k] = toProxy[k]
        BY <2>1, <2>4, <3>1
      <4>2. QED
        BY <1>3, <1>a, <3>1, <4>1, SentKeeps DEF OutIsSent
    <3>2. CASE k = Len(toProxy) + 1
      <4>1. toProxy'[k] = l
        BY <2>1, <2>4, <3>2
      <4>2. QED
        BY <1>3, <2>4, <4>1, SentKeeps
    <3>3. QED
      BY <1>3, <2>1, <2>4, <3>1, <3>2
  <2>5. ASSUME NEW n \in Serials, ServerAnswer(n)
        PROVE  Sent(toProxy[k].n, toProxy[k].id)'
    <3>1. Sent(n, request[n].id)
      BY <1>a, <2>5 DEF ServerAnswer, OutIsSent
    <3>2. QED
      BY <2>4, <2>5, <3>1 DEF ServerAnswer
  <2>6. CASE ServerSpeaks
    BY <2>4, <2>6 DEF ServerSpeaks
  <2>7. QED
    BY <2>2, <2>3, <2>5, <2>6 DEF Next, vars, ClientStep, MainStep, Register,
       BuildStatus, ReadVault, ReadPolicy, Authorize, Fail, ConsumeRate, RecordSecrets,
       Write, AnswerLocally, Reject, ClearPending, Deliver, ReceiveDuplicate, Receive,
       EditVault, EditPolicy
<1>4. ASSUME thread'.line.kind = "answer"
      PROVE  Sent(thread.line.n, thread.line.id)'
  <2>1. CASE thread' = thread
    BY <1>4, <1>a, <2>1, SentKeeps DEF OutIsSent
  <2>2. CASE TakeLine
    <3>1. thread'.line = Head(toProxy) /\ toProxy # <<>>
      BY <2>2 DEF TakeLine, NoThread
    <3>2. Head(toProxy) = toProxy[1] /\ 1 \in 1..Len(toProxy)
      BY <1>a, <3>1 DEF TypeOK
    <3>3. QED
      BY <1>4, <1>a, <3>1, <3>2, SentKeeps DEF OutIsSent
  <2>3. CASE Deliver
    BY <1>4, <2>3 DEF Deliver, NoThread, NoLine
  <2>4. QED
    BY <2>1, <2>2, <2>3 DEF Next, vars, ClientStep, MainStep, Register,
       BuildStatus, ReadVault, ReadPolicy, Authorize, Fail, ConsumeRate, RecordSecrets,
       Write, AnswerLocally, Reject, ClearPending, ServerAnswer, ServerSpeaks,
       ReceiveDuplicate, Receive, EditVault, EditPolicy
<1>5. QED
  BY <1>1, <1>2, <1>3, <1>4 DEF OutIsSent

\* request() only ever takes a line along the path of its kind.
LEMMA PathStep ==
  ASSUME PipeInv, [Next]_vars
  PROVE  OnPath'
<1> USE DEF mapVars, fileVars, pipeVars, ghosts, OnPath, PathOf
<1>a. TypeOK /\ OnPath
  BY DEF PipeInv
<1>1. ASSUME NEW r \in ClientLines, Receive(r)
      PROVE  OnPath'
  <2>1. r \in Request /\ request' = Append(request, r) /\ Current < MaxRequests
    BY <1>1, ClientLineType DEF Receive
  <2>2. Call' = r.call
    BY <2>1, ReadKeeps DEF Call, Current
  <2>3. QED
    BY <1>1, <1>a, <2>1, <2>2 DEF Receive, Goto, TypeOK, Request, Kinds
<1>2. CASE UNCHANGED <<request, main>>
  BY <1>2, <1>a DEF Call, Current
<1>3. CASE MainStep
  <2>1. Call' = Call
    BY <1>3 DEF MainStep, Register, BuildStatus, ReadVault, ReadPolicy, Authorize, Fail,
       ConsumeRate, RecordSecrets, Write, AnswerLocally, Reject, ClearPending, Call,
       Current
  <2>2. main.pc # "idle" => Call \in Kinds
    BY CurrentLine
  <2> DEFINE Ahead == main'.pc = "idle" \/ Call \in PathOf(main'.pc)
  <2> USE DEF Goto, TypeOK, OnPath, Tools, DeviceTools, Kinds
  <2>3. Register => Ahead
    BY <2>2, <1>a DEF Register
  <2>4. BuildStatus => Ahead
    BY <2>2, <1>a DEF BuildStatus
  <2>5. ReadVault => Ahead
    BY <2>2, <1>a DEF ReadVault
  <2>6. ReadPolicy => Ahead
    BY <2>2, <1>a DEF ReadPolicy
  <2>7. Authorize => Ahead
    BY <2>2, <1>a DEF Authorize, CostsSlot
  <2>8. Fail => Ahead
    BY <2>2, <1>a DEF Fail
  <2>9. ConsumeRate => Ahead
    BY <2>2, <1>a DEF ConsumeRate
  <2>10. RecordSecrets => Ahead
    BY <2>2, <1>a DEF RecordSecrets
  <2>11. Write => Ahead
    BY <2>2, <1>a DEF Write, Idle
  <2>12. AnswerLocally => Ahead
    BY <2>2, <1>a DEF AnswerLocally
  <2>13. Reject => Ahead
    BY <2>2, <1>a DEF Reject
  <2>14. ClearPending => Ahead
    BY <2>2, <1>a DEF ClearPending, Idle
  <2>15. QED
    BY <1>3, <2>1, <2>3, <2>4, <2>5, <2>6, <2>7, <2>8, <2>9, <2>10, <2>11, <2>12,
       <2>13, <2>14 DEF MainStep
<1>4. ASSUME NEW r \in ClientLines, ReceiveDuplicate(r) PROVE OnPath'
  BY <1>4 DEF ReceiveDuplicate
<1>5. QED
  BY <1>1, <1>2, <1>3, <1>4 DEF Next, vars, ClientStep, TakeLine, Deliver, ServerAnswer,
     ServerSpeaks, EditVault, EditPolicy

\* Every variable of the proxy keeps its type, in every behaviour.
THEOREM PipeInvariant == Spec => []PipeInv
<1>1. Init => PipeInv
  BY ProxyAssumption DEF Init, PipeInv, TypeOK, OutIsSent, OnPath, Idle, NoThread, NoLine,
     NoEnvelope, Line, Envelope, Generations, Serials
<1>2. PipeInv /\ [Next]_vars => PipeInv'
  <2> SUFFICES ASSUME PipeInv, [Next]_vars PROVE PipeInv'
    OBVIOUS
  <2>1. TypeOK'
    <3>1. CASE UNCHANGED vars
      BY <3>1 DEF PipeInv, TypeOK, vars, mapVars, fileVars, pipeVars, ghosts
    <3>2. QED
      BY <3>1, TypeMain, TypeClient, TypeRest DEF Next
  <2>2. QED
    BY <2>1, SentStep, PathStep DEF PipeInv
<1>3. QED
  BY <1>1, <1>2, PTL DEF Spec

THEOREM ProxyTypeCorrect == Spec => []TypeOK
<1>1. PipeInv => TypeOK
  BY DEF PipeInv
<1>2. QED
  BY <1>1, PipeInvariant, PTL

-----------------------------------------------------------------------------
(* Credentials.                                                            *)

\* A line of the server carries credentials of the session only, and one that
\* is passed on unread carries none.
Covered(l) == l.carries \subseteq session /\ (l.kind = "raw" => l.carries = {})

\* Whatever the server has been handed, and what a line on its way may hold,
\* is among the credentials that every answer is cleaned of.
SessionCovers ==
  /\ learned \subseteq session
  /\ main.pc = "write" /\ Expected(request[Current]) => CallSecrets \subseteq session
  /\ \A k \in 1..Len(toProxy) : Covered(toProxy[k])
  /\ Covered(thread.line)

SecretInv == PipeInv /\ SessionCovers /\ NoCredentialReachesClient

\* After the write, and after the maps are cleared, main waits for a line.
LEMMA BackToIdle == Write \/ ClearPending => main'.pc = "idle"
<1>1. Idle.pc = "idle"
  BY DEF Idle
<1>2. QED
  BY <1>1 DEF Write, ClearPending

\* The credentials of the session only grow.
LEMMA SessionGrows ==
  ASSUME [Next]_vars
  PROVE  session \subseteq session'
BY DEF Next, vars, ClientStep, MainStep, ReceiveDuplicate, Receive, Register, BuildStatus,
   ReadVault, ReadPolicy, Authorize, Fail, ConsumeRate, RecordSecrets, Write,
   AnswerLocally, Reject, ClearPending, TakeLine, Deliver, ServerAnswer, ServerSpeaks,
   EditVault, EditPolicy

\* The credentials of a call are in the session before its line is written, and
\* then what the server may send back stays covered.
LEMMA SecretStep ==
  ASSUME SecretInv, PipeInv', [Next]_vars
  PROVE  SecretInv'
<1> USE DEF mapVars, fileVars, pipeVars, ghosts
<1>a. TypeOK /\ SessionCovers /\ leaked = {}
  BY DEF SecretInv, PipeInv, NoCredentialReachesClient
<1>b. session \subseteq session'
  BY SessionGrows
<1>1. (learned \subseteq session)'
  <2>1. CASE learned' = learned
    BY <1>a, <1>b, <2>1 DEF SessionCovers
  <2>2. CASE Write
    BY <1>a, <2>2 DEF Write, SessionCovers
  <2>3. QED
    BY <2>1, <2>2 DEF Next, vars, ClientStep, MainStep, ReceiveDuplicate, Receive,
       Register, BuildStatus, ReadVault, ReadPolicy, Authorize, Fail, ConsumeRate,
       RecordSecrets, AnswerLocally, Reject, ClearPending, TakeLine, Deliver,
       ServerAnswer, ServerSpeaks, EditVault, EditPolicy
<1>2. (main.pc = "write" /\ Expected(request[Current]) => CallSecrets \subseteq session)'
  <2>1. CASE UNCHANGED <<request, main>>
    BY <1>a, <1>b, <2>1 DEF SessionCovers, CallSecrets, Call, Alias, Current, Expected
  <2>2. CASE RecordSecrets
    <3>1. request' = request /\ main'.record = main.record
      BY <1>a, <2>2 DEF RecordSecrets, Goto, TypeOK
    <3>2. CallSecrets' = CallSecrets /\ Current' = Current
      BY <3>1 DEF CallSecrets, Call, Alias, Current
    <3>3. QED
      BY <2>2, <3>1, <3>2 DEF RecordSecrets, Expected, Id
  <2>3. ASSUME NEW r \in ClientLines, Receive(r), main'.pc = "write"
        PROVE  CallSecrets' = {}
    <3>1. r \in Request /\ request' = Append(request, r) /\ Current < MaxRequests
      BY <2>3, ClientLineType DEF Receive
    <3>2. Call' = r.call
      BY <3>1, ReadKeeps DEF Call, Current, SecretInv
    <3>3. r.call \notin DeviceTools
      BY <1>a, <2>3 DEF Receive, Goto, DeviceTools, TypeOK
    <3>4. QED
      BY <3>2, <3>3 DEF CallSecrets
  <2>4. ASSUME NEW r \in ClientLines, ReceiveDuplicate(r)
        PROVE  main'.pc # "write"
    BY <2>4 DEF ReceiveDuplicate
  <2>5. CASE MainStep /\ ~RecordSecrets
    <3>1. Register \/ BuildStatus \/ ReadVault \/ ReadPolicy => main'.pc # "write"
      BY <1>a DEF Register, BuildStatus, ReadVault, ReadPolicy, Goto, TypeOK
    <3>2. Authorize \/ Fail \/ ConsumeRate => main'.pc # "write"
      BY <1>a DEF Authorize, Fail, ConsumeRate, Goto, TypeOK
    <3>3. AnswerLocally \/ Reject => main'.pc # "write"
      BY <1>a DEF AnswerLocally, Reject, Goto, TypeOK
    <3>4. QED
      BY <2>5, <3>1, <3>2, <3>3, BackToIdle DEF MainStep
  <2>6. QED
    BY <2>1, <2>2, <2>3, <2>4, <2>5 DEF Next, vars, ClientStep, TakeLine, Deliver,
       ServerAnswer, ServerSpeaks, EditVault, EditPolicy
<1>3. ASSUME NEW k \in 1..Len(toProxy')
      PROVE  Covered(toProxy[k])'
  <2>1. toProxy \in Seq(Line)
    BY <1>a DEF TypeOK
  <2>2. CASE toProxy' = toProxy
    BY <1>3, <1>a, <1>b, <2>2 DEF SessionCovers, Covered
  <2>3. CASE TakeLine
    <3>1. toProxy' = Tail(toProxy) /\ toProxy # <<>>
      BY <2>3 DEF TakeLine
    <3>2. k + 1 \in 1..Len(toProxy) /\ toProxy'[k] = toProxy[k + 1]
      BY <1>3, <2>1, <3>1
    <3>3. QED
      BY <1>a, <1>b, <3>2 DEF SessionCovers, Covered
  <2>4. ASSUME NEW l, toProxy' = Append(toProxy, l), Covered(l)
        PROVE  Covered(toProxy[k])'
    <3>1. CASE k \in 1..Len(toProxy)
      <4>1. toProxy'[k] = toProxy[k]
        BY <2>1, <2>4, <3>1
      <4>2. QED
        BY <1>a, <1>b, <3>1, <4>1 DEF SessionCovers, Covered
    <3>2. CASE k = Len(toProxy) + 1
      <4>1. toProxy'[k] = l
        BY <2>1, <2>4, <3>2
      <4>2. QED
        BY <1>b, <2>4, <4>1 DEF Covered
    <3>3. QED
      BY <1>3, <2>1, <2>4, <3>1, <3>2
  <2>5. ASSUME NEW n \in Serials, ServerAnswer(n)
        PROVE  Covered(toProxy[k])'
    BY <1>a, <2>4, <2>5 DEF ServerAnswer, SessionCovers, Covered
  <2>6. CASE ServerSpeaks
    BY <1>a, <2>4, <2>6 DEF ServerSpeaks, SessionCovers, Covered
  <2>7. QED
    BY <2>2, <2>3, <2>5, <2>6 DEF Next, vars, ClientStep, MainStep, Register,
       BuildStatus, ReadVault, ReadPolicy, Authorize, Fail, ConsumeRate, RecordSecrets,
       Write, AnswerLocally, Reject, ClearPending, Deliver, ReceiveDuplicate, Receive,
       EditVault, EditPolicy
<1>4. Covered(thread.line)'
  <2>1. CASE thread' = thread
    BY <1>a, <1>b, <2>1 DEF SessionCovers, Covered
  <2>2. CASE TakeLine
    <3>1. thread'.line = Head(toProxy) /\ toProxy # <<>>
      BY <2>2 DEF TakeLine, NoThread
    <3>2. Head(toProxy) = toProxy[1] /\ 1 \in 1..Len(toProxy)
      BY <1>a, <3>1 DEF TypeOK
    <3>3. QED
      BY <1>a, <1>b, <3>1, <3>2 DEF SessionCovers, Covered
  <2>3. CASE Deliver
    BY <2>3 DEF Deliver, NoThread, NoLine, Covered
  <2>4. QED
    BY <2>1, <2>2, <2>3 DEF Next, vars, ClientStep, MainStep, Register,
       BuildStatus, ReadVault, ReadPolicy, Authorize, Fail, ConsumeRate, RecordSecrets,
       Write, AnswerLocally, Reject, ClearPending, ServerAnswer, ServerSpeaks,
       ReceiveDuplicate, Receive, EditVault, EditPolicy
<1>5. leaked' = {}
  <2>1. CASE leaked' = leaked
    BY <1>a, <2>1
  <2>2. CASE Deliver
    BY <1>a, <2>2 DEF Deliver, Sanitized, SessionCovers, Covered
  <2>3. QED
    BY <2>1, <2>2 DEF Next, vars, ClientStep, MainStep, Register, BuildStatus, ReadVault,
       ReadPolicy, Authorize, Fail, ConsumeRate, RecordSecrets, Write, AnswerLocally,
       Reject, ClearPending, TakeLine, ServerAnswer, ServerSpeaks, ReceiveDuplicate,
       Receive, EditVault, EditPolicy
<1>6. QED
  BY <1>1, <1>2, <1>3, <1>4, <1>5 DEF SecretInv, SessionCovers, NoCredentialReachesClient

\* No credential comes back to the client in a JSON line, however many calls,
\* ids, aliases and edits there are.  (session_secrets in request and response)
THEOREM CredentialsStay == Spec => []NoCredentialReachesClient
<1>1. Init /\ PipeInv => SecretInv
  BY DEF Init, SecretInv, SessionCovers, Covered, NoCredentialReachesClient, Idle,
     NoThread, NoLine
<1>2. SecretInv /\ PipeInv' /\ [Next]_vars => SecretInv'
  BY SecretStep
<1>3. SecretInv => NoCredentialReachesClient
  BY DEF SecretInv
<1>4. QED
  BY <1>1, <1>2, <1>3, PipeInvariant, PTL DEF Spec

-----------------------------------------------------------------------------
(* Envelopes and rate slots.                                               *)

\* From the policy check on, main holds a record that the addresses it holds
\* allow.
CheckedRecord ==
  /\ main.pc \in {"authorize", "rate"} => main.record \in main.addresses
  /\ main.pc \in {"record", "write"} /\ Call \in DeviceTools =>
       main.record \in main.addresses

SentAreRead == forwarded \subseteq 1..Len(request) /\ charged \subseteq 1..Len(request)

BoundInv == PipeInv /\ CheckedRecord /\ SentAreRead /\ EnvelopeIsBound

\* A line keeps its kind, whoever moves.
LEMMA CallKeeps ==
  ASSUME PipeInv, [Next]_vars, NEW n \in 1..Len(request)
  PROVE  n \in 1..Len(request') /\ request'[n] = request[n]
<1>1. CASE request' = request
  BY <1>1
<1>2. ASSUME NEW r \in ClientLines, ReceiveDuplicate(r) \/ Receive(r)
      PROVE  n \in 1..Len(request') /\ request'[n] = request[n]
  <2>1. r \in Request /\ request' = Append(request, r) /\ Current < MaxRequests
    BY <1>2, ClientLineType DEF ReceiveDuplicate, Receive
  <2>2. QED
    BY <2>1, ReadKeeps
<1>3. QED
  BY <1>1, <1>2 DEF Next, vars, ClientStep, MainStep, Register, BuildStatus, ReadVault,
     ReadPolicy, Authorize, Fail, ConsumeRate, RecordSecrets, Write, AnswerLocally,
     Reject, ClearPending, TakeLine, Deliver, ServerAnswer, ServerSpeaks, EditVault,
     EditPolicy

\* A step of the main thread stays at its line.
LEMMA SameLine ==
  ASSUME MainStep
  PROVE  main.pc # "idle" /\ request' = request /\ Current' = Current /\ Call' = Call
BY DEF MainStep, Register, BuildStatus, ReadVault, ReadPolicy, Authorize, Fail,
   ConsumeRate, RecordSecrets, Write, AnswerLocally, Reject, ClearPending, Call, Current

\* The record that was checked is the record that is sent.
LEMMA BoundStep ==
  ASSUME BoundInv, PipeInv', [Next]_vars
  PROVE  BoundInv'
<1> USE DEF mapVars, fileVars, pipeVars, ghosts
<1>a. TypeOK /\ PipeInv /\ OnPath /\ CheckedRecord
  BY DEF BoundInv, PipeInv
<1>1. CheckedRecord'
  <2>1. CASE UNCHANGED <<request, main>>
    BY <1>a, <2>1 DEF CheckedRecord, Call, Current
  <2>2. ASSUME NEW r \in ClientLines, Receive(r)
        PROVE  CheckedRecord'
    <3>1. r \in Request /\ request' = Append(request, r) /\ Current < MaxRequests
      BY <2>2, ClientLineType DEF Receive
    <3>2. Call' = r.call
      BY <1>a, <3>1, ReadKeeps DEF Call, Current
    <3>3. QED
      BY <1>a, <2>2, <3>2 DEF Receive, Goto, TypeOK, CheckedRecord, DeviceTools
  <2>3. ASSUME NEW r \in ClientLines, ReceiveDuplicate(r)
        PROVE  CheckedRecord'
    BY <2>3 DEF ReceiveDuplicate, CheckedRecord
  <2>4. CASE MainStep
    <3>1. Call' = Call
      BY <2>4, SameLine
    <3> USE DEF Goto, TypeOK, CheckedRecord, OnPath, PathOf, DeviceTools, Tools
    <3>2. Register \/ BuildStatus \/ ReadVault => CheckedRecord'
      BY <1>a, <3>1 DEF Register, BuildStatus, ReadVault
    <3>3. ReadPolicy => CheckedRecord'
      BY <1>a, <3>1 DEF ReadPolicy, Binding
    <3>4. Authorize \/ Fail => CheckedRecord'
      BY <1>a, <3>1 DEF Authorize, Fail
    <3>5. ConsumeRate => CheckedRecord'
      BY <1>a, <3>1 DEF ConsumeRate
    <3>6. RecordSecrets => CheckedRecord'
      BY <1>a, <3>1 DEF RecordSecrets
    <3>7. AnswerLocally \/ Reject => CheckedRecord'
      BY <1>a, <3>1 DEF AnswerLocally, Reject
    <3>8. Write \/ ClearPending => CheckedRecord'
      BY BackToIdle
    <3>9. QED
      BY <2>4, <3>2, <3>3, <3>4, <3>5, <3>6, <3>7, <3>8 DEF MainStep
  <2>5. QED
    BY <2>1, <2>2, <2>3, <2>4 DEF Next, vars, ClientStep, TakeLine, Deliver,
       ServerAnswer, ServerSpeaks, EditVault, EditPolicy
<1>2. SentAreRead'
  <2>1. forwarded' \cup charged' \subseteq 1..Len(request)
    <3>1. MainStep => Current \in 1..Len(request)
      BY <1>a, CurrentLine, SameLine
    <3>2. CASE Write \/ ConsumeRate
      BY <3>1, <3>2 DEF BoundInv, SentAreRead, Write, ConsumeRate, MainStep
    <3>3. CASE UNCHANGED <<forwarded, charged>>
      BY <3>3 DEF BoundInv, SentAreRead
    <3>4. QED
      BY <3>2, <3>3 DEF Next, vars, ClientStep, MainStep, ReceiveDuplicate, Receive,
         Register, BuildStatus, ReadVault, ReadPolicy, Authorize, Fail, RecordSecrets,
         AnswerLocally, Reject, ClearPending, TakeLine, Deliver, ServerAnswer,
         ServerSpeaks, EditVault, EditPolicy
  <2>2. \A n \in 1..Len(request) : n \in 1..Len(request')
    BY <1>a, CallKeeps
  <2>3. QED
    BY <2>1, <2>2 DEF SentAreRead
<1>3. EnvelopeIsBound'
  <2> SUFFICES ASSUME NEW n \in forwarded', request'[n].call \in DeviceTools
               PROVE  envelope'[n].record \in envelope'[n].addresses
    BY DEF EnvelopeIsBound
  <2>1. CASE Write
    <3>1. request' = request /\ Current \in Serials /\ n \in Serials
      BY <1>a, <2>1, CurrentLine DEF Write, TypeOK
    <3>2. CASE n = Current
      <4>1. main.record \in main.addresses /\ Call \in DeviceTools
        BY <1>a, <2>1, <3>1, <3>2 DEF Write, CheckedRecord, Call
      <4>2. envelope' = [envelope EXCEPT ![Current] =
                           [record |-> main.record, addresses |-> main.addresses]]
        BY <2>1, <4>1 DEF Write
      <4>3. QED
        BY <1>a, <3>1, <3>2, <4>1, <4>2 DEF TypeOK
    <3>3. CASE n # Current
      BY <1>a, <2>1, <3>1, <3>3 DEF Write, BoundInv, EnvelopeIsBound, TypeOK
    <3>4. QED
      BY <3>2, <3>3
  <2>2. CASE UNCHANGED <<forwarded, envelope>>
    <3>1. request'[n] = request[n]
      BY <1>a, <2>2, CallKeeps DEF BoundInv, SentAreRead
    <3>2. QED
      BY <2>2, <3>1 DEF BoundInv, EnvelopeIsBound
  <2>3. QED
    BY <2>1, <2>2 DEF Next, vars, ClientStep, MainStep, ReceiveDuplicate, Receive,
       Register, BuildStatus, ReadVault, ReadPolicy, Authorize, Fail, ConsumeRate,
       RecordSecrets, AnswerLocally, Reject, ClearPending, TakeLine, Deliver,
       ServerAnswer, ServerSpeaks, EditVault, EditPolicy
<1>4. QED
  BY <1>1, <1>2, <1>3 DEF BoundInv

\* Whatever the operator edits meanwhile, an envelope names a host that its own
\* addresses allow.  (_validate_target_binding on the values that are sent)
THEOREM EnvelopesAreBound == Spec => []EnvelopeIsBound
<1>1. Init /\ PipeInv => BoundInv
  BY DEF Init, BoundInv, CheckedRecord, SentAreRead, EnvelopeIsBound, Idle
<1>2. BoundInv /\ PipeInv' /\ [Next]_vars => BoundInv'
  BY BoundStep
<1>3. BoundInv => EnvelopeIsBound
  BY DEF BoundInv
<1>4. QED
  BY <1>1, <1>2, <1>3, PipeInvariant, PTL DEF Spec

-----------------------------------------------------------------------------
(* One place for every request, and the ids of those that have one.        *)

\* The response thread has the answer to line n in hand.
InThread(n) == thread.line.kind = "answer" /\ thread.line.n = n

\* A request is in one place at a time: at main, at the server, in the pipe
\* (once), or in the hands of the response thread.
OnePlace ==
  /\ \A j, k \in 1..Len(toProxy) :
       /\ toProxy[j].kind = "answer" /\ toProxy[k].kind = "answer"
       /\ toProxy[j].n = toProxy[k].n
       => j = k
  /\ \A n \in atServer : ~InPipe(n)
  /\ \A n : InThread(n) => ~Out(n)
  /\ main.pc # "idle" => ~Out(Current) /\ ~InThread(Current)

\* The child's stdout after a line is written to it.
LEMMA PipeAppend ==
  ASSUME TypeOK, NEW l, toProxy' = Append(toProxy, l), NEW n
  PROVE  InPipe(n)' <=> InPipe(n) \/ (l.kind = "answer" /\ l.n = n)
<1>1. toProxy \in Seq(Line)
  BY DEF TypeOK
<1>2. /\ Len(toProxy') = Len(toProxy) + 1 /\ Len(toProxy) \in Nat
      /\ toProxy'[Len(toProxy) + 1] = l
      /\ \A k \in 1..Len(toProxy) : toProxy'[k] = toProxy[k]
  BY <1>1
<1>3. 1..Len(toProxy') = 1..Len(toProxy) \cup {Len(toProxy) + 1}
  BY <1>2
<1>4. QED
  BY <1>2, <1>3 DEF InPipe


\* The child's stdout after its first line is read.
LEMMA PipeTail ==
  ASSUME TypeOK, toProxy # <<>>, toProxy' = Tail(toProxy)
  PROVE  /\ Len(toProxy) \in Nat \ {0} /\ Head(toProxy) = toProxy[1]
         /\ Len(toProxy') = Len(toProxy) - 1
         /\ \A k \in 1..Len(toProxy') :
              k + 1 \in 2..Len(toProxy) /\ toProxy'[k] = toProxy[k + 1]
         /\ \A n : InPipe(n) <=>
              InPipe(n)' \/ (Head(toProxy).kind = "answer" /\ Head(toProxy).n = n)
<1>1. toProxy \in Seq(Line)
  BY DEF TypeOK
<1>2. /\ Len(toProxy) \in Nat \ {0} /\ Head(toProxy) = toProxy[1]
      /\ Len(toProxy') = Len(toProxy) - 1
      /\ \A k \in 1..Len(toProxy') : toProxy'[k] = toProxy[k + 1]
  BY <1>1
<1>3. \A k \in 1..Len(toProxy') : k + 1 \in 2..Len(toProxy)
  BY <1>2
<1>4. \A k \in 1..Len(toProxy) :
        k = 1 \/ (k - 1 \in 1..Len(toProxy') /\ toProxy'[k - 1] = toProxy[k])
  BY <1>2
<1>5. 1 \in 1..Len(toProxy)
  BY <1>2
<1>6. ASSUME NEW n
      PROVE InPipe(n) <=> InPipe(n)' \/ (Head(toProxy).kind = "answer" /\ Head(toProxy).n = n)
  <2>1. InPipe(n)' => InPipe(n)
    BY <1>2, <1>3 DEF InPipe
  <2>2. InPipe(n) => InPipe(n)' \/ (Head(toProxy).kind = "answer" /\ Head(toProxy).n = n)
    BY <1>2, <1>4 DEF InPipe
  <2>3. Head(toProxy).kind = "answer" /\ Head(toProxy).n = n => InPipe(n)
    BY <1>2, <1>5 DEF InPipe
  <2>4. QED
    BY <2>1, <2>2, <2>3
<1>7. QED
  BY <1>2, <1>3, <1>6

\* The steps that move a request.
LEMMA PipeFrame ==
  ASSUME [Next]_vars
  PROVE  \/ UNCHANGED <<atServer, toProxy, thread>>
         \/ Write \/ TakeLine \/ Deliver \/ ServerSpeaks \/ \E n \in Serials : ServerAnswer(n)
BY DEF Next, vars, mapVars, fileVars, pipeVars, ClientStep, MainStep, ReceiveDuplicate, Receive,
   Register, BuildStatus, ReadVault, ReadPolicy, Authorize, Fail, ConsumeRate,
   RecordSecrets, AnswerLocally, Reject, ClearPending, EditVault, EditPolicy

\* An answer that is taken out of the pipe is out of it.
LEMMA TakeGone ==
  ASSUME TypeOK, OnePlace, TakeLine, Head(toProxy).kind = "answer",
         NEW n, n = Head(toProxy).n
  PROVE  Out(n) /\ ~Out(n)'
<1>1. toProxy' = Tail(toProxy) /\ toProxy # <<>> /\ atServer' = atServer
  BY DEF TakeLine
<1>2. /\ Len(toProxy) \in Nat \ {0} /\ Head(toProxy) = toProxy[1]
      /\ Len(toProxy') = Len(toProxy) - 1
      /\ \A k \in 1..Len(toProxy') : k + 1 \in 2..Len(toProxy) /\ toProxy'[k] = toProxy[k + 1]
      /\ InPipe(n)
  BY <1>1, PipeTail
<1>3. n \notin atServer
  BY <1>2 DEF OnePlace
<1>4. ASSUME InPipe(n)' PROVE FALSE
  <2>1. PICK k \in 1..Len(toProxy') : toProxy'[k].kind = "answer" /\ toProxy'[k].n = n
    BY <1>4 DEF InPipe
  <2>2. k + 1 \in 1..Len(toProxy) /\ 1 \in 1..Len(toProxy) /\ k + 1 # 1
    BY <1>2, <2>1
  <2>3. toProxy[k + 1].kind = "answer" /\ toProxy[k + 1].n = n
    BY <1>2, <2>1
  <2>4. QED
    BY <1>2, <2>2, <2>3 DEF OnePlace
<1>5. QED
  BY <1>1, <1>2, <1>3, <1>4 DEF Out

\* Where a request can be after a step.
LEMMA OutStep ==
  ASSUME TypeOK, OnePlace, [Next]_vars, NEW n
  PROVE  \/ Out(n)' = Out(n)
         \/ Write /\ n = Current /\ Expected(request[Current]) /\ Out(n)'
         \/ TakeLine /\ Head(toProxy).kind = "answer" /\ Head(toProxy).n = n /\ Out(n) /\ ~Out(n)'
<1> USE DEF mapVars, fileVars, pipeVars, ghosts
<1>1. CASE UNCHANGED <<atServer, toProxy, thread>> \/ Deliver
  BY <1>1 DEF Out, InPipe, Deliver
<1>2. CASE Write
  <2>1. toProxy' = toProxy /\ request' = request
    BY <1>2 DEF Write
  <2>2. InPipe(n)' = InPipe(n)
    BY <2>1 DEF InPipe
  <2>3. QED
    BY <1>2, <2>2 DEF Write, Out
<1>3. CASE ServerSpeaks
  <2>1. PICK l : toProxy' = Append(toProxy, l) /\ l.kind # "answer"
    BY <1>3 DEF ServerSpeaks
  <2>2. QED
    BY <1>3, <2>1, PipeAppend DEF ServerSpeaks, Out
<1>4. ASSUME NEW m \in Serials, ServerAnswer(m) PROVE Out(n)' = Out(n)
  <2>1. PICK l : toProxy' = Append(toProxy, l) /\ l.kind = "answer" /\ l.n = m
    BY <1>4 DEF ServerAnswer
  <2>2. InPipe(n)' <=> InPipe(n) \/ n = m
    BY <2>1, PipeAppend
  <2>3. QED
    BY <1>4, <2>2 DEF ServerAnswer, Out
<1>5. CASE TakeLine
  <2>1. toProxy' = Tail(toProxy) /\ toProxy # <<>> /\ atServer' = atServer
    BY <1>5 DEF TakeLine
  <2>2. /\ Len(toProxy) \in Nat \ {0} /\ Head(toProxy) = toProxy[1]
        /\ Len(toProxy') = Len(toProxy) - 1
        /\ \A k \in 1..Len(toProxy') : k + 1 \in 2..Len(toProxy) /\ toProxy'[k] = toProxy[k + 1]
        /\ InPipe(n) <=> InPipe(n)' \/ (Head(toProxy).kind = "answer" /\ Head(toProxy).n = n)
    BY <2>1, PipeTail
  <2>3. CASE Head(toProxy).kind = "answer" /\ Head(toProxy).n = n
    BY <1>5, <2>3, TakeGone
  <2>4. CASE ~(Head(toProxy).kind = "answer" /\ Head(toProxy).n = n)
    BY <2>1, <2>2, <2>4 DEF Out
  <2>5. QED
    BY <2>3, <2>4
<1>6. QED
  BY <1>1, <1>2, <1>3, <1>4, <1>5, PipeFrame

\* The response thread has a request in hand from the line it takes until it
\* has delivered it.
LEMMA InThreadStep ==
  ASSUME [Next]_vars, NEW n
  PROVE  \/ InThread(n)' = InThread(n)
         \/ Deliver /\ ~InThread(n)'
         \/ TakeLine /\ (InThread(n)' <=> Head(toProxy).kind = "answer" /\ Head(toProxy).n = n)
<1>1. CASE thread' = thread
  BY <1>1 DEF InThread
<1>2. CASE Deliver
  BY <1>2 DEF Deliver, InThread, NoThread, NoLine
<1>3. CASE TakeLine
  <2>1. thread'.line = Head(toProxy)
    BY <1>3 DEF TakeLine, NoThread
  <2>2. QED
    BY <1>3, <2>1 DEF InThread
<1>4. QED
  BY <1>1, <1>2, <1>3, PipeFrame DEF Write, ServerSpeaks, ServerAnswer

PlaceInv == PipeInv /\ OnePlace

\* A request stays in one place, whoever moves.
LEMMA PlaceStep ==
  ASSUME PlaceInv, PipeInv', [Next]_vars
  PROVE  PlaceInv'
<1> USE DEF mapVars, fileVars, pipeVars, ghosts
<1>a. TypeOK /\ PipeInv /\ OnePlace
  BY DEF PlaceInv, PipeInv
<1>b. TypeOK' /\ OutIsSent'
  BY DEF PipeInv
<1>1. ASSUME NEW j \in 1..Len(toProxy'), NEW k \in 1..Len(toProxy'), 
             toProxy'[j].kind = "answer", toProxy'[k].kind = "answer", toProxy'[j].n = toProxy'[k].n
      PROVE  j = k
  <2>1. toProxy \in Seq(Line)
    BY <1>a DEF TypeOK
  <2>2. CASE toProxy' = toProxy
    BY <1>1, <1>a, <2>2 DEF OnePlace
  <2>3. CASE TakeLine
    <3>1. toProxy' = Tail(toProxy) /\ toProxy # <<>>
      BY <2>3 DEF TakeLine
    <3>2. /\ j + 1 \in 1..Len(toProxy) /\ toProxy'[j] = toProxy[j + 1]
          /\ k + 1 \in 1..Len(toProxy) /\ toProxy'[k] = toProxy[k + 1]
      BY <1>1, <2>1, <3>1
    <3>3. j + 1 = k + 1
      BY <1>1, <1>a, <3>2 DEF OnePlace
    <3>4. QED
      BY <3>3
  <2>4. ASSUME NEW l, toProxy' = Append(toProxy, l), l.kind = "answer" => ~InPipe(l.n)
        PROVE  j = k
    <3>1. /\ Len(toProxy') = Len(toProxy) + 1 /\ Len(toProxy) \in Nat
          /\ toProxy'[Len(toProxy) + 1] = l
          /\ \A i \in 1..Len(toProxy) : toProxy'[i] = toProxy[i]
      BY <2>1, <2>4
    <3>2. \A i \in 1..Len(toProxy') : i \in 1..Len(toProxy) \/ i = Len(toProxy) + 1
      BY <3>1
    <3>3. CASE j \in 1..Len(toProxy) /\ k \in 1..Len(toProxy)
      BY <1>1, <1>a, <3>1, <3>3 DEF OnePlace
    <3>4. CASE j \in 1..Len(toProxy) /\ k = Len(toProxy) + 1
      BY <1>1, <2>4, <3>1, <3>4 DEF InPipe
    <3>5. CASE k \in 1..Len(toProxy) /\ j = Len(toProxy) + 1
      BY <1>1, <2>4, <3>1, <3>5 DEF InPipe
    <3>6. QED
      BY <1>1, <3>2, <3>3, <3>4, <3>5
  <2>5. ASSUME NEW m \in Serials, ServerAnswer(m) PROVE j = k
    BY <1>a, <2>4, <2>5 DEF ServerAnswer, OnePlace
  <2>6. CASE ServerSpeaks
    BY <2>4, <2>6 DEF ServerSpeaks
  <2>7. QED
    BY <2>2, <2>3, <2>5, <2>6, PipeFrame DEF Write, Deliver
<1>2. ASSUME NEW n \in atServer' PROVE ~InPipe(n)'
  <2>1. CASE TakeLine
    <3>1. toProxy' = Tail(toProxy) /\ toProxy # <<>> /\ atServer' = atServer
      BY <2>1 DEF TakeLine
    <3>2. QED
      BY <1>2, <1>a, <3>1, PipeTail DEF OnePlace
  <2>2. CASE Write
    <3>1. InPipe(n)' = InPipe(n)
      BY <2>2 DEF Write, InPipe
    <3>2. n \in atServer \/ (n = Current /\ main.pc # "idle")
      BY <1>2, <2>2 DEF Write
    <3>3. QED
      BY <1>a, <3>1, <3>2 DEF OnePlace, Out
  <2>3. CASE ServerSpeaks
    <3>1. PICK l : toProxy' = Append(toProxy, l) /\ l.kind # "answer"
      BY <2>3 DEF ServerSpeaks
    <3>2. QED
      BY <1>2, <1>a, <2>3, <3>1, PipeAppend DEF ServerSpeaks, OnePlace
  <2>4. ASSUME NEW m \in Serials, ServerAnswer(m) PROVE ~InPipe(n)'
    <3>1. PICK l : toProxy' = Append(toProxy, l) /\ l.kind = "answer" /\ l.n = m
      BY <2>4 DEF ServerAnswer
    <3>2. n \in atServer /\ n # m
      BY <1>2, <2>4 DEF ServerAnswer
    <3>3. QED
      BY <1>a, <3>1, <3>2, PipeAppend DEF OnePlace
  <2>5. CASE UNCHANGED <<atServer, toProxy>>
    BY <1>2, <1>a, <2>5 DEF OnePlace, InPipe
  <2>6. QED
    BY <2>1, <2>2, <2>3, <2>4, <2>5, PipeFrame DEF Deliver
<1>3. ASSUME NEW n, InThread(n)' PROVE ~Out(n)'
  <2>1. CASE TakeLine
    <3>1. Head(toProxy).kind = "answer" /\ Head(toProxy).n = n
      BY <1>3, <2>1 DEF TakeLine, InThread, NoThread
    <3>2. QED
      BY <1>a, <2>1, <3>1, TakeGone
  <2>2. CASE ~TakeLine
    <3>1. InThread(n) /\ ~Deliver
      BY <1>3, <2>2, InThreadStep DEF Deliver, InThread, NoThread, NoLine
    <3>2. ~Out(n)
      BY <1>a, <3>1 DEF OnePlace
    <3>3. ~(Write /\ n = Current)
      BY <1>a, <3>1 DEF OnePlace, Write
    <3>4. QED
      BY <1>a, <2>2, <3>2, <3>3, OutStep
  <2>3. QED
    BY <2>1, <2>2
<1>4. (main.pc # "idle" => ~Out(Current) /\ ~InThread(Current))'
  <2>1. SUFFICES ASSUME main'.pc # "idle" PROVE ~Out(Current)' /\ ~InThread(Current)'
    OBVIOUS
  <2>2. ~Write
    BY <2>1, BackToIdle
  <2>3. ASSUME NEW r \in ClientLines, ReceiveDuplicate(r) \/ Receive(r)
        PROVE  ~Out(Current)' /\ ~InThread(Current)'
    <3>1. r \in Request /\ request' = Append(request, r) /\ Current < MaxRequests
      BY <2>3, ClientLineType DEF ReceiveDuplicate, Receive
    <3>2. Current' \notin 1..Len(request)
      BY <1>a, <3>1, ReadKeeps DEF Current
    <3>3. UNCHANGED <<atServer, toProxy, thread>>
      BY <2>3 DEF ReceiveDuplicate, Receive
    <3>4. \A n : Out(n) \/ InThread(n) => n \in 1..Len(request)
      BY <1>a DEF PipeInv, OutIsSent, Sent, Out, InPipe, InThread
    <3>5. QED
      BY <3>2, <3>3, <3>4 DEF Out, InPipe, InThread
  <2>4. CASE request' = request /\ main.pc # "idle"
    <3>1. Current' = Current
      BY <2>4 DEF Current
    <3>2. ~Out(Current) /\ ~InThread(Current)
      BY <1>a, <2>4 DEF OnePlace
    <3>3. ~Out(Current)'
      BY <1>a, <2>2, <3>1, <3>2, OutStep
    <3>4. InPipe(Current) => Out(Current)
      BY DEF Out
    <3>5. ~InThread(Current)'
      <4>1. CASE TakeLine
        <5>1. Head(toProxy).kind = "answer" => InPipe(Head(toProxy).n)
          BY <1>a, <4>1, PipeTail DEF TakeLine
        <5>2. QED
          BY <3>1, <3>2, <3>4, <4>1, <5>1, InThreadStep DEF TakeLine, Deliver
      <4>2. CASE ~TakeLine
        BY <3>1, <3>2, <4>2, InThreadStep
      <4>3. QED
        BY <4>1, <4>2
    <3>6. QED
      BY <3>3, <3>5
  <2>5. QED
    <3>1. MainStep => request' = request /\ main.pc # "idle"
      BY SameLine
    <3>2. ~MainStep /\ ~ClientStep => UNCHANGED <<request, main>>
      BY DEF Next, vars, TakeLine, Deliver, ServerAnswer, ServerSpeaks, EditVault, EditPolicy
    <3>3. QED
      BY <2>1, <2>3, <2>4, <3>1, <3>2 DEF ClientStep
<1>5. QED
  BY <1>1, <1>2, <1>3, <1>4 DEF PlaceInv, OnePlace

-----------------------------------------------------------------------------
(* The maps.                                                               *)

\* n holds id i: the members of Holders(i), one by one.
Holds(n, i) ==
  /\ n \in 1..Len(request) /\ Expected(request[n]) /\ request[n].id = i
  /\ Out(n) \/ AtMain(n)

\* Who holds an id stays as it is ...
LEMMA HoldersKeep ==
  ASSUME PlaceInv, [Next]_vars, ~ClearPending, \A r \in ClientLines : ~Receive(r),
         ~(TakeLine /\ Head(toProxy).kind = "answer")
  PROVE  \A i \in Ids : Holders(i)' = Holders(i)
<1>a. PipeInv /\ TypeOK /\ OnePlace
  BY DEF PlaceInv, PipeInv
<1>1. ASSUME NEW r \in ClientLines, ReceiveDuplicate(r), NEW i \in Ids
      PROVE  Holders(i)' = Holders(i)
  <2>1. r \in Request /\ request' = Append(request, r) /\ Current < MaxRequests
    BY <1>1, ClientLineType DEF ReceiveDuplicate
  <2>2. /\ Len(request') = Len(request) + 1 /\ Len(request) \in Nat
        /\ \A n \in 1..Len(request) : request'[n] = request[n]
    BY <1>a, <2>1, ReadKeeps
  <2>3. UNCHANGED <<atServer, toProxy, main>> /\ main.pc = "idle"
    BY <1>1 DEF ReceiveDuplicate, pipeVars
  <2>4. \A n : Out(n)' = Out(n) /\ (Out(n) => n \in 1..Len(request))
    BY <1>a, <2>3 DEF Out, InPipe, PipeInv, OutIsSent, Sent
  <2>5. \A n : ~AtMain(n) /\ ~AtMain(n)'
    BY <2>3 DEF AtMain
  <2>6. \A n \in 1..Len(request) : n \in 1..Len(request')
    BY <2>2
  <2>7. QED
    BY <2>2, <2>4, <2>5, <2>6 DEF Holders, Expected
<1>2. CASE request' = request /\ ~Write /\ (\A n : AtMain(n)' = AtMain(n))
  <2>1. \A n : Out(n)' = Out(n)
    BY <1>a, <1>2, OutStep
  <2>2. QED
    BY <1>2, <2>1 DEF Holders, Expected
<1>3. CASE Write
  <2>1. request' = request /\ main.pc # "idle" /\ main'.pc = "idle" /\ toProxy' = toProxy
    BY <1>3, BackToIdle DEF Write
  <2>2. \A n : AtMain(n) <=> n = Current
    BY <2>1 DEF AtMain
  <2>3. \A n : ~AtMain(n)'
    BY <2>1 DEF AtMain
  <2>4. \A n : Out(n)' <=> Out(n) \/ (n = Current /\ Expected(request[Current]))
    <3>1. \A n : InPipe(n)' = InPipe(n)
      BY <2>1 DEF InPipe
    <3>2. QED
      BY <1>3, <3>1 DEF Write, Out
  <2>5. QED
    BY <2>1, <2>2, <2>3, <2>4 DEF Holders, Expected
<1>4. QED
  <2>1. MainStep => request' = request /\ main.pc # "idle" /\ Current' = Current
    BY SameLine
  <2>2. MainStep /\ ~Write /\ ~ClearPending => main'.pc # "idle"
    <3> USE <1>a DEF TypeOK, Goto
    <3>1. Register \/ BuildStatus \/ ReadVault \/ ReadPolicy => main'.pc # "idle"
      BY DEF Register, BuildStatus, ReadVault, ReadPolicy
    <3>2. Authorize \/ Fail \/ ConsumeRate \/ RecordSecrets => main'.pc # "idle"
      BY DEF Authorize, Fail, ConsumeRate, RecordSecrets
    <3>3. AnswerLocally \/ Reject => main'.pc # "idle"
      BY DEF AnswerLocally, Reject
    <3>4. QED
      BY <3>1, <3>2, <3>3 DEF MainStep
  <2>3. MainStep /\ ~Write => \A n : AtMain(n)' = AtMain(n)
    BY <2>1, <2>2 DEF AtMain
  <2>4. ~MainStep /\ ~ClientStep => UNCHANGED <<request, main>>
    BY DEF Next, vars, TakeLine, Deliver, ServerAnswer, ServerSpeaks, EditVault, EditPolicy
  <2>5. ~MainStep /\ ~ClientStep => \A n : AtMain(n)' = AtMain(n)
    BY <2>4 DEF AtMain, Current
  <2>6. QED
    BY <1>1, <1>2, <1>3, <2>1, <2>3, <2>4, <2>5 DEF ClientStep

\* ... but for a line that is read and entered,
LEMMA HoldersReceive ==
  ASSUME PlaceInv, NEW r \in ClientLines, Receive(r), NEW i \in Ids
  PROVE  Holders(i)' = Holders(i) \cup
           IF Expected(r) /\ r.id = i THEN {Len(request) + 1} ELSE {}
<1>a. PipeInv /\ TypeOK
  BY DEF PlaceInv, PipeInv
<1>1. r \in Request /\ request' = Append(request, r) /\ Current < MaxRequests
  BY ClientLineType DEF Receive
<1>2. /\ Len(request') = Len(request) + 1 /\ Len(request) \in Nat
      /\ request'[Len(request) + 1] = r
      /\ \A n \in 1..Len(request) : request'[n] = request[n]
  BY <1>a, <1>1, ReadKeeps
<1>3. UNCHANGED <<atServer, toProxy>>
  BY DEF Receive, pipeVars
<1>4. \A n : Out(n)' = Out(n) /\ (Out(n) => n \in 1..Len(request))
  BY <1>a, <1>3 DEF Out, InPipe, PipeInv, OutIsSent, Sent
<1>5. main.pc = "idle" /\ main'.pc # "idle"
  BY <1>a DEF Receive, Goto, TypeOK
<1>6. \A n : ~AtMain(n) /\ (AtMain(n)' <=> n = Len(request) + 1)
  BY <1>2, <1>5 DEF AtMain, Current
<1>7. 1..Len(request') = 1..Len(request) \cup {Len(request) + 1}
  BY <1>2
<1>8. Len(request) + 1 \notin 1..Len(request)
  BY <1>2
<1>9. ASSUME NEW n
      PROVE  Holds(n, i)' <=> Holds(n, i) \/ (Expected(r) /\ r.id = i /\ n = Len(request) + 1)
  <2>1. CASE n = Len(request) + 1
    BY <1>2, <1>4, <1>6, <1>7, <1>8, <2>1 DEF Holds, Expected
  <2>2. CASE n # Len(request) + 1
    BY <1>2, <1>4, <1>6, <1>7, <1>8, <2>2 DEF Holds, Expected
  <2>3. QED
    BY <2>1, <2>2
<1>10. \A n : n \in Holders(i)' <=> Holds(n, i)'
  BY DEF Holders, Holds
<1>11. \A n : n \in Holders(i) <=> Holds(n, i)
  BY DEF Holders, Holds
<1>12. QED
  BY <1>9, <1>10, <1>11

\* a line that main is done with,
LEMMA HoldersClear ==
  ASSUME PlaceInv, ClearPending, NEW i \in Ids
  PROVE  Holders(i)' = Holders(i) \ {Current}
<1>1. request' = request /\ main.pc # "idle" /\ main'.pc = "idle"
  BY BackToIdle DEF ClearPending
<1>2. \A n : Out(n)' = Out(n)
  BY DEF ClearPending, pipeVars, Out, InPipe
<1>3. ~Out(Current)
  BY <1>1 DEF PlaceInv, OnePlace
<1>4. QED
  BY <1>1, <1>2, <1>3 DEF Holders, AtMain, Expected

\* and an answer that the response thread takes out of the pipe.
LEMMA HoldersTake ==
  ASSUME PlaceInv, TakeLine, NEW l, l = Head(toProxy), l.kind = "answer", NEW i \in Ids
  PROVE  /\ Holders(i)' = Holders(i) \ {l.n}
         /\ Sent(l.n, l.id) /\ l.id \in Ids
         /\ l.n \in Holders(l.id)
<1>a. PipeInv /\ TypeOK /\ OnePlace
  BY DEF PlaceInv, PipeInv
<1>b. [Next]_vars
  BY DEF Next
<1>1. toProxy' = Tail(toProxy) /\ toProxy # <<>> /\ request' = request /\ main' = main
      /\ atServer' = atServer
  BY DEF TakeLine
<1>2. l = toProxy[1] /\ 1 \in 1..Len(toProxy) /\ toProxy[1] \in Line
  BY <1>a, <1>1 DEF TypeOK
<1>3. Sent(l.n, l.id) /\ l.id \in Ids
  BY <1>a, <1>2 DEF PipeInv, OutIsSent, Sent, Expected, Line
<1>4. Out(l.n) /\ ~Out(l.n)'
  BY <1>a, TakeGone
<1>5. \A n : n # l.n => Out(n)' = Out(n)
  BY <1>a, <1>b, OutStep DEF Write, TakeLine
<1>6. ~AtMain(l.n)
  BY <1>a, <1>4 DEF OnePlace, AtMain
<1>7. \A n : AtMain(n)' = AtMain(n)
  BY <1>1 DEF AtMain, Current
<1>8. QED
  BY <1>1, <1>3, <1>4, <1>5, <1>6, <1>7 DEF Holders, Sent, Expected

\* The steps that change the maps.
LEMMA MapFrame ==
  ASSUME [Next]_vars
  PROVE  \/ UNCHANGED mapVars
         \/ Register \/ BuildStatus \/ RecordSecrets \/ ClearPending
         \/ \E r \in ClientLines : Receive(r)
         \/ TakeLine /\ Head(toProxy).kind = "answer"
BY DEF Next, vars, mapVars, ClientStep, MainStep, ReceiveDuplicate, ReadVault, ReadPolicy,
   Authorize, Fail, ConsumeRate, Write, AnswerLocally, Reject, TakeLine, IsResponse, Deliver,
   ServerAnswer, ServerSpeaks, EditVault, EditPolicy

\* A line that main is at holds its id.
LEMMA CurrentHolds ==
  ASSUME PlaceInv, main.pc # "idle", Expected(request[Current])
  PROVE  Id \in Ids /\ Current \in Holders(Id)
BY CurrentLine DEF PlaceInv, Expected, Holders, AtMain, Id

\* A line whose entries main writes or clears expects an answer, if it has an id.
LEMMA Entering ==
  ASSUME PipeInv, Register \/ BuildStatus \/ RecordSecrets \/ ClearPending, Id # NoId
  PROVE  Expected(request[Current]) /\ main.pc # "idle" /\ request' = request
BY CurrentLine DEF PipeInv, OnPath, PathOf, Register, BuildStatus, RecordSecrets, ClearPending,
   Expected, Id, Call, Tools, DeviceTools

\* An id is held once, and its entries are empty while nobody holds it.
HoldInv == PlaceInv /\ PendingExact

\* The maps agree with who holds an id, whoever moves.
LEMMA HoldStep ==
  ASSUME HoldInv, PlaceInv', [Next]_vars
  PROVE  HoldInv'
<1>a. PlaceInv /\ PipeInv /\ TypeOK /\ PendingExact
  BY DEF HoldInv, PlaceInv, PipeInv
<1> DEFINE Exact(i) == /\ \A m, n \in Holders(i) : m = n
                       /\ pending[i] = "none" <=> Holders(i) = {}
                       /\ pending[i] = "none" => /\ pendingTool[i] = "none"
                                                /\ responseSecrets[i] = {}
                                                /\ ~control[i]
<1>b. \A i \in Ids : Exact(i)
  BY <1>a DEF PendingExact
<1>c. SUFFICES ASSUME NEW i \in Ids PROVE Exact(i)'
  BY <1>a DEF HoldInv, PendingExact
<1>1. CASE UNCHANGED mapVars /\ Holders(i)' = Holders(i)
  BY <1>b, <1>1 DEF mapVars
<1>2. CASE Register \/ BuildStatus \/ RecordSecrets
  <2>1. Holders(i)' = Holders(i)
    <3>1. main.pc \in {"register", "status", "record"} /\ main' # main
      BY <1>a, <1>2 DEF Register, BuildStatus, RecordSecrets, Goto, TypeOK
    <3>2. ~ClearPending /\ ~TakeLine /\ \A r \in ClientLines : ~Receive(r)
      BY <3>1 DEF ClearPending, TakeLine, Receive
    <3>3. QED
      BY <1>a, <3>2, HoldersKeep
  <2>2. pending' = pending
    BY <1>2 DEF Register, BuildStatus, RecordSecrets
  <2>3. CASE Id # NoId /\ i = Id
    BY <1>a, <1>b, <1>2, <2>1, <2>2, <2>3, Entering, CurrentHolds
  <2>4. CASE ~(Id # NoId /\ i = Id)
    <3>1. /\ pendingTool'[i] = pendingTool[i] /\ responseSecrets'[i] = responseSecrets[i]
          /\ control'[i] = control[i]
      BY <1>a, <1>2, <2>4 DEF Register, BuildStatus, RecordSecrets, Set, TypeOK
    <3>2. QED
      BY <1>b, <2>1, <2>2, <3>1
  <2>5. QED
    BY <2>3, <2>4
<1>3. ASSUME NEW r \in ClientLines, Receive(r) PROVE Exact(i)'
  <2>1. Holders(i)' = Holders(i) \cup IF Expected(r) /\ r.id = i THEN {Len(request) + 1} ELSE {}
    BY <1>a, <1>3, HoldersReceive
  <2>2. UNCHANGED <<pendingTool, responseSecrets, control>>
    BY <1>3 DEF Receive
  <2>3. CASE Expected(r) /\ r.id = i
    <3>1. pending[i] = "none" /\ pending'[i] # "none"
      BY <1>a, <1>3, <2>3 DEF Receive, TypeOK, Method
    <3>2. QED
      BY <1>b, <2>1, <2>3, <3>1
  <2>4. CASE ~(Expected(r) /\ r.id = i)
    <3>1. pending'[i] = pending[i]
      BY <1>a, <1>3, <2>4 DEF Receive, TypeOK
    <3>2. QED
      BY <1>b, <2>1, <2>2, <2>4, <3>1
  <2>5. QED
    BY <2>3, <2>4
<1>4. CASE ClearPending
  <2>1. Holders(i)' = Holders(i) \ {Current}
    BY <1>a, <1>4, HoldersClear
  <2>2. CASE Id # NoId /\ i = Id
    <3>1. Holders(i)' = {}
      BY <1>a, <1>b, <1>4, <2>1, <2>2, Entering, CurrentHolds
    <3>2. /\ pending'[i] = "none" /\ pendingTool'[i] = "none" /\ responseSecrets'[i] = {}
          /\ ~control'[i]
      BY <1>a, <1>4, <2>2 DEF ClearPending, Set, TypeOK
    <3>3. QED
      BY <3>1, <3>2
  <2>3. CASE ~(Id # NoId /\ i = Id)
    <3>1. Current \notin Holders(i)
      BY <2>3 DEF Holders, Id, Expected
    <3>2. /\ pending'[i] = pending[i] /\ pendingTool'[i] = pendingTool[i]
          /\ responseSecrets'[i] = responseSecrets[i] /\ control'[i] = control[i]
      BY <1>a, <1>4, <2>3 DEF ClearPending, Set, TypeOK
    <3>3. QED
      BY <1>b, <2>1, <3>1, <3>2
  <2>4. QED
    BY <2>2, <2>3
<1>5. CASE TakeLine /\ Head(toProxy).kind = "answer"
  <2> DEFINE l == Head(toProxy)
  <2>1. /\ Holders(i)' = Holders(i) \ {l.n} /\ Sent(l.n, l.id) /\ l.id \in Ids
        /\ l.n \in Holders(l.id)
    BY <1>a, <1>5, HoldersTake
  <2>2. /\ pending' = [pending EXCEPT ![l.id] = "none"]
        /\ pendingTool' = [pendingTool EXCEPT ![l.id] = "none"]
        /\ responseSecrets' = [responseSecrets EXCEPT ![l.id] = {}]
        /\ control' = [control EXCEPT ![l.id] = FALSE]
    BY <1>5 DEF TakeLine, IsResponse
  <2>3. CASE i = l.id
    <3>1. Holders(i)' = {}
      BY <1>b, <2>1, <2>3
    <3>2. /\ pending'[i] = "none" /\ pendingTool'[i] = "none" /\ responseSecrets'[i] = {}
          /\ ~control'[i]
      BY <1>a, <2>2, <2>3 DEF TypeOK
    <3>3. QED
      BY <3>1, <3>2
  <2>4. CASE i # l.id
    <3>1. l.n \notin Holders(i)
      BY <2>1, <2>4 DEF Holders, Sent
    <3>2. /\ pending'[i] = pending[i] /\ pendingTool'[i] = pendingTool[i]
          /\ responseSecrets'[i] = responseSecrets[i] /\ control'[i] = control[i]
      BY <1>a, <2>2, <2>4 DEF TypeOK
    <3>3. QED
      BY <1>b, <2>1, <3>1, <3>2
  <2>5. QED
    BY <2>3, <2>4
<1>6. QED
  BY <1>a, <1>1, <1>2, <1>3, <1>4, <1>5, MapFrame, HoldersKeep

-----------------------------------------------------------------------------
(* What the response thread finds in the maps.                             *)

\* The calls that get to the server and are answered.
Answerable == {"list", "status", "catalog", "device", "page"}

\* The entries of a call in pending, pending_tools and control_payloads.
Entry(call, method, tool, payload) ==
  /\ method = Method(call)
  /\ tool = IF call = "list" THEN "none" ELSE call
  /\ payload <=> call = "status"

EntryOf(n, method, tool, payload) ==
  request[n].call \in Answerable /\ Entry(request[n].call, method, tool, payload)

OutEntered ==
  \A n \in 1..Len(request) : Out(n) =>
    EntryOf(n, pending[request[n].id], pendingTool[request[n].id], control[request[n].id])

ThreadEntered ==
  thread.line.kind = "answer" =>
    EntryOf(thread.line.n, thread.method, thread.tool, thread.control)

MainEntered ==
  main.pc # "idle" /\ Expected(request[Current]) =>
    /\ pending[Id] = Method(Call)
    /\ main.pc \notin {"register", "reject", "clear"} =>
         pendingTool[Id] = IF Call = "list" THEN "none" ELSE Call
    /\ control[Id] <=> (Call = "status" /\ main.pc \in {"record", "write"})

EntryInv == HoldInv /\ OutEntered /\ ThreadEntered /\ MainEntered

\* A line that is out holds its id, alone.
LEMMA OutHolds ==
  ASSUME HoldInv, NEW n, Out(n)
  PROVE  /\ Sent(n, request[n].id) /\ request[n].id \in Ids
         /\ n \in Holders(request[n].id)
         /\ \A m \in Holders(request[n].id) : m = n
<1>a. PipeInv /\ TypeOK /\ PendingExact
  BY DEF HoldInv, PlaceInv, PipeInv
<1>1. Sent(n, request[n].id)
  <2>1. CASE n \in atServer
    BY <1>a, <2>1 DEF PipeInv, OutIsSent
  <2>2. CASE InPipe(n)
    BY <1>a, <2>2 DEF PipeInv, OutIsSent, InPipe, Sent
  <2>3. QED
    BY <2>1, <2>2 DEF Out
<1>2. request[n].id \in Ids
  <2>1. request[n] \in Request
    BY <1>a, <1>1 DEF TypeOK, Sent
  <2>2. QED
    BY <1>1, <2>1 DEF Sent, Request, Expected
<1>3. n \in Holders(request[n].id)
  BY <1>1 DEF Holders, Sent
<1>4. QED
  BY <1>a, <1>1, <1>2, <1>3 DEF PendingExact

\* No other line enters or clears the entries of a line that is out.
LEMMA OutEnteredStep ==
  ASSUME EntryInv, PlaceInv', [Next]_vars
  PROVE  OutEntered'
<1>a. HoldInv /\ PlaceInv /\ PipeInv /\ TypeOK /\ OnePlace /\ OnPath /\ PendingExact
  BY DEF EntryInv, HoldInv, PlaceInv, PipeInv
<1> SUFFICES ASSUME NEW n \in 1..Len(request'), Out(n)'
             PROVE  EntryOf(n, pending[request[n].id], pendingTool[request[n].id],
                            control[request[n].id])'
  BY DEF OutEntered
<1> DEFINE i == request[n].id
<1>1. CASE Out(n)
  <2>1. /\ n \in 1..Len(request) /\ i \in Ids /\ n \in Holders(i)
        /\ \A m \in Holders(i) : m = n
    BY <1>a, <1>1, OutHolds DEF Sent
  <2>2. request'[n] = request[n]
    BY <1>a, <2>1, CallKeeps
  <2>3. EntryOf(n, pending[i], pendingTool[i], control[i])
    BY <1>1, <2>1 DEF EntryInv, OutEntered
  <2>4. SUFFICES pending'[i] = pending[i] /\ pendingTool'[i] = pendingTool[i]
                 /\ control'[i] = control[i]
    BY <2>2, <2>3 DEF EntryOf
  <2>5. CASE Register \/ BuildStatus \/ RecordSecrets \/ ClearPending
    <3>1. Id = NoId \/ Id # i
      <4>1. Id # NoId => Current \in Holders(Id) /\ ~Out(Current)
        BY <1>a, <2>5, Entering, CurrentHolds DEF OnePlace
      <4>2. QED
        BY <1>1, <2>1, <4>1
    <3>2. QED
      BY <1>a, <2>1, <2>5, <3>1
         DEF Register, BuildStatus, RecordSecrets, ClearPending, Set, TypeOK
  <2>6. ASSUME NEW r \in ClientLines, Receive(r)
        PROVE  pending'[i] = pending[i] /\ pendingTool'[i] = pendingTool[i]
               /\ control'[i] = control[i]
    <3>1. Expected(r) => r.id # i
      BY <1>a, <2>1, <2>6 DEF Receive, PendingExact
    <3>2. QED
      BY <1>a, <2>1, <2>6, <3>1 DEF Receive, TypeOK
  <2>7. CASE TakeLine /\ Head(toProxy).kind = "answer"
    <3> DEFINE l == Head(toProxy)
    <3>1. l.id \in Ids /\ l.n \in Holders(l.id)
      BY <1>a, <2>1, <2>7, HoldersTake
    <3>2. n # l.n
      BY <1>a, <2>7, TakeGone
    <3>3. l.id # i
      BY <2>1, <3>1, <3>2
    <3>4. QED
      BY <1>a, <2>1, <2>7, <3>1, <3>3 DEF TakeLine, IsResponse, TypeOK
  <2>8. QED
    BY <2>5, <2>6, <2>7, MapFrame DEF mapVars
<1>2. CASE ~Out(n)
  <2>1. Write /\ n = Current /\ Expected(request[Current])
    BY <1>a, <1>2, OutStep
  <2>2. request' = request /\ UNCHANGED mapVars /\ main.pc = "write"
    BY <2>1 DEF Write
  <2>3. Call \in Answerable
    BY <1>a, <2>1, <2>2 DEF OnPath, PathOf, Expected, Answerable, Kinds, Tools, Call
  <2>4. Entry(Call, pending[Id], pendingTool[Id], control[Id])
    BY <2>1, <2>2 DEF EntryInv, MainEntered, Entry
  <2>5. QED
    BY <2>1, <2>2, <2>3, <2>4 DEF EntryOf, Id, Call, mapVars
<1>3. QED
  BY <1>1, <1>2

\* The thread pops the entries of the line it answers.
LEMMA ThreadEnteredStep ==
  ASSUME EntryInv, PlaceInv', [Next]_vars
  PROVE  ThreadEntered'
<1>a. HoldInv /\ PlaceInv /\ PipeInv /\ TypeOK /\ OutIsSent
  BY DEF EntryInv, HoldInv, PlaceInv, PipeInv
<1>1. CASE thread' = thread
  <2>1. SUFFICES ASSUME thread.line.kind = "answer"
                 PROVE  EntryOf(thread.line.n, thread.method, thread.tool, thread.control)'
    BY <1>1 DEF ThreadEntered
  <2>2. request'[thread.line.n] = request[thread.line.n]
    BY <1>a, <2>1, CallKeeps DEF OutIsSent, Sent
  <2>3. QED
    BY <1>1, <2>1, <2>2 DEF EntryInv, ThreadEntered, EntryOf
<1>2. CASE TakeLine /\ Head(toProxy).kind = "answer"
  <2> DEFINE l == Head(toProxy)
  <2>1. /\ thread' = [line |-> l, method |-> pending[l.id], tool |-> pendingTool[l.id],
                      secrets |-> responseSecrets[l.id], control |-> control[l.id]]
        /\ request' = request
    BY <1>2 DEF TakeLine, IsResponse
  <2>2. PICK i \in Ids : TRUE
    <3>1. Head(toProxy) = toProxy[1] /\ 1 \in 1..Len(toProxy) /\ toProxy[1] \in Line
      BY <1>a, <1>2 DEF TypeOK, TakeLine
    <3>2. QED
      BY <1>a, <1>2, <3>1 DEF OutIsSent, Sent, Expected, Line
  <2>3. Sent(l.n, l.id) /\ Out(l.n)
    BY <1>a, <1>2, <2>2, HoldersTake, TakeGone DEF PlaceInv
  <2>4. EntryOf(l.n, pending[l.id], pendingTool[l.id], control[l.id])
    BY <2>3 DEF EntryInv, OutEntered, Sent
  <2>5. QED
    BY <2>1, <2>4 DEF ThreadEntered, EntryOf
<1>3. CASE TakeLine /\ Head(toProxy).kind # "answer"
  <2>1. thread'.line = Head(toProxy)
    BY <1>3 DEF TakeLine, IsResponse, NoThread
  <2>2. QED
    BY <1>3, <2>1 DEF ThreadEntered
<1>4. CASE Deliver
  BY <1>4 DEF Deliver, NoThread, NoLine, ThreadEntered
<1>5. QED
  BY <1>1, <1>2, <1>3, <1>4, PipeFrame DEF Write, ServerSpeaks, ServerAnswer

\* The entries that main makes for its line, while it is at it.
LEMMA MainEnteredStep ==
  ASSUME EntryInv, PlaceInv', [Next]_vars
  PROVE  MainEntered'
<1>a. HoldInv /\ PlaceInv /\ PipeInv /\ TypeOK /\ OnePlace /\ OnPath /\ PendingExact
      /\ MainEntered
  BY DEF EntryInv, HoldInv, PlaceInv, PipeInv
<1>1. ASSUME NEW r \in ClientLines, Receive(r) PROVE MainEntered'
  <2>1. r \in Request /\ request' = Append(request, r) /\ Current < MaxRequests
    BY <1>1, ClientLineType DEF Receive
  <2>2. request'[Current'] = r
    BY <1>a, <2>1, ReadKeeps DEF Current
  <2>3. SUFFICES ASSUME Expected(r)
                 PROVE  /\ pending'[r.id] = Method(r.call)
                        /\ main'.pc \notin {"register", "reject", "clear"} =>
                             pendingTool'[r.id] = IF r.call = "list" THEN "none" ELSE r.call
                        /\ ~control'[r.id]
                        /\ main'.pc = "write" => r.call = "list"
                        /\ main'.pc # "record"
    <3>1. (Id' = r.id /\ Call' = r.call) /\ (Expected(request[Current])' <=> Expected(r))
      BY <2>2 DEF Id, Call, Expected
    <3>2. QED
      BY <3>1 DEF MainEntered, Method
  <2>4. r.id \in Ids /\ pending[r.id] = "none" /\ pendingTool[r.id] = "none"
        /\ ~control[r.id]
    BY <1>a, <1>1, <2>1, <2>3 DEF Receive, Expected, Request, PendingExact
  <2>5. main'.pc = CASE r.call \in {"list", "reply"} -> "write"
                     [] r.call = "malformed"         -> "reject"
                     [] OTHER                        -> "register"
    BY <1>a, <1>1 DEF Receive, Goto, TypeOK
  <2>6. main'.pc = "write" => r.call = "list"
    BY <2>3, <2>5 DEF Expected
  <2>7. main'.pc \in {"write", "reject", "register"}
    BY <2>5
  <2>8. QED
    BY <1>a, <1>1, <2>3, <2>4, <2>6, <2>7 DEF Receive, TypeOK, Expected
<1>2. CASE TakeLine /\ Head(toProxy).kind = "answer"
  <2>1. main' = main /\ request' = request /\ Current' = Current /\ Id' = Id /\ Call' = Call
    BY <1>2 DEF TakeLine, Current, Id, Call
  <2>2. SUFFICES ASSUME main.pc # "idle", Expected(request[Current])
                 PROVE  pending'[Id] = pending[Id] /\ pendingTool'[Id] = pendingTool[Id]
                        /\ control'[Id] = control[Id]
    BY <1>a, <2>1 DEF MainEntered, Expected
  <2> DEFINE l == Head(toProxy)
  <2>3. Id \in Ids /\ Current \in Holders(Id) /\ ~Out(Current)
    BY <1>a, <2>2, CurrentHolds DEF OnePlace
  <2>4. l.id \in Ids /\ l.n \in Holders(l.id) /\ Out(l.n)
    BY <1>a, <1>2, <2>3, HoldersTake, TakeGone
  <2>5. l.id # Id
    BY <1>a, <2>3, <2>4 DEF PendingExact
  <2>6. QED
    BY <1>a, <1>2, <2>3, <2>4, <2>5 DEF TakeLine, IsResponse, TypeOK
<1>3. CASE UNCHANGED <<request, main, mapVars>>
  BY <1>a, <1>3 DEF MainEntered, Current, Id, Call, Expected, mapVars
<1>4. ASSUME NEW r \in ClientLines, ReceiveDuplicate(r) PROVE MainEntered'
  BY <1>4 DEF ReceiveDuplicate, MainEntered
<1>5. CASE MainStep
  <2>1. request' = request /\ Current' = Current /\ Call' = Call /\ Id' = Id
        /\ main.pc # "idle"
    BY <1>5, SameLine DEF Id
  <2>2. SUFFICES ASSUME Expected(request[Current]), main'.pc # "idle"
                 PROVE  /\ pending'[Id] = Method(Call)
                        /\ main'.pc \notin {"register", "reject", "clear"} =>
                             pendingTool'[Id] = IF Call = "list" THEN "none" ELSE Call
                        /\ control'[Id] <=> (Call = "status" /\ main'.pc \in {"record", "write"})
    BY <2>1 DEF MainEntered, Expected
  <2>3. Id \in Ids /\ Id # NoId
    BY <1>a, <2>1, <2>2, CurrentHolds DEF Expected, Id
  <2>4. /\ pending[Id] = Method(Call)
        /\ main.pc \notin {"register", "reject", "clear"} =>
             pendingTool[Id] = IF Call = "list" THEN "none" ELSE Call
        /\ control[Id] <=> (Call = "status" /\ main.pc \in {"record", "write"})
    BY <1>a, <2>1, <2>2 DEF MainEntered
  <2> USE <1>a, <2>3, <2>4 DEF TypeOK, Goto, mapVars, OnPath, PathOf, DeviceTools, Tools
  <2>5. CASE Register
    BY <2>5 DEF Register, Set
  <2>6. CASE BuildStatus
    BY <2>6 DEF BuildStatus, Set
  <2>7. CASE ReadVault \/ ReadPolicy
    BY <2>7 DEF ReadVault, ReadPolicy
  <2>8. CASE Authorize \/ Fail
    BY <2>8 DEF Authorize, Fail
  <2>9. CASE ConsumeRate
    BY <2>9 DEF ConsumeRate
  <2>10. CASE RecordSecrets
    BY <2>10 DEF RecordSecrets
  <2>11. CASE AnswerLocally \/ Reject
    BY <2>11 DEF AnswerLocally, Reject
  <2>12. ~(Write \/ ClearPending)
    BY <2>2, BackToIdle
  <2>13. QED
    BY <1>5, <2>5, <2>6, <2>7, <2>8, <2>9, <2>10, <2>11, <2>12 DEF MainStep
<1>6. QED
  BY <1>1, <1>2, <1>3, <1>4, <1>5 DEF Next, vars, ClientStep, TakeLine, IsResponse, Deliver,
     ServerAnswer, ServerSpeaks, EditVault, EditPolicy

-----------------------------------------------------------------------------
(* The answers.                                                            *)

\* A line without an answer yet: one not read, one on its way, one at main.
Unanswered ==
  /\ \A n \in Serials : n > Len(request) \/ Out(n) \/ InThread(n) => answers[n] = {}
  /\ main.pc \notin {"idle", "clear"} => answers[Current] = {}

AnswerInv == EntryInv /\ Unanswered /\ AnswersMatchRequests

\* What the thread makes of an answer is what its kind of call allows.
LEMMA TreatmentAllowed ==
  ASSUME NEW call \in Answerable, Entry(call, thread.method, thread.tool, thread.control)
  PROVE  Treatment \in Allowed(call) \ {"refused"}
<1>1. CASE call = "list"
  <2>1. thread.method = "list"
    BY <1>1 DEF Entry, Method
  <2>2. Treatment = "listed"
    BY <2>1 DEF Treatment
  <2>3. QED
    BY <1>1, <2>2 DEF Allowed, DeviceTools
<1>2. CASE call = "status"
  <2>1. thread.method = "call" /\ thread.tool = "status" /\ thread.control
    BY <1>2 DEF Entry, Method
  <2>2. Treatment = "merged"
    BY <2>1 DEF Treatment, ControlTools
  <2>3. QED
    BY <1>2, <2>2 DEF Allowed, DeviceTools
<1>3. CASE call = "catalog"
  <2>1. thread.method = "call" /\ thread.tool = "catalog"
    BY <1>3 DEF Entry, Method
  <2>2. Treatment = "plain"
    BY <2>1 DEF Treatment, ControlTools
  <2>3. QED
    BY <1>3, <2>2 DEF Allowed, DeviceTools
<1>4. CASE call \in DeviceTools
  <2>1. thread.method = "call" /\ thread.tool \in DeviceTools
    BY <1>4 DEF Entry, Method, DeviceTools
  <2>2. Treatment = "untrusted"
    BY <2>1 DEF Treatment, ControlTools, DeviceTools
  <2>3. Allowed(call) = {"refused", "untrusted"}
    BY <1>4 DEF Allowed, DeviceTools
  <2>4. QED
    BY <2>2, <2>3
<1>5. QED
  BY <1>1, <1>2, <1>3, <1>4 DEF Answerable, DeviceTools

\* A line that is not an answer of the client may be refused.
LEMMA RefusalAllowed ==
  ASSUME NEW call \in Kinds \ {"reply"}
  PROVE  "refused" \in Allowed(call)
<1>1. CASE call = "list"
  BY <1>1 DEF Allowed, DeviceTools
<1>2. CASE call = "malformed"
  BY <1>2 DEF Allowed, DeviceTools
<1>3. CASE call = "scope"
  BY <1>3 DEF Allowed, DeviceTools
<1>4. CASE call = "status"
  BY <1>4 DEF Allowed, DeviceTools
<1>5. CASE call = "catalog"
  BY <1>5 DEF Allowed, DeviceTools
<1>6. CASE call \in DeviceTools
  BY <1>6 DEF Allowed, DeviceTools
<1>7. QED
  BY <1>1, <1>2, <1>3, <1>4, <1>5, <1>6 DEF Kinds, Tools, DeviceTools

\* Line n, without an answer so far, is given treatment t, by the client's step
\* that reads and refuses it or by a later one.
Answers(n, t) ==
  /\ n \in Serials /\ answers[n] = {} /\ answers' = [answers EXCEPT ![n] = {t}]
  /\ n \in 1..Len(request') /\ Expected(request'[n]) /\ t \in Allowed(request'[n].call)
  /\ \/ n = Len(request) + 1 /\ ClientStep /\ t = "refused"
     \/ n \in 1..Len(request) /\ request' = request
  /\ t = "refused" => n = Len(request) + 1 \/ (n = Current /\ main.pc = "reject")
  /\ ~Out(n)' /\ ~InThread(n)' /\ (main'.pc \notin {"idle", "clear"} => n # Current')

\* Every step leaves the answers alone or gives one line its one answer.
LEMMA AnswerStep ==
  ASSUME AnswerInv, PlaceInv', [Next]_vars
  PROVE  answers' = answers \/ \E n, t : Answers(n, t)
<1>a. PlaceInv /\ PipeInv /\ TypeOK /\ OnePlace /\ OutIsSent /\ OnPath /\ Unanswered
  BY DEF AnswerInv, EntryInv, HoldInv, PlaceInv, PipeInv
<1>b. PipeInv' /\ TypeOK' /\ OnePlace' /\ OutIsSent'
  BY DEF PlaceInv, PipeInv
<1>c. answers \in [Serials -> SUBSET Treatments]
  BY <1>a DEF TypeOK
<1>1. ASSUME NEW r \in ClientLines, ReceiveDuplicate(r)
      PROVE  \E n, t : Answers(n, t)
  <2>0. PICK n : n = Len(request) + 1
    OBVIOUS
  <2>1. r \in Request /\ request' = Append(request, r) /\ Current < MaxRequests /\ Expected(r)
    BY <1>1, ClientLineType DEF ReceiveDuplicate
  <2>2. /\ n \in 1..Len(request') /\ request'[n] = r /\ n \notin 1..Len(request)
        /\ n \in Serials /\ n > Len(request)
    BY <1>a, <2>0, <2>1, ReadKeeps DEF Serials, Current, TypeOK
  <2>3. answers[n] = {}
    BY <1>a, <2>2 DEF Unanswered
  <2>4. answers' = [answers EXCEPT ![n] = {"refused"}]
    BY <1>1, <1>c, <2>0, <2>1, <2>2, <2>3 DEF ReceiveDuplicate, Emit, Expected, Current
  <2>5. "refused" \in Allowed(r.call)
    BY <2>1, RefusalAllowed DEF Expected, Request
  <2>6. ~Out(n)' /\ ~InThread(n)' /\ main'.pc = "idle"
    <3>1. UNCHANGED <<atServer, toProxy, thread, main>> /\ main.pc = "idle"
      BY <1>1 DEF ReceiveDuplicate, pipeVars
    <3>2. ~Out(n) /\ ~InThread(n)
      BY <1>a, <2>2 DEF Out, InPipe, InThread, OutIsSent, Sent
    <3>3. QED
      BY <3>1, <3>2 DEF Out, InPipe, InThread
  <2>7. Answers(n, "refused")
    BY <1>1, <2>0, <2>1, <2>2, <2>3, <2>4, <2>5, <2>6 DEF Answers, ClientStep
  <2>8. QED
    BY <2>7
<1>2. CASE AnswerLocally \/ Reject
  <2>0. PICK n, t : n = Current /\ t = IF main.pc = "local" THEN "local" ELSE "refused"
    OBVIOUS
  <2>1. /\ main.pc \in {"local", "reject"} /\ main'.pc = "clear" /\ request' = request
        /\ UNCHANGED <<atServer, toProxy, thread>> /\ Emit(n, request[n], t)
    BY <1>2, <1>a, <2>0 DEF AnswerLocally, Reject, pipeVars, Goto, TypeOK
  <2>2. n \in Serials /\ n \in 1..Len(request) /\ Call \in Kinds
    BY <1>a, <2>0, <2>1, CurrentLine
  <2>3. answers[n] = {} /\ ~Out(n) /\ ~InThread(n)
    BY <1>a, <2>0, <2>1 DEF Unanswered, OnePlace
  <2>4. Call # "reply" /\ (main.pc = "local" => Call = "scope")
    BY <1>a, <2>1 DEF OnPath, PathOf
  <2>5. t \in Allowed(Call)
    <3>1. CASE main.pc = "local"
      BY <2>0, <2>4, <3>1 DEF Allowed, DeviceTools
    <3>2. CASE main.pc # "local"
      BY <2>0, <2>2, <2>4, <3>2, RefusalAllowed
    <3>3. QED
      BY <3>1, <3>2
  <2>6. CASE request[n].id = NoId
    BY <2>1, <2>6 DEF Emit
  <2>7. CASE request[n].id # NoId
    <3>1. answers' = [answers EXCEPT ![n] = {t}]
      BY <1>c, <2>1, <2>2, <2>3, <2>7 DEF Emit
    <3>2. ~Out(n)' /\ ~InThread(n)'
      BY <2>1, <2>3 DEF Out, InPipe, InThread
    <3>3. Expected(request[n])
      BY <2>0, <2>4, <2>7 DEF Expected, Call
    <3>4. t = "refused" => main.pc = "reject"
      BY <2>0, <2>1
    <3>5. Answers(n, t)
      BY <2>0, <2>1, <2>2, <2>3, <2>5, <3>1, <3>2, <3>3, <3>4 DEF Answers, Call
    <3>6. QED
      BY <3>5
  <2>8. QED
    BY <2>6, <2>7
<1>3. CASE Deliver
  <2>1. CASE thread.line.kind # "answer"
    BY <1>3, <2>1 DEF Deliver
  <2>2. CASE thread.line.kind = "answer"
    <3>0. PICK n, t : n = thread.line.n /\ t = Treatment
      OBVIOUS
    <3>1. InThread(n) /\ ~Out(n) /\ Sent(n, thread.line.id)
      BY <1>a, <2>2, <3>0 DEF InThread, OnePlace, OutIsSent
    <3>2. n \in 1..Len(request) /\ n \in Serials /\ Expected(request[n])
      <4>1. Len(request) \in Nat /\ Len(request) <= MaxRequests
        BY <1>a DEF TypeOK
      <4>2. QED
        BY <3>1, <4>1, ProxyAssumption DEF Sent, Serials
    <3>3. answers[n] = {}
      BY <1>a, <3>1, <3>2 DEF Unanswered
    <3>4. t \in Allowed(request[n].call) \ {"refused"}
      BY <2>2, <3>0, TreatmentAllowed DEF AnswerInv, EntryInv, ThreadEntered, EntryOf
    <3>5. answers' = [answers EXCEPT ![n] = {t}]
      BY <1>3, <1>c, <2>2, <3>0, <3>2, <3>3 DEF Deliver
    <3>6. UNCHANGED <<request, main, atServer, toProxy>> /\ thread'.line.kind # "answer"
      BY <1>3 DEF Deliver, pipeVars, NoThread, NoLine
    <3>7. ~Out(n)' /\ ~InThread(n)'
      BY <3>1, <3>6 DEF Out, InPipe, InThread
    <3>8. main'.pc # "idle" => n # Current'
      BY <1>a, <3>1, <3>6 DEF OnePlace, Current, Out, InThread
    <3>9. Answers(n, t)
      BY <3>2, <3>3, <3>4, <3>5, <3>6, <3>7, <3>8 DEF Answers
    <3>10. QED
      BY <3>9
  <2>3. QED
    BY <2>1, <2>2
<1>4. QED
  BY <1>1, <1>2, <1>3 DEF Next, vars, ClientStep, MainStep, Receive,
     Register, BuildStatus, ReadVault, ReadPolicy, Authorize, Fail, ConsumeRate,
     RecordSecrets, Write, ClearPending, TakeLine, ServerAnswer, ServerSpeaks,
     EditVault, EditPolicy

\* A line stays without an answer until it gets the one it keeps.
LEMMA UnansweredStep ==
  ASSUME AnswerInv, EntryInv', [Next]_vars
  PROVE  AnswerInv'
<1>a. PlaceInv /\ PipeInv /\ TypeOK /\ OnePlace /\ OutIsSent /\ Unanswered
      /\ AnswersMatchRequests
  BY DEF AnswerInv, EntryInv, HoldInv, PlaceInv, PipeInv
<1>b. PlaceInv' /\ PipeInv' /\ TypeOK' /\ OnePlace'
  BY DEF EntryInv, HoldInv, PlaceInv, PipeInv
<1>c. answers \in [Serials -> SUBSET Treatments] /\ Len(request) \in Nat /\ Len(request') \in Nat
  BY <1>a, <1>b DEF TypeOK
<1>d. /\ \A k \in 1..Len(request) : k \in 1..Len(request') /\ request'[k] = request[k]
      /\ Len(request) <= Len(request')
  <2>1. \A k \in 1..Len(request) : k \in 1..Len(request') /\ request'[k] = request[k]
    BY <1>a, CallKeeps
  <2>2. Len(request) = 0 \/ Len(request) \in 1..Len(request)
    BY <1>c
  <2>3. QED
    BY <1>c, <2>1, <2>2
\* What is without an answer after the step was without one before it.
<1>1. ASSUME NEW n \in Serials, n > Len(request') \/ Out(n)' \/ InThread(n)'
      PROVE  answers[n] = {}
  <2>1. CASE n > Len(request')
    <3>1. n > Len(request)
      BY <1>c, <1>d, <2>1 DEF Serials
    <3>2. QED
      BY <1>a, <3>1 DEF Unanswered
  <2>2. CASE Out(n)'
    <3>1. Out(n) \/ (main.pc = "write" /\ n = Current)
      BY <1>a, <2>2, OutStep DEF Write
    <3>2. QED
      BY <1>a, <3>1 DEF Unanswered
  <2>3. CASE InThread(n)'
    <3>1. InThread(n) \/ (TakeLine /\ Head(toProxy).kind = "answer" /\ Head(toProxy).n = n)
      BY <2>3, InThreadStep
    <3>2. InThread(n) \/ Out(n)
      BY <1>a, <3>1, TakeGone
    <3>3. QED
      BY <1>a, <3>2 DEF Unanswered
  <2>4. QED
    BY <1>1, <2>1, <2>2, <2>3
<1>2. ASSUME main'.pc \notin {"idle", "clear"}
      PROVE  Current' \in Serials /\ answers[Current'] = {}
  <2>1. Current' \in 1..MaxRequests
    BY <1>b, <1>2 DEF PipeInv, OutIsSent
  <2> SUFFICES answers[Current'] = {}
    BY <2>1 DEF Serials
  <2>2. ASSUME NEW r \in ClientLines, ReceiveDuplicate(r) \/ Receive(r)
        PROVE  answers[Current'] = {}
    <3>1. Current' > Len(request)
      BY <1>a, <2>2, ClientLineType, ReadKeeps DEF ReceiveDuplicate, Receive, Current
    <3>2. QED
      BY <1>a, <2>1, <3>1 DEF Unanswered, Serials
  <2>3. CASE UNCHANGED <<request, main>>
    BY <1>a, <1>2, <2>3 DEF Unanswered, Current
  <2>4. CASE MainStep
    <3>1. Current' = Current /\ main.pc # "idle"
      BY <2>4, SameLine
    <3>2. main.pc # "clear"
      <4>1. main.pc = "clear" => ClearPending
        BY <2>4 DEF MainStep, Register, BuildStatus, ReadVault, ReadPolicy, Authorize,
           Fail, ConsumeRate, RecordSecrets, Write, AnswerLocally, Reject
      <4>2. QED
        BY <1>2, <4>1, BackToIdle
    <3>3. QED
      BY <1>a, <3>1, <3>2 DEF Unanswered
  <2>5. QED
    BY <2>1, <2>2, <2>3, <2>4 DEF Next, vars, ClientStep, TakeLine, Deliver, ServerAnswer,
       ServerSpeaks, EditVault, EditPolicy, Serials
<1>3. CASE answers' = answers
  <2>1. Unanswered'
    BY <1>1, <1>2, <1>3 DEF Unanswered
  <2>2. AnswersMatchRequests'
    <3> SUFFICES ASSUME NEW n \in Serials
                 PROVE  /\ \A t, u \in answers[n] : t = u
                        /\ answers[n] # {} =>
                             /\ n <= Len(request') /\ Expected(request'[n])
                             /\ answers[n] \subseteq Allowed(request'[n].call)
      BY <1>3 DEF AnswersMatchRequests, Expected
    <3>1. /\ \A t, u \in answers[n] : t = u
          /\ answers[n] # {} =>
               /\ n <= Len(request) /\ Expected(request[n])
               /\ answers[n] \subseteq Allowed(request[n].call)
      BY <1>a DEF AnswersMatchRequests
    <3>2. n <= Len(request) => n \in 1..Len(request)
      BY <1>c DEF Serials
    <3>3. QED
      BY <1>c, <1>d, <3>1, <3>2 DEF Serials
  <2>3. QED
    BY <2>1, <2>2 DEF AnswerInv
<1>4. ASSUME NEW m, NEW t, Answers(m, t) PROVE AnswerInv'
  <2>1. /\ m \in Serials /\ answers' = [answers EXCEPT ![m] = {t}]
        /\ m \in 1..Len(request') /\ Expected(request'[m]) /\ t \in Allowed(request'[m].call)
        /\ ~Out(m)' /\ ~InThread(m)' /\ (main'.pc \notin {"idle", "clear"} => m # Current')
    BY <1>4 DEF Answers
  <2>2. \A n \in Serials : n # m => answers'[n] = answers[n]
    BY <1>c, <2>1
  <2>3. answers'[m] = {t}
    BY <1>c, <2>1
  <2>4. Unanswered'
    <3>1. ~(m > Len(request'))
      BY <1>c, <2>1
    <3>2. QED
      BY <1>1, <1>2, <2>1, <2>2, <3>1 DEF Unanswered
  <2>5. AnswersMatchRequests'
    <3> SUFFICES ASSUME NEW n \in Serials
                 PROVE  /\ \A x, y \in answers'[n] : x = y
                        /\ answers'[n] # {} =>
                             /\ n <= Len(request') /\ Expected(request'[n])
                             /\ answers'[n] \subseteq Allowed(request'[n].call)
      BY DEF AnswersMatchRequests, Expected
    <3>1. CASE n = m
      BY <1>c, <2>1, <2>3, <3>1
    <3>2. CASE n # m
      <4>1. /\ \A x, y \in answers[n] : x = y
            /\ answers[n] # {} =>
                 /\ n <= Len(request) /\ Expected(request[n])
                 /\ answers[n] \subseteq Allowed(request[n].call)
        BY <1>a DEF AnswersMatchRequests
      <4>2. n <= Len(request) => n \in 1..Len(request)
        BY <1>c DEF Serials
      <4>3. QED
        BY <1>c, <1>d, <2>2, <3>2, <4>1, <4>2 DEF Serials
    <3>3. QED
      BY <3>1, <3>2
  <2>6. QED
    BY <2>4, <2>5 DEF AnswerInv
<1>5. QED
  BY <1>3, <1>4, AnswerStep, <1>b

\* The invariant that the theorems on the maps, the answers and the promise share
\* holds in every behaviour.
THEOREM AnswerInvariant == Spec => []AnswerInv
<1>1. Init /\ PipeInv => AnswerInv
  <2> SUFFICES ASSUME Init, PipeInv PROVE AnswerInv
    OBVIOUS
  <2>1. request = <<>> /\ toProxy = <<>> /\ atServer = {} /\ main.pc = "idle"
        /\ thread.line.kind = "none" /\ Len(request) = 0 /\ Len(toProxy) = 0
    BY DEF Init, Idle, NoThread, NoLine
  <2>2. \A n : ~InPipe(n) /\ ~Out(n) /\ ~InThread(n)
    BY <2>1 DEF InPipe, Out, InThread
  <2>3. OnePlace
    BY <2>1, <2>2 DEF OnePlace
  <2>4. \A i : Holders(i) = {}
    BY <2>1 DEF Holders
  <2>5. PendingExact
    BY <2>4 DEF PendingExact, Init
  <2>6. OutEntered /\ ThreadEntered /\ MainEntered
    BY <2>1 DEF OutEntered, ThreadEntered, MainEntered
  <2>7. Unanswered /\ AnswersMatchRequests
    BY <2>1 DEF Unanswered, AnswersMatchRequests, Init
  <2>8. QED
    BY <2>3, <2>5, <2>6, <2>7 DEF AnswerInv, EntryInv, HoldInv, PlaceInv
<1>2. AnswerInv /\ PipeInv' /\ [Next]_vars => AnswerInv'
  <2> SUFFICES ASSUME AnswerInv, PipeInv', [Next]_vars PROVE AnswerInv'
    OBVIOUS
  <2>1. EntryInv /\ HoldInv /\ PlaceInv
    BY DEF AnswerInv, EntryInv, HoldInv
  <2>2. PlaceInv'
    BY <2>1, PlaceStep
  <2>3. HoldInv'
    BY <2>1, <2>2, HoldStep
  <2>4. EntryInv'
    BY <2>1, <2>2, <2>3, OutEnteredStep, ThreadEnteredStep, MainEnteredStep DEF EntryInv
  <2>5. QED
    BY <2>4, UnansweredStep
<1>3. QED
  BY <1>1, <1>2, PipeInvariant, PTL DEF Spec

\* An id is pending exactly while one line holds it - at main, at the server or on
\* the way back - and leaves nothing in the other maps: no id stays blocked, and no
\* two lines share one, for any number of ids and lines.  (pending_lock sections)
THEOREM IdsAreHeldOnce == Spec => []PendingExact
<1>1. AnswerInv => PendingExact
  BY DEF AnswerInv, EntryInv, HoldInv
<1>2. QED
  BY <1>1, AnswerInvariant, PTL

\* Every line gets at most one answer, notifications none, and each answer of the
\* server is treated as the call it answers, whichever thread runs first.
\* (request, response, the maps under pending_lock)
THEOREM AnswersMatch == Spec => []AnswersMatchRequests
<1>1. AnswerInv => AnswersMatchRequests
  BY DEF AnswerInv
<1>2. QED
  BY <1>1, AnswerInvariant, PTL

-----------------------------------------------------------------------------
(* The promise.                                                            *)

\* Spelled out, what the ledger sees of a state.
KindOf == [n \in Serials |->
             IF n <= Len(request) /\ Expected(request[n]) THEN request[n].call ELSE "none"]

\* Reading a line enters its kind, if it expects an answer, and no other's.
LEMMA ReadEnters ==
  ASSUME PipeInv, NEW r \in ClientLines, request' = Append(request, r), Current < MaxRequests
  PROVE  /\ Len(request) + 1 \in Serials /\ KindOf[Len(request) + 1] = "none"
         /\ KindOf' = IF Expected(r) THEN [KindOf EXCEPT ![Len(request) + 1] = r.call] ELSE KindOf
<1> DEFINE m == Len(request) + 1
<1>1. r \in Request
  BY ClientLineType
<1>2. /\ Len(request') = m /\ Len(request) \in Nat /\ request'[m] = r
      /\ \A n \in 1..Len(request) : request'[n] = request[n]
  BY <1>1, ReadKeeps
<1>3. m \in Serials /\ ~(m <= Len(request))
  BY <1>2, ProxyAssumption DEF Current, Serials
<1>4. \A n \in Serials : n # m => (n <= Len(request') <=> n <= Len(request))
  BY <1>2 DEF Serials
<1>5. \A n \in Serials : n <= Len(request) => request'[n] = request[n]
  BY <1>2 DEF Serials
<1>6. ASSUME NEW n \in Serials
      PROVE  KindOf'[n] = IF n = m THEN IF Expected(r) THEN r.call ELSE "none" ELSE KindOf[n]
  <2>1. KindOf'[n] = IF n <= Len(request') /\ Expected(request'[n])
                     THEN request'[n].call ELSE "none"
    BY DEF KindOf, Expected
  <2>2. KindOf[n] = IF n <= Len(request) /\ Expected(request[n]) THEN request[n].call ELSE "none"
    BY DEF KindOf
  <2>3. CASE n = m
    BY <1>2, <2>1, <2>3
  <2>4. CASE n # m
    BY <1>4, <1>5, <2>1, <2>2, <2>4
  <2>5. QED
    BY <2>3, <2>4
<1>7. KindOf[m] = "none"
  BY <1>3 DEF KindOf
<1>8. KindOf' = [n \in Serials |-> KindOf'[n]] /\ KindOf = [n \in Serials |-> KindOf[n]]
  BY DEF KindOf
<1>9. QED
  BY <1>3, <1>6, <1>7, <1>8

\* Every step of the two threads is a step of the ledger, or none to it: a line
\* is read and left open or refused, or an open line is given its one answer.
LEMMA PromiseStep ==
  ASSUME AnswerInv, PlaceInv', [Next]_vars
  PROVE  [Promise!Next]_<<KindOf, answers>>
<1>a. PipeInv /\ TypeOK
  BY DEF AnswerInv, EntryInv, HoldInv, PlaceInv, PipeInv
<1>b. answers \in [Serials -> SUBSET Treatments]
  BY <1>a DEF TypeOK
<1>1. CASE request' = request /\ answers' = answers
  BY <1>1 DEF KindOf, Expected
<1>2. ASSUME NEW r \in ClientLines, ReceiveDuplicate(r) \/ Receive(r)
      PROVE  [Promise!Next]_<<KindOf, answers>>
  <2>1. PICK m : m = Len(request) + 1
    OBVIOUS
  <2>2. request' = Append(request, r) /\ Current < MaxRequests
    BY <1>2 DEF ReceiveDuplicate, Receive
  <2>3. /\ m \in Serials /\ KindOf[m] = "none"
        /\ KindOf' = IF Expected(r) THEN [KindOf EXCEPT ![m] = r.call] ELSE KindOf
    BY <1>a, <2>1, <2>2, ReadEnters
  <2>4. CASE Expected(r)
    <3>1. r.call \in Calls \ {"reply"}
      BY <2>4 DEF ClientLines, Expected
    <3>2. answers' \in {answers, [answers EXCEPT ![m] = {"refused"}]}
      <4>1. CASE answers' = answers
        BY <4>1
      <4>2. ASSUME NEW n, NEW t, Answers(n, t) PROVE answers' = [answers EXCEPT ![m] = {"refused"}]
        <5>1. request' # request
          <6>1. Len(request') # Len(request)
            BY <1>a, <2>2, ClientLineType, ReadKeeps
          <6>2. QED
            BY <6>1
        <5>2. QED
          BY <2>1, <4>2, <5>1 DEF Answers
      <4>3. QED
        BY <4>1, <4>2, AnswerStep
    <3>3. Promise!Open(m)
      BY <2>3, <2>4, <3>1, <3>2 DEF Promise!Open, KindOf
    <3>4. QED
      BY <2>3, <3>3 DEF Promise!Next
  <2>5. CASE ~Expected(r)
    <3>1. answers' = answers
      BY <1>2, <2>5 DEF ReceiveDuplicate, Receive
    <3>2. QED
      BY <2>3, <2>5, <3>1
  <2>6. QED
    BY <2>4, <2>5
<1>3. ASSUME NEW n, NEW t, Answers(n, t), request' = request
      PROVE  Promise!Next
  <2>1. /\ n \in Serials /\ answers[n] = {} /\ answers' = [answers EXCEPT ![n] = {t}]
        /\ n \in 1..Len(request) /\ Expected(request[n]) /\ t \in Allowed(request[n].call)
    BY <1>3 DEF Answers
  <2>2. KindOf[n] = request[n].call /\ request[n].call # "none"
    <3>1. request[n] \in Request
      BY <1>a, <2>1 DEF TypeOK
    <3>2. request[n].call # "none"
      BY <3>1 DEF Request, Kinds, Tools
    <3>3. QED
      BY <2>1, <3>2 DEF KindOf
  <2>3. KindOf' = KindOf
    BY <1>3 DEF KindOf, Expected
  <2>4. Promise!Close(n)
    BY <2>1, <2>2, <2>3 DEF Promise!Close, KindOf
  <2>5. QED
    BY <2>1, <2>4 DEF Promise!Next
<1>4. QED
  <2>1. request' = request \/ \E r \in ClientLines : ReceiveDuplicate(r) \/ Receive(r)
    BY SameLine DEF Next, vars, ClientStep, TakeLine, Deliver, ServerAnswer, ServerSpeaks,
       EditVault, EditPolicy
  <2>2. QED
    BY <1>1, <1>2, <1>3, <2>1, AnswerStep

\* The two threads, with the maps and pipes between them, implement the safety part
\* of the promise: the ledger in which a line is read once, and refused or left
\* open, and an open line gets one answer of its own kind.  (request, response)
THEOREM PromiseIsSafe == Spec => Promise!Safe
<1>1. Init => Promise!Init
  <2> SUFFICES ASSUME Init PROVE Promise!Init
    OBVIOUS
  <2>1. \A n \in Serials : ~(n <= Len(request))
    BY DEF Init, Serials
  <2>2. KindOf = [n \in Serials |-> "none"] /\ answers = [n \in Serials |-> {}]
    BY <2>1 DEF KindOf, Init
  <2>3. QED
    BY <2>2 DEF Promise!Init, KindOf
<1>2. AnswerInv /\ PipeInv' /\ AnswerInv' /\ [Next]_vars => [Promise!Next]_<<KindOf, answers>>
  BY PromiseStep DEF AnswerInv, EntryInv, HoldInv
<1>3. QED
  BY <1>1, <1>2, AnswerInvariant, PipeInvariant, PTL DEF Spec, Promise!Safe, KindOf

-----------------------------------------------------------------------------
(* Rate slots.                                                             *)

\* A device call has its slot from ConsumeRate on, and no line has one before.
SlotAtMain ==
  /\ main.pc \in {"record", "write"} /\ Call = "device" => Current \in charged
  /\ main.pc \notin {"idle", "record", "write"} => Current \notin charged

SlotInv == AnswerInv /\ SentAreRead /\ SlotAtMain /\ SlotsAreForForwardedCalls

\* The steps that take a slot or write a line.
LEMMA SlotFrame ==
  ASSUME [Next]_vars
  PROVE  UNCHANGED <<charged, forwarded>> \/ ConsumeRate \/ Write
BY DEF Next, vars, ghosts, ClientStep, MainStep, ReceiveDuplicate, Receive, Register,
   BuildStatus, ReadVault, ReadPolicy, Authorize, Fail, RecordSecrets, AnswerLocally, Reject,
   ClearPending, TakeLine, Deliver, ServerAnswer, ServerSpeaks, EditVault, EditPolicy

\* The slot is taken after every check that can refuse the call.
LEMMA SlotStep ==
  ASSUME SlotInv, AnswerInv', [Next]_vars
  PROVE  SlotInv'
<1>a. /\ AnswerInv /\ PipeInv /\ TypeOK /\ OnPath /\ Unanswered /\ SentAreRead
      /\ SlotAtMain /\ SlotsAreForForwardedCalls /\ PlaceInv'
  BY DEF SlotInv, AnswerInv, EntryInv, HoldInv, PlaceInv, PipeInv
<1>b. answers \in [Serials -> SUBSET Treatments] /\ Len(request) \in Nat
      /\ Len(request) <= MaxRequests
  BY <1>a DEF TypeOK
<1>c. \A n \in 1..Len(request) : n \in 1..Len(request') /\ request'[n] = request[n]
  BY <1>a, CallKeeps
<1>d. ConsumeRate => /\ main.pc = "rate" /\ Call = "device" /\ request' = request
                     /\ answers' = answers /\ forwarded' = forwarded
                     /\ \/ charged' = charged \cup {Current} /\ main'.pc = "record"
                        \/ charged' = charged /\ main'.pc = "reject"
  BY <1>a DEF ConsumeRate, OnPath, PathOf, Goto, TypeOK
<1>1. SentAreRead'
  <2>1. forwarded' \cup charged' \subseteq 1..Len(request)
    <3>1. MainStep => Current \in 1..Len(request)
      BY <1>a, CurrentLine, SameLine
    <3>2. QED
      BY <1>a, <1>d, <3>1, SlotFrame DEF SentAreRead, Write, MainStep
  <2>2. QED
    BY <1>c, <2>1 DEF SentAreRead
<1>2. SlotAtMain'
  <2>1. CASE UNCHANGED <<request, main, charged>>
    BY <1>a, <2>1 DEF SlotAtMain, Call, Current
  <2>2. ASSUME NEW r \in ClientLines, ReceiveDuplicate(r) PROVE SlotAtMain'
    BY <2>2 DEF ReceiveDuplicate, SlotAtMain
  <2>3. ASSUME NEW r \in ClientLines, Receive(r) PROVE SlotAtMain'
    <3>1. r \in Request /\ request' = Append(request, r) /\ Current < MaxRequests
          /\ charged' = charged
      BY <2>3, ClientLineType DEF Receive, ghosts
    <3>2. Call' = r.call /\ Current' \notin 1..Len(request)
      BY <1>a, <3>1, ReadKeeps DEF Call, Current
    <3>3. main'.pc \in {"record", "write"} => r.call # "device"
      BY <1>a, <2>3 DEF Receive, Goto, TypeOK
    <3>4. QED
      BY <1>a, <3>1, <3>2, <3>3 DEF SlotAtMain, SentAreRead
  <2>4. CASE MainStep
    <3>1. Call' = Call /\ Current' = Current /\ main.pc # "idle"
      BY <2>4, SameLine
    <3> USE <1>a, <3>1 DEF SlotAtMain, Goto, TypeOK, OnPath, PathOf, ghosts
    <3>2. Register \/ BuildStatus \/ ReadVault => SlotAtMain'
      BY DEF Register, BuildStatus, ReadVault, Tools
    <3>3. ReadPolicy => SlotAtMain'
      BY DEF ReadPolicy
    <3>4. Authorize \/ Fail => SlotAtMain'
      BY DEF Authorize, CostsSlot, DeviceTools, Fail
    <3>5. ConsumeRate => SlotAtMain'
      BY <1>d
    <3>6. RecordSecrets => SlotAtMain'
      BY DEF RecordSecrets
    <3>7. AnswerLocally \/ Reject => SlotAtMain'
      BY DEF AnswerLocally, Reject
    <3>8. Write \/ ClearPending => SlotAtMain'
      BY BackToIdle
    <3>9. QED
      BY <2>4, <3>2, <3>3, <3>4, <3>5, <3>6, <3>7, <3>8 DEF MainStep
  <2>5. QED
    BY <2>1, <2>2, <2>3, <2>4 DEF Next, vars, ghosts, ClientStep, TakeLine, Deliver,
       ServerAnswer, ServerSpeaks, EditVault, EditPolicy
<1>3. SlotsAreForForwardedCalls'
  <2> SUFFICES ASSUME NEW n \in 1..Len(request')
               PROVE  /\ n \in charged' =>
                           request'[n].call = "device" /\ "refused" \notin answers'[n]
                      /\ n \in forwarded' /\ request'[n].call = "device" => n \in charged'
    BY DEF SlotsAreForForwardedCalls
  <2>1. CASE ConsumeRate
    <3>1. n \in 1..Len(request) /\ n \in Serials
      BY <1>b, <1>d, <2>1, ProxyAssumption DEF Serials
    <3>2. /\ n \in charged => request[n].call = "device" /\ "refused" \notin answers[n]
          /\ n \in forwarded /\ request[n].call = "device" => n \in charged
      BY <1>a, <3>1 DEF SlotsAreForForwardedCalls
    <3>3. n = Current => request[n].call = "device" /\ answers[n] = {}
      BY <1>a, <1>d, <2>1 DEF Unanswered, Call
    <3>4. QED
      BY <1>d, <2>1, <3>2, <3>3
  <2>2. CASE Write
    <3>1. n \in 1..Len(request) /\ request' = request /\ answers' = answers
          /\ charged' = charged /\ forwarded' = forwarded \cup {Current}
      BY <2>2 DEF Write
    <3>2. /\ n \in charged => request[n].call = "device" /\ "refused" \notin answers[n]
          /\ n \in forwarded /\ request[n].call = "device" => n \in charged
      BY <1>a, <3>1 DEF SlotsAreForForwardedCalls
    <3>3. n = Current /\ request[n].call = "device" => n \in charged
      BY <1>a, <2>2 DEF SlotAtMain, Write, Call
    <3>4. QED
      BY <3>1, <3>2, <3>3
  <2>3. CASE UNCHANGED <<charged, forwarded>>
    <3>1. CASE n \notin 1..Len(request)
      BY <1>a, <2>3, <3>1 DEF SentAreRead
    <3>2. CASE n \in 1..Len(request)
      <4>1. /\ request'[n] = request[n]
            /\ n \in charged => request[n].call = "device" /\ "refused" \notin answers[n]
            /\ n \in forwarded /\ request[n].call = "device" => n \in charged
        BY <1>a, <1>c, <3>2 DEF SlotsAreForForwardedCalls
      <4>2. n \in charged => "refused" \notin answers'[n]
        <5>1. CASE answers' = answers
          BY <4>1, <5>1
        <5>2. ASSUME NEW m, NEW t, Answers(m, t), n \in charged PROVE "refused" \notin answers'[n]
          <6>1. answers' = [answers EXCEPT ![m] = {t}] /\ m \in Serials
            BY <5>2 DEF Answers
          <6>2. CASE m # n
            BY <4>1, <5>2, <6>1, <6>2, <1>b
          <6>3. CASE m = n
            <7>1. n # Len(request) + 1
              BY <1>b, <3>2
            <7>2. ~(n = Current /\ main.pc = "reject")
              BY <1>a, <5>2 DEF SlotAtMain
            <7>3. t # "refused"
              BY <5>2, <6>3, <7>1, <7>2 DEF Answers
            <7>4. QED
              BY <1>b, <6>1, <6>3, <7>3
          <6>4. QED
            BY <6>2, <6>3
        <5>3. QED
          BY <1>a, <5>1, <5>2, AnswerStep
      <4>3. QED
        BY <2>3, <4>1, <4>2
    <3>3. QED
      BY <3>1, <3>2
  <2>4. QED
    BY <2>1, <2>2, <2>3, SlotFrame
<1>4. QED
  BY <1>1, <1>2, <1>3 DEF SlotInv

\* A call that any check refuses takes no rate slot, a device call that is written
\* to the child has one.  (_rate_costs_slot, the order of the checks in request)
THEOREM SlotsAreForForwarded == Spec => []SlotsAreForForwardedCalls
<1>1. Init /\ AnswerInv => SlotInv
  BY DEF Init, SlotInv, SentAreRead, SlotAtMain, SlotsAreForForwardedCalls, Idle
<1>2. SlotInv /\ AnswerInv' /\ [Next]_vars => SlotInv'
  BY SlotStep
<1>3. SlotInv => SlotsAreForForwardedCalls
  BY DEF SlotInv
<1>4. QED
  BY <1>1, <1>2, <1>3, AnswerInvariant, PTL DEF Spec

-----------------------------------------------------------------------------
(* Why every line is answered.                                             *)
(*                                                                         *)
(* What Ledger promises beside Safe is that no line is left without an     *)
(* answer.  Here is what that needs of the code, short of the fairness:    *)
(* somebody always has the line, and its way to the answer only shortens.  *)

\* Line n expects an answer and has none yet.
Unsettled(n) == n \in 1..Len(request) /\ Expected(request[n]) /\ answers[n] = {}

\* The main thread is at line n and has not refused or answered it.
AtWork(n) == n = Current /\ main.pc \notin {"idle", "clear"}

\* Every line that waits for its answer is with somebody whose step is open: the
\* main thread, the server, the pipe to the response thread or that thread.
NothingForgotten ==
  \A n \in 1..Len(request) : Unsettled(n) => AtWork(n) \/ Out(n) \/ InThread(n)

\* The steps request() may still take on the line it is at, at most.
StepsLeft ==
  CASE main.pc = "register"                     -> 8
    [] main.pc = "vault"                        -> 7
    [] main.pc = "policy"                       -> 6
    [] main.pc = "authorize"                    -> 5
    [] main.pc \in {"rate", "status"}           -> 4
    [] main.pc = "record"                       -> 3
    [] main.pc \in {"write", "local", "reject"} -> 2
    [] main.pc = "clear"                        -> 1
    [] OTHER                                    -> 0

\* The response thread needs two steps for every line before it in the pipe, and
\* one for the line in hand.
InHand == IF thread = NoThread THEN 0 ELSE 1

\* The way line n has before it: the stage it is in, and the steps within it.
Way(n, d) ==
  \/ AtWork(n) /\ d = <<3, StepsLeft>>
  \/ n \in atServer /\ d = <<2, 0>>
  \/ \E k \in 1..Len(toProxy) :
       toProxy[k].kind = "answer" /\ toProxy[k].n = n /\ d = <<1, 2 * k + InHand>>
  \/ InThread(n) /\ d = <<0, 0>>

Shorter(c, d) == c[1] < d[1] \/ (c[1] = d[1] /\ c[2] < d[2])

\* A step of whoever has line n.
TurnOf(n) ==
  \/ AtWork(n) /\ MainStep
  \/ ServerAnswer(n)
  \/ (InPipe(n) \/ InThread(n)) /\ (TakeLine \/ Deliver)

\* A line that waits is answered in the step, or its way is as long as it was or
\* shorter, and shorter in every step of whoever has it.
WaysOnlyShorten ==
  \A n \in 1..Len(request) : Unsettled(n) =>
    \/ answers'[n] # {}
    \/ \A d : Way(n, d) => \E c : /\ Way(n, c)'
                                  /\ (c = d \/ Shorter(c, d))
                                  /\ TurnOf(n) => Shorter(c, d)

\* A way is a pair of naturals, and cannot get shorter for ever.
LEMMA WayIsFinite ==
  ASSUME TypeOK, NEW n, NEW d, Way(n, d)
  PROVE  d \in Nat \X Nat
<1>1. StepsLeft \in Nat
  BY DEF StepsLeft
<1>2. InHand \in Nat
  BY DEF InHand
<1>3. Len(toProxy) \in Nat
  BY DEF TypeOK
<1>4. QED
  BY <1>1, <1>2, <1>3 DEF Way

LEMMA ShorterIsWellFounded ==
  IsWellFoundedOn({e \in (Nat \X Nat) \X (Nat \X Nat) : Shorter(e[1], e[2])}, Nat \X Nat)
<1>1. PICK less : less = OpToRel(<, Nat)
  OBVIOUS
<1>2. IsWellFoundedOn(less, Nat)
  BY <1>1, NatLessThanWellFounded
<1>3. \A m, n \in Nat : <<m, n>> \in less <=> m < n
  BY <1>1 DEF OpToRel
<1>4. IsWellFoundedOn(LexPairOrdering(less, less, Nat, Nat), Nat \X Nat)
  BY <1>2, WFLexPairOrdering
<1>5. {e \in (Nat \X Nat) \X (Nat \X Nat) : Shorter(e[1], e[2])}
        = LexPairOrdering(less, less, Nat, Nat)
  BY <1>3 DEF LexPairOrdering, Shorter
<1>6. QED
  BY <1>4, <1>5

\* Every step of request() brings it nearer to its end.
LEMMA MainShortens ==
  ASSUME PipeInv, MainStep
  PROVE  /\ StepsLeft' < StepsLeft
         /\ \/ main'.pc \notin {"idle", "clear"}
            \/ Write
            \/ AnswerLocally
            \/ Reject
            \/ main.pc = "clear"
<1> USE DEF StepsLeft, Goto
<1>a. main \in [pc : {"idle", "register", "status", "vault", "policy", "authorize",
                      "rate", "local", "record", "write", "reject", "clear"},
                record : Generations, addresses : SUBSET Generations]
  BY DEF PipeInv, TypeOK
<1>1. CASE Register
  BY <1>1, <1>a DEF Register
<1>2. CASE BuildStatus
  BY <1>2, <1>a DEF BuildStatus
<1>3. CASE ReadVault
  BY <1>3, <1>a DEF ReadVault
<1>4. CASE ReadPolicy
  BY <1>4, <1>a DEF ReadPolicy
<1>5. CASE Authorize
  BY <1>5, <1>a DEF Authorize
<1>6. CASE Fail
  BY <1>6, <1>a DEF Fail
<1>7. CASE ConsumeRate
  BY <1>7, <1>a DEF ConsumeRate
<1>8. CASE RecordSecrets
  BY <1>8, <1>a DEF RecordSecrets
<1>9. CASE Write
  BY <1>9, <1>a DEF Write, Idle
<1>10. CASE AnswerLocally
  <2>1. main.pc = "local" /\ main' = [main EXCEPT !.pc = "clear"]
    BY <1>10 DEF AnswerLocally
  <2>2. QED
    BY <1>10, <1>a, <2>1
<1>11. CASE Reject
  BY <1>11, <1>a DEF Reject
<1>12. CASE ClearPending
  BY <1>12, <1>a DEF ClearPending, Idle
<1>13. QED
  BY <1>1, <1>2, <1>3, <1>4, <1>5, <1>6, <1>7, <1>8, <1>9, <1>10, <1>11, <1>12
     DEF MainStep

\* The steps that give a line that waits its answer.
LEMMA StepsAnswer ==
  ASSUME AnswerInv, NEW n \in 1..Len(request), Unsettled(n),
         \/ AtWork(n) /\ (AnswerLocally \/ Reject)
         \/ InThread(n) /\ Deliver
  PROVE  answers'[n] # {}
<1>a. TypeOK
  BY DEF AnswerInv, EntryInv, HoldInv, PlaceInv, PipeInv
<1>b. answers \in [Serials -> SUBSET Treatments] /\ n \in Serials
  <2>1. Len(request) \in Nat /\ Len(request) <= MaxRequests
    BY <1>a DEF TypeOK
  <2>2. n \in 1..MaxRequests
    BY <2>1, ProxyAssumption
  <2>3. QED
    BY <1>a, <2>2 DEF TypeOK, Serials
<1>c. request[n].id # NoId
  BY DEF Unsettled, Expected
<1>1. CASE AtWork(n) /\ AnswerLocally
  <2>1. answers' = [answers EXCEPT ![n] = @ \cup {"local"}]
    BY <1>1, <1>c DEF AtWork, AnswerLocally, Emit
  <2>2. QED
    BY <1>b, <2>1
<1>2. CASE AtWork(n) /\ Reject
  <2>1. answers' = [answers EXCEPT ![n] = @ \cup {"refused"}]
    BY <1>2, <1>c DEF AtWork, Reject, Emit
  <2>2. QED
    BY <1>b, <2>1
<1>3. CASE InThread(n) /\ Deliver
  <2>1. answers' = [answers EXCEPT ![n] = @ \cup {Treatment}]
    BY <1>3 DEF InThread, Deliver
  <2>2. QED
    BY <1>b, <2>1
<1>4. QED
  BY <1>1, <1>2, <1>3

\* Who takes a turn, for a line in each place.
LEMMA OneTurn ==
  ASSUME OnePlace, NEW n, TurnOf(n)
  PROVE  /\ AtWork(n) => MainStep
         /\ n \in atServer => ServerAnswer(n)
         /\ InPipe(n) \/ InThread(n) => TakeLine \/ Deliver
BY DEF OnePlace, TurnOf, AtWork, Out, ServerAnswer

\* One step on a line that waits, from wherever it is.
LEMMA WayStep ==
  ASSUME AnswerInv, AnswerInv', [Next]_vars,
         NEW n \in 1..Len(request), Unsettled(n), NEW d, Way(n, d), answers'[n] = {}
  PROVE  \E c : Way(n, c)' /\ (c = d \/ Shorter(c, d)) /\ (TurnOf(n) => Shorter(c, d))
<1>a. PipeInv /\ TypeOK /\ OnePlace
  BY DEF AnswerInv, EntryInv, HoldInv, PlaceInv, PipeInv
<1>b. PipeInv' /\ TypeOK'
  BY DEF AnswerInv, EntryInv, HoldInv, PlaceInv, PipeInv
<1>c. Len(request) \in Nat /\ Len(toProxy) \in Nat /\ toProxy \in Seq(Line)
  BY <1>a DEF TypeOK
<1>1. CASE AtWork(n) /\ d = <<3, StepsLeft>>
  <2>1. CASE MainStep
    <3>1. PICK c : c = <<3, StepsLeft'>>
      OBVIOUS
    <3>2. Shorter(c, d) /\ (main'.pc \notin {"idle", "clear"} \/ Write)
      BY <1>1, <1>a, <2>1, <3>1, MainShortens, StepsAnswer DEF Shorter, AtWork
    <3>3. CASE Write
      <4>1. n \in atServer'
        BY <1>1, <3>3 DEF Write, AtWork, Unsettled
      <4>2. PICK b : b = <<2, 0>>
        OBVIOUS
      <4>3. Way(n, b)' /\ Shorter(b, d)
        BY <1>1, <4>1, <4>2 DEF Way, Shorter
      <4>4. QED
        BY <4>3
    <3>4. CASE main'.pc \notin {"idle", "clear"}
      <4>1. AtWork(n)'
        BY <1>1, <2>1, <3>4, SameLine DEF AtWork
      <4>2. Way(n, c)'
        BY <3>1, <4>1 DEF Way
      <4>3. QED
        BY <3>2, <4>2
    <3>5. QED
      BY <3>2, <3>3, <3>4
  <2>2. CASE ~MainStep
    <3>1. UNCHANGED <<request, main>>
      BY <1>1, <2>2 DEF Next, vars, AtWork, ClientStep, ReceiveDuplicate, Receive, TakeLine,
         Deliver, ServerAnswer, ServerSpeaks, EditVault, EditPolicy
    <3>2. Way(n, d)'
      BY <1>1, <3>1 DEF Way, AtWork, StepsLeft, Current
    <3>3. QED
      BY <1>1, <1>a, <2>2, <3>2, OneTurn
  <2>3. QED
    BY <2>1, <2>2
<1>2. CASE n \in atServer /\ d = <<2, 0>>
  <2>1. CASE ServerAnswer(n)
    <3>1. PICK l : toProxy' = Append(toProxy, l) /\ l.kind = "answer" /\ l.n = n
      BY <2>1 DEF ServerAnswer
    <3>2. PICK k : k = Len(toProxy) + 1
      OBVIOUS
    <3>3. k \in 1..Len(toProxy') /\ toProxy'[k] = l
      BY <1>c, <3>1, <3>2
    <3>4. PICK c : c = <<1, 2 * k + InHand'>>
      OBVIOUS
    <3>5. Way(n, c)'
      BY <3>1, <3>3, <3>4 DEF Way
    <3>6. Shorter(c, d)
      BY <1>2, <3>4 DEF Shorter
    <3>7. QED
      BY <3>5, <3>6
  <2>2. CASE ~ServerAnswer(n)
    <3>1. n \in atServer'
      BY <1>2, <2>2, PipeFrame DEF Write, TakeLine, Deliver, ServerSpeaks, ServerAnswer, pipeVars
    <3>2. Way(n, d)'
      BY <1>2, <3>1 DEF Way
    <3>3. QED
      BY <1>2, <1>a, <2>2, <3>2, OneTurn
  <2>3. QED
    BY <2>1, <2>2
<1>3. ASSUME NEW k \in 1..Len(toProxy), toProxy[k].kind = "answer", toProxy[k].n = n,
             d = <<1, 2 * k + InHand>>
      PROVE  \E c : Way(n, c)' /\ (c = d \/ Shorter(c, d)) /\ (TurnOf(n) => Shorter(c, d))
  <2>1. CASE TakeLine
    <3>1. toProxy' = Tail(toProxy) /\ toProxy # <<>> /\ InHand = 0 /\ InHand' \in {0, 1}
      BY <2>1 DEF TakeLine, InHand
    <3>2. /\ Head(toProxy) = toProxy[1] /\ Len(toProxy') = Len(toProxy) - 1
          /\ \A j \in 1..Len(toProxy') : toProxy'[j] = toProxy[j + 1]
      BY <1>a, <3>1, PipeTail
    <3>3. CASE k = 1
      <4>1. InThread(n)'
        BY <1>3, <2>1, <3>2, <3>3 DEF TakeLine, InThread, NoThread
      <4>2. PICK c : c = <<0, 0>>
        OBVIOUS
      <4>3. Way(n, c)' /\ Shorter(c, d)
        BY <1>3, <4>1, <4>2 DEF Way, Shorter
      <4>4. QED
        BY <4>3
    <3>4. CASE k # 1
      <4>1. PICK j : j = k - 1
        OBVIOUS
      <4>2. j \in 1..Len(toProxy') /\ toProxy'[j] = toProxy[k]
        <5>1. j \in 1..Len(toProxy') /\ j + 1 = k
          BY <1>c, <3>2, <3>4, <4>1
        <5>2. QED
          BY <3>2, <5>1
      <4>3. PICK c : c = <<1, 2 * j + InHand'>>
        OBVIOUS
      <4>4. Way(n, c)'
        BY <1>3, <4>2, <4>3 DEF Way
      <4>5. 2 * j + InHand' < 2 * k + InHand
        <5>1. k \in Nat /\ InHand = 0 /\ InHand' \in {0, 1}
          BY <1>c, <3>1
        <5>2. \A b \in {0, 1} : 2 * j + b < 2 * k + 0
          BY <4>1, <5>1
        <5>3. QED
          BY <5>1, <5>2
      <4>6. Shorter(c, d)
        BY <1>3, <4>3, <4>5 DEF Shorter
      <4>7. QED
        BY <4>4, <4>6
    <3>5. QED
      BY <3>3, <3>4
  <2>2. CASE Deliver
    <3>1. toProxy' = toProxy /\ InHand = 1 /\ InHand' = 0
      BY <2>2 DEF Deliver, InHand, pipeVars
    <3>2. PICK c : c = <<1, 2 * k + InHand'>>
      OBVIOUS
    <3>3. Way(n, c)' /\ Shorter(c, d)
      BY <1>3, <1>c, <3>1, <3>2 DEF Way, Shorter
    <3>4. QED
      BY <3>3
  <2>3. CASE ~TakeLine /\ ~Deliver
    <3>1. thread' = thread /\ (toProxy' = toProxy \/ \E l : toProxy' = Append(toProxy, l))
      BY <2>3, PipeFrame DEF Write, ServerSpeaks, ServerAnswer
    <3>2. InHand' = InHand
      BY <3>1 DEF InHand
    <3>3. k \in 1..Len(toProxy') /\ toProxy'[k] = toProxy[k]
      BY <1>c, <3>1
    <3>4. Way(n, d)'
      BY <1>3, <3>2, <3>3 DEF Way
    <3>5. ~TurnOf(n)
      BY <1>3, <1>a, <2>3, OneTurn DEF InPipe
    <3>6. QED
      BY <3>4, <3>5
  <2>4. QED
    BY <2>1, <2>2, <2>3
<1>4. CASE InThread(n) /\ d = <<0, 0>>
  <2>1. ~Deliver
    BY <1>4, StepsAnswer
  <2>2. ~TakeLine
    BY <1>4 DEF TakeLine, InThread, NoThread, NoLine
  <2>3. InThread(n)'
    BY <1>4, <2>1, <2>2, InThreadStep
  <2>4. Way(n, d)'
    BY <1>4, <2>3 DEF Way
  <2>5. QED
    BY <1>4, <1>a, <2>1, <2>2, <2>4, OneTurn
<1>5. QED
  BY <1>1, <1>2, <1>3, <1>4 DEF Way

\* A line that waits is in one of the places, and has a way.
LEMMA PlaceIsWay ==
  ASSUME NEW n
  PROVE  (\E d : Way(n, d)) <=> AtWork(n) \/ Out(n) \/ InThread(n)
BY DEF Way, Out, InPipe

\* Nothing is forgotten by any step.
LEMMA ForgottenStep ==
  ASSUME AnswerInv, AnswerInv', NothingForgotten, [Next]_vars
  PROVE  NothingForgotten'
<1>a. PlaceInv /\ PipeInv /\ PlaceInv' /\ TypeOK' /\ TypeOK
  BY DEF AnswerInv, EntryInv, HoldInv, PlaceInv, PipeInv
<1>1. SUFFICES ASSUME NEW n \in 1..Len(request'), Unsettled(n)'
               PROVE  AtWork(n)' \/ Out(n)' \/ InThread(n)'
  BY DEF NothingForgotten
<1>2. CASE n \in 1..Len(request)
  <2>1. request'[n] = request[n]
    BY <1>2, <1>a, CallKeeps
  <2>2. answers'[n] = {} /\ Expected(request[n])
    BY <1>1, <2>1 DEF Unsettled, Expected
  <2>3. answers[n] = {}
    <3>1. answers \in [Serials -> SUBSET Treatments]
      BY <1>a DEF TypeOK
    <3>2. CASE answers' = answers
      BY <2>2, <3>2
    <3>3. ASSUME NEW m, NEW t, Answers(m, t) PROVE answers[n] = {}
      BY <2>2, <3>1, <3>3 DEF Answers
    <3>4. QED
      BY <1>a, <3>2, <3>3, AnswerStep
  <2>4. Unsettled(n)
    BY <1>2, <2>2, <2>3 DEF Unsettled
  <2>5. PICK d : Way(n, d)
    BY <1>2, <2>4, PlaceIsWay DEF NothingForgotten
  <2>6. PICK c : Way(n, c)'
    BY <1>2, <2>2, <2>4, <2>5, WayStep
  <2>7. QED
    BY <2>6 DEF Way, Out, InPipe
<1>3. CASE n \notin 1..Len(request)
  <2>1. PICK r \in ClientLines : ReceiveDuplicate(r) \/ Receive(r)
    BY <1>1, <1>3, SameLine DEF Next, vars, ClientStep, TakeLine, Deliver, ServerAnswer,
       ServerSpeaks, EditVault, EditPolicy
  <2>2. r \in Request /\ request' = Append(request, r) /\ Current < MaxRequests
    BY <2>1, ClientLineType DEF ReceiveDuplicate, Receive
  <2>3. n = Len(request) + 1 /\ request'[n] = r /\ Current' = n
    BY <1>1, <1>3, <1>a, <2>2, ReadKeeps DEF Current
  <2>4. Expected(r) /\ answers'[n] = {}
    BY <1>1, <2>3 DEF Unsettled, Expected
  <2>5. Receive(r)
    <3>1. SUFFICES ASSUME ReceiveDuplicate(r) PROVE FALSE
      BY <2>1
    <3>2. answers' = [answers EXCEPT ![n] = @ \cup {"refused"}]
      BY <2>3, <2>4, <3>1 DEF ReceiveDuplicate, Emit, Expected, Current
    <3>3. answers \in [Serials -> SUBSET Treatments] /\ n \in Serials
      <4>1. Len(request') \in Nat /\ Len(request') <= MaxRequests
        BY <1>a DEF TypeOK
      <4>2. n \in 1..MaxRequests
        BY <1>1, <4>1, ProxyAssumption
      <4>3. QED
        BY <1>a, <4>2 DEF TypeOK, Serials
    <3>4. QED
      BY <2>4, <3>2, <3>3
  <2>6. main'.pc \in {"write", "reject", "register"}
    BY <1>a, <2>5 DEF Receive, Goto, TypeOK
  <2>7. QED
    BY <2>3, <2>6 DEF AtWork
<1>4. QED
  BY <1>2, <1>3

\* A line that expects an answer and has none is always with somebody who can
\* move it: no path through the two threads, their maps and the pipes loses one.
\* (request, response, and the early returns of both)
THEOREM NoLineIsForgotten == Spec => []NothingForgotten
<1>1. Init => NothingForgotten
  <2>1. Init => Len(request) = 0
    BY DEF Init
  <2>2. QED
    BY <2>1 DEF NothingForgotten
<1>2. NothingForgotten /\ AnswerInv /\ AnswerInv' /\ [Next]_vars => NothingForgotten'
  BY ForgottenStep
<1>3. QED
  BY <1>1, <1>2, AnswerInvariant, PTL DEF Spec

\* On its way to its answer no step sends a line back, and every step of whoever
\* has it shortens the way, which is finite (WayIsFinite, ShorterIsWellFounded):
\* calls may overtake each other and the server may write lines of its own, but a
\* thread that goes on gets every line answered.  (request, response, main)
THEOREM EveryLineMovesOn == Spec => [][WaysOnlyShorten]_vars
<1>1. AnswerInv /\ AnswerInv' /\ [Next]_vars => WaysOnlyShorten
  <2>1. SUFFICES ASSUME AnswerInv, AnswerInv', [Next]_vars,
                        NEW n \in 1..Len(request), Unsettled(n), answers'[n] = {},
                        NEW d, Way(n, d)
                 PROVE  \E c : /\ Way(n, c)'
                               /\ (c = d \/ Shorter(c, d))
                               /\ TurnOf(n) => Shorter(c, d)
    BY DEF WaysOnlyShorten
  <2>2. QED
    BY <2>1, WayStep
<1>2. QED
  BY <1>1, AnswerInvariant, PTL DEF Spec

=============================================================================
