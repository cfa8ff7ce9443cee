-------------------------- MODULE TransportProofs --------------------------
(***************************************************************************)
(* The transport for every backlog, pipe size, set of phrases and bound:   *)
(* types, the password that goes once, what the exit status, diagnostics   *)
(* and answers say when main() has returned, and why it returns.           *)
(***************************************************************************)
EXTENDS Transport, SequenceTheorems, TLAPS

\* A line that is held is a line of the child.
LineInHand == responder = "holding" => inHand # NoLine

Types == TypeOK /\ LineInHand

\* Without a child nothing has begun; when main() has returned without one, the
\* setup has failed.
Beginning ==
  /\ main = "setup" => child = "none"
  /\ child = "none" =>
       /\ main \in {"setup", "returned"}
       /\ responder = "none" /\ drain = "none" /\ handoff = "none"
       /\ got = <<>>
       /\ main = "returned" => code = 2 /\ diagnostics # <<>>
       /\ main = "setup" => diagnostics = <<>> /\ hurried = {} /\ ~timedOut
  /\ child # "none" => responder # "none" /\ drain # "none" /\ handoff # "none"

\* Where main() is on its way out, and what it has waited for.
Leaving == {"draining", "reporting", "returned"}
Waiting == {"waiting", "terminated", "killed"}

\* After the waits the status is that of the child or of a kill in vain.
Statuses ==
  /\ main \in {"terminated", "killed"} => timedOut
  /\ child # "none" /\ main \in Leaving =>
       \/ child = "exited" /\ code = childCode
       \/ timedOut /\ code = 1

\* The class of what stderr said is written once, when all of it was read.
Diagnoses ==
  /\ drain = "reported" => captured # <<>>
  /\ emitted <=> drain = "ended" /\ captured # <<>>
  /\ child # "none" /\ main # "returned" =>
       diagnostics = IF drain = "reading" \/ captured = <<>> THEN <<>>
                     ELSE <<Classify(captured)>>
  /\ child # "none" /\ main \in {"reporting", "returned"} /\ "errors" \notin hurried =>
       drain = "ended"
  /\ child # "none" /\ main = "returned" =>
       /\ code # 0 \/ timedOut => diagnostics # <<>>
       /\ ~timedOut /\ "errors" \notin hurried =>
            /\ Len(diagnostics) <= 1
            /\ captured # <<>> => diagnostics = <<Classify(captured)>>

\* The lines of the child are in their order: delivered, in hand, in the pipe.
Held == IF responder = "holding" THEN 1 ELSE 0
InOrder ==
  /\ written = Len(delivered) + Held + Len(fromChild)
  /\ \A i \in 1..Len(delivered) : delivered[i] = i
  /\ responder = "holding" => inHand = Len(delivered) + 1
  /\ \A i \in 1..Len(fromChild) : fromChild[i] = Len(delivered) + Held + i

Replies ==
  /\ responder = "broken" \/ InOrder
  /\ responder = "broken" => stdout = "gone"
  /\ responder = "ended" => fromChild = <<>> /\ child = "exited"
  /\ child = "none" => written = 0
  /\ main \in Waiting \cup Leaving /\ child # "none" /\ "replies" \notin hurried =>
       responder \in {"ended", "broken"}

Inv == Types /\ Beginning /\ SecretGoesOnce /\ Statuses /\ Diagnoses /\ Replies

-----------------------------------------------------------------------------
(* Every step, action by action.                                           *)

\* The class of a text is one of the categories.
LEMMA ClassifyType == ASSUME NEW text PROVE Classify(text) \in Categories
  BY DEF Classify, Categories, ErrorCategories

\* What is left of a pipe fits in it.
LEMMA TailFits ==
  ASSUME NEW S, NEW pipe \in Seq(S), pipe # <<>>, NEW size \in Nat, Len(pipe) <= size
  PROVE  Head(pipe) \in S /\ Tail(pipe) \in Seq(S) /\ Len(Tail(pipe)) <= size
  OBVIOUS

\* Every step keeps the types, and a line that is held is one of the child's.
LEMMA TypesStep ==
  ASSUME Types, [Next]_vars
  PROVE  Types'
<1> USE TransportAssumption
       DEF Types, TypeOK, LineInHand, Codes, NoLine, NoPeer, Peers,
           vars, clientVars, mainVars, childVars, threadVars, drainVars, socketVars
<1>1. CASE ClientSends
  BY <1>1 DEF ClientSends
<1>2. CASE ClientCloses
  BY <1>2 DEF ClientCloses
<1>3. CASE ClientChanges
  <2>1. stdout' \in {"reads", "stalled", "gone"} /\ eof' \in BOOLEAN
    BY <1>3 DEF ClientChanges
  <2>2. QED
    BY <1>3, <2>1 DEF ClientChanges
<1>4. CASE ChildReads
  BY <1>4 DEF ChildReads
<1>5. CASE ChildWrites
  BY <1>5 DEF ChildWrites
<1>6. CASE ChildComplains
  BY <1>6 DEF ChildComplains
<1>7. CASE ChildExits
  <2>1. /\ child' = "exited" /\ childCode' \in Codes
        /\ UNCHANGED <<toChild, childStdin, fromChild, written, stderr, errors>>
    BY <1>7 DEF ChildExits, Exits
  <2>2. QED
    BY <1>7, <2>1 DEF ChildExits
<1>8. ASSUME NEW p \in Peers, PeerCalls(p) PROVE Types'
  BY <1>8 DEF PeerCalls, Alive
<1>9. CASE Accept
  BY <1>9 DEF Accept, Alive
<1>10. CASE StopServing
  BY <1>10 DEF StopServing, Alive
<1>11. CASE HandOver
  <2>1. CASE peer = "user"
    <3>1. Append(got, peer) \in Seq(Peers)
      BY <2>1
    <3>2. got' \in Seq(Peers)
      BY <1>11, <2>1, <3>1 DEF HandOver
    <3>3. QED
      BY <1>11, <2>1, <3>2 DEF HandOver
  <2>2. CASE peer # "user"
    BY <1>11, <2>2 DEF HandOver
  <2>3. QED
    BY <2>1, <2>2
<1>12. CASE CloseListener
  <2>1. calling' \in Seq(Peers) /\ Len(calling') <= Backlog
    BY <1>12 DEF CloseListener
  <2>2. /\ handoff' = "ended" /\ listener' = "closed" /\ secret' \in BOOLEAN
        /\ UNCHANGED <<clientVars, mainVars, childVars, threadVars, drainVars, diagnostics, peer,
                       calls, got>>
    BY <1>12 DEF CloseListener
  <2>3. QED
    BY <2>1, <2>2
<1>13. CASE ReadReply
  <2>1. /\ fromChild # <<>> /\ responder' = "holding"
        /\ inHand' = Head(fromChild) /\ fromChild' = Tail(fromChild)
    BY <1>13 DEF ReadReply
  <2>2. inHand' \in 1..MaxReplies /\ fromChild' \in Seq(1..MaxReplies)
        /\ Len(fromChild') <= PipeSize
    BY <2>1, TailFits
  <2>3. inHand' \in 0..MaxReplies /\ inHand' # 0
    BY <2>2
  <2>4. UNCHANGED <<clientVars, mainVars, child, childCode, toChild, childStdin, written, stderr,
                    errors, delivered, drainVars, diagnostics, socketVars>>
    BY <1>13 DEF ReadReply
  <2>5. QED
    BY <2>1, <2>2, <2>3, <2>4
<1>14. CASE DeliverReply
  <2>1. Append(delivered, inHand) \in Seq(1..MaxReplies)
    BY <1>14 DEF DeliverReply
  <2>2. delivered' \in Seq(1..MaxReplies)
    BY <1>14, <2>1 DEF DeliverReply
  <2>3. responder' \in {"reading", "broken"} /\ inHand' = NoLine
    BY <1>14 DEF DeliverReply
  <2>4. UNCHANGED <<clientVars, mainVars, childVars, drainVars, diagnostics, socketVars>>
    BY <1>14 DEF DeliverReply
  <2>5. QED
    BY <2>2, <2>3, <2>4
<1>15. CASE EndOfReplies
  BY <1>15 DEF EndOfReplies, Alive
<1>16. CASE ReadError
  <2>1. /\ UNCHANGED <<clientVars, mainVars, child, childCode, toChild, childStdin, fromChild,
                       written, errors, threadVars, drain, emitted, diagnostics, socketVars>>
        /\ stderr # <<>> /\ stderr' = Tail(stderr)
    BY <1>16 DEF ReadError
  <2>2. stderr' \in Seq(Phrases) /\ Head(stderr) \in Phrases
    BY <2>1, HeadTailProperties
  <2>3. captured' \in Seq(Phrases) /\ Len(captured') <= CapturedLines
    <3>1. CASE Len(captured) < CapturedLines
      <4>1. captured' = Append(captured, Head(stderr))
        BY <1>16, <3>1 DEF ReadError
      <4>2. captured' \in Seq(Phrases) /\ Len(captured') = Len(captured) + 1
        BY <2>2, <4>1, AppendProperties
      <4>3. Len(captured) \in Nat /\ CapturedLines \in Nat
        OBVIOUS
      <4>4. QED
        BY <3>1, <4>2, <4>3
    <3>2. CASE ~(Len(captured) < CapturedLines)
      BY <1>16, <3>2 DEF ReadError
    <3>3. QED
      BY <3>1, <3>2
  <2>4. QED
    BY <2>1, <2>2, <2>3
<1>17. CASE ReportErrors
  <2>1. CASE captured = <<>>
    BY <1>17, <2>1 DEF ReportErrors
  <2>2. CASE captured # <<>>
    <3>1. Append(diagnostics, Classify(captured)) \in Seq(Categories)
      BY ClassifyType
    <3>2. diagnostics' \in Seq(Categories) /\ drain' = "reported"
      BY <1>17, <2>2, <3>1 DEF ReportErrors, Report
    <3>3. UNCHANGED <<clientVars, mainVars, childVars, threadVars, captured, emitted, socketVars>>
      BY <1>17 DEF ReportErrors
    <3>4. QED
      BY <3>2, <3>3
  <2>3. QED
    BY <2>1, <2>2
<1>18. CASE NoteEmitted
  BY <1>18 DEF NoteEmitted, Alive
<1>19. CASE SetupFails
  BY <1>19 DEF SetupFails, Report, Goto, SetupCategories, Categories
<1>20. CASE StartChild
  BY <1>20 DEF StartChild, Goto
<1>21. CASE ReadLine
  BY <1>21 DEF ReadLine, Goto
<1>22. CASE EndOfStdin
  BY <1>22 DEF EndOfStdin, Goto
<1>23. CASE AnswerLocally
  BY <1>23 DEF AnswerLocally, Goto
<1>24. CASE ForwardLine
  <2>1. CASE child = "running" /\ Len(toChild) < PipeSize /\ toChild' = Append(toChild, "line")
    BY <1>24, <2>1 DEF ForwardLine, Goto
  <2>2. CASE UNCHANGED toChild
    BY <1>24, <2>2 DEF ForwardLine, Goto
  <2>3. QED
    BY <1>24, <2>1, <2>2 DEF ForwardLine
<1>25. CASE CloseChildStdin
  BY <1>25 DEF CloseChildStdin, Goto
<1>26. CASE JoinResponder
  BY <1>26 DEF JoinResponder, Goto
<1>27. CASE ChildEnded
  BY <1>27 DEF ChildEnded, Goto
<1>28. CASE WaitTimesOut
  <2>1. main' \in {"terminated", "killed"} /\ timedOut' \in BOOLEAN
    BY <1>28 DEF WaitTimesOut, Goto
  <2>2. /\ child' \in {"running", "exited"} /\ childCode' \in Codes
        /\ UNCHANGED <<toChild, childStdin, fromChild, written, stderr, errors>>
    BY <1>28 DEF WaitTimesOut, Exits
  <2>3. QED
    BY <1>28, <2>1, <2>2 DEF WaitTimesOut
<1>29. CASE KillInVain
  BY <1>29 DEF KillInVain, Goto
<1>30. CASE JoinDrain
  BY <1>30 DEF JoinDrain, Goto
<1>31. CASE Return
  <2>1. diagnostics' \in Seq(Categories)
    <3>1. /\ Append(diagnostics, "ssh_timeout") \in Seq(Categories)
          /\ Append(diagnostics, "ssh_transport") \in Seq(Categories)
      BY DEF Categories, ErrorCategories
    <3>2. QED
      BY <1>31, <3>1 DEF Return, Report
  <2>2. QED
    BY <1>31, <2>1 DEF Return, Goto
<1>32. CASE UNCHANGED vars
  BY <1>32 DEF vars
<1>33. QED
  BY <1>1, <1>2, <1>3, <1>4, <1>5, <1>6, <1>7, <1>8, <1>9, <1>10, <1>11, <1>12, <1>13,
     <1>14, <1>15, <1>16, <1>17, <1>18, <1>19, <1>20, <1>21, <1>22, <1>23, <1>24, <1>25,
     <1>26, <1>27, <1>28, <1>29, <1>30, <1>31, <1>32
     DEF Next, HandoffStep, ResponderStep, DrainStep, MainStep

\* Without a child nothing begins.
LEMMA BeginningStep ==
  ASSUME Types, Beginning, [Next]_vars
  PROVE  Beginning'
<1> USE TransportAssumption
       DEF Beginning, SetupCategories,
           vars, clientVars, mainVars, childVars, threadVars, drainVars, socketVars
<1>1. CASE ClientSends
  BY <1>1 DEF ClientSends
<1>2. CASE ClientCloses
  BY <1>2 DEF ClientCloses
<1>3. CASE ClientChanges
  BY <1>3 DEF ClientChanges
<1>4. CASE ChildReads
  BY <1>4 DEF ChildReads
<1>5. CASE ChildWrites
  BY <1>5 DEF ChildWrites
<1>6. CASE ChildComplains
  BY <1>6 DEF ChildComplains
<1>7. CASE ChildExits
  BY <1>7 DEF ChildExits, Exits
<1>8. ASSUME NEW p \in Peers, PeerCalls(p) PROVE Beginning'
  BY <1>8 DEF PeerCalls, Alive
<1>9. CASE Accept
  BY <1>9 DEF Accept, Alive
<1>10. CASE StopServing
  BY <1>10 DEF StopServing, Alive
<1>11. CASE HandOver
  BY <1>11 DEF HandOver, Alive
<1>12. CASE CloseListener
  BY <1>12 DEF CloseListener, Alive
<1>13. CASE ReadReply
  BY <1>13 DEF ReadReply, Alive
<1>14. CASE DeliverReply
  BY <1>14 DEF DeliverReply, Alive
<1>15. CASE EndOfReplies
  BY <1>15 DEF EndOfReplies, Alive
<1>16. CASE ReadError
  BY <1>16 DEF ReadError, Alive
<1>17. CASE ReportErrors
  BY <1>17 DEF ReportErrors, Report, Classify, Alive
<1>18. CASE NoteEmitted
  BY <1>18 DEF NoteEmitted, Alive
<1>19. CASE SetupFails
  BY <1>19 DEF SetupFails, Report, Goto, SetupCategories, Categories
<1>20. CASE StartChild
  BY <1>20 DEF StartChild, Goto
<1>21. CASE ReadLine
  BY <1>21 DEF ReadLine, Goto
<1>22. CASE EndOfStdin
  BY <1>22 DEF EndOfStdin, Goto
<1>23. CASE AnswerLocally
  BY <1>23 DEF AnswerLocally, Goto
<1>24. CASE ForwardLine
  BY <1>24 DEF ForwardLine, Goto
<1>25. CASE CloseChildStdin
  BY <1>25 DEF CloseChildStdin, Goto
<1>26. CASE JoinResponder
  BY <1>26 DEF JoinResponder, Goto
<1>27. CASE ChildEnded
  BY <1>27 DEF ChildEnded, Goto
<1>28. CASE WaitTimesOut
  BY <1>28 DEF WaitTimesOut, Exits, Goto
<1>29. CASE KillInVain
  BY <1>29 DEF KillInVain, Goto
<1>30. CASE JoinDrain
  BY <1>30 DEF JoinDrain, Goto
<1>31. CASE Return
  BY <1>31 DEF Return, Report, Goto
<1>32. CASE UNCHANGED vars
  BY <1>32 DEF vars
<1>33. QED
  BY <1>1, <1>2, <1>3, <1>4, <1>5, <1>6, <1>7, <1>8, <1>9, <1>10, <1>11, <1>12, <1>13,
     <1>14, <1>15, <1>16, <1>17, <1>18, <1>19, <1>20, <1>21, <1>22, <1>23, <1>24, <1>25,
     <1>26, <1>27, <1>28, <1>29, <1>30, <1>31, <1>32
     DEF Next, HandoffStep, ResponderStep, DrainStep, MainStep

\* Every step keeps the password to one process of the user.
LEMMA SecretStep ==
  ASSUME Types, Beginning, SecretGoesOnce, [Next]_vars
  PROVE  SecretGoesOnce'
<1> USE TransportAssumption
       DEF Types, TypeOK, Beginning, SecretGoesOnce, NoPeer, Peers,
           vars, clientVars, mainVars, childVars, threadVars, drainVars, socketVars
<1>1. CASE ClientSends
  BY <1>1 DEF ClientSends
<1>2. CASE ClientCloses
  BY <1>2 DEF ClientCloses
<1>3. CASE ClientChanges
  BY <1>3 DEF ClientChanges
<1>4. CASE ChildReads
  BY <1>4 DEF ChildReads
<1>5. CASE ChildWrites
  BY <1>5 DEF ChildWrites
<1>6. CASE ChildComplains
  BY <1>6 DEF ChildComplains
<1>7. CASE ChildExits
  BY <1>7 DEF ChildExits, Exits
<1>8. ASSUME NEW p \in Peers, PeerCalls(p) PROVE SecretGoesOnce'
  BY <1>8 DEF PeerCalls, Alive
<1>9. CASE Accept
  BY <1>9 DEF Accept, Alive
<1>10. CASE StopServing
  BY <1>10 DEF StopServing, Alive
<1>11. CASE HandOver
  BY <1>11 DEF HandOver, Alive
<1>12. CASE CloseListener
  BY <1>12 DEF CloseListener, Alive
<1>13. CASE ReadReply
  BY <1>13 DEF ReadReply, Alive
<1>14. CASE DeliverReply
  BY <1>14 DEF DeliverReply, Alive
<1>15. CASE EndOfReplies
  BY <1>15 DEF EndOfReplies, Alive
<1>16. CASE ReadError
  BY <1>16 DEF ReadError, Alive
<1>17. CASE ReportErrors
  BY <1>17 DEF ReportErrors, Report, Classify, Alive
<1>18. CASE NoteEmitted
  BY <1>18 DEF NoteEmitted, Alive
<1>19. CASE SetupFails
  BY <1>19 DEF SetupFails, Report, Goto, SetupCategories, Categories
<1>20. CASE StartChild
  BY <1>20 DEF StartChild, Goto
<1>21. CASE ReadLine
  BY <1>21 DEF ReadLine, Goto
<1>22. CASE EndOfStdin
  BY <1>22 DEF EndOfStdin, Goto
<1>23. CASE AnswerLocally
  BY <1>23 DEF AnswerLocally, Goto
<1>24. CASE ForwardLine
  BY <1>24 DEF ForwardLine, Goto
<1>25. CASE CloseChildStdin
  BY <1>25 DEF CloseChildStdin, Goto
<1>26. CASE JoinResponder
  BY <1>26 DEF JoinResponder, Goto
<1>27. CASE ChildEnded
  BY <1>27 DEF ChildEnded, Goto
<1>28. CASE WaitTimesOut
  BY <1>28 DEF WaitTimesOut, Exits, Goto
<1>29. CASE KillInVain
  BY <1>29 DEF KillInVain, Goto
<1>30. CASE JoinDrain
  BY <1>30 DEF JoinDrain, Goto
<1>31. CASE Return
  BY <1>31 DEF Return, Report, Goto
<1>32. CASE UNCHANGED vars
  BY <1>32 DEF vars
<1>33. QED
  BY <1>1, <1>2, <1>3, <1>4, <1>5, <1>6, <1>7, <1>8, <1>9, <1>10, <1>11, <1>12, <1>13,
     <1>14, <1>15, <1>16, <1>17, <1>18, <1>19, <1>20, <1>21, <1>22, <1>23, <1>24, <1>25,
     <1>26, <1>27, <1>28, <1>29, <1>30, <1>31, <1>32
     DEF Next, HandoffStep, ResponderStep, DrainStep, MainStep

\* Every step keeps the status that of the child or of a kill in vain.
LEMMA StatusesStep ==
  ASSUME Types, Beginning, Statuses, [Next]_vars
  PROVE  Statuses'
<1> USE TransportAssumption
       DEF Beginning, Statuses, Leaving,
           vars, clientVars, mainVars, childVars, threadVars, drainVars, socketVars
<1>1. CASE ClientSends
  BY <1>1 DEF ClientSends
<1>2. CASE ClientCloses
  BY <1>2 DEF ClientCloses
<1>3. CASE ClientChanges
  BY <1>3 DEF ClientChanges
<1>4. CASE ChildReads
  BY <1>4 DEF ChildReads
<1>5. CASE ChildWrites
  BY <1>5 DEF ChildWrites
<1>6. CASE ChildComplains
  BY <1>6 DEF ChildComplains
<1>7. CASE ChildExits
  BY <1>7 DEF ChildExits, Exits
<1>8. ASSUME NEW p \in Peers, PeerCalls(p) PROVE Statuses'
  BY <1>8 DEF PeerCalls, Alive
<1>9. CASE Accept
  BY <1>9 DEF Accept, Alive
<1>10. CASE StopServing
  BY <1>10 DEF StopServing, Alive
<1>11. CASE HandOver
  BY <1>11 DEF HandOver, Alive
<1>12. CASE CloseListener
  BY <1>12 DEF CloseListener, Alive
<1>13. CASE ReadReply
  BY <1>13 DEF ReadReply, Alive
<1>14. CASE DeliverReply
  BY <1>14 DEF DeliverReply, Alive
<1>15. CASE EndOfReplies
  BY <1>15 DEF EndOfReplies, Alive
<1>16. CASE ReadError
  BY <1>16 DEF ReadError, Alive
<1>17. CASE ReportErrors
  BY <1>17 DEF ReportErrors, Report, Classify, Alive
<1>18. CASE NoteEmitted
  BY <1>18 DEF NoteEmitted, Alive
<1>19. CASE SetupFails
  BY <1>19 DEF SetupFails, Report, Goto, SetupCategories, Categories
<1>20. CASE StartChild
  BY <1>20 DEF StartChild, Goto
<1>21. CASE ReadLine
  BY <1>21 DEF ReadLine, Goto
<1>22. CASE EndOfStdin
  BY <1>22 DEF EndOfStdin, Goto
<1>23. CASE AnswerLocally
  BY <1>23 DEF AnswerLocally, Goto
<1>24. CASE ForwardLine
  BY <1>24 DEF ForwardLine, Goto
<1>25. CASE CloseChildStdin
  BY <1>25 DEF CloseChildStdin, Goto
<1>26. CASE JoinResponder
  BY <1>26 DEF JoinResponder, Goto
<1>27. CASE ChildEnded
  BY <1>27 DEF ChildEnded, Goto
<1>28. CASE WaitTimesOut
  BY <1>28 DEF WaitTimesOut, Exits, Goto
<1>29. CASE KillInVain
  BY <1>29 DEF KillInVain, Goto
<1>30. CASE JoinDrain
  BY <1>30 DEF JoinDrain, Goto
<1>31. CASE Return
  BY <1>31 DEF Return, Report, Goto
<1>32. CASE UNCHANGED vars
  BY <1>32 DEF vars
<1>33. QED
  BY <1>1, <1>2, <1>3, <1>4, <1>5, <1>6, <1>7, <1>8, <1>9, <1>10, <1>11, <1>12, <1>13,
     <1>14, <1>15, <1>16, <1>17, <1>18, <1>19, <1>20, <1>21, <1>22, <1>23, <1>24, <1>25,
     <1>26, <1>27, <1>28, <1>29, <1>30, <1>31, <1>32
     DEF Next, HandoffStep, ResponderStep, DrainStep, MainStep

\* Every step keeps the diagnostics to what stderr said.
LEMMA DiagnosesStep ==
  ASSUME Types, Beginning, Diagnoses, [Next]_vars
  PROVE  Diagnoses'
<1> USE TransportAssumption
       DEF Types, TypeOK, Beginning, Diagnoses,
           vars, clientVars, mainVars, childVars, threadVars, drainVars, socketVars
<1>1. CASE ClientSends
  BY <1>1 DEF ClientSends
<1>2. CASE ClientCloses
  BY <1>2 DEF ClientCloses
<1>3. CASE ClientChanges
  BY <1>3 DEF ClientChanges
<1>4. CASE ChildReads
  BY <1>4 DEF ChildReads
<1>5. CASE ChildWrites
  BY <1>5 DEF ChildWrites
<1>6. CASE ChildComplains
  BY <1>6 DEF ChildComplains
<1>7. CASE ChildExits
  BY <1>7 DEF ChildExits, Exits
<1>8. ASSUME NEW p \in Peers, PeerCalls(p) PROVE Diagnoses'
  BY <1>8 DEF PeerCalls, Alive
<1>9. CASE Accept
  BY <1>9 DEF Accept, Alive
<1>10. CASE StopServing
  BY <1>10 DEF StopServing, Alive
<1>11. CASE HandOver
  BY <1>11 DEF HandOver, Alive
<1>12. CASE CloseListener
  BY <1>12 DEF CloseListener, Alive
<1>13. CASE ReadReply
  BY <1>13 DEF ReadReply, Alive
<1>14. CASE DeliverReply
  BY <1>14 DEF DeliverReply, Alive
<1>15. CASE EndOfReplies
  BY <1>15 DEF EndOfReplies, Alive
<1>16. CASE ReadError
  BY <1>16 DEF ReadError, Alive
<1>17. CASE ReportErrors
  <2>1. child # "none" /\ main # "returned" /\ diagnostics = <<>> /\ ~emitted
    BY <1>17 DEF ReportErrors, Alive
  <2>2. CASE captured = <<>>
    BY <1>17, <2>1, <2>2 DEF ReportErrors
  <2>3. CASE captured # <<>>
    <3>1. diagnostics' = <<Classify(captured)>> /\ drain' = "reported"
      BY <1>17, <2>1, <2>3 DEF ReportErrors, Report
    <3>2. UNCHANGED <<mainVars, childVars, captured, emitted>>
      BY <1>17 DEF ReportErrors
    <3>3. QED
      BY <2>1, <2>3, <3>1, <3>2
  <2>4. QED
    BY <2>2, <2>3
<1>18. CASE NoteEmitted
  BY <1>18 DEF NoteEmitted, Alive
<1>19. CASE SetupFails
  BY <1>19 DEF SetupFails, Report, Goto, SetupCategories, Categories
<1>20. CASE StartChild
  BY <1>20 DEF StartChild, Goto
<1>21. CASE ReadLine
  BY <1>21 DEF ReadLine, Goto
<1>22. CASE EndOfStdin
  BY <1>22 DEF EndOfStdin, Goto
<1>23. CASE AnswerLocally
  BY <1>23 DEF AnswerLocally, Goto
<1>24. CASE ForwardLine
  BY <1>24 DEF ForwardLine, Goto
<1>25. CASE CloseChildStdin
  BY <1>25 DEF CloseChildStdin, Goto
<1>26. CASE JoinResponder
  BY <1>26 DEF JoinResponder, Goto
<1>27. CASE ChildEnded
  BY <1>27 DEF ChildEnded, Goto
<1>28. CASE WaitTimesOut
  BY <1>28 DEF WaitTimesOut, Exits, Goto
<1>29. CASE KillInVain
  BY <1>29 DEF KillInVain, Goto
<1>30. CASE JoinDrain
  BY <1>30 DEF JoinDrain, Goto
<1>31. CASE Return
  <2>1. child # "none" /\ main = "reporting" /\ main' = "returned"
    BY <1>31 DEF Return, Goto
  <2>2. UNCHANGED <<timedOut, code, hurried, childVars, drainVars>>
    BY <1>31 DEF Return
  <2>3. ASSUME NEW category \in Categories, diagnostics' = Append(diagnostics, category)
        PROVE  diagnostics' # <<>> /\ Len(diagnostics') = Len(diagnostics) + 1
    <3>1. Len(diagnostics') = Len(diagnostics) + 1 /\ Len(diagnostics) \in Nat
      BY <2>3
    <3>2. QED
      BY <3>1
  <2>4. CASE timedOut
    <3>1. diagnostics' # <<>>
      BY <1>31, <2>3, <2>4 DEF Return, Report, Categories
    <3>2. QED
      BY <2>1, <2>2, <2>4, <3>1
  <2>5. CASE ~timedOut /\ code # 0 /\ ~emitted
    <3>1. ~timedOut' /\ ("errors" \notin hurried' => captured' = <<>> /\ diagnostics = <<>>)
      BY <2>1, <2>2, <2>5
    <3>2. diagnostics' # <<>> /\ Len(diagnostics') = Len(diagnostics) + 1
      BY <1>31, <2>3, <2>5 DEF Return, Report, Categories, ErrorCategories
    <3>3. Len(<<>>) = 0
      OBVIOUS
    <3>4. "errors" \notin hurried' => Len(diagnostics') <= 1 /\ captured' = <<>>
      BY <3>1, <3>2, <3>3
    <3>5. QED
      BY <2>1, <2>2, <3>2, <3>4
  <2>6. CASE ~timedOut /\ (code = 0 \/ emitted)
    <3>1. diagnostics' = diagnostics
      BY <1>31, <2>6 DEF Return
    <3>2. Len(<<>>) = 0 /\ Len(<<Classify(captured)>>) = 1 /\ <<Classify(captured)>> # <<>>
      OBVIOUS
    <3>3. diagnostics = IF drain = "reading" \/ captured = <<>> THEN <<>>
                        ELSE <<Classify(captured)>>
      BY <2>1
    <3>4. Len(diagnostics) <= 1 /\ (emitted => diagnostics # <<>>)
      BY <3>2, <3>3
    <3>5. "errors" \notin hurried /\ captured # <<>> => diagnostics = <<Classify(captured)>>
      BY <2>1, <3>3
    <3>6. code # 0 \/ timedOut => diagnostics # <<>>
      BY <2>6, <3>4
    <3>7. QED
      BY <2>1, <2>2, <2>6, <3>1, <3>4, <3>5, <3>6
  <2>7. QED
    BY <2>4, <2>5, <2>6
<1>32. CASE UNCHANGED vars
  BY <1>32 DEF vars
<1>33. QED
  BY <1>1, <1>2, <1>3, <1>4, <1>5, <1>6, <1>7, <1>8, <1>9, <1>10, <1>11, <1>12, <1>13,
     <1>14, <1>15, <1>16, <1>17, <1>18, <1>19, <1>20, <1>21, <1>22, <1>23, <1>24, <1>25,
     <1>26, <1>27, <1>28, <1>29, <1>30, <1>31, <1>32
     DEF Next, HandoffStep, ResponderStep, DrainStep, MainStep

\* Every step keeps the lines of the child in their order.
LEMMA RepliesStep ==
  ASSUME Types, Beginning, Replies, [Next]_vars
  PROVE  Replies'
<1> USE TransportAssumption
       DEF Types, TypeOK, LineInHand, NoLine, Beginning, Replies, InOrder, Held, Waiting, Leaving,
           vars, clientVars, mainVars, childVars, threadVars, drainVars, socketVars
<1>1. CASE ClientSends
  BY <1>1 DEF ClientSends
<1>2. CASE ClientCloses
  BY <1>2 DEF ClientCloses
<1>3. CASE ClientChanges
  BY <1>3 DEF ClientChanges
<1>4. CASE ChildReads
  BY <1>4 DEF ChildReads
<1>5. CASE ChildWrites
  <2>1. /\ child = "running" /\ written' = written + 1
        /\ UNCHANGED <<clientVars, mainVars, child, threadVars>>
    BY <1>5 DEF ChildWrites
  <2>2. /\ Len(fromChild') = Len(fromChild) + 1
        /\ \A i \in 1..Len(fromChild) : fromChild'[i] = fromChild[i]
        /\ fromChild'[Len(fromChild) + 1] = written + 1
    BY <1>5 DEF ChildWrites
  <2>3. /\ Len(fromChild) \in Nat /\ Len(delivered) \in Nat /\ Held \in Nat /\ Held' = Held
        /\ delivered' = delivered
    BY <2>1
  <2>4. ASSUME InOrder PROVE InOrder'
    <3>1. written = Len(delivered) + Held + Len(fromChild)
      BY <2>4
    <3> HIDE DEF Held
    <3>2. written' = Len(delivered') + Held' + Len(fromChild')
      BY <2>1, <2>2, <2>3, <3>1
    <3>3. ASSUME NEW i \in 1..Len(fromChild') PROVE fromChild'[i] = Len(delivered') + Held' + i
      <4>1. CASE i \in 1..Len(fromChild)
        BY <2>2, <2>3, <2>4, <4>1
      <4>2. CASE i = Len(fromChild) + 1
        BY <2>1, <2>2, <2>3, <3>1, <4>2
      <4>3. QED
        BY <2>2, <2>3, <4>1, <4>2
    <3>4. QED
      BY <2>1, <2>4, <3>2, <3>3 DEF Held
  <2>5. QED
    BY <2>1, <2>4
<1>6. CASE ChildComplains
  BY <1>6 DEF ChildComplains
<1>7. CASE ChildExits
  <2>1. /\ child = "running" /\ child' = "exited"
        /\ UNCHANGED <<clientVars, mainVars, fromChild, written, threadVars>>
    BY <1>7 DEF ChildExits, Exits
  <2>2. QED
    BY <2>1
<1>8. ASSUME NEW p \in Peers, PeerCalls(p) PROVE Replies'
  BY <1>8 DEF PeerCalls, Alive
<1>9. CASE Accept
  BY <1>9 DEF Accept, Alive
<1>10. CASE StopServing
  BY <1>10 DEF StopServing, Alive
<1>11. CASE HandOver
  BY <1>11 DEF HandOver, Alive
<1>12. CASE CloseListener
  BY <1>12 DEF CloseListener, Alive
<1>13. CASE ReadReply
  <2>1. /\ responder = "reading" /\ responder' = "holding" /\ main # "returned"
        /\ fromChild # <<>> /\ inHand' = Head(fromChild) /\ fromChild' = Tail(fromChild)
        /\ UNCHANGED <<clientVars, mainVars, child, written, delivered>>
    BY <1>13 DEF ReadReply, Alive
  <2>2. /\ Len(fromChild') = Len(fromChild) - 1 /\ inHand' = fromChild[1] /\ Len(fromChild) >= 1
        /\ \A i \in 1..Len(fromChild') : fromChild'[i] = fromChild[i + 1]
    <3>1. PICK q \in Seq(Int) : q = fromChild
      OBVIOUS
    <3>2. /\ Len(Tail(q)) = Len(q) - 1 /\ Head(q) = q[1] /\ Len(q) >= 1
          /\ \A i \in 1..Len(Tail(q)) : Tail(q)[i] = q[i + 1]
      <4>1. q # <<>>
        BY <2>1, <3>1
      <4>2. Len(q) >= 1 /\ Head(q) = q[1]
        BY <4>1
      <4>3. QED
        BY <4>1, <4>2, HeadTailProperties
    <3>3. QED
      BY <2>1, <3>1, <3>2
  <2>3. InOrder => InOrder'
    BY <2>1, <2>2
  <2>4. QED
    BY <2>1, <2>3
<1>14. CASE DeliverReply
  <2>1. /\ responder = "holding" /\ main # "returned"
        /\ UNCHANGED <<clientVars, mainVars, childVars>>
    BY <1>14 DEF DeliverReply, Alive
  <2>2. CASE stdout = "reads"
    <3>1. responder' = "reading" /\ delivered' = Append(delivered, inHand)
      BY <1>14, <2>2 DEF DeliverReply
    <3>2. /\ Len(delivered') = Len(delivered) + 1 /\ delivered'[Len(delivered) + 1] = inHand
          /\ \A i \in 1..Len(delivered) : delivered'[i] = delivered[i]
      BY <3>1
    <3>3. InOrder => InOrder'
      BY <2>1, <3>1, <3>2
    <3>4. QED
      BY <2>1, <3>1, <3>3
  <2>3. CASE stdout # "reads"
    <3>1. responder' = "broken" /\ stdout = "gone"
      BY <1>14, <2>3 DEF DeliverReply
    <3>2. QED
      BY <2>1, <3>1
  <2>4. QED
    BY <2>2, <2>3
<1>15. CASE EndOfReplies
  BY <1>15 DEF EndOfReplies, Alive
<1>16. CASE ReadError
  BY <1>16 DEF ReadError, Alive
<1>17. CASE ReportErrors
  BY <1>17 DEF ReportErrors, Report, Classify, Alive
<1>18. CASE NoteEmitted
  BY <1>18 DEF NoteEmitted, Alive
<1>19. CASE SetupFails
  BY <1>19 DEF SetupFails, Report, Goto, SetupCategories, Categories
<1>20. CASE StartChild
  BY <1>20 DEF StartChild, Goto
<1>21. CASE ReadLine
  BY <1>21 DEF ReadLine, Goto
<1>22. CASE EndOfStdin
  BY <1>22 DEF EndOfStdin, Goto
<1>23. CASE AnswerLocally
  BY <1>23 DEF AnswerLocally, Goto
<1>24. CASE ForwardLine
  BY <1>24 DEF ForwardLine, Goto
<1>25. CASE CloseChildStdin
  BY <1>25 DEF CloseChildStdin, Goto
<1>26. CASE JoinResponder
  BY <1>26 DEF JoinResponder, Goto
<1>27. CASE ChildEnded
  BY <1>27 DEF ChildEnded, Goto
<1>28. CASE WaitTimesOut
  <2>1. /\ child = "running" /\ child' \in {"running", "exited"}
        /\ main \in Waiting /\ main' \in Waiting
        /\ UNCHANGED <<clientVars, hurried, fromChild, written, threadVars>>
    BY <1>28 DEF WaitTimesOut, Exits, Goto
  <2>2. QED
    BY <2>1
<1>29. CASE KillInVain
  BY <1>29 DEF KillInVain, Goto
<1>30. CASE JoinDrain
  BY <1>30 DEF JoinDrain, Goto
<1>31. CASE Return
  BY <1>31 DEF Return, Report, Goto
<1>32. CASE UNCHANGED vars
  BY <1>32 DEF vars
<1>33. QED
  BY <1>1, <1>2, <1>3, <1>4, <1>5, <1>6, <1>7, <1>8, <1>9, <1>10, <1>11, <1>12, <1>13,
     <1>14, <1>15, <1>16, <1>17, <1>18, <1>19, <1>20, <1>21, <1>22, <1>23, <1>24, <1>25,
     <1>26, <1>27, <1>28, <1>29, <1>30, <1>31, <1>32
     DEF Next, HandoffStep, ResponderStep, DrainStep, MainStep

-----------------------------------------------------------------------------
(* The theorems.                                                           *)

\* The first state has the invariant.
LEMMA InitInv == Init => Inv
<1> SUFFICES ASSUME Init PROVE Inv
  OBVIOUS
<1> USE TransportAssumption DEF Init, NoPeer, NoLine
<1>1. Types
  <2>1. /\ stdin \in Seq({"local", "forward"}) /\ toChild \in Seq({"line"})
        /\ fromChild \in Seq(1..MaxReplies) /\ delivered \in Seq(1..MaxReplies)
        /\ stderr \in Seq(Phrases) /\ captured \in Seq(Phrases)
        /\ diagnostics \in Seq(Categories) /\ calling \in Seq(Peers) /\ got \in Seq(Peers)
    OBVIOUS
  <2>2. /\ Len(stdin) <= PipeSize /\ Len(toChild) <= PipeSize /\ Len(fromChild) <= PipeSize
        /\ Len(captured) <= CapturedLines /\ Len(calling) <= Backlog
    OBVIOUS
  <2>3. hurried \subseteq {"replies", "errors"} /\ code \in Codes /\ childCode \in Codes
    BY DEF Codes
  <2>4. /\ sent \in 0..MaxLines /\ written \in 0..MaxReplies /\ inHand \in 0..MaxReplies
        /\ errors \in 0..MaxErrors /\ calls \in 0..MaxCalls
    OBVIOUS
  <2>5. TypeOK
    BY <2>1, <2>2, <2>3, <2>4 DEF TypeOK
  <2>6. QED
    BY <2>5 DEF Types, LineInHand
<1>2. Beginning /\ Statuses /\ SecretGoesOnce
  BY DEF Beginning, Statuses, Leaving, SecretGoesOnce
<1>3. Diagnoses
  BY DEF Diagnoses
<1>4. Replies
  BY DEF Replies, InOrder, Held, Waiting, Leaving
<1>5. QED
  BY <1>1, <1>2, <1>3, <1>4 DEF Inv

\* Every step keeps the invariant.
LEMMA NextInv == Inv /\ [Next]_vars => Inv'
  BY TypesStep, BeginningStep, SecretStep, StatusesStep, DiagnosesStep, RepliesStep DEF Inv

\* So it holds in every behaviour.
LEMMA Invariance == Spec => []Inv
  BY InitInv, NextInv, PTL DEF Spec

\* Once main() has returned, the invariant says that its result is true.
LEMMA HonestByInv ==
  ASSUME Inv
  PROVE  ReturnIsHonest
<1> SUFFICES ASSUME main = "returned" PROVE ReturnIsHonest
  BY DEF ReturnIsHonest
<1> USE DEF Inv, Leaving
<1>1. code # 0 => diagnostics # <<>>
  BY DEF Beginning, Diagnoses
<1>2. child = "none" => code = 2
  BY DEF Beginning
<1>3. child = "exited" /\ ~(timedOut /\ code = 1) => code = childCode
  BY DEF Statuses
<1>4. child # "none" /\ ~timedOut /\ "errors" \notin hurried =>
        /\ Len(diagnostics) <= 1
        /\ captured # <<>> => diagnostics = <<Classify(captured)>>
  BY DEF Diagnoses
<1>5. ASSUME child # "none", "replies" \notin hurried, stdout # "gone"
      PROVE  delivered = [n \in 1..written |-> n]
  <2>1. responder = "ended" /\ InOrder
    BY <1>5 DEF Replies
  <2>2. fromChild = <<>> /\ Len(fromChild) = 0
    BY <2>1 DEF Replies
  <2>3. delivered \in Seq(1..MaxReplies) /\ Len(delivered) \in Nat
    BY DEF Types, TypeOK
  <2>4. written = Len(delivered)
    BY <2>1, <2>2, <2>3 DEF InOrder, Held
  <2>5. DOMAIN delivered = 1..written /\ delivered = [n \in DOMAIN delivered |-> delivered[n]]
    BY <2>3, <2>4
  <2>6. \A n \in 1..written : delivered[n] = n
    BY <2>1, <2>4 DEF InOrder
  <2>7. QED
    BY <2>5, <2>6
<1>6. QED
  BY <1>1, <1>2, <1>3, <1>4, <1>5 DEF ReturnIsHonest

\* Every variable has its type: the socket's backlog, the pipes and the captured
\* text stay within their sizes.
THEOREM TransportTypeCorrect == Spec => []TypeOK
<1>1. Inv => TypeOK
  BY DEF Inv, Types
<1>2. QED
  BY <1>1, Invariance, PTL

\* The password reaches at most one process, one of the proxy's user, and is
\* gone with the socket when the handoff has ended.
THEOREM PasswordGoesOnce == Spec => []SecretGoesOnce
<1>1. Inv => SecretGoesOnce
  BY DEF Inv
<1>2. QED
  BY <1>1, Invariance, PTL

\* Exit status, diagnostics and delivered answers tell what has happened.
THEOREM ExitIsHonest == Spec => []ReturnIsHonest
<1>1. Inv => ReturnIsHonest
  BY HonestByInv
<1>2. QED
  BY <1>1, Invariance, PTL

-----------------------------------------------------------------------------
(* main() gets to its end: what MainReturns needs besides fairness.        *)

\* The guards of the steps of MainStep, in the order of main().
MayGoOn ==
  \/ main \in {"setup", "closing", "joining", "draining", "reporting"}
  \/ main = "reading" /\ (stdin # <<>> \/ eof)
  \/ main = "answering" /\ stdout # "stalled"
  \/ main = "forwarding" /\ child = "running" /\ Len(toChild) < PipeSize
  \/ main = "forwarding" /\ child = "exited"
  \/ main \in Waiting /\ child # "none"

ChildMayRead == child = "running" /\ toChild # <<>>

\* How many steps main() may still take when the client sends no more.
Rank ==
  CASE main = "returned"                                -> 0
    [] main = "reporting"                               -> 1
    [] main = "draining"                                -> 2
    [] main = "killed"                                  -> 3
    [] main = "terminated"                              -> 4
    [] main = "waiting"                                 -> 5
    [] main = "joining"                                 -> 6
    [] main = "closing"                                 -> 7
    [] main = "reading"                                 -> 2 * Len(stdin) + 8
    [] main \in {"setup", "answering", "forwarding"}    -> 2 * Len(stdin) + 9

\* Nobody waits for each other: main() can go on, or the child can make room for
\* the line that it has to write.
NobodyIsStuck ==
  eof /\ stdout # "stalled" /\ main # "returned" => MayGoOn \/ ChildMayRead

\* A step of main() brings it nearer to its end, and no other takes it back; if it
\* may go on it still may, until it does; and if it waits for the child to read,
\* the child still may read, until it does and main() may go on.
MovesToItsEnd ==
  /\ MainStep => MayGoOn /\ Rank' < Rank
  /\ eof => eof' /\ Rank' <= Rank
  /\ eof /\ MayGoOn /\ stdout' # "stalled" => MainStep \/ MayGoOn'
  /\ eof /\ ChildMayRead /\ main = "forwarding" =>
       IF ChildReads THEN MayGoOn' ELSE MainStep \/ ChildMayRead' \/ MayGoOn'

LEMMA RankNat == Types => Rank \in Nat
<1> SUFFICES ASSUME Types PROVE Rank \in Nat
  OBVIOUS
<1>1. Len(stdin) \in Nat
  BY DEF Types, TypeOK
<1>2. 2 * Len(stdin) + 8 \in Nat /\ 2 * Len(stdin) + 9 \in Nat
  BY <1>1
<1>3. main \in {"setup", "reading", "answering", "forwarding", "closing", "joining", "waiting",
                "terminated", "killed", "draining", "reporting", "returned"}
  BY DEF Types, TypeOK
<1>4. QED
  BY <1>2, <1>3 DEF Rank

\* Every step of main() is nearer to its end.
LEMMA MainStepCounts == Types /\ MainStep => MayGoOn /\ Rank' < Rank
<1> SUFFICES ASSUME Types, MainStep PROVE MayGoOn /\ Rank' < Rank
  OBVIOUS
<1>1. Len(stdin) \in Nat /\ stdin \in Seq({"local", "forward"})
  BY DEF Types, TypeOK
<1> USE <1>1 DEF Rank, MayGoOn, Waiting, Goto
<1>2. CASE SetupFails
  BY <1>2 DEF SetupFails
<1>3. CASE StartChild
  <2>1. stdin' = stdin
    BY <1>3 DEF StartChild, clientVars
  <2>2. QED
    BY <1>3, <2>1 DEF StartChild
<1>4. CASE ReadLine
  <2>1. stdin # <<>> /\ stdin' = Tail(stdin) /\ main = "reading"
        /\ main' \in {"answering", "forwarding"}
    BY <1>4 DEF ReadLine
  <2>2. Len(stdin') = Len(stdin) - 1
    BY <2>1
  <2>3. QED
    BY <2>1, <2>2
<1>5. CASE EndOfStdin
  BY <1>5 DEF EndOfStdin
<1>6. CASE AnswerLocally
  <2>1. stdin' = stdin
    BY <1>6 DEF AnswerLocally, clientVars
  <2>2. QED
    BY <1>6, <2>1 DEF AnswerLocally
<1>7. CASE ForwardLine
  <2>1. stdin' = stdin
    BY <1>7 DEF ForwardLine, clientVars
  <2>2. QED
    BY <1>7, <2>1 DEF ForwardLine
<1>8. CASE CloseChildStdin
  BY <1>8 DEF CloseChildStdin
<1>9. CASE JoinResponder
  BY <1>9 DEF JoinResponder
<1>10. CASE ChildEnded
  BY <1>10 DEF ChildEnded
<1>11. CASE WaitTimesOut
  BY <1>11 DEF WaitTimesOut
<1>12. CASE KillInVain
  BY <1>12 DEF KillInVain
<1>13. CASE JoinDrain
  BY <1>13 DEF JoinDrain
<1>14. CASE Return
  BY <1>14 DEF Return
<1>15. QED
  BY <1>2, <1>3, <1>4, <1>5, <1>6, <1>7, <1>8, <1>9, <1>10, <1>11, <1>12, <1>13, <1>14
     DEF MainStep

\* The steps of the others leave main() where it is, and what it waits for.
LEMMA OthersLeaveMain ==
  ASSUME Types, [Next]_vars, ~MainStep
  PROVE  /\ main' = main
         /\ eof => eof' /\ stdin' = stdin
         /\ child # "none" => child' # "none"
         /\ child = "exited" => child' = "exited"
         /\ UNCHANGED toChild \/ ChildReads
         /\ child' = child \/ child' = "exited"
<1> USE DEF clientVars, mainVars, childVars
<1>1. CASE ClientSends
  BY <1>1 DEF ClientSends
<1>2. CASE ClientCloses
  BY <1>2 DEF ClientCloses
<1>3. CASE ClientChanges
  BY <1>3 DEF ClientChanges
<1>4. CASE ChildReads
  BY <1>4 DEF ChildReads
<1>5. CASE ChildWrites
  BY <1>5 DEF ChildWrites
<1>6. CASE ChildComplains
  BY <1>6 DEF ChildComplains
<1>7. CASE ChildExits
  BY <1>7 DEF ChildExits, Exits
<1>8. ASSUME NEW p \in Peers, PeerCalls(p)
      PROVE  UNCHANGED <<clientVars, mainVars, childVars>>
  BY <1>8 DEF PeerCalls
<1>9. CASE HandoffStep
  BY <1>9 DEF HandoffStep, Accept, StopServing, HandOver, CloseListener
<1>10. CASE ResponderStep
  BY <1>10 DEF ResponderStep, ReadReply, DeliverReply, EndOfReplies
<1>11. CASE DrainStep
  BY <1>11 DEF DrainStep, ReadError, ReportErrors, NoteEmitted
<1>12. CASE UNCHANGED vars
  BY <1>12 DEF vars
<1>13. QED
  BY <1>1, <1>2, <1>3, <1>4, <1>5, <1>6, <1>7, <1>8, <1>9, <1>10, <1>11, <1>12 DEF Next

\* Once the client has closed stdin and while it reads, main() or the child can
\* take a step until main() has returned: there is no deadlock of main(), the
\* full pipe to the child and the client.  (main, child.stdin.write, _emit)
THEOREM MainIsNeverStuck == Spec => []NobodyIsStuck
<1>1. Inv => NobodyIsStuck
  <2> SUFFICES ASSUME Inv, eof, stdout # "stalled", main # "returned", ~ChildMayRead
               PROVE  MayGoOn
    BY DEF NobodyIsStuck
  <2>1. /\ main \in {"setup", "reading", "answering", "forwarding", "closing", "joining",
                     "waiting", "terminated", "killed", "draining", "reporting", "returned"}
        /\ child \in {"none", "running", "exited"}
        /\ child = "none" => main \in {"setup", "returned"}
    BY DEF Inv, Types, TypeOK, Beginning
  <2>2. child = "running" => Len(toChild) < PipeSize
    <3>1. PipeSize \in Nat \ {0}
      BY TransportAssumption
    <3>2. child = "running" => toChild = <<>>
      BY DEF ChildMayRead
    <3>3. QED
      BY <3>1, <3>2
  <2>3. QED
    BY <2>1, <2>2 DEF MayGoOn, Waiting
<1>2. QED
  BY <1>1, Invariance, PTL

\* From the end of stdin on every step of main() is one of finitely many, whatever
\* the others do between them, and what it may do stays possible: with the fair
\* scheduling of main() and the child, that is why main() returns.
THEOREM MainMovesToItsEnd == Spec => [][MovesToItsEnd]_vars
<1>1. Inv /\ [Next]_vars => [MovesToItsEnd]_vars
  <2> SUFFICES ASSUME Inv, [Next]_vars PROVE MovesToItsEnd
    OBVIOUS
  <2>1. Types /\ Types' /\ (child = "none" => main \in {"setup", "returned"})
    BY NextInv DEF Inv, Beginning
  <2>2. Rank \in Nat /\ Rank' \in Nat
    <3>1. Rank \in Nat
      BY <2>1, RankNat
    <3>2. Len(stdin') \in Nat
          /\ main' \in {"setup", "reading", "answering", "forwarding", "closing", "joining",
                        "waiting", "terminated", "killed", "draining", "reporting", "returned"}
      BY <2>1 DEF Types, TypeOK
    <3>3. Rank' \in Nat
      BY <3>2 DEF Rank
    <3>4. QED
      BY <3>1, <3>3
  <2>3. MainStep => MayGoOn /\ Rank' < Rank
    BY <2>1, MainStepCounts
  <2>4. eof => eof' /\ Rank' <= Rank
    <3>1. CASE MainStep
      <4>1. eof' = eof
        BY <3>1 DEF MainStep, SetupFails, StartChild, ReadLine, EndOfStdin, AnswerLocally,
                    ForwardLine, CloseChildStdin, JoinResponder, ChildEnded, WaitTimesOut,
                    KillInVain, JoinDrain, Return, clientVars
      <4>2. QED
        BY <2>2, <2>3, <3>1, <4>1
    <3>2. CASE ~MainStep
      <4>1. SUFFICES ASSUME eof PROVE eof' /\ Rank' <= Rank
        OBVIOUS
      <4>2. main' = main /\ eof' /\ stdin' = stdin
        BY <2>1, <3>2, <4>1, OthersLeaveMain
      <4>3. Rank' = Rank
        BY <4>2 DEF Rank
      <4>4. QED
        BY <2>2, <4>2, <4>3
    <3>3. QED
      BY <3>1, <3>2
  <2>5. ASSUME eof, MayGoOn, stdout' # "stalled", ~MainStep PROVE MayGoOn'
    <3>1. /\ main' = main /\ eof' /\ stdin' = stdin
          /\ child # "none" => child' # "none"
          /\ child = "exited" => child' = "exited"
          /\ UNCHANGED toChild \/ ChildReads
          /\ child' = child \/ child' = "exited"
      BY <2>1, <2>5, OthersLeaveMain
    <3>2. Len(toChild) < PipeSize => Len(toChild') < PipeSize
      <4>1. CASE UNCHANGED toChild
        BY <4>1
      <4>2. CASE ChildReads
        <5>1. toChild' = Tail(toChild) /\ toChild # <<>> /\ toChild \in Seq({"line"})
          BY <2>1, <4>2 DEF ChildReads, Types, TypeOK
        <5>2. Len(toChild') = Len(toChild) - 1 /\ Len(toChild) \in Nat
          BY <5>1
        <5>3. PipeSize \in Nat
          BY TransportAssumption
        <5>4. QED
          BY <5>2, <5>3
      <4>3. QED
        BY <3>1, <4>1, <4>2
    <3>3. QED
      BY <2>5, <3>1, <3>2 DEF MayGoOn, Waiting
  <2>6. ASSUME eof, ChildMayRead, main = "forwarding", ~MainStep, ~ChildReads
        PROVE  ChildMayRead' \/ MayGoOn'
    <3>1. /\ main' = main /\ UNCHANGED toChild
          /\ child' = child \/ child' = "exited"
      BY <2>1, <2>6, OthersLeaveMain
    <3>2. QED
      BY <2>6, <3>1 DEF ChildMayRead, MayGoOn
  <2>7. ASSUME ChildReads, main = "forwarding" PROVE MayGoOn'
    <3>1. /\ child' = "running" /\ main' = "forwarding"
          /\ toChild' = Tail(toChild) /\ toChild # <<>> /\ toChild \in Seq({"line"})
          /\ Len(toChild) <= PipeSize
      BY <2>1, <2>7 DEF ChildReads, Types, TypeOK, mainVars
    <3>2. Len(toChild') = Len(toChild) - 1 /\ Len(toChild) \in Nat /\ PipeSize \in Nat
      BY <3>1, TransportAssumption
    <3>3. Len(toChild') < PipeSize
      BY <3>1, <3>2
    <3>4. QED
      BY <3>1, <3>3 DEF MayGoOn
  <2>8. QED
    BY <2>3, <2>4, <2>5, <2>6, <2>7 DEF MovesToItsEnd
<1>2. QED
  BY <1>1, Invariance, PTL DEF Spec
=============================================================================
