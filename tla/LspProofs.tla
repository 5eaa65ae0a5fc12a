------------------------------- MODULE LspProofs -------------------------------
(***************************************************************************)
(* The session with a language server, for any documents, pipes of any      *)
(* length and any number of requests: what the client reads and writes is   *)
(* in the order LSP asks for, whatever the server says and when it dies.    *)
(***************************************************************************)
EXTENDS LspSession, FiniteSetTheorems, TLAPS

\* The kinds of calls at each control point, and what they are about.
Flow ==
    /\ pc = "start" <=> call.id = 0
    /\ call.kind = "initialize" =>
          /\ pc \in {"start", "ask", "check", "read", "free", "over"}
          /\ nextId = IF pc = "start" THEN 1 ELSE 2
          /\ call.id = nextId - 1
          /\ call.doc = None /\ call.text = 0 /\ opened = {}
          /\ ~ met => pc # "free"
    /\ call.kind = "query" =>
          /\ pc \in {"open", "ask", "check", "read", "free", "over"}
          /\ nextId <= MaxId + 1
          /\ call.doc \in Docs /\ call.text # 0
    /\ call.kind = "shutdown" =>
          /\ pc \in {"ask", "check", "read", "exit", "waiting", "over"}
          /\ call.doc = None
    /\ call.id < nextId
    /\ met => call.kind # "initialize" \/ pc \in {"free", "over"}
    /\ ~ met => call.kind = "initialize"
    /\ met /\ pc = "over" => ~ alive

SessionInv == SessionTypeOK /\ Flow

LEMMA SessionInit == Init => SessionInv
<1> SUFFICES ASSUME Init PROVE SessionInv
    OBVIOUS
<1>1. call \in Message(Questions) /\ got \in Message(ToClient)
      BY SessionAssumption DEF Init, Message, Msg, NoMsg, Text, Questions, ToClient
<1>2. /\ docs \in [Docs -> Text] /\ disk \in [Docs -> Text \ {0}]
      /\ nextId \in 1..(MaxId + 2) /\ Len(stdin) <= PipeLimit /\ Len(stdout) <= PipeLimit
      BY SessionAssumption DEF Init, Text
<1>3. /\ stdin \in Seq(Message(ToServer)) /\ stdout \in Seq(Message(ToClient))
      /\ pc \in PCs /\ pending = {} /\ opened = {}
      BY DEF Init, PCs
<1>4. SessionTypeOK
      BY <1>1, <1>2, <1>3 DEF Init, SessionTypeOK
<1>5. Flow
      BY DEF Init, Flow, Msg
<1> QED
    BY <1>4, <1>5 DEF SessionInv

\* What may be written and read, one message at a time.
LEMMA WriteTypes ==
    ASSUME SessionTypeOK, NEW m \in Message(ToServer), Write(m)
    PROVE  stdin' \in Seq(Message(ToServer)) /\ Len(stdin') <= PipeLimit
<1> DEFINE S == Message(ToServer)
<1>1. stdin \in Seq(S) /\ m \in S /\ Len(stdin) < PipeLimit /\ stdin' = Append(stdin, m)
      BY DEF SessionTypeOK, Write, Room
<1> HIDE DEF S
<1>2. stdin' \in Seq(S) /\ Len(stdin') = Len(stdin) + 1
      BY <1>1
<1> QED
    BY <1>1, <1>2, SessionAssumption DEF S

LEMMA ServerWritesTypes ==
    ASSUME SessionTypeOK, NEW m \in Message(ToClient), ServerWrites(m)
    PROVE  stdout' \in Seq(Message(ToClient)) /\ Len(stdout') <= PipeLimit
<1> DEFINE S == Message(ToClient)
<1>1. stdout \in Seq(S) /\ m \in S /\ Len(stdout) < PipeLimit /\ stdout' = Append(stdout, m)
      BY DEF SessionTypeOK, ServerWrites, Room
<1> HIDE DEF S
<1>2. stdout' \in Seq(S) /\ Len(stdout') = Len(stdout) + 1
      BY <1>1
<1> QED
    BY <1>1, <1>2, SessionAssumption DEF S

\* The pipes are read from their heads.
LEMMA PipeHeads ==
    ASSUME SessionTypeOK
    PROVE  /\ stdin # <<>> =>
                 /\ Head(stdin) = stdin[1] /\ stdin[1] \in Message(ToServer)
                 /\ Tail(stdin) \in Seq(Message(ToServer)) /\ Len(Tail(stdin)) = Len(stdin) - 1
                 /\ \A i \in 1..(Len(stdin) - 1) : Tail(stdin)[i] = stdin[i + 1]
                 /\ Len(stdin) \in Nat \ {0}
           /\ stdout # <<>> =>
                 /\ Head(stdout) = stdout[1] /\ stdout[1] \in Message(ToClient)
                 /\ Tail(stdout) \in Seq(Message(ToClient)) /\ Len(Tail(stdout)) = Len(stdout) - 1
                 /\ \A i \in 1..(Len(stdout) - 1) : Tail(stdout)[i] = stdout[i + 1]
                 /\ Len(stdout) \in Nat \ {0}
<1> DEFINE S == Message(ToServer)
           C == Message(ToClient)
<1>1. stdin \in Seq(S) /\ stdout \in Seq(C)
      BY DEF SessionTypeOK
<1> HIDE DEF S, C
<1> QED
    BY <1>1 DEF S, C

LEMMA PipeMembers ==
    ASSUME SessionTypeOK
    PROVE  /\ Len(stdin) \in Nat /\ \A i \in 1..Len(stdin) : stdin[i] \in Message(ToServer)
           /\ Len(stdout) \in Nat /\ \A i \in 1..Len(stdout) : stdout[i] \in Message(ToClient)
<1> DEFINE S == Message(ToServer)
           C == Message(ToClient)
<1>1. stdin \in Seq(S) /\ stdout \in Seq(C)
      BY DEF SessionTypeOK
<1> HIDE DEF S, C
<1>2. /\ Len(stdin) \in Nat /\ \A i \in 1..Len(stdin) : stdin[i] \in S
      /\ Len(stdout) \in Nat /\ \A i \in 1..Len(stdout) : stdout[i] \in C
      BY <1>1
<1> QED
    BY <1>2 DEF S, C

\* The messages the client sends are messages.
LEMMA Requests ==
    ASSUME NEW kind \in ToServer, NEW id \in Nat,
           NEW d \in Docs \cup {None}, NEW text \in Text
    PROVE  Msg(kind, id, d, text) \in Message(ToServer)
BY DEF Msg, Message

LEMMA Calls ==
    ASSUME NEW kind \in Questions, NEW id \in Nat, NEW d \in Docs \cup {None}, NEW text \in Text
    PROVE  Msg(kind, id, d, text) \in Message(Questions)
BY DEF Msg, Message

LEMMA NoMessage == NoMsg \in Message(ToClient) /\ 0 \in Text
BY SessionAssumption DEF NoMsg, Msg, Message, ToClient, Text

LEMMA SessionStep ==
    ASSUME SessionInv, [Next]_vars PROVE SessionInv'
<1> USE DEF SessionInv
<1>1. CASE UNCHANGED vars
      BY <1>1 DEF vars, clientVars, serverVars, SessionTypeOK, Flow
<1>2. CASE Start
  <2>1. call.kind = "initialize"
        BY <1>2 DEF Start, Flow, SessionTypeOK, Message, Questions
  <2>2. nextId = 1 /\ nextId' = 2 /\ call' = Msg("initialize", 1, None, 0)
        BY <1>2, <2>1 DEF Start, Flow
  <2>3. call' \in Message(Questions) /\ NoMsg \in Message(ToClient)
        BY <2>2, Calls, NoMessage DEF Questions
  <2>4. SessionTypeOK'
        BY <1>2, <2>2, <2>3, SessionAssumption DEF Start, SessionTypeOK, serverVars, PCs
  <2>5. Flow'
        BY <1>2, <2>1, <2>2 DEF Start, Flow, SessionTypeOK, Msg, serverVars
  <2> QED
      BY <2>4, <2>5
<1>3. ASSUME NEW d \in Docs, Query(d) PROVE SessionInv'
  <2>1. disk[d] \in Text \ {0}
        BY DEF SessionTypeOK
  <2>2. call' \in Message(Questions) /\ NoMsg \in Message(ToClient)
        BY <1>3, <2>1, Calls, NoMessage DEF Query, SessionTypeOK, Questions
  <2>3. SessionTypeOK'
        BY <1>3, <2>2, SessionAssumption DEF Query, SessionTypeOK, serverVars, PCs
  <2>4. Flow'
        BY <1>3, <2>1, SessionAssumption DEF Query, Flow, SessionTypeOK, Msg, Text
  <2> QED
      BY <2>3, <2>4
<1>4. CASE OpenDocument
  <2>1. call.doc \in Docs /\ call.text \in Text /\ call.kind = "query"
        BY <1>4 DEF OpenDocument, Flow, SessionTypeOK, Message, Questions
  <2>2. stdin' \in Seq(Message(ToServer)) /\ Len(stdin') <= PipeLimit
    <3>1. Msg("open", 0, call.doc, call.text) \in Message(ToServer)
          BY <2>1, Requests DEF ToServer
    <3> QED
        BY <1>4, <3>1, WriteTypes DEF OpenDocument, Broken, SessionTypeOK
  <2>3. SessionTypeOK'
        BY <1>4, <2>1, <2>2 DEF OpenDocument, SessionTypeOK, serverVars, PCs
  <2>4. Flow'
        BY <1>4, <2>1 DEF OpenDocument, Flow, serverVars
  <2> QED
      BY <2>3, <2>4
<1>5. CASE Shutdown
  <2>1. call' \in Message(Questions) /\ NoMsg \in Message(ToClient)
        BY <1>5, Calls, NoMessage, SessionAssumption DEF Shutdown, SessionTypeOK, Questions
  <2>2. nextId <= MaxId + 1
        BY <1>5, SessionAssumption DEF Shutdown, Flow, SessionTypeOK, Message, Questions
  <2>3. SessionTypeOK'
        BY <1>5, <2>1, <2>2, SessionAssumption DEF Shutdown, SessionTypeOK, serverVars, PCs
  <2>4. Flow'
        BY <1>5, <2>2 DEF Shutdown, Flow, SessionTypeOK, Msg
  <2> QED
      BY <2>3, <2>4
<1>6. AfterFailure \in {"over", "free", "exit"}
      BY DEF AfterFailure, SessionTypeOK, Message, Questions
<1>7. CASE Ask
  <2>1. Msg(call.kind, call.id, call.doc, 0) \in Message(ToServer)
    <3>1. /\ call.kind \in Questions /\ call.id \in Nat /\ call.doc \in Docs \cup {None}
          BY DEF SessionTypeOK, Message
    <3> QED
        BY <3>1, Requests, NoMessage DEF ToServer
  <2>2. /\ stdin' \in Seq(Message(ToServer)) /\ Len(stdin') <= PipeLimit
        /\ pc' = "check" \/ pc' = AfterFailure
        BY <1>7, <2>1, WriteTypes DEF Ask, SendRequest, Broken, SessionTypeOK
  <2>3. SessionTypeOK'
        BY <1>6, <1>7, <2>2 DEF Ask, SendRequest, SessionTypeOK, serverVars, PCs
  <2>4. Flow'
        BY <1>7, <2>2 DEF Ask, AfterFailure, Flow, serverVars, SessionTypeOK, Message, Questions
  <2> QED
      BY <2>3, <2>4
<1>8. CASE DropServer
      BY <1>8 DEF DropServer, Flow, SessionTypeOK, PCs
<1>9. CASE CheckDeadline \/ ReadEnd
  <2>1. SessionTypeOK'
        BY <1>6, <1>9 DEF CheckDeadline, ReadEnd, SessionTypeOK, serverVars, PCs
  <2>2. Flow'
        BY <1>9 DEF CheckDeadline, ReadEnd, AfterFailure, Flow, serverVars, SessionTypeOK,
           Message, Questions
  <2> QED
      BY <2>1, <2>2
<1>10. CASE ReadMessage
  <2>1. /\ Head(stdout) \in Message(ToClient) /\ stdout' \in Seq(Message(ToClient))
        /\ Len(stdout') <= PipeLimit
        BY <1>10, PipeHeads, SessionAssumption DEF ReadMessage, SessionTypeOK
  <2>2. Msg("initialized", 0, None, 0) \in Message(ToServer)
        BY Requests, NoMessage DEF ToServer
  <2>3. /\ stdin' \in Seq(Message(ToServer)) /\ Len(stdin') <= PipeLimit
        BY <1>10, <2>2, WriteTypes DEF ReadMessage, Broken, SessionTypeOK
  <2>4. Concludes(Head(stdout)) \in {"over", "free", "exit"}
        BY DEF Concludes, SessionTypeOK, Message, Questions
  <2>5. SessionTypeOK'
        BY <1>10, <2>1, <2>3, <2>4 DEF ReadMessage, SessionTypeOK, serverVars, PCs
  <2>6. Flow'
        BY <1>10 DEF ReadMessage, Concludes, Flow, serverVars, SessionTypeOK, Message, Questions
  <2> QED
      BY <2>5, <2>6
<1>11. CASE SendExit
  <2>1. Msg("exit", 0, None, 0) \in Message(ToServer)
        BY Requests, NoMessage DEF ToServer
  <2>2. stdin' \in Seq(Message(ToServer)) /\ Len(stdin') <= PipeLimit
        BY <1>11, <2>1, WriteTypes DEF SendExit, Broken, SessionTypeOK
  <2>3. SessionTypeOK'
        BY <1>11, <2>2 DEF SendExit, SessionTypeOK, serverVars, PCs
  <2>4. Flow'
        BY <1>11 DEF SendExit, Flow, serverVars
  <2> QED
      BY <2>3, <2>4
<1>12. CASE WaitForExit
      BY <1>12 DEF WaitForExit, Flow, SessionTypeOK, PCs
<1>13. CASE ServerRead
  <2>1. /\ stdin[1] \in Message(ToServer) /\ Head(stdin) = stdin[1]
        /\ stdin' \in Seq(Message(ToServer)) /\ Len(stdin') <= PipeLimit
        BY <1>13, PipeHeads, SessionAssumption DEF ServerRead, SessionTypeOK
  <2>2. pending' \subseteq Message(Questions) /\ docs' \in [Docs -> Text]
        BY <1>13, <2>1 DEF ServerRead, SessionTypeOK, Message
  <2>3. SessionTypeOK'
        BY <1>13, <2>1, <2>2 DEF ServerRead, SessionTypeOK, clientVars
  <2>4. Flow'
        BY <1>13 DEF ServerRead, Flow, clientVars
  <2> QED
      BY <2>3, <2>4
<1>14. CASE Talks
  <2>1. \E m \in Message(ToClient) : ServerWrites(m)
    <3>1. CASE ServerAnswer
      <4>1. PICK m \in pending, kind \in {"answer", "failure"} :
                ServerWrites(Msg(kind, m.id, m.doc, IF m.doc = None THEN 0 ELSE docs[m.doc]))
            BY <3>1 DEF ServerAnswer
      <4>2. /\ m.id \in Nat /\ m.doc \in Docs \cup {None}
            /\ (IF m.doc = None THEN 0 ELSE docs[m.doc]) \in Text
            BY NoMessage DEF SessionTypeOK, Message
      <4> QED
          BY <4>1, <4>2 DEF Msg, Message, ToClient
    <3>2. CASE ServerNotify
          BY <3>2, NoMessage DEF ServerNotify
    <3>3. CASE ServerAsk
      <4>1. PICK i \in ServerIds : ServerWrites(Msg("ask", i, None, 0))
            BY <3>3 DEF ServerAsk
      <4> QED
          BY <4>1, NoMessage, SessionAssumption DEF Msg, Message, ToClient
    <3> QED
        BY <1>14, <3>1, <3>2, <3>3 DEF Talks
  <2>2. /\ stdout' \in Seq(Message(ToClient)) /\ Len(stdout') <= PipeLimit
        BY <2>1, ServerWritesTypes
  <2>3. /\ pending' \subseteq pending /\ alive' = alive /\ asking' \in BOOLEAN /\ docs' = docs
        /\ UNCHANGED <<clientVars, stdin, disk>>
        BY <1>14 DEF Talks, ServerAnswer, ServerNotify, ServerAsk, serverVars, SessionTypeOK
  <2>4. SessionTypeOK'
        BY <2>2, <2>3 DEF SessionTypeOK, clientVars
  <2>5. Flow'
        BY <2>3 DEF Flow, clientVars
  <2> QED
      BY <2>4, <2>5
<1>15. CASE ServerDies \/ Tick
  <2>1. /\ UNCHANGED <<pc, call, nextId, opened, got, met, pending, asking, docs,
                       stdin, stdout, disk>>
        /\ late' \in BOOLEAN /\ alive' \in BOOLEAN /\ (alive' => alive)
    <3>1. CASE ServerDies
          BY <3>1 DEF ServerDies, SessionTypeOK, clientVars
    <3>2. CASE Tick
          BY <3>2 DEF Tick, SessionTypeOK, serverVars
    <3> QED
        BY <1>15, <3>1, <3>2
  <2>2. SessionTypeOK'
        BY <2>1 DEF SessionTypeOK
  <2>3. Flow'
        BY <2>1 DEF Flow
  <2> QED
      BY <2>2, <2>3
<1>16. ASSUME NEW d \in Docs, Edit(d) PROVE SessionInv'
      BY <1>16, SessionAssumption DEF Edit, Flow, SessionTypeOK, clientVars, serverVars, Text
<1> QED
    BY <1>1, <1>2, <1>3, <1>4, <1>5, <1>7, <1>8, <1>9, <1>10, <1>11, <1>12, <1>13,
       <1>14, <1>15, <1>16 DEF Next, ClientStep, Caller

LEMMA SessionInvariant == Spec => []SessionInv
<1>1. SessionInv /\ [Next]_vars => SessionInv'
      BY SessionStep
<1> QED
    BY SessionInit, <1>1, PTL DEF Spec

\* The session's state and its pipes hold what the types and the control flow
\* let them hold, for documents, ids and pipes without bound.
THEOREM SessionTypeCorrect == Spec => []SessionTypeOK
<1>1. SessionInv => SessionTypeOK
      BY DEF SessionInv
<1> QED
    BY <1>1, SessionInvariant, PTL

\* Whatever fails and whenever the server dies: a session that has come about
\* and is over has no process.
THEOREM NoProcessLeft == Spec => []EndedSessionLeavesNoProcess
<1>1. SessionInv => EndedSessionLeavesNoProcess
      BY DEF SessionInv, Flow, EndedSessionLeavesNoProcess
<1> QED
    BY <1>1, SessionInvariant, PTL

-----------------------------------------------------------------------------
(* Requests and their responses *)

\* A message is written behind the others.
LEMMA Written ==
    ASSUME SessionTypeOK, NEW m, Write(m)
    PROVE  /\ Len(stdin) \in Nat /\ Len(stdin') = Len(stdin) + 1
           /\ \A i \in 1..Len(stdin) : stdin'[i] = stdin[i]
           /\ stdin'[Len(stdin) + 1] = m
<1> DEFINE S == Message(ToServer)
<1>1. stdin \in Seq(S) /\ stdin' = Append(stdin, m)
      BY DEF SessionTypeOK, Write
<1> HIDE DEF S
<1> QED
    BY <1>1

LEMMA ServerWritten ==
    ASSUME SessionTypeOK, NEW m, ServerWrites(m)
    PROVE  /\ Len(stdout) \in Nat /\ Len(stdout') = Len(stdout) + 1
           /\ \A i \in 1..Len(stdout) : stdout'[i] = stdout[i]
           /\ stdout'[Len(stdout) + 1] = m
<1> DEFINE S == Message(ToClient)
<1>1. stdout \in Seq(S) /\ stdout' = Append(stdout, m)
      BY DEF SessionTypeOK, ServerWrites
<1> HIDE DEF S
<1> QED
    BY <1>1

\* A request, or a response to one, that bears the id of the call is the call's.
Own(m) == m.id < nextId /\ (m.id = call.id => m.doc = call.doc)
Ids ==
    /\ \A i \in 1..Len(stdin) : stdin[i].kind \in Questions => Own(stdin[i])
    /\ \A m \in pending : Own(m)
    /\ \A i \in 1..Len(stdout) :
          stdout[i].kind \in {"answer", "failure"} => Own(stdout[i])
    /\ ResponseIsToTheCall

LEMMA IdsInit == Init => Ids
BY DEF Init, Ids, ResponseIsToTheCall

\* A new call has an id that no message bears yet.
LEMMA NewCallIds ==
    ASSUME SessionInv, Ids, call'.id = nextId, nextId' = nextId + 1, got' = NoMsg,
           UNCHANGED <<stdin, stdout, pending>>
    PROVE  Ids'
<1>1. nextId \in Nat
      BY SessionAssumption DEF SessionInv, SessionTypeOK
<1>2. ASSUME NEW m, Own(m), m.id \in Nat PROVE Own(m)'
      BY <1>1, <1>2 DEF Own
<1>3. \A i \in 1..Len(stdin) : stdin[i].id \in Nat
      BY PipeMembers DEF SessionInv, Message
<1>4. \A i \in 1..Len(stdout) : stdout[i].id \in Nat
      BY PipeMembers DEF SessionInv, Message
<1>5. \A m \in pending : m.id \in Nat
      BY DEF SessionInv, SessionTypeOK, Message
<1> QED
    BY <1>2, <1>3, <1>4, <1>5 DEF Ids, ResponseIsToTheCall

LEMMA IdsStep ==
    ASSUME SessionInv, Ids, [Next]_vars PROVE Ids'
<1> USE DEF SessionInv
<1>1. CASE UNCHANGED <<call, nextId, got, stdin, stdout, pending>>
      BY <1>1 DEF Ids, Own, ResponseIsToTheCall
<1>2. CASE Start \/ Shutdown \/ \E d \in Docs : Query(d)
      BY <1>2, NewCallIds DEF Start, Shutdown, Query, serverVars, Msg
<1>3. ASSUME UNCHANGED <<call, nextId, got, stdout, pending>>, NEW m, Write(m),
             m.kind \in Questions => Own(m)
      PROVE  Ids'
      BY <1>3, Written DEF Ids, Own, ResponseIsToTheCall
<1>4. CASE OpenDocument
      BY <1>1, <1>3, <1>4 DEF OpenDocument, Broken, Msg, Questions, serverVars
<1>5. CASE Ask
      BY <1>1, <1>3, <1>5 DEF Ask, SendRequest, Broken, Msg, Own, Flow, serverVars
<1>6. CASE SendExit
      BY <1>1, <1>3, <1>6 DEF SendExit, Broken, Msg, Questions, serverVars
<1>7. CASE ReadMessage
  <2>1. /\ stdout # <<>> /\ Head(stdout) = stdout[1] /\ stdout[1] \in Message(ToClient)
        /\ Len(stdout) \in Nat \ {0} /\ Len(stdout') = Len(stdout) - 1
        /\ \A i \in 1..Len(stdout') : stdout'[i] = stdout[i + 1]
        /\ UNCHANGED <<call, nextId, pending>>
        BY <1>7, PipeHeads DEF ReadMessage, serverVars
  <2>2. stdin' = stdin \/ Write(Msg("initialized", 0, None, 0))
        BY <1>7 DEF ReadMessage, Broken
  <2>3. \A i \in 1..Len(stdin') : stdin'[i].kind \in Questions => Own(stdin'[i])
        BY <2>2, Written DEF Ids, Msg, Questions
  <2>4. \A i \in 1..Len(stdout') : stdout'[i].kind \in {"answer", "failure"} => Own(stdout'[i])
        BY <2>1 DEF Ids
  <2>5. got' = got \/ (got' = stdout[1] /\ Matches(stdout[1]))
        BY <1>7, <2>1 DEF ReadMessage
  <2>6. Matches(stdout[1]) =>
          /\ stdout[1].id = call.id
          /\ stdout[1].kind = "ask"
             \/ (stdout[1].kind \in {"answer", "failure"} /\ stdout[1].doc = call.doc)
        BY <2>1 DEF Ids, Matches, Own
  <2>7. ResponseIsToTheCall'
        BY <2>1, <2>5, <2>6 DEF Ids, ResponseIsToTheCall
  <2> QED
      BY <2>1, <2>3, <2>4, <2>7 DEF Ids, Own
<1>8. CASE ServerRead
  <2>1. /\ stdin # <<>> /\ Head(stdin) = stdin[1] /\ Len(stdin) \in Nat \ {0}
        /\ Len(stdin') = Len(stdin) - 1
        /\ \A i \in 1..Len(stdin') : stdin'[i] = stdin[i + 1]
        /\ UNCHANGED <<call, nextId, got, stdout>>
        BY <1>8, PipeHeads DEF ServerRead, clientVars
  <2>2. pending' = IF stdin[1].kind \in Questions THEN pending \cup {stdin[1]} ELSE pending
        BY <1>8, <2>1 DEF ServerRead
  <2> QED
      BY <2>1, <2>2 DEF Ids, Own, ResponseIsToTheCall
<1>9. ASSUME UNCHANGED <<call, nextId, got, stdin>>, pending' \subseteq pending,
             NEW m, ServerWrites(m), m.kind \in {"answer", "failure"} => Own(m)
      PROVE  Ids'
      BY <1>9, ServerWritten DEF Ids, Own, ResponseIsToTheCall
<1>10. CASE ServerAnswer
  <2>1. PICK m \in pending, kind \in {"answer", "failure"} :
           /\ ServerWrites(Msg(kind, m.id, m.doc, IF m.doc = None THEN 0 ELSE docs[m.doc]))
           /\ pending' = pending \ {m}
        BY <1>10 DEF ServerAnswer
  <2> QED
      BY <1>9, <1>10, <2>1 DEF ServerAnswer, clientVars, Ids, Own, Msg
<1>11. CASE ServerNotify \/ ServerAsk
      BY <1>9, <1>11 DEF ServerNotify, ServerAsk, NoMsg, Msg, clientVars, serverVars
<1>12. ASSUME UNCHANGED vars \/ DropServer \/ CheckDeadline \/ ReadEnd \/ WaitForExit
             \/ ServerDies \/ Tick \/ \E d \in Docs : Edit(d)
      PROVE  UNCHANGED <<call, nextId, got, stdin, stdout, pending>>
      BY <1>12 DEF DropServer, CheckDeadline, ReadEnd, WaitForExit, ServerDies, Tick, Edit,
         vars, clientVars, serverVars
<1> QED
    BY <1>1, <1>2, <1>4, <1>5, <1>6, <1>7, <1>8, <1>10, <1>11, <1>12
    DEF Next, ClientStep, Caller, Talks

\* Whatever ids the server gives its own requests, what ends a call bears the
\* call's id, and a response that ends it is the response to that request,
\* however many requests timed out before it and in whatever order the server
\* answers; nothing but a request of the server's with that id can pass for one.
THEOREM ResponsesMatch == Spec => []ResponseIsToTheCall
<1>1. SessionInv /\ SessionInv' /\ Ids /\ [Next]_vars => Ids'
      BY IdsStep
<1>2. Ids => ResponseIsToTheCall
      BY DEF Ids
<1> QED
    BY IdsInit, SessionInvariant, <1>1, <1>2, PTL DEF Spec

-----------------------------------------------------------------------------
(* Documents *)

\* Where the one didOpen of a document is: not sent, on its way, or read.
IsOpen(m, d)  == m.kind = "open" /\ m.doc = d
IsQuery(m, d) == m.kind = "query" /\ m.doc = d
Opening(d) ==
    /\ d \notin opened => docs[d] = 0
    /\ d \notin opened \/ docs[d] # 0 => \A i \in 1..Len(stdin) : ~ IsOpen(stdin[i], d)
    /\ d \in opened /\ docs[d] = 0 => \E i \in 1..Len(stdin) : IsOpen(stdin[i], d)
    /\ \A i, j \in 1..Len(stdin) : IsOpen(stdin[i], d) /\ IsOpen(stdin[j], d) => i = j
    /\ \A i \in 1..Len(stdin) : IsQuery(stdin[i], d) =>
          docs[d] # 0 \/ \E j \in 1..(i - 1) : IsOpen(stdin[j], d)
    /\ \A m \in pending : m.doc = d => docs[d] # 0
Documents ==
    /\ \A i \in 1..Len(stdin) :
          /\ stdin[i].kind = "open" => stdin[i].doc \in Docs /\ stdin[i].text # 0
          /\ stdin[i].kind \in {"initialize", "shutdown"} => stdin[i].doc = None
    /\ call.kind = "query" /\ pc \in {"ask", "check", "read"} => call.doc \in opened
    /\ \A d \in Docs : Opening(d)

LEMMA DocumentsInit == Init => Documents
BY DEF Init, Documents, Opening, Msg

\* A message that is no didOpen and asks for no document changes nothing.
LEMMA WriteOther ==
    ASSUME SessionInv, Documents, NEW m, Write(m), m.kind \notin {"open", "query"},
           m.doc = None, UNCHANGED <<call, opened, docs, pending>>,
           call.kind = "query" /\ pc' \in {"ask", "check", "read"} =>
               pc \in {"ask", "check", "read"}
    PROVE  Documents'
<1>1. /\ Len(stdin) \in Nat /\ Len(stdin') = Len(stdin) + 1
      /\ \A i \in 1..Len(stdin) : stdin'[i] = stdin[i]
      /\ stdin'[Len(stdin) + 1] = m
      BY Written DEF SessionInv
<1>2. ASSUME NEW d \in Docs PROVE Opening(d)'
  <2>1. Opening(d)
        BY DEF Documents
  <2>2. \A i \in 1..Len(stdin') :
           \/ i \in 1..Len(stdin) /\ stdin'[i] = stdin[i]
           \/ i = Len(stdin) + 1 /\ ~ IsOpen(stdin'[i], d) /\ ~ IsQuery(stdin'[i], d)
        BY <1>1 DEF IsOpen, IsQuery
  <2>3. \A i \in 1..Len(stdin) : i \in 1..Len(stdin') /\ stdin'[i] = stdin[i]
        BY <1>1
  <2>4. /\ d \notin opened => docs[d] = 0
        /\ d \notin opened \/ docs[d] # 0 => \A i \in 1..Len(stdin') : ~ IsOpen(stdin'[i], d)
        BY <2>1, <2>2 DEF Opening
  <2>5. d \in opened /\ docs[d] = 0 => \E i \in 1..Len(stdin') : IsOpen(stdin'[i], d)
        BY <2>1, <2>3 DEF Opening
  <2>6. \A i, j \in 1..Len(stdin') : IsOpen(stdin'[i], d) /\ IsOpen(stdin'[j], d) => i = j
        BY <2>1, <2>2 DEF Opening
  <2>7. ASSUME NEW i \in 1..Len(stdin'), IsQuery(stdin'[i], d), docs[d] = 0
        PROVE  \E j \in 1..(i - 1) : IsOpen(stdin'[j], d)
    <3>1. i \in 1..Len(stdin) /\ stdin'[i] = stdin[i]
          BY <2>2, <2>7
    <3>2. PICK j \in 1..(i - 1) : IsOpen(stdin[j], d)
          BY <2>1, <2>7, <3>1 DEF Opening
    <3> QED
        BY <1>1, <3>1, <3>2
  <2>8. \A n \in pending : n.doc = d => docs[d] # 0
        BY <2>1 DEF Opening
  <2> QED
      BY <2>4, <2>5, <2>6, <2>7, <2>8 DEF Opening
<1>3. \A i \in 1..Len(stdin') :
         /\ stdin'[i].kind = "open" => stdin'[i].doc \in Docs /\ stdin'[i].text # 0
         /\ stdin'[i].kind \in {"initialize", "shutdown"} => stdin'[i].doc = None
      BY <1>1 DEF Documents
<1> QED
    BY <1>2, <1>3 DEF Documents

LEMMA DocumentsStep ==
    ASSUME SessionInv, Documents, [Next]_vars PROVE Documents'
<1> USE DEF SessionInv
<1>1. CASE UNCHANGED <<opened, docs, stdin>> /\ pending' \subseteq pending /\
           (call'.kind = "query" /\ pc' \in {"ask", "check", "read"} =>
               call'.doc = call.doc /\ call.kind = "query" /\ pc \in {"ask", "check", "read"})
      BY <1>1 DEF Documents, Opening
<1>2. CASE Start \/ Shutdown \/ \E d \in Docs : Query(d)
      BY <1>1, <1>2 DEF Start, Shutdown, Query, serverVars, Msg
<1>3. CASE OpenDocument
  <2> DEFINE d == call.doc
  <2>1. d \in Docs /\ call.text # 0 /\ call.kind = "query"
        BY <1>3 DEF OpenDocument, Flow, SessionTypeOK, Message, Questions
  <2>2. UNCHANGED <<call, docs, pending>>
        BY <1>3 DEF OpenDocument, serverVars
  <2>3. CASE pc' = "free"
        BY <1>1, <1>3, <2>3 DEF OpenDocument, Broken, serverVars
  <2>4. CASE d \in opened
        BY <1>3, <2>2, <2>4 DEF OpenDocument, Documents, Opening
  <2>5. CASE Write(Msg("open", 0, d, call.text)) /\ opened' = opened \cup {d} /\ d \notin opened
    <3>1. /\ Len(stdin) \in Nat /\ Len(stdin') = Len(stdin) + 1
          /\ \A i \in 1..Len(stdin) : stdin'[i] = stdin[i]
          /\ stdin'[Len(stdin) + 1] = Msg("open", 0, d, call.text)
          BY <2>5, Written
    <3>2. \A e \in Docs \ {d} : Opening(e)'
          BY <2>2, <2>5, <3>1 DEF Documents, Opening, IsOpen, IsQuery, Msg
    <3>3. docs[d] = 0 /\ \A i \in 1..Len(stdin) : ~ IsOpen(stdin[i], d)
          BY <2>1, <2>5 DEF Documents, Opening
    <3>4. IsOpen(stdin'[Len(stdin) + 1], d) /\ ~ IsQuery(stdin'[Len(stdin) + 1], d)
          BY <3>1 DEF IsOpen, IsQuery, Msg
    <3>5. Opening(d)'
          BY <2>1, <2>2, <2>5, <3>1, <3>3, <3>4 DEF Documents, Opening, IsOpen, IsQuery
    <3> QED
        BY <2>1, <2>2, <2>5, <3>1, <3>2, <3>5 DEF Documents, Msg
  <2> QED
      BY <1>3, <2>3, <2>4, <2>5 DEF OpenDocument
<1>4. CASE Ask
  <2> DEFINE m == Msg(call.kind, call.id, call.doc, 0)
  <2>1. CASE UNCHANGED stdin
        BY <1>1, <1>4, <2>1 DEF Ask, SendRequest, serverVars
  <2>2. CASE Write(m) /\ call.kind # "query"
        BY <1>4, <2>2, WriteOther DEF Ask, Msg, serverVars, Flow, SessionTypeOK, Message,
           Questions
  <2>3. CASE Write(m) /\ call.kind = "query"
    <3>1. /\ Len(stdin) \in Nat /\ Len(stdin') = Len(stdin) + 1
          /\ \A i \in 1..Len(stdin) : stdin'[i] = stdin[i]
          /\ stdin'[Len(stdin) + 1] = m
          /\ UNCHANGED <<call, opened, docs, pending>>
          BY <1>4, <2>3, Written DEF Ask, serverVars
    <3>2. call.doc \in opened /\ call.doc \in Docs
          BY <1>4, <2>3 DEF Ask, Documents, Flow
    <3>3. m.kind = "query" /\ m.doc = call.doc
          BY <2>3 DEF Msg
    <3>4. ASSUME NEW d \in Docs PROVE Opening(d)'
      <4>1. Opening(d) /\ ~ IsOpen(m, d) /\ (IsQuery(m, d) => d \in opened)
            BY <3>2, <3>3 DEF Documents, IsOpen, IsQuery
      <4>2. ASSUME NEW i \in 1..Len(stdin'), IsQuery(stdin'[i], d), docs[d] = 0
            PROVE  \E j \in 1..(i - 1) : IsOpen(stdin'[j], d)
        <5>1. CASE i = Len(stdin) + 1
          <6>1. PICK j \in 1..Len(stdin) : IsOpen(stdin[j], d)
                BY <3>1, <4>1, <4>2, <5>1 DEF Opening
          <6> QED
              BY <3>1, <5>1, <6>1
        <5>2. CASE i \in 1..Len(stdin)
          <6>1. PICK j \in 1..(i - 1) : IsOpen(stdin[j], d)
                BY <3>1, <4>1, <4>2, <5>2 DEF Opening
          <6>2. stdin'[j] = stdin[j]
                BY <3>1, <5>2
          <6> QED
              BY <6>1, <6>2
        <5> QED
            BY <3>1, <5>1, <5>2
      <4>3. d \in opened /\ docs[d] = 0 =>
               \E i \in 1..Len(stdin') : IsOpen(stdin'[i], d)
        <5> SUFFICES ASSUME d \in opened, docs[d] = 0
                     PROVE  \E i \in 1..Len(stdin') : IsOpen(stdin'[i], d)
            OBVIOUS
        <5>1. PICK i \in 1..Len(stdin) : IsOpen(stdin[i], d)
              BY <4>1 DEF Opening
        <5> QED
            BY <3>1, <5>1
      <4>4. \A i \in 1..Len(stdin') :
               IsOpen(stdin'[i], d) => i \in 1..Len(stdin) /\ stdin'[i] = stdin[i]
            BY <3>1, <4>1
      <4> QED
          BY <3>1, <4>1, <4>2, <4>3, <4>4 DEF Opening
    <3> QED
        BY <3>1, <3>2, <3>3, <3>4 DEF Documents
  <2> QED
      BY <1>4, <2>1, <2>2, <2>3 DEF Ask, SendRequest, Broken
<1>5. CASE ReadMessage
  <2>1. UNCHANGED <<call, opened, docs, pending>> /\ pc = "read"
        BY <1>5 DEF ReadMessage, serverVars
  <2>2. stdin' = stdin \/ Write(Msg("initialized", 0, None, 0))
        BY <1>5 DEF ReadMessage, Broken
  <2> QED
      BY <1>1, <2>1, <2>2, WriteOther DEF Msg
<1>6. CASE SendExit
      BY <1>1, <1>6, WriteOther DEF SendExit, Broken, Msg, serverVars
<1>7. CASE ServerRead
  <2>1. /\ stdin # <<>> /\ Head(stdin) = stdin[1] /\ stdin[1] \in Message(ToServer)
        /\ Len(stdin) \in Nat \ {0} /\ Len(stdin') = Len(stdin) - 1
        /\ \A i \in 1..Len(stdin') : stdin'[i] = stdin[i + 1]
        /\ UNCHANGED <<pc, call, opened>>
        BY <1>7, PipeHeads DEF ServerRead, clientVars
  <2>2. /\ pending' = IF stdin[1].kind \in Questions THEN pending \cup {stdin[1]} ELSE pending
        /\ docs' = IF stdin[1].kind = "open" THEN [docs EXCEPT ![stdin[1].doc] = stdin[1].text]
                   ELSE docs
        BY <1>7, <2>1 DEF ServerRead
  <2>3. ASSUME NEW d \in Docs PROVE Opening(d)'
    <3>1. CASE IsOpen(stdin[1], d)
      <4>1. docs'[d] # 0 /\ pending' = pending
            BY <2>1, <2>2, <3>1 DEF IsOpen, Documents, SessionTypeOK, Questions
      <4>2. d \in opened
            BY <2>1, <3>1 DEF Documents, Opening
      <4>3. \A i \in 1..Len(stdin') : ~ IsOpen(stdin'[i], d)
            BY <2>1, <3>1 DEF Documents, Opening
      <4> QED
          BY <2>1, <4>1, <4>2, <4>3 DEF Opening
    <3>2. CASE ~ IsOpen(stdin[1], d)
      <4>1. docs'[d] = docs[d]
            BY <2>2, <3>2 DEF IsOpen, SessionTypeOK
      <4>2. ASSUME NEW m \in pending', m.doc = d PROVE docs[d] # 0
        <5>1. CASE m \in pending
              BY <4>2, <5>1 DEF Documents, Opening
        <5>2. CASE m = stdin[1] /\ m.kind \in Questions
          <6>1. IsQuery(stdin[1], d)
                BY <2>1, <4>2, <5>2, SessionAssumption DEF IsQuery, Questions, Documents
          <6> QED
              BY <2>1, <6>1 DEF Documents, Opening
        <5> QED
            BY <2>2, <4>2, <5>1, <5>2
      <4>3. d \in opened /\ docs[d] = 0 =>
               \E i \in 1..Len(stdin') : IsOpen(stdin'[i], d)
        <5> SUFFICES ASSUME d \in opened, docs[d] = 0
                     PROVE  \E i \in 1..Len(stdin') : IsOpen(stdin'[i], d)
            OBVIOUS
        <5>1. PICK i \in 1..Len(stdin) : IsOpen(stdin[i], d)
              BY DEF Documents, Opening
        <5>2. i - 1 \in 1..Len(stdin') /\ stdin'[i - 1] = stdin[i]
              BY <2>1, <3>2, <5>1
        <5> QED
            BY <5>1, <5>2
      <4>4. ASSUME NEW i \in 1..Len(stdin'), IsQuery(stdin'[i], d), docs[d] = 0
            PROVE  \E j \in 1..(i - 1) : IsOpen(stdin'[j], d)
        <5>1. PICK j \in 1..i : IsOpen(stdin[j], d)
              BY <2>1, <4>4 DEF Documents, Opening
        <5>2. j - 1 \in 1..(i - 1) /\ stdin'[j - 1] = stdin[j]
              BY <2>1, <3>2, <5>1
        <5> QED
            BY <5>1, <5>2
      <4>5. \A i, j \in 1..Len(stdin') :
               IsOpen(stdin'[i], d) /\ IsOpen(stdin'[j], d) => i = j
            BY <2>1 DEF Documents, Opening
      <4>6. /\ d \notin opened => docs[d] = 0
            /\ d \notin opened \/ docs[d] # 0 =>
                  \A i \in 1..Len(stdin') : ~ IsOpen(stdin'[i], d)
            BY <2>1 DEF Documents, Opening
      <4> QED
          BY <2>1, <4>1, <4>2, <4>3, <4>4, <4>5, <4>6 DEF Opening
    <3> QED
        BY <3>1, <3>2
  <2> QED
      BY <2>1, <2>3 DEF Documents
<1>8. ASSUME UNCHANGED vars \/ DropServer \/ CheckDeadline \/ ReadEnd \/ WaitForExit
             \/ Talks \/ ServerDies \/ Tick \/ \E d \in Docs : Edit(d)
      PROVE  Documents'
      BY <1>1, <1>8 DEF DropServer, CheckDeadline, ReadEnd, WaitForExit, Talks, ServerAnswer,
         ServerNotify, ServerAsk, ServerDies, Tick, Edit, vars, clientVars, serverVars,
         AfterFailure
<1> QED
    BY <1>2, <1>3, <1>4, <1>5, <1>6, <1>7, <1>8 DEF Next, ClientStep, Caller

\* didOpen goes out once for each document and before any question about it,
\* whoever asks and however often.
THEOREM OpenedOnceBeforeAsked == Spec => []OpenedBeforeAsked
<1>1. SessionInv /\ SessionInv' /\ Documents /\ [Next]_vars => Documents'
      BY DocumentsStep
<1>2. SessionInv /\ Documents => OpenedBeforeAsked
  <2> SUFFICES ASSUME SessionInv, Documents, NEW d \in Docs
               PROVE  LET Sent(kind) == {i \in DOMAIN stdin :
                                            stdin[i].kind = kind /\ stdin[i].doc = d}
                      IN  /\ \A i \in Sent("query") :
                                docs[d] # 0 \/ \E j \in Sent("open") : j < i
                          /\ \A m \in pending : m.doc = d => docs[d] # 0
                          /\ Cardinality(Sent("open")) <= IF docs[d] = 0 THEN 1 ELSE 0
      BY DEF OpenedBeforeAsked
  <2> DEFINE Sent(kind) == {i \in DOMAIN stdin : stdin[i].kind = kind /\ stdin[i].doc = d}
  <2>1. DOMAIN stdin = 1..Len(stdin) /\ Len(stdin) \in Nat /\ Opening(d)
        BY DEF SessionInv, SessionTypeOK, Documents
  <2>2. \A i \in Sent("query") : docs[d] # 0 \/ \E j \in Sent("open") : j < i
        BY <2>1 DEF Opening, IsOpen, IsQuery
  <2>3. Sent("open") = {} \/ (docs[d] = 0 /\ \E i : Sent("open") = {i})
    <3>1. CASE Sent("open") = {}
          BY <3>1
    <3>2. CASE Sent("open") # {}
      <4>1. PICK i \in 1..Len(stdin) : i \in Sent("open") /\ IsOpen(stdin[i], d)
            BY <2>1, <3>2 DEF IsOpen
      <4>2. docs[d] = 0
            BY <2>1, <4>1 DEF Opening
      <4>3. \A j \in 1..Len(stdin) : IsOpen(stdin[j], d) => j = i
            BY <2>1, <4>1 DEF Opening
      <4>4. \A j \in Sent("open") : j = i
            BY <2>1, <4>3 DEF IsOpen
      <4>5. Sent("open") = {i}
            BY <4>1, <4>4
      <4> QED
          BY <4>2, <4>5
    <3> QED
        BY <3>1, <3>2
  <2>4. Cardinality(Sent("open")) <= IF docs[d] = 0 THEN 1 ELSE 0
    <3>1. CASE Sent("open") = {}
      <4>1. Cardinality(Sent("open")) = 0
            BY <3>1, FS_EmptySet
      <4> QED
          BY <4>1
    <3>2. CASE docs[d] = 0 /\ \E i : Sent("open") = {i}
      <4>1. Cardinality(Sent("open")) = 1
            BY <3>2, FS_Singleton
      <4> QED
          BY <3>2, <4>1
    <3> QED
        BY <2>3, <3>1, <3>2
  <2> QED
      BY <2>1, <2>2, <2>4 DEF Opening
<1> QED
    BY DocumentsInit, SessionInvariant, <1>1, <1>2, PTL DEF Spec

-----------------------------------------------------------------------------
(* The order of the handshake and of the end *)

\* Before the session is on there is nothing but the initialize request, in one
\* place at a time.
NoAnswer == \A i \in 1..Len(stdout) : stdout[i].kind = "note"
Initialize == Msg("initialize", 1, None, 0)
Before ==
    /\ stdin = <<>> \/ stdin = <<Initialize>>
    /\ pending \subseteq {Initialize}
    /\ stdin # <<>> => pending = {}
    /\ \A i \in 1..Len(stdout) : stdout[i].kind # "ask"
    /\ stdin # <<>> \/ pending # {} \/ pc \in {"start", "ask"} => NoAnswer
    /\ pc \in {"start", "ask"} => stdin = <<>> /\ pending = {}

\* From then on nothing follows exit, and nothing else the shutdown request.
ThenOn ==
    /\ \A m \in pending : m.kind # "initialize"
    /\ \A m \in pending : m.kind = "shutdown" =>
          pc # "ask" /\ call.kind = "shutdown" /\ \A i \in 1..Len(stdin) : stdin[i].kind = "exit"
    /\ \A i \in 1..Len(stdin) :
          /\ stdin[i].kind # "initialize"
          /\ stdin[i].kind = "exit" => pc \in {"waiting", "over"}
          /\ stdin[i].kind = "shutdown" => pc # "ask" /\ call.kind = "shutdown"
    /\ \A i, j \in 1..Len(stdin) : i < j =>
          /\ stdin[j].kind # "initialized"
          /\ stdin[i].kind # "exit"
          /\ stdin[i].kind = "shutdown" => stdin[j].kind = "exit"
Handshake == IF met THEN ThenOn ELSE Before

LEMMA HandshakeInit == Init => Handshake
BY DEF Init, Handshake, Before, NoAnswer

\* The session is not on yet.
LEMMA BeforeStep ==
    ASSUME SessionInv, Before, ~ met, [Next]_vars PROVE Handshake'
<1> USE DEF SessionInv
<1>1. call.kind = "initialize"
      BY DEF Flow
<1>2. CASE /\ UNCHANGED <<stdin, stdout, pending, met>>
           /\ pc' \in {"start", "ask"} => pc \in {"start", "ask"}
      BY <1>2 DEF Handshake, Before, NoAnswer
<1>3. CASE Start
      BY <1>3 DEF Start, Handshake, Before, NoAnswer, serverVars
<1>4. CASE Ask
  <2>1. Msg(call.kind, call.id, call.doc, 0) = Initialize
        BY <1>1, <1>4 DEF Ask, Flow, Msg, Initialize
  <2>2. UNCHANGED <<stdout, pending, met>> /\ pending = {} /\ NoAnswer /\ stdin = <<>>
        BY <1>4 DEF Ask, serverVars, Before
  <2>3. pc' \notin {"start", "ask"}
        BY <1>1, <1>4 DEF Ask, SendRequest, AfterFailure
  <2>4. stdin' = <<>> \/ stdin' = <<Initialize>>
        BY <1>4, <2>1, <2>2 DEF Ask, SendRequest, Write, Broken
  <2> QED
      BY <2>2, <2>3, <2>4 DEF Handshake, Before, NoAnswer
<1>5. CASE ReadMessage
  <2>1. /\ stdout # <<>> /\ Head(stdout) = stdout[1] /\ Len(stdout) \in Nat \ {0}
        /\ Len(stdout') = Len(stdout) - 1
        /\ \A i \in 1..Len(stdout') : stdout'[i] = stdout[i + 1]
        /\ pending' = pending /\ pc = "read"
        BY <1>5, PipeHeads DEF ReadMessage, serverVars
  <2>2. pc' \notin {"start", "ask"}
        BY <1>1, <1>5 DEF ReadMessage, Concludes
  <2>3. /\ NoAnswer => NoAnswer'
        /\ \A i \in 1..Len(stdout') : stdout'[i].kind # "ask"
        BY <2>1 DEF NoAnswer, Before
  <2>4. CASE met' = met /\ stdin' = stdin
        BY <2>1, <2>2, <2>3, <2>4 DEF Handshake, Before
  <2>5. CASE Matches(stdout[1]) /\ Write(Msg("initialized", 0, None, 0)) /\ met'
    <3>1. stdin = <<>> /\ pending = {}
          BY <2>1, <2>5 DEF Matches, NoAnswer, Before
    <3>2. stdin' = <<Msg("initialized", 0, None, 0)>>
          BY <2>5, <3>1 DEF Write
    <3> QED
        BY <2>1, <2>5, <3>1, <3>2 DEF Handshake, ThenOn, Msg
  <2> QED
      BY <1>5, <2>1, <2>4, <2>5 DEF ReadMessage, Broken
<1>6. CASE ServerRead
  <2>1. UNCHANGED <<pc, met, stdout>> /\ stdin # <<>> /\ stdin' = Tail(stdin)
        BY <1>6 DEF ServerRead, clientVars
  <2>2. stdin = <<Initialize>> /\ pending = {}
        BY <2>1 DEF Before
  <2>3. Head(stdin) = Initialize /\ stdin' = <<>>
        BY <2>1, <2>2
  <2>4. pending' = {Initialize} /\ NoAnswer
        BY <1>6, <2>2, <2>3 DEF ServerRead, Initialize, Msg, Questions, Before
  <2>5. pc \notin {"start", "ask"}
        BY <2>1 DEF Before
  <2> QED
      BY <2>1, <2>3, <2>4, <2>5 DEF Handshake, Before, NoAnswer
<1>7. CASE ServerAnswer
  <2>1. PICK m \in pending, kind \in {"answer", "failure"} :
           /\ ServerWrites(Msg(kind, m.id, m.doc, IF m.doc = None THEN 0 ELSE docs[m.doc]))
           /\ pending' = pending \ {m}
        BY <1>7 DEF ServerAnswer
  <2>2. stdin = <<>> /\ pending' = {} /\ UNCHANGED <<pc, met, stdin>>
        BY <1>7, <2>1 DEF ServerAnswer, Before, clientVars
  <2>3. pc \notin {"start", "ask"}
        BY <2>1 DEF Before
  <2>4. \A i \in 1..Len(stdout') : stdout'[i].kind # "ask"
        BY <2>1, ServerWritten DEF Before, Msg
  <2> QED
      BY <2>2, <2>3, <2>4 DEF Handshake, Before
<1>8. CASE ServerNotify
  <2>1. /\ UNCHANGED <<pc, met, stdin, pending>>
        /\ ServerWrites(NoMsg) /\ NoMsg.kind = "note"
        BY <1>8 DEF ServerNotify, clientVars, serverVars, NoMsg, Msg
  <2>2. (NoAnswer => NoAnswer') /\ \A i \in 1..Len(stdout') : stdout'[i].kind # "ask"
        BY <2>1, ServerWritten DEF Before, NoAnswer
  <2> QED
      BY <2>1, <2>2 DEF Handshake, Before
<1>9. ASSUME OpenDocument \/ Shutdown \/ DropServer \/ SendExit \/ WaitForExit \/ ServerAsk
             \/ \E d \in Docs : Query(d)
      PROVE  FALSE
      BY <1>1, <1>9 DEF OpenDocument, Shutdown, DropServer, SendExit, WaitForExit, ServerAsk,
         Query, Flow
<1>10. ASSUME UNCHANGED vars \/ CheckDeadline \/ ReadEnd \/ ServerDies \/ Tick
             \/ \E d \in Docs : Edit(d)
      PROVE  Handshake'
      BY <1>1, <1>2, <1>10 DEF CheckDeadline, ReadEnd, AfterFailure, ServerDies, Tick, Edit,
         vars, clientVars, serverVars
<1> QED
    BY <1>3, <1>4, <1>5, <1>6, <1>7, <1>8, <1>9, <1>10 DEF Next, ClientStep, Caller, Talks

\* The session is on: a message may be written unless an exit has been.
LEMMA WriteThenOn ==
    ASSUME SessionInv, ThenOn, NEW m, Write(m), UNCHANGED pending,
           m.kind \notin {"initialize", "initialized"}, pc \notin {"waiting", "over"},
           m.kind = "exit" => pc' = "waiting",
           m.kind = "shutdown" => pc = "ask" /\ call.kind = "shutdown",
           pc = "ask" \/ call.kind # "shutdown" \/ m.kind = "exit",
           pc' # "ask" \/ call.kind # "shutdown", call' = call
    PROVE  ThenOn'
<1>1. /\ Len(stdin) \in Nat /\ Len(stdin') = Len(stdin) + 1
      /\ \A i \in 1..Len(stdin) : stdin'[i] = stdin[i]
      /\ stdin'[Len(stdin) + 1] = m
      BY Written DEF SessionInv
<1>2. \A i \in 1..Len(stdin) : stdin[i].kind # "exit"
      BY DEF ThenOn
<1>3. m.kind = "exit" \/ \A i \in 1..Len(stdin) : stdin[i].kind # "shutdown"
      BY DEF ThenOn
<1>4. ASSUME NEW q \in pending, q.kind = "shutdown"
      PROVE  /\ pc' # "ask" /\ call.kind = "shutdown"
             /\ \A i \in 1..Len(stdin') : stdin'[i].kind = "exit"
  <2>1. pc # "ask" /\ call.kind = "shutdown" /\ \A i \in 1..Len(stdin) : stdin[i].kind = "exit"
        BY <1>4 DEF ThenOn
  <2> QED
      BY <1>1, <2>1
<1>5. ASSUME NEW i \in 1..Len(stdin')
      PROVE  /\ stdin'[i].kind # "initialize"
             /\ stdin'[i].kind = "exit" => pc' = "waiting"
             /\ stdin'[i].kind = "shutdown" => pc' # "ask" /\ call.kind = "shutdown"
      BY <1>1, <1>2, <1>5 DEF ThenOn
<1>6. ASSUME NEW i \in 1..Len(stdin'), NEW j \in 1..Len(stdin'), i < j
      PROVE  /\ stdin'[j].kind # "initialized"
             /\ stdin'[i].kind # "exit"
             /\ stdin'[i].kind = "shutdown" => stdin'[j].kind = "exit"
  <2>1. stdin'[i] = stdin[i] /\ i \in 1..Len(stdin)
        BY <1>1, <1>6
  <2>2. CASE j = Len(stdin) + 1
        BY <1>1, <1>2, <1>3, <2>1, <2>2
  <2>3. CASE j \in 1..Len(stdin)
        BY <1>1, <1>6, <2>1, <2>3 DEF ThenOn
  <2> QED
      BY <1>1, <2>2, <2>3
<1> QED
    BY <1>4, <1>5, <1>6 DEF ThenOn

LEMMA ThenOnStep ==
    ASSUME SessionInv, ThenOn, met, [Next]_vars PROVE ThenOn'
<1> USE DEF SessionInv
<1>1. CASE /\ UNCHANGED <<stdin, pending, call>>
           /\ pc' = "ask" => pc = "ask" \/ call.kind # "shutdown"
           /\ (pc \in {"waiting", "over"} => pc' \in {"waiting", "over"})
      BY <1>1 DEF ThenOn
<1>2. CASE Start \/ Shutdown \/ \E d \in Docs : Query(d)
  <2>1. /\ UNCHANGED <<stdin, pending>> /\ pc = "free" /\ call.kind # "shutdown"
        BY <1>2 DEF Start, Shutdown, Query, Flow, serverVars, SessionTypeOK, Message, Questions
  <2> QED
      BY <2>1 DEF ThenOn
<1>3. CASE OpenDocument
      BY <1>1, <1>3, WriteThenOn DEF OpenDocument, Broken, Flow, Msg, serverVars
<1>4. CASE Ask
  <2>1. call.kind \in {"query", "shutdown"} /\ call' = call /\ pending' = pending /\ pc = "ask"
        BY <1>4 DEF Ask, Flow, SessionTypeOK, Message, Questions, serverVars
  <2>2. CASE Write(Msg(call.kind, call.id, call.doc, 0)) /\ pc' = "check"
        BY <2>1, <2>2, WriteThenOn DEF Msg
  <2>3. CASE UNCHANGED stdin
        BY <1>1, <2>1, <2>3
  <2> QED
      BY <1>4, <2>2, <2>3 DEF Ask, SendRequest, Broken
<1>5. CASE ReadMessage
      BY <1>1, <1>5 DEF ReadMessage, Concludes, Flow, serverVars
<1>6. CASE SendExit
      BY <1>1, <1>6, WriteThenOn DEF SendExit, Broken, Msg, serverVars
<1>7. CASE ServerRead
  <2>1. /\ stdin # <<>> /\ Head(stdin) = stdin[1]
        /\ Len(stdin) \in Nat \ {0} /\ Len(stdin') = Len(stdin) - 1
        /\ \A i \in 1..Len(stdin') : stdin'[i] = stdin[i + 1]
        /\ UNCHANGED <<pc, call>>
        BY <1>7, PipeHeads DEF ServerRead, clientVars
  <2>2. pending' \subseteq pending \cup {stdin[1]}
        BY <1>7, <2>1 DEF ServerRead
  <2>3. stdin[1].kind # "initialize"
        BY <2>1 DEF ThenOn
  <2>4. stdin[1].kind = "shutdown" =>
           pc # "ask" /\ call.kind = "shutdown" /\ \A i \in 1..Len(stdin') : stdin'[i].kind = "exit"
        BY <2>1 DEF ThenOn
  <2>5. \A m \in pending' : m.kind # "initialize"
        BY <2>2, <2>3 DEF ThenOn
  <2>6. \A m \in pending' : m.kind = "shutdown" =>
           pc # "ask" /\ call.kind = "shutdown" /\ \A i \in 1..Len(stdin') : stdin'[i].kind = "exit"
    <3>1. SUFFICES ASSUME NEW m \in pending, m.kind = "shutdown"
                   PROVE  pc # "ask" /\ call.kind = "shutdown"
                          /\ \A i \in 1..Len(stdin') : stdin'[i].kind = "exit"
          BY <2>2, <2>4
    <3>2. \A i \in 1..Len(stdin') : i + 1 \in 1..Len(stdin)
          BY <2>1
    <3> QED
        BY <2>1, <3>1, <3>2 DEF ThenOn
  <2>7. \A i \in 1..Len(stdin') : i + 1 \in 1..Len(stdin) /\ stdin'[i] = stdin[i + 1]
        BY <2>1
  <2>8. \A i \in 1..Len(stdin') :
           /\ stdin'[i].kind # "initialize"
           /\ stdin'[i].kind = "exit" => pc \in {"waiting", "over"}
           /\ stdin'[i].kind = "shutdown" => pc # "ask" /\ call.kind = "shutdown"
        BY <2>7 DEF ThenOn
  <2>9. ASSUME NEW i \in 1..Len(stdin'), NEW j \in 1..Len(stdin'), i < j
        PROVE  /\ stdin'[j].kind # "initialized"
               /\ stdin'[i].kind # "exit"
               /\ stdin'[i].kind = "shutdown" => stdin'[j].kind = "exit"
    <3>1. /\ i + 1 \in 1..Len(stdin) /\ j + 1 \in 1..Len(stdin) /\ i + 1 < j + 1
          /\ stdin'[i] = stdin[i + 1] /\ stdin'[j] = stdin[j + 1]
          BY <2>7, <2>9
    <3> QED
        BY <3>1 DEF ThenOn
  <2> QED
      BY <2>1, <2>5, <2>6, <2>8, <2>9 DEF ThenOn
<1>8. CASE Talks
  <2>1. UNCHANGED <<pc, call, stdin>> /\ pending' \subseteq pending
        BY <1>8 DEF Talks, ServerAnswer, ServerNotify, ServerAsk, clientVars, serverVars
  <2> QED
      BY <2>1 DEF ThenOn
<1>9. ASSUME UNCHANGED vars \/ DropServer \/ CheckDeadline \/ ReadEnd \/ WaitForExit
             \/ ServerDies \/ Tick \/ \E d \in Docs : Edit(d)
      PROVE  ThenOn'
      BY <1>1, <1>9 DEF DropServer, CheckDeadline, ReadEnd, AfterFailure, WaitForExit,
         ServerDies, Tick, Edit, vars, clientVars, serverVars
<1> QED
    BY <1>2, <1>3, <1>4, <1>5, <1>6, <1>7, <1>8, <1>9 DEF Next, ClientStep, Caller

LEMMA HandshakeStep ==
    ASSUME SessionInv, Handshake, [Next]_vars PROVE Handshake'
<1>1. CASE ~ met
      BY <1>1, BeforeStep DEF Handshake
<1>2. CASE met
  <2>1. met'
        BY <1>2 DEF Next, ClientStep, Caller, Talks, Start, Shutdown, Query, OpenDocument, Ask,
           DropServer, CheckDeadline, ReadMessage, ReadEnd, SendExit, WaitForExit, ServerRead,
           ServerAnswer, ServerNotify, ServerAsk, ServerDies, Tick, Edit, vars, clientVars
  <2> QED
      BY <1>2, <2>1, ThenOnStep DEF Handshake
<1> QED
    BY <1>1, <1>2

\* The server is told of nothing before initialize and of nothing but exit
\* after shutdown, whichever requests fail or time out.
THEOREM HandshakeInOrder == Spec => []OrderlyHandshake
<1>1. SessionInv /\ SessionInv' /\ Handshake /\ [Next]_vars => Handshake'
      BY HandshakeStep
<1>2. SessionInv /\ Handshake => OrderlyHandshake
  <2> SUFFICES ASSUME SessionInv, Handshake PROVE OrderlyHandshake
      OBVIOUS
  <2>1. DOMAIN stdin = 1..Len(stdin) /\ Len(stdin) \in Nat
        BY DEF SessionInv, SessionTypeOK
  <2>2. CASE met
        BY <2>1, <2>2 DEF Handshake, ThenOn, OrderlyHandshake
  <2>3. CASE ~ met
    <3>1. stdin = <<>> \/ stdin = <<Initialize>>
          BY <2>3 DEF Handshake, Before
    <3>2. CASE stdin = <<>>
          BY <2>3, <3>2 DEF Handshake, Before, OrderlyHandshake
    <3>3. CASE stdin = <<Initialize>>
          BY <2>3, <3>3 DEF Handshake, Before, OrderlyHandshake
    <3> QED
        BY <3>1, <3>2, <3>3
  <2> QED
      BY <2>2, <2>3
<1> QED
    BY HandshakeInit, SessionInvariant, <1>1, <1>2, PTL DEF Spec
=============================================================================
