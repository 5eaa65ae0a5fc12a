----------------------------- MODULE OneShotProofs -----------------------------
(***************************************************************************)
(* A one-shot query, for any time limits, any number of phases and any      *)
(* length of the pipe: no server is left over, and one that announces its   *)
(* work in time is asked when the work is done.                             *)
(***************************************************************************)
EXTENDS OneShot, TLAPS

-----------------------------------------------------------------------------
(* Sequences of messages *)

\* Reading takes the first message and leaves the others in place.
LEMMA Consume ==
    ASSUME NEW s \in Seq(Message), s # <<>>
    PROVE  /\ Head(s) \in Message /\ Head(s) = s[1]
           /\ Tail(s) \in Seq(Message)
           /\ Len(s) \in Nat \ {0} /\ Len(Tail(s)) = Len(s) - 1
           /\ \A i \in 1..Len(Tail(s)) : Tail(s)[i] = s[i + 1]
OBVIOUS

\* Sending puts one message behind the others.
LEMMA Send ==
    ASSUME NEW s \in Seq(Message), NEW m \in Message
    PROVE  /\ Append(s, m) \in Seq(Message)
           /\ Len(s) \in Nat /\ Len(Append(s, m)) = Len(s) + 1
           /\ \A i \in 1..Len(s) : Append(s, m)[i] = s[i]
           /\ Append(s, m)[Len(s) + 1] = m
           /\ Append(s, m) # <<>>
OBVIOUS

LEMMA MessageFields ==
    ASSUME NEW kind \in {"create", "begin", "end", "report", "note"}, NEW t \in Tokens
    PROVE  /\ Msg(kind, t) \in Message
           /\ Msg(kind, t).kind = kind /\ Msg(kind, t).token = t
BY DEF Msg, Message

-----------------------------------------------------------------------------
(* Types *)

\* Truth values, ...
Flags ==
    /\ seen \in BOOLEAN /\ new \in BOOLEAN /\ late \in BOOLEAN
    /\ expired \in BOOLEAN
    /\ met \in BOOLEAN /\ alive \in BOOLEAN /\ owed \in BOOLEAN
    /\ indexed \in BOOLEAN /\ ready \in BOOLEAN /\ honest \in BOOLEAN

\* ... and everything else, apart: the provers like them so.
Limits ==
    /\ pc \in {"start", "open", "wait", "drain", "query", "reply", "shutdown", "exit",
              "over"}
    /\ now \in 0..IndexWait
    /\ pollEnd \in 0..(IndexWait + 1) /\ drainEnd \in 0..(IndexWait + Drain)
    /\ active \subseteq Tokens /\ work \subseteq Tokens
    /\ result \in {"none", "complete", "partial", "error"}
    /\ result = "none" <=> pc \notin {"shutdown", "exit", "over"}
    /\ stdout \in Seq(Message) /\ says \in 0..MaxSays
    /\ quiet \in 0..Drain

LEMMA TypesAreBoth == OneShotTypeOK <=> Flags /\ Limits
BY DEF OneShotTypeOK, Flags, Limits

\* Once the wait is over.
AfterWait == \/ Query \/ Respond \/ SkipMessage \/ ReadEnd \/ WaitForExit
             \/ Interrupt \/ Deadline

LEMMA AfterTheWait ==
    ASSUME AfterWait
    PROVE  /\ UNCHANGED <<clockVars, seen, active, new, late, met, says, work, owed,
                          indexed, quiet, honest>>
           /\ alive' = alive \/ alive' = FALSE
           /\ ready' = ready \/ ready' = indexed
           /\ pc \in {"query", "reply", "shutdown", "exit"}
           /\ pc' \in {"reply", "shutdown", "exit", "over"}
           /\ pc' = "reply" =>
                 (pc = "reply" /\ ready' = ready) \/ (pc = "query" /\ ready' = indexed)
           /\ pc' = "over" => ~ alive'
           /\ pc' \in {"reply", pc} \/ pc # "reply" => result' = result
           /\ pc = "reply" /\ pc' # "reply" =>
                 pc' = "shutdown" /\ result' \in {"complete", "partial", "error"}
<1> USE DEF serverVars, clockVars, clientVars
<1>1. CASE Query
      BY <1>1 DEF Query
<1>2. CASE Respond
  <2>1. PICK r \in {"complete", "error", "partial"} : Return(r)
        BY <1>2 DEF Respond
  <2> QED
      BY <1>2, <2>1 DEF Respond, Return, Requesting
<1>0. ASSUME Requesting,
             UNCHANGED <<clockVars, pc, seen, active, new, late, result, met, ready,
                         serverVars>>
      PROVE  /\ UNCHANGED <<clockVars, seen, active, new, late, met, says, work, owed,
                            indexed, quiet, honest, alive, ready, result>>
             /\ pc' = pc /\ pc \in {"reply", "shutdown"}
      BY <1>0 DEF Requesting
<1>3. CASE SkipMessage
  <2>1. CASE expired
        BY <1>3, <2>1 DEF SkipMessage, Return, Requesting
  <2>2. CASE ~ expired
        BY <1>0, <1>3, <2>2 DEF SkipMessage
  <2> QED
      BY <2>1, <2>2
<1>4. CASE ReadEnd
      BY <1>4 DEF ReadEnd, Return, Requesting
<1>5. CASE WaitForExit
      BY <1>5 DEF WaitForExit
<1>6. CASE Interrupt
      BY <1>0, <1>6 DEF Interrupt
<1>7. CASE Deadline
      BY <1>0, <1>7 DEF Deadline
<1> QED
    BY <1>1, <1>2, <1>3, <1>4, <1>5, <1>6, <1>7 DEF AfterWait

LEMMA PipeAfterTheWait ==
    ASSUME AfterWait
    PROVE  \/ stdout' = stdout
           \/ stdout # <<>> /\ stdout' = Tail(stdout)
           \/ \E t \in Tokens : stdout' = Append(stdout, Msg("note", t))
BY DEF AfterWait, Query, Respond, SkipMessage, ReadEnd, WaitForExit, Interrupt, Deadline

LEMMA TypesInit == Init => Flags /\ Limits
<1>1. Init => Flags
      BY DEF Init, Flags
<1>2. Init => Limits
      BY OneShotAssumption DEF Init, Limits
<1> QED
    BY <1>1, <1>2

LEMMA FlagsStep == Flags /\ [Next]_vars => Flags'
<1> SUFFICES ASSUME Flags, [Next]_vars PROVE Flags'
    OBVIOUS
<1> USE DEF Flags
<1>1. CASE UNCHANGED vars
      BY <1>1 DEF vars, clientVars, serverVars
<1>2. CASE Start
      BY <1>2 DEF Start
<1>7. CASE OpenDocument
      BY <1>7 DEF OpenDocument
<1>8. CASE AfterWait
  <2>1. expired' \in BOOLEAN
        BY <1>8 DEF AfterWait, Query, Respond, SkipMessage, ReadEnd, WaitForExit, Interrupt,
           Deadline, Return, clientVars
  <2> QED
      BY <1>8, <2>1, AfterTheWait
<1>3. CASE WaitMessage \/ DrainMessage
      BY <1>3 DEF WaitMessage, DrainMessage, AnswerCreate
<1>4. CASE WaitQuiet \/ WaitOver \/ DrainOver
      BY <1>4 DEF WaitQuiet, WaitOver, DrainOver, Proceed, serverVars
<1>5. CASE Server /\ ~ AfterWait
  <2>1. /\ UNCHANGED <<seen, new, late, expired, met, ready, honest>>
        /\ alive' \in {alive, FALSE} /\ owed' \in {owed, TRUE} /\ indexed' \in {indexed, TRUE}
    <3>1. CASE FinishIndex \/ ServerDies
          BY <3>1 DEF FinishIndex, ServerDies, clientVars
    <3>2. ASSUME NEW t \in Tokens, AskToken(t) \/ BeginPhase(t) \/ EndPhase(t) \/ Chat(t)
          PROVE  UNCHANGED <<seen, new, late, expired, met, ready, honest, alive, indexed>>
                 /\ owed' \in {owed, TRUE}
          BY <3>2 DEF AskToken, BeginPhase, EndPhase, Chat, clientVars
    <3> QED
        BY <1>5, <3>1, <3>2 DEF Server, AfterWait
  <2> QED
      BY <2>1
<1>6. CASE Tick
      BY <1>6 DEF Tick, clientVars
<1> QED
    BY <1>1, <1>2, <1>3, <1>4, <1>5, <1>6, <1>7, <1>8 DEF Next, Client, AfterWait

LEMMA LimitsStep == Limits /\ [Next]_vars => Limits'
<1> SUFFICES ASSUME Limits, [Next]_vars PROVE Limits'
    OBVIOUS
<1> USE OneShotAssumption DEF Limits
<1>1. CASE UNCHANGED vars
      BY <1>1 DEF vars, clockVars, clientVars, serverVars
<1>2. CASE Start \/ OpenDocument
      BY <1>2 DEF Start, OpenDocument, Over, clockVars
<1>3. CASE WaitMessage
  <2>1. Head(stdout) \in Message /\ Tail(stdout) \in Seq(Message)
        BY <1>3, Consume DEF WaitMessage
  <2>2. active' \subseteq Tokens
        BY <1>3, <2>1 DEF WaitMessage, Track, Message
  <2>3. pollEnd' \in 0..(IndexWait + 1)
        BY <1>3 DEF WaitMessage, InTime
  <2> QED
      BY <1>3, <2>1, <2>2, <2>3 DEF WaitMessage
<1>4. CASE WaitQuiet
      BY <1>4 DEF WaitQuiet, Proceed, InTime, serverVars
<1>5. CASE WaitOver
      BY <1>5 DEF WaitOver, Proceed, InTime, serverVars
<1>6. CASE DrainMessage
  <2>1. Head(stdout) \in Message /\ Tail(stdout) \in Seq(Message)
        BY <1>6, Consume DEF DrainMessage
  <2>2. active' \subseteq Tokens /\ pc' \in {"wait", "drain"}
        BY <1>6, <2>1 DEF DrainMessage, Message
  <2>3. /\ pollEnd' \in 0..(IndexWait + 1) /\ drainEnd' \in 0..(IndexWait + Drain)
        BY <1>6 DEF DrainMessage, InTime
  <2> QED
      BY <1>6, <2>1, <2>2, <2>3 DEF DrainMessage
<1>7. CASE DrainOver
      BY <1>7 DEF DrainOver, Proceed, InTime, serverVars
<1>8. CASE AfterWait
  <2>1. /\ UNCHANGED <<now, pollEnd, drainEnd, active, says, work, quiet>>
        /\ pc \in {"query", "reply", "shutdown", "exit"}
        /\ pc' \in {"reply", "shutdown", "exit", "over"}
        /\ pc' = "reply" => pc \in {"query", "reply"}
        /\ pc' \in {"reply", pc} \/ pc # "reply" => result' = result
        /\ pc = "reply" /\ pc' # "reply" =>
              pc' = "shutdown" /\ result' \in {"complete", "partial", "error"}
        BY <1>8, AfterTheWait DEF clockVars
  <2>2. stdout' \in Seq(Message)
    <3>1. ASSUME NEW t \in Tokens PROVE Append(stdout, Msg("note", t)) \in Seq(Message)
          BY Send, MessageFields
    <3>2. stdout # <<>> => Tail(stdout) \in Seq(Message)
          BY Consume
    <3> QED
        BY <1>8, <3>1, <3>2, PipeAfterTheWait
  <2>3. pc = "query" => pc' = "reply"
        BY <1>8 DEF AfterWait, Query, Respond, SkipMessage, ReadEnd, WaitForExit, Interrupt,
           Deadline, Requesting
  <2> QED
      BY <2>1, <2>2, <2>3
<1>9. CASE FinishIndex \/ ServerDies
      BY <1>9 DEF FinishIndex, ServerDies, clockVars, clientVars
<1>10. ASSUME NEW t \in Tokens, AskToken(t) \/ BeginPhase(t) \/ EndPhase(t) \/ Chat(t)
       PROVE  Limits'
  <2>1. ASSUME NEW kind \in {"create", "begin", "end", "report", "note"}, Say(kind, t)
        PROVE  stdout' \in Seq(Message) /\ says' \in 0..MaxSays
        BY <2>1, Send, MessageFields DEF Say
  <2>2. stdout' \in Seq(Message) /\ says' \in 0..MaxSays
        BY <1>10, <2>1 DEF AskToken, BeginPhase, EndPhase, Chat
  <2>3. work' \subseteq Tokens /\ quiet' \in 0..Drain
        BY <1>10 DEF AskToken, BeginPhase, EndPhase, Chat
  <2> QED
      BY <1>10, <2>2, <2>3 DEF AskToken, BeginPhase, EndPhase, Chat, clockVars, clientVars
<1>11. CASE Tick
       BY <1>11 DEF Tick, InTime, clientVars
<1> QED
    BY <1>1, <1>2, <1>3, <1>4, <1>5, <1>6, <1>7, <1>8, <1>9, <1>10, <1>11
    DEF Next, Client, Server, AfterWait

LEMMA TypesAlways == Spec => [](Flags /\ Limits)
BY TypesInit, FlagsStep, LimitsStep, PTL DEF Spec

\* Polls, drains and the server's messages stay within what the limits allow.
THEOREM OneShotTypeCorrect == Spec => []OneShotTypeOK
BY TypesAreBoth, TypesAlways, PTL

-----------------------------------------------------------------------------
(* No server is left over *)

\* Every return ends the process, once there is a session to drop.
Ended ==
    /\ pc = "start" => ~ met
    /\ pc = "over" /\ met => ~ alive

LEMMA EndedStep == Ended /\ [Next]_vars => Ended'
<1> SUFFICES ASSUME Ended, [Next]_vars PROVE Ended'
    OBVIOUS
<1> USE DEF Ended
<1>1. CASE UNCHANGED vars
      BY <1>1 DEF vars, clientVars, serverVars
<1>2. CASE Start \/ OpenDocument
      BY <1>2 DEF Start, OpenDocument, Over
<1>3. CASE WaitMessage \/ WaitQuiet \/ WaitOver \/ DrainMessage \/ DrainOver
      BY <1>3 DEF WaitMessage, WaitQuiet, WaitOver, DrainMessage, DrainOver, Proceed
<1>4. CASE (Server /\ ~ AfterWait) \/ Tick
      BY <1>4 DEF Server, AfterWait, Tick, FinishIndex, ServerDies, AskToken, BeginPhase,
         EndPhase, Chat, clientVars
<1>5. CASE AfterWait
      BY <1>5, AfterTheWait
<1> QED
    BY <1>1, <1>2, <1>3, <1>4, <1>5 DEF Next, Client, AfterWait

\* Whichever step fails, a server that was spoken to is gone at the end.
THEOREM NoServerStays == Spec => []NoServerLeftRunning
<1>1. Init => Ended
      BY DEF Init, Ended
<1>2. Ended => NoServerLeftRunning
      BY DEF Ended, NoServerLeftRunning
<1> QED
    BY <1>1, <1>2, EndedStep, PTL DEF Spec

-----------------------------------------------------------------------------
(* A server that announces its work *)

Loop == {"start", "open", "wait", "drain"}

\* Some message that has not been read is of one of these kinds.
Pending(kinds) == \E i \in 1..Len(stdout) : stdout[i].kind \in kinds

\* The phases after a message, where the phases before it are s.
After(m, s) == CASE m.kind = "begin" -> s \cup {m.token}
                 [] m.kind = "end"   -> s \ {m.token}
                 [] OTHER            -> s

\* What the messages in the pipe lead from and to; a phase that ends is one.
Leads(h) ==
    /\ h \in [0..Len(stdout) -> SUBSET Tokens]
    /\ h[0] = active /\ h[Len(stdout)] = work
    /\ \A i \in 1..Len(stdout) :
          /\ h[i] = After(stdout[i], h[i - 1])
          /\ stdout[i].kind = "end" => stdout[i].token \in h[i - 1]

\* What cq believes and what is on its way make up what the server does.
Informed ==
    /\ owed => ~ indexed
    /\ owed /\ pc \in Loop \cup {"query"} => Pending({"create"})
    /\ pc \in Loop => \E h \in [0..Len(stdout) -> SUBSET Tokens] : Leads(h)
    /\ pc \in {"start", "open"} =>
          stdout = <<>> /\ active = {} /\ work = {} /\ ~ seen /\ now = 0
    /\ pc = "wait" /\ ~ seen => active = {}
    /\ pc = "drain" => active = {} /\ seen
    /\ pc = "drain" /\ ~ Pending({"begin"}) => work = {}

\* How long the server may have been silent at each point of the loop, and
\* what that says of one that is honest.
Timed ==
    /\ pc = "wait" =>
          /\ pollEnd >= 1
          /\ now >= pollEnd /\ stdout = <<>> => quiet >= 1
          /\ honest /\ ~ seen /\ now >= 1 /\ now >= Grace => indexed
    /\ pc = "drain" =>
          /\ ~ new /\ ~ Pending({"begin", "create"}) =>
                quiet >= Drain \/ quiet + drainEnd > Drain + now
          /\ honest /\ ~ new /\ now >= drainEnd => indexed
    /\ pc \in {"query", "reply"} /\ honest /\ alive /\ ~ late => indexed
    /\ pc = "reply" /\ honest /\ alive /\ ~ late => ready

\* One message: what was true of the pipe is true of what is left of it.
LEMMA LeadsOn ==
    ASSUME Limits, stdout # <<>>, stdout' = Tail(stdout), work' = work,
           active' = After(Head(stdout), active),
           NEW h \in [0..Len(stdout) -> SUBSET Tokens], Leads(h)
    PROVE  \E g \in [0..Len(stdout') -> SUBSET Tokens] : Leads(g)'
<1> DEFINE n == Len(stdout)
           g == [i \in 0..(n - 1) |-> h[i + 1]]
<1>1. /\ n \in Nat \ {0} /\ Len(stdout') = n - 1 /\ Head(stdout) = stdout[1]
      /\ \A i \in 1..(n - 1) : stdout'[i] = stdout[i + 1]
      BY Consume DEF Limits
<1>2. g \in [0..Len(stdout') -> SUBSET Tokens]
      BY <1>1
<1>3. g[0] = active'
      BY <1>1 DEF Leads
<1>4. g[Len(stdout')] = work'
      BY <1>1 DEF Leads
<1>5. ASSUME NEW i \in 1..Len(stdout')
      PROVE  /\ g[i] = After(stdout'[i], g[i - 1])
             /\ stdout'[i].kind = "end" => stdout'[i].token \in g[i - 1]
  <2>1. g[i] = h[i + 1] /\ g[i - 1] = h[i] /\ i + 1 \in 1..n /\ (i + 1) - 1 = i
        BY <1>1
  <2> QED
      BY <1>1, <2>1 DEF Leads
<1>6. \A i \in 1..Len(stdout') :
         /\ g[i] = After(stdout'[i], g[i - 1])
         /\ stdout'[i].kind = "end" => stdout'[i].token \in g[i - 1]
      BY <1>5
<1> HIDE DEF g
<1> QED
    BY <1>2, <1>3, <1>4, <1>6 DEF Leads, After

\* One more message, whose phase goes on from where the server was.
LEMMA LeadsFurther ==
    ASSUME Limits, NEW m \in Message, stdout' = Append(stdout, m), active' = active,
           work' = After(m, work), work' \subseteq Tokens,
           m.kind = "end" => m.token \in work,
           NEW h \in [0..Len(stdout) -> SUBSET Tokens], Leads(h)
    PROVE  \E g \in [0..Len(stdout') -> SUBSET Tokens] : Leads(g)'
<1> DEFINE n == Len(stdout)
           g == [i \in 0..(n + 1) |-> IF i = n + 1 THEN work' ELSE h[i]]
<1>1. /\ n \in Nat /\ Len(stdout') = n + 1 /\ stdout'[n + 1] = m
      /\ \A i \in 1..n : stdout'[i] = stdout[i]
      BY Send DEF Limits
<1>2. g \in [0..Len(stdout') -> SUBSET Tokens]
      BY <1>1
<1>3. g[0] = active' /\ g[Len(stdout')] = work'
      BY <1>1 DEF Leads
<1>4. ASSUME NEW i \in 1..Len(stdout')
      PROVE  /\ g[i] = After(stdout'[i], g[i - 1])
             /\ stdout'[i].kind = "end" => stdout'[i].token \in g[i - 1]
  <2>1. CASE i \in 1..n
    <3>1. g[i] = h[i] /\ g[i - 1] = h[i - 1] /\ stdout'[i] = stdout[i]
          BY <1>1, <2>1
    <3> QED
        BY <2>1, <3>1 DEF Leads
  <2>2. CASE i = n + 1
    <3>1. g[i] = work' /\ g[i - 1] = work /\ stdout'[i] = m
          BY <1>1, <2>2 DEF Leads
    <3> QED
        BY <3>1
  <2> QED
      BY <1>1, <2>1, <2>2
<1>5. \A i \in 1..Len(stdout') :
         /\ g[i] = After(stdout'[i], g[i - 1])
         /\ stdout'[i].kind = "end" => stdout'[i].token \in g[i - 1]
      BY <1>4
<1> HIDE DEF g
<1> QED
    BY <1>2, <1>3, <1>5 DEF Leads, After

\* With nothing on its way, cq's belief is what is so.
LEMMA NothingPending ==
    ASSUME Limits, Informed, pc \in Loop, stdout = <<>>
    PROVE  active = work /\ ~ owed
BY DEF Informed, Leads, Pending

\* The first message of the pipe fits what cq believes.
LEMMA FirstFits ==
    ASSUME Limits, Informed, pc \in Loop, stdout # <<>>, Head(stdout).kind = "end"
    PROVE  Head(stdout).token \in active
<1>1. PICK h \in [0..Len(stdout) -> SUBSET Tokens] : Leads(h)
      BY DEF Informed
<1>2. Head(stdout) = stdout[1] /\ 1 \in 1..Len(stdout) /\ 1 - 1 = 0
      BY Consume DEF Limits
<1> QED
    BY <1>1, <1>2 DEF Leads

\* Reading a message of another kind, or sending one, leaves one pending.
LEMMA PendingAfterReading ==
    ASSUME Limits, stdout # <<>>, stdout' = Tail(stdout), NEW kinds,
           Head(stdout).kind \notin kinds
    PROVE  Pending(kinds)' <=> Pending(kinds)
<1>1. /\ Len(stdout) \in Nat \ {0} /\ Len(stdout') = Len(stdout) - 1
      /\ Head(stdout) = stdout[1]
      /\ \A i \in 1..Len(stdout') : stdout'[i] = stdout[i + 1]
      BY Consume DEF Limits
<1>2. ASSUME Pending(kinds) PROVE Pending(kinds)'
  <2>1. PICK i \in 1..Len(stdout) : stdout[i].kind \in kinds
        BY <1>2 DEF Pending
  <2>2. i # 1 /\ i - 1 \in 1..Len(stdout') /\ (i - 1) + 1 = i
        BY <1>1, <2>1
  <2>3. stdout'[i - 1] = stdout[i]
        BY <1>1, <2>2
  <2> QED
      BY <2>1, <2>2, <2>3 DEF Pending
<1>3. ASSUME Pending(kinds)' PROVE Pending(kinds)
  <2>1. PICK i \in 1..Len(stdout') : stdout'[i].kind \in kinds
        BY <1>3 DEF Pending
  <2>2. i + 1 \in 1..Len(stdout) /\ stdout'[i] = stdout[i + 1]
        BY <1>1, <2>1
  <2> QED
      BY <2>1, <2>2 DEF Pending
<1> QED
    BY <1>2, <1>3

LEMMA PendingAfterSending ==
    ASSUME Limits, NEW m \in Message, stdout' = Append(stdout, m), NEW kinds
    PROVE  Pending(kinds)' <=> Pending(kinds) \/ m.kind \in kinds
<1>1. /\ Len(stdout) \in Nat /\ Len(stdout') = Len(stdout) + 1
      /\ stdout'[Len(stdout) + 1] = m
      /\ \A i \in 1..Len(stdout) : stdout'[i] = stdout[i]
      BY Send DEF Limits
<1>2. \A i : i \in 1..Len(stdout') <=> i \in 1..Len(stdout) \/ i = Len(stdout) + 1
      BY <1>1
<1> QED
    BY <1>1, <1>2 DEF Pending

-----------------------------------------------------------------------------
(* One step *)

\* Steps that touch neither the pipe nor what it is about.
Aside == UNCHANGED <<stdout, active, work>>

LEMMA LeadsAside ==
    ASSUME Aside, NEW h \in [0..Len(stdout) -> SUBSET Tokens], Leads(h)
    PROVE  \E g \in [0..Len(stdout') -> SUBSET Tokens] : Leads(g)'
BY DEF Aside, Leads

LEMMA PendingAside == ASSUME Aside, NEW kinds PROVE Pending(kinds)' <=> Pending(kinds)
BY DEF Aside, Pending

\* cq reads a message.
LEMMA InformedReading ==
    ASSUME Limits, Informed, WaitMessage \/ DrainMessage PROVE Informed'
<1> DEFINE m == Head(stdout)
<1>0. /\ stdout # <<>> /\ stdout' = Tail(stdout) /\ work' = work /\ pc \in Loop
      /\ owed' = (owed /\ m.kind # "create") /\ indexed' = indexed
      BY DEF WaitMessage, DrainMessage, AnswerCreate, Loop
<1>1. active' = After(m, active) /\ (pc = "drain" => m.kind # "end")
  <2>1. CASE WaitMessage
        BY <2>1 DEF WaitMessage, Track, After
  <2>2. CASE DrainMessage
    <3>1. m.kind # "end"
          BY <1>0, <2>2, FirstFits DEF Informed, DrainMessage
    <3> QED
        BY <2>2, <3>1 DEF DrainMessage, After
  <2> QED
      BY <2>1, <2>2 DEF WaitMessage, DrainMessage
<1>2. \E g \in [0..Len(stdout') -> SUBSET Tokens] : Leads(g)'
      BY <1>0, <1>1, LeadsOn DEF Informed
<1>3. owed' => Pending({"create"})' /\ ~ indexed'
      BY <1>0, PendingAfterReading DEF Informed
<1>4. /\ pc' \notin {"start", "open"}
      /\ pc' = "wait" /\ ~ seen' => active' = {}
  <2>1. CASE WaitMessage
        BY <1>1, <2>1 DEF WaitMessage, After, Informed
  <2>2. CASE DrainMessage
        BY <2>2 DEF DrainMessage, Informed
  <2> QED
      BY <2>1, <2>2
<1>5. /\ pc' = "drain" => active' = {} /\ seen'
      /\ pc' = "drain" /\ ~ Pending({"begin"})' => work' = {}
  <2>1. CASE WaitMessage
        BY <2>1 DEF WaitMessage
  <2>2. CASE DrainMessage /\ pc' = "drain"
    <3>1. m.kind # "begin" /\ active' = active /\ seen' = seen /\ pc = "drain"
          BY <2>2 DEF DrainMessage
    <3> QED
        BY <1>0, <3>1, PendingAfterReading DEF Informed
  <2> QED
      BY <2>1, <2>2
<1> QED
    BY <1>2, <1>3, <1>4, <1>5 DEF Informed

\* The server says something, or goes on without a word.
LEMMA InformedSaying ==
    ASSUME Limits, Informed, NEW t \in Tokens,
           AskToken(t) \/ BeginPhase(t) \/ EndPhase(t) \/ Chat(t)
    PROVE  Informed'
<1>0. /\ UNCHANGED <<pc, seen, active, indexed, now>> /\ pc \in {"wait", "drain"}
      BY DEF AskToken, BeginPhase, EndPhase, Chat, Say, Serving, clientVars, clockVars
<1>1. PICK m \in Message :
          /\ stdout' = Append(stdout, m)
          /\ work' = After(m, work) /\ work' \subseteq Tokens
          /\ m.kind = "end" => m.token \in work
          /\ owed' => (owed \/ m.kind = "create") /\ ~ indexed
          /\ work' = work \/ m.kind = "begin" \/ work' \subseteq work
  <2>1. CASE AskToken(t)
        BY <2>1, MessageFields DEF AskToken, Say, After, Limits
  <2>2. CASE BeginPhase(t)
        BY <2>2, MessageFields DEF BeginPhase, Say, After, Limits
  <2>3. CASE EndPhase(t)
        BY <2>3, MessageFields DEF EndPhase, Say, After, Limits
  <2>4. CASE Chat(t)
        BY <2>4, MessageFields DEF Chat, Say, After, Limits, Informed
  <2> QED
      BY <2>1, <2>2, <2>3, <2>4
<1>2. \E g \in [0..Len(stdout') -> SUBSET Tokens] : Leads(g)'
      BY <1>0, <1>1, LeadsFurther DEF Informed, Loop
<1>3. /\ Pending({"create"})' <=> Pending({"create"}) \/ m.kind = "create"
      /\ Pending({"begin"})' <=> Pending({"begin"}) \/ m.kind = "begin"
      BY <1>1, PendingAfterSending
<1> QED
    BY <1>0, <1>1, <1>2, <1>3 DEF Informed

LEMMA InformedStep == Limits /\ Informed /\ [Next]_vars => Informed'
<1> SUFFICES ASSUME Limits, Informed, [Next]_vars PROVE Informed'
    OBVIOUS
<1>1. CASE WaitMessage \/ DrainMessage
      BY <1>1, InformedReading
<1>2. ASSUME NEW t \in Tokens, AskToken(t) \/ BeginPhase(t) \/ EndPhase(t) \/ Chat(t)
      PROVE  Informed'
      BY <1>2, InformedSaying
<1>3. ASSUME Aside, owed' = owed, indexed' = indexed \/ ~ owed,
             pc' \in Loop => pc \in Loop, pc' = "query" => pc = "query",
             pc' \in {"start", "open"} => pc \in {"start", "open"} /\ seen' = seen /\ now' = now,
             pc' = "wait" /\ ~ seen' =>
                 (pc = "wait" /\ ~ seen) \/ pc = "open",
             pc' = "drain" =>
                 \/ pc = "drain" /\ seen' = seen
                 \/ pc = "wait" /\ seen' /\ active = {} /\ stdout = <<>>
      PROVE  Informed'
  <2>1. \A kinds : Pending(kinds)' <=> Pending(kinds)
        BY <1>3, PendingAside
  <2>2. pc' \in Loop => \E g \in [0..Len(stdout') -> SUBSET Tokens] : Leads(g)'
        BY <1>3, LeadsAside DEF Informed
  <2>3. pc = "wait" /\ active = {} /\ stdout = <<>> => work = {}
        BY NothingPending DEF Loop
  <2> QED
      BY <1>3, <2>1, <2>2, <2>3 DEF Informed, Aside
<1>4. CASE UNCHANGED vars
      BY <1>3, <1>4 DEF vars, clientVars, serverVars, clockVars, Aside
<1>5. CASE Start \/ OpenDocument
      BY <1>3, <1>5 DEF Start, OpenDocument, Over, clockVars, Aside, Loop
<1>6. CASE WaitQuiet \/ WaitOver \/ DrainOver
  <2>1. CASE Proceed
    <3>1. /\ UNCHANGED <<stdout, owed, indexed>> /\ pc' = "query" /\ pc \in Loop
          BY <1>6, <2>1 DEF WaitQuiet, WaitOver, DrainOver, Proceed, serverVars, Loop
    <3>2. Pending({"create"})' <=> Pending({"create"})
          BY <3>1 DEF Pending
    <3> QED
        BY <3>1, <3>2 DEF Informed, Loop
  <2>2. CASE ~ Proceed
        BY <1>3, <1>6, <2>2 DEF WaitQuiet, WaitOver, DrainOver, serverVars, Aside, Loop, Informed
  <2> QED
      BY <2>1, <2>2
<1>7. CASE AfterWait
  <2>1. UNCHANGED <<owed, indexed>> /\ pc' \in {"reply", "shutdown", "exit", "over"}
        BY <1>7, AfterTheWait
  <2> QED
      BY <2>1 DEF Informed, Loop
<1>8. CASE FinishIndex \/ ServerDies \/ Tick
      BY <1>3, <1>8 DEF FinishIndex, ServerDies, Tick, Serving, clockVars, clientVars, Aside, Loop
<1> QED
    BY <1>1, <1>2, <1>4, <1>5, <1>6, <1>7, <1>8 DEF Next, Client, Server, AfterWait

LEMMA InformedInit == Init => Informed
<1> SUFFICES ASSUME Init PROVE Informed
    OBVIOUS
<1>1. stdout = <<>> /\ Len(stdout) = 0 /\ active = {} /\ work = {}
      BY DEF Init
<1> DEFINE h == [i \in 0..0 |-> {}]
<1>2. h \in [0..Len(stdout) -> SUBSET Tokens] /\ Leads(h)
      BY <1>1 DEF Leads
<1> QED
    BY <1>1, <1>2 DEF Init, Informed

\* A tick while cq polls: an honest server has said what it is doing, or it is
\* through.
LEMMA TimedTick == ASSUME Limits, Informed, Timed, Tick PROVE Timed'
<1> USE OneShotAssumption
<1>0. /\ stdout = <<>> /\ now' = now + 1 /\ pc' = pc /\ pc \in {"wait", "drain"}
      /\ UNCHANGED <<stdout, active, work, owed, indexed, seen, new, pollEnd, drainEnd,
                     honest, alive, late, ready>>
      /\ quiet' = IF quiet < Drain THEN quiet + 1 ELSE quiet
      /\ now \in Nat /\ quiet \in Nat /\ quiet <= Drain
      /\ pollEnd \in Nat /\ drainEnd \in Nat
      BY DEF Tick, clientVars, Limits
<1>1. active = work /\ ~ owed /\ \A kinds : ~ Pending(kinds) /\ ~ Pending(kinds)'
      BY <1>0, NothingPending DEF Loop, Pending
<1>2. honest => \/ indexed \/ work # {}
                \/ ~ seen /\ now + 1 < Grace
                \/ seen /\ quiet < Drain
      BY <1>1 DEF Tick, Announces
<1>3. CASE pc = "wait"
  <2>1. honest /\ ~ seen /\ now' >= Grace => indexed
        BY <1>0, <1>1, <1>2, <1>3 DEF Informed
  <2>2. quiet' >= 1
        BY <1>0
  <2> QED
      BY <1>0, <1>3, <2>1, <2>2 DEF Timed
<1>4. CASE pc = "drain"
  <2>1. seen /\ work = {} /\ now < drainEnd
        BY <1>1, <1>4 DEF Informed, Tick
  <2>2. ~ new => quiet >= Drain \/ quiet + drainEnd > Drain + now
        BY <1>1, <1>4 DEF Timed
  <2>3. ~ new => quiet' >= Drain \/ quiet' + drainEnd > Drain + now'
        BY <1>0, <2>2
  <2>4. ~ new /\ now' >= drainEnd => quiet >= Drain
        BY <1>0, <2>1, <2>2
  <2>5. honest /\ ~ new /\ now' >= drainEnd => indexed
        BY <1>0, <1>2, <2>1, <2>4
  <2> QED
      BY <1>0, <1>4, <2>3, <2>5 DEF Timed
<1> QED
    BY <1>0, <1>3, <1>4

LEMMA TimedReading == ASSUME Limits, Informed, Timed, WaitMessage \/ DrainMessage PROVE Timed'
<1> USE OneShotAssumption
<1>1. CASE WaitMessage
  <2>1. /\ pc' = "wait" /\ pollEnd' = now + 1 /\ now \in Nat
        /\ UNCHANGED <<now, indexed, honest>> /\ pc = "wait"
        BY <1>1 DEF WaitMessage, Limits
  <2>2. seen => seen'
        BY <1>1 DEF WaitMessage
  <2> QED
      BY <2>1, <2>2 DEF Timed
<1>2. CASE DrainMessage
  <2>1. CASE pc' = "wait"
    <3>1. /\ pollEnd' = now + 1 /\ now \in Nat /\ now' = now /\ seen' = seen /\ seen
          BY <1>2, <2>1 DEF DrainMessage, Limits, Informed
    <3> QED
        BY <2>1, <3>1 DEF Timed
  <2>2. CASE pc' # "wait"
    <3>1. /\ pc' = "drain" /\ pc = "drain" /\ now < drainEnd
          /\ UNCHANGED <<now, drainEnd, quiet, indexed, honest>>
          /\ stdout # <<>> /\ stdout' = Tail(stdout)
          /\ new' = (new \/ Head(stdout).kind \in {"begin", "create"})
          /\ now \in Nat /\ drainEnd \in Nat
          BY <1>2, <2>2 DEF DrainMessage, Limits
    <3>2. ~ new' => (Pending({"begin", "create"})' <=> Pending({"begin", "create"}))
          BY <3>1, PendingAfterReading
    <3> QED
        BY <3>1, <3>2 DEF Timed
  <2> QED
      BY <2>1, <2>2
<1> QED
    BY <1>1, <1>2

LEMMA TimedSaying ==
    ASSUME Limits, Informed, Timed, NEW t \in Tokens,
           AskToken(t) \/ BeginPhase(t) \/ EndPhase(t) \/ Chat(t)
    PROVE  Timed'
<1> DEFINE Kinds == {"begin", "create"}
<1>0. /\ UNCHANGED <<pc, now, pollEnd, drainEnd, seen, new, late, indexed, honest, alive>>
      /\ pc \in {"wait", "drain"}
      BY DEF AskToken, BeginPhase, EndPhase, Chat, Say, Serving, clientVars, clockVars
<1>1. PICK m \in Message :
          /\ stdout' = Append(stdout, m)
          /\ \/ m.kind \in Kinds
             \/ m.kind = "end" /\ m.token \in work
             \/ quiet' = quiet
      BY MessageFields DEF AskToken, BeginPhase, EndPhase, Chat, Say
<1>2. stdout' # <<>>
      BY <1>1, Send DEF Limits
<1>3. /\ Pending(Kinds)' <=> Pending(Kinds) \/ m.kind \in Kinds
      /\ Pending({"begin"}) => Pending(Kinds)
      BY <1>1, PendingAfterSending DEF Pending
<1>4. CASE pc = "wait"
      BY <1>0, <1>2, <1>4 DEF Timed
<1>5. CASE pc = "drain"
  <2>1. ~ Pending(Kinds)' => quiet' = quiet
        BY <1>1, <1>3, <1>5 DEF Informed
  <2> QED
      BY <1>0, <1>3, <1>5, <2>1 DEF Timed
<1> QED
    BY <1>0, <1>4, <1>5

\* The loop goes on to drain, goes back to wait, or ends.
LEMMA TimedWaiting ==
    ASSUME Limits, Informed, Timed, WaitQuiet \/ WaitOver \/ DrainOver PROVE Timed'
<1> USE OneShotAssumption
<1>0. /\ UNCHANGED <<now, quiet, indexed, honest, alive, stdout>>
      /\ now \in Nat /\ quiet \in Nat /\ drainEnd \in Nat /\ pollEnd \in Nat
      BY DEF WaitQuiet, WaitOver, DrainOver, serverVars, Limits
<1>1. CASE Proceed
  <2>1. honest /\ alive /\ ~ late' => indexed
    <3>1. CASE WaitQuiet
      <4>1. ~ seen /\ now >= Grace /\ now >= pollEnd /\ pc = "wait"
            BY <1>1, <3>1 DEF WaitQuiet, Proceed
      <4>2. now >= 1
            BY <1>0, <4>1 DEF Timed
      <4> QED
          BY <4>1, <4>2 DEF Timed
    <3>2. CASE WaitOver
          BY <1>1, <3>2 DEF WaitOver, Proceed
    <3>3. CASE DrainOver
          BY <1>1, <3>3 DEF DrainOver, Proceed, Timed
    <3> QED
        BY <3>1, <3>2, <3>3
  <2> QED
      BY <1>0, <1>1, <2>1 DEF Timed, Proceed
<1>2. CASE WaitQuiet /\ ~ Proceed
  <2>1. stdout = <<>> /\ now >= pollEnd /\ pc = "wait"
        BY <1>2 DEF WaitQuiet
  <2>2. CASE pc' = "drain"
    <3>1. drainEnd' = now + Drain /\ quiet >= 1
          BY <1>2, <2>1, <2>2 DEF WaitQuiet, Timed
    <3> QED
        BY <1>0, <2>2, <3>1 DEF Timed
  <2>3. CASE pc' # "drain"
    <3>1. pc' = "wait" /\ pollEnd' = now + 1 /\ seen' = seen
          BY <1>2, <2>1, <2>3 DEF WaitQuiet
    <3> QED
        BY <1>0, <2>1, <3>1 DEF Timed
  <2> QED
      BY <2>2, <2>3
<1>3. CASE DrainOver /\ ~ Proceed
  <2>1. pc' = "wait" /\ pollEnd' = now + 1 /\ seen' = seen /\ seen
        BY <1>3 DEF DrainOver, Informed
  <2> QED
      BY <1>0, <2>1 DEF Timed
<1> QED
    BY <1>1, <1>2, <1>3 DEF WaitOver

LEMMA TimedStep == Limits /\ Informed /\ Timed /\ [Next]_vars => Timed'
<1> SUFFICES ASSUME Limits, Informed, Timed, [Next]_vars PROVE Timed'
    OBVIOUS
<1>1. CASE Tick
      BY <1>1, TimedTick
<1>2. CASE WaitMessage \/ DrainMessage
      BY <1>2, TimedReading
<1>3. CASE WaitQuiet \/ WaitOver \/ DrainOver
      BY <1>3, TimedWaiting
<1>4. ASSUME NEW t \in Tokens, AskToken(t) \/ BeginPhase(t) \/ EndPhase(t) \/ Chat(t)
      PROVE  Timed'
      BY <1>4, TimedSaying
<1>5. CASE UNCHANGED vars
      BY <1>5 DEF vars, clientVars, serverVars, clockVars, Timed, Pending
<1>6. CASE Start
      BY <1>6 DEF Start, Over, Timed
<1>7. CASE OpenDocument
  <2>1. pc = "open" /\ now = 0 /\ now' = now
        BY <1>7 DEF OpenDocument, Informed
  <2> QED
      BY <1>7, <2>1 DEF OpenDocument, Over, Timed
<1>8. CASE AfterWait
  <2>1. /\ UNCHANGED <<late, indexed, honest>>
        /\ pc' \in {"reply", "shutdown", "exit", "over"}
        /\ pc' = "reply" =>
              (pc = "reply" /\ ready' = ready) \/ (pc = "query" /\ ready' = indexed)
        /\ alive' = alive \/ alive' = FALSE
        BY <1>8, AfterTheWait
  <2>2. alive' => alive
        BY <2>1, Zenon
  <2> QED
      BY <2>1, <2>2 DEF Timed
<1>9. CASE FinishIndex \/ ServerDies
  <2>1. /\ UNCHANGED <<clockVars, clientVars, quiet, honest, stdout>>
        /\ indexed => indexed'
        /\ alive' => alive
        BY <1>9 DEF FinishIndex, ServerDies
  <2> QED
      BY <2>1 DEF clockVars, clientVars, Timed, Pending
<1> QED
    BY <1>1, <1>2, <1>3, <1>4, <1>5, <1>6, <1>7, <1>8, <1>9
    DEF Next, Client, Server, AfterWait

LEMMA WaitAlways == Spec => [](Informed /\ Timed)
<1>1. Init => Timed
      BY DEF Init, Timed
<1> QED
    BY <1>1, TypesInit, TypesAlways, InformedInit, InformedStep, TimedStep, PTL DEF Spec

\* wait_for_ready asks a server that announces its work in time when the work
\* is done, for any number of phases that overlap, follow one another or
\* start while the drain goes on.
THEOREM WaitsForIndex == Spec => []AskedWhenIndexed
<1>1. Timed => AskedWhenIndexed
      BY DEF Timed, AskedWhenIndexed
<1> QED
    BY <1>1, WaitAlways, PTL

\* Whatever the server does, each request for a token that was read before the
\* query was answered.
THEOREM TokensAreGranted == Spec => []NoServerLeftWaiting
<1>1. Limits /\ Informed => NoServerLeftWaiting
  <2> SUFFICES ASSUME Limits, Informed, owed,
                      pc \notin {"reply", "shutdown", "exit", "over"}
               PROVE  \E i \in DOMAIN stdout : stdout[i].kind = "create"
      BY DEF NoServerLeftWaiting
  <2>1. Pending({"create"})
        BY DEF Informed, Loop, Limits
  <2> QED
      BY <2>1 DEF Pending, Limits
<1> QED
    BY <1>1, WaitAlways, TypesAlways, PTL
=============================================================================
