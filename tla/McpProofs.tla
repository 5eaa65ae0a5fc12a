------------------------------- MODULE McpProofs -------------------------------
(***************************************************************************)
(* Commands, the daemons they start and the cq-mcp sessions beside them, for *)
(* any number of each: what the variables hold, that what runs in turn       *)
(* shares one daemon, and that the cascade keeps what TieredAnswer promises. *)
(***************************************************************************)
EXTENDS McpServer, FiniteSetTheorems, TLAPS

\* A session's step, as the cascade's variables see it: a step of the cascade,
\* or `cq daemon start` run by a session that begins.
SessionSpawns(d) ==
    /\ calm => Idle
    /\ life[d] = "unused"
    /\ life' = [life EXCEPT ![d] = "probing"]
    /\ UNCHANGED <<info, commandVars>>

LEMMA StepsOfCascade ==
    ASSUME [McpNext]_mcpVars
    PROVE  [Next]_vars \/ \E d \in Starters : SessionSpawns(d)
<1>1. CASE UNCHANGED mcpVars
      BY <1>1 DEF mcpVars
<1>2. ASSUME NEW s \in Sessions, StartSession(s)
      PROVE  UNCHANGED vars \/ \E d \in Starters : SessionSpawns(d)
      BY <1>2 DEF StartSession, SessionSpawns, vars, daemonVars
<1>3. ASSUME NEW s \in Sessions, SessionStarted(s) \/ TakeLine(s) \/ Reply(s)
                                 \/ InputEnds(s) \/ Killed(s)
      PROVE  UNCHANGED vars
      BY <1>3 DEF SessionStarted, TakeLine, Reply, InputEnds, Killed
<1>4. ASSUME NEW s \in Sessions, TakeCall(s)
      PROVE  [Next]_vars
      BY <1>4 DEF TakeCall, Next
<1>5. ASSUME NEW s \in Sessions, EndSession(s)
      PROVE  [Next]_vars
      BY <1>5 DEF EndSession, StopDaemon, Next, DaemonNext, UserStops, vars
<1>6. CASE DaemonNext \/ \E c \in Commands : Begin(c) \/ CommandStep(c)
      BY <1>6 DEF Next
<1> QED
    BY <1>1, <1>2, <1>3, <1>4, <1>5, <1>6 DEF McpNext, SessionStep

-----------------------------------------------------------------------------
(* What the variables hold *)

LEMMA CascadeTypeInit == Init => CascadeTypeOK
BY CascadeAssumption DEF Init, CascadeTypeOK, PCs

LEMMA DaemonTypes ==
    ASSUME CascadeTypeOK, DaemonNext PROVE CascadeTypeOK'
<1>1. UNCHANGED commandVars
      BY DEF DaemonNext, UserStops, StarterProbes, Boot, Die
<1> DEFINE Held == /\ info \in Starters \cup {None}
                   /\ life \in [Starters -> {"unused", "probing", "booting", "up", "gone"}]
<1>2. Held'
  <2>1. CASE UserStops
        BY <2>1 DEF UserStops, StopDaemon, daemonVars, CascadeTypeOK
  <2>2. ASSUME NEW d \in Starters, StarterProbes(d) \/ Boot(d) \/ Die(d)
        PROVE  Held'
        BY <2>2 DEF StarterProbes, Boot, Die, CascadeTypeOK
  <2> QED
      BY <2>1, <2>2 DEF DaemonNext
<1> QED
    BY <1>1, <1>2 DEF CascadeTypeOK, commandVars

LEMMA ReturnTypes ==
    ASSUME CascadeTypeOK, NEW c \in Commands, NEW found \in BOOLEAN,
           NEW tier \in {"daemon", "oneshot", "graph"}, Return(c, tier, found)
    PROVE  /\ answer' \in [Commands -> Answers \cup {None}]
           /\ pc' \in [Commands -> PCs]
<1>1. [tier |-> tier, found |-> found] \in Answers
      BY DEF Answers
<1>2. answer' = [answer EXCEPT ![c] = [tier |-> tier, found |-> found]]
      BY DEF Return
<1> QED
    BY <1>1, <1>2 DEF Return, Goto, CascadeTypeOK, PCs

LEMMA CommandTypes ==
    ASSUME CascadeTypeOK, NEW c \in Commands, Begin(c) \/ CommandStep(c)
    PROVE  CascadeTypeOK'
<1> USE DEF CascadeTypeOK, PCs, daemonVars, Goto, FallThrough
<1>1. CASE Begin(c)
      BY <1>1 DEF Begin
<1>2. CASE Probe(c)
      BY <1>2 DEF Probe
<1>3. CASE Spawn(c)
      BY <1>3, CascadeAssumption DEF Spawn
<1>4. CASE Poll(c)
  <2>1. polls' \in [Commands -> 0..MaxPolls]
        BY <1>4, CascadeAssumption DEF Poll
  <2> QED
      BY <1>4, <2>1 DEF Poll
<1>5. CASE Connect(c)
      BY <1>5 DEF Connect
<1>6. CASE Ask(c)
  <2>1. PICK found \in BOOLEAN : Return(c, "daemon", found)
        BY <1>6 DEF Ask
  <2> QED
      BY <1>6, <2>1, ReturnTypes DEF Ask
<1>7. CASE AskFails(c)
      BY <1>7 DEF AskFails
<1>8. CASE Oneshot(c)
      BY <1>8, ReturnTypes DEF Oneshot
<1>9. CASE Graph(c)
      BY <1>9, ReturnTypes DEF Graph
<1> QED
    BY <1>1, <1>2, <1>3, <1>4, <1>5, <1>6, <1>7, <1>8, <1>9 DEF CommandStep

LEMMA CascadeTypes ==
    ASSUME CascadeTypeOK, [McpNext]_mcpVars PROVE CascadeTypeOK'
<1>1. CASE UNCHANGED vars
      BY <1>1 DEF vars, daemonVars, commandVars, CascadeTypeOK
<1>2. CASE Next
      BY <1>2, DaemonTypes, CommandTypes DEF Next
<1>3. ASSUME NEW d \in Starters, SessionSpawns(d) PROVE CascadeTypeOK'
      BY <1>3 DEF SessionSpawns, commandVars, CascadeTypeOK
<1> QED
    BY <1>1, <1>2, <1>3, StepsOfCascade

\* McpTypeOK speaks of each session's counters; that they are functions on the
\* sessions is needed for a step to change one session's only.
SessionTypes ==
    /\ McpTypeOK
    /\ at \in [Sessions -> Nat]
    /\ replies \in [Sessions -> Seq(Nat)]

LEMMA SessionTypesInit == McpInit => SessionTypes
<1> SUFFICES ASSUME McpInit PROVE SessionTypes
    OBVIOUS
<1>1. \A s \in Sessions : Len(lines[s]) \in Nat
      BY InputAssumption DEF McpInit
<1> QED
    BY <1>1, CascadeTypeInit DEF McpInit, SessionTypes, McpTypeOK

LEMMA SessionTypesStep ==
    ASSUME SessionTypes, [McpNext]_mcpVars PROVE SessionTypes'
<1> USE DEF SessionTypes
<1>1. CascadeTypeOK'
      BY CascadeTypes DEF McpTypeOK
<1>2. \A s \in Sessions : Len(lines[s]) \in Nat
      BY InputAssumption DEF McpTypeOK
<1>3. CASE UNCHANGED sessionVars
      BY <1>1, <1>3 DEF McpTypeOK, sessionVars
<1>4. ASSUME NEW s \in Sessions, StartSession(s) PROVE SessionTypes'
  <2>1. \E to \in {"starting", "read"} : SGoto(s, to)
        BY <1>4 DEF StartSession
  <2>2. UNCHANGED child \/ \E d \in Starters : child' = [child EXCEPT ![s] = d]
        BY <1>4 DEF StartSession
  <2>3. spc' \in [Sessions -> {"new", "starting", "read", "calling", "stop", "ended", "killed"}]
        BY <2>1 DEF SGoto, McpTypeOK
  <2>4. child' \in [Sessions -> Starters \cup Commands \cup {None}]
        BY <2>2 DEF McpTypeOK
  <2>5. UNCHANGED <<lines, at, replies>>
        BY <1>4 DEF StartSession
  <2> QED
      BY <1>1, <2>3, <2>4, <2>5 DEF McpTypeOK
<1>5. ASSUME NEW s \in Sessions,
             SessionStarted(s) \/ InputEnds(s) \/ EndSession(s) \/ Killed(s)
      PROVE  SessionTypes'
      BY <1>1, <1>5 DEF SessionStarted, InputEnds, EndSession, Killed, SGoto, McpTypeOK
<1>6. ASSUME NEW s \in Sessions, NEW n \in 0..Len(lines[s])
      PROVE  Append(replies[s], n) \in Seq(0..Len(lines[s])) /\
             Append(replies[s], n) \in Seq(Nat)
      BY <1>2, <1>6 DEF McpTypeOK
<1>7. ASSUME NEW s \in Sessions, Reply(s) PROVE SessionTypes'
      BY <1>1, <1>6, <1>7 DEF Reply, SGoto, McpTypeOK
<1>8. ASSUME NEW s \in Sessions, TakeLine(s) \/ TakeCall(s) PROVE SessionTypes'
  <2>1. /\ at[s] + 1 \in 0..Len(lines[s]) /\ at[s] + 1 \in Nat
        /\ at' = [at EXCEPT ![s] = at[s] + 1]
        /\ UNCHANGED lines
        BY <1>2, <1>8 DEF TakeLine, TakeCall
  <2>2. /\ spc' \in [Sessions -> {"new", "starting", "read", "calling", "stop", "ended", "killed"}]
        /\ child' \in [Sessions -> Starters \cup Commands \cup {None}]
    <3>1. (\E to \in {"read", "calling"} : SGoto(s, to)) \/ UNCHANGED spc
          BY <1>8 DEF TakeLine, TakeCall
    <3>2. (\E c \in Commands : child' = [child EXCEPT ![s] = c]) \/ UNCHANGED child
          BY <1>8 DEF TakeLine, TakeCall
    <3>3. spc' \in [Sessions -> {"new", "starting", "read", "calling", "stop", "ended", "killed"}]
          BY <3>1 DEF SGoto, McpTypeOK
    <3>4. child' \in [Sessions -> Starters \cup Commands \cup {None}]
          BY <3>2 DEF McpTypeOK
    <3> QED
        BY <3>3, <3>4
  <2>3. \/ UNCHANGED replies
        \/ \E n \in 0..Len(lines[s]) : replies' = [replies EXCEPT ![s] = Append(replies[s], n)]
    <3>1. CASE TakeLine(s)
      <4> DEFINE n == at[s] + 1
                 kind == lines[s][n]
      <4>1. replies' = [replies EXCEPT ![s] =
                IF AnswersAtOnce(kind) THEN Append(replies[s], ReplyTo(kind, n)) ELSE replies[s]]
            BY <3>1 DEF TakeLine
      <4>2. ReplyTo(kind, n) \in 0..Len(lines[s])
            BY <1>2, <2>1 DEF ReplyTo
      <4>3. CASE AnswersAtOnce(kind)
            BY <4>1, <4>2, <4>3
      <4>4. CASE ~ AnswersAtOnce(kind)
            BY <4>1, <4>4 DEF McpTypeOK
      <4> QED
          BY <4>3, <4>4
    <3>2. CASE TakeCall(s)
          BY <2>1, <3>2 DEF TakeCall
    <3> QED
        BY <1>8, <3>1, <3>2
  <2>4. /\ replies' \in [Sessions -> Seq(Nat)]
        /\ \A q \in Sessions : replies'[q] \in Seq(0..Len(lines[q]))
    <3>1. CASE UNCHANGED replies
          BY <3>1 DEF McpTypeOK
    <3>2. ASSUME NEW n \in 0..Len(lines[s]),
                 replies' = [replies EXCEPT ![s] = Append(replies[s], n)]
          PROVE  /\ replies' \in [Sessions -> Seq(Nat)]
                 /\ \A q \in Sessions : replies'[q] \in Seq(0..Len(lines[q]))
          BY <1>6, <3>2 DEF McpTypeOK
    <3> QED
        BY <2>3, <3>1, <3>2
  <2>5. /\ at' \in [Sessions -> Nat]
        /\ \A q \in Sessions : at'[q] \in 0..Len(lines[q])
        BY <2>1 DEF McpTypeOK
  <2> QED
      BY <1>1, <2>1, <2>2, <2>4, <2>5 DEF McpTypeOK
<1> QED
    BY <1>3, <1>4, <1>5, <1>7, <1>8 DEF McpNext, SessionStep, mcpVars

\* Commands, daemons and sessions only ever hold what McpTypeOK says, for any
\* number of them and any input: no poll is counted below zero, no session
\* answers a line that has not come in.
THEOREM McpTypeCorrect == McpSpec => []McpTypeOK
<1>1. SessionTypes /\ [McpNext]_mcpVars => SessionTypes'
      BY SessionTypesStep
<1>2. SessionTypes => McpTypeOK
      BY DEF SessionTypes
<1> QED
    BY SessionTypesInit, <1>1, <1>2, PTL DEF McpSpec

-----------------------------------------------------------------------------
(* One daemon, where commands do not overlap *)

\* The daemon that is up is the one the file names, and none is while another
\* is past its probe.
Announced ==
    \A d \in Starters :
        /\ life[d] = "up" => info = d
        /\ life[d] = "booting" => Running = {}

\* One process at a time: at most one daemon is starting and one command is
\* under way, and a command that is not polling has no daemon starting beside it.
InTurn ==
    /\ \A d, e \in Starters : Starting(d) /\ Starting(e) => d = e
    /\ \A c, e \in Active : c = e
    /\ \A c \in Active : pc[c] # "poll" => \A d \in Starters : ~ Starting(d)

\* A command spawns `cq daemon start` when it has found no daemon, and none
\* comes up but the one it polls for.
SpawnsForNone ==
    \A c \in Commands :
        /\ pc[c] = "spawn" => Running = {}
        /\ pc[c] = "poll" /\ (\E d \in Starters : Starting(d)) => Running = {}

CalmInv == CascadeTypeOK /\ (calm => Announced /\ InTurn /\ SpawnsForNone)

LEMMA CalmInit == Init => CalmInv
BY CascadeTypeInit DEF Init, CalmInv, Announced, InTurn, SpawnsForNone, Running, Starting, Active

\* The daemon that is up is the one is_daemon_running finds.
LEMMA FoundIfUp ==
    ASSUME Announced
    PROVE  /\ IsDaemonRunning => Running = {info}
           /\ ~ IsDaemonRunning => Running = {}
BY DEF Announced, IsDaemonRunning, Running

LEMMA DaemonKeepsTurn ==
    ASSUME CalmInv, calm, DaemonNext
    PROVE  Announced' /\ InTurn' /\ SpawnsForNone'
<1> USE DEF CalmInv, CascadeTypeOK
<1>1. pc' = pc /\ Active' = Active
      BY DEF DaemonNext, UserStops, StarterProbes, Boot, Die, commandVars, Active
<1>2. CASE UserStops
  <2>1. life' = [life EXCEPT ![info] = "gone"] /\ Running = {info} /\ info \in Starters
        BY <1>2, FoundIfUp DEF UserStops, StopDaemon, IsDaemonRunning, Running
  <2>2. Running' = {} /\ \A d \in Starters : Starting(d)' <=> Starting(d)
        BY <2>1 DEF Running, Starting
  <2> QED
      BY <1>1, <2>1, <2>2 DEF Announced, InTurn, SpawnsForNone, Starting, Running
<1>3. ASSUME NEW d \in Starters, StarterProbes(d)
      PROVE  Announced' /\ InTurn' /\ SpawnsForNone'
  <2>1. /\ life' = [life EXCEPT ![d] = IF IsDaemonRunning THEN "gone" ELSE "booting"]
        /\ info' = info /\ life[d] = "probing"
        BY <1>3 DEF StarterProbes
  <2>2. Running' = Running
        BY <2>1 DEF Running
  <2>3. \A e \in Starters : Starting(e)' => Starting(e)
        BY <2>1 DEF Starting
  <2>4. Announced'
        BY <2>1, <2>2, FoundIfUp DEF Announced
  <2> QED
      BY <1>1, <2>2, <2>3, <2>4 DEF InTurn, SpawnsForNone
<1>4. ASSUME NEW d \in Starters, Boot(d)
      PROVE  Announced' /\ InTurn' /\ SpawnsForNone'
  <2>1. /\ \/ life' = [life EXCEPT ![d] = "up"] /\ info' = d
           \/ life' = [life EXCEPT ![d] = "gone"] /\ info' = info
        /\ life[d] = "booting"
        BY <1>4 DEF Boot
  <2>2. \A e \in Starters : ~ Starting(e)'
        BY <2>1 DEF InTurn, Starting
  <2>3. Running = {}
        BY <2>1 DEF Announced
  <2>4. Announced'
        BY <2>1, <2>2, <2>3 DEF Announced, Running, Starting
  <2>5. \A c \in Commands : pc[c] # "spawn"
        BY <2>1 DEF InTurn, Starting, Active
  <2> QED
      BY <1>1, <2>2, <2>4, <2>5 DEF InTurn, SpawnsForNone
<1>5. ASSUME NEW d \in Starters, Die(d)
      PROVE  Announced' /\ InTurn' /\ SpawnsForNone'
  <2>1. info' = info /\ Running' \subseteq Running
        BY <1>5 DEF Die, Running
  <2>2. \A e \in Starters : Starting(e)' <=> Starting(e)
        BY <1>5 DEF Die, Starting
  <2>3. \A e \in Starters : life'[e] \in {life[e], "gone"}
        BY <1>5 DEF Die
  <2>4. Announced'
        BY <2>1, <2>3 DEF Announced
  <2> QED
      BY <1>1, <2>1, <2>2, <2>4 DEF InTurn, SpawnsForNone
<1> QED
    BY <1>2, <1>3, <1>4, <1>5 DEF DaemonNext

\* A command's step either begins, with nobody else at work, or is the only
\* active command's.
LEMMA CommandKeepsTurn ==
    ASSUME CalmInv, calm, NEW c \in Commands, Begin(c) \/ CommandStep(c)
    PROVE  Announced' /\ InTurn' /\ SpawnsForNone'
<1> USE DEF CalmInv, CascadeTypeOK
<1>1. CASE Begin(c)
  <2>1. Active = {} /\ \A d \in Starters : ~ Starting(d)
        BY <1>1 DEF Begin, Idle
  <2>2. /\ life' = life /\ info' = info
        /\ pc' = [pc EXCEPT ![c] = IF mode[c] = "off" THEN "graph" ELSE "probe"]
        BY <1>1 DEF Begin, Goto, daemonVars
  <2>3. Active' = {c}
        BY <2>1, <2>2 DEF Active
  <2>4. \A e \in Commands : pc'[e] \notin {"spawn", "poll"}
        BY <2>1, <2>2 DEF Active
  <2> QED
      BY <2>1, <2>2, <2>3, <2>4
      DEF Announced, InTurn, SpawnsForNone, Running, Starting
<1>2. ASSUME c \in Active, life' = life, info' = info,
             NEW to \in PCs \ {"spawn", "new"}, pc' = [pc EXCEPT ![c] = to],
             to = "poll" => pc[c] = "poll",
             pc[c] = "poll" => to = "poll" \/ \A d \in Starters : ~ Starting(d)
      PROVE  Announced' /\ InTurn' /\ SpawnsForNone'
  <2>1. Active' \subseteq {c} /\ Running' = Running
        BY <1>2 DEF InTurn, Active, Running
  <2>2. \A e \in Commands : pc'[e] # "spawn" /\ (pc'[e] = "poll" => e = c /\ pc[c] = "poll")
        BY <1>2 DEF InTurn, Active
  <2>3. to # "poll" => \A d \in Starters : ~ Starting(d)
        BY <1>2 DEF InTurn
  <2>4. InTurn'
        BY <1>2, <2>1, <2>3 DEF InTurn, Starting
  <2> QED
      BY <1>2, <2>1, <2>2, <2>4 DEF Announced, SpawnsForNone, Starting
<1>3. CASE Probe(c)
  <2>1. CASE IsDaemonRunning \/ mode[c] # "daemon"
        BY <1>2, <1>3, <2>1 DEF Probe, Goto, FallThrough, daemonVars, Active, PCs
  <2>2. CASE ~ IsDaemonRunning /\ mode[c] = "daemon"
    <3>1. /\ pc' = [pc EXCEPT ![c] = "spawn"] /\ c \in Active
          /\ life' = life /\ info' = info
          BY <1>3, <2>2 DEF Probe, Goto, FallThrough, daemonVars, Active
    <3>2. Running' = {} /\ Active' \subseteq {c}
          BY <2>2, <3>1, FoundIfUp DEF Running, InTurn, Active
    <3>3. \A d \in Starters : ~ Starting(d)
          BY <1>3 DEF InTurn, Active, Probe
    <3> QED
        BY <3>1, <3>2, <3>3 DEF Announced, InTurn, SpawnsForNone, Starting
  <2> QED
      BY <2>1, <2>2
<1>4. CASE Spawn(c)
  <2>1. CASE FallThrough(c) /\ UNCHANGED <<life, polls>>
        BY <1>2, <1>4, <2>1 DEF Spawn, Goto, FallThrough, Active, PCs
  <2>2. ASSUME NEW d \in Starters, life[d] = "unused",
               life' = [life EXCEPT ![d] = "probing"], Goto(c, "poll")
        PROVE  Announced' /\ InTurn' /\ SpawnsForNone'
    <3>1. c \in Active /\ pc[c] = "spawn" /\ info' = info
          BY <1>4 DEF Spawn, Active
    <3>2. /\ Running = {} /\ \A e \in Starters : ~ Starting(e)
          BY <3>1 DEF InTurn, SpawnsForNone, Active
    <3>3. Running' = {} /\ \A e \in Starters : Starting(e)' => e = d
          BY <2>2, <3>2 DEF Running, Starting
    <3>4. Active' \subseteq {c} /\ pc'[c] = "poll"
          BY <2>2, <3>1 DEF Goto, InTurn, Active
    <3>5. Announced'
          BY <3>3 DEF Announced, Running
    <3> QED
        BY <3>3, <3>4, <3>5 DEF InTurn, SpawnsForNone, Active
  <2> QED
      BY <1>4, <2>1, <2>2 DEF Spawn
<1>5. CASE Poll(c)
  <2>1. pc[c] = "poll" /\ c \in Active /\ life' = life /\ info' = info
        BY <1>5 DEF Poll, daemonVars, Active
  <2>2. CASE UNCHANGED pc
        BY <1>2, <2>1, <2>2 DEF PCs
  <2>3. CASE Goto(c, "connect") /\ IsDaemonRunning
    <3>1. \A d \in Starters : ~ Starting(d)
          BY <2>1, <2>3 DEF IsDaemonRunning, SpawnsForNone
    <3> QED
        BY <1>2, <2>1, <2>3, <3>1 DEF Goto, PCs
  <2>4. CASE FallThrough(c) /\ \A d \in Starters : ~ Starting(d)
        BY <1>2, <2>1, <2>4 DEF Goto, FallThrough, PCs
  <2> QED
      BY <1>5, <2>2, <2>3, <2>4 DEF Poll
<1>6. CASE Connect(c)
  <2>1. CASE IsDaemonRunning
        BY <1>2, <1>6, <2>1 DEF Connect, Goto, Active, PCs
  <2>2. CASE ~ IsDaemonRunning
    <3>1. /\ life' = life /\ pc' = [pc EXCEPT ![c] = "oneshot"] /\ c \in Active
          BY <1>6, <2>2 DEF Connect, Goto, FallThrough, Active
    <3>2. Running = {} /\ Running' = {} /\ Active' \subseteq {c}
          BY <2>2, <3>1, FoundIfUp DEF Running, InTurn, Active
    <3>3. \A d \in Starters : ~ Starting(d)
          BY <1>6 DEF InTurn, Active, Connect
    <3> QED
        BY <3>1, <3>2, <3>3 DEF Announced, InTurn, SpawnsForNone, Starting, Running
  <2> QED
      BY <2>1, <2>2
<1>7. CASE Ask(c) \/ AskFails(c) \/ Oneshot(c) \/ Graph(c)
      BY <1>2, <1>7 DEF Ask, AskFails, Oneshot, Graph, Return, FallThrough, Goto,
         daemonVars, Active, PCs
<1> QED
    BY <1>1, <1>3, <1>4, <1>5, <1>6, <1>7 DEF CommandStep

LEMMA CalmStep ==
    ASSUME CalmInv, [McpNext]_mcpVars PROVE CalmInv'
<1>1. CascadeTypeOK'
      BY CascadeTypes DEF CalmInv
<1> SUFFICES ASSUME calm' PROVE Announced' /\ InTurn' /\ SpawnsForNone'
    BY <1>1 DEF CalmInv
<1>2. CASE UNCHANGED vars
      BY <1>2 DEF vars, daemonVars, commandVars, CalmInv, Announced, InTurn,
         SpawnsForNone, Running, Starting, Active
<1>3. CASE DaemonNext
  <2>1. calm
        BY <1>3 DEF DaemonNext, UserStops, StarterProbes, Boot, Die, commandVars
  <2> QED
      BY <1>3, <2>1, DaemonKeepsTurn
<1>4. ASSUME NEW c \in Commands, Begin(c) \/ CommandStep(c)
      PROVE  Announced' /\ InTurn' /\ SpawnsForNone'
  <2>1. calm
        BY <1>4 DEF CommandStep, Begin, Probe, Spawn, Poll, Connect, Ask, AskFails,
           Oneshot, Graph
  <2> QED
      BY <1>4, <2>1, CommandKeepsTurn
<1>5. ASSUME NEW d \in Starters, SessionSpawns(d)
      PROVE  Announced' /\ InTurn' /\ SpawnsForNone'
  <2>1. /\ calm /\ info' = info /\ pc' = pc
        /\ life' = [life EXCEPT ![d] = "probing"] /\ life[d] = "unused"
        BY <1>5 DEF SessionSpawns, commandVars
  <2>2. Active = {} /\ \A e \in Starters : ~ Starting(e)
        BY <1>5, <2>1 DEF SessionSpawns, Idle
  <2>3. /\ Active' = {} /\ Running' = Running
        /\ \A e \in Starters : Starting(e)' => e = d
        BY <2>1, <2>2 DEF Active, Running, Starting, CalmInv, CascadeTypeOK
  <2> QED
      BY <2>1, <2>2, <2>3 DEF CalmInv, CascadeTypeOK, Announced, InTurn, SpawnsForNone, Active
<1> QED
    BY <1>2, <1>3, <1>4, <1>5, StepsOfCascade DEF Next

LEMMA CalmInvariant == McpSpec => []CalmInv
<1>1. McpInit => CalmInv
      BY CalmInit DEF McpInit
<1>2. CalmInv /\ [McpNext]_mcpVars => CalmInv'
      BY CalmStep
<1> QED
    BY <1>1, <1>2, PTL DEF McpSpec

\* However many daemons are started, stopped or die: one at a time is up, as
\* long as no two commands overlap and a daemon starts while it is polled for.
THEOREM OneDaemon == McpSpec => []OneDaemonInTurn
<1>1. CalmInv => OneDaemonInTurn
  <2> SUFFICES ASSUME CalmInv, calm PROVE Cardinality(Running) <= 1
      BY DEF OneDaemonInTurn
  <2>1. Running = {} \/ Running = {info}
        BY FoundIfUp DEF CalmInv
  <2>2. Cardinality({}) = 0 /\ Cardinality({info}) = 1
        BY FS_EmptySet, FS_Singleton
  <2> QED
      BY <2>1, <2>2
<1> QED
    BY <1>1, CalmInvariant, PTL

\* stop_daemon at the end of a session finds the daemon there is: the session's
\* own, or the one a command has started meanwhile.
THEOREM SessionEndsDaemon == McpSpec => SessionsLeaveNoDaemon
<1>1. McpTypeOK /\ CalmInv /\ [McpNext]_mcpVars =>
          [\A s \in Sessions :
              calm /\ spc[s] # "ended" /\ spc'[s] = "ended" => Running' = {}]_mcpVars
  <2> SUFFICES ASSUME McpTypeOK, CalmInv, McpNext, NEW s \in Sessions, calm,
                      spc[s] # "ended", spc'[s] = "ended"
               PROVE  Running' = {}
      OBVIOUS
  <2>1. PICK q \in Sessions : EndSession(q)
        BY DEF McpNext, SessionStep, StartSession, SessionStarted, TakeLine, TakeCall,
           Reply, InputEnds, Killed, SGoto, sessionVars, McpTypeOK
  <2>2. CASE IsDaemonRunning
    <3>1. Running = {info} /\ life' = [life EXCEPT ![info] = "gone"]
          BY <2>1, <2>2, FoundIfUp DEF CalmInv, EndSession, StopDaemon
    <3> QED
        BY <3>1 DEF Running, CalmInv, CascadeTypeOK
  <2>3. CASE ~ IsDaemonRunning
        BY <2>1, <2>3, FoundIfUp DEF CalmInv, EndSession, StopDaemon, daemonVars, Running
  <2> QED
      BY <2>2, <2>3
<1> QED
    BY <1>1, McpTypeCorrect, CalmInvariant, PTL DEF McpSpec, SessionsLeaveNoDaemon

-----------------------------------------------------------------------------
(* The cascade keeps what TieredAnswer promises *)

\* A command has an answer from its last step on, and mode off never comes
\* near a tier that asks language servers.
AnswerPoints ==
    \A c \in Commands :
        /\ answer[c] = None <=> pc[c] # "done"
        /\ mode[c] = "off" => pc[c] \in {"new", "graph", "done"}

AnswerInv == CascadeTypeOK /\ AnswerPoints

LEMMA AnswerInit == Init => AnswerInv
BY CascadeTypeInit DEF Init, AnswerInv, AnswerPoints

\* A step of a command goes on without an answer, one tier further at most...
GoesOn(c, to) ==
    /\ pc[c] \notin {"graph", "done"} /\ to \in PCs \ {"new", "done"}
    /\ pc[c] = "oneshot" \/ mode[c] = "off" => to = "graph"
    /\ to = "graph" => pc[c] = "oneshot" \/ mode[c] = "off"
    /\ Goto(c, to)
    /\ UNCHANGED <<mentioned, mode, answer>>

\* ... or returns that of the tier it is at.
Gives(c, tier, found) ==
    /\ pc[c] = tier \/ (pc[c] = "ask" /\ tier = "daemon")
    /\ found \/ tier = "daemon" \/ (tier = "graph" /\ ~ mentioned)
    /\ Return(c, tier, found)
    /\ UNCHANGED <<mentioned, mode>>

LEMMA CommandSteps ==
    ASSUME AnswerInv, NEW c \in Commands, Begin(c) \/ CommandStep(c)
    PROVE  \/ \E to \in PCs : GoesOn(c, to)
           \/ \E tier \in {"daemon", "oneshot", "graph"}, found \in BOOLEAN :
                 Gives(c, tier, found)
<1> USE DEF AnswerInv, AnswerPoints, CascadeTypeOK, PCs, FallThrough, GoesOn
<1>1. CASE Begin(c)
      BY <1>1 DEF Begin, Goto
<1>2. CASE Probe(c)
      BY <1>2 DEF Probe, Goto
<1>3. CASE Spawn(c)
      BY <1>3 DEF Spawn, Goto
<1>4. CASE Poll(c)
  <2>1. CASE UNCHANGED pc
    <3>1. pc[c] = "poll" /\ pc' = [pc EXCEPT ![c] = "poll"]
          BY <1>4, <2>1 DEF Poll
    <3> QED
        BY <1>4, <3>1 DEF Poll, Goto
  <2>2. CASE Goto(c, "connect") \/ Goto(c, "oneshot")
        BY <1>4, <2>2 DEF Poll, Goto
  <2> QED
      BY <1>4, <2>1, <2>2 DEF Poll
<1>5. CASE Connect(c)
      BY <1>5 DEF Connect, Goto
<1>6. CASE Ask(c)
      BY <1>6 DEF Ask, Gives
<1>7. CASE AskFails(c)
      BY <1>7 DEF AskFails, Goto
<1>8. CASE Oneshot(c)
      BY <1>8 DEF Oneshot, Gives, Goto
<1>9. CASE Graph(c)
      BY <1>9 DEF Graph, Gives
<1> QED
    BY <1>1, <1>2, <1>3, <1>4, <1>5, <1>6, <1>7, <1>8, <1>9 DEF CommandStep

\* A command that goes on gives up the tier it leaves, or none.
LEMMA GoesOnRefines ==
    ASSUME AnswerInv, NEW c \in Commands, NEW to \in PCs, GoesOn(c, to)
    PROVE  AnswerPoints' /\ [Tiered!TierNext]_Tiered!tierVars
<1> USE DEF AnswerInv, AnswerPoints, CascadeTypeOK
<1> DEFINE failed == [e \in Commands |-> Failed(e)]
<1>1. /\ pc' = [pc EXCEPT ![c] = to] /\ mode' = mode /\ answer' = answer
      /\ mentioned' = mentioned
      /\ pc[c] \notin {"graph", "done"} /\ to \notin {"new", "done"}
      /\ pc[c] = "oneshot" \/ mode[c] = "off" => to = "graph"
      /\ to = "graph" => pc[c] = "oneshot" \/ mode[c] = "off"
      BY DEF GoesOn, Goto
<1>2. AnswerPoints'
      BY <1>1
<1>3. \A e \in Commands \ {c} : Failed(e)' = Failed(e)
      BY <1>1 DEF Failed, At
<1>4. CASE mode[c] = "off" \/ to \notin {"graph", "oneshot"}
  <2>1. Failed(c)' = Failed(c)
        BY <1>1, <1>4 DEF Failed, At
  <2>2. failed' = failed
        BY <1>3, <2>1
  <2> QED
      BY <1>1, <1>2, <2>2 DEF Tiered!tierVars
<1>5. ASSUME NEW t \in {"daemon", "oneshot"}, mode[c] # "off", answer[c] = None,
             Failed(c) = Tiered!Better(t), Failed(c)' = Failed(c) \cup {t}, t \notin Failed(c)
      PROVE  Tiered!TierNext
  <2>1. failed' = [failed EXCEPT ![c] = failed[c] \cup {t}]
        BY <1>3, <1>5
  <2>2. Tiered!Fail(c, t)
        BY <1>1, <1>5, <2>1 DEF Tiered!Fail, Tiered!Allowed, Tiered!Tiers
  <2> QED
      BY <2>2 DEF Tiered!TierNext
<1>6. CASE mode[c] # "off" /\ to = "oneshot"
  <2>1. Failed(c) = {} /\ Failed(c)' = {"daemon"} /\ answer[c] = None
        BY <1>1, <1>6 DEF Failed, At
  <2> QED
      BY <1>2, <1>5, <1>6, <2>1 DEF Tiered!Better
<1>7. CASE mode[c] # "off" /\ to = "graph"
  <2>1. Failed(c) = {"daemon"} /\ Failed(c)' = {"daemon", "oneshot"} /\ answer[c] = None
        BY <1>1, <1>7 DEF Failed, At
  <2> QED
      BY <1>2, <1>5, <1>7, <2>1 DEF Tiered!Better
<1> QED
    BY <1>4, <1>6, <1>7

\* An answer is the best tier's that has not been given up.
LEMMA GivesRefines ==
    ASSUME AnswerInv, NEW c \in Commands, NEW tier \in {"daemon", "oneshot", "graph"},
           NEW found \in BOOLEAN, Gives(c, tier, found)
    PROVE  AnswerPoints' /\ [Tiered!TierNext]_Tiered!tierVars
<1> USE DEF AnswerInv, AnswerPoints, CascadeTypeOK
<1> DEFINE failed == [e \in Commands |-> Failed(e)]
           a == [tier |-> tier, found |-> found]
<1>1. /\ pc' = [pc EXCEPT ![c] = "done"] /\ mode' = mode /\ mentioned' = mentioned
      /\ answer' = [answer EXCEPT ![c] = a]
      /\ pc[c] = tier \/ (pc[c] = "ask" /\ tier = "daemon")
      /\ found \/ tier = "daemon" \/ (tier = "graph" /\ ~ mentioned)
      BY DEF Gives, Return, Goto
<1>2. a.tier = tier /\ a.found = found /\ a \in Tiered!Answers /\ a # None
      BY CascadeAssumption DEF Answers, Tiered!Answers, Tiered!Tiers
<1> HIDE DEF a
<1>3. pc[c] # "done" /\ (mode[c] = "off" => tier = "graph")
      BY <1>1
<1>4. AnswerPoints'
      BY <1>1, <1>2, <1>3
<1>5. \A e \in Commands : Failed(e)' = Failed(e)
      BY <1>1, <1>2, <1>3 DEF Failed, At
<1>6. failed' = failed
      BY <1>5
<1>7. /\ tier \notin Failed(c)
      /\ Tiered!Better(tier) \cap Tiered!Allowed(mode[c]) \subseteq Failed(c)
      /\ tier \in Tiered!Allowed(mode[c])
      BY <1>1, <1>3 DEF Failed, At, Tiered!Better, Tiered!Allowed, Tiered!Tiers
<1>8. Tiered!Answer(c, a)
      BY <1>1, <1>2, <1>3, <1>6, <1>7 DEF Tiered!Answer
<1> QED
    BY <1>2, <1>4, <1>8 DEF Tiered!TierNext

LEMMA AnswerStep ==
    ASSUME AnswerInv, [McpNext]_mcpVars
    PROVE  AnswerInv' /\ [Tiered!TierNext]_Tiered!tierVars
<1>1. CascadeTypeOK'
      BY CascadeTypes DEF AnswerInv
<1>2. CASE UNCHANGED <<mentioned, pc, mode, answer>>
      BY <1>1, <1>2 DEF AnswerInv, AnswerPoints, Failed, At, Tiered!tierVars
<1>3. ASSUME NEW c \in Commands, Begin(c) \/ CommandStep(c)
      PROVE  AnswerPoints' /\ [Tiered!TierNext]_Tiered!tierVars
      BY <1>3, CommandSteps, GoesOnRefines, GivesRefines
<1>4. ASSUME DaemonNext \/ UNCHANGED vars \/ \E d \in Starters : SessionSpawns(d)
      PROVE  UNCHANGED <<mentioned, pc, mode, answer>>
      BY <1>4 DEF DaemonNext, UserStops, StarterProbes, Boot, Die, SessionSpawns,
         vars, commandVars
<1> QED
    BY <1>1, <1>2, <1>3, <1>4, StepsOfCascade DEF Next, AnswerInv

\* The cascade implements TieredAnswer: no command prints the answer of a tier
\* while a better one its mode allows has not failed, and none is empty but a
\* daemon's and, where the scan has nothing to fall back on, the last tier's,
\* whatever daemons do.
THEOREM CascadeIsTiered == McpSpec => BestTierAnswers
<1>1. McpInit => AnswerInv
      BY AnswerInit DEF McpInit
<1>2. McpInit => Tiered!TierInit
      BY DEF McpInit, Init, Tiered!TierInit, Tiered!Modes, Modes, Failed, At
<1>3. AnswerInv /\ [McpNext]_mcpVars => AnswerInv' /\ [Tiered!TierNext]_Tiered!tierVars
      BY AnswerStep
<1> QED
    BY <1>1, <1>2, <1>3, PTL DEF McpSpec, BestTierAnswers, Tiered!TierSpec

-----------------------------------------------------------------------------
(* Every request has its response *)

\* The next line is answered or it is not, and the earlier ones stay as they are.
LEMMA AnsweredNext ==
    ASSUME NEW s \in Sessions, NEW n \in Nat
    PROVE  /\ IsFiniteSet(AnsweredLines(s, n)) /\ Cardinality(AnsweredLines(s, n)) \in Nat
           /\ AnsweredLines(s, n + 1) =
                 IF lines[s][n + 1] \in {"garbage", "local", "call"}
                   THEN AnsweredLines(s, n) \cup {n + 1} ELSE AnsweredLines(s, n)
           /\ n + 1 \notin AnsweredLines(s, n)
<1>1. AnsweredLines(s, n) \in SUBSET (1..n)
      BY DEF AnsweredLines
<1>2. IsFiniteSet(AnsweredLines(s, n))
      BY <1>1, FS_Interval, FS_Subset
<1>3. Cardinality(AnsweredLines(s, n)) \in Nat
      BY <1>2, FS_CardinalityType
<1> QED
    BY <1>1, <1>2, <1>3 DEF AnsweredLines

\* A line that is answered has its place among the responses to the first n.
LEMMA PlaceOfAnswer ==
    ASSUME NEW s \in Sessions, NEW n \in Nat, NEW i \in AnsweredLines(s, n)
    PROVE  Cardinality(AnsweredLines(s, i)) \in 1..Cardinality(AnsweredLines(s, n))
<1>1. i \in 1..n /\ i \in Nat /\ i \in AnsweredLines(s, i) /\ AnsweredLines(s, i) \in SUBSET AnsweredLines(s, n)
      BY DEF AnsweredLines
<1>2. /\ IsFiniteSet(AnsweredLines(s, n)) /\ IsFiniteSet(AnsweredLines(s, i))
      /\ Cardinality(AnsweredLines(s, n)) \in Nat /\ Cardinality(AnsweredLines(s, i)) \in Nat
      BY <1>1, AnsweredNext
<1>3. Cardinality(AnsweredLines(s, i)) <= Cardinality(AnsweredLines(s, n))
      BY <1>1, <1>2, FS_Subset
<1>4. Cardinality(AnsweredLines(s, i)) # 0
      BY <1>1, <1>2, FS_EmptySet
<1> QED
    BY <1>2, <1>3, <1>4

\* The first n lines of a session have their responses.
Answered(s, n) ==
    /\ Len(replies[s]) = Cardinality(AnsweredLines(s, n))
    /\ \A i \in AnsweredLines(s, n) :
          replies[s][Cardinality(AnsweredLines(s, i))] = ReplyTo(lines[s][i], i)

\* A line more is taken: it is answered if it is to be, and otherwise nothing is
\* said.
LEMMA AnswersOne ==
    ASSUME SessionTypes, NEW s \in Sessions, NEW n \in Nat, Answered(s, n),
           lines' = lines,
           IF lines[s][n + 1] \in {"garbage", "local", "call"}
             THEN replies'[s] = Append(replies[s], ReplyTo(lines[s][n + 1], n + 1))
             ELSE replies'[s] = replies[s]
    PROVE  Answered(s, n + 1)'
<1> DEFINE due(k) == AnsweredLines(s, k)
<1>1. \A k : due(k)' = due(k)
      BY DEF AnsweredLines
<1>2. replies[s] \in Seq(Nat)
      BY DEF SessionTypes
<1>3. CASE lines[s][n + 1] \in {"garbage", "local", "call"}
  <2>1. due(n + 1) = due(n) \cup {n + 1} /\ IsFiniteSet(due(n)) /\ n + 1 \notin due(n)
        BY <1>3, AnsweredNext
  <2>2. Cardinality(due(n + 1)) = Cardinality(due(n)) + 1 /\ Cardinality(due(n)) \in Nat
        BY <2>1, AnsweredNext, FS_AddElement
  <2>3. replies'[s] = Append(replies[s], ReplyTo(lines[s][n + 1], n + 1))
        BY <1>3
  <2> DEFINE r == ReplyTo(lines[s][n + 1], n + 1)
  <2>4. /\ Len(replies'[s]) = Len(replies[s]) + 1
        /\ \A k \in 1..Len(replies[s]) : replies'[s][k] = replies[s][k]
        /\ replies'[s][Len(replies[s]) + 1] = r
    <3> HIDE DEF r
    <3>1. replies'[s] = Append(replies[s], r)
          BY <2>3 DEF r
    <3> QED
        BY <1>2, <3>1
  <2>5. \A i \in due(n) : Cardinality(due(i)) \in 1..Len(replies[s])
        BY PlaceOfAnswer DEF Answered
  <2>6. \A i \in due(n) : replies'[s][Cardinality(due(i))] = ReplyTo(lines[s][i], i)
        BY <2>4, <2>5 DEF Answered
  <2>7. replies'[s][Cardinality(due(n + 1))] = ReplyTo(lines[s][n + 1], n + 1)
        BY <2>2, <2>4 DEF Answered
  <2>8. Len(replies'[s]) = Cardinality(due(n + 1))
        BY <2>2, <2>4 DEF Answered
  <2>9. \A i \in due(n + 1) : replies'[s][Cardinality(due(i))] = ReplyTo(lines[s][i], i)
        BY <2>1, <2>6, <2>7
  <2> HIDE DEF due
  <2>10. Len(replies'[s]) = Cardinality(due(n + 1)')
         /\ \A i \in due(n + 1)' : replies'[s][Cardinality(due(i)')] = ReplyTo(lines'[s][i], i)
         BY <1>1, <2>8, <2>9
  <2> QED
      BY <2>10 DEF Answered, due
<1>4. CASE lines[s][n + 1] \notin {"garbage", "local", "call"}
  <2>1. due(n + 1) = due(n) /\ replies'[s] = replies[s]
        BY <1>4, AnsweredNext
  <2>2. Len(replies'[s]) = Cardinality(due(n + 1))
        /\ \A i \in due(n + 1) : replies'[s][Cardinality(due(i))] = ReplyTo(lines[s][i], i)
        BY <2>1 DEF Answered
  <2> HIDE DEF due
  <2>3. Len(replies'[s]) = Cardinality(due(n + 1)')
        /\ \A i \in due(n + 1)' : replies'[s][Cardinality(due(i)')] = ReplyTo(lines'[s][i], i)
        BY <1>1, <2>2
  <2> QED
      BY <2>3 DEF Answered, due
<1> QED
    BY <1>3, <1>4

LEMMA AnsweredStays ==
    ASSUME NEW s \in Sessions, NEW n, Answered(s, n), lines' = lines, replies'[s] = replies[s]
    PROVE  Answered(s, n)'
<1>1. \A k : AnsweredLines(s, k)' = AnsweredLines(s, k)
      BY DEF AnsweredLines
<1> QED
    BY <1>1 DEF Answered

\* The line a session is at is a call while it waits for `cq`; all before it
\* have their responses.
InSession(s) ==
    /\ spc[s] = "calling" =>
          at[s] \in Nat \ {0} /\ lines[s][at[s]] = "call" /\ Answered(s, at[s] - 1)
    /\ spc[s] \notin {"calling", "killed"} => Answered(s, at[s])
RepliesInv == SessionTypes /\ \A s \in Sessions : InSession(s)

LEMMA RepliesInit == McpInit => RepliesInv
<1> SUFFICES ASSUME McpInit, NEW s \in Sessions PROVE InSession(s)
    BY SessionTypesInit DEF RepliesInv
<1>1. AnsweredLines(s, 0) = {}
      BY DEF AnsweredLines
<1>2. Cardinality(AnsweredLines(s, 0)) = 0
      BY <1>1, FS_EmptySet
<1>3. spc[s] = "new" /\ at[s] = 0 /\ replies[s] = <<>>
      BY DEF McpInit
<1> QED
    BY <1>1, <1>2, <1>3 DEF InSession, Answered

LEMMA RepliesStep ==
    ASSUME RepliesInv, [McpNext]_mcpVars PROVE RepliesInv'
<1>1. SessionTypes'
      BY SessionTypesStep DEF RepliesInv
<1>2. ASSUME NEW s \in Sessions PROVE InSession(s)'
  <2> USE DEF SGoto
  <2>1. SessionTypes /\ InSession(s) /\ at[s] \in Nat
        BY DEF RepliesInv, SessionTypes
  <2>2. spc \in [Sessions -> {"new", "starting", "read", "calling", "stop", "ended", "killed"}]
        BY <2>1 DEF SessionTypes, McpTypeOK
  <2>3. at \in [Sessions -> Nat] /\ replies \in [Sessions -> Seq(Nat)]
        BY <2>1 DEF SessionTypes
  <2>4. lines' = lines /\ at'[s] = at[s] /\ replies'[s] = replies[s]
             /\ (spc'[s] = spc[s] \/ spc'[s] = "killed"
                 \/ (spc[s] \notin {"calling", "killed"} /\ spc'[s] # "calling"))
          => InSession(s)'
        BY <2>1, AnsweredStays DEF InSession
  <2>5. CASE TakeLine(s)
    <3>0. PICK k \in Nat : k = at[s]
          BY <2>1
    <3>1. /\ spc[s] = "read" /\ lines[s][k + 1] # "call"
          /\ at'[s] = k + 1 /\ lines' = lines /\ spc' = spc
          /\ replies'[s] = IF AnswersAtOnce(lines[s][k + 1])
                             THEN Append(replies[s], ReplyTo(lines[s][k + 1], k + 1))
                             ELSE replies[s]
          BY <2>1, <2>3, <2>5, <3>0 DEF TakeLine
    <3>2. AnswersAtOnce(lines[s][k + 1]) <=> lines[s][k + 1] \in {"garbage", "local", "call"}
          BY <3>1 DEF AnswersAtOnce
    <3>3. Answered(s, k)
          BY <2>1, <3>0, <3>1 DEF InSession
    <3>4. Answered(s, k + 1)'
          BY <2>1, <3>1, <3>2, <3>3, AnswersOne
    <3> QED
        BY <3>1, <3>4 DEF InSession
  <2>6. CASE TakeCall(s)
    <3>0. PICK k \in Nat : k = at[s]
          BY <2>1
    <3>1. /\ spc[s] = "read" /\ lines[s][k + 1] = "call" /\ at'[s] = k + 1 /\ lines' = lines
          BY <2>1, <2>3, <2>6, <3>0 DEF TakeCall
    <3>2. Answered(s, k)
          BY <2>1, <3>0, <3>1 DEF InSession
    <3>3. CASE UNCHANGED replies /\ spc' = [spc EXCEPT ![s] = "calling"]
      <4>1. Answered(s, k)'
            BY <3>1, <3>2, <3>3, AnsweredStays
      <4>2. k + 1 \in Nat \ {0} /\ (k + 1) - 1 = k /\ spc'[s] = "calling"
            BY <2>2, <3>3
      <4> QED
          BY <3>1, <4>1, <4>2 DEF InSession
    <3>4. CASE replies' = [replies EXCEPT ![s] = Append(replies[s], k + 1)] /\ spc' = spc
      <4>1. ReplyTo(lines[s][k + 1], k + 1) = k + 1 /\ replies'[s] = Append(replies[s], k + 1)
            BY <2>3, <3>1, <3>4 DEF ReplyTo
      <4>2. Answered(s, k + 1)'
            BY <2>1, <3>1, <3>2, <4>1, AnswersOne
      <4> QED
          BY <3>1, <3>4, <4>2 DEF InSession
    <3> QED
        BY <2>6, <3>0, <3>3, <3>4 DEF TakeCall
  <2>7. CASE Reply(s)
    <3>1. /\ spc[s] = "calling" /\ lines' = lines /\ at' = at
          /\ replies'[s] = Append(replies[s], at[s]) /\ spc'[s] = "read"
          BY <2>2, <2>3, <2>7 DEF Reply
    <3>2. PICK k \in Nat : at[s] = k + 1 /\ at[s] - 1 = k
      <4>1. at[s] \in Nat \ {0}
            BY <2>1, <3>1 DEF InSession
      <4>2. at[s] - 1 \in Nat /\ at[s] = (at[s] - 1) + 1
            BY <4>1
      <4> QED
          BY <4>2
    <3>3. lines[s][k + 1] = "call" /\ Answered(s, k)
          BY <2>1, <3>1, <3>2 DEF InSession
    <3>4. ReplyTo(lines[s][k + 1], k + 1) = k + 1
          BY <3>3 DEF ReplyTo
    <3>5. Answered(s, k + 1)'
          BY <2>1, <3>1, <3>2, <3>3, <3>4, AnswersOne
    <3> QED
        BY <3>1, <3>2, <3>5 DEF InSession
  <2>8. CASE StartSession(s) \/ SessionStarted(s) \/ InputEnds(s) \/ EndSession(s) \/ Killed(s)
    <3>1. lines' = lines /\ at' = at /\ replies' = replies
          BY <2>8 DEF StartSession, SessionStarted, InputEnds, EndSession, Killed
    <3>2. spc'[s] = "killed" \/ (spc[s] \notin {"calling", "killed"} /\ spc'[s] # "calling")
          BY <2>2, <2>8 DEF StartSession, SessionStarted, InputEnds, EndSession, Killed
    <3> QED
        BY <2>4, <3>1, <3>2
  <2>9. ASSUME NEW q \in Sessions \ {s}, StartSession(q) \/ SessionStep(q) \/ InputEnds(q) \/ Killed(q)
        PROVE  lines' = lines /\ at'[s] = at[s] /\ replies'[s] = replies[s] /\ spc'[s] = spc[s]
    <3>1. CASE StartSession(q) \/ SessionStarted(q) \/ InputEnds(q)
          BY <2>2, <2>3, <3>1 DEF StartSession, SessionStarted, InputEnds
    <3>2. CASE EndSession(q) \/ Killed(q)
          BY <2>2, <2>3, <3>2 DEF EndSession, Killed
    <3>3. CASE TakeLine(q) \/ Reply(q)
          BY <2>2, <2>3, <3>3 DEF TakeLine, Reply
    <3>4. CASE TakeCall(q)
          BY <2>2, <2>3, <3>4 DEF TakeCall
    <3> QED
        BY <2>9, <3>1, <3>2, <3>3, <3>4 DEF SessionStep
  <2>10. CASE UNCHANGED sessionVars
    <3>1. lines' = lines /\ at'[s] = at[s] /\ replies'[s] = replies[s] /\ spc'[s] = spc[s]
          BY <2>10 DEF sessionVars
    <3> QED
        BY <2>4, <3>1
  <2> QED
    <3>1. CASE UNCHANGED sessionVars
          BY <2>10, <3>1
    <3>2. CASE StartSession(s) \/ SessionStep(s) \/ InputEnds(s) \/ Killed(s)
          BY <2>5, <2>6, <2>7, <2>8, <3>2 DEF SessionStep
    <3>3. ASSUME NEW q \in Sessions \ {s},
                 StartSession(q) \/ SessionStep(q) \/ InputEnds(q) \/ Killed(q)
          PROVE  InSession(s)'
          BY <2>4, <2>9, <3>3
    <3>4. UNCHANGED sessionVars
          \/ \E q \in Sessions : StartSession(q) \/ SessionStep(q) \/ InputEnds(q) \/ Killed(q)
          BY DEF McpNext, mcpVars
    <3> QED
        BY <3>1, <3>2, <3>3, <3>4
<1> QED
    BY <1>1, <1>2 DEF RepliesInv

\* main and handle_message: whatever comes in and however long the commands
\* take, the responses are those to the requests taken, one each and in order.
THEOREM EveryRequestAnswered == McpSpec => []RepliesInOrder
<1>1. RepliesInv => RepliesInOrder
      BY DEF RepliesInv, InSession, Answered, RepliesInOrder
<1> QED
    BY <1>1, RepliesInit, RepliesStep, PTL DEF McpSpec
=============================================================================
