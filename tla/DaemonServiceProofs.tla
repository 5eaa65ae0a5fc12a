-------------------------- MODULE DaemonServiceProofs --------------------------
(* Safety of DaemonService for any number of projects, processes and ports. *)
EXTENDS DaemonService, TLAPS

\* What a daemon's record holds at each point of its run.
DaemonShape ==
    \A d \in Daemons :
        /\ dpc[d] \in Live => dport[d] \in Ports
        /\ IF dpc[d] = "unborn" THEN dproj[d] = None ELSE dproj[d] \in Projects
        /\ dpc[d] = "handling" => served[d].req \in Requests

\* What a command's record holds at each point of its run.
ClientShape ==
    \A c \in Clients :
        /\ cpc[c] # "idle" => op[c] \in Commands /\ proj[c] \in Projects
        /\ cpc[c] \in {"connect", "dial", "awaitAuth", "awaitReply"}
              => op[c] \in Requests
        /\ cpc[c] = "dial" => cinfo[c] # None
        /\ outcome[c] = "answered" => proj[c] \in Projects

Shape ==
    /\ FileTypeOK
    /\ DaemonTypeOK /\ DaemonShape
    /\ ClientTypeOK /\ ClientShape

\* The values the actions put into connections are connections.
LEMMA NoConnTyped ==
    /\ NoConn \in Connection
    /\ NoConn.owner = None /\ NoConn.req = None /\ NoConn.auth = None
    /\ \A p \in Projects : ProbeConn(p) \in Connection
BY DEF NoConn, ProbeConn, Connection

\* Reading a message, writing a request or losing its owner leaves a connection
\* a connection.
LEMMA ConnectionEdits ==
    ASSUME NEW conn \in Connection
    PROVE  /\ [conn EXCEPT !.auth = None] \in Connection
           /\ \A r \in Requests : [conn EXCEPT !.req = r] \in Connection
           /\ \A c \in Clients : Orphan(c, conn) \in Connection
BY DEF Connection, Orphan

\* What those edits leave of the request a connection carries.
LEMMA ConnectionFields ==
    ASSUME NEW conn \in Connection
    PROVE  /\ conn.req \in Requests \cup {None}
           /\ \A r \in Requests : [conn EXCEPT !.req = r].req = r
           /\ \A c \in Clients : Orphan(c, conn).req = conn.req
BY DEF Connection, Orphan

\* A request may arrive on any connection that is served.
LEMMA RequestEdits ==
    ASSUME DaemonTypeOK, NEW r \in Requests, NEW e \in Daemons
    PROVE  /\ [served[e] EXCEPT !.req = r] \in Connection
           /\ [served[e] EXCEPT !.req = r].req = r
<1>1. served[e] \in Connection
      BY DEF DaemonTypeOK
<1> QED
    BY <1>1, ConnectionEdits, ConnectionFields

\* The first connection of the queue is served.
LEMMA AcceptTyped ==
    ASSUME DaemonTypeOK, DaemonShape, NEW d \in Daemons, dpc[d] = "accept",
           NEW conn \in Connection, NEW rest \in Seq(Connection),
           dpc' = [dpc EXCEPT ![d] = "auth"], UNCHANGED <<dproj, dport, flag>>,
           served' = [served EXCEPT ![d] = conn], backlog' = [backlog EXCEPT ![d] = rest]
    PROVE  DaemonTypeOK' /\ DaemonShape'
<1>1. DaemonTypeOK'
  <2>1. dpc' \in [Daemons -> DaemonPC]
        BY DEF DaemonTypeOK, DaemonPC, Live
  <2>2. served' \in [Daemons -> Connection]
        BY DEF DaemonTypeOK
  <2> DEFINE Queue == Seq(Connection)
  <2>3. backlog \in [Daemons -> Queue] /\ rest \in Queue
        BY DEF DaemonTypeOK
  <2> HIDE DEF Queue
  <2>4. backlog' \in [Daemons -> Queue]
        BY <2>3
  <2> QED
      BY <2>1, <2>2, <2>4 DEF DaemonTypeOK, Queue
<1>2. ASSUME NEW e \in Daemons
      PROVE  /\ dpc'[e] \in Live => dpc[e] \in Live
             /\ dpc'[e] = "unborn" <=> dpc[e] = "unborn"
             /\ dpc'[e] = "handling" => dpc[e] = "handling" /\ served'[e] = served[e]
  <2>1. CASE e = d
        BY <2>1 DEF DaemonTypeOK, Live
  <2>2. CASE e # d
        BY <2>2 DEF DaemonTypeOK
  <2> QED
      BY <2>1, <2>2
<1> QED
    BY <1>1, <1>2 DEF DaemonShape

\* What DaemonClient::connect puts in a daemon's backlog is a connection.
LEMMA DialConnTyped ==
    ASSUME NEW c \in Clients, NEW p \in Projects, NEW i \in DaemonInfo
    PROVE  [owner |-> c, for |-> p, auth |-> i.token, req |-> None] \in Connection
BY DEF DaemonInfo, Connection

\* A backlog stays a sequence of connections when one is queued, accepted or
\* abandoned.
LEMMA QueueEdits ==
    ASSUME NEW s \in Seq(Connection)
    PROVE  /\ \A conn \in Connection : Append(s, conn) \in Seq(Connection)
           /\ s # <<>> => Head(s) \in Connection /\ Tail(s) \in Seq(Connection)
           /\ \A c \in Clients :
                 [i \in 1..Len(s) |-> Orphan(c, s[i])] \in Seq(Connection)
<1>1. \A conn \in Connection : Append(s, conn) \in Seq(Connection)
      OBVIOUS
<1>2. s # <<>> => Head(s) \in Connection /\ Tail(s) \in Seq(Connection)
      OBVIOUS
<1>3. ASSUME NEW c \in Clients
      PROVE  [i \in 1..Len(s) |-> Orphan(c, s[i])] \in Seq(Connection)
  <2>1. \A i \in 1..Len(s) : Orphan(c, s[i]) \in Connection
    <3>1. \A i \in 1..Len(s) : s[i] \in Connection
          OBVIOUS
    <3>2. QED
          BY <3>1, ConnectionEdits
  <2>2. Len(s) \in Nat
        OBVIOUS
  <2>3. QED
        BY <2>1, <2>2
<1>4. QED
      BY <1>1, <1>2, <1>3

\* A command that ends leaves a record of an idle command.
LEMMA FinishKeeps ==
    ASSUME NEW c \in Clients, Finish(c), ClientTypeOK, ClientShape
    PROVE  ClientTypeOK' /\ ClientShape'
BY NoneIsFresh DEF Finish, ClientTypeOK, ClientShape, ClientPC

\* A probe that finds no daemon leaves its command well typed.
LEMMA NotRunningKeeps ==
    ASSUME NEW c \in Clients, NotRunning(c), cpc[c] = "probe",
           ClientTypeOK, ClientShape
    PROVE  ClientTypeOK' /\ ClientShape'
<1>1. CASE Finish(c)
      BY <1>1, FinishKeeps
<1>2. CASE ~ Finish(c)
      BY <1>2, NoneIsFresh DEF NotRunning, ClientTypeOK, ClientShape, ClientPC
<1>3. QED
      BY <1>1, <1>2

\* Closing a client's end changes owners only.
LEMMA CloseKeeps ==
    ASSUME NEW c \in Clients, CloseClientEnd(c), UNCHANGED <<dpc, dproj, dport, flag>>,
           DaemonTypeOK, DaemonShape
    PROVE  DaemonTypeOK' /\ DaemonShape'
<1>1. served' \in [Daemons -> Connection]
      BY ConnectionEdits DEF DaemonTypeOK, CloseClientEnd
<1>2. backlog' \in [Daemons -> Seq(Connection)]
      BY QueueEdits DEF DaemonTypeOK, CloseClientEnd
<1>3. \A e \in Daemons : served'[e].req = served[e].req
      BY ConnectionFields DEF DaemonTypeOK, CloseClientEnd
<1>4. QED
      BY <1>1, <1>2, <1>3 DEF DaemonTypeOK, DaemonShape

\* Every daemon unborn, every client idle and no file: Shape holds at first.
LEMMA ShapeInit == Init => Shape
BY NoneIsFresh, NoConnTyped DEF Init, Shape, FileTypeOK, DaemonTypeOK, DaemonShape,
   ClientTypeOK, ClientShape, DaemonPC, ClientPC, Live

\* No step of a daemon, a client or the system breaks Shape: one step of the
\* proof for each action.
LEMMA ShapeStep == Shape /\ [Next]_vars => Shape'
<1> SUFFICES ASSUME Shape, [Next]_vars PROVE Shape'
    OBVIOUS
<1> USE NoneIsFresh DEF Shape
<1>1. ASSUME NEW d \in Daemons, Bind(d) PROVE Shape'
  <2> USE <1>1 DEF Bind, Goto
  <2>1. FileTypeOK'
        BY DEF FileTypeOK, fileVars
  <2>2. DaemonTypeOK' /\ DaemonShape'
        BY NoConnTyped DEF DaemonTypeOK, DaemonPC, Live, DaemonShape, ClientShape, daemonVars
  <2>3. ClientTypeOK' /\ ClientShape'
        BY DEF ClientTypeOK, ClientShape, clientVars
  <2>4. QED
        BY <2>1, <2>2, <2>3
<1>2. ASSUME NEW d \in Daemons, TruncateInfo(d) PROVE Shape'
  <2> USE <1>2 DEF TruncateInfo, Goto
  <2>1. FileTypeOK'
        BY DEF FileTypeOK, fileVars
  <2>2. DaemonTypeOK' /\ DaemonShape'
        BY NoConnTyped DEF DaemonTypeOK, DaemonPC, Live, DaemonShape, ClientShape, daemonVars
  <2>3. ClientTypeOK' /\ ClientShape'
        BY DEF ClientTypeOK, ClientShape, clientVars
  <2>4. QED
        BY <2>1, <2>2, <2>3
<1>3. ASSUME NEW d \in Daemons, WriteInfo(d) PROVE Shape'
  <2> USE <1>3 DEF WriteInfo, Goto
  <2>1. FileTypeOK'
    <3>1. [port |-> dport[d], token |-> d] \in DaemonInfo
          BY DEF DaemonInfo, DaemonShape, Live
    <3>2. QED
          BY <3>1 DEF FileTypeOK
  <2>2. DaemonTypeOK' /\ DaemonShape'
        BY NoConnTyped DEF DaemonTypeOK, DaemonPC, Live, DaemonShape, ClientShape, daemonVars
  <2>3. ClientTypeOK' /\ ClientShape'
        BY DEF ClientTypeOK, ClientShape, clientVars
  <2>4. QED
        BY <2>1, <2>2, <2>3
<1>4. ASSUME NEW d \in Daemons, CheckFlag(d) PROVE Shape'
  <2> USE <1>4 DEF CheckFlag, Goto
  <2>1. FileTypeOK'
        BY DEF FileTypeOK, fileVars
  <2>2. DaemonTypeOK' /\ DaemonShape'
        BY NoConnTyped DEF DaemonTypeOK, DaemonPC, Live, DaemonShape, ClientShape, daemonVars
  <2>3. ClientTypeOK' /\ ClientShape'
        BY DEF ClientTypeOK, ClientShape, clientVars
  <2>4. QED
        BY <2>1, <2>2, <2>3
<1>5. ASSUME NEW d \in Daemons, Accept(d) PROVE Shape'
  <2> USE <1>5 DEF Accept, Goto
  <2>1. FileTypeOK'
        BY DEF FileTypeOK, fileVars
  <2>2. DaemonTypeOK' /\ DaemonShape'
    <3>1. backlog[d] \in Seq(Connection)
          BY DEF DaemonTypeOK
    <3>2. backlog[d] # <<>> => Head(backlog[d]) \in Connection
                               /\ Tail(backlog[d]) \in Seq(Connection)
          BY <3>1, QueueEdits
    <3>3. CASE backlog[d] = <<>>
          BY <3>3 DEF DaemonTypeOK, DaemonPC, Live, DaemonShape
    <3>4. CASE backlog[d] # <<>>
      <4>1. /\ dpc[d] = "accept" /\ dpc' = [dpc EXCEPT ![d] = "auth"]
            /\ UNCHANGED <<dproj, dport, flag>>
            /\ served'  = [served EXCEPT ![d] = Head(backlog[d])]
            /\ backlog' = [backlog EXCEPT ![d] = Tail(backlog[d])]
            BY <3>4
      <4>2. QED
            BY <3>2, <3>4, <4>1, AcceptTyped
    <3>5. QED
          BY <3>3, <3>4
  <2>3. ClientTypeOK' /\ ClientShape'
        BY DEF ClientTypeOK, ClientShape, clientVars
  <2>4. QED
        BY <2>1, <2>2, <2>3
<1>6. ASSUME NEW d \in Daemons, ReadAuth(d) PROVE Shape'
  <2> USE <1>6 DEF ReadAuth, Goto, Respond, Hangup
  <2>1. FileTypeOK'
        BY DEF FileTypeOK, fileVars
  <2>2. DaemonTypeOK' /\ DaemonShape'
    <3>1. [served[d] EXCEPT !.auth = None] \in Connection
          BY ConnectionEdits DEF DaemonTypeOK
    <3>2. served' \in [Daemons -> Connection]
          BY <3>1, NoConnTyped DEF DaemonTypeOK
    <3>3. dpc'[d] \in {"request", "loop"} /\ dpc' \in [Daemons -> DaemonPC]
          BY DEF DaemonTypeOK, DaemonPC, Live
    <3>4. \A e \in Daemons \ {d} : dpc'[e] = dpc[e] /\ served'[e] = served[e]
          BY DEF DaemonTypeOK
    <3>5. QED
          BY <3>2, <3>3, <3>4 DEF DaemonTypeOK, DaemonShape, Live
  <2>3. ClientTypeOK' /\ ClientShape'
        BY DEF ClientTypeOK, ClientShape, ClientPC, Responses, Commands, clientVars
  <2>4. QED
        BY <2>1, <2>2, <2>3
<1>7. ASSUME NEW d \in Daemons, ReadRequest(d) PROVE Shape'
  <2> USE <1>7 DEF ReadRequest, Goto, Hangup
  <2>1. FileTypeOK'
        BY DEF FileTypeOK, fileVars
  <2>2. DaemonTypeOK' /\ DaemonShape'
    <3>1. served[d].req \in Requests \cup {None}
          BY ConnectionFields DEF DaemonTypeOK
    <3>2. served' \in [Daemons -> Connection]
          BY NoConnTyped DEF DaemonTypeOK
    <3>3. /\ dpc'[d] = "loop" \/ (dpc'[d] = "handling" /\ served'[d].req \in Requests)
          /\ dpc' \in [Daemons -> DaemonPC]
          BY <3>1 DEF DaemonTypeOK, DaemonPC, Live
    <3>4. \A e \in Daemons \ {d} : dpc'[e] = dpc[e] /\ served'[e] = served[e]
          BY DEF DaemonTypeOK
    <3>5. QED
          BY <3>2, <3>3, <3>4 DEF DaemonTypeOK, DaemonShape, Live
  <2>3. ClientTypeOK' /\ ClientShape'
        BY DEF ClientTypeOK, ClientShape, clientVars
  <2>4. QED
        BY <2>1, <2>2, <2>3
<1>8. ASSUME NEW d \in Daemons, HandleRequest(d) PROVE Shape'
  <2> USE <1>8 DEF HandleRequest, Goto, Respond
  <2>1. FileTypeOK'
        BY DEF FileTypeOK, fileVars
  <2>2. DaemonTypeOK' /\ DaemonShape'
        BY NoConnTyped DEF DaemonTypeOK, DaemonPC, Live, DaemonShape, ClientShape, daemonVars
  <2>3. ClientTypeOK' /\ ClientShape'
    <3>1. Answers(served[d].req) \subseteq Responses
          BY DEF Answers, Responses, DaemonShape, Requests
    <3>2. QED
          BY <3>1 DEF ClientTypeOK, ClientShape
  <2>4. QED
        BY <2>1, <2>2, <2>3
<1>9. ASSUME NEW d \in Daemons, RemoveOwnInfo(d) PROVE Shape'
  <2> USE <1>9 DEF RemoveOwnInfo, RemoveInfo, Goto
  <2>1. FileTypeOK'
        BY DEF FileTypeOK, fileVars
  <2>2. DaemonTypeOK' /\ DaemonShape'
        BY NoConnTyped DEF DaemonTypeOK, DaemonPC, Live, DaemonShape, ClientShape, daemonVars
  <2>3. ClientTypeOK' /\ ClientShape'
        BY DEF ClientTypeOK, ClientShape, clientVars
  <2>4. QED
        BY <2>1, <2>2, <2>3
<1>10. ASSUME NEW d \in Daemons, Exit(d) PROVE Shape'
  <2> USE <1>10 DEF Exit, Gone, Goto
  <2>1. FileTypeOK'
        BY DEF FileTypeOK, fileVars
  <2>2. DaemonTypeOK' /\ DaemonShape'
        BY NoConnTyped DEF DaemonTypeOK, DaemonPC, Live, DaemonShape, ClientShape, daemonVars
  <2>3. ClientTypeOK' /\ ClientShape'
        BY DEF ClientTypeOK, ClientShape, clientVars
  <2>4. QED
        BY <2>1, <2>2, <2>3
<1>11. ASSUME NEW d \in Daemons, WriteInfoFails(d) PROVE Shape'
  <2> USE <1>11 DEF WriteInfoFails, Gone, Goto
  <2>1. FileTypeOK'
        BY DEF FileTypeOK, fileVars
  <2>2. DaemonTypeOK' /\ DaemonShape'
        BY NoConnTyped DEF DaemonTypeOK, DaemonPC, Live, DaemonShape, ClientShape, daemonVars
  <2>3. ClientTypeOK' /\ ClientShape'
        BY DEF ClientTypeOK, ClientShape, clientVars
  <2>4. QED
        BY <2>1, <2>2, <2>3
<1>12. ASSUME NEW d \in Daemons, Signal(d) PROVE Shape'
  <2> USE <1>12 DEF Signal
  <2>1. FileTypeOK'
        BY DEF FileTypeOK, fileVars
  <2>2. DaemonTypeOK' /\ DaemonShape'
        BY NoConnTyped DEF DaemonTypeOK, DaemonPC, Live, DaemonShape, ClientShape, daemonVars
  <2>3. ClientTypeOK' /\ ClientShape'
        BY DEF ClientTypeOK, ClientShape, clientVars
  <2>4. QED
        BY <2>1, <2>2, <2>3
<1>13. ASSUME NEW d \in Daemons, Crash(d) PROVE Shape'
  <2> USE <1>13 DEF Crash, Gone, Goto
  <2>1. FileTypeOK'
        BY DEF FileTypeOK, fileVars
  <2>2. DaemonTypeOK' /\ DaemonShape'
        BY NoConnTyped DEF DaemonTypeOK, DaemonPC, Live, DaemonShape, ClientShape, daemonVars
  <2>3. ClientTypeOK' /\ ClientShape'
        BY DEF ClientTypeOK, ClientShape, clientVars
  <2>4. QED
        BY <2>1, <2>2, <2>3
<1>14. ASSUME NEW c \in Clients, ProbeRead(c) PROVE Shape'
  <2> USE <1>14 DEF ProbeRead
  <2>1. FileTypeOK'
        BY DEF FileTypeOK, fileVars
  <2>2. DaemonTypeOK' /\ DaemonShape'
        BY DEF DaemonTypeOK, DaemonShape, daemonVars
  <2>3. ClientTypeOK' /\ ClientShape'
    <3>1. CASE NotRunning(c)
          BY <3>1, NotRunningKeeps
    <3>2. CASE Finish(c)
          BY <3>2, FinishKeeps
    <3>3. CASE ~ NotRunning(c) /\ ~ Finish(c)
          BY <3>3 DEF FileTypeOK, ClientTypeOK, ClientShape, ClientPC, Commands
    <3>4. QED
          BY <3>1, <3>2, <3>3
  <2>4. QED
        BY <2>1, <2>2, <2>3
<1>15. ASSUME NEW c \in Clients, ProbeConnect(c) PROVE Shape'
  <2> USE <1>15 DEF ProbeConnect
  <2>1. FileTypeOK'
        BY DEF FileTypeOK, fileVars
  <2>2. DaemonTypeOK' /\ DaemonShape'
    <3>1. ProbeConn(proj[c]) \in Connection
          BY NoConnTyped DEF ClientShape
    <3>2. \A e \in Daemons : Append(backlog[e], ProbeConn(proj[c])) \in Seq(Connection)
          BY <3>1, QueueEdits DEF DaemonTypeOK
    <3>3. backlog' \in [Daemons -> Seq(Connection)]
      <4>1. CASE UNCHANGED backlog
            BY <4>1 DEF DaemonTypeOK
      <4>2. ASSUME NEW e \in Daemons,
                   backlog' = [backlog EXCEPT ![e] = Append(backlog[e], ProbeConn(proj[c]))]
            PROVE  backlog' \in [Daemons -> Seq(Connection)]
            BY <3>2, <4>2 DEF DaemonTypeOK
      <4>3. QED
            BY <4>1, <4>2
    <3>4. QED
          BY <3>3 DEF DaemonTypeOK, DaemonShape
  <2>3. ClientTypeOK' /\ ClientShape'
    <3>1. CASE NotRunning(c)
          BY <3>1, NotRunningKeeps
    <3>2. CASE Finish(c)
          BY <3>2, FinishKeeps
    <3>3. CASE ~ NotRunning(c) /\ ~ Finish(c)
          BY <3>3 DEF FileTypeOK, ClientTypeOK, ClientShape, ClientPC, Commands
    <3>4. QED
          BY <3>1, <3>2, <3>3
  <2>4. QED
        BY <2>1, <2>2, <2>3
<1>16. ASSUME NEW c \in Clients, Spawn(c) PROVE Shape'
  <2> USE <1>16 DEF Spawn, Goto
  <2>1. FileTypeOK'
        BY DEF FileTypeOK, fileVars
  <2>2. DaemonTypeOK' /\ DaemonShape'
        BY NoConnTyped DEF DaemonTypeOK, DaemonPC, Live, DaemonShape, ClientShape, daemonVars
  <2>3. ClientTypeOK' /\ ClientShape'
        BY FinishKeeps
  <2>4. QED
        BY <2>1, <2>2, <2>3
<1>17. ASSUME NEW c \in Clients, SpawnFails(c) PROVE Shape'
  <2> USE <1>17 DEF SpawnFails
  <2>1. FileTypeOK'
        BY DEF FileTypeOK, fileVars
  <2>2. DaemonTypeOK' /\ DaemonShape'
        BY DEF DaemonTypeOK, DaemonShape, daemonVars
  <2>3. ClientTypeOK' /\ ClientShape'
        BY FinishKeeps
  <2>4. QED
        BY <2>1, <2>2, <2>3
<1>18. ASSUME NEW c \in Clients, ReadInfo(c) PROVE Shape'
  <2> USE <1>18 DEF ReadInfo
  <2>1. FileTypeOK'
        BY DEF FileTypeOK, fileVars
  <2>2. DaemonTypeOK' /\ DaemonShape'
        BY DEF DaemonTypeOK, DaemonShape, daemonVars
  <2>3. ClientTypeOK' /\ ClientShape'
    <3>1. CASE Finish(c)
          BY <3>1, FinishKeeps
    <3>2. CASE ~ Finish(c)
          BY <3>2 DEF FileTypeOK, ClientTypeOK, ClientShape, ClientPC
    <3>3. QED
          BY <3>1, <3>2
  <2>4. QED
        BY <2>1, <2>2, <2>3
<1>19. ASSUME NEW c \in Clients, Dial(c) PROVE Shape'
  <2> USE <1>19 DEF Dial, RemoveInfo
  <2>1. FileTypeOK'
        BY DEF FileTypeOK, fileVars
  <2>2. DaemonTypeOK' /\ DaemonShape'
    <3>1. DialConn(c) \in Connection
          BY DialConnTyped DEF ClientTypeOK, ClientShape, DialConn
    <3>2. \A e \in Daemons : Append(backlog[e], DialConn(c)) \in Seq(Connection)
          BY <3>1, QueueEdits DEF DaemonTypeOK
    <3>3. backlog' \in [Daemons -> Seq(Connection)]
      <4>1. CASE UNCHANGED backlog
            BY <4>1 DEF DaemonTypeOK
      <4>2. ASSUME NEW e \in Daemons,
                   backlog' = [backlog EXCEPT ![e] = Append(backlog[e], DialConn(c))]
            PROVE  backlog' \in [Daemons -> Seq(Connection)]
            BY <3>2, <4>2 DEF DaemonTypeOK
      <4>3. QED
            BY <4>1, <4>2
    <3>4. QED
          BY <3>3 DEF DaemonTypeOK, DaemonShape
  <2>3. ClientTypeOK' /\ ClientShape'
    <3>1. CASE Finish(c)
          BY <3>1, FinishKeeps
    <3>2. CASE ~ Finish(c)
          BY <3>2 DEF FileTypeOK, ClientTypeOK, ClientShape, ClientPC
    <3>3. QED
          BY <3>1, <3>2
  <2>4. QED
        BY <2>1, <2>2, <2>3
<1>20. ASSUME NEW c \in Clients, GetAuth(c) PROVE Shape'
  <2> USE <1>20 DEF GetAuth
  <2>1. FileTypeOK'
        BY DEF FileTypeOK, fileVars
  <2>2. DaemonTypeOK' /\ DaemonShape'
    <3>1. CASE CloseClientEnd(c)
          BY <3>1, CloseKeeps
    <3>2. CASE served' = [e \in Daemons |-> IF served[e].owner = c
                            THEN [served[e] EXCEPT !.req = op[c]] ELSE served[e]]
               /\ UNCHANGED backlog
      <4>1. op[c] \in Requests
            BY DEF ClientShape
      <4>2. \A e \in Daemons : /\ [served[e] EXCEPT !.req = op[c]] \in Connection
                              /\ [served[e] EXCEPT !.req = op[c]].req = op[c]
            BY <4>1, RequestEdits
      <4>3. /\ served' \in [Daemons -> Connection]
            /\ \A e \in Daemons : served[e].req \in Requests
                                     => served'[e].req \in Requests
            BY <3>2, <4>1, <4>2 DEF DaemonTypeOK
      <4>4. QED
            BY <3>2, <4>3 DEF DaemonTypeOK, DaemonShape
    <3>3. QED
          BY <3>1, <3>2
  <2>3. ClientTypeOK' /\ ClientShape'
    <3>1. CASE Finish(c)
          BY <3>1, FinishKeeps
    <3>2. CASE ~ Finish(c)
          BY <3>2 DEF FileTypeOK, ClientTypeOK, ClientShape, ClientPC
    <3>3. QED
          BY <3>1, <3>2
  <2>4. QED
        BY <2>1, <2>2, <2>3
<1>21. ASSUME NEW c \in Clients, GetReply(c) PROVE Shape'
  <2> USE <1>21 DEF GetReply
  <2>1. FileTypeOK'
        BY DEF FileTypeOK, fileVars
  <2>2. DaemonTypeOK' /\ DaemonShape'
        BY CloseKeeps
  <2>3. ClientTypeOK' /\ ClientShape'
    <3>1. CASE Finish(c)
          BY <3>1, FinishKeeps
    <3>2. CASE ~ Finish(c)
          BY <3>2 DEF FileTypeOK, ClientTypeOK, ClientShape, ClientPC
    <3>3. QED
          BY <3>1, <3>2
  <2>4. QED
        BY <2>1, <2>2, <2>3
<1>22. ASSUME NEW c \in Clients, Begin(c) PROVE Shape'
  <2> USE <1>22 DEF Begin
  <2>1. FileTypeOK'
        BY DEF FileTypeOK, fileVars
  <2>2. DaemonTypeOK' /\ DaemonShape'
        BY DEF DaemonTypeOK, DaemonShape, daemonVars
  <2>3. ClientTypeOK' /\ ClientShape'
        BY DEF ClientTypeOK, ClientShape, ClientPC, Responses, Commands, clientVars
  <2>4. QED
        BY <2>1, <2>2, <2>3
<1>23. ASSUME NEW c \in Clients, Kill(c) PROVE Shape'
  <2> USE <1>23 DEF Kill
  <2>1. FileTypeOK'
        BY DEF FileTypeOK, fileVars
  <2>2. DaemonTypeOK' /\ DaemonShape'
        BY CloseKeeps
  <2>3. ClientTypeOK' /\ ClientShape'
        BY FinishKeeps
  <2>4. QED
        BY <2>1, <2>2, <2>3
<1>24. CASE ClearAllCaches
  <2>1. FileTypeOK'
        BY <1>24 DEF ClearAllCaches, FileTypeOK
  <2>2. QED
        BY <1>24, <2>1 DEF ClearAllCaches, daemonVars, clientVars, DaemonTypeOK,
           DaemonShape, ClientTypeOK, ClientShape
<1>25. CASE UNCHANGED vars
       BY <1>25 DEF vars, fileVars, daemonVars, clientVars, FileTypeOK,
          DaemonTypeOK, DaemonShape, ClientTypeOK, ClientShape
<1>26. QED
       BY <1>1, <1>2, <1>3, <1>4, <1>5, <1>6, <1>7, <1>8, <1>9, <1>10, <1>11,
          <1>12, <1>13, <1>14, <1>15, <1>16, <1>17, <1>18, <1>19, <1>20, <1>21,
          <1>22, <1>23, <1>24, <1>25 DEF Next, DaemonStep, ClientStep, Environment

\* Shape is an invariant of the specification.
LEMMA ShapeAlways == Spec => []Shape
BY ShapeInit, ShapeStep, PTL DEF Spec

\* The variables hold what the code's types say, in every reachable state.
THEOREM TypeCorrect == Spec => []TypeOK
<1>1. Shape => TypeOK
      BY DEF Shape, TypeOK
<1>2. QED
      BY <1>1, ShapeAlways, PTL

-----------------------------------------------------------------------------
(***************************************************************************)
(* Requests and answers stay within one project, for any number of daemons, *)
(* commands and ports: the token in an info file is that of a daemon of the *)
(* file's project, a connection carries the token its sender read, and a    *)
(* daemon goes on only with a connection that carries its own.              *)
(***************************************************************************)

Awaiting == {"awaitAuth", "awaitReply"}

InfoOwn ==
    \A p \in Projects :
        info[p] # None =>
            LET d == info[p].token IN
            /\ dproj[d] = p
            /\ dpc[d] \notin {"unborn", "boot"}
            /\ dpc[d] \in Live => dport[d] = info[p].port

\* What command c has read and been told concerns daemons of its project.
ClientOwn(c) ==
    /\ cinfo[c] # None =>
          cpc[c] \in {"probe", "dial"} /\ dproj[cinfo[c].token] = proj[c]
    /\ inbox[c] # None => cpc[c] \in Awaiting
    /\ outcome[c] = "answered" => cpc[c] = "idle"
    /\ inbox[c] = "AuthOk" \/ cpc[c] = "awaitReply" \/ outcome[c] = "answered"
          => peer[c] # None /\ dproj[peer[c]] = proj[c]

\* A connection at daemon d: its token is from its project, its owner waits.
ConnOwn(d, conn) ==
    /\ conn.auth # None => dproj[conn.auth] = conn.for /\ conn.for # None
    /\ conn.owner # None =>
          /\ cpc[conn.owner] \in Awaiting
          /\ peer[conn.owner] = d
          /\ proj[conn.owner] = conn.for

Holds(d, conn) ==
    conn = served[d] \/ \E i \in DOMAIN backlog[d] : conn = backlog[d][i]

QueueOwn ==
    \A d \in Daemons, conn \in Connection : Holds(d, conn) => ConnOwn(d, conn)

OwnProject ==
    /\ InfoOwn
    /\ \A c \in Clients : ClientOwn(c)
    /\ QueueOwn
    /\ RequestsAreForOwnProject

-----------------------------------------------------------------------------
(* What the steps have in common *)

\* A daemon's project is set once, when its process is spawned.
ProjectsKept == \A d \in Daemons : dproj[d] # None => dproj'[d] = dproj[d]

\* A daemon process is of one project all its life.
LEMMA DprojStable == ASSUME Shape, Next PROVE ProjectsKept
BY DEF ProjectsKept, Shape, DaemonTypeOK, DaemonShape, Next, DaemonStep, ClientStep,
   Environment, Bind, TruncateInfo, WriteInfo, CheckFlag, Accept, ReadAuth,
   ReadRequest, HandleRequest, RemoveOwnInfo, Exit, WriteInfoFails, Signal, Crash,
   Gone, ProbeRead, ProbeConnect, Spawn, SpawnFails, ReadInfo, Dial, GetAuth,
   GetReply, Begin, Kill, ClearAllCaches, daemonVars

\* The records of all commands but c stay.
OthersKept(c) ==
    \A b \in Clients \ {c} :
        /\ cpc'[b] = cpc[b] /\ op'[b] = op[b] /\ proj'[b] = proj[b]
        /\ cinfo'[b] = cinfo[b] /\ peer'[b] = peer[b]
        /\ inbox'[b] = inbox[b] /\ outcome'[b] = outcome[b]

\* A command that finishes lets go of what it read and of its answer.
LEMMA FinishRecord ==
    ASSUME NEW c \in Clients, ClientTypeOK, Finish(c)
    PROVE  /\ OthersKept(c)
           /\ cpc'[c] = "idle" /\ cinfo'[c] = None /\ inbox'[c] = None
           /\ outcome'[c] = "none"
BY DEF Finish, OthersKept, ClientTypeOK

\* A command that finds no daemon finishes, or goes on to spawn one.
LEMMA NotRunningRecord ==
    ASSUME NEW c \in Clients, ClientTypeOK, NotRunning(c)
    PROVE  /\ OthersKept(c)
           /\ cpc'[c] \in {"idle", "spawn"} /\ cinfo'[c] = None
           /\ inbox'[c] \in {None, inbox[c]}
           /\ outcome'[c] \in {"none", outcome[c]}
           /\ outcome'[c] = "answered" => UNCHANGED <<proj, peer>>
<1>1. CASE Finish(c)
      BY <1>1, FinishRecord
<1>2. CASE ~ Finish(c)
      BY <1>2 DEF NotRunning, OthersKept, ClientTypeOK
<1>3. QED
      BY <1>1, <1>2

\* A command whose record stays keeps its facts.
LEMMA RecordKept ==
    ASSUME NEW c \in Clients, Shape, ProjectsKept, ClientOwn(c),
           cpc'[c] = cpc[c], proj'[c] = proj[c], cinfo'[c] = cinfo[c],
           peer'[c] = peer[c], inbox'[c] = inbox[c], outcome'[c] = outcome[c]
    PROVE  ClientOwn(c)'
<1>1. cinfo[c] # None => cinfo[c].token \in Daemons /\ proj[c] \in Projects
      BY DEF Shape, ClientTypeOK, ClientShape, DaemonInfo, ClientOwn
<1>2. peer[c] # None => peer[c] \in Daemons
      BY DEF Shape, ClientTypeOK
<1>3. inbox[c] = "AuthOk" \/ cpc[c] = "awaitReply" \/ outcome[c] = "answered"
         => proj[c] \in Projects
      BY NoneIsFresh DEF Shape, ClientTypeOK, ClientShape, ClientOwn, Awaiting, Responses
<1>4. QED
      BY <1>1, <1>2, <1>3, NoneIsFresh DEF ClientOwn, ProjectsKept

\* A step of one client leaves what the others know true.
LEMMA OthersOwn ==
    ASSUME NEW c \in Clients, Shape, ProjectsKept, OthersKept(c),
           \A b \in Clients : ClientOwn(b)
    PROVE  \A b \in Clients \ {c} : ClientOwn(b)'
BY RecordKept DEF OthersKept

\* new is old with messages read, a request written or its owner gone.
Derived(new, old) ==
    /\ new.for = old.for
    /\ new.auth \in {old.auth, None}
    /\ new.owner \in {old.owner, None}

Blank(conn) == conn.owner = None /\ conn.auth = None

\* Each connection of the next state is blank or derives from one that the
\* same daemon has, and no command of K owns one.
ConnsDerive(K) ==
    \A d \in Daemons, conn \in Connection :
        Holds(d, conn)' =>
            /\ conn.owner \notin K
            /\ \/ Blank(conn)
               \/ \E old \in Connection : Holds(d, old) /\ Derived(conn, old)

\* A connection that derives from one of a daemon's own stays its own.
LEMMA ConnKept ==
    ASSUME ProjectsKept, NEW d \in Daemons, NEW conn \in Connection, NEW old \in Connection,
           ConnOwn(d, old), Derived(conn, old),
           conn.owner # None =>
               LET b == conn.owner IN
               /\ cpc[b] \in Awaiting => cpc'[b] \in Awaiting
               /\ proj'[b] = proj[b] /\ peer'[b] = peer[b]
    PROVE  ConnOwn(d, conn)'
<1>1. conn.owner \in Clients \cup {None} /\ conn.auth \in Daemons \cup {None}
      BY DEF Connection
<1>2. QED
      BY <1>1 DEF Derived, ConnOwn, ProjectsKept

\* The waiting commands outside K keep waiting, for the same daemon.
WaitersKept(K) ==
    \A b \in Clients \ K :
        /\ cpc[b] \in Awaiting => cpc'[b] \in Awaiting
        /\ proj'[b] = proj[b] /\ peer'[b] = peer[b]

\* The facts about connections survive when all derive from earlier ones.
LEMMA QueueKept ==
    ASSUME ProjectsKept, QueueOwn, NEW K \in SUBSET Clients, ConnsDerive(K),
           WaitersKept(K)
    PROVE  QueueOwn'
<1> SUFFICES ASSUME NEW d \in Daemons, NEW conn \in Connection, Holds(d, conn)'
             PROVE  ConnOwn(d, conn)'
    BY DEF QueueOwn
<1>1. CASE Blank(conn)
      BY <1>1 DEF Blank, ConnOwn
<1>2. ASSUME NEW old \in Connection, Holds(d, old), Derived(conn, old)
      PROVE  ConnOwn(d, conn)'
  <2>1. ConnOwn(d, old)
        BY <1>2 DEF QueueOwn
  <2>2. conn.owner \in (Clients \ K) \cup {None}
        BY DEF ConnsDerive, Connection
  <2>3. QED
        BY <1>2, <2>1, <2>2, ConnKept DEF WaitersKept
<1>3. QED
      BY <1>1, <1>2 DEF ConnsDerive

\* A client that awaits nothing owns no connection.
LEMMA NotWaiting ==
    ASSUME Shape, QueueOwn, NEW c \in Clients, cpc[c] \notin Awaiting,
           NEW d \in Daemons, NEW conn \in Connection, Holds(d, conn)
    PROVE  conn.owner # c
BY NoneIsFresh DEF QueueOwn, ConnOwn

\* The edits the actions make to a connection are those Derived allows.
LEMMA DerivedEdits ==
    ASSUME NEW conn \in Connection
    PROVE  /\ Derived(conn, conn)
           /\ Derived([conn EXCEPT !.auth = None], conn)
           /\ \A r \in Requests : Derived([conn EXCEPT !.req = r], conn)
           /\ \A c \in Clients : /\ Derived(Orphan(c, conn), conn)
                                 /\ Orphan(c, conn).owner # c
           /\ Blank(NoConn)
           /\ \A q \in Projects : Blank(ProbeConn(q))
BY NoneIsFresh DEF Derived, Connection, Orphan, Blank, NoConn, ProbeConn

\* What a daemon serves or has queued are connections.
LEMMA HeldIsTyped ==
    ASSUME DaemonTypeOK, NEW d \in Daemons
    PROVE  /\ served[d] \in Connection
           /\ \A i \in DOMAIN backlog[d] : backlog[d][i] \in Connection
BY DEF DaemonTypeOK

-----------------------------------------------------------------------------
(* The ways connections change *)

\* Connections nobody touches derive from themselves.
LEMMA QueuesUnchanged ==
    ASSUME Shape, QueueOwn, UNCHANGED <<backlog, served>>
    PROVE  /\ ConnsDerive({})
           /\ \A c \in Clients : cpc[c] \notin Awaiting => ConnsDerive({c})
<1>1. \A d \in Daemons, conn \in Connection : Holds(d, conn)' <=> Holds(d, conn)
      BY DEF Holds
<1>2. QED
      BY <1>1, NotWaiting, DerivedEdits DEF ConnsDerive

\* A daemon takes the next connection, changes the one it has or drops it.
LEMMA QueuesOfOneDaemon ==
    ASSUME Shape, NEW d \in Daemons,
           \A e \in Daemons \ {d} : served'[e] = served[e] /\ backlog'[e] = backlog[e],
           \/ backlog'[d] = backlog[d] \/ backlog'[d] = <<>>
           \/ backlog[d] # <<>> /\ backlog'[d] = Tail(backlog[d]),
           \/ Blank(served'[d]) \/ Derived(served'[d], served[d])
           \/ backlog[d] # <<>> /\ served'[d] = Head(backlog[d])
    PROVE  ConnsDerive({})
<1> SUFFICES ASSUME NEW e \in Daemons, NEW conn \in Connection, Holds(e, conn)'
             PROVE  Blank(conn) \/ \E old \in Connection : Holds(e, old) /\ Derived(conn, old)
    BY DEF ConnsDerive
<1>1. CASE e # d
  <2>1. Holds(e, conn)
        BY <1>1 DEF Holds
  <2>2. QED
        BY <2>1, DerivedEdits
<1>2. CASE e = d
  <2>0. backlog[d] \in Seq(Connection) /\ served[d] \in Connection
        BY DEF Shape, DaemonTypeOK
  <2>1. backlog[d] # <<>> => /\ \E i \in DOMAIN backlog[d] : Head(backlog[d]) = backlog[d][i]
                             /\ \A j \in DOMAIN Tail(backlog[d]) :
                                   \E i \in DOMAIN backlog[d] : Tail(backlog[d])[j] = backlog[d][i]
        BY <2>0
  <2>2. CASE conn = served'[d]
    <3>1. CASE Blank(served'[d])
          BY <2>2, <3>1
    <3>2. CASE Derived(served'[d], served[d])
          BY <1>2, <2>0, <2>2, <3>2 DEF Holds
    <3>3. CASE backlog[d] # <<>> /\ served'[d] = Head(backlog[d])
      <4>1. Holds(d, conn)
            BY <2>1, <2>2, <3>3 DEF Holds
      <4>2. QED
            BY <1>2, <4>1, DerivedEdits
    <3>4. QED
          BY <3>1, <3>2, <3>3
  <2>3. CASE conn # served'[d]
    <3>1. PICK j \in DOMAIN backlog'[d] : conn = backlog'[d][j]
          BY <1>2, <2>3 DEF Holds
    <3>2. \E i \in DOMAIN backlog[d] : conn = backlog[d][i]
      <4>1. CASE backlog'[d] = backlog[d]
            BY <3>1, <4>1
      <4>2. CASE backlog'[d] = <<>>
            BY <3>1, <4>2
      <4>3. CASE backlog[d] # <<>> /\ backlog'[d] = Tail(backlog[d])
            BY <2>1, <3>1, <4>3
      <4>4. QED
            BY <4>1, <4>2, <4>3
    <3>3. Holds(d, conn)
          BY <3>2 DEF Holds
    <3>4. QED
          BY <1>2, <3>3, DerivedEdits
  <2>4. QED
        BY <2>2, <2>3
<1>3. QED
      BY <1>1, <1>2

\* A connection is added at the end of the queue of d.
LEMMA QueueGrows ==
    ASSUME Shape, NEW d \in Daemons, NEW new \in Connection, UNCHANGED served,
           backlog' = [backlog EXCEPT ![d] = Append(backlog[d], new)],
           NEW e \in Daemons, NEW conn \in Connection, Holds(e, conn)'
    PROVE  Holds(e, conn) \/ (e = d /\ conn = new)
<1>1. CASE e # d
      BY <1>1 DEF Holds, Shape, DaemonTypeOK
<1>2. CASE e = d
  <2>1. backlog[d] \in Seq(Connection) /\ backlog'[d] = Append(backlog[d], new)
        BY DEF Shape, DaemonTypeOK
  <2>2. \A j \in DOMAIN Append(backlog[d], new) :
            \/ Append(backlog[d], new)[j] = new
            \/ \E i \in DOMAIN backlog[d] : Append(backlog[d], new)[j] = backlog[d][i]
        BY <2>1
  <2>3. QED
        BY <1>2, <2>1, <2>2 DEF Holds
<1>3. QED
      BY <1>1, <1>2

\* A command closes its end of whatever connection it has.
LEMMA QueuesClosed ==
    ASSUME Shape, NEW c \in Clients, CloseClientEnd(c)
    PROVE  ConnsDerive({c})
<1>1. ASSUME NEW d \in Daemons, NEW conn \in Connection, Holds(d, conn)'
      PROVE  \E old \in Connection : Holds(d, old) /\ conn = Orphan(c, old)
  <2>1. CASE conn = served'[d]
    <3>1. served'[d] = Orphan(c, served[d])
          BY DEF CloseClientEnd
    <3>2. QED
          BY <2>1, <3>1, HeldIsTyped DEF Holds, Shape
  <2>2. CASE conn # served'[d]
    <3>1. backlog'[d] = [i \in 1..Len(backlog[d]) |-> Orphan(c, backlog[d][i])]
          BY DEF CloseClientEnd
    <3>2. DOMAIN backlog[d] = 1..Len(backlog[d])
          BY DEF Shape, DaemonTypeOK
    <3>3. PICK i \in DOMAIN backlog'[d] : conn = backlog'[d][i]
          BY <1>1, <2>2 DEF Holds
    <3>4. i \in DOMAIN backlog[d] /\ conn = Orphan(c, backlog[d][i])
          BY <3>1, <3>2, <3>3
    <3>5. QED
          BY <3>4, HeldIsTyped DEF Holds, Shape
  <2>3. QED
        BY <2>1, <2>2
<1>2. ASSUME NEW d \in Daemons, NEW conn \in Connection, Holds(d, conn)'
      PROVE  conn.owner # c /\ \E old \in Connection : Holds(d, old) /\ Derived(conn, old)
  <2>1. PICK old \in Connection : Holds(d, old) /\ conn = Orphan(c, old)
        BY <1>1, <1>2
  <2>2. conn.owner # c /\ Derived(conn, old)
        BY <2>1, DerivedEdits
  <2>3. QED
        BY <2>1, <2>2
<1>3. QED
      BY <1>2 DEF ConnsDerive

-----------------------------------------------------------------------------
(* One step *)

\* Nothing is on file, nobody is connected: OwnProject holds at first.
LEMMA OwnInit == Init => OwnProject
<1> SUFFICES ASSUME Init PROVE OwnProject
    OBVIOUS
<1>1. InfoOwn /\ RequestsAreForOwnProject
      BY DEF Init, InfoOwn, RequestsAreForOwnProject
<1>2. \A c \in Clients : ClientOwn(c)
      BY NoneIsFresh DEF Init, ClientOwn, Responses
<1>3. QueueOwn
      BY NoConnTyped DEF Init, QueueOwn, Holds, ConnOwn
<1>4. QED
      BY <1>1, <1>2, <1>3 DEF OwnProject

\* Info files stay truthful: a daemon writes its own token and port, and a port
\* is kept as long as its daemon lives.
LEMMA InfoOwnStep == ASSUME Shape, InfoOwn, Next PROVE InfoOwn'
<1>1. ProjectsKept
      BY DprojStable
<1>2. ASSUME NEW d \in Daemons, dpc[d] \notin {"unborn", "boot"}
      PROVE  /\ dpc'[d] \notin {"unborn", "boot"}
             /\ dpc'[d] \in Live => dpc[d] \in Live /\ dport'[d] = dport[d]
  <2> USE <1>2 DEF Shape, DaemonTypeOK, Live, Goto
  <2>1. ASSUME NEW e \in Daemons, DaemonStep(e)
        PROVE  /\ dpc'[d] \notin {"unborn", "boot"}
               /\ dpc'[d] \in Live => dpc[d] \in Live /\ dport'[d] = dport[d]
    <3>1. CASE Bind(e) \/ TruncateInfo(e) \/ WriteInfo(e) \/ CheckFlag(e) \/ Accept(e)
          BY <3>1 DEF Bind, TruncateInfo, WriteInfo, CheckFlag, Accept
    <3>2. CASE ReadAuth(e) \/ ReadRequest(e) \/ HandleRequest(e)
          BY <3>2 DEF ReadAuth, ReadRequest, HandleRequest, Hangup
    <3>3. CASE RemoveOwnInfo(e) \/ Exit(e)
          BY <3>3 DEF RemoveOwnInfo, Exit, Gone
    <3>4. QED
          BY <2>1, <3>1, <3>2, <3>3 DEF DaemonStep
  <2>2. ASSUME NEW c \in Clients, ClientStep(c)
        PROVE  /\ dpc'[d] \notin {"unborn", "boot"}
               /\ dpc'[d] \in Live => dpc[d] \in Live /\ dport'[d] = dport[d]
        BY <2>2 DEF ClientStep, ProbeRead, ProbeConnect, Spawn, SpawnFails,
           ReadInfo, Dial, GetAuth, GetReply, daemonVars
  <2>3. CASE Environment
        BY <2>3 DEF Environment, WriteInfoFails, Signal, Crash, Gone, Begin, Kill,
           ClearAllCaches, daemonVars
  <2>4. QED
        BY <2>1, <2>2, <2>3 DEF Next
<1>3. ASSUME NEW q \in Projects, info'[q] \in {None, info[q]}, info'[q] # None
      PROVE  LET d == info'[q].token IN
             /\ dproj'[d] = q
             /\ dpc'[d] \notin {"unborn", "boot"}
             /\ dpc'[d] \in Live => dport'[d] = info'[q].port
  <2>1. info[q] \in DaemonInfo /\ info'[q] = info[q]
        BY <1>3 DEF Shape, FileTypeOK
  <2>2. info[q].token \in Daemons
        BY <2>1 DEF DaemonInfo
  <2>3. QED
        BY <1>1, <1>2, <1>3, <2>1, <2>2, NoneIsFresh DEF InfoOwn, ProjectsKept
<1>4. ASSUME NEW d \in Daemons, WriteInfo(d)
      PROVE  InfoOwn'
  <2> DEFINE rec == [port |-> dport[d], token |-> d]
  <2>1. /\ \A q \in Projects : info'[q] \in {None, info[q]} \/ (q = dproj[d] /\ info'[q] = rec)
        /\ dproj'[d] = dproj[d] /\ dport'[d] = dport[d] /\ dpc'[d] = "loop"
        BY <1>4 DEF WriteInfo, Goto, Shape, FileTypeOK, DaemonTypeOK
  <2>2. rec.port = dport[d] /\ rec.token = d
        OBVIOUS
  <2> HIDE DEF rec
  <2>3. QED
        BY <1>3, <2>1, <2>2 DEF InfoOwn
<1>5. CASE \A d \in Daemons : ~ WriteInfo(d)
  <2>1. \A q \in Projects : info'[q] \in {None, info[q]}
        BY <1>5 DEF Shape, FileTypeOK, Next, DaemonStep, ClientStep,
           Environment, Bind, TruncateInfo, CheckFlag, Accept, ReadAuth,
           ReadRequest, HandleRequest, RemoveOwnInfo, RemoveInfo, Exit,
           WriteInfoFails, Signal, Crash, ProbeRead, ProbeConnect, Spawn,
           SpawnFails, ReadInfo, Dial, GetAuth, GetReply, Begin, Kill,
           ClearAllCaches, fileVars
  <2>2. QED
        BY <1>3, <2>1 DEF InfoOwn
<1>6. QED
      BY <1>4, <1>5

\* A daemon's answer reaches the owner of the connection it serves, and AuthOk
\* only one that named the daemon's project.
LEMMA RespondOwn ==
    ASSUME Shape, ProjectsKept, QueueOwn, \A c \in Clients : ClientOwn(c),
           NEW d \in Daemons, NEW r \in Responses, Respond(d, r),
           r = "AuthOk" => served[d].for = dproj[d],
           UNCHANGED <<cpc, op, proj, cinfo, peer, outcome>>
    PROVE  \A c \in Clients : ClientOwn(c)'
<1> SUFFICES ASSUME NEW c \in Clients PROVE ClientOwn(c)'
    OBVIOUS
<1>1. CASE served[d].owner # c
  <2>1. inbox'[c] = inbox[c]
        BY <1>1 DEF Respond
  <2>2. QED
        BY <2>1, RecordKept
<1>2. CASE served[d].owner = c
  <2>1. ConnOwn(d, served[d])
        BY HeldIsTyped DEF QueueOwn, Holds, Shape
  <2>2. c # None
        BY NoneIsFresh
  <2>3. cpc[c] \in Awaiting /\ peer[c] = d /\ proj[c] = served[d].for
        BY <1>2, <2>1, <2>2 DEF ConnOwn
  <2>4. inbox'[c] = r
        BY <1>2 DEF Respond
  <2>5. cinfo[c] = None /\ proj[c] \in Projects
        BY <2>3 DEF ClientOwn, Awaiting, Shape, ClientTypeOK, ClientShape
  <2>6. r = "AuthOk" \/ cpc[c] = "awaitReply" \/ outcome[c] = "answered"
            => dproj'[d] = proj[c]
        BY <2>3, <2>5, NoneIsFresh DEF ClientOwn, ProjectsKept
  <2>7. d # None
        BY NoneIsFresh
  <2>8. QED
        BY <2>3, <2>4, <2>5, <2>6, <2>7 DEF ClientOwn
<1>3. QED
      BY <1>1, <1>2

\* A step that moves no client leaves what the clients know true.
LEMMA NobodyMoves ==
    ASSUME Shape, ProjectsKept, \A c \in Clients : ClientOwn(c), UNCHANGED clientVars
    PROVE  (\A c \in Clients : ClientOwn(c)') /\ WaitersKept({})
BY RecordKept DEF clientVars, WaitersKept

\* A daemon's step that answers nobody.
LEMMA QuietDaemon ==
    ASSUME Shape, ProjectsKept, OwnProject, UNCHANGED clientVars, ConnsDerive({})
    PROVE  QueueOwn' /\ \A c \in Clients : ClientOwn(c)'
BY NobodyMoves, QueueKept DEF OwnProject

\* A daemon's answer, after which it keeps at most the connection it serves.
LEMMA AnsweringDaemon ==
    ASSUME Shape, ProjectsKept, OwnProject, ConnsDerive({}),
           NEW d \in Daemons, NEW r \in Responses, Respond(d, r),
           r = "AuthOk" => served[d].for = dproj[d],
           UNCHANGED <<cpc, op, proj, cinfo, peer, outcome>>
    PROVE  QueueOwn' /\ \A c \in Clients : ClientOwn(c)'
<1>1. WaitersKept({})
      BY DEF WaitersKept
<1>2. QED
      BY <1>1, RespondOwn, QueueKept DEF OwnProject

\* A command's step that leaves its record in order.
LEMMA OneClientMoves ==
    ASSUME Shape, ProjectsKept, OwnProject, NEW c \in Clients, OthersKept(c),
           ConnsDerive({c}), ClientOwn(c)'
    PROVE  QueueOwn' /\ \A b \in Clients : ClientOwn(b)'
<1>1. WaitersKept({c})
      BY DEF WaitersKept, OthersKept
<1>2. QueueOwn'
      BY <1>1, QueueKept DEF OwnProject
<1>3. QED
      BY <1>2, OthersOwn DEF OwnProject

\* What Finish leaves of a command's record is in order.
LEMMA FinishedOwn ==
    ASSUME NEW c \in Clients, ClientTypeOK, Finish(c)
    PROVE  OthersKept(c) /\ ClientOwn(c)'
BY FinishRecord, NoneIsFresh DEF ClientOwn, Responses

\* Every step of a daemon keeps OwnProject's part about connections and clients.
LEMMA DaemonOwnStep ==
    ASSUME Shape, ProjectsKept, OwnProject, NEW d \in Daemons, DaemonStep(d)
    PROVE  QueueOwn' /\ \A c \in Clients : ClientOwn(c)'
<1> USE DEF Goto
<1>0. /\ backlog[d] \in Seq(Connection) /\ served[d] \in Connection
      /\ DOMAIN served = Daemons /\ DOMAIN backlog = Daemons
      BY DEF Shape, DaemonTypeOK
<1>1. CASE Bind(d) \/ TruncateInfo(d) \/ WriteInfo(d) \/ CheckFlag(d) \/ RemoveOwnInfo(d)
  <2>1. UNCHANGED <<backlog, served>> /\ UNCHANGED clientVars
        BY <1>1 DEF Bind, TruncateInfo, WriteInfo, CheckFlag, RemoveOwnInfo, clientVars
  <2>2. QED
        BY <2>1, QueuesUnchanged, QuietDaemon DEF OwnProject
<1>2. CASE Accept(d)
  <2>1. /\ UNCHANGED clientVars
        /\ \A e \in Daemons \ {d} : served'[e] = served[e] /\ backlog'[e] = backlog[e]
        /\ \/ backlog'[d] = backlog[d] /\ served'[d] = served[d]
           \/ /\ backlog[d] # <<>> /\ backlog'[d] = Tail(backlog[d])
              /\ served'[d] = Head(backlog[d])
        BY <1>0, <1>2 DEF Accept
  <2>2. ConnsDerive({})
        BY <1>0, <2>1, QueuesOfOneDaemon, DerivedEdits
  <2>3. QED
        BY <2>1, <2>2, QuietDaemon
<1>3. CASE Exit(d)
  <2>1. /\ UNCHANGED clientVars
        /\ \A e \in Daemons \ {d} : served'[e] = served[e] /\ backlog'[e] = backlog[e]
        /\ backlog'[d] = <<>> /\ served'[d] = NoConn
        BY <1>0, <1>3 DEF Exit, Gone
  <2>2. ConnsDerive({})
        BY <1>0, <2>1, QueuesOfOneDaemon, DerivedEdits
  <2>3. QED
        BY <2>1, <2>2, QuietDaemon
<1>4. CASE ReadAuth(d)
  <2>1. /\ UNCHANGED <<cpc, op, proj, cinfo, peer, outcome, backlog>>
        /\ \A e \in Daemons \ {d} : served'[e] = served[e]
        /\ served'[d] \in {NoConn, [served[d] EXCEPT !.auth = None]}
        BY <1>0, <1>4 DEF ReadAuth, Hangup
  <2>2. ConnsDerive({})
        BY <1>0, <2>1, QueuesOfOneDaemon, DerivedEdits
  <2>3. CASE UNCHANGED inbox
    <3>1. UNCHANGED clientVars
          BY <2>1, <2>3 DEF clientVars
    <3>2. QED
          BY <2>2, <3>1, QuietDaemon
  <2>4. CASE Respond(d, "Error")
        BY <2>1, <2>2, <2>4, AnsweringDaemon DEF Responses
  <2>5. CASE Respond(d, "AuthOk") /\ Authenticates(d, served[d])
    <3>1. served[d].for = dproj[d]
      <4>1. ConnOwn(d, served[d])
            BY <1>0 DEF OwnProject, QueueOwn, Holds
      <4>2. QED
            BY <2>5, <4>1, NoneIsFresh DEF Authenticates, ConnOwn
    <3>2. QED
          BY <2>1, <2>2, <2>5, <3>1, AnsweringDaemon DEF Responses
  <2>6. QED
        BY <1>4, <2>3, <2>4, <2>5 DEF ReadAuth
<1>5. CASE ReadRequest(d)
  <2>1. /\ UNCHANGED clientVars /\ UNCHANGED backlog
        /\ \A e \in Daemons \ {d} : served'[e] = served[e]
        /\ served'[d] \in {NoConn, served[d]}
        BY <1>0, <1>5 DEF ReadRequest, Hangup
  <2>2. ConnsDerive({})
        BY <1>0, <2>1, QueuesOfOneDaemon, DerivedEdits
  <2>3. QED
        BY <2>1, <2>2, QuietDaemon
<1>6. CASE HandleRequest(d)
  <2>1. /\ UNCHANGED <<cpc, op, proj, cinfo, peer, outcome, backlog>>
        /\ \A e \in Daemons \ {d} : served'[e] = served[e]
        /\ served'[d] = NoConn
        BY <1>0, <1>6 DEF HandleRequest
  <2>2. ConnsDerive({})
        BY <1>0, <2>1, QueuesOfOneDaemon, DerivedEdits
  <2>3. PICK r \in Answers(served[d].req) : Respond(d, r)
        BY <1>6 DEF HandleRequest
  <2>4. r \in Responses /\ r # "AuthOk"
        BY <1>6, <2>3 DEF HandleRequest, Answers, Responses, Shape, DaemonShape, Requests
  <2>5. QED
        BY <2>1, <2>2, <2>3, <2>4, AnsweringDaemon
<1>7. QED
      BY <1>1, <1>2, <1>3, <1>4, <1>5, <1>6 DEF DaemonStep

\* So does every step of the system: a failed write, a signal, a crash, a
\* cleared cache.
LEMMA EnvironmentOwnStep ==
    ASSUME Shape, ProjectsKept, OwnProject, Environment
    PROVE  QueueOwn' /\ \A c \in Clients : ClientOwn(c)'
<1>1. ASSUME NEW d \in Daemons, WriteInfoFails(d) \/ Crash(d)
      PROVE  QueueOwn' /\ \A c \in Clients : ClientOwn(c)'
  <2>1. /\ UNCHANGED clientVars
        /\ \A e \in Daemons \ {d} : served'[e] = served[e] /\ backlog'[e] = backlog[e]
        /\ backlog'[d] = <<>> /\ served'[d] = NoConn
        BY <1>1 DEF WriteInfoFails, Crash, Gone, Shape, DaemonTypeOK
  <2>2. ConnsDerive({})
        BY <2>1, QueuesOfOneDaemon, DerivedEdits, NoConnTyped
  <2>3. QED
        BY <2>1, <2>2, QuietDaemon
<1>2. ASSUME NEW d \in Daemons, Signal(d)
      PROVE  QueueOwn' /\ \A c \in Clients : ClientOwn(c)'
  <2>1. UNCHANGED <<backlog, served>> /\ UNCHANGED clientVars
        BY <1>2 DEF Signal, clientVars
  <2>2. QED
        BY <2>1, QueuesUnchanged, QuietDaemon DEF OwnProject
<1>3. CASE ClearAllCaches
  <2>1. UNCHANGED <<backlog, served>> /\ UNCHANGED clientVars
        BY <1>3 DEF ClearAllCaches, daemonVars, clientVars
  <2>2. QED
        BY <2>1, QueuesUnchanged, QuietDaemon DEF OwnProject
<1>4. ASSUME NEW c \in Clients, Begin(c)
      PROVE  QueueOwn' /\ \A b \in Clients : ClientOwn(b)'
  <2>1. cinfo[c] = None /\ inbox[c] = None /\ cpc[c] \notin Awaiting
        BY <1>4 DEF Begin, OwnProject, ClientOwn, Awaiting
  <2>2. OthersKept(c) /\ UNCHANGED <<backlog, served, inbox, cinfo>>
        BY <1>4 DEF Begin, OthersKept, daemonVars, Shape, ClientTypeOK
  <2>3. cpc'[c] = "probe" /\ outcome'[c] = "none"
        BY <1>4 DEF Begin, Shape, ClientTypeOK
  <2>4. ClientOwn(c)'
        BY <2>1, <2>2, <2>3, NoneIsFresh DEF ClientOwn, Responses
  <2>5. QED
        BY <2>1, <2>2, <2>4, QueuesUnchanged, OneClientMoves DEF OwnProject
<1>5. ASSUME NEW c \in Clients, Kill(c)
      PROVE  QueueOwn' /\ \A b \in Clients : ClientOwn(b)'
      BY <1>5, FinishedOwn, QueuesClosed, OneClientMoves DEF Kill, Shape
<1>6. QED
      BY <1>1, <1>2, <1>3, <1>4, <1>5 DEF Environment

\* A command reads the info file: what it names is a daemon of its project.
LEMMA ReadOwn ==
    ASSUME Shape, ProjectsKept, OwnProject, NEW c \in Clients,
           proj[c] \in Projects, info[proj[c]] # None, OthersKept(c),
           cpc[c] \in {"probe", "connect"}, cpc'[c] \in {"probe", "dial"},
           cinfo'[c] = info[proj[c]],
           proj'[c] = proj[c], peer'[c] = peer[c], inbox'[c] = inbox[c],
           outcome'[c] = outcome[c]
    PROVE  ClientOwn(c)'
<1>1. inbox'[c] = None /\ outcome'[c] # "answered"
      BY DEF OwnProject, ClientOwn, Awaiting
<1>2. info[proj[c]].token \in Daemons /\ dproj[info[proj[c]].token] = proj[c]
      BY DEF OwnProject, InfoOwn, Shape, FileTypeOK, DaemonInfo
<1>3. dproj'[info[proj[c]].token] = proj[c]
      BY <1>2, NoneIsFresh DEF ProjectsKept
<1>4. cpc'[c] # "awaitReply"
      OBVIOUS
<1>5. QED
      BY <1>1, <1>2, <1>3, <1>4, NoneIsFresh DEF ClientOwn, Responses

\* An answered command knows its daemon, whose project stays what it is.
LEMMA PeerOwn ==
    ASSUME Shape, ProjectsKept, NEW c \in Clients, ClientOwn(c),
           inbox[c] = "AuthOk" \/ cpc[c] = "awaitReply" \/ outcome[c] = "answered"
    PROVE  peer[c] # None /\ dproj'[peer[c]] = proj[c]
<1>1. peer[c] \in Daemons /\ dproj[peer[c]] = proj[c]
      BY DEF ClientOwn, Shape, ClientTypeOK
<1>2. proj[c] \in Projects
      BY NoneIsFresh DEF Shape, ClientTypeOK, ClientShape, ClientOwn, Awaiting, Responses
<1>3. QED
      BY <1>1, <1>2, NoneIsFresh DEF ProjectsKept

\* So does a probe that finds no daemon.
LEMMA NotRunningOwn ==
    ASSUME Shape, ProjectsKept, NEW c \in Clients, ClientOwn(c),
           cpc[c] = "probe", NotRunning(c)
    PROVE  OthersKept(c) /\ ClientOwn(c)'
<1>1. inbox[c] = None /\ outcome[c] # "answered"
      BY DEF ClientOwn, Awaiting
<1>2. /\ OthersKept(c)
      /\ cpc'[c] \in {"idle", "spawn"} /\ cinfo'[c] = None /\ inbox'[c] = None
      /\ outcome'[c] # "answered"
      BY <1>1, NotRunningRecord DEF Shape
<1>3. QED
      BY <1>2, NoneIsFresh DEF ClientOwn, Responses

\* So does every step of a client.
LEMMA ClientOwnStep ==
    ASSUME Shape, ProjectsKept, OwnProject, NEW c \in Clients, ClientStep(c)
    PROVE  QueueOwn' /\ \A b \in Clients : ClientOwn(b)'
<1>0. ClientOwn(c) /\ ClientTypeOK /\ QueueOwn
      BY DEF OwnProject, Shape
<1>1. CASE ProbeRead(c)
  <2>1. cpc[c] = "probe" /\ UNCHANGED <<backlog, served>>
        BY <1>1 DEF ProbeRead, daemonVars
  <2>2. ConnsDerive({c})
        BY <1>0, <2>1, QueuesUnchanged DEF Awaiting
  <2>3. OthersKept(c) /\ ClientOwn(c)'
    <3>1. CASE NotRunning(c)
          BY <1>0, <2>1, <3>1, NotRunningOwn
    <3>2. CASE ~ NotRunning(c)
      <4>1. /\ info[proj[c]] # None /\ cinfo'[c] = info[proj[c]]
            /\ UNCHANGED <<cpc, op, proj, peer, inbox, outcome>>
            /\ OthersKept(c)
            BY <1>0, <1>1, <3>2 DEF ProbeRead, OthersKept, ClientTypeOK
      <4>2. proj[c] \in Projects
            BY <2>1 DEF Shape, ClientShape
      <4>3. QED
            BY <2>1, <4>1, <4>2, ReadOwn DEF Awaiting
    <3>3. QED
          BY <3>1, <3>2
  <2>4. QED
        BY <2>2, <2>3, OneClientMoves
<1>2. CASE ReadInfo(c)
  <2>1. cpc[c] = "connect" /\ UNCHANGED <<backlog, served>>
        BY <1>2 DEF ReadInfo, daemonVars
  <2>2. ConnsDerive({c})
        BY <1>0, <2>1, QueuesUnchanged DEF Awaiting
  <2>3. OthersKept(c) /\ ClientOwn(c)'
    <3>1. CASE Finish(c)
          BY <1>0, <3>1, FinishedOwn
    <3>2. CASE ~ Finish(c)
      <4>1. /\ info[proj[c]] # None /\ cinfo'[c] = info[proj[c]] /\ cpc'[c] = "dial"
            /\ UNCHANGED <<op, proj, peer, inbox, outcome>>
            /\ OthersKept(c)
            BY <1>0, <1>2, <3>2 DEF ReadInfo, OthersKept, ClientTypeOK
      <4>2. proj[c] \in Projects
            BY <2>1 DEF Shape, ClientShape
      <4>3. QED
            BY <2>1, <4>1, <4>2, ReadOwn DEF Awaiting
    <3>3. QED
          BY <3>1, <3>2
  <2>4. QED
        BY <2>2, <2>3, OneClientMoves
<1>3. CASE Spawn(c) \/ SpawnFails(c)
  <2>1. cpc[c] = "spawn" /\ UNCHANGED <<backlog, served>> /\ Finish(c)
        BY <1>3 DEF Spawn, SpawnFails, daemonVars
  <2>2. ConnsDerive({c})
        BY <1>0, <2>1, QueuesUnchanged DEF Awaiting
  <2>3. QED
        BY <1>0, <2>1, <2>2, FinishedOwn, OneClientMoves
<1>4. CASE ProbeConnect(c)
  <2>1. cpc[c] = "probe" /\ UNCHANGED served /\ proj[c] \in Projects
        BY <1>4 DEF ProbeConnect, Shape, ClientShape
  <2>2. ConnsDerive({c})
    <3>1. CASE UNCHANGED backlog
          BY <1>0, <2>1, <3>1, QueuesUnchanged DEF Awaiting
    <3>2. ASSUME NEW d \in Daemons,
                 backlog' = [backlog EXCEPT ![d] = Append(backlog[d], ProbeConn(proj[c]))]
          PROVE  ConnsDerive({c})
      <4>1. ProbeConn(proj[c]) \in Connection /\ Blank(ProbeConn(proj[c]))
            BY <2>1, NoConnTyped, DerivedEdits
      <4>2. \A e \in Daemons, conn \in Connection :
               Holds(e, conn)' => Holds(e, conn) \/ conn = ProbeConn(proj[c])
            BY <2>1, <3>2, <4>1, QueueGrows
      <4>3. c # None
            BY NoneIsFresh
      <4>4. \A e \in Daemons, conn \in Connection : Holds(e, conn) => conn.owner # c
            BY <1>0, <2>1, NotWaiting DEF Awaiting
      <4>5. QED
            BY <4>1, <4>2, <4>3, <4>4, DerivedEdits DEF ConnsDerive, Blank
    <3>3. QED
          BY <1>4, <3>1, <3>2 DEF ProbeConnect
  <2>3. OthersKept(c) /\ ClientOwn(c)'
    <3>1. CASE NotRunning(c)
          BY <1>0, <2>1, <3>1, NotRunningOwn
    <3>2. CASE Finish(c)
          BY <1>0, <3>2, FinishedOwn
    <3>3. CASE ~ NotRunning(c) /\ ~ Finish(c)
      <4>1. /\ cpc'[c] = "connect" /\ cinfo'[c] = None
            /\ UNCHANGED <<op, proj, peer, inbox, outcome>>
            /\ OthersKept(c)
            BY <1>0, <1>4, <3>3 DEF ProbeConnect, OthersKept, ClientTypeOK
      <4>2. inbox[c] = None /\ outcome[c] # "answered"
            BY <1>0, <2>1 DEF ClientOwn, Awaiting
      <4>3. QED
            BY <4>1, <4>2, NoneIsFresh DEF ClientOwn, Responses
    <3>4. QED
          BY <3>1, <3>2, <3>3
  <2>4. QED
        BY <2>2, <2>3, OneClientMoves
<1>5. CASE Dial(c)
  <2>1. /\ cpc[c] = "dial" /\ UNCHANGED served /\ proj[c] \in Projects
        /\ cinfo[c] \in DaemonInfo /\ dproj[cinfo[c].token] = proj[c]
        /\ cinfo[c].token \in Daemons
        BY <1>0, <1>5 DEF Dial, Shape, ClientShape, ClientTypeOK, ClientOwn, DaemonInfo
  <2>2. CASE Finish(c) /\ UNCHANGED backlog
    <3>1. ConnsDerive({c})
          BY <1>0, <2>1, <2>2, QueuesUnchanged DEF Awaiting
    <3>2. QED
          BY <1>0, <2>2, <3>1, FinishedOwn, OneClientMoves
  <2>3. ASSUME NEW d \in Daemons,
               backlog' = [backlog EXCEPT ![d] = Append(backlog[d], DialConn(c))],
               peer' = [peer EXCEPT ![c] = d],
               cpc' = [cpc EXCEPT ![c] = "awaitAuth"],
               cinfo' = [cinfo EXCEPT ![c] = None],
               UNCHANGED <<op, proj, inbox, outcome>>
        PROVE  QueueOwn' /\ \A b \in Clients : ClientOwn(b)'
    <3>1. /\ peer'[c] = d /\ cpc'[c] = "awaitAuth" /\ cinfo'[c] = None /\ inbox'[c] = None
          /\ OthersKept(c)
          BY <1>0, <2>1, <2>3 DEF ClientTypeOK, OthersKept, ClientOwn, Awaiting
    <3>2. outcome[c] # "answered"
          BY <1>0, <2>1 DEF ClientOwn
    <3>3. ClientOwn(c)'
          BY <2>3, <3>1, <3>2, NoneIsFresh DEF ClientOwn, Responses
    <3>4. \A b \in Clients : ClientOwn(b)'
          BY <3>1, <3>3, OthersOwn DEF OwnProject
    <3>5. /\ DialConn(c) \in Connection
          /\ DialConn(c).owner = c /\ DialConn(c).for = proj[c]
          /\ DialConn(c).auth = cinfo[c].token
          BY <2>1, DialConnTyped DEF DialConn
    <3>6. ASSUME NEW e \in Daemons, NEW conn \in Connection, Holds(e, conn)'
          PROVE  ConnOwn(e, conn)'
      <4>1. CASE Holds(e, conn)
        <5>1. conn.owner \in Clients \cup {None} /\ conn.owner # c
              BY <1>0, <2>1, <4>1, NotWaiting DEF Connection, Awaiting
        <5>2. ConnOwn(e, conn)
              BY <1>0, <4>1 DEF QueueOwn
        <5>3. QED
              BY <3>1, <5>1, <5>2, ConnKept, DerivedEdits DEF OthersKept
      <4>2. CASE e = d /\ conn = DialConn(c)
        <5>1. dproj'[cinfo[c].token] = proj[c]
              BY <2>1, NoneIsFresh DEF ProjectsKept
        <5>2. QED
              BY <2>1, <2>3, <3>1, <3>5, <4>2, <5>1, NoneIsFresh DEF ConnOwn, Awaiting
      <4>3. QED
            BY <2>1, <2>3, <3>5, <3>6, <4>1, <4>2, QueueGrows
    <3>7. QED
          BY <3>4, <3>6 DEF QueueOwn
  <2>4. QED
        BY <1>5, <2>2, <2>3 DEF Dial
<1>6. CASE GetAuth(c)
  <2>1. CASE CloseClientEnd(c) /\ Finish(c)
        BY <1>0, <2>1, FinishedOwn, QueuesClosed, OneClientMoves
  <2>2. CASE ~ (CloseClientEnd(c) /\ Finish(c))
    <3>1. /\ cpc[c] = "awaitAuth" /\ inbox[c] = "AuthOk"
          /\ served' = [d \in Daemons |->
                          IF served[d].owner = c
                            THEN [served[d] EXCEPT !.req = op[c]] ELSE served[d]]
          /\ cpc'    = [cpc EXCEPT ![c] = "awaitReply"]
          /\ inbox'  = [inbox EXCEPT ![c] = None]
          /\ UNCHANGED <<backlog, op, proj, cinfo, peer, outcome>>
          BY <1>6, <2>2 DEF GetAuth
    <3>2. cpc'[c] = "awaitReply" /\ inbox'[c] = None /\ OthersKept(c)
          BY <1>0, <3>1 DEF OthersKept, ClientTypeOK
    <3>3. ClientOwn(c)'
          BY <1>0, <3>1, <3>2, PeerOwn, NoneIsFresh DEF ClientOwn, Awaiting, Responses
    <3>4. \A b \in Clients : ClientOwn(b)'
          BY <3>2, <3>3, OthersOwn DEF OwnProject
    <3>5. op[c] \in Requests
          BY <3>1 DEF Shape, ClientShape
    <3>6. \A e \in Daemons : Derived(served'[e], served[e])
          BY <3>1, <3>5, DerivedEdits, HeldIsTyped DEF Shape
    <3>7. ASSUME NEW e \in Daemons, NEW conn \in Connection, Holds(e, conn)'
          PROVE  \E old \in Connection : Holds(e, old) /\ Derived(conn, old)
      <4>1. CASE conn = served'[e]
            BY <3>6, <4>1, HeldIsTyped DEF Holds, Shape
      <4>2. CASE conn # served'[e]
        <5>1. Holds(e, conn)
              BY <3>1, <3>7, <4>2 DEF Holds
        <5>2. QED
              BY <5>1, DerivedEdits
      <4>3. QED
            BY <4>1, <4>2
    <3>8. ConnsDerive({})
          BY <3>7 DEF ConnsDerive
    <3>9. WaitersKept({})
          BY <3>1, <3>2 DEF WaitersKept, OthersKept, Awaiting
    <3>10. QED
          BY <1>0, <3>4, <3>8, <3>9, QueueKept
  <2>3. QED
        BY <2>1, <2>2
<1>7. CASE GetReply(c)
  <2>1. ConnsDerive({c})
        BY <1>7, QueuesClosed DEF GetReply
  <2>2. OthersKept(c) /\ ClientOwn(c)'
    <3>1. CASE Finish(c)
          BY <1>0, <3>1, FinishedOwn
    <3>2. CASE ~ Finish(c)
      <4>1. /\ cpc[c] = "awaitReply" /\ cpc'[c] = "idle" /\ inbox'[c] = None
            /\ UNCHANGED <<op, proj, cinfo, peer>>
            /\ OthersKept(c)
            BY <1>0, <1>7, <3>2 DEF GetReply, OthersKept, ClientTypeOK
      <4>2. cinfo[c] = None
            BY <1>0, <4>1 DEF ClientOwn
      <4>3. QED
            BY <1>0, <4>1, <4>2, PeerOwn, NoneIsFresh DEF ClientOwn, Responses
    <3>3. QED
          BY <3>1, <3>2
  <2>3. QED
        BY <2>1, <2>2, OneClientMoves
<1>8. QED
      BY <1>1, <1>2, <1>3, <1>4, <1>5, <1>6, <1>7 DEF ClientStep

\* A daemon comes to a request by authenticating the connection that sends it.
LEMMA RequestsStep ==
    ASSUME Shape, ProjectsKept, OwnProject, Next
    PROVE  RequestsAreForOwnProject'
<1> SUFFICES ASSUME NEW d \in Daemons, dpc'[d] \in {"request", "handling"}
             PROVE  served'[d].for = dproj'[d]
    BY DEF RequestsAreForOwnProject
<1> DEFINE Kept == /\ dpc[d] \in {"request", "handling"}
                   /\ served'[d].for = served[d].for
<1>1. CASE Kept
      BY <1>1, NoneIsFresh DEF OwnProject, RequestsAreForOwnProject, ProjectsKept,
         Shape, DaemonShape
<1>2. CASE ReadAuth(d) /\ dpc'[d] = "request"
  <2>1. Authenticates(d, served[d]) /\ served'[d].for = served[d].for
        BY <1>2, HeldIsTyped DEF ReadAuth, Hangup, Goto, Shape, DaemonTypeOK, Connection
  <2>2. served[d].for = dproj[d] /\ dproj[d] # None
    <3>1. ConnOwn(d, served[d])
          BY HeldIsTyped DEF OwnProject, QueueOwn, Holds, Shape
    <3>2. QED
          BY <2>1, <3>1, NoneIsFresh DEF Authenticates, ConnOwn
  <2>3. QED
        BY <2>1, <2>2 DEF ProjectsKept
<1>3. ASSUME NEW e \in Daemons, DaemonStep(e), ~ (ReadAuth(d) /\ dpc'[d] = "request")
      PROVE  Kept
  <2> USE <1>3 DEF Shape, DaemonTypeOK, Goto
  <2>1. CASE Bind(e) \/ TruncateInfo(e) \/ WriteInfo(e) \/ CheckFlag(e) \/ Accept(e)
        BY <2>1 DEF Bind, TruncateInfo, WriteInfo, CheckFlag, Accept
  <2>2. CASE ReadAuth(e)
        BY <2>2 DEF ReadAuth, Hangup
  <2>3. CASE ReadRequest(e) \/ HandleRequest(e)
        BY <2>3 DEF ReadRequest, HandleRequest, Hangup
  <2>4. CASE RemoveOwnInfo(e) \/ Exit(e)
        BY <2>4 DEF RemoveOwnInfo, Exit, Gone
  <2>5. QED
        BY <2>1, <2>2, <2>3, <2>4 DEF DaemonStep
<1>4. ASSUME NEW c \in Clients, ClientStep(c) \/ Kill(c)
      PROVE  Kept
  <2> USE DEF Shape, DaemonTypeOK
  <2>1. dpc'[d] = dpc[d]
        BY <1>4 DEF ClientStep, ProbeRead, ProbeConnect, Spawn, SpawnFails,
           ReadInfo, Dial, GetAuth, GetReply, Kill, daemonVars, Goto
  <2>2. served[d] \in Connection
        BY HeldIsTyped
  <2>3. served'[d].for = served[d].for
    <3>1. CASE CloseClientEnd(c)
          BY <2>2, <3>1, DerivedEdits DEF CloseClientEnd, Derived
    <3>2. CASE UNCHANGED served
          BY <3>2
    <3>3. CASE GetAuth(c) /\ ~ CloseClientEnd(c)
          BY <2>2, <3>3 DEF GetAuth, Connection
    <3>4. QED
          BY <1>4, <3>1, <3>2, <3>3 DEF ClientStep, ProbeRead, ProbeConnect, Spawn,
             SpawnFails, ReadInfo, Dial, GetReply, Kill, daemonVars
  <2>4. QED
        BY <2>1, <2>3
<1>5. ASSUME NEW e \in Daemons, WriteInfoFails(e) \/ Signal(e) \/ Crash(e)
      PROVE  Kept
      BY <1>5 DEF WriteInfoFails, Signal, Crash, Gone, Goto, Shape, DaemonTypeOK
<1>6. ASSUME NEW c \in Clients, Begin(c)
      PROVE  Kept
      BY <1>6 DEF Begin, daemonVars
<1>7. CASE ClearAllCaches
      BY <1>7, <1>1 DEF ClearAllCaches, daemonVars
<1>8. QED
      BY <1>1, <1>2, <1>3, <1>4, <1>5, <1>6, <1>7 DEF Next, Environment

\* OwnProject is inductive relative to Shape.
LEMMA OwnStep == Shape /\ OwnProject /\ [Next]_vars => OwnProject'
<1> SUFFICES ASSUME Shape, OwnProject, [Next]_vars PROVE OwnProject'
    OBVIOUS
<1>1. CASE Next
  <2>1. ProjectsKept
        BY <1>1, DprojStable
  <2>2. InfoOwn'
        BY <1>1, InfoOwnStep DEF OwnProject
  <2>3. RequestsAreForOwnProject'
        BY <1>1, <2>1, RequestsStep
  <2>4. QueueOwn' /\ \A c \in Clients : ClientOwn(c)'
        BY <1>1, <2>1, DaemonOwnStep, ClientOwnStep, EnvironmentOwnStep DEF Next
  <2>5. QED
        BY <2>2, <2>3, <2>4 DEF OwnProject
<1>2. CASE UNCHANGED vars
      BY <1>2 DEF vars, fileVars, daemonVars, clientVars, OwnProject, InfoOwn,
         ClientOwn, QueueOwn, Holds, ConnOwn, RequestsAreForOwnProject
<1>3. QED
      BY <1>1, <1>2

\* Shape and OwnProject hold in every reachable state.
LEMMA OwnAlways == Spec => [](Shape /\ OwnProject)
<1>1. Shape /\ Shape' /\ OwnProject /\ [Next]_vars => OwnProject'
      BY OwnStep
<1>2. QED
      BY <1>1, ShapeAlways, OwnInit, PTL DEF Spec

\* A daemon acts on no request that was sent for another project, although
\* ports are reused and files are stale: handle_connection's token check.
THEOREM RequestsStayInProject == Spec => []RequestsAreForOwnProject
<1>1. OwnProject => RequestsAreForOwnProject
      BY DEF OwnProject
<1>2. QED
      BY <1>1, OwnAlways, PTL

\* A command is answered by a daemon of the project it was run for.
THEOREM AnswersStayInProject == Spec => []AnswersFromOwnProject
<1>1. OwnProject => AnswersFromOwnProject
      BY DEF OwnProject, ClientOwn, AnswersFromOwnProject
<1>2. QED
      BY <1>1, OwnAlways, PTL

\* An info file names a process of its own project, and its port while it lives.
THEOREM InfoIsTruthful == Spec => []InfoDescribesItsDaemon
<1>1. OwnProject => InfoDescribesItsDaemon
      BY DEF OwnProject, InfoOwn, InfoDescribesItsDaemon
<1>2. QED
      BY <1>1, OwnAlways, PTL

-----------------------------------------------------------------------------
(* A clean exit *)

\* No step puts the token of a daemon that has cleaned up back into a file.
LEMMA CleanExitStep ==
    ASSUME Shape, InfoOwn, CleanExitLeavesNoInfo, Next
    PROVE  CleanExitLeavesNoInfo'
<1> SUFFICES ASSUME NEW d \in Daemons, NEW p \in Projects,
                    dpc'[d] \in {"removed", "exited"}, info'[p] # None,
                    info'[p].token = d
             PROVE  FALSE
    BY DEF CleanExitLeavesNoInfo
<1> USE DEF Shape, FileTypeOK, DaemonTypeOK
<1>1. CASE dpc[d] \in {"removed", "exited"} /\ info'[p] = info[p]
      BY <1>1 DEF CleanExitLeavesNoInfo
<1>2. CASE RemoveOwnInfo(d)
  <2>1. info'[dproj[d]] = None /\ (p # dproj[d] => info'[p] = info[p])
        BY <1>2 DEF RemoveOwnInfo, RemoveInfo, DaemonShape
  <2>2. QED
        BY <2>1 DEF InfoOwn
<1>3. ASSUME NEW e \in Daemons, WriteInfo(e)
      PROVE  FALSE
  <2> DEFINE rec == [port |-> dport[e], token |-> e]
  <2>1. info'[p] \in {None, info[p], rec} /\ dpc'[e] = "loop" /\ (d # e => dpc'[d] = dpc[d])
        BY <1>3 DEF WriteInfo, Goto
  <2>2. rec.token = e
        OBVIOUS
  <2> HIDE DEF rec
  <2>3. QED
        BY <1>1, <2>1, <2>2
<1>4. CASE ~ RemoveOwnInfo(d) /\ \A e \in Daemons : ~ WriteInfo(e)
  <2>1. info'[p] = info[p]
        BY <1>4 DEF Next, DaemonStep, ClientStep,
           Environment, Bind, TruncateInfo, CheckFlag, Accept, ReadAuth,
           ReadRequest, HandleRequest, RemoveOwnInfo, RemoveInfo, Exit,
           WriteInfoFails, Signal, Crash, ProbeRead, ProbeConnect, Spawn,
           SpawnFails, ReadInfo, Dial, GetAuth, GetReply, Begin, Kill,
           ClearAllCaches, fileVars
  <2>2. ASSUME NEW e \in Daemons, DaemonStep(e)
        PROVE  dpc[d] \in {"removed", "exited"}
    <3> USE DEF Goto
    <3>1. CASE Bind(e) \/ TruncateInfo(e) \/ CheckFlag(e) \/ Accept(e)
          BY <3>1 DEF Bind, TruncateInfo, CheckFlag, Accept
    <3>2. CASE ReadAuth(e) \/ ReadRequest(e) \/ HandleRequest(e)
          BY <3>2 DEF ReadAuth, ReadRequest, HandleRequest, Hangup
    <3>3. CASE RemoveOwnInfo(e) \/ Exit(e)
          BY <1>4, <3>3 DEF RemoveOwnInfo, Exit, Gone
    <3>4. QED
          BY <1>4, <2>2, <3>1, <3>2, <3>3 DEF DaemonStep
  <2>3. ASSUME NEW c \in Clients, ClientStep(c)
        PROVE  dpc[d] \in {"removed", "exited"}
        BY <2>3 DEF ClientStep, ProbeRead, ProbeConnect, Spawn, SpawnFails,
           ReadInfo, Dial, GetAuth, GetReply, daemonVars, Goto
  <2>4. ASSUME NEW e \in Daemons, WriteInfoFails(e) \/ Signal(e) \/ Crash(e)
        PROVE  dpc[d] \in {"removed", "exited"}
        BY <2>4 DEF WriteInfoFails, Signal, Crash, Gone, Goto
  <2>5. ASSUME NEW c \in Clients, Begin(c) \/ Kill(c)
        PROVE  dpc[d] \in {"removed", "exited"}
        BY <2>5 DEF Begin, Kill, daemonVars
  <2>6. CASE ClearAllCaches
        BY <2>6 DEF ClearAllCaches, daemonVars
  <2>7. QED
        BY <1>1, <2>1, <2>2, <2>3, <2>4, <2>5, <2>6 DEF Next, Environment
<1>5. QED
      BY <1>2, <1>3, <1>4

\* No info file names a daemon that ended in order, whoever writes and removes
\* files around its exit: the clean-up at the end of run is the last word.
THEOREM CleanExitIsFinal == Spec => []CleanExitLeavesNoInfo
<1>1. Init => CleanExitLeavesNoInfo
      BY DEF Init, CleanExitLeavesNoInfo
<1>2. Shape /\ OwnProject /\ CleanExitLeavesNoInfo /\ [Next]_vars
          => CleanExitLeavesNoInfo'
  <2>1. CASE Next
        BY <2>1, CleanExitStep DEF OwnProject
  <2>2. CASE UNCHANGED vars
        BY <2>2 DEF vars, fileVars, daemonVars, CleanExitLeavesNoInfo
  <2>3. QED
        BY <2>1, <2>2
<1>3. QED
      BY <1>1, <1>2, OwnAlways, PTL DEF Spec

-----------------------------------------------------------------------------
(* Stopping *)

Serving == {"auth", "request", "handling"}

\* A command whose connection waits to be served has said who it is and has
\* heard nothing yet, and has no other connection to that daemon.
Queued(d) ==
    \A i \in DOMAIN backlog[d] :
        LET c == backlog[d][i].owner IN
        c # None =>
            /\ cpc[c] = "awaitAuth" /\ inbox[c] = None
            /\ backlog[d][i].req = None /\ served[d].owner # c
            /\ \A j \in DOMAIN backlog[d] : backlog[d][j].owner = c => i = j

\* The one that is served is where handle_connection is with it.
Attended(d) ==
    LET c == served[d].owner IN
    c # None =>
        /\ dpc[d] \in Serving
        /\ dpc[d] = "auth" =>
              cpc[c] = "awaitAuth" /\ inbox[c] = None /\ served[d].req = None
        /\ dpc[d] # "auth" =>
              \/ /\ cpc[c] = "awaitReply" /\ inbox[c] = None
                 /\ served[d].req = op[c]
              \/ /\ cpc[c] = "awaitAuth" /\ inbox[c] = "AuthOk"
                 /\ served[d].req = None

\* What a stop has been answered, it is about to print.
Acknowledged(c) ==
    /\ cpc[c] = "awaitReply" /\ inbox[c] \notin {"Error", None} /\ op[c] = "stop"
          => dpc[peer[c]] \in Stopping
    /\ outcome[c] = "answered" /\ op[c] = "stop" => dpc[peer[c]] \in Stopping

StopInv ==
    /\ \A d \in Daemons : Queued(d) /\ Attended(d)
    /\ \A c \in Clients : Acknowledged(c)

\* A connection keeps its request; its owner stays, as it was, or goes.
SameOrGone(new, old) ==
    /\ new.req = old.req
    /\ new.owner \in {old.owner, None}
    /\ LET c == new.owner IN
       c # None => cpc'[c] = cpc[c] /\ inbox'[c] = inbox[c] /\ op'[c] = op[c]

\* A daemon nobody new comes to and that does nothing.
LEMMA LineKept ==
    ASSUME NEW d \in Daemons, Queued(d), Attended(d), dpc'[d] = dpc[d],
           SameOrGone(served'[d], served[d]), DOMAIN backlog'[d] = DOMAIN backlog[d],
           \A i \in DOMAIN backlog[d] : SameOrGone(backlog'[d][i], backlog[d][i])
    PROVE  Queued(d)' /\ Attended(d)'
<1>1. Attended(d)'
      BY DEF Attended, SameOrGone
<1>2. Queued(d)'
  <2> SUFFICES ASSUME NEW i \in DOMAIN backlog[d], backlog'[d][i].owner # None
               PROVE  LET c == backlog'[d][i].owner IN
                      /\ cpc'[c] = "awaitAuth" /\ inbox'[c] = None
                      /\ backlog'[d][i].req = None /\ served'[d].owner # c
                      /\ \A j \in DOMAIN backlog[d] : backlog'[d][j].owner = c => i = j
      BY DEF Queued
  <2> QED
      BY DEF Queued, SameOrGone
<1> QED
    BY <1>1, <1>2

\* A daemon that has shut its loop never goes back.
LEMMA StoppingForGood ==
    ASSUME Shape, Next, NEW d \in Daemons, dpc[d] \in Stopping PROVE dpc'[d] \in Stopping
<1> USE DEF Shape, DaemonTypeOK, Stopping, Goto
<1>1. ASSUME NEW e \in Daemons, DaemonStep(e) PROVE dpc'[d] \in Stopping
  <2>1. CASE Bind(e) \/ TruncateInfo(e) \/ WriteInfo(e) \/ CheckFlag(e) \/ Accept(e)
        BY <2>1 DEF Bind, TruncateInfo, WriteInfo, CheckFlag, Accept
  <2>2. CASE ReadAuth(e) \/ ReadRequest(e) \/ HandleRequest(e)
        BY <2>2 DEF ReadAuth, ReadRequest, HandleRequest, Hangup
  <2>3. CASE RemoveOwnInfo(e) \/ Exit(e)
        BY <2>3 DEF RemoveOwnInfo, Exit, Gone
  <2> QED
      BY <1>1, <2>1, <2>2, <2>3 DEF DaemonStep
<1>2. ASSUME NEW c \in Clients, ClientStep(c) PROVE dpc'[d] \in Stopping
      BY <1>2 DEF ClientStep, ProbeRead, ProbeConnect, Spawn, SpawnFails,
         ReadInfo, Dial, GetAuth, GetReply, daemonVars
<1>3. CASE Environment
      BY <1>3 DEF Environment, WriteInfoFails, Signal, Crash, Gone, Begin, Kill,
         ClearAllCaches, daemonVars
<1> QED
    BY <1>1, <1>2, <1>3 DEF Next

\* A command whose record stays and that was told nothing.
LEMMA AcknowledgedKept ==
    ASSUME Shape, OwnProject, Next, NEW c \in Clients, Acknowledged(c),
           op'[c] = op[c], peer'[c] = peer[c],
           outcome'[c] = "answered" => outcome[c] = "answered",
           cpc'[c] = "awaitReply" => cpc[c] = "awaitReply" /\ inbox'[c] = inbox[c]
    PROVE  Acknowledged(c)'
<1>1. cpc[c] = "awaitReply" \/ outcome[c] = "answered" => peer[c] \in Daemons
      BY DEF OwnProject, ClientOwn, Shape, ClientTypeOK
<1> QED
    BY <1>1, StoppingForGood DEF Acknowledged

\* A step of daemon e, to which it alone and the command it serves are party.
LEMMA OtherLines ==
    ASSUME Shape, OwnProject, StopInv, NEW e \in Daemons,
           \A d \in Daemons \ {e} : /\ dpc'[d] = dpc[d]
                                    /\ served'[d] = served[d] /\ backlog'[d] = backlog[d],
           UNCHANGED <<cpc, op>>,
           \A c \in Clients : served[e].owner = c \/ inbox'[c] = inbox[c]
    PROVE  \A d \in Daemons \ {e} : Queued(d)' /\ Attended(d)'
<1> SUFFICES ASSUME NEW d \in Daemons \ {e} PROVE Queued(d)' /\ Attended(d)'
    OBVIOUS
<1>1. /\ served[d] \in Connection /\ served[e] \in Connection
      /\ \A i \in DOMAIN backlog[d] : backlog[d][i] \in Connection
      BY HeldIsTyped DEF Shape
<1>2. ASSUME NEW conn \in Connection, Holds(d, conn) PROVE SameOrGone(conn, conn)
  <2>1. CASE conn.owner = None
        BY <2>1 DEF SameOrGone
  <2>2. CASE conn.owner # None
    <3>1. conn.owner \in Clients /\ peer[conn.owner] = d
          BY <1>2, <2>2 DEF Connection, OwnProject, QueueOwn, ConnOwn
    <3>2. served[e].owner = conn.owner => peer[conn.owner] = e
          BY <1>1, <2>2 DEF OwnProject, QueueOwn, ConnOwn, Holds
    <3> QED
        BY <3>1, <3>2 DEF SameOrGone
  <2> QED
      BY <2>1, <2>2
<1>3. /\ SameOrGone(served[d], served[d])
      /\ \A i \in DOMAIN backlog[d] : SameOrGone(backlog[d][i], backlog[d][i])
      BY <1>1, <1>2 DEF Holds
<1> QED
    BY <1>3, LineKept DEF StopInv

\* Where nothing is served, only the queue matters.
LEMMA NothingServed ==
    ASSUME NEW d \in Daemons, StopInv, dpc[d] \notin Serving PROVE served[d].owner = None
BY DEF StopInv, Attended

\* The steps of a daemon that answer nobody.
LEMMA StopQuietDaemon ==
    ASSUME Shape, OwnProject, StopInv, Next, NEW e \in Daemons, UNCHANGED clientVars,
           \A d \in Daemons \ {e} : /\ dpc'[d] = dpc[d]
                                    /\ served'[d] = served[d] /\ backlog'[d] = backlog[d],
           Queued(e)' /\ Attended(e)'
    PROVE  StopInv'
<1>1. \A d \in Daemons \ {e} : Queued(d)' /\ Attended(d)'
      BY OtherLines DEF clientVars
<1>2. \A c \in Clients : Acknowledged(c)'
      BY AcknowledgedKept DEF clientVars, StopInv
<1> QED
    BY <1>1, <1>2 DEF StopInv

\* Nothing is queued or served any more.
LEMMA NoLine ==
    ASSUME NEW e \in Daemons, backlog'[e] = <<>>, served'[e] = NoConn
    PROVE  Queued(e)' /\ Attended(e)'
BY NoConnTyped DEF Queued, Attended

\* accept_loop takes the connection that has waited longest.
LEMMA StopAccept ==
    ASSUME Shape, OwnProject, StopInv, Next, NEW e \in Daemons, Accept(e) PROVE StopInv'
<1>0. /\ UNCHANGED clientVars /\ backlog[e] \in Seq(Connection)
      /\ \A d \in Daemons \ {e} : /\ dpc'[d] = dpc[d]
                                  /\ served'[d] = served[d] /\ backlog'[d] = backlog[d]
      /\ dpc[e] = "accept" /\ served[e].owner = None
      BY NothingServed DEF Accept, Goto, Shape, DaemonTypeOK, Serving
<1>1. CASE backlog[e] = <<>>
  <2>1. served'[e] = served[e] /\ backlog'[e] = backlog[e]
        BY <1>1 DEF Accept
  <2>2. Queued(e)' /\ Attended(e)'
        BY <1>0, <1>1, <2>1 DEF Queued, Attended
  <2> QED
      BY <1>0, <2>2, StopQuietDaemon
<1>2. CASE backlog[e] # <<>>
  <2>1. /\ served'[e] = Head(backlog[e]) /\ backlog'[e] = Tail(backlog[e])
        /\ dpc'[e] = "auth"
        BY <1>2 DEF Accept, Goto, Shape, DaemonTypeOK
  <2>2. /\ 1 \in DOMAIN backlog[e] /\ served'[e] = backlog[e][1]
        /\ \A i \in DOMAIN backlog'[e] :
              /\ i + 1 \in DOMAIN backlog[e] /\ backlog'[e][i] = backlog[e][i + 1]
              /\ i \in Nat \ {0}
        BY <1>0, <1>2, <2>1
  <2>3. Attended(e)'
        BY <1>0, <2>1, <2>2 DEF StopInv, Queued, Attended, Serving, clientVars
  <2>4. Queued(e)'
    <3> SUFFICES ASSUME NEW i \in DOMAIN backlog'[e], backlog'[e][i].owner # None
                 PROVE  LET c == backlog'[e][i].owner IN
                        /\ cpc'[c] = "awaitAuth" /\ inbox'[c] = None
                        /\ backlog'[e][i].req = None /\ served'[e].owner # c
                        /\ \A j \in DOMAIN backlog'[e] : backlog'[e][j].owner = c => i = j
        BY DEF Queued
    <3> DEFINE c == backlog'[e][i].owner
    <3>1. /\ cpc'[c] = "awaitAuth" /\ inbox'[c] = None /\ backlog'[e][i].req = None
          BY <1>0, <2>2 DEF StopInv, Queued, clientVars
    <3>2. \A j \in DOMAIN backlog[e] : backlog[e][j].owner = c => i + 1 = j
          BY <2>2 DEF StopInv, Queued
    <3>3. served'[e].owner # c
          BY <2>2, <3>2
    <3>4. \A j \in DOMAIN backlog'[e] : backlog'[e][j].owner = c => i = j
          BY <2>2, <3>2
    <3> QED
        BY <3>1, <3>3, <3>4
  <2> QED
      BY <1>0, <2>3, <2>4, StopQuietDaemon
<1> QED
    BY <1>1, <1>2

\* An answer goes to the command that is served, and it alone; the daemon then
\* goes on with that connection or drops it.
LEMMA QueuedAnswering ==
    ASSUME NEW e \in Daemons, Queued(e), UNCHANGED <<cpc, backlog>>,
           \A c \in Clients : served[e].owner = c \/ inbox'[c] = inbox[c],
           served'[e].owner \in {served[e].owner, None},
           backlog[e] \in Seq(Connection)
    PROVE  Queued(e)'
<1> SUFFICES ASSUME NEW i \in DOMAIN backlog[e], backlog[e][i].owner # None
             PROVE  LET c == backlog[e][i].owner IN
                    /\ cpc[c] = "awaitAuth" /\ inbox'[c] = None
                    /\ backlog[e][i].req = None /\ served'[e].owner # c
                    /\ \A j \in DOMAIN backlog[e] : backlog[e][j].owner = c => i = j
    BY DEF Queued
<1>1. backlog[e][i] \in Connection
      OBVIOUS
<1>2. backlog[e][i].owner \in Clients
      BY <1>1 DEF Connection
<1> QED
    BY <1>2 DEF Queued

\* handle_connection's first message.
LEMMA StopReadAuth ==
    ASSUME Shape, OwnProject, StopInv, Next, NEW e \in Daemons, ReadAuth(e) PROVE StopInv'
<1>0. /\ UNCHANGED <<cpc, op, proj, cinfo, peer, outcome, backlog>>
      /\ backlog[e] \in Seq(Connection) /\ served[e] \in Connection
      /\ \A d \in Daemons \ {e} : /\ dpc'[d] = dpc[d]
                                  /\ served'[d] = served[d] /\ backlog'[d] = backlog[d]
      /\ dpc[e] = "auth"
      /\ \/ served'[e] = NoConn
         \/ /\ served'[e] = [served[e] EXCEPT !.auth = None]
            /\ Respond(e, "AuthOk") /\ dpc'[e] = "request"
      /\ \A c \in Clients : served[e].owner = c \/ inbox'[c] = inbox[c]
      BY DEF ReadAuth, Hangup, Goto, Shape, DaemonTypeOK, Respond
<1>1. \A d \in Daemons \ {e} : Queued(d)' /\ Attended(d)'
      BY <1>0, OtherLines
<1>2. served'[e].owner \in {served[e].owner, None}
      BY <1>0, NoConnTyped DEF Connection
<1>3. Queued(e)'
      BY <1>0, <1>2, QueuedAnswering DEF StopInv
<1>4. Attended(e)'
  <2>1. CASE served'[e].owner = None
        BY <2>1 DEF Attended
  <2>2. CASE served'[e].owner # None
    <3>1. /\ served'[e].owner = served[e].owner /\ served'[e].req = served[e].req
          /\ served[e].owner \in Clients
          /\ Respond(e, "AuthOk") /\ dpc'[e] = "request"
          BY <1>0, <2>2, NoConnTyped DEF Connection
    <3> QED
        BY <1>0, <2>2, <3>1 DEF StopInv, Attended, Respond, Serving
  <2> QED
      BY <2>1, <2>2
<1>5. ASSUME NEW c \in Clients PROVE Acknowledged(c)'
  <2>1. cpc[c] = "awaitReply" => inbox'[c] = inbox[c]
        BY <1>0, NoneIsFresh DEF StopInv, Attended
  <2> QED
      BY <1>0, <2>1, AcknowledgedKept DEF StopInv
<1> QED
    BY <1>1, <1>3, <1>4, <1>5 DEF StopInv

\* Its request.
LEMMA StopReadRequest ==
    ASSUME Shape, OwnProject, StopInv, Next, NEW e \in Daemons, ReadRequest(e) PROVE StopInv'
<1>0. /\ UNCHANGED clientVars /\ backlog'[e] = backlog[e]
      /\ \A d \in Daemons \ {e} : /\ dpc'[d] = dpc[d]
                                  /\ served'[d] = served[d] /\ backlog'[d] = backlog[d]
      /\ backlog[e] \in Seq(Connection)
      /\ dpc[e] = "request"
      /\ \/ served'[e] = served[e] /\ dpc'[e] = "handling" /\ served[e].req # None
         \/ served'[e] = NoConn
      BY DEF ReadRequest, Hangup, Goto, Shape, DaemonTypeOK
<1>1. Queued(e)'
      BY <1>0, NoConnTyped DEF StopInv, Queued, clientVars
<1>2. Attended(e)'
      BY <1>0, NoConnTyped DEF StopInv, Attended, Serving, clientVars
<1> QED
    BY <1>0, <1>1, <1>2, StopQuietDaemon

\* Its answer: after Ok to a stop the loop is left.
LEMMA StopHandle ==
    ASSUME Shape, OwnProject, StopInv, Next, NEW e \in Daemons, HandleRequest(e)
    PROVE  StopInv'
<1>0. /\ UNCHANGED <<cpc, op, proj, cinfo, peer, outcome, backlog>>
      /\ backlog[e] \in Seq(Connection) /\ served[e] \in Connection
      /\ \A d \in Daemons \ {e} : /\ dpc'[d] = dpc[d]
                                  /\ served'[d] = served[d] /\ backlog'[d] = backlog[d]
      /\ dpc[e] = "handling" /\ served'[e] = NoConn
      /\ served[e].req = "stop" => dpc'[e] = "draining"
      /\ \A c \in Clients : served[e].owner = c \/ inbox'[c] = inbox[c]
      BY DEF HandleRequest, Goto, Shape, DaemonTypeOK, Respond, ShouldStop
<1>1. \A d \in Daemons \ {e} : Queued(d)' /\ Attended(d)'
      BY <1>0, OtherLines
<1>2. Queued(e)'
      BY <1>0, NoConnTyped, QueuedAnswering DEF StopInv
<1>3. Attended(e)'
      BY <1>0, NoConnTyped DEF Attended
<1>4. served[e].req # None
      BY <1>0, NoneIsFresh DEF Shape, DaemonShape, Requests, Commands
<1>5. ASSUME NEW c \in Clients PROVE Acknowledged(c)'
  <2>1. CASE served[e].owner # c
        BY <1>0, <2>1, AcknowledgedKept DEF StopInv
  <2>2. CASE served[e].owner = c
    <3>1. c # None
          BY NoneIsFresh
    <3>2. peer[c] = e /\ cpc[c] = "awaitReply"
      <4>1. ConnOwn(e, served[e])
            BY <1>0 DEF OwnProject, QueueOwn, Holds
      <4> QED
          BY <1>0, <1>4, <2>2, <3>1, <4>1 DEF ConnOwn, StopInv, Attended
    <3>3. served[e].req = op[c]
          BY <1>0, <1>4, <2>2, <3>1 DEF StopInv, Attended
    <3>4. outcome[c] # "answered"
          BY <3>2 DEF OwnProject, ClientOwn
    <3> QED
        BY <1>0, <3>2, <3>3, <3>4 DEF Acknowledged, Stopping
  <2> QED
      BY <2>1, <2>2
<1> QED
    BY <1>1, <1>2, <1>3, <1>5 DEF StopInv

LEMMA StopDaemonStep ==
    ASSUME Shape, OwnProject, StopInv, Next, NEW e \in Daemons, DaemonStep(e) PROVE StopInv'
<1>1. CASE Bind(e) \/ TruncateInfo(e) \/ WriteInfo(e) \/ CheckFlag(e) \/ RemoveOwnInfo(e)
  <2>1. /\ UNCHANGED <<backlog, served>> /\ UNCHANGED clientVars /\ dpc[e] \notin Serving
        /\ \A d \in Daemons \ {e} : dpc'[d] = dpc[d]
        BY <1>1 DEF Bind, TruncateInfo, WriteInfo, CheckFlag, RemoveOwnInfo, Goto, Serving,
           Shape, DaemonTypeOK, clientVars
  <2>2. served'[e].owner = None
        BY <2>1, NothingServed
  <2>3. Queued(e)' /\ Attended(e)'
        BY <2>1, <2>2 DEF StopInv, Queued, Attended, clientVars
  <2> QED
      BY <2>1, <2>3, StopQuietDaemon
<1>2. CASE Exit(e)
  <2>1. /\ UNCHANGED clientVars /\ backlog'[e] = <<>> /\ served'[e] = NoConn
        /\ \A d \in Daemons \ {e} : /\ dpc'[d] = dpc[d]
                                    /\ served'[d] = served[d] /\ backlog'[d] = backlog[d]
        BY <1>2 DEF Exit, Gone, Goto, Shape, DaemonTypeOK
  <2> QED
      BY <2>1, NoLine, StopQuietDaemon
<1> QED
    BY <1>1, <1>2, StopAccept, StopReadAuth, StopReadRequest, StopHandle DEF DaemonStep

-----------------------------------------------------------------------------
\* A command that does not wait and leaves the connections alone.
LEMMA LinesBeside ==
    ASSUME Shape, OwnProject, StopInv, NEW c \in Clients, OthersKept(c),
           cpc[c] \notin Awaiting, UNCHANGED <<served, backlog>>,
           NEW d \in Daemons, dpc'[d] = dpc[d] \/ dpc[d] \notin Serving
    PROVE  Queued(d)' /\ Attended(d)'
<1>1. /\ served[d] \in Connection /\ backlog[d] \in Seq(Connection)
      /\ \A i \in DOMAIN backlog[d] : backlog[d][i] \in Connection
      BY HeldIsTyped DEF Shape, DaemonTypeOK
<1>2. ASSUME NEW conn \in Connection, Holds(d, conn) PROVE SameOrGone(conn, conn)
  <2>1. conn.owner # c
        BY <1>2, NotWaiting DEF OwnProject
  <2>2. conn.owner \in Clients \cup {None}
        BY DEF Connection
  <2> QED
      BY <2>1, <2>2 DEF SameOrGone, OthersKept
<1>3. /\ SameOrGone(served[d], served[d])
      /\ \A i \in DOMAIN backlog[d] : SameOrGone(backlog[d][i], backlog[d][i])
      BY <1>1, <1>2 DEF Holds
<1>4. CASE dpc'[d] = dpc[d]
      BY <1>3, <1>4, LineKept DEF StopInv
<1>5. CASE dpc[d] \notin Serving
  <2>1. served'[d].owner = None
        BY <1>5, NothingServed
  <2>2. Attended(d)'
        BY <2>1 DEF Attended
  <2>3. Queued(d)'
    <3> SUFFICES ASSUME NEW i \in DOMAIN backlog[d], backlog[d][i].owner # None
                 PROVE  LET b == backlog[d][i].owner IN
                        /\ cpc'[b] = "awaitAuth" /\ inbox'[b] = None
                        /\ backlog[d][i].req = None /\ served[d].owner # b
                        /\ \A j \in DOMAIN backlog[d] : backlog[d][j].owner = b => i = j
        BY DEF Queued
    <3> QED
        BY <1>3 DEF StopInv, Queued, SameOrGone
  <2> QED
      BY <2>2, <2>3
<1> QED
    BY <1>4, <1>5

\* A command lets go of its connection.
LEMMA LinesClosed ==
    ASSUME Shape, OwnProject, StopInv, NEW c \in Clients, OthersKept(c),
           CloseClientEnd(c), UNCHANGED dpc, NEW d \in Daemons
    PROVE  Queued(d)' /\ Attended(d)'
<1>1. /\ served[d] \in Connection /\ backlog[d] \in Seq(Connection)
      /\ \A i \in DOMAIN backlog[d] : backlog[d][i] \in Connection
      BY HeldIsTyped DEF Shape, DaemonTypeOK
<1>2. /\ served'[d] = Orphan(c, served[d])
      /\ backlog'[d] = [i \in 1..Len(backlog[d]) |-> Orphan(c, backlog[d][i])]
      /\ DOMAIN backlog[d] = 1..Len(backlog[d])
      BY <1>1 DEF CloseClientEnd
<1>3. ASSUME NEW conn \in Connection PROVE SameOrGone(Orphan(c, conn), conn)
  <2>1. /\ Orphan(c, conn).req = conn.req /\ Orphan(c, conn).owner # c
        /\ Orphan(c, conn).owner \in {conn.owner, None}
        BY ConnectionFields, DerivedEdits DEF Derived
  <2>2. conn.owner \in Clients \cup {None}
        BY DEF Connection
  <2> QED
      BY <2>1, <2>2 DEF SameOrGone, OthersKept
<1>4. /\ SameOrGone(served'[d], served[d])
      /\ DOMAIN backlog'[d] = DOMAIN backlog[d]
      /\ \A i \in DOMAIN backlog[d] : SameOrGone(backlog'[d][i], backlog[d][i])
      BY <1>1, <1>2, <1>3
<1> QED
    BY <1>4, LineKept DEF StopInv

\* A command connects: it is the last, and nowhere else.
LEMMA LinesGrow ==
    ASSUME Shape, OwnProject, StopInv, NEW c \in Clients, OthersKept(c),
           cpc[c] \notin Awaiting, NEW e \in Daemons, NEW new \in Connection,
           backlog' = [backlog EXCEPT ![e] = Append(@, new)], UNCHANGED <<served, dpc>>,
           new.req = None, new.owner \in {None, c},
           new.owner = c => cpc'[c] = "awaitAuth" /\ inbox'[c] = None,
           NEW d \in Daemons
    PROVE  Queued(d)' /\ Attended(d)'
<1>1. /\ served[d] \in Connection /\ backlog[d] \in Seq(Connection)
      /\ \A i \in DOMAIN backlog[d] : backlog[d][i] \in Connection
      BY HeldIsTyped DEF Shape, DaemonTypeOK
<1>2. ASSUME NEW conn \in Connection, Holds(d, conn)
      PROVE  conn.owner # c /\ SameOrGone(conn, conn)
  <2>1. conn.owner # c
        BY <1>2, NotWaiting DEF OwnProject
  <2>2. conn.owner \in Clients \cup {None}
        BY DEF Connection
  <2> QED
      BY <2>1, <2>2 DEF SameOrGone, OthersKept
<1>3. /\ served[d].owner # c /\ SameOrGone(served[d], served[d])
      /\ \A i \in DOMAIN backlog[d] :
            backlog[d][i].owner # c /\ SameOrGone(backlog[d][i], backlog[d][i])
      BY <1>1, <1>2 DEF Holds
<1>4. CASE d # e
  <2>1. backlog'[d] = backlog[d]
        BY <1>4 DEF Shape, DaemonTypeOK
  <2> QED
      BY <1>3, <2>1, LineKept DEF StopInv
<1>5. CASE d = e
  <2> DEFINE n == Len(backlog[e])
             s == backlog'[e]
  <2>1. s = Append(backlog[e], new)
        BY DEF Shape, DaemonTypeOK
  <2>2. /\ n \in Nat /\ DOMAIN backlog[e] = 1..n /\ DOMAIN s = 1..(n + 1)
        /\ s[n + 1] = new /\ \A i \in 1..n : s[i] = backlog[e][i]
        BY <1>1, <1>5, <2>1
  <2>3. Attended(e)'
        BY <1>3, <1>5 DEF StopInv, Attended, SameOrGone
  <2> HIDE DEF s
  <2>4. ASSUME NEW i \in 1..(n + 1), s[i].owner # None
        PROVE  LET b == s[i].owner IN
               /\ cpc'[b] = "awaitAuth" /\ inbox'[b] = None
               /\ s[i].req = None /\ served[e].owner # b
               /\ \A j \in 1..(n + 1) : s[j].owner = b => i = j
    <3>1. CASE i = n + 1
      <4>1. s[i].owner = c /\ s[i].req = None
            BY <2>2, <2>4, <3>1
      <4>2. \A j \in 1..(n + 1) : s[j].owner = c => j = n + 1
        <5>1. \A j \in 1..(n + 1) : j \in 1..n \/ j = n + 1
              BY <2>2
        <5> QED
            BY <1>3, <1>5, <2>2, <5>1
      <4> QED
          BY <1>3, <1>5, <2>2, <3>1, <4>1, <4>2
    <3>2. CASE i \in 1..n
      <4> DEFINE b == s[i].owner
      <4>1. s[i] = backlog[e][i] /\ b # c /\ i \in DOMAIN backlog[e]
            BY <1>3, <1>5, <2>2, <3>2
      <4>2. /\ cpc'[b] = "awaitAuth" /\ inbox'[b] = None
            /\ s[i].req = None /\ served[e].owner # b
            /\ \A j \in 1..n : backlog[e][j].owner = b => i = j
            BY <1>3, <1>5, <2>2, <2>4, <4>1 DEF StopInv, Queued, SameOrGone
      <4>3. \A j \in 1..(n + 1) : s[j].owner = b => i = j
        <5>1. \A j \in 1..(n + 1) : j \in 1..n \/ j = n + 1
              BY <2>2
        <5>2. s[n + 1].owner # b
              BY <2>2, <2>4, <4>1
        <5> QED
            BY <2>2, <4>2, <5>1, <5>2
      <4> QED
          BY <4>2, <4>3
    <3> QED
        BY <2>2, <3>1, <3>2
  <2>5. Queued(e)'
        BY <2>2, <2>4 DEF Queued, s
  <2> QED
      BY <1>5, <2>3, <2>5
<1> QED
    BY <1>4, <1>5

\* The others' acknowledgements stand when one command moves.
LEMMA OthersAcknowledged ==
    ASSUME Shape, OwnProject, StopInv, Next, NEW c \in Clients, OthersKept(c),
           Acknowledged(c)'
    PROVE  \A b \in Clients : Acknowledged(b)'
BY AcknowledgedKept DEF OthersKept, StopInv

\* A command that is not answered and awaits no reply claims nothing.
LEMMA NothingClaimed ==
    ASSUME NEW c \in Clients, cpc'[c] # "awaitReply", outcome'[c] # "answered"
    PROVE  Acknowledged(c)'
BY DEF Acknowledged

\* DaemonClient::connect is told it may send its request.
LEMMA StopGetAuth ==
    ASSUME Shape, OwnProject, StopInv, Next, NEW c \in Clients, GetAuth(c),
           ~ (CloseClientEnd(c) /\ Finish(c))
    PROVE  StopInv'
<1>0. /\ cpc[c] = "awaitAuth" /\ inbox[c] = "AuthOk" /\ cpc'[c] = "awaitReply"
      /\ inbox'[c] = None /\ OthersKept(c) /\ op'[c] = op[c] /\ outcome'[c] = outcome[c]
      /\ UNCHANGED <<dpc, backlog>>
      /\ served' = [d \in Daemons |->
                      IF served[d].owner = c
                        THEN [served[d] EXCEPT !.req = op[c]] ELSE served[d]]
      BY DEF GetAuth, OthersKept, Shape, ClientTypeOK
<1>1. ASSUME NEW d \in Daemons PROVE Queued(d)' /\ Attended(d)'
  <2>1. /\ served[d] \in Connection /\ backlog[d] \in Seq(Connection)
        /\ \A i \in DOMAIN backlog[d] : backlog[d][i] \in Connection
        BY HeldIsTyped DEF Shape, DaemonTypeOK
  <2>2. \A i \in DOMAIN backlog[d] : backlog[d][i].owner # c
        BY <1>0, NoneIsFresh DEF StopInv, Queued, Responses
  <2>3. /\ served'[d].owner = served[d].owner
        /\ served[d].owner # c => served'[d].req = served[d].req
        /\ served[d].owner = c => served'[d].req = op[c]
        BY <1>0, <2>1 DEF Connection
  <2>4. Queued(d)'
    <3> SUFFICES ASSUME NEW i \in DOMAIN backlog[d], backlog[d][i].owner # None
                 PROVE  LET b == backlog[d][i].owner IN
                        /\ cpc'[b] = "awaitAuth" /\ inbox'[b] = None
                        /\ backlog[d][i].req = None /\ served'[d].owner # b
                        /\ \A j \in DOMAIN backlog[d] : backlog[d][j].owner = b => i = j
        BY <1>0 DEF Queued
    <3>1. backlog[d][i].owner \in Clients \ {c}
          BY <2>1, <2>2 DEF Connection
    <3> QED
        BY <1>0, <2>3, <3>1 DEF StopInv, Queued, OthersKept
  <2>5. Attended(d)'
    <3>1. CASE served[d].owner = c
          BY <1>0, <2>3, <3>1, NoneIsFresh DEF StopInv, Attended, Responses
    <3>2. CASE served[d].owner # c
      <4>1. served[d].owner \in (Clients \ {c}) \cup {None}
            BY <2>1, <3>2 DEF Connection
      <4> QED
          BY <1>0, <2>3, <3>2, <4>1 DEF StopInv, Attended, OthersKept
    <3> QED
        BY <3>1, <3>2
  <2> QED
      BY <2>4, <2>5
<1>2. outcome[c] # "answered"
      BY <1>0 DEF OwnProject, ClientOwn
<1>3. Acknowledged(c)'
      BY <1>0, <1>2 DEF Acknowledged
<1> QED
    BY <1>0, <1>1, <1>3, OthersAcknowledged DEF StopInv

\* A command finishes, with its connection closed or none to close.
LEMMA StopFinish ==
    ASSUME Shape, OwnProject, StopInv, Next, NEW c \in Clients, Finish(c),
           \A d \in Daemons : Queued(d)' /\ Attended(d)'
    PROVE  StopInv'
<1>1. OthersKept(c) /\ cpc'[c] = "idle" /\ outcome'[c] = "none"
      BY FinishRecord DEF Shape
<1> QED
    BY <1>1, NothingClaimed, OthersAcknowledged DEF StopInv

LEMMA StopClientStep ==
    ASSUME Shape, OwnProject, StopInv, Next, NEW c \in Clients, ClientStep(c) PROVE StopInv'
<1>0. ClientTypeOK /\ ClientOwn(c)
      BY DEF Shape, OwnProject
<1>1. CASE ProbeRead(c) \/ ReadInfo(c)
  <2>1. /\ UNCHANGED <<served, backlog, dpc>> /\ cpc[c] \notin Awaiting
        /\ outcome[c] # "answered"
        BY <1>0, <1>1 DEF ProbeRead, ReadInfo, daemonVars, Awaiting, ClientOwn
  <2>2. OthersKept(c) /\ cpc'[c] # "awaitReply" /\ outcome'[c] # "answered"
    <3>1. CASE Finish(c)
          BY <1>0, <3>1, FinishRecord
    <3>2. CASE NotRunning(c)
          BY <1>0, <2>1, <3>2, NotRunningRecord
    <3>3. CASE ~ Finish(c) /\ ~ NotRunning(c)
          BY <1>0, <1>1, <2>1, <3>3 DEF ProbeRead, ReadInfo, OthersKept, ClientTypeOK
    <3> QED
        BY <3>1, <3>2, <3>3
  <2>3. \A d \in Daemons : Queued(d)' /\ Attended(d)'
        BY <2>1, <2>2, LinesBeside
  <2> QED
      BY <2>2, <2>3, NothingClaimed, OthersAcknowledged DEF StopInv
<1>2. CASE Spawn(c) \/ SpawnFails(c)
  <2>1. /\ UNCHANGED <<served, backlog>> /\ cpc[c] \notin Awaiting /\ Finish(c)
        /\ \A d \in Daemons : dpc'[d] = dpc[d] \/ dpc[d] \notin Serving
        BY <1>2 DEF Spawn, SpawnFails, daemonVars, Goto, Awaiting, Serving, Shape, DaemonTypeOK
  <2>2. \A d \in Daemons : Queued(d)' /\ Attended(d)'
        BY <1>0, <2>1, FinishRecord, LinesBeside
  <2> QED
      BY <2>1, <2>2, StopFinish
<1>3. CASE ProbeConnect(c)
  <2>1. /\ UNCHANGED <<served, dpc>> /\ cpc[c] \notin Awaiting /\ proj[c] \in Projects
        /\ outcome[c] # "answered"
        BY <1>0, <1>3 DEF ProbeConnect, Awaiting, ClientOwn, Shape, ClientShape
  <2>2. OthersKept(c) /\ cpc'[c] # "awaitReply" /\ outcome'[c] # "answered"
    <3>1. CASE Finish(c)
          BY <1>0, <3>1, FinishRecord
    <3>2. CASE NotRunning(c)
          BY <1>0, <2>1, <3>2, NotRunningRecord
    <3>3. CASE ~ Finish(c) /\ ~ NotRunning(c)
          BY <1>0, <1>3, <2>1, <3>3 DEF ProbeConnect, OthersKept, ClientTypeOK
    <3> QED
        BY <3>1, <3>2, <3>3
  <2>3. \A d \in Daemons : Queued(d)' /\ Attended(d)'
    <3>1. CASE UNCHANGED backlog
          BY <2>1, <2>2, <3>1, LinesBeside
    <3>2. ASSUME NEW e \in Daemons,
                 backlog' = [backlog EXCEPT ![e] = Append(@, ProbeConn(proj[c]))]
          PROVE  \A d \in Daemons : Queued(d)' /\ Attended(d)'
      <4> DEFINE new == ProbeConn(proj[c])
      <4>1. new \in Connection /\ new.req = None /\ new.owner = None
            BY <2>1, NoConnTyped DEF ProbeConn, NoConn
      <4> HIDE DEF new
      <4>2. backlog' = [backlog EXCEPT ![e] = Append(@, new)]
            BY <3>2 DEF new
      <4>3. c # None
            BY NoneIsFresh
      <4> QED
          BY <2>1, <2>2, <4>1, <4>2, <4>3, LinesGrow
    <3> QED
        BY <1>3, <3>1, <3>2 DEF ProbeConnect
  <2> QED
      BY <2>2, <2>3, NothingClaimed, OthersAcknowledged DEF StopInv
<1>4. CASE Dial(c)
  <2>1. /\ UNCHANGED <<served, dpc>> /\ cpc[c] = "dial" /\ outcome[c] # "answered"
        /\ inbox[c] = None /\ proj[c] \in Projects /\ cinfo[c] \in DaemonInfo
        BY <1>0, <1>4 DEF Dial, Awaiting, ClientOwn, Shape, ClientShape, ClientTypeOK
  <2>2. CASE Finish(c) /\ UNCHANGED backlog
    <3>1. \A d \in Daemons : Queued(d)' /\ Attended(d)'
          BY <1>0, <2>1, <2>2, FinishRecord, LinesBeside DEF Awaiting
    <3> QED
        BY <2>2, <3>1, StopFinish
  <2>3. ASSUME NEW e \in Daemons,
               backlog' = [backlog EXCEPT ![e] = Append(@, DialConn(c))],
               cpc' = [cpc EXCEPT ![c] = "awaitAuth"],
               peer' = [peer EXCEPT ![c] = e], cinfo' = [cinfo EXCEPT ![c] = None],
               UNCHANGED <<op, proj, inbox, outcome>>
        PROVE  StopInv'
    <3>1. OthersKept(c) /\ cpc'[c] = "awaitAuth" /\ outcome'[c] # "answered" /\ inbox'[c] = None
          BY <1>0, <2>1, <2>3 DEF OthersKept, ClientTypeOK
    <3> DEFINE new == DialConn(c)
    <3>2. new \in Connection /\ new.req = None /\ new.owner = c
          BY <2>1, DialConnTyped DEF DialConn
    <3> HIDE DEF new
    <3>3. backlog' = [backlog EXCEPT ![e] = Append(@, new)]
          BY <2>3 DEF new
    <3>4. \A d \in Daemons : Queued(d)' /\ Attended(d)'
          BY <2>1, <3>1, <3>2, <3>3, LinesGrow DEF Awaiting
    <3> QED
        BY <3>1, <3>4, NothingClaimed, OthersAcknowledged DEF StopInv
  <2> QED
      BY <1>4, <2>2, <2>3 DEF Dial
<1>5. CASE Finish(c) /\ CloseClientEnd(c) /\ UNCHANGED dpc
  <2>1. \A d \in Daemons : Queued(d)' /\ Attended(d)'
        BY <1>0, <1>5, FinishRecord, LinesClosed
  <2> QED
      BY <1>5, <2>1, StopFinish
<1>6. CASE GetAuth(c)
      BY <1>5, <1>6, StopGetAuth DEF GetAuth
<1>7. CASE GetReply(c)
  <2>1. CASE Finish(c)
        BY <1>5, <1>7, <2>1 DEF GetReply
  <2>2. CASE ~ Finish(c)
    <3>1. /\ cpc[c] = "awaitReply" /\ inbox[c] \notin {"Error", None} /\ cpc'[c] = "idle"
          /\ UNCHANGED <<op, proj, cinfo, peer, dpc>> /\ OthersKept(c) /\ CloseClientEnd(c)
          BY <1>0, <1>7, <2>2 DEF GetReply, OthersKept, ClientTypeOK
    <3>2. \A d \in Daemons : Queued(d)' /\ Attended(d)'
          BY <3>1, LinesClosed
    <3>3. Acknowledged(c)'
          BY <3>1 DEF StopInv, Acknowledged
    <3> QED
        BY <3>1, <3>2, <3>3, OthersAcknowledged DEF StopInv
  <2> QED
      BY <2>1, <2>2
<1> QED
    BY <1>1, <1>2, <1>3, <1>4, <1>6, <1>7 DEF ClientStep

LEMMA StopEnvironmentStep ==
    ASSUME Shape, OwnProject, StopInv, Next, Environment PROVE StopInv'
<1>1. ASSUME NEW e \in Daemons, WriteInfoFails(e) \/ Crash(e) PROVE StopInv'
  <2>1. /\ UNCHANGED clientVars /\ backlog'[e] = <<>> /\ served'[e] = NoConn
        /\ \A d \in Daemons \ {e} : /\ dpc'[d] = dpc[d]
                                    /\ served'[d] = served[d] /\ backlog'[d] = backlog[d]
        BY <1>1 DEF WriteInfoFails, Crash, Gone, Goto, Shape, DaemonTypeOK
  <2> QED
      BY <2>1, NoLine, StopQuietDaemon
<1>2. CASE ClearAllCaches \/ \E e \in Daemons : Signal(e)
  <2>1. UNCHANGED <<served, backlog, dpc>> /\ UNCHANGED clientVars
        BY <1>2 DEF ClearAllCaches, Signal, daemonVars
  <2>2. (\A d \in Daemons : Queued(d)' /\ Attended(d)')
        BY <2>1 DEF StopInv, Queued, Attended, clientVars
  <2>3. \A c \in Clients : Acknowledged(c)'
        BY <2>1 DEF StopInv, Acknowledged, clientVars
  <2> QED
      BY <2>2, <2>3 DEF StopInv
<1>3. ASSUME NEW c \in Clients, Begin(c) PROVE StopInv'
  <2>1. /\ UNCHANGED <<served, backlog, dpc>> /\ cpc[c] \notin Awaiting /\ OthersKept(c)
        /\ cpc'[c] = "probe" /\ outcome'[c] = "none"
        BY <1>3 DEF Begin, daemonVars, Awaiting, OthersKept, Shape, ClientTypeOK
  <2>2. \A d \in Daemons : Queued(d)' /\ Attended(d)'
        BY <2>1, LinesBeside
  <2> QED
      BY <2>1, <2>2, NothingClaimed, OthersAcknowledged DEF StopInv
<1>4. ASSUME NEW c \in Clients, Kill(c) PROVE StopInv'
  <2>1. Finish(c) /\ CloseClientEnd(c) /\ UNCHANGED dpc
        BY <1>4 DEF Kill
  <2>2. \A d \in Daemons : Queued(d)' /\ Attended(d)'
        BY <2>1, FinishRecord, LinesClosed DEF Shape
  <2> QED
      BY <2>1, <2>2, StopFinish
<1> QED
    BY <1>1, <1>2, <1>3, <1>4 DEF Environment

\* StopInv is inductive relative to Shape and OwnProject.
LEMMA StopStep == Shape /\ OwnProject /\ StopInv /\ [Next]_vars => StopInv'
<1> SUFFICES ASSUME Shape, OwnProject, StopInv, [Next]_vars PROVE StopInv'
    OBVIOUS
<1>1. CASE Next
      BY <1>1, StopDaemonStep, StopClientStep, StopEnvironmentStep DEF Next
<1>2. CASE UNCHANGED vars
      BY <1>2 DEF vars, daemonVars, clientVars, StopInv, Queued, Attended, Acknowledged
<1> QED
    BY <1>1, <1>2

LEMMA StopInit == Init => StopInv
BY NoConnTyped, NoneIsFresh DEF Init, StopInv, Queued, Attended, Acknowledged

\* `cq daemon stop` says "daemon stopped" of a daemon that has left its loop for
\* good, whoever else is connected to it and whatever the command was told
\* before (should_stop, DaemonClient::shutdown).
THEOREM StopIsTrue == Spec => []StopIsAcknowledgedTruly
<1>1. StopInv => StopIsAcknowledgedTruly
      BY DEF StopInv, Acknowledged, StopIsAcknowledgedTruly
<1> QED
    BY <1>1, StopInit, StopStep, OwnAlways, PTL DEF Spec
=============================================================================
