---------------------------- MODULE DaemonService ----------------------------
(***************************************************************************)
(* The background daemon of cq and the command line processes that talk to  *)
(* it: `cq daemon start | stop | status` and the daemon tier of a query.    *)
(*                                                                          *)
(* Processes share one file per project, the daemon info file, which holds  *)
(* the TCP port and the authentication token of a daemon.  Any number of    *)
(* daemons and clients run at once; nothing but that file and TCP           *)
(* coordinates them.  A daemon identity stands for one process: its pid,    *)
(* and the token it draws at start, which embeds pid and time.              *)
(*                                                                          *)
(* A file that is missing and a file that does not parse are the same to    *)
(* every reader (read_daemon_info returns None), so both are `None` here.   *)
(***************************************************************************)
EXTENDS Naturals, Sequences, FiniteSets

CONSTANTS Projects,      \* project roots; each has its own info file
          Daemons,       \* daemon processes, each run at most once
          Clients,       \* command line processes, each runs commands in turn
          Ports,         \* TCP ports of the loopback interface
          BacklogLimit,  \* connections the kernel queues for a listener
          None           \* no value

\* What info files hold: DaemonInfo, with pid and token being the process.
DaemonInfo == [port : Ports, token : Daemons]

Requests  == {"stop", "status", "query"}     \* Shutdown, Status, Query
Commands  == Requests \cup {"start"}
Responses == {"AuthOk", "Error", "Ok", "Status", "Locations"}

ASSUME NoneIsFresh ==
    /\ None \notin Projects \cup Daemons \cup Clients \cup Ports
    /\ None \notin DaemonInfo
    /\ None \notin Commands \cup Responses

ASSUME BacklogAssumption == BacklogLimit \in Nat

VARIABLES
    info,     \* info[p]: what a reader of p's info file gets
    writers,  \* writers[p]: daemons whose open file is the one p's name denotes
    dpc, dproj, dport,
    flag,     \* flag[d]: shutdown_flag, set by a signal
    backlog,  \* backlog[d]: connections d has not accepted
    served,   \* served[d]: the connection d is handling
    cpc, op, proj, cinfo,
    peer,     \* peer[c]: the daemon at the other end of c's connection
    inbox,    \* inbox[c]: the response c has not read
    outcome   \* outcome[c]: "answered" once a request got a non-error answer

fileVars   == <<info, writers>>
daemonVars == <<dpc, dproj, dport, flag, backlog, served>>
clientVars == <<cpc, op, proj, cinfo, peer, inbox, outcome>>
vars       == <<fileVars, daemonVars, clientVars>>

(***************************************************************************)
(* A connection, as the daemon's end sees it: who holds the other end (None *)
(* once it is closed), the project that end connected for, the token of an  *)
(* Authenticate message not yet read and the request not yet handled.       *)
(***************************************************************************)
Connection == [owner : Clients \cup {None}, for : Projects \cup {None},
               auth : Daemons \cup {None}, req : Requests \cup {None}]

NoConn == [owner |-> None, for |-> None, auth |-> None, req |-> None]

\* What a probe leaves behind: connected and closed at once, nothing sent.
ProbeConn(p) == [NoConn EXCEPT !.for = p]

Live       == {"bound", "writing", "loop", "accept", "auth", "request",
               "handling", "draining", "removed"}
DaemonPC   == Live \cup {"unborn", "boot", "exited", "crashed"}
ClientPC   == {"idle", "probe", "spawn", "connect", "dial", "awaitAuth", "awaitReply"}

FileTypeOK ==
    /\ info    \in [Projects -> DaemonInfo \cup {None}]
    /\ writers \in [Projects -> SUBSET Daemons]

DaemonTypeOK ==
    /\ dpc     \in [Daemons -> DaemonPC]
    /\ dproj   \in [Daemons -> Projects \cup {None}]
    /\ dport   \in [Daemons -> Ports \cup {None}]
    /\ flag    \in [Daemons -> BOOLEAN]
    /\ backlog \in [Daemons -> Seq(Connection)]
    /\ served  \in [Daemons -> Connection]

ClientTypeOK ==
    /\ cpc     \in [Clients -> ClientPC]
    /\ op      \in [Clients -> Commands \cup {None}]
    /\ proj    \in [Clients -> Projects \cup {None}]
    /\ cinfo   \in [Clients -> DaemonInfo \cup {None}]
    /\ peer    \in [Clients -> Daemons \cup {None}]
    /\ inbox   \in [Clients -> Responses \cup {None}]
    /\ outcome \in [Clients -> {"none", "answered"}]

\* Each variable holds what the code's types and control flow let it hold.
TypeOK == FileTypeOK /\ DaemonTypeOK /\ ClientTypeOK

Init ==
    /\ info    = [p \in Projects |-> None]
    /\ writers = [p \in Projects |-> {}]
    /\ dpc     = [d \in Daemons |-> "unborn"]
    /\ dproj   = [d \in Daemons |-> None]
    /\ dport   = [d \in Daemons |-> None]
    /\ flag    = [d \in Daemons |-> FALSE]
    /\ backlog = [d \in Daemons |-> <<>>]
    /\ served  = [d \in Daemons |-> NoConn]
    /\ cpc     = [c \in Clients |-> "idle"]
    /\ op      = [c \in Clients |-> None]
    /\ proj    = [c \in Clients |-> None]
    /\ cinfo   = [c \in Clients |-> None]
    /\ peer    = [c \in Clients |-> None]
    /\ inbox   = [c \in Clients |-> None]
    /\ outcome = [c \in Clients |-> "none"]

-----------------------------------------------------------------------------
(* The info file *)

\* remove_daemon_file: unlinks whatever the project's name denotes now.
RemoveInfo(p) ==
    /\ info'    = [info EXCEPT ![p] = None]
    /\ writers' = [writers EXCEPT ![p] = {}]

\* `cq cache clear` removes the cache directory, and daemons/ lies under it.
ClearAllCaches ==
    /\ info'    = [p \in Projects |-> None]
    /\ writers' = [p \in Projects |-> {}]
    /\ UNCHANGED <<daemonVars, clientVars>>

-----------------------------------------------------------------------------
(* TCP *)

\* The listener is open from bind until the process ends.
Listening(d, port) == dpc[d] \in Live /\ dport[d] = port

\* The handshake succeeds without the daemon's help while the queue has room.
Reachable(d, port) == Listening(d, port) /\ Len(backlog[d]) < BacklogLimit

IsDaemonRunning(p) ==
    info[p] # None /\ \E d \in Daemons : Reachable(d, info[p].port)

\* The connection c's end of has been closed: reading it gives end of file.
Owns(c, d) ==
    \/ served[d].owner = c
    \/ \E i \in DOMAIN backlog[d] : backlog[d][i].owner = c
Closed(c) == peer[c] = None \/ ~Owns(c, peer[c])

\* c's process closes its end, wherever the daemon's end is.
Orphan(c, conn) == IF conn.owner = c THEN [conn EXCEPT !.owner = None] ELSE conn
CloseClientEnd(c) ==
    /\ served'  = [d \in Daemons |-> Orphan(c, served[d])]
    /\ backlog' = [d \in Daemons |->
                      [i \in 1..Len(backlog[d]) |-> Orphan(c, backlog[d][i])]]

\* Writes to a connection whose other end is gone are ignored by the daemon.
Respond(d, r) ==
    inbox' = [c \in Clients |-> IF served[d].owner = c THEN r ELSE inbox[c]]

-----------------------------------------------------------------------------
(* Daemon::run *)

Goto(d, pc) == dpc' = [dpc EXCEPT ![d] = pc]

\* Mutant: the daemon keeps the port it asked for, 0, not the one it was given.
BindForgettingPort(d) ==
    /\ dpc[d] = "boot"
    /\ Goto(d, "bound")
    /\ UNCHANGED <<fileVars, dproj, dport, flag, backlog, served, clientVars>>

Bind(d) ==
    /\ dpc[d] = "boot"
    /\ \E port \in Ports :
          /\ ~ \E e \in Daemons : Listening(e, port)
          /\ dport' = [dport EXCEPT ![d] = port]
    /\ Goto(d, "bound")
    /\ UNCHANGED <<fileVars, dproj, flag, backlog, served, clientVars>>

\* write_daemon_info, first half: fs::write opens the file and truncates it.
TruncateInfo(d) ==
    /\ dpc[d] = "bound"
    /\ info'    = [info EXCEPT ![dproj[d]] = None]
    /\ writers' = [writers EXCEPT ![dproj[d]] = @ \cup {d}]
    /\ Goto(d, "writing")
    /\ UNCHANGED <<dproj, dport, flag, backlog, served, clientVars>>

\* Mutant: the port written is not the one the listener was given.
WriteInfoOfAnyPort(d) ==
    /\ dpc[d] = "writing"
    /\ d \in writers[dproj[d]]
    /\ \E port \in Ports :
          info' = [info EXCEPT ![dproj[d]] = [port |-> port, token |-> d]]
    /\ writers' = [writers EXCEPT ![dproj[d]] = @ \ {d}]
    /\ Goto(d, "loop")
    /\ UNCHANGED <<dproj, dport, flag, backlog, served, clientVars>>

\* Second half: the contents, at offset 0 of the file opened above.  Nobody
\* sees them if that file has been unlinked since, and over another daemon's
\* longer record they leave trailing bytes that do not parse.
WriteInfo(d) ==
    LET p == dproj[d] IN
    /\ dpc[d] = "writing"
    /\ \/ /\ d \in writers[p]
          /\ info' = [info EXCEPT ![p] = [port |-> dport[d], token |-> d]]
       \/ /\ d \in writers[p] /\ info[p] # None
          /\ info' = [info EXCEPT ![p] = None]
       \/ d \notin writers[p] /\ UNCHANGED info
    /\ writers' = [writers EXCEPT ![p] = @ \ {d}]
    /\ Goto(d, "loop")
    /\ UNCHANGED <<dproj, dport, flag, backlog, served, clientVars>>

\* The process is gone, however it ended: the kernel closes its listener and
\* resets the connections it had queued or was serving.
Gone(d, how) ==
    /\ Goto(d, how)
    /\ dport'   = [dport EXCEPT ![d] = None]
    /\ flag'    = [flag EXCEPT ![d] = FALSE]
    /\ backlog' = [backlog EXCEPT ![d] = <<>>]
    /\ served'  = [served EXCEPT ![d] = NoConn]
    /\ UNCHANGED <<dproj, clientVars>>

\* write_daemon_info returns an error and `run` returns it: no clean-up.
WriteInfoFails(d) ==
    /\ dpc[d] \in {"bound", "writing"}
    /\ writers' = [writers EXCEPT ![dproj[d]] = @ \ {d}]
    /\ Gone(d, "crashed")
    /\ UNCHANGED info

-----------------------------------------------------------------------------
(* Daemon::accept_loop and handle_connection *)

\* Mutant: the shutdown flag is never looked at.
CheckNoFlag(d) ==
    /\ dpc[d] = "loop"
    /\ Goto(d, "accept")
    /\ UNCHANGED <<fileVars, dproj, dport, flag, backlog, served, clientVars>>

\* The top of the loop looks at the flag; what a signal sets later waits for
\* the next turn.  (evict_idle_servers runs here: module ServerPool.)
CheckFlag(d) ==
    /\ dpc[d] = "loop"
    /\ Goto(d, IF flag[d] THEN "draining" ELSE "accept")
    /\ UNCHANGED <<fileVars, dproj, dport, flag, backlog, served, clientVars>>

\* Ok(stream), or WouldBlock and a short sleep.
Accept(d) ==
    /\ dpc[d] = "accept"
    /\ IF backlog[d] = <<>>
         THEN /\ Goto(d, "loop")
              /\ UNCHANGED <<backlog, served>>
         ELSE /\ Goto(d, "auth")
              /\ served'  = [served EXCEPT ![d] = Head(backlog[d])]
              /\ backlog' = [backlog EXCEPT ![d] = Tail(@)]
    /\ UNCHANGED <<fileVars, dproj, dport, flag, clientVars>>

\* The stream is dropped and the loop goes on.
Hangup(d) ==
    /\ served' = [served EXCEPT ![d] = NoConn]
    /\ Goto(d, "loop")

\* Mutant: any token will do.
AuthenticatesAny(d, conn) == TRUE

\* Does the first message authenticate the connection?
Authenticates(d, conn) == conn.auth = d

\* The first message, or the end of a stream that holds none.  The read has
\* no timeout: with a client that neither writes nor closes, d waits here.
ReadAuth(d) ==
    LET conn == served[d] IN
    /\ dpc[d] = "auth"
    /\ \/ /\ conn.auth # None
          /\ Authenticates(d, conn)
          /\ Respond(d, "AuthOk")
          /\ served' = [served EXCEPT ![d].auth = None]
          /\ Goto(d, "request")
       \/ /\ conn.auth # None
          /\ ~ Authenticates(d, conn)
          /\ Respond(d, "Error")
          /\ Hangup(d)
       \/ /\ conn.auth = None
          /\ conn.owner = None
          /\ Hangup(d)
          /\ UNCHANGED inbox
    /\ UNCHANGED <<fileVars, dproj, dport, flag, backlog, cpc, op, proj, cinfo,
                   peer, outcome>>

\* The one request of the connection, or the end of its stream.
ReadRequest(d) ==
    /\ dpc[d] = "request"
    /\ \/ /\ served[d].req # None
          /\ Goto(d, "handling")
          /\ UNCHANGED served
       \/ /\ served[d].req = None
          /\ served[d].owner = None
          /\ Hangup(d)
    /\ UNCHANGED <<fileVars, dproj, dport, flag, backlog, clientVars>>

\* What handle_request may answer; a query may fail in the language server.
Answers(req) == CASE req = "stop"   -> {"Ok"}
                  [] req = "status" -> {"Status"}
                  [] req = "query"  -> {"Locations", "Error"}

\* Mutant: Shutdown is acknowledged and forgotten.
ShouldStopNever(req) == FALSE

\* should_stop: only a Shutdown request ends the loop.
ShouldStop(req) == req = "stop"

\* The rest of handle_connection: answer, drop the stream, say whether to stop.
HandleRequest(d) ==
    LET req == served[d].req IN
    /\ dpc[d] = "handling"
    /\ \E r \in Answers(req) : Respond(d, r)
    /\ served' = [served EXCEPT ![d] = NoConn]
    /\ Goto(d, IF ShouldStop(req) THEN "draining" ELSE "loop")
    /\ UNCHANGED <<fileVars, dproj, dport, flag, backlog, cpc, op, proj, cinfo,
                   peer, outcome>>

\* Mutant: `run` returns without cleaning up.
RemoveNoInfo(d) ==
    /\ dpc[d] = "draining"
    /\ Goto(d, "removed")
    /\ UNCHANGED <<fileVars, dproj, dport, flag, backlog, served, clientVars>>

\* After the loop (shutdown_all_servers: module ServerPool) the info file is
\* removed, whichever daemon's it is by now.
RemoveOwnInfo(d) ==
    /\ dpc[d] = "draining"
    /\ RemoveInfo(dproj[d])
    /\ Goto(d, "removed")
    /\ UNCHANGED <<dproj, dport, flag, backlog, served, clientVars>>

\* `run` returns; the listener, open until now, is dropped.
Exit(d) ==
    /\ dpc[d] = "removed"
    /\ Gone(d, "exited")
    /\ UNCHANGED fileVars

\* SIGINT or SIGTERM: the handler only sets the flag.
Signal(d) ==
    /\ dpc[d] \in Live
    /\ ~ flag[d]
    /\ flag' = [flag EXCEPT ![d] = TRUE]
    /\ UNCHANGED <<fileVars, dpc, dproj, dport, backlog, served, clientVars>>

\* The process dies at any point, leaving the info file as it is.
Crash(d) ==
    /\ dpc[d] \in Live \cup {"boot"}
    /\ writers' = [p \in Projects |-> writers[p] \ {d}]
    /\ Gone(d, "crashed")
    /\ UNCHANGED info

-----------------------------------------------------------------------------
(* Commands: run_start, run_stop, run_status, try_daemon_refs *)

\* The command ends.  Only an answered request is remembered.
Finish(c) ==
    /\ cpc'     = [cpc EXCEPT ![c] = "idle"]
    /\ op'      = [op EXCEPT ![c] = None]
    /\ proj'    = [proj EXCEPT ![c] = None]
    /\ cinfo'   = [cinfo EXCEPT ![c] = None]
    /\ peer'    = [peer EXCEPT ![c] = None]
    /\ inbox'   = [inbox EXCEPT ![c] = None]
    /\ outcome' = [outcome EXCEPT ![c] = "none"]

\* What a command does when it finds no daemon.
NotRunning(c) ==
    IF op[c] = "start"
      THEN /\ cpc'   = [cpc EXCEPT ![c] = "spawn"]
           /\ cinfo' = [cinfo EXCEPT ![c] = None]
           /\ UNCHANGED <<op, proj, peer, inbox, outcome>>
      ELSE Finish(c)

Begin(c) ==
    /\ cpc[c] = "idle"
    /\ \E o \in Commands, p \in Projects :
          /\ op'   = [op EXCEPT ![c] = o]
          /\ proj' = [proj EXCEPT ![c] = p]
    /\ cpc'     = [cpc EXCEPT ![c] = "probe"]
    /\ peer'    = [peer EXCEPT ![c] = None]
    /\ outcome' = [outcome EXCEPT ![c] = "none"]
    /\ UNCHANGED <<fileVars, daemonVars, cinfo, inbox>>

\* is_daemon_running, first half: read_daemon_info.
ProbeRead(c) ==
    /\ cpc[c] = "probe" /\ cinfo[c] = None
    /\ IF info[proj[c]] = None
         THEN NotRunning(c)
         ELSE /\ cinfo' = [cinfo EXCEPT ![c] = info[proj[c]]]
              /\ UNCHANGED <<cpc, op, proj, peer, inbox, outcome>>
    /\ UNCHANGED <<fileVars, daemonVars>>

\* Second half: connect and close.  The daemon will accept the remains.
ProbeConnect(c) ==
    /\ cpc[c] = "probe" /\ cinfo[c] # None
    /\ \/ \E d \in Daemons :
             /\ Reachable(d, cinfo[c].port)
             /\ backlog' = [backlog EXCEPT ![d] = Append(@, ProbeConn(proj[c]))]
             /\ IF op[c] = "start"
                  THEN Finish(c)
                  ELSE /\ cpc'   = [cpc EXCEPT ![c] = "connect"]
                       /\ cinfo' = [cinfo EXCEPT ![c] = None]
                       /\ UNCHANGED <<op, proj, peer, inbox, outcome>>
       \/ /\ ~ \E d \in Daemons : Reachable(d, cinfo[c].port)
          /\ NotRunning(c)
          /\ UNCHANGED backlog
    /\ UNCHANGED <<fileVars, dpc, dproj, dport, flag, served>>

\* run_start: spawn a detached `_daemon-run` and return without waiting.
Spawn(c) ==
    /\ cpc[c] = "spawn"
    /\ \E d \in Daemons :
          /\ dpc[d] = "unborn"
          /\ Goto(d, "boot")
          /\ dproj' = [dproj EXCEPT ![d] = proj[c]]
    /\ Finish(c)
    /\ UNCHANGED <<fileVars, dport, flag, backlog, served>>

SpawnFails(c) ==
    /\ cpc[c] = "spawn"
    /\ Finish(c)
    /\ UNCHANGED <<fileVars, daemonVars>>

\* DaemonClient::connect reads the file again, after the probe.
ReadInfo(c) ==
    /\ cpc[c] = "connect"
    /\ IF info[proj[c]] = None
         THEN Finish(c)
         ELSE /\ cinfo' = [cinfo EXCEPT ![c] = info[proj[c]]]
              /\ cpc'   = [cpc EXCEPT ![c] = "dial"]
              /\ UNCHANGED <<op, proj, peer, inbox, outcome>>
    /\ UNCHANGED <<fileVars, daemonVars>>

\* A connection with the Authenticate message written to it.
DialConn(c) == [owner |-> c, for |-> proj[c], auth |-> cinfo[c].token, req |-> None]

\* Connect and send the token of the file, or remove the file as stale.
Dial(c) ==
    /\ cpc[c] = "dial"
    /\ \/ \E d \in Daemons :
             /\ Reachable(d, cinfo[c].port)
             /\ backlog' = [backlog EXCEPT ![d] = Append(@, DialConn(c))]
             /\ peer'  = [peer EXCEPT ![c] = d]
             /\ cpc'   = [cpc EXCEPT ![c] = "awaitAuth"]
             /\ cinfo' = [cinfo EXCEPT ![c] = None]
             /\ UNCHANGED <<fileVars, op, proj, inbox, outcome>>
       \/ /\ ~ \E d \in Daemons : Reachable(d, cinfo[c].port)
          /\ RemoveInfo(proj[c])
          /\ Finish(c)
          /\ UNCHANGED backlog
    /\ UNCHANGED <<dpc, dproj, dport, flag, served>>

\* Mutant: the client waits for AuthOk and nothing else.
GetAuthOnlyOk(c) ==
    /\ cpc[c] = "awaitAuth"
    /\ inbox[c] = "AuthOk"
    /\ served' = [d \in Daemons |->
                    IF served[d].owner = c
                      THEN [served[d] EXCEPT !.req = op[c]] ELSE served[d]]
    /\ cpc'    = [cpc EXCEPT ![c] = "awaitReply"]
    /\ inbox'  = [inbox EXCEPT ![c] = None]
    /\ UNCHANGED <<fileVars, dpc, dproj, dport, flag, backlog, op, proj, cinfo,
                   peer, outcome>>

\* AuthOk: send the request.  Anything else, or end of file, is an error, and
\* the stream is dropped.
GetAuth(c) ==
    /\ cpc[c] = "awaitAuth"
    /\ \/ /\ inbox[c] = "AuthOk"
          /\ served' = [d \in Daemons |->
                          IF served[d].owner = c
                            THEN [served[d] EXCEPT !.req = op[c]] ELSE served[d]]
          /\ cpc'    = [cpc EXCEPT ![c] = "awaitReply"]
          /\ inbox'  = [inbox EXCEPT ![c] = None]
          /\ UNCHANGED <<backlog, op, proj, cinfo, peer, outcome>>
       \/ /\ inbox[c] \notin {"AuthOk", None} \/ (inbox[c] = None /\ Closed(c))
          /\ CloseClientEnd(c)
          /\ Finish(c)
    /\ UNCHANGED <<fileVars, dpc, dproj, dport, flag>>

\* The answer, or the error of a daemon that is gone; the client is dropped.
GetReply(c) ==
    /\ cpc[c] = "awaitReply"
    /\ CloseClientEnd(c)
    /\ \/ /\ inbox[c] \notin {"Error", None}
          /\ cpc'     = [cpc EXCEPT ![c] = "idle"]
          /\ inbox'   = [inbox EXCEPT ![c] = None]
          /\ outcome' = [outcome EXCEPT ![c] = "answered"]
          /\ UNCHANGED <<op, proj, cinfo, peer>>
       \/ /\ inbox[c] = "Error" \/ (inbox[c] = None /\ Closed(c))
          /\ Finish(c)
    /\ UNCHANGED <<fileVars, dpc, dproj, dport, flag>>

\* The command is interrupted; what it has sent stays in its connection.
Kill(c) ==
    /\ cpc[c] # "idle"
    /\ CloseClientEnd(c)
    /\ Finish(c)
    /\ UNCHANGED <<fileVars, dpc, dproj, dport, flag>>

-----------------------------------------------------------------------------
DaemonStep(d) ==
    \/ Bind(d) \/ TruncateInfo(d) \/ WriteInfo(d) \/ CheckFlag(d) \/ Accept(d)
    \/ ReadAuth(d) \/ ReadRequest(d) \/ HandleRequest(d)
    \/ RemoveOwnInfo(d) \/ Exit(d)

ClientStep(c) ==
    \/ ProbeRead(c) \/ ProbeConnect(c) \/ Spawn(c) \/ SpawnFails(c)
    \/ ReadInfo(c) \/ Dial(c) \/ GetAuth(c) \/ GetReply(c)

Environment ==
    \/ \E d \in Daemons : WriteInfoFails(d) \/ Signal(d) \/ Crash(d)
    \/ \E c \in Clients : Begin(c) \/ Kill(c)
    \/ ClearAllCaches

Next ==
    \/ \E d \in Daemons : DaemonStep(d)
    \/ \E c \in Clients : ClientStep(c)
    \/ Environment

Spec == Init /\ [][Next]_vars

\* A daemon's thread and a command's thread run whenever they can.
FairSpec ==
    /\ Spec
    /\ \A d \in Daemons : WF_vars(DaemonStep(d))
    /\ \A c \in Clients : WF_vars(ClientStep(c))

-----------------------------------------------------------------------------
(* Safety *)

Stopping == {"draining", "removed", "exited", "crashed"}

\* A daemon that takes up a request serves the project the sender connected
\* for, even if the sender has gone: the token check of handle_connection is
\* all that stands between a client with a stale port and the daemon of
\* another project that has been given that port since.
RequestsAreForOwnProject ==
    \A d \in Daemons :
        dpc[d] \in {"request", "handling"} => served[d].for = dproj[d]

\* A client that has got past authentication, or been answered, talks to a
\* daemon of the project it named (DaemonClient::connect and its callers).
AnswersFromOwnProject ==
    \A c \in Clients :
        cpc[c] = "awaitReply" \/ outcome[c] = "answered"
            => peer[c] # None /\ dproj[peer[c]] = proj[c]

\* When `cq daemon stop` prints "daemon stopped", the daemon that answered has
\* left its accept loop for good (DaemonClient::shutdown, should_stop).
StopIsAcknowledgedTruly ==
    \A c \in Clients :
        outcome[c] = "answered" /\ op[c] = "stop" => dpc[peer[c]] \in Stopping

\* A daemon that left its loop and removed the info file is never named by an
\* info file again, whatever it or others wrote and removed meanwhile (run).
CleanExitLeavesNoInfo ==
    \A d \in Daemons, p \in Projects :
        dpc[d] \in {"removed", "exited"} /\ info[p] # None => info[p].token # d

\* What an info file says was true of the process it names: its project, and
\* the port it listens on for as long as it lives (write_daemon_info).
InfoDescribesItsDaemon ==
    \A p \in Projects :
        info[p] # None =>
            LET d == info[p].token IN
            /\ dproj[d] = p
            /\ dpc[d] \in Live => dport[d] = info[p].port

-----------------------------------------------------------------------------
(* What documents and comments say *)

\* client.rs:47, where connect gives up on a port: "Connection failed - remove
\* stale daemon file".  So the file removed names no daemon one could reach.
OnlyStaleInfoRemoved ==
    [][\A c \in Clients :
          Dial(c) /\ info[proj[c]] # None /\ info'[proj[c]] = None
              => ~ IsDaemonRunning(proj[c])]_vars

-----------------------------------------------------------------------------
(* Liveness *)

\* Every command returns: no wait for a daemon that is busy, is shutting down
\* with connections still queued, has rejected the client, or has died.
CommandsReturn == \A c \in Clients : (cpc[c] # "idle") ~> (cpc[c] = "idle")

\* A daemon that got a signal ends, whatever it was doing (accept_loop).
SignalledDaemonsEnd ==
    \A d \in Daemons : flag[d] ~> (dpc[d] \in {"exited", "crashed"})
=============================================================================
