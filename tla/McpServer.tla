------------------------------ MODULE McpServer ------------------------------
(***************************************************************************)
(* cq-mcp: a session that starts a daemon for the project, answers JSON-RPC *)
(* messages one line at a time, most of them by running `cq`, and stops the *)
(* daemon at the end.  Composed with Cascade, whose commands are the `cq`   *)
(* processes and whose daemons are the ones the session means; other        *)
(* commands of the project run beside it.                                   *)
(***************************************************************************)
EXTENDS Cascade, Sequences

CONSTANTS Sessions,  \* cq-mcp processes
          Inputs     \* what may come in on standard input: sequences of kinds

(***************************************************************************)
(* The kinds of lines: an empty one; one that is no JSON-RPC request; a     *)
(* request without an id; one that is answered by the process itself        *)
(* (initialize, tools/list, ping, cq_edit, and every error); a tools/call   *)
(* for which `cq` runs.                                                     *)
(***************************************************************************)
Kinds == {"blank", "garbage", "notification", "local", "call"}

ASSUME InputAssumption == Inputs \subseteq Seq(Kinds)

VARIABLES
    spc,      \* spc[s]: where the session is
    lines,    \* lines[s]: its standard input
    at,       \* at[s]: lines it has taken
    child,    \* child[s]: the process it waits for, a starter or a command
    replies   \* replies[s]: what it wrote: the line answered, 0 for no id

sessionVars == <<spc, lines, at, child, replies>>
mcpVars     == <<vars, sessionVars>>

\* The values the control flow lets each variable hold.
McpTypeOK ==
    /\ CascadeTypeOK
    /\ spc     \in [Sessions -> {"new", "starting", "read", "calling", "stop", "ended", "killed"}]
    /\ lines   \in [Sessions -> Inputs]
    /\ child   \in [Sessions -> Starters \cup Commands \cup {None}]
    /\ \A s \in Sessions : /\ at[s] \in 0..Len(lines[s])
                           /\ replies[s] \in Seq(0..Len(lines[s]))

McpInit ==
    /\ Init
    /\ spc     = [s \in Sessions |-> "new"]
    /\ lines   \in [Sessions -> Inputs]
    /\ at      = [s \in Sessions |-> 0]
    /\ child   = [s \in Sessions |-> None]
    /\ replies = [s \in Sessions |-> <<>>]

SGoto(s, to) == spc' = [spc EXCEPT ![s] = to]

\* start_daemon: run `cq daemon start`; that it cannot be run is ignored.
StartSession(s) ==
    /\ spc[s] = "new"
    /\ calm => Idle
    /\ \/ \E d \in Starters :
             /\ life[d] = "unused"
             /\ life'  = [life EXCEPT ![d] = "probing"]
             /\ child' = [child EXCEPT ![s] = d]
             /\ SGoto(s, "starting")
       \/ SGoto(s, "read") /\ UNCHANGED <<life, child>>
    /\ UNCHANGED <<info, commandVars, lines, at, replies>>

\* The command it waits for ends before the daemon it has spawned is up.
SessionStarted(s) ==
    /\ spc[s] = "starting"
    /\ life[child[s]] # "probing"
    /\ child' = [child EXCEPT ![s] = None]
    /\ SGoto(s, "read")
    /\ UNCHANGED <<vars, lines, at, replies>>

\* Mutant: whatever is not a call is answered, notifications too.
AnswersAll(kind) == kind \in {"garbage", "notification", "local"}

\* handle_message, where no process is run: is there a response?
AnswersAtOnce(kind) == kind \in {"garbage", "local"}

\* What is answered for line n; a line that is no request has no id.
ReplyTo(kind, n) == IF kind = "garbage" THEN 0 ELSE n

\* One turn of main's loop for a line that needs no process.
TakeLine(s) ==
    LET n == at[s] + 1
        kind == lines[s][n] IN
    /\ spc[s] = "read" /\ n <= Len(lines[s]) /\ kind # "call"
    /\ at' = [at EXCEPT ![s] = n]
    /\ replies' = [replies EXCEPT ![s] =
                      IF AnswersAtOnce(kind) THEN Append(@, ReplyTo(kind, n)) ELSE @]
    /\ UNCHANGED <<vars, spc, lines, child>>

\* call_cq: a `cq` process, whose end is waited for; or it cannot be run.
TakeCall(s) ==
    LET n == at[s] + 1 IN
    /\ spc[s] = "read" /\ n <= Len(lines[s]) /\ lines[s][n] = "call"
    /\ at' = [at EXCEPT ![s] = n]
    /\ \/ \E c \in Commands :
             /\ Begin(c)
             /\ child' = [child EXCEPT ![s] = c]
             /\ SGoto(s, "calling")
             /\ UNCHANGED replies
       \/ /\ replies' = [replies EXCEPT ![s] = Append(@, n)]
          /\ UNCHANGED <<vars, spc, child>>
    /\ UNCHANGED lines

\* Its output, or what went wrong, is the response.
Reply(s) ==
    /\ spc[s] = "calling"
    /\ pc[child[s]] = "done"
    /\ replies' = [replies EXCEPT ![s] = Append(@, at[s])]
    /\ child'   = [child EXCEPT ![s] = None]
    /\ SGoto(s, "read")
    /\ UNCHANGED <<vars, lines, at>>

\* End of input, or an error reading it.
InputEnds(s) ==
    /\ spc[s] = "read"
    /\ SGoto(s, "stop")
    /\ UNCHANGED <<vars, lines, at, child, replies>>

\* Mutant: the session ends without a word to the daemon.
EndQuietly(s) ==
    /\ spc[s] = "stop"
    /\ SGoto(s, "ended")
    /\ UNCHANGED <<vars, lines, at, child, replies>>

\* stop_daemon: `cq daemon stop`, for whichever daemon is found.
EndSession(s) ==
    /\ spc[s] = "stop"
    /\ calm => Idle
    /\ StopDaemon
    /\ SGoto(s, "ended")
    /\ UNCHANGED <<commandVars, lines, at, child, replies>>

\* The process is killed: its daemon stays, and a child goes on unattended.
Killed(s) ==
    /\ spc[s] \in {"starting", "read", "calling"}
    /\ child' = [child EXCEPT ![s] = None]
    /\ SGoto(s, "killed")
    /\ UNCHANGED <<vars, lines, at, replies>>

SessionStep(s) ==
    \/ SessionStarted(s) \/ TakeLine(s) \/ TakeCall(s) \/ Reply(s) \/ EndSession(s)

McpNext ==
    \/ \E s \in Sessions : StartSession(s) \/ SessionStep(s) \/ InputEnds(s) \/ Killed(s)
    \/ /\ DaemonNext \/ \E c \in Commands : Begin(c) \/ CommandStep(c)
       /\ UNCHANGED sessionVars

\* Processes that run are scheduled; nobody has to send anything.
McpFairness ==
    /\ \A c \in Commands : WF_mcpVars(CommandStep(c) /\ UNCHANGED sessionVars)
    /\ \A d \in Starters :
          WF_mcpVars((StarterProbes(d) \/ Boot(d)) /\ UNCHANGED sessionVars)
    /\ \A s \in Sessions : WF_mcpVars(SessionStep(s))

McpSpec == McpInit /\ [][McpNext]_mcpVars /\ McpFairness

-----------------------------------------------------------------------------
(* Properties *)

\* Lines answered among the first n.
AnsweredLines(s, n) == {i \in 1..n : lines[s][i] \in {"garbage", "local", "call"}}

\* main and handle_message: requests are answered once each, in the order they
\* came, and notifications never, however long a command takes.
RepliesInOrder ==
    \A s \in Sessions :
        LET due == AnsweredLines(s, IF spc[s] = "calling" THEN at[s] - 1 ELSE at[s])
        IN  spc[s] # "killed" =>
              /\ Len(replies[s]) = Cardinality(due)
              /\ \A i \in due : replies[s][Cardinality(AnsweredLines(s, i))]
                                 = ReplyTo(lines[s][i], i)

\* stop_daemon: where nothing overlaps, a session that ends leaves no daemon
\* of the project behind, its own or one a command started.
SessionsLeaveNoDaemon ==
    [][\A s \in Sessions :
          calm /\ spc[s] # "ended" /\ spc'[s] = "ended" => Running' = {}]_mcpVars

\* A request that has come in is answered while the session goes on.
CallsAreAnswered ==
    \A s \in Sessions : (spc[s] = "calling") ~> (spc[s] \in {"read", "killed"})
=============================================================================
