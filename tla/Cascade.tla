------------------------------- MODULE Cascade -------------------------------
(***************************************************************************)
(* resolve_with_cascade and try_auto_start_daemon: commands that look for   *)
(* references of one symbol of one project, each by the best tier it can    *)
(* get, and the daemons they start on the way.                              *)
(*                                                                          *)
(* The daemon's files, connections and tokens are module DaemonService, a   *)
(* one-shot session is module OneShot; here each is what it looks like from *)
(* the cascade.  A language server may find nothing: it has not indexed the *)
(* project yet, or knows nothing at the position it is asked about.         *)
(***************************************************************************)
EXTENDS Naturals, FiniteSets

CONSTANTS Commands,  \* invocations of `cq refs` or `cq callers`
          Starters,  \* invocations of `cq daemon start`, and their daemons
          MaxPolls,  \* is_daemon_running is asked this often: 30 in the code
          None       \* no value

Modes   == {"off", "oneshot", "daemon"}
Answers == [tier : {"daemon", "oneshot", "graph"}, found : BOOLEAN]

ASSUME CascadeAssumption ==
    /\ MaxPolls \in Nat
    /\ None \notin Starters \cup Answers

VARIABLES
    info,    \* the daemon the project's info file names, or None
    life,    \* life[d]: `cq daemon start` probes, the daemon boots, is up, is gone
    mentioned,  \* the scan of the project has found uses of the symbol's name
    calm,    \* commands run one after the other, daemons start while polled for
    pc, mode, polls,
    peer,    \* peer[c]: the daemon c is connected to
    answer   \* answer[c]: the result, once c is done

daemonVars  == <<info, life>>
commandVars == <<mentioned, calm, pc, mode, polls, peer, answer>>
vars        == <<daemonVars, commandVars>>

PCs == {"new", "probe", "spawn", "poll", "connect", "ask", "oneshot", "graph", "done"}

\* The values the control flow lets each variable hold.
CascadeTypeOK ==
    /\ info   \in Starters \cup {None}
    /\ life   \in [Starters -> {"unused", "probing", "booting", "up", "gone"}]
    /\ mentioned \in BOOLEAN /\ calm \in BOOLEAN
    /\ pc     \in [Commands -> PCs]
    /\ mode   \in [Commands -> Modes]
    /\ polls  \in [Commands -> 0..MaxPolls]
    /\ peer   \in [Commands -> Starters \cup {None}]
    /\ answer \in [Commands -> Answers \cup {None}]

Init ==
    /\ info   = None
    /\ life   = [d \in Starters |-> "unused"]
    /\ mentioned \in BOOLEAN /\ calm \in BOOLEAN
    /\ pc     = [c \in Commands |-> "new"]
    /\ mode   \in [Commands -> Modes]
    /\ polls  = [c \in Commands |-> 0]
    /\ peer   = [c \in Commands |-> None]
    /\ answer = [c \in Commands |-> None]

Active      == {c \in Commands : pc[c] \notin {"new", "done"}}
Starting(d) == life[d] \in {"probing", "booting"}
Idle        == Active = {} /\ ~ \E d \in Starters : Starting(d)
Running     == {d \in Starters : life[d] = "up"}

\* daemon_file::is_daemon_running: the file names a daemon that is listening.
IsDaemonRunning == info \in Running

-----------------------------------------------------------------------------
(* `cq daemon start` and the daemon's life *)

\* run_start: nothing to do when one is running, or else spawn _daemon-run.
StarterProbes(d) ==
    /\ life[d] = "probing"
    /\ life' = [life EXCEPT ![d] = IF IsDaemonRunning THEN "gone" ELSE "booting"]
    /\ UNCHANGED <<info, commandVars>>

\* Mutant: the daemon serves before anybody can find it.
BootUnannounced(d) ==
    /\ life[d] = "booting"
    /\ life' = [life EXCEPT ![d] = "up"]
    /\ UNCHANGED <<info, commandVars>>

\* Daemon::run up to its loop, or a failure on the way.
Boot(d) ==
    /\ life[d] = "booting"
    /\ \/ /\ life' = [life EXCEPT ![d] = "up"]
          /\ info' = d
       \/ /\ life' = [life EXCEPT ![d] = "gone"]
          /\ UNCHANGED info
    /\ UNCHANGED commandVars

\* The daemon dies where it stands and leaves its file.
Die(d) ==
    /\ life[d] = "up"
    /\ life' = [life EXCEPT ![d] = "gone"]
    /\ UNCHANGED <<info, commandVars>>

\* `cq daemon stop`: the daemon that is found shuts down and removes the file.
StopDaemon ==
    IF IsDaemonRunning
      THEN /\ life' = [life EXCEPT ![info] = "gone"]
           /\ info' = None
      ELSE UNCHANGED daemonVars

UserStops == IsDaemonRunning /\ StopDaemon /\ UNCHANGED commandVars

DaemonNext ==
    \/ UserStops
    \/ \E d \in Starters :
          StarterProbes(d) \/ Boot(d) \/ Die(d)

-----------------------------------------------------------------------------
(* resolve_with_cascade *)

Goto(c, to) == pc' = [pc EXCEPT ![c] = to]

\* Nothing found at this tier: both semantic modes go on with a one-shot server.
FallThrough(c) == Goto(c, "oneshot")

\* The cascade returns.
Return(c, tier, found) ==
    /\ Goto(c, "done")
    /\ answer' = [answer EXCEPT ![c] = [tier |-> tier, found |-> found]]

\* Mode off skips what asks language servers.
Begin(c) ==
    /\ pc[c] = "new"
    /\ calm => Idle
    /\ Goto(c, IF mode[c] = "off" THEN "graph" ELSE "probe")
    /\ UNCHANGED <<daemonVars, mentioned, calm, mode, polls, peer, answer>>

\* Step 1: is a daemon running?  Only the daemon mode starts one.
Probe(c) ==
    /\ pc[c] = "probe"
    /\ \/ IsDaemonRunning /\ Goto(c, "connect")
       \/ ~ IsDaemonRunning /\ mode[c] = "daemon" /\ Goto(c, "spawn")
       \/ ~ IsDaemonRunning /\ mode[c] # "daemon" /\ FallThrough(c)
    /\ UNCHANGED <<daemonVars, mentioned, calm, mode, polls, peer, answer>>

\* Mutant: one poll too many.
SpawnPollsMore(c) ==
    /\ pc[c] = "spawn"
    /\ \/ \E d \in Starters :
             /\ life[d] = "unused"
             /\ life'  = [life EXCEPT ![d] = "probing"]
             /\ polls' = [polls EXCEPT ![c] = MaxPolls + 1]
             /\ Goto(c, "poll")
       \/ FallThrough(c) /\ UNCHANGED <<life, polls>>
    /\ UNCHANGED <<info, mentioned, calm, mode, peer, answer>>

\* try_auto_start_daemon: spawn `cq daemon start`, or fail to.
Spawn(c) ==
    /\ pc[c] = "spawn"
    /\ \/ \E d \in Starters :
             /\ life[d] = "unused"
             /\ life'  = [life EXCEPT ![d] = "probing"]
             /\ polls' = [polls EXCEPT ![c] = MaxPolls]
             /\ Goto(c, "poll")
       \/ FallThrough(c) /\ UNCHANGED <<life, polls>>
    /\ UNCHANGED <<info, mentioned, calm, mode, peer, answer>>

\* Mutant: the polls are not counted.
PollForever(c) ==
    /\ pc[c] = "poll"
    /\ IF IsDaemonRunning THEN Goto(c, "connect") ELSE UNCHANGED pc
    /\ UNCHANGED <<daemonVars, mentioned, calm, polls, mode, peer, answer>>

\* One turn of its loop, or the end of the loop without a daemon.
Poll(c) ==
    /\ pc[c] = "poll"
    /\ \/ /\ polls[c] > 0
          /\ \/ /\ IsDaemonRunning
                /\ Goto(c, "connect")
                /\ polls' = [polls EXCEPT ![c] = 0]
             \/ /\ ~ IsDaemonRunning
                /\ polls' = [polls EXCEPT ![c] = @ - 1]
                /\ UNCHANGED pc
       \/ /\ polls[c] = 0
          /\ calm => ~ \E d \in Starters : Starting(d)
          /\ FallThrough(c)
          /\ UNCHANGED polls
    /\ UNCHANGED <<daemonVars, mentioned, calm, mode, peer, answer>>

\* DaemonClient::connect.  A file that leads nowhere is removed.
Connect(c) ==
    /\ pc[c] = "connect"
    /\ IF IsDaemonRunning
         THEN /\ Goto(c, "ask")
              /\ peer' = [peer EXCEPT ![c] = info]
              /\ UNCHANGED info
         ELSE /\ FallThrough(c)
              /\ info' = None
              /\ UNCHANGED peer
    /\ UNCHANGED <<life, mentioned, calm, mode, polls, answer>>

\* query_refs.  The daemon does not wait until its language server has indexed
\* the project, and asks at the start of the declaration, not of the name.
\* Whatever list comes back, an empty one too, is the result.
Ask(c) ==
    /\ pc[c] = "ask" /\ life[peer[c]] = "up"
    /\ \E found \in BOOLEAN : Return(c, "daemon", found)
    /\ peer' = [peer EXCEPT ![c] = None]
    /\ UNCHANGED <<daemonVars, mentioned, calm, mode, polls>>

\* The daemon has no server for the language, its server fails, or it is gone.
AskFails(c) ==
    /\ pc[c] = "ask"
    /\ FallThrough(c)
    /\ peer' = [peer EXCEPT ![c] = None]
    /\ UNCHANGED <<daemonVars, mentioned, calm, mode, polls, answer>>

\* Mutant: an empty list of the one-shot server ends the cascade.
OneshotTakesAll(c) ==
    /\ pc[c] = "oneshot"
    /\ \/ \E found \in BOOLEAN : Return(c, "oneshot", found)
       \/ Goto(c, "graph") /\ UNCHANGED answer
    /\ UNCHANGED <<daemonVars, mentioned, calm, mode, polls, peer>>

\* Steps 2 and 2b, try_oneshot_refs: an error and an empty list fall through.
Oneshot(c) ==
    /\ pc[c] = "oneshot"
    /\ \/ Return(c, "oneshot", TRUE)
       \/ Goto(c, "graph") /\ UNCHANGED answer
    /\ UNCHANGED <<daemonVars, mentioned, calm, mode, polls, peer>>

\* Step 3, always available.  Where the stack graph yields nothing, the uses
\* that the scan found are the result; without any it may be empty.
Graph(c) ==
    /\ pc[c] = "graph"
    /\ \E found \in IF mentioned THEN {TRUE} ELSE BOOLEAN : Return(c, "graph", found)
    /\ UNCHANGED <<daemonVars, mentioned, calm, mode, polls, peer>>

CommandStep(c) ==
    \/ Probe(c) \/ Spawn(c) \/ Poll(c) \/ Connect(c)
    \/ Ask(c) \/ AskFails(c) \/ Oneshot(c) \/ Graph(c)

Next == DaemonNext \/ \E c \in Commands : Begin(c) \/ CommandStep(c)

Fairness ==
    /\ \A c \in Commands : WF_vars(CommandStep(c))
    /\ \A d \in Starters : WF_vars(StarterProbes(d) \/ Boot(d))

Spec == Init /\ [][Next]_vars /\ Fairness

-----------------------------------------------------------------------------
(* Properties *)

\* The tiers that have given c nothing.
At(c, tier) == pc[c] = tier \/ (pc[c] = "done" /\ answer[c].tier = tier)
Failed(c) ==
    IF mode[c] = "off" THEN {}
    ELSE {t \in {"daemon", "oneshot"} : At(c, "graph") \/ (t = "daemon" /\ At(c, "oneshot"))}

\* Every command's answer is the best available tier's (the doc comment of
\* resolve_with_cascade), no tier is tried twice or after a worse one, and a
\* symbol that the scan has found uses of gets an answer without references
\* from a daemon only (cascade.rs:77), whichever daemons start, die or are
\* stopped meanwhile.
Tiered == INSTANCE TieredAnswer WITH failed <- [c \in Commands |-> Failed(c)]
BestTierAnswers == Tiered!TierSpec

\* try_auto_start_daemon and `cq daemon start` check and then act.  Commands
\* that run one after the other and daemons that start while they are polled
\* for never make it two daemons of the project.
OneDaemonInTurn == calm => Cardinality(Running) <= 1
=============================================================================
