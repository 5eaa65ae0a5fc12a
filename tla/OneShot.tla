------------------------------- MODULE OneShot -------------------------------
(***************************************************************************)
(* A one-shot semantic query (oneshot.rs): start a language server, open    *)
(* one document, wait until the server has indexed the project              *)
(* (LspServer::wait_for_ready), ask, shut down.                             *)
(*                                                                          *)
(* The handshake, ids and pipes of a session are module LspSession; here is *)
(* what the session does with time.  A tick stands for the 200 ms of one    *)
(* poll.  The server is external: it announces the phases of its work with  *)
(* $/progress, for each of which it may ask for a token first and then does  *)
(* nothing until that is answered.  Messages come whole.                    *)
(***************************************************************************)
EXTENDS Naturals, Sequences

CONSTANTS Tokens,     \* progress tokens
          IndexWait,  \* the caller's timeout: 30 s in the code
          Grace,      \* how long a server may be silent at first: 2 s
          Drain,      \* how long between two phases: 500 ms
          MaxSays,    \* bound: messages the server sends
          PipeLimit   \* bound: messages not yet read

ASSUME OneShotAssumption ==
    /\ IndexWait \in Nat /\ Grace \in Nat /\ Drain \in Nat \ {0}
    /\ MaxSays \in Nat /\ PipeLimit \in Nat

VARIABLES
    pc,
    now,       \* ticks since wait_for_ready was called
    pollEnd, drainEnd,    \* when the current poll, and the drain, give up
    seen,      \* seen_progress
    active,    \* progress_active
    new,       \* new_progress
    late,      \* the wait was ended by its timeout
    expired,   \* the deadline of the request under way has passed
    result,    \* what the query returned
    met,       \* start_with_capabilities has succeeded
    alive,     \* the server's process runs
    stdout,    \* messages of the server not yet read
    says,      \* messages it has sent
    work,      \* the phases it is in
    owed,      \* it waits for the answer to workDoneProgress/create
    indexed,   \* it knows the project
    ready,     \* it did when it was asked
    quiet,     \* ticks since it announced something, up to Drain
    honest     \* it announces all its work, in time

clockVars  == <<now, pollEnd, drainEnd>>
clientVars == <<pc, seen, active, new, late, expired, result, met, ready>>
serverVars == <<alive, says, work, owed, indexed, quiet, honest>>
vars       == <<clockVars, clientVars, serverVars, stdout>>

Message == [kind : {"create", "begin", "end", "report", "note"}, token : Tokens]
Msg(kind, t) == [kind |-> kind, token |-> t]

\* Each variable holds what the control flow lets it hold.
OneShotTypeOK ==
    /\ pc \in {"start", "open", "wait", "drain", "query", "reply", "shutdown", "exit",
              "over"}
    /\ now \in 0..IndexWait
    /\ pollEnd \in 0..(IndexWait + 1) /\ drainEnd \in 0..(IndexWait + Drain)
    /\ seen \in BOOLEAN /\ new \in BOOLEAN /\ late \in BOOLEAN
    /\ expired \in BOOLEAN
    /\ active \subseteq Tokens /\ work \subseteq Tokens
    /\ result \in {"none", "complete", "partial", "error"}
    /\ result = "none" <=> pc \notin {"shutdown", "exit", "over"}
    /\ met \in BOOLEAN /\ alive \in BOOLEAN /\ owed \in BOOLEAN
    /\ indexed \in BOOLEAN /\ ready \in BOOLEAN /\ honest \in BOOLEAN
    /\ stdout \in Seq(Message) /\ says \in 0..MaxSays
    /\ quiet \in 0..Drain

Init ==
    /\ pc = "start"
    /\ now = 0 /\ pollEnd = 0 /\ drainEnd = 0
    /\ seen = FALSE /\ active = {} /\ new = FALSE /\ late = FALSE
    /\ expired = FALSE /\ result = "none" /\ met = FALSE /\ ready = FALSE
    /\ alive = FALSE /\ stdout = <<>> /\ says = 0
    /\ work = {} /\ owed = FALSE /\ indexed = FALSE /\ quiet = 0
    /\ honest \in BOOLEAN

-----------------------------------------------------------------------------
(* semantic_refs_with_wait, semantic_definition_with_wait: before the wait *)

Over(r) == pc' = "over" /\ result' = r

\* No configuration or binary; a handshake that fails, which drops the
\* process handle and leaves the process; or a session.
Start ==
    /\ pc = "start"
    /\ \/ Over("error") /\ UNCHANGED <<met, alive>>
       \/ Over("error") /\ alive' = TRUE /\ UNCHANGED met
       \/ pc' = "open" /\ met' = TRUE /\ alive' = TRUE /\ UNCHANGED result
    /\ UNCHANGED <<clockVars, seen, active, new, late, expired, ready, says, work, owed,
                   indexed, quiet, honest, stdout>>

\* Mutant: a file that cannot be read leaves the server running.
OpenDocumentForgets ==
    /\ pc = "open"
    /\ \/ pc' = "wait" /\ pollEnd' = now + 1 /\ UNCHANGED <<result, alive>>
       \/ Over("error") /\ UNCHANGED <<pollEnd, alive>>
    /\ UNCHANGED <<now, drainEnd, seen, active, new, late, expired, met, ready, says, work,
                   owed, indexed, quiet, honest, stdout>>

\* read_file_source and open_document: an error returns at once, and dropping
\* the LspServer kills the process.
OpenDocument ==
    /\ pc = "open"
    /\ \/ pc' = "wait" /\ pollEnd' = now + 1 /\ UNCHANGED <<result, alive>>
       \/ Over("error") /\ alive' = FALSE /\ UNCHANGED pollEnd
    /\ UNCHANGED <<now, drainEnd, seen, active, new, late, expired, met, ready, says, work,
                   owed, indexed, quiet, honest, stdout>>

-----------------------------------------------------------------------------
(* wait_for_ready *)

InTime == now < IndexWait

\* The loop ends, its local variables go, and the query is asked whatever
\* ended the loop.
Proceed ==
    /\ pc' = "query" /\ late' = ~ InTime
    /\ seen' = FALSE /\ active' = {} /\ new' = FALSE
    /\ pollEnd' = 0 /\ drainEnd' = 0

\* A $/progress notification or a request for a token.
Track(m) ==
    active' = CASE m.kind = "begin" -> active \cup {m.token}
                [] m.kind = "end"   -> active \ {m.token}
                [] OTHER            -> active

\* Mutant: the server's request is read and not answered.
IgnoreCreate(m) == UNCHANGED owed

\* The answer to a request for a token, which lets the server go on.
AnswerCreate(m) == owed' = (owed /\ m.kind # "create")

\* A message, in the main loop.
WaitMessage ==
    LET m == Head(stdout) IN
    /\ pc = "wait" /\ InTime /\ stdout # <<>>
    /\ stdout' = Tail(stdout)
    /\ seen' = (seen \/ m.kind # "note")
    /\ Track(m)
    /\ AnswerCreate(m)
    /\ pollEnd' = now + 1
    /\ UNCHANGED <<now, drainEnd, pc, new, late, expired, result, met, ready, alive,
                   says, work, indexed, quiet, honest>>

\* Nothing for the length of a poll.  A server that has never announced
\* anything is taken to be ready after the grace period; one whose phases
\* are all over is drained.
WaitQuiet ==
    /\ pc = "wait" /\ InTime /\ stdout = <<>> /\ alive /\ now >= pollEnd
    /\ \/ /\ ~ seen /\ now >= Grace
          /\ Proceed
       \/ /\ seen /\ active = {}
          /\ pc' = "drain" /\ new' = FALSE
          /\ drainEnd' = now + Drain
          /\ UNCHANGED <<late, pollEnd, seen, active>>
       \/ /\ IF seen THEN active # {} ELSE now < Grace
          /\ pollEnd' = now + 1
          /\ UNCHANGED <<pc, late, new, drainEnd, seen, active>>
    /\ UNCHANGED <<now, expired, result, met, ready, serverVars, stdout>>

\* The overall timeout, or an error reading (end of file).
WaitOver ==
    /\ pc = "wait"
    /\ ~ InTime \/ (stdout = <<>> /\ ~ alive)
    /\ Proceed
    /\ UNCHANGED <<now, expired, result, met, ready, serverVars, stdout>>

\* A message, in the drain: the next phase begins, or is about to.
DrainMessage ==
    LET m == Head(stdout) IN
    /\ pc = "drain" /\ InTime /\ now < drainEnd /\ stdout # <<>>
    /\ stdout' = Tail(stdout)
    /\ AnswerCreate(m)
    /\ new' = (new \/ m.kind \in {"begin", "create"})
    /\ IF m.kind = "begin"
         THEN /\ pc' = "wait" /\ active' = active \cup {m.token}
              /\ pollEnd' = now + 1 /\ drainEnd' = 0
         ELSE UNCHANGED <<pc, active, pollEnd, drainEnd>>
    /\ UNCHANGED <<now, seen, late, expired, result, met, ready, alive, says,
                   work, indexed, quiet, honest>>

\* Mutant: a token that was asked for meanwhile does not prolong the wait.
DrainOverAtOnce ==
    /\ pc = "drain"
    /\ now >= drainEnd \/ ~ InTime \/ (stdout = <<>> /\ ~ alive)
    /\ Proceed
    /\ UNCHANGED <<now, expired, result, met, ready, serverVars, stdout>>

\* The drain has lasted its time, or reading failed.
DrainOver ==
    /\ pc = "drain"
    /\ now >= drainEnd \/ ~ InTime \/ (stdout = <<>> /\ ~ alive)
    /\ \/ /\ new
          /\ pc' = "wait" /\ pollEnd' = now + 1
          /\ new' = FALSE /\ drainEnd' = 0
          /\ UNCHANGED <<late, seen, active>>
       \/ ~ new /\ Proceed
    /\ UNCHANGED <<now, expired, result, met, ready, serverVars, stdout>>

-----------------------------------------------------------------------------
(* The query and the end *)

\* find_references or goto_definition writes its request.
Query ==
    /\ pc = "query"
    /\ pc' = "reply" /\ ready' = indexed
    /\ UNCHANGED <<clockVars, seen, active, new, late, expired, result, met, serverVars,
                   stdout>>

\* A request is under way: the query, or shutdown.
Requesting == pc \in {"reply", "shutdown"}

\* Mutant: an error of the query is dropped.
ReturnNothing(r) ==
    /\ IF pc = "reply" THEN pc' = "shutdown" ELSE pc' = "exit"
    /\ expired' = FALSE
    /\ UNCHANGED <<clockVars, seen, active, new, late, result, met, ready, serverVars>>

\* send_request returns: the query with r, after which the server is shut down
\* whatever r is; the shutdown request with nothing anybody looks at.
Return(r) ==
    /\ IF pc = "reply" THEN pc' = "shutdown" /\ result' = r
                       ELSE pc' = "exit" /\ UNCHANGED result
    /\ expired' = FALSE
    /\ UNCHANGED <<clockVars, seen, active, new, late, met, ready, serverVars>>

\* The server responds: with all there is, if it knew the project when it was
\* asked, or with what it had seen of it; or with an error.  The messages
\* before the response have been read.
Respond ==
    /\ Requesting /\ alive /\ stdout = <<>>
    /\ \E r \in {"complete", "error"} \cup (IF ready THEN {} ELSE {"partial"}) : Return(r)
    /\ UNCHANGED stdout

\* Mutant: the deadline is not looked at after a message.
SkipForever ==
    /\ Requesting /\ stdout # <<>>
    /\ stdout' = Tail(stdout)
    /\ UNCHANGED <<clockVars, clientVars, serverVars>>

\* Another message is skipped, a request for a token too; after it the
\* deadline is looked at, and only then.
SkipMessage ==
    /\ Requesting /\ stdout # <<>>
    /\ stdout' = Tail(stdout)
    /\ IF expired THEN Return("error")
                  ELSE UNCHANGED <<clockVars, clientVars, serverVars>>

\* End of file.
ReadEnd ==
    /\ Requesting /\ stdout = <<>> /\ ~ alive
    /\ Return("error")
    /\ UNCHANGED stdout

\* The exit notification and wait_for_exit, which ends or kills the process.
WaitForExit ==
    /\ pc = "exit"
    /\ pc' = "over" /\ alive' = FALSE
    /\ UNCHANGED <<clockVars, seen, active, new, late, expired, result, met, ready, says,
                   work, owed, indexed, quiet, honest, stdout>>

Client ==
    \/ OpenDocument
    \/ WaitMessage \/ WaitQuiet \/ WaitOver \/ DrainMessage \/ DrainOver
    \/ Query \/ SkipMessage \/ ReadEnd \/ WaitForExit

-----------------------------------------------------------------------------
(* The server and the clock *)

Serving == alive /\ met /\ pc \in {"wait", "drain"}

Say(kind, t) ==
    /\ Serving /\ says < MaxSays /\ Len(stdout) < PipeLimit
    /\ says' = says + 1
    /\ stdout' = Append(stdout, Msg(kind, t))

\* It wants a token, and waits for the answer before it goes on.
AskToken(t) ==
    /\ ~ owed /\ ~ indexed
    /\ Say("create", t)
    /\ owed' = TRUE /\ quiet' = 0
    /\ UNCHANGED <<clockVars, clientVars, alive, work, indexed, honest>>

BeginPhase(t) ==
    /\ ~ owed /\ ~ indexed /\ t \notin work
    /\ Say("begin", t)
    /\ work' = work \cup {t} /\ quiet' = 0
    /\ UNCHANGED <<clockVars, clientVars, alive, owed, indexed, honest>>

EndPhase(t) ==
    /\ ~ owed /\ t \in work
    /\ Say("end", t)
    /\ work' = work \ {t} /\ quiet' = 0
    /\ UNCHANGED <<clockVars, clientVars, alive, owed, indexed, honest>>

\* Anything else; a report is of a phase it is in.
Chat(t) ==
    /\ Say("note", t) \/ (t \in work /\ Say("report", t))
    /\ UNCHANGED <<clockVars, clientVars, alive, work, owed, indexed, quiet, honest>>

\* Whatever it says once it has been asked is skipped; a note stands for all.
Interrupt ==
    /\ Requesting /\ alive /\ Len(stdout) < PipeLimit
    /\ \E t \in Tokens : stdout' = Append(stdout, Msg("note", t))
    /\ UNCHANGED <<clockVars, clientVars, serverVars>>

\* Its work is done.
FinishIndex ==
    /\ Serving /\ ~ indexed /\ ~ owed
    /\ honest => work = {}
    /\ indexed' = TRUE
    /\ UNCHANGED <<clockVars, clientVars, alive, says, work, owed, quiet, honest, stdout>>

ServerDies ==
    /\ alive /\ pc # "start"
    /\ alive' = FALSE
    /\ UNCHANGED <<clockVars, clientVars, says, work, owed, indexed, quiet, honest, stdout>>

\* An honest server that has something to do and is in no phase announces the
\* next one before cq stops waiting for it.
Announces ==
    \/ indexed \/ work # {} \/ owed
    \/ ~ seen /\ now + 1 < Grace
    \/ seen /\ quiet < Drain

\* Time passes while cq is blocked in a poll.
Tick ==
    /\ InTime /\ stdout = <<>> /\ alive
    /\ \/ pc = "wait" /\ now < pollEnd
       \/ pc = "drain" /\ now < drainEnd
    /\ honest => Announces
    /\ now' = now + 1
    /\ quiet' = IF quiet < Drain THEN quiet + 1 ELSE quiet
    /\ UNCHANGED <<pollEnd, drainEnd, clientVars, alive, says, work, owed,
                   indexed, honest, stdout>>

\* The deadline of the request under way passes.
Deadline ==
    /\ Requesting /\ ~ expired
    /\ expired' = TRUE
    /\ UNCHANGED <<clockVars, pc, seen, active, new, late, result, met, ready, serverVars,
                   stdout>>

Server ==
    \/ FinishIndex \/ ServerDies \/ Respond \/ Interrupt
    \/ \E t \in Tokens : AskToken(t) \/ BeginPhase(t) \/ EndPhase(t) \/ Chat(t)

Next == Start \/ Client \/ Server \/ Tick \/ Deadline

\* cq's thread and the clock go on.  A server need do nothing, and the
\* handshake in Start returns if it does.
Fairness == WF_vars(Client) /\ WF_vars(Tick \/ Deadline)

\* An honest server does go on with its work.
HonestWork == honest /\ (FinishIndex \/ \E t \in Tokens : EndPhase(t))

Spec == Init /\ [][Next]_vars /\ Fairness /\ WF_vars(HonestWork)

-----------------------------------------------------------------------------
(* Properties *)

\* wait_for_ready: a server that announces its work in time is not asked
\* before the work is done, in however many phases and whether or not they
\* overlap, unless the timeout of the wait has passed.
AskedWhenIndexed == pc = "reply" /\ honest /\ alive /\ ~ late => ready

\* "We must respond or the server may hang" (server.rs): up to the query, a
\* server, honest or not, that waits for a token does so because its request
\* has not been read; both loops of wait_for_ready answer what they read.
NoServerLeftWaiting ==
    owed /\ pc \notin {"reply", "shutdown", "exit", "over"} =>
        \E i \in DOMAIN stdout : stdout[i].kind = "create"

\* oneshot.rs has a return for every step that may fail.  Whichever is taken,
\* a server whose handshake succeeded is gone afterwards.
NoServerLeftRunning == pc = "over" /\ met => ~ alive

\* The wait ends, and so does the query, whatever the server says and however
\* long it goes on, unless it lives and is silent for ever once it has been
\* sent a request: read_message has no timeout.
Silent == Requesting /\ alive /\ stdout = <<>>
QueryEnds == <>[]Silent \/ (pc = "open" ~> pc = "over")
=============================================================================
