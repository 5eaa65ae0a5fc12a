------------------------------ MODULE LspSession ------------------------------
(***************************************************************************)
(* One language server and the session cq holds with it: LspServer and its  *)
(* StdioTransport (server.rs, transport.rs, queries.rs).  The caller is the  *)
(* daemon, which keeps the session, or a one-shot query, which does not.     *)
(*                                                                          *)
(* The client has one thread.  It writes requests to the server's standard  *)
(* input and reads its standard output until the matching response arrives; *)
(* its deadline is looked at between two messages only, and reading blocks. *)
(* The server is external: it answers in any order, late or never, sends    *)
(* notifications and requests of its own, and may die.                      *)
(***************************************************************************)
EXTENDS Naturals, Sequences, FiniteSets

CONSTANTS Docs,        \* source files
          MaxId,       \* bound: the last request id a session uses
          MaxText,     \* bound: how often a file is edited
          PipeLimit,   \* messages a pipe holds
          ServerIds,   \* ids the server gives the requests it sends itself
          None         \* no value

ASSUME SessionAssumption ==
    /\ MaxId \in Nat \ {0} /\ MaxText \in Nat \ {0} /\ PipeLimit \in Nat \ {0}
    /\ ServerIds \subseteq Nat
    /\ None \notin Docs

Text == 0..MaxText                  \* contents of a file; 0 is not open
Questions == {"initialize", "query", "shutdown"}
ToServer  == Questions \cup {"initialized", "open", "exit"}
ToClient  == {"answer", "failure", "note", "ask"}

\* JsonRpcRequest, JsonRpcResponse and JsonRpcNotification; id 0 is no id.
Message(kinds) == [kind : kinds, id : Nat, doc : Docs \cup {None}, text : Text]
Msg(kind, id, doc, text) == [kind |-> kind, id |-> id, doc |-> doc, text |-> text]
NoMsg == Msg("note", 0, None, 0)

VARIABLES
    pc,       \* where the client's thread is
    call,     \* the last request; text is what the file held when it was made
    nextId,   \* NEXT_REQUEST_ID
    late,     \* the deadline of `call` has passed
    opened,   \* opened_docs
    got,      \* the message that ended the last request, if one did
    stdin, stdout,   \* the pipes to and from the server
    alive,    \* the server process runs
    met,      \* start has succeeded: there is an LspServer
    pending,  \* requests the server has read and not answered
    asking,   \* the server waits for the answer to a request of its own
    docs,     \* docs[d]: the text the server holds for d
    disk      \* disk[d]: the text of the file

clientVars == <<pc, call, nextId, late, opened, got, met>>
serverVars == <<alive, pending, asking, docs>>
vars       == <<clientVars, serverVars, stdin, stdout, disk>>

PCs == {"start", "open", "ask", "check", "read", "free", "exit", "waiting", "over"}

\* Each variable holds what the code's types and control flow let it hold.
SessionTypeOK ==
    /\ pc \in PCs /\ late \in BOOLEAN /\ met \in BOOLEAN
    /\ nextId \in 1..(MaxId + 2)
    /\ call \in Message(Questions)
    /\ got \in Message(ToClient)
    /\ opened \subseteq Docs
    /\ stdin \in Seq(Message(ToServer)) /\ Len(stdin) <= PipeLimit
    /\ stdout \in Seq(Message(ToClient)) /\ Len(stdout) <= PipeLimit
    /\ alive \in BOOLEAN /\ asking \in BOOLEAN
    /\ pending \subseteq Message(Questions)
    /\ docs \in [Docs -> Text] /\ disk \in [Docs -> Text \ {0}]

Init ==
    /\ pc = "start" /\ late = FALSE /\ met = FALSE
    /\ nextId = 1
    /\ call = Msg("initialize", 0, None, 0)
    /\ got = NoMsg
    /\ opened = {}
    /\ stdin = <<>> /\ stdout = <<>>
    /\ alive = TRUE /\ asking = FALSE
    /\ pending = {}
    /\ docs = [d \in Docs |-> 0] /\ disk = [d \in Docs |-> 1]

-----------------------------------------------------------------------------
(* The client: calls *)

\* write_message: blocks while the pipe is full; a dead server's pipe is broken.
Room(pipe) == Len(pipe) < PipeLimit
Broken     == ~ alive /\ UNCHANGED stdin
\* Mutant: what does not fit is taken all the same.
WriteAnyway(m) == alive /\ stdin' = Append(stdin, m)
Write(m)   == alive /\ Room(stdin) /\ stdin' = Append(stdin, m)

\* Mutant: a session whose shutdown failed is used again.
AfterFailureRetry == IF call.kind = "initialize" THEN "over" ELSE "free"

\* Where a request that fails leaves the session: a failed initialize drops
\* the process handle without killing it, a failed shutdown goes on.
AfterFailure == CASE call.kind = "initialize" -> "over"
                  [] call.kind = "query"      -> "free"
                  [] call.kind = "shutdown"   -> "exit"

\* send_request draws an id, writes the request and sets the deadline.
SendRequest(m) ==
    /\ \/ Write(m) /\ pc' = "check"
       \/ Broken /\ pc' = AfterFailure
    /\ late' = FALSE

\* start_with_capabilities, the process having been spawned.
Start ==
    /\ pc = "start" /\ call.id = 0
    /\ call' = Msg("initialize", nextId, None, 0)
    /\ nextId' = nextId + 1 /\ got' = NoMsg
    /\ pc' = "ask"
    /\ UNCHANGED <<late, opened, met, serverVars, stdin, stdout, disk>>

\* handle_query or a one-shot query: what is asked for is where d's contents,
\* as they are now, say something is defined or referred to.
Query(d) ==
    /\ pc = "free" /\ nextId <= MaxId
    /\ call' = Msg("query", nextId, d, disk[d])
    /\ nextId' = nextId + 1 /\ got' = NoMsg
    /\ pc' = "open"
    /\ UNCHANGED <<late, opened, met, serverVars, stdin, stdout, disk>>

\* Mutant: the document is sent with every query.
OpenDocumentAlways ==
    LET d == call.doc IN
    /\ pc = "open"
    /\ \/ Write(Msg("open", 0, d, call.text)) /\ pc' = "ask"
       \/ Broken /\ pc' = "free"
    /\ opened' = opened \cup {d}
    /\ UNCHANGED <<call, nextId, late, got, met, serverVars, stdout, disk>>

\* open_document: didOpen with the file's text, unless it was sent before.
OpenDocument ==
    LET d == call.doc IN
    /\ pc = "open"
    /\ \/ d \in opened /\ pc' = "ask" /\ UNCHANGED <<stdin, opened>>
       \/ /\ d \notin opened
          /\ \/ /\ Write(Msg("open", 0, d, call.text))
                /\ opened' = opened \cup {d}
                /\ pc' = "ask"
             \/ Broken /\ pc' = "free" /\ UNCHANGED opened
    /\ UNCHANGED <<call, nextId, late, got, met, serverVars, stdout, disk>>

\* LspServer::shutdown, called when a server is evicted, at the end of a
\* one-shot query and when the daemon ends.
Shutdown ==
    /\ pc = "free"
    /\ call' = Msg("shutdown", nextId, None, 0)
    /\ nextId' = nextId + 1 /\ got' = NoMsg
    /\ pc' = "ask"
    /\ UNCHANGED <<late, opened, met, serverVars, stdin, stdout, disk>>

Ask ==
    /\ pc = "ask"
    /\ SendRequest(Msg(call.kind, call.id, call.doc, 0))
    /\ UNCHANGED <<call, nextId, opened, got, met, serverVars, stdout, disk>>

\* The caller drops the LspServer (an error on the way, or get_or_start_server
\* finds the process dead): the process is killed if it runs.
DropServer ==
    /\ pc = "free"
    /\ pc' = "over" /\ alive' = FALSE
    /\ UNCHANGED <<call, nextId, late, opened, got, met, pending, asking, docs,
                   stdin, stdout, disk>>

-----------------------------------------------------------------------------
(* The client: waiting for the response *)

\* Mutant: the deadline is never looked at.
CheckNoDeadline ==
    /\ pc = "check"
    /\ pc' = "read"
    /\ UNCHANGED <<call, nextId, late, opened, got, met, serverVars, stdin, stdout, disk>>

CheckDeadline ==
    /\ pc = "check"
    /\ pc' = IF late THEN AfterFailure ELSE "read"
    /\ UNCHANGED <<call, nextId, late, opened, got, met, serverVars, stdin, stdout, disk>>

\* Mutant: any response will do.
MatchesAny(m) == m.kind \in {"answer", "failure"}

\* Does the message deserialize as a JsonRpcResponse with the id of the call?
\* A request of the server's has an id as well, and fields nobody looks at.
Matches(m) == m.kind \in {"answer", "failure", "ask"} /\ m.id = call.id

\* What the caller does with the response to its request.
Concludes(m) ==
    CASE call.kind = "initialize" /\ m.kind = "failure" -> "over"
      [] call.kind = "initialize" /\ m.kind # "failure" -> "free"
      [] call.kind = "query"      -> "free"
      [] call.kind = "shutdown"   -> "exit"

\* read_message; a message that is not the response is skipped.  After
\* initialize, the capabilities are parsed, which may fail, and the server is
\* told that the session is on.
ReadMessage ==
    LET m == Head(stdout) IN
    /\ pc = "read" /\ stdout # <<>>
    /\ stdout' = Tail(stdout)
    /\ \/ /\ Matches(m)
          /\ IF Concludes(m) = "free" /\ call.kind = "initialize"
               THEN \/ /\ Write(Msg("initialized", 0, None, 0))
                       /\ got' = m /\ pc' = "free" /\ met' = TRUE
                    \/ Broken /\ pc' = "over" /\ UNCHANGED <<got, met>>
                    \/ got' = m /\ pc' = "over" /\ UNCHANGED <<stdin, met>>
               ELSE got' = m /\ pc' = Concludes(m) /\ UNCHANGED <<stdin, met>>
       \/ /\ ~ Matches(m)
          /\ pc' = "check"
          /\ UNCHANGED <<got, stdin, met>>
    /\ UNCHANGED <<call, nextId, late, opened, serverVars, disk>>

\* End of file.
ReadEnd ==
    /\ pc = "read" /\ stdout = <<>> /\ ~ alive
    /\ pc' = AfterFailure
    /\ UNCHANGED <<call, nextId, late, opened, got, met, serverVars, stdin, stdout, disk>>

\* The exit notification follows the shutdown request, answered or not.
SendExit ==
    /\ pc = "exit"
    /\ Write(Msg("exit", 0, None, 0)) \/ Broken
    /\ pc' = "waiting"
    /\ UNCHANGED <<call, nextId, late, opened, got, met, serverVars, stdout, disk>>

\* Mutant: wait_for_exit gives up without killing the process.
WaitForExitOnly ==
    /\ pc = "waiting"
    /\ pc' = "over"
    /\ UNCHANGED <<call, nextId, late, opened, got, met, serverVars, stdin, stdout, disk>>

\* wait_for_exit kills the process in the end.
WaitForExit ==
    /\ pc = "waiting"
    /\ alive' = FALSE
    /\ pc' = "over"
    /\ UNCHANGED <<call, nextId, late, opened, got, met, pending, asking, docs,
                   stdin, stdout, disk>>

-----------------------------------------------------------------------------
(* The server, the clock and the files *)

\* The server reads and answers when it likes: one that reads nothing while it
\* waits for something of its own, or while its output is stuck, just does not.
ServerRead ==
    LET m == Head(stdin) IN
    /\ alive /\ stdin # <<>>
    /\ stdin' = Tail(stdin)
    /\ pending' = IF m.kind \in Questions THEN pending \cup {m} ELSE pending
    /\ docs' = IF m.kind = "open" THEN [docs EXCEPT ![m.doc] = m.text] ELSE docs
    /\ UNCHANGED <<alive, asking, clientVars, stdout, disk>>

ServerWrites(m) == alive /\ Room(stdout) /\ stdout' = Append(stdout, m)

\* The answer is about the text the server has for the document.
ServerAnswer ==
    /\ \E m \in pending :
          /\ \E kind \in {"answer", "failure"} :
                ServerWrites(Msg(kind, m.id, m.doc,
                                 IF m.doc = None THEN 0 ELSE docs[m.doc]))
          /\ pending' = pending \ {m}
    /\ UNCHANGED <<alive, asking, docs, clientVars, stdin, disk>>

ServerNotify ==
    /\ ServerWrites(NoMsg)
    /\ UNCHANGED <<serverVars, clientVars, stdin, disk>>

\* A request of the server's, such as window/workDoneProgress/create, under an
\* id of the server's own counting.  Nothing in send_request answers it.
ServerAsk ==
    /\ met /\ ~ asking
    /\ \E i \in ServerIds : ServerWrites(Msg("ask", i, None, 0))
    /\ asking' = TRUE
    /\ UNCHANGED <<alive, pending, docs, clientVars, stdin, disk>>

ServerDies ==
    /\ alive
    /\ alive' = FALSE
    /\ UNCHANGED <<pending, asking, docs, clientVars, stdin, stdout, disk>>

\* The deadline of the request under way passes.
Tick ==
    /\ pc \in {"check", "read"} /\ ~ late
    /\ late' = TRUE
    /\ UNCHANGED <<pc, call, nextId, opened, got, met, serverVars, stdin, stdout, disk>>

\* Somebody saves another version of a file.
Edit(d) ==
    /\ disk[d] < MaxText
    /\ disk' = [disk EXCEPT ![d] = @ + 1]
    /\ UNCHANGED <<clientVars, serverVars, stdin, stdout>>

-----------------------------------------------------------------------------
ClientStep == \/ Start \/ OpenDocument \/ Ask \/ CheckDeadline
              \/ ReadMessage \/ ReadEnd \/ SendExit \/ WaitForExit
Caller     == (\E d \in Docs : Query(d)) \/ Shutdown \/ DropServer
Talks      == ServerAnswer \/ ServerNotify \/ ServerAsk

Next ==
    \/ ClientStep \/ Caller
    \/ ServerRead \/ Talks \/ ServerDies
    \/ Tick \/ \E d \in Docs : Edit(d)

Spec == Init /\ [][Next]_vars

\* The client's thread runs and time passes.  The server need do nothing.
FairSpec == Spec /\ WF_vars(ClientStep) /\ WF_vars(Tick)

-----------------------------------------------------------------------------
(* Safety *)

\* What send_request returns carries the id of that very request, and if it is
\* a response it is the response to that request: not the late response to one
\* that timed out, nor one about another file.  A request of the server's with
\* the same id ends the call as well, and is the only other thing that does.
ResponseIsToTheCall ==
    got # NoMsg =>
        /\ got.id = call.id
        /\ got.kind = "ask" \/ (got.kind \in {"answer", "failure"} /\ got.doc = call.doc)

\* A server asked about a document has been sent that document before, and
\* none is opened twice (open_document and opened_docs).
OpenedBeforeAsked ==
    \A d \in Docs :
        LET Sent(kind) == {i \in DOMAIN stdin : stdin[i].kind = kind /\ stdin[i].doc = d}
        IN  /\ \A i \in Sent("query") :
                  docs[d] # 0 \/ \E j \in Sent("open") : j < i
            /\ \A m \in pending : m.doc = d => docs[d] # 0
            /\ Cardinality(Sent("open")) <= IF docs[d] = 0 THEN 1 ELSE 0

\* A session that came about leaves no process behind, however it ends:
\* shutdown, eviction, an error of the caller, a dead server (Drop, shutdown).
EndedSessionLeavesNoProcess == met /\ pc = "over" => ~ alive

\* The server is told nothing before it has been initialized, and nothing but
\* exit after the shutdown request (start_with_capabilities, shutdown).
OrderlyHandshake ==
    LET Last(kind, m) == m.kind = "shutdown" => kind = "exit"
    IN  /\ \A i, j \in DOMAIN stdin :
              i < j => /\ stdin[j].kind \notin {"initialize", "initialized"}
                       /\ stdin[i].kind \notin {"initialize", "exit"}
                       /\ Last(stdin[j].kind, stdin[i])
        /\ \A m \in pending : \A i \in DOMAIN stdin :
              m.kind # "initialize" /\ Last(stdin[i].kind, m)

-----------------------------------------------------------------------------
(* Liveness *)

\* The client is blocked by a live server that says nothing (read_message) or
\* takes nothing (write_message); neither call has a timeout.
Writing == \/ pc \in {"ask", "exit"}
           \/ pc = "open" /\ call.doc \notin opened
Stuck   == /\ alive
           /\ \/ pc = "read" /\ stdout = <<>>
              \/ Writing /\ ~ Room(stdin)

InRequest == pc \in {"open", "ask", "check", "read", "exit"}

\* A request ends, in an answer, an error or a timeout, whatever the server
\* says and however long it goes on talking (the deadline in send_request),
\* unless the server stops for good to speak or to read.
RequestsEnd == <>[]Stuck \/ (InRequest ~> ~ InRequest)

\* "Returns LspError::Timeout if no matching response arrives within the
\* configured timeout" (send_request): once the deadline has passed, the client
\* does not wait on.
TimesOut == pc = "read" /\ late ~> pc # "read"
=============================================================================
