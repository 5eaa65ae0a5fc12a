------------------------------ MODULE ServerPool ------------------------------
(***************************************************************************)
(* The language servers a daemon keeps warm (daemon.rs): one per language,  *)
(* started on the first query, reused, replaced when dead, evicted when     *)
(* idle, shut down when the daemon ends.  One thread does it all, and every *)
(* call into a server may take time, in which servers die.                  *)
(*                                                                          *)
(* The pool's key is (project, language); by RequestsAreForOwnProject of    *)
(* DaemonService the project is the daemon's own, so a key is a language.   *)
(***************************************************************************)
EXTENDS Naturals, FiniteSets

CONSTANTS Langs,        \* languages
          Configured,   \* those the registry has a server for
          Servers,      \* server processes, each started at most once
          IdleTimeout,  \* idle_timeout
          MaxTime,      \* bound: the clock stops here
          None

ASSUME PoolAssumption ==
    /\ Configured \subseteq Langs
    /\ IdleTimeout \in Nat /\ MaxTime \in Nat
    /\ None \notin Langs \cup Servers

Pooled == [server : Servers, last_used : 0..MaxTime, started : 0..MaxTime]

ASSUME NoneIsNoEntry == None \notin Pooled

VARIABLES
    pc,
    servers,   \* servers[l]: the pool's entry, or None
    proc,      \* proc[s]: the process
    lang,      \* lang[s]: the language s was started for
    dropped,   \* processes whose handle start_with_capabilities let go of
    req,       \* the language of the query in hand
    fresh,     \* the server being started
    to_remove, \* languages still to be evicted or shut down
    now

vars == <<pc, servers, proc, lang, dropped, req, fresh, to_remove, now>>

PCs == {"loop", "evict", "accept", "get", "start", "handshake", "ask", "drain", "over"}

\* Each variable holds what the code's types and control flow let it hold, and
\* get_or_start_server's expect, "server was just inserted or confirmed ready".
PoolTypeOK ==
    /\ pc \in PCs
    /\ servers \in [Langs -> Pooled \cup {None}]
    /\ proc \in [Servers -> {"unborn", "up", "dead"}]
    /\ lang \in [Servers -> Langs \cup {None}]
    /\ dropped \subseteq Servers
    /\ req \in Langs \cup {None} /\ fresh \in Servers \cup {None}
    /\ to_remove \subseteq Langs
    /\ now \in 0..MaxTime
    /\ pc = "ask" => servers[req] # None

Init ==
    /\ pc = "loop"
    /\ servers = [l \in Langs |-> None]
    /\ proc = [s \in Servers |-> "unborn"]
    /\ lang = [s \in Servers |-> None]
    /\ dropped = {} /\ to_remove = {}
    /\ req = None /\ fresh = None
    /\ now = 0

InPool == {l \in Langs : servers[l] # None}
Up(l)  == proc[servers[l].server] = "up"

-----------------------------------------------------------------------------
(* The accept loop *)

\* The languages evict_idle_servers collects before it removes any.
Idle(l) == now - servers[l].last_used > IdleTimeout

\* Mutant: nothing is ever idle enough.
BeginNoEviction ==
    /\ pc = "loop"
    /\ to_remove' = {}
    /\ pc' = "evict"
    /\ UNCHANGED <<servers, proc, lang, dropped, req, fresh, now>>

BeginEviction ==
    /\ pc = "loop"
    /\ to_remove' = {l \in InPool : Idle(l)}
    /\ pc' = "evict"
    /\ UNCHANGED <<servers, proc, lang, dropped, req, fresh, now>>

\* Mutant: the entry is forgotten and the server not shut down.
ForgetServer(l) ==
    /\ servers' = [servers EXCEPT ![l] = None]
    /\ to_remove' = to_remove \ {l}
    /\ UNCHANGED proc

\* Removed from the pool and shut down: LspServer::shutdown kills it at last.
ShutDownServer(l) ==
    /\ servers' = [servers EXCEPT ![l] = None]
    /\ proc' = [proc EXCEPT ![servers[l].server] = "dead"]
    /\ to_remove' = to_remove \ {l}

Evict ==
    /\ pc = "evict"
    /\ \E l \in to_remove : ShutDownServer(l)
    /\ UNCHANGED <<pc, lang, dropped, req, fresh, now>>

EndEviction ==
    /\ pc = "evict" /\ to_remove = {}
    /\ pc' = "accept"
    /\ UNCHANGED <<servers, proc, lang, dropped, req, fresh, to_remove, now>>

\* No connection, or one that changes nothing in the pool (handle_status reads it).
AcceptNothing ==
    /\ pc = "accept"
    /\ pc' = "loop"
    /\ UNCHANGED <<servers, proc, lang, dropped, req, fresh, to_remove, now>>

AcceptQuery(l) ==
    /\ pc = "accept"
    /\ req' = l
    /\ pc' = "get"
    /\ UNCHANGED <<servers, proc, lang, dropped, fresh, to_remove, now>>

\* A Shutdown request, or a signal seen at the top of the loop; then
\* shutdown_all_servers collects the keys.
Stop ==
    /\ pc \in {"loop", "accept"}
    /\ to_remove' = InPool
    /\ pc' = "drain"
    /\ UNCHANGED <<servers, proc, lang, dropped, req, fresh, now>>

Drain ==
    /\ pc = "drain"
    /\ \E l \in to_remove : ShutDownServer(l)
    /\ UNCHANGED <<pc, lang, dropped, req, fresh, now>>

EndDrain ==
    /\ pc = "drain" /\ to_remove = {}
    /\ pc' = "over"
    /\ UNCHANGED <<servers, proc, lang, dropped, req, fresh, to_remove, now>>

-----------------------------------------------------------------------------
(* handle_query and get_or_start_server *)

\* Ready: is_ready, and last_used is refreshed.
GetReady ==
    /\ pc = "get" /\ req \in InPool /\ Up(req)
    /\ servers' = [servers EXCEPT ![req].last_used = now]
    /\ pc' = "ask"
    /\ UNCHANGED <<proc, lang, dropped, req, fresh, to_remove, now>>

\* Mutant: a server is started whether or not there is one.
GetAlwaysNew ==
    /\ pc = "get"
    /\ servers' = [servers EXCEPT ![req] = None]
    /\ pc' = "start"
    /\ UNCHANGED <<proc, lang, dropped, req, fresh, to_remove, now>>

\* Dead: the entry is removed.  Missing: there is none.
GetDeadOrMissing ==
    /\ pc = "get" /\ (req \in InPool => ~ Up(req))
    /\ servers' = [servers EXCEPT ![req] = None]
    /\ pc' = "start"
    /\ UNCHANGED <<proc, lang, dropped, req, fresh, to_remove, now>>

\* No configuration for the language, no binary, or no process.
CannotStart ==
    /\ pc = "start"
    /\ pc' = "loop"
    /\ UNCHANGED <<servers, proc, lang, dropped, req, fresh, to_remove, now>>

StartServer ==
    /\ pc = "start" /\ req \in Configured
    /\ \E s \in Servers :
          /\ proc[s] = "unborn"
          /\ proc' = [proc EXCEPT ![s] = "up"]
          /\ lang' = [lang EXCEPT ![s] = req]
          /\ fresh' = s
    /\ pc' = "handshake"
    /\ UNCHANGED <<servers, dropped, req, to_remove, now>>

\* Mutant: the new server is never put in the pool.
InsertNothing ==
    /\ pc = "handshake"
    /\ fresh' = None
    /\ pc' = "ask"
    /\ UNCHANGED <<servers, proc, lang, dropped, req, to_remove, now>>

\* LspServer::start returns a server, though it may have died since it answered.
Insert ==
    /\ pc = "handshake"
    /\ servers' = [servers EXCEPT ![req] =
                      [server |-> fresh, last_used |-> now, started |-> now]]
    /\ fresh' = None
    /\ pc' = "ask"
    /\ UNCHANGED <<proc, lang, dropped, req, to_remove, now>>

\* LspServer::start fails after the spawn: the process handle is dropped, which
\* neither kills the process nor waits for it.
HandshakeFails ==
    /\ pc = "handshake"
    /\ dropped' = dropped \cup {fresh}
    /\ fresh' = None
    /\ pc' = "loop"
    /\ UNCHANGED <<servers, proc, lang, req, to_remove, now>>

\* open_document and the request (module LspSession); an error leaves the
\* server in the pool.
Ask ==
    /\ pc = "ask"
    /\ pc' = "loop"
    /\ UNCHANGED <<servers, proc, lang, dropped, req, fresh, to_remove, now>>

-----------------------------------------------------------------------------
ServerDies(s) ==
    /\ proc[s] = "up"
    /\ proc' = [proc EXCEPT ![s] = "dead"]
    /\ UNCHANGED <<pc, servers, lang, dropped, req, fresh, to_remove, now>>

Tick ==
    /\ now < MaxTime
    /\ now' = now + 1
    /\ UNCHANGED <<pc, servers, proc, lang, dropped, req, fresh, to_remove>>

DaemonStep ==
    \/ BeginEviction \/ Evict \/ EndEviction
    \/ AcceptNothing \/ (\E l \in Langs : AcceptQuery(l))
    \/ Stop \/ Drain \/ EndDrain
    \/ GetReady \/ GetDeadOrMissing \/ CannotStart \/ StartServer
    \/ Insert \/ HandshakeFails \/ Ask

Next == DaemonStep \/ (\E s \in Servers : ServerDies(s)) \/ Tick

Spec == Init /\ [][Next]_vars

\* The daemon's thread goes on: every call into a server returns (RequestsEnd
\* of LspSession).
FairSpec == Spec /\ WF_vars(DaemonStep)

-----------------------------------------------------------------------------
(* Safety *)

\* A process the daemon has a handle of is the one its language's entry names,
\* or is being started: reuse, replacement and eviction lose track of none, so
\* there is never more than one server for a language.
EveryServerIsInThePool ==
    \A s \in Servers :
        proc[s] = "up" /\ s \notin dropped =>
            \/ fresh = s /\ servers[lang[s]] = None
            \/ servers[lang[s]] # None /\ servers[lang[s]].server = s

\* When the daemon has shut down, no server it had started is left running
\* (shutdown_all_servers), those apart whose handshake failed.
NothingOutlivesTheDaemon ==
    pc = "over" => \A s \in Servers : proc[s] = "up" => s \in dropped

-----------------------------------------------------------------------------
(* Liveness *)

\* A server left idle is evicted, or used again (accept_loop, evict_idle_servers).
IdleServersGo ==
    \A l \in Langs :
        (l \in InPool /\ Idle(l)) ~> (l \in InPool => ~ Idle(l))
=============================================================================
