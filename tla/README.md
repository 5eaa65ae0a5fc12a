# codequery in TLA+

`cq` answers questions about source code from the command line: it scans a
project with tree-sitter, and asks language servers when asked to be precise.
The parts of it with state that outlives a call, or that several processes
share, are specified here, model-checked with TLC and, where it matters for
every number of processes and files, proved with TLAPS. Of the queries
themselves, those whose answer is put together from several sources are
specified as operators and checked over small projects.

Every definition follows the source under `src/`; `PROJECT.json` maps each to
its lines.

## 1. The system and its parts

| part | state | operations | meets |
|---|---|---|---|
| daemon service (`daemon.rs`, `daemon_file.rs`, `client.rs`, `socket.rs`, `commands/daemon.rs`) | one info file per project (port, token, pid); a listener; the shutdown flag; the connection being served | `cq daemon start, stop, status`, `run`, `accept_loop`, `handle_connection`, signals; `connect`, `query_refs` | info files and TCP, shared by all processes; `cq cache clear` removes the files |
| language-server session (`server.rs`, `transport.rs`, `queries.rs`) | two pipes, request ids, `opened_docs`, the process | handshake, `open_document`, `send_request`, `shutdown`, `Drop` | an external process that answers late, never, or asks back |
| server pool (`daemon.rs`) | map of servers by project and language, with `last_used` | `get_or_start_server`, `evict_idle_servers`, `handle_status`, `shutdown_all_servers` | sessions; called by the daemon's one thread |
| scan and cache (`scanner.rs`, `cache.rs`) | one cache file per project | `scan_project`, `scan_project_cached`, `load`, `is_valid`, `store`, `clear` | source files that change meanwhile; other invocations of `cq` |
| resolution cascade (`cascade.rs`) | none of its own | daemon, one-shot server, stack graphs in turn; automatic start of a daemon | daemon service, session, scan |
| one-shot queries (`oneshot.rs`, `wait_for_ready`) | one session; the progress it has seen | start, wait until indexed, query, shut down | session |
| grammar packages (`grammar.rs`, `parser.rs`, `wasm_loader.rs`) | one directory per language; which processes have tried to install | install, update, remove, automatic install from a parser | network; rayon workers and other processes |
| MCP server (`codequery-mcp`) | a loop over standard input | `initialize`, `tools/list`, `tools/call`; starts a daemon at first, stops it at last | runs `cq` as a child |
| rename (`rename.rs`, `edit.rs`) | source files | plan the edits, apply them from the end of a file | scan, cascade |
| index, references, call chain (`codequery-index`, `callchain.rs`) | in memory, one command | build, look up, walk | scan |
| stack graphs (`codequery-resolve`) | a graph, one command | build, stitch partial paths | vendored libraries |
| parsing and extraction (`codequery-parse`) | none | text to symbols, for each language | scan |
| discovery, project, configuration (`codequery-core`) | none | find the root, walk, read settings | all |
| command line, output (`codequery-cli`) | none | parse arguments, dispatch, format | all |

What is hard in it:

* **No lock anywhere.** Processes coordinate through files that are truncated
  and then written, unlinked by name, and read at any moment; through directories
  that several tars unpack into; and through a TCP port that may be another
  daemon's by the time it is dialled.
* **One thread and blocking reads.** The daemon serves one connection at a time
  and a session's deadline is looked at between two messages only.
* **An external party.** A language server may be silent, late, dead, or waiting
  for an answer itself, and says when it has indexed a project in its own way.
* **Staleness.** An info file, a cached entry, an opened document and a pool
  entry each describe something that goes on changing.
* **Half-done work.** A process killed between `create` and `write`, a server
  whose handshake failed, an update that removed before it installed, a rename
  that wrote one file and failed at the next.
* **Answers from several sources.** References come from a server, from stack
  graphs and from the syntax, overlap and disagree.

`PROJECT.json` lists these as hazards, each at its line with the properties that
would catch it.

What makes each part correct: the daemon acts only for its own project, its info
file tells the truth, and stop means stopped; a response goes to its request,
documents are opened before they are asked about, no process is left over;
the pool loses no server; a scan returns what the files were while it ran; a
command's answer is the best tier's that could give one; a server is asked when
it knows the project; a package is whole or absent; every request to the MCP
server has its response; a rename changes the name's places and nothing else; no
reference is lost in a merge.

## 2. Modules

    DaemonService          daemon, info files, clients       MCDaemonService
      DaemonServiceProofs  types; projects are kept apart, info files are true,
                           stop
    LspSession             one server's session
      LspProofs            all its invariants
    OneShot                waiting for a server, one query
      OneShotProofs        all its invariants
    ServerPool             the daemon's servers              MCServerPool
      ServerPoolProofs     types; no server is lost
    TieredAnswer           what the cascade promises
    Cascade                the cascade and the daemons it starts
      McpServer            MCP sessions that run commands    MCMcpServer
        McpProofs          types, replies in order, one daemon, Cascade
                           implements TieredAnswer
    FreshScan              what a scan promises
    ScanCache              scanner and cache file            MCScanCache
      ScanCacheProofs      types; ScanCache implements FreshScan
    GrammarPackages        one language's package            MCGrammarPackages
      GrammarProofs        types; whole or absent, reports
    Sources                a project's words and their roles
      Queries              refs, callers, dead
        Commands           a command over a project, rename
          CallChain        callchain                       MCCommands
            CommandsProofs no use is lost, renames rename, chains are the ways

How they fit together. `DaemonService` is the daemon's outside; a query is one
step there that answers or fails. `ServerPool` is the inside of its loop, and
takes from `DaemonService` that only its own project is asked about
(`RequestsAreForOwnProject`), so that its keys are languages. `LspSession` is
the inside of one call into a server; that such a call returns is what
`ServerPool` assumes of it, and what a server that falls silent does not grant
(`RequestsEnd` and `lsp_silent`). `OneShot` is a session from start to end seen by
the clock.
`Cascade` takes the three tiers as they look from outside: a daemon that is found
by its info file and answers or does not, a one-shot query, stack graphs;
`McpServer` extends it with the sessions whose calls are its commands and whose
daemon is one of its daemons. `Queries` takes what the cascade returns as an
input, any answer any tier can give. `ScanCache` is about other processes and
other files altogether; the only thing it shares with the daemon is the cache
directory, whose removal is an action of both. `GrammarPackages` stands alone: a
missing grammar is a file that is not parsed.

### DaemonService

`info[p]` is what a reader of project `p`'s info file gets: a record, or `None`
for a missing, empty or unparsable file, which `read_daemon_info` does not tell
apart. `writers[p]` is the set of daemons that have that file open between
truncation and write, so that a file unlinked in between swallows what is
written. A daemon identity is its token, which embeds pid and time.
`dpc` follows `run`: `Bind`, `TruncateInfo`, `WriteInfo`, then the loop
`CheckFlag`, `Accept`, `ReadAuth`, `ReadRequest`, `HandleRequest`, then
`RemoveOwnInfo` and `Exit`; `Crash` may come anywhere. Clients run commands one
after the other: `Begin`, `ProbeRead`, `ProbeConnect` (`is_daemon_running`),
`Spawn`, or `ReadInfo`, `Dial`, `GetAuth`, `GetReply` (`DaemonClient`). The
kernel's accept queue is bounded (`BacklogLimit`); `Reachable` says when a
connection succeeds. pid checks are not in the code's probe and not in the model.
The automatic start of the cascade differs from `cq daemon start` by the polling
that follows and is in the module `Cascade`.

### LspSession

The client's thread goes through `ask`, `check`, `read` for each request:
`SendRequest` draws the id and writes, `CheckDeadline` is the test at the top of
the loop, `ReadMessage` a whole blocking `read_message`, which only an end of
file or a message ends. A message is a kind, an id, a document and a version of
its text; 0 is no id and no text. Pipes hold `PipeLimit` messages and a write
blocks when they are full. `initialize`, `shutdown` and every query go through
the same `send_request`. The server is external: it reads, answers in any order
or with an error, notifies, asks under ids of its own counting, and dies; it need
do none of these, so that one which reads and writes nothing while it waits for an
answer of its own is among them. A query stands for
definition, references and hover, which differ in their method name.
`wait_for_ready`, which speaks on the same pipes before the first query of a
one-shot session, is in `OneShot`.

### OneShot

`oneshot.rs` from `Start` to `Shutdown`, with every early return, and
`wait_for_ready` in between: `wait` is its main loop, `drain` the one that looks for
another phase when all are over. `seen`, `active` and `new` are the function's own
variables, `pollEnd` and `drainEnd` the deadlines of its polls. A tick is 200 ms,
the length of one poll. The query and the shutdown request after it are a request
each (`Requesting`), which returns with a response (`Respond`), at the end of file
(`ReadEnd`), or at a deadline (`Deadline`, `expired`) that is looked at after a
message only (`Interrupt`, `SkipMessage`); while the server lives and is silent,
neither returns. `WaitForExit` ends or kills the process. The server announces
phases of its work with `begin` and `end`, asks for a token first (`create`) and
then waits for the answer (`owed`), or only chats. An `honest` server announces all
its work: the first phase within the grace period, the next within the drain, and it
has indexed the project when the last is over. Other servers say what they like.
References and definitions differ in the query only.

### ServerPool

`servers[l]` is the entry of a language, `proc` the processes, `dropped` those
whose handle a failed `start_with_capabilities` let go of. Every call into a
server is a pause in which processes die and the clock moves. Evicting and
draining first collect keys, then remove and shut down one at a time, as the code
does. Ids of processes are never reused.

### TieredAnswer, Cascade and McpServer

`TieredAnswer` is the promise of `resolve_with_cascade`: for each command, tiers
fail from best to worst, the answer is the best tier's that is left and that the
command's mode allows, and it has no references only where a daemon says so, or
where the last tier answers and the scan has found no use of the name (`mentioned`).
`Cascade` is the mechanism, step for step: `Probe`, `Spawn` and `Poll` (the
automatic start), `Connect`, `Ask`, `Oneshot`, `Graph`. A starter is one `cq daemon
start` together with the daemon it spawns: `StarterProbes`, `Boot`, `Die`. Daemons
and their info file are what `DaemonService` makes of them as a command sees them:
one file, whose daemon is listening or not. `calm` is the condition of the
properties about single daemons: commands run one after the other, and a daemon
starts within the time it is polled for. The refinement mapping takes `failed` from
the control points (`Tiered`). A call about another project has other files and
other daemons and is not modelled.

`McpServer` adds `cq-mcp`: a session starts a daemon, takes one line at a time
(`TakeLine` for what it answers itself, `TakeCall` for what runs `cq`), waits for
its child, and stops the daemon at the end of its input. Lines are kinds; how a
tool call becomes a command line, and what `cq_edit` replaces, is not modelled.

### FreshScan and ScanCache

`FreshScan` is the promise: for each file in its scope a scan returns the symbols
of a text the file had while the scan ran, or nothing if it was missing then. A
scan that trusts what others remember (`trusts`) promises this but for the files
these may have missed (`missed`). One that is killed returns nothing, which is
not the same as an answer without symbols.
`ScanCache` is the mechanism: `Begin`, `LoadHit` or `LoadMiss`, `ValidateFile`
for each entry, `RebuildFile` for each entry in scope; or `Discover`, `ScanFile`
for each file and, with `--cache`, `StampFile` for each result, `Create` and
`Write`. Files are looked at one at a time and in any order, as rayon's workers
do, and anybody may act in between. Symbols are a function of the text, so a text
stands for its symbols. The clock counts seconds because `file_metadata` does.
A cache file that is truncated or half written is `Torn`; an entry is `mtime`,
`size` and symbols. Two invocations that have the file open write at offset 0,
and what is left behind the shorter one is ignored by the deserializer, so the
last writer wins. A scope is a set of files; how the command line spells it is
abstracted.

No entry tells every change, so two history variables say what may have been
missed: `unseen` has the files that were saved while something about them was in a
cache or on its way there (`Remembered`), and were new, saved twice within a second,
or read but not stamped yet (`Overlooks`); `leftOut` those outside the scope of a
scan that was stored. Clearing the cache empties both, unless a scan with `--cache`
is under way. The refinement mapping, `Fresh` in `ScanCache`, makes their union
`missed`. So the promise is not that a cached scan is current, which it is not, but
that it is wrong in these four ways only, and of those files only.

### GrammarPackages

One language's directory, `pkg`, with who made it and, for each of its files, the
release it is of, the actor whose tar is in the middle of it, or nothing. Actors
are parser threads, which load the grammar and install it when it is missing
(`Find`, `Load`, `Check` and `Mark` of `AUTO_INSTALL_ATTEMPTED`, ...), and
invocations of `cq grammar install`, `update` and `remove`. All share the steps
of a download and of a tar, which creates and fills one file after the other in
the directory it has opened, wherever the name leads by then, and of a removal.
Downloads, tars and removals may fail in every regime. `asked` is the release
`--tag` names, if it was given, and `Wanted` the one that is downloaded: a parser's
own, the one asked for, or the registry's. An update that has removed the old package
and could not install the new ends as `lost`, which `run_update` returns as a success.
`regime` says how actors meet: one after the other (`quiet`), the same with some of
them killed (`killing`), or all at once (`wild`). A removal that fails in the quiet
regime makes it `littered`, until one succeeds; meanwhile what is left of the package
is nobody's promise. `install --all` is these one after another.

### Sources, Queries, Commands and CallChain

A project is a sequence of files of lines of words. A word has a text and a role,
its place in the syntax tree, for parsing is external; texts are sequences of
letters because columns, and the search for a name in a line, depend on them. The
letters of a line are a recursive function of its words (`Beginning`), and a word's
column is the length of what is before it.
`Sources` has what a scan of Rust sources finds: references by kind with their
caller, items by name. `Queries` has the run functions as operators: the merge
of `refs` and of `callers`, and `dead`. `CascadeAnswers` has the answers their cascade
can give: any uses from a server, once or repeated, or any uses with the files of
their definitions from stack graphs, one answer for each pair of the two; or the
syntactic ones. `Commands` is one command over a project, in
which `rename` is several steps: it plans its edits and then writes file after
file, one of which may fail. `Applied` folds the edits of a file, from the last to
the first, over its lines. `CallChain` has `BuildChainNode`, the recursion of
`callchain`, as a recursive function of the calls left; `Node` folds the calls of one
name, in the order of the scan, and carries the visited names from one to the next.

## 3. Runs

| run | instance | shows |
|---|---|---|
| `daemon_safety` | 2 projects, 2 daemons, 2 ports, 1 client, accept queue of 2 | types, and the five safety properties of the daemon |
| `daemon_live` | 1 project, 1 daemon, 2 clients | every command returns, a signalled daemon ends, with another client waiting |
| `lsp_session` | 2 documents, ids up to 4, pipes of 2 messages, 2 versions of a text, a server that numbers its requests as the client does | types; a response is to its request, or a request of the server's has the very id; documents are opened once and first; no process is left; the order of the handshake; every request ends unless the server stops for good to speak or to read |
| `one_shot` | 2 tokens, 5 messages of the server, timeout of 7 ticks, grace period and drain of 2 | types; a server that announces its work is asked when it is done; none is asked while a token it waits for has been read and not granted; no server is left; the query ends unless the server lives and is silent |
| `server_pool` | 3 languages of which 2 have a server, 3 processes, clock to 3 | types; no server is lost, none is left over, idle ones go or are used again |
| `mcp` | 1 session with two inputs, 2 commands of which one starts daemons, 2 starters, 1 poll | types; responses in order; `Cascade` implements `TieredAnswer`; one daemon, and none behind the session, where nothing overlaps; calls are answered |
| `scan` | 1 file, in the scope or not, 2 invocations, 2 texts of one length, clock to 1; anything may happen to the file and the cache at any time | types; scans implement `FreshScan`; one without `--cache` is current |
| `grammar` | 1 process of 2 parser threads, 1 `cq grammar`, 2 files, 2 releases, all regimes | types in every regime; a package is whole or absent and reports are true where nothing overlaps; every operation ends |
| `commands` | every call graph of 3 functions; every project of 3 out of nine lines in 2 files; 3 names | renames do what replacing the words would; no reference is lost, and none added that is listed; chains are the ways back |
| `daemon_stale` | as `daemon_safety` | violated: a client removes the info file of a daemon that has just written it |
| `scan_scope` | 2 files, scopes of one or both, 1 invocation, 3 texts | violated: a cached scan misses files outside the scope of the scan that was stored |
| `lsp_silent` | 1 document, 1 query | violated: a request goes on past its deadline while a live server says nothing |

The runs marked violated state what a comment of the repository says and TLC
shows a behaviour of the code that does otherwise; `PROJECT.json` quotes the line
under `findings`.

### Other behaviours

The models have these too; they are what a reader may not expect, and no run is
kept for them. Where a constant is named, setting it shows the behaviour.

Daemon and sessions:

* a probe of a stale info file succeeds on another project's daemon that has been
  given the port, so that `cq daemon start` starts nothing (`ProbeConnect`);
* `cq cache clear`, or a second daemon of the project, leaves a running daemon
  without an info file, and `cq daemon stop` does not find it (`ClearAllCaches`);
* a signalled daemon with a silent client goes on until the client goes
  (`ReadAuth`, with fairness for the daemon only);
* a server whose query took longer than the idle timeout is evicted at the next
  turn of the loop, for `last_used` is set when a query begins (`GetReady`);
* `cq daemon status` lists servers that have died (`handle_status`);
* a request of the server's own that carries the id of a call is taken for its
  response (`Matches`; `transport.rs:95`): `ResponseIsToTheCall` says that it is the
  one other thing a call can get;
* a document is sent once, so a session that is kept answers from the text it was
  first given, whatever is saved later (`OpenDocument`, `queries.rs:77`), although
  `main.rs:44` of `codequery-mcp` says "The daemon tracks file changes, so results
  stay fresh";
* a server that waits in silence for an answer of its own holds a request for ever
  (`server.rs:295`), and one that does not read holds a write: these are the cases
  that `RequestsEnd`, and `QueryEnds` for a one-shot query, leave out;
* a handshake that fails drops the handle and leaves the process (`Start`).

Cascade and MCP:

* overlapping commands, or a daemon that is slower than the polling, make two
  daemons of one project, of which the info file names the last (`calm = FALSE`);
* a daemon answers at once while its server is still indexing, and an empty
  answer of a daemon, unlike one of a one-shot server, ends the cascade;
* the cascade sends the daemon a relative path of the symbol's file, which the
  daemon resolves against its own working directory (`daemon.rs:304`);
* `cq-mcp` does not wait for the daemon it starts, so its first call may start
  another; a session that ends stops a daemon that other sessions use; and its
  stop finds none while one is starting.

Scans:

* a new file is not noticed by `is_valid` (`cache.rs:277`), nor a second save within
  a second (`mtime` is in seconds);
* a file saved between its parsing and `build_cache_entries` is stored with its
  old symbols under its new key (`StampFile`), and one saved between `is_valid` and
  `rebuild_from_cache` is returned with its old symbols and its new text
  (`RebuildFile`).

Grammar packages:

* an automatic install that is killed before tar leaves an empty directory, which
  `cq grammar install` calls already installed;
* an update removes before it downloads; when the download or the tar fails it goes on,
  prints "Update complete" and returns success with the package gone (`lost`;
  `grammar.rs:348`), although `grammar.rs:309` says "Returns an error if installation
  of any package fails". `install --all` treats failures the same way
  (`grammar.rs:277`);
* `run_install` reports success of a package without `grammar.wasm`;
* a removal that fails half-way leaves a directory that `cq grammar install` calls
  already installed;
* a torn `grammar.wasm` stays, for nothing looks beyond its being there;
* `parser.rs:145` checks and then marks, so two threads may both download; the
  one that fails removes what the other has unpacked, and tars of two releases
  mix; a thread that finds the mark set fails while the first is still at it.

Queries and rename:

* stack graphs answer with one reference for each pair of a use and a definition
  (`resolve.rs:193`), and a server may name a place twice; `refs.rs:152` keeps them
  all, so such a use is listed several times;
* the filter of step 5b of `refs` is undone by the merge of 6b, which adds the
  dropped places again as syntactic ones;
* a daemon's places are absolute paths, so they are listed a second time with the
  relative ones;
* `callers` keeps every semantic or resolved reference and calls it a call;
* `rename` writes nothing without `--apply`, for its resolution is always
  syntactic; a definition's column is where the line first has the name's letters
  (`FindsItself` is the condition); values and paths are not renamed; carriage
  returns and an empty last line are lost; files are read again and edited
  without a look at whether they have changed; a file that fails leaves the
  others written;
* `dead` lists constants and functions that are only used as values.

### Bounds and why they are enough

* Two projects, daemons and ports are what it takes for a port to pass from one
  project's daemon to the other's, and for two daemons to share an info file.
  One client meets a stale file it has read itself; `daemon_live` has two, one
  of which waits behind the other. A client runs any number of commands.
  A daemon runs once: a restart is another daemon.
* `MaxId` = 3 allows initialize, two queries and, with the next id, shutdown: a
  late response to the first query arrives during the second. Pipes of two
  messages fill. The server's own requests bear the id of the first query.
* In `one_shot` five messages are two phases, one of which is announced with a
  token, that overlap or follow each other; seven ticks are a grace period, two
  drains and the timeout of the whole wait reached in either loop.
* Three servers are a server, its replacement and one of another language. In
  `server_pool` the clock reaches 3 and the idle timeout is 1: a server is
  evicted, or used again and then left idle.
* In `mcp` two starters are the daemon the session starts and one a command
  starts, or two that race. One poll tells apart a daemon that is up in time, one
  that is late and none. The two inputs hold each kind of line but the empty one,
  which is no answer like a notification.
* In `scan` one file meets every interleaving of two invocations, in whose scope it
  is or is not; a second that passes and one that does not are what `mtime` tells
  apart, and two texts of one length what the size does not. Files meet only in the
  loops over entries, in scopes and in what is left out: `scan_scope` has two, and
  a third text, which is shorter.
* In `grammar` two threads of one process race for the mark, and one invocation
  of `cq grammar` works beside them; two files are one that is written and one
  that is not yet.
* In `commands` a server names each place once or twice, and a use has definitions
  in any of the files or in one that is not known. The nine lines have each role, a
  name that begins another, one that begins a keyword, and two edits on one line.
  Three functions have every call graph, with cycles and with one function on two
  ways; `Depth` 3 cuts some chains.
* `CHECK_DEADLOCK FALSE` is set where the system may stop: a session or a query is
  over, every command and operation is done, a daemon has shut down, no file
  changes any more before the clock's bound.
* Symmetry is used for safety only.

### Fairness

* `daemon_live`: every daemon takes its steps and every client that has begun a
  command goes on with it. Each is a process the system schedules. Nobody has to
  begin a command, to send a signal, or to be interrupted.
* `lsp_session`: the client's thread runs and time passes. The server need do
  nothing at all, and `RequestsEnd` names what this leads to.
* `one_shot`: the client's thread and the clock go on, and an honest server with its
  work, which is what `honest` means. The handshake need not return (its requests
  are those of `lsp_session`), nor the server say anything: `QueryEnds` is about
  every server that does not live on in silence.
* `server_pool`: the daemon's thread goes on, which assumes that every call into a
  server returns. The code guarantees it of servers that speak, read or die; a server
  that is silent holds the daemon's one thread, and then nothing of the pool
  moves. Servers need not die and the clock need not move.
* `mcp`: commands, daemons that are starting and sessions that have something to
  do are scheduled. No daemon need ever come up or answer.
* `grammar`: every operation goes on until it ends or is killed.

## 4. Proofs

All for any constants that satisfy the modules' named assumptions, which TLC
evaluates in every run: `None` is not a value of anything else, bounds are
natural numbers (`MaxId`, `MaxText` and `Drain` are positive), sizes are given
for every text.

* **`TypeCorrect`** (`DaemonServiceProofs`). `TypeOK` alone is not inductive:
  that `dport[d]` is a port while `d` is alive, or that `proj[c]` is a project
  outside `idle`, depends on the control point. `Shape` adds what each record
  holds at each point, and is.
* **`RequestsStayInProject`, `AnswersStayInProject`, `InfoIsTruthful`,
  `CleanExitIsFinal`** (`DaemonServiceProofs`). One invariant carries the four: a
  token anybody holds (an info file, a client that has read one, a connection)
  was written by the daemon it names, of that project; and a connection that has
  passed authentication carried the token of the daemon that serves it. A port
  may go from one project to another; the token does not.
* **`StopIsTrue`** (`DaemonServiceProofs`). `StopInv` follows a connection: while it is
  queued its command has said who it is and has heard nothing (`Queued`), and has
  no second connection there; while it is served the two are at matching points
  of `handle_connection` and `DaemonClient` (`Attended`). So what a command that
  asked to stop hears after `AuthOk` is the answer to its stop.
* **`SessionTypeCorrect`, `NoProcessLeft`, `ResponsesMatch`,
  `OpenedOnceBeforeAsked`, `HandshakeInOrder`** (`LspProofs`). `SessionInv` has the
  types with what the control points add. For the responses: an id in a pipe or
  still to be answered was drawn, and for one call only; the call's own is
  answered for the call's document. For the documents: what is on its way to the
  server, and what it knows, is what `opened` says. For the handshake: before the
  session has come about the pipe holds `initialize` at most (`Before`), and from
  then on the order is kept (`ThenOn`). `ResponsesMatch` assumes nothing of the
  ids the server gives its own requests.
* **`OneShotTypeCorrect`, `NoServerStays`, `WaitsForIndex`, `TokensAreGranted`**
  (`OneShotProofs`). `Informed`: what cq believes is active, changed by the
  messages on their way, is what the server is at (`Leads`, a history of the
  pipe); so with nothing on its way cq's belief is right. `Timed`: how long an
  honest server can have been silent at each point of the two loops. At the
  moment the grace period or a drain is over it has been silent so long that it
  must have been through. `TokensAreGranted` is about every server, honest or not:
  what it waits for is still in the pipe (`Pending`), or has been granted.
* **`ScanTypeCorrect`, `UncachedScansAreCurrent`** (`ScanCacheProofs`). `Shape`:
  what is still to be looked at lies in the scope, has an entry, or has a result,
  point by point. `SawShape`: what a file is now is among what every running scan
  has seen. `ReadsOnce`: each file of the scope is still to be read or has been
  read as it was. Nothing is assumed of how files change.
* **`ScansKeepTheirPromise`** (`ScanCacheProofs`). `ScanCache` implements `FreshScan`,
  however files are saved, created and deleted, caches torn, overwritten and
  cleared, and invocations killed. `KeepsFreshScan` holds because of `CacheInv`: of
  every file that is not `Missed`, an entry on disk or in somebody's hands is of an
  earlier second than the file's, or has the file's symbols (`GoodEntry`), and a cache
  without an entry is one of a missing file (`GoodCache`). An entry is stamped good
  since the file is as it was read (`Careful` at `stamp`); it stays good since a file
  that is saved gets a later `mtime` than the cache knows, or else was saved unseen.
  What a scan has validated or read it has seen (`Witnessed`, `HasRead`). Each
  disjunct of `unseen`, and `leftOut`, is needed: without it the promise is broken. A
  step that returns maps to `Return`, a kill to `Abandon`, a save to `Change`, a
  clearing that forgets to `Forget`, every other step of a scan to a stutter.
* **`PoolTypeCorrect`, `NoServerIsLost`, `ShutdownEndsServers`**
  (`ServerPoolProofs`). `PoolInv` says of each control point what
  `get_or_start_server` and the loops over collected keys rely on: while a server
  is started its language has no entry, the keys still to be evicted have one, and
  those still to be drained are all there are. Every entry names a process of its
  own language (`Entries`), so that ending one ends no other's, and a running
  process is in the pool or being started (`Kept`).
* **`McpTypeCorrect`, `OneDaemon`, `SessionEndsDaemon`, `CascadeIsTiered`**
  (`McpProofs`). `StepsOfCascade`: seen from the cascade, every step of a session is
  one of its own or none. For the daemons, `CalmInv`: a daemon that is up is the one
  the info file names (`Announced`), at most one command is under way and one daemon
  starting, and only a command that polls has a daemon starting beside it
  (`InTurn`), and daemons are started where none is up (`SpawnsForNone`). For the
  refinement, `AnswerInv`: a command in mode `off` is at the last tier, and one that
  has an answer is done. That the last tier has an answer where the scan knows a use
  is `Graph`'s guard (`resolve_internal` falls back on the uses); where it knows
  none, the refinement allows an empty one. A step of the cascade maps to `Fail`, to
  `Answer` or to a stutter.
* **`PackagesTypeCorrect`, `PackagesStayWhole`, `ReportsTrue`**
  (`GrammarProofs`). `TypeInv` holds in every regime. In the quiet one there is one
  actor at work, and `QuietInv` says what it has made of the package at each of its
  points (`AtPoint`): what tar has written, what is still to come, and that
  whatever ends an operation has either completed the package or removed it, or has
  failed to remove it and left the regime. `ReportsTrue` has the release that was
  asked for from `Wanted`, and has of a lost package that nothing of it is left.
* **`EveryRequestAnswered`** (`McpProofs`). `InSession`: a session's replies are
  those to the lines it has taken (`Answered`), but for the call it is at, which
  has none yet. `AnswersOne` is the arithmetic of it: one more line that is
  answered is one more reply, at the end, and a notification is none.
* **`NoUseIsLost`** (`CommandsProofs`). `NothingLost` is shown of what `RefsAnswer`
  and `CallersAnswer` make of any answer of the cascade (`MergeCovers`), whatever
  places it has and however often, and a step that leaves the project keeps it.
* **`RenameIsTyped`, `RenamesOrNot`** (`CommandsProofs`). First the text: the words
  before a place and those behind it are the same letters before and after one word
  is replaced (`AroundWord`, by induction along the line), so that replacing the
  letters at its column is replacing the word (`ReplaceWord`), and columns grow
  along a line (`ColumnsGrow`). Then the edits of a file: no two are at one place
  (`EditsApart`), the next one is behind none that is still to come (`LastOfEdits`),
  and so a word before it stands where it stood when the edit was planned; by
  induction over the sets of edits (`AppliedIn`) all of them together rename just
  their words (`AppliedRenames`). `RenameInv` takes this through the steps: a file is
  as it was until its turn and rewritten from then on, and one that could not be
  written is torn. `RenamesOrNot` has the condition of the property, `FindsItself`;
  without it TLC shows a definition's edit at the wrong letters. `RenameIsTyped` has no
  condition. The assumptions are that projects are sequences of files, lines and
  words that are not empty, and that the new name is made of letters; it may be
  empty, as long as any or contain the old one.
* **`ChainsShowTheWays`** (`CommandsProofs`). `ChainsAreTheWays` speaks of trees that
  begin with nothing visited. `WaysFrom` generalises it to any visited names: a way
  ends at one of these too. Looking at a name takes every way from its callers one
  call further (`ShiftWay`, `WaysGoOn`), and a name that ends its way has only itself
  (`WayEnds`, `WayAlone`). A node has the ways from its name and leaves visited as it
  was (`NodeIs`, by induction over the sets of its calls, `FoldIs`), and so has
  the tree (`TreeIs`, by induction over the calls left). The one assumption beyond
  those on projects is that the depth is a natural number.

The induction theorems of the library take an operator, which the provers here
cannot instantiate. `CommandsProofs` does its inductions over sets of numbers
instead, from the well-foundedness of `<` (`Induction`): over the words of a line,
over the sizes of the sets of edits and of calls, and over the depth of a chain.

Only model-checked: the liveness properties (`CommandsReturn`,
`SignalledDaemonsEnd`, `RequestsEnd`, `IdleServersGo`, `CallsAreAnswered`,
`QueryEnds`, `OperationsEnd`), which are beyond the prover. Every other property of a
passing run is stated by a theorem. The properties of the runs marked violated are
not theorems, of course.

## 5. Not modelled

The implementation is large, and most of it is code whose state is a syntax tree
or a string on its way through one function: `output.rs` and `args.rs`, the
extractors and import rules of some twenty languages, stack-graph rules, vendored
forks. A model of it would repeat it word for word and have nothing to say that a
unit test does not. In particular:

* Parsing and extraction, language by language: `Sources` takes roles as given,
  and has what `codequery-parse` makes of Rust's references only. Macro bodies,
  the generic references of other languages and the type hierarchy are left out.
* Stack graphs: built and searched in vendored libraries; `Queries` takes any set
  of pairs of a use and its definition's file as their result.
* Commands that print one lookup or one walk of a tree (`outline`, `body`,
  `symbols`, `imports`, `search`, ...), and output. `def` disambiguates with a
  language server but always takes the first candidate that matches a location.
* Discovery, the project's root and configuration: lookups, one after the other,
  of files nobody writes meanwhile; the directory walk is the `ignore` crate's, and
  `ScanCache` has its result at one moment.
* How a scope is spelled on the command line and compared with stored paths
  (`scanner.rs:165`).
* Framing of messages (headers, chunked reads), JSON, the network, wasm loading and
  its cache of compiled modules, `cq upgrade`, packaging scripts.
* Data races: the crates have no unsafe shared state of their own; rayon's workers
  write to separate results.

## 6. Plan

What is left, the most useful first:

1. Path spelling as an algorithm: scopes, the cache's keys and the daemon's
   relative and absolute paths against a reference definition of a path.
2. A file that changes between the scan of a rename and its writing: `Commands`
   beside an editor.
3. The compiled-module cache of `wasm_loader.rs` beside an update of the package.
4. Discovery and precedence of settings as operators against reference
   definitions.
5. Several clients and servers in one composition of `DaemonService`, `ServerPool`
   and `LspSession`, in place of the assumptions they make of one another.
