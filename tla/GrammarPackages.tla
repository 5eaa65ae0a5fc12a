--------------------------- MODULE GrammarPackages ---------------------------
(***************************************************************************)
(* One language's package under ~/.local/share/cq/languages: `cq grammar    *)
(* install | update | remove` (grammar.rs) beside parsers that load it and, *)
(* when it is missing, install it on the way (parser.rs, wasm_loader.rs).   *)
(*                                                                          *)
(* A package is a directory of files that tar writes one after the other.   *)
(* Nobody locks it: every step looks at what the name denotes by then.  The *)
(* other languages' packages are separate directories.                      *)
(***************************************************************************)
EXTENDS Naturals, FiniteSets

CONSTANTS Threads,   \* parser threads, each looks for the grammar once
          Procs,     \* processes the threads belong to
          ProcOf,    \* ProcOf[t]: the process of thread t
          Tools,     \* invocations of `cq grammar`
          Baked, New,   \* the release this build names, and a later one
          None       \* no value

Actors   == Threads \cup Tools
Files    == {"wasm", "rules"}      \* grammar.wasm, and extract.toml and the like
Releases == {Baked, New}
Whole(r, id) == [id |-> id, files |-> [f \in Files |-> r]]

\* "lost": an update that removed the old package and could not install the new.
Results == {"none", "failed", "installed", "already", "removed", "updated", "absent", "lost",
            "error"}

ASSUME PackagesAssumption ==
    /\ ProcOf \in [Threads -> Procs]
    /\ Threads \cap Tools = {}
    /\ (Releases \cup {None}) \cap (Actors \cup Results) = {}
    /\ None \notin Releases

VARIABLES
    registry,  \* the cached registry: missing, torn or refreshed
    pkg,       \* the directory, or None: who made it, and its files; a file is
               \* a release's, or being written by an actor, or missing
    attempted, \* AUTO_INSTALL_ATTEMPTED, of each process
    regime,    \* how actors meet: one after the other (quiet, or littered once a
               \* directory could not be removed), the same but some are
               \* killed, or all at once (wild)
    pc, op,
    asked,     \* asked[a]: the release --tag names, if it was given
    got,       \* got[a]: the release a has downloaded
    base,      \* base[a]: the directory a's tar, or its removal, has opened
    todo, cur, \* files tar has still to write, and the one it is writing
    result

diskVars  == <<registry, pkg, attempted>>
actorVars == <<pc, op, asked, got, base, todo, cur, result>>
vars      == <<diskVars, regime, actorVars>>

Package == [id : Actors \cup {Baked}, files : [Files -> Releases \cup Actors \cup {None}]]

ASSUME NoneIsNoPackage == None \notin Package

Ops     == {"parse", "install", "update", "remove"}
PCs     == {"idle", "find", "load", "check", "mark", "mkdir", "download", "tar",
            "create", "fill", "verify", "exists", "refresh", "open", "rm", "done", "killed"}

\* The values the control flow lets each variable hold.
PackagesTypeOK ==
    /\ registry \in {"missing", "torn", "fresh"}
    /\ pkg \in Package \cup {None}
    /\ attempted \subseteq Procs
    /\ regime \in {"quiet", "littered", "killing", "wild"}
    /\ pc \in [Actors -> PCs] /\ op \in [Actors -> Ops \cup {None}]
    /\ asked \in [Actors -> Releases \cup {None}]
    /\ got \in [Actors -> Releases \cup {None}]
    /\ base \in [Actors -> Actors \cup {Baked, None}]
    /\ todo \in [Actors -> SUBSET Files] /\ cur \in [Actors -> Files \cup {None}]
    /\ result \in [Actors -> Results \cup Releases \cup {None}]
    /\ \A a \in Actors : pc[a] = "fill" => cur[a] \in todo[a]

Init ==
    /\ registry = "missing"
    /\ pkg \in {None, Whole(Baked, Baked)}
    /\ attempted = {}
    /\ regime \in {"quiet", "killing", "wild"}
    /\ pc     = [a \in Actors |-> "idle"]
    /\ op     = [a \in Actors |-> None]
    /\ asked  = [a \in Actors |-> None]
    /\ got    = [a \in Actors |-> None]
    /\ base   = [a \in Actors |-> None]
    /\ todo   = [a \in Actors |-> {}]
    /\ cur    = [a \in Actors |-> None]
    /\ result = [a \in Actors |-> None]

Busy == {a \in Actors : pc[a] \notin {"idle", "done", "killed"}}

\* Where the control of a goes, and where it ends.
Goto(a, to) == pc' = [pc EXCEPT ![a] = to] /\ UNCHANGED result
Go(a, to) == Goto(a, to) /\ UNCHANGED <<got, base>>
End(a, r) ==
    /\ pc' = [pc EXCEPT ![a] = "done"]
    /\ result' = [result EXCEPT ![a] = r]
    /\ got' = [got EXCEPT ![a] = None] /\ base' = [base EXCEPT ![a] = None]

Begin(a) ==
    /\ pc[a] = "idle"
    /\ regime = "wild" \/ Busy = {}
    /\ \E o \in IF a \in Threads THEN {"parse"} ELSE Ops \ {"parse"},
          r \in Releases \cup {None} :
          /\ r # None => o = "install"
          /\ op' = [op EXCEPT ![a] = o] /\ asked' = [asked EXCEPT ![a] = r]
          /\ Go(a, CASE o = "parse" -> "find"
                     [] o = "update" -> "refresh"
                     [] o \in {"install", "remove"} -> "exists")
    /\ UNCHANGED <<diskVars, regime, todo, cur>>

-----------------------------------------------------------------------------
(* Parser::from_runtime_or_wasm and auto_install_grammar *)

HasWasm == pkg # None /\ pkg.files["wasm"] # None

\* find_wasm_grammar: the file is there, whatever is in it.  A second look,
\* after an installation of its own, gives up if it is not.
Find(a) ==
    /\ pc[a] = "find"
    /\ \/ HasWasm /\ Go(a, "load")
       \/ ~ HasWasm /\ got[a] = None /\ Go(a, "check")
       \/ ~ HasWasm /\ got[a] # None /\ End(a, "none")
    /\ UNCHANGED <<diskVars, regime, op, asked, todo, cur>>

\* load_wasm_language_cached: a missing or unfinished file is an error.
Load(a) ==
    /\ pc[a] = "load"
    /\ End(a, IF HasWasm /\ pkg.files["wasm"] \in Releases
                THEN pkg.files["wasm"] ELSE "error")
    /\ UNCHANGED <<diskVars, regime, op, asked, todo, cur>>

\* Has this process tried before?  The lock is released after the look.
CheckAttempted(a) ==
    /\ pc[a] = "check"
    /\ IF ProcOf[a] \in attempted THEN End(a, "none") ELSE Go(a, "mark")
    /\ UNCHANGED <<diskVars, regime, op, asked, todo, cur>>

MarkAttempted(a) ==
    /\ pc[a] = "mark"
    /\ attempted' = attempted \cup {ProcOf[a]}
    /\ Go(a, "mkdir")
    /\ UNCHANGED <<registry, pkg, regime, op, asked, todo, cur>>

-----------------------------------------------------------------------------
(* run_install: look, download, create, extract *)

\* load_registry: a cached registry that does not parse is passed over.
Tag == IF registry = "fresh" THEN New ELSE Baked

\* The release an operation is to install: a parser its own, an installation
\* the one --tag names or the registry's, an update the registry's.
Wanted(a) ==
    CASE op[a] = "parse" -> Baked
      [] op[a] # "parse" /\ asked[a] # None -> asked[a]
      [] op[a] # "parse" /\ asked[a] = None -> Tag

\* The directory is the package, to install and to remove.
Exists(a) ==
    /\ pc[a] = "exists"
    /\ CASE pkg # None /\ op[a] = "remove" -> Go(a, "open")
         [] pkg = None /\ op[a] = "remove" -> End(a, "already")
         [] pkg # None /\ op[a] # "remove" -> End(a, "already")
         [] pkg = None /\ op[a] # "remove" -> Go(a, "download")
    /\ UNCHANGED <<diskVars, regime, op, asked, todo, cur>>

\* What a failed download leaves: an installation has created nothing yet, a
\* parser removes the directory it made sure of.
DownloadFails(a) ==
    IF op[a] = "parse" THEN Go(a, "open")
    ELSE End(a, IF op[a] = "update" THEN "lost" ELSE "failed")

\* Mutant: --tag is not looked at.
DownloadIgnoresTag(a) ==
    /\ pc[a] = "download"
    /\ \/ /\ got' = [got EXCEPT ![a] = IF op[a] = "parse" THEN Baked ELSE Tag]
          /\ Goto(a, IF op[a] = "parse" THEN "tar" ELSE "mkdir") /\ UNCHANGED base
       \/ DownloadFails(a)
    /\ UNCHANGED <<diskVars, regime, op, asked, todo, cur>>

\* curl downloads the archive, or fails.
Download(a) ==
    /\ pc[a] = "download"
    /\ \/ /\ got' = [got EXCEPT ![a] = Wanted(a)]
          /\ Goto(a, IF op[a] = "parse" THEN "tar" ELSE "mkdir") /\ UNCHANGED base
       \/ DownloadFails(a)
    /\ UNCHANGED <<diskVars, regime, op, asked, todo, cur>>

\* create_dir_all, which is content with a directory that is there; or it
\* cannot be created.
MakeDir(a) ==
    /\ pc[a] = "mkdir"
    /\ \/ /\ pkg' = IF pkg # None THEN pkg ELSE Whole(None, a)
          /\ Go(a, IF op[a] = "parse" THEN "download" ELSE "tar")
       \/ /\ End(a, IF op[a] = "parse" THEN "none" ELSE "error")
          /\ UNCHANGED pkg
    /\ UNCHANGED <<registry, attempted, regime, op, asked, todo, cur>>

\* tar starts in the directory, which may be gone, or cannot be started.
StartTar(a) ==
    /\ pc[a] = "tar"
    /\ \/ /\ pkg # None
          /\ base' = [base EXCEPT ![a] = pkg.id]
          /\ todo' = [todo EXCEPT ![a] = Files]
          /\ Goto(a, "create") /\ UNCHANGED got
       \/ Go(a, "open") /\ UNCHANGED todo
    /\ UNCHANGED <<diskVars, regime, op, asked, cur>>

\* Is the directory a has opened still the one of that name?
Same(a) == pkg # None /\ pkg.id = base[a]

\* Mutant: a file is done with before it is written.
CreateIsEnough(a) ==
    /\ pc[a] = "create" /\ Same(a)
    /\ \E f \in todo[a] :
          /\ pkg' = [pkg EXCEPT !.files[f] = a]
          /\ cur' = [cur EXCEPT ![a] = f]
          /\ todo' = [todo EXCEPT ![a] = @ \ {f}]
    /\ Go(a, "fill")
    /\ UNCHANGED <<registry, attempted, regime, op, asked>>

\* tar unlinks the file it is about to write, and creates it.
CreateFile(a) ==
    /\ pc[a] = "create" /\ Same(a)
    /\ \E f \in todo[a] :
          /\ pkg' = [pkg EXCEPT !.files[f] = a]
          /\ cur' = [cur EXCEPT ![a] = f]
    /\ Go(a, "fill")
    /\ UNCHANGED <<registry, attempted, regime, op, asked, todo>>

\* The file is whole, if it is still the one a has created.
FillFile(a) ==
    LET f == cur[a] IN
    /\ pc[a] = "fill"
    /\ pkg' = IF Same(a) /\ pkg.files[f] = a
                THEN [pkg EXCEPT !.files[f] = got[a]] ELSE pkg
    /\ todo' = [todo EXCEPT ![a] = @ \ {f}]
    /\ cur' = [cur EXCEPT ![a] = None]
    /\ Go(a, IF todo[a] = {f} THEN "verify" ELSE "create")
    /\ UNCHANGED <<registry, attempted, regime, op, asked>>

\* Mutant: what tar has written so far stays.
TarLeavesFiles(a) ==
    /\ pc[a] \in {"create", "fill"}
    /\ End(a, "failed")
    /\ todo' = [todo EXCEPT ![a] = {}] /\ cur' = [cur EXCEPT ![a] = None]
    /\ UNCHANGED <<diskVars, regime, op, asked>>

\* A full disk, or a directory that is gone: tar fails.
TarFails(a) ==
    /\ pc[a] \in {"create", "fill"}
    /\ Go(a, "open")
    /\ todo' = [todo EXCEPT ![a] = {}] /\ cur' = [cur EXCEPT ![a] = None]
    /\ UNCHANGED <<diskVars, regime, op, asked>>

\* tar is content.  A parser has a look at grammar.wasm, of which a part may
\* do or not; an installation only reports what it finds.
Verify(a) ==
    /\ pc[a] = "verify"
    /\ \/ op[a] = "install" /\ End(a, "installed")
       \/ op[a] = "update" /\ End(a, "updated")
       \/ op[a] = "parse" /\ HasWasm /\ Go(a, "find")
       \/ /\ op[a] = "parse" /\ ~ (HasWasm /\ pkg.files["wasm"] \in Releases)
          /\ Go(a, "open")
    /\ UNCHANGED <<diskVars, regime, op, asked, todo, cur>>

-----------------------------------------------------------------------------
(* remove_dir_all: to remove, to update, and to clean up after a failure *)

\* An update has not downloaded anything when it removes the old package.
ToReplace(a) == op[a] = "update" /\ got[a] = None

\* Where a removal goes on, and what is left to say when it failed.
Removed(a) ==
    CASE op[a] = "remove" -> End(a, "removed")
      [] ToReplace(a)     -> Go(a, "exists")
      [] op[a] = "parse"  -> End(a, "none")
      [] op[a] = "install" -> End(a, "failed")
      [] op[a] = "update" /\ ~ ToReplace(a) -> End(a, "lost")
\* Mutant: a directory that is not empty is removed again.
RemoveAgain(a) == Go(a, "open")
NotRemoved(a) ==
    IF op[a] = "remove" \/ ToReplace(a) THEN End(a, "error") ELSE Removed(a)

OpenDir(a) ==
    /\ pc[a] = "open"
    /\ \/ pkg = None /\ Removed(a)
       \/ /\ pkg # None
          /\ base' = [base EXCEPT ![a] = pkg.id]
          /\ Goto(a, "rm") /\ UNCHANGED got
    /\ UNCHANGED <<diskVars, regime, op, asked, todo, cur>>

RemoveFile(a) ==
    /\ pc[a] = "rm" /\ Same(a)
    /\ \E f \in Files :
          /\ pkg.files[f] # None
          /\ pkg' = [pkg EXCEPT !.files[f] = None]
    /\ UNCHANGED <<registry, attempted, regime, actorVars>>

\* rmdir, of whatever has the name, as long as it is empty; or the directory or
\* a file of it cannot be removed, and what is left of it stays.
RemoveDir(a) ==
    LET empty == pkg # None /\ \A f \in Files : pkg.files[f] = None IN
    /\ pc[a] = "rm"
    /\ \/ /\ empty /\ pkg' = None /\ Removed(a)
          /\ regime' = IF regime = "littered" THEN "quiet" ELSE regime
       \/ pkg = None /\ Removed(a) /\ UNCHANGED <<pkg, regime>>
       \/ /\ pkg # None /\ NotRemoved(a) /\ UNCHANGED pkg
          /\ regime' = IF regime = "quiet" THEN "littered" ELSE regime
    /\ UNCHANGED <<registry, attempted, op, asked, todo, cur>>

\* run_update: the registry is downloaded over the cached one, wholly, in part
\* or not at all; then the package is removed and installed again, if there is
\* one (find_installed).
Refresh(a) ==
    /\ pc[a] = "refresh"
    /\ registry' \in {registry, "torn", "fresh"}
    /\ IF pkg = None THEN End(a, "absent") ELSE Go(a, "open")
    /\ UNCHANGED <<pkg, attempted, regime, op, asked, todo, cur>>

\* The process is killed, its tar with it.  Threads of a process die together.
Killed(a) ==
    LET victims == IF a \in Threads
                     THEN {t \in Threads : ProcOf[t] = ProcOf[a] /\ pc[t] # "done"}
                     ELSE {a} IN
    /\ regime = "killing" /\ a \in Busy
    /\ pc' = [v \in Actors |-> IF v \in victims THEN "killed" ELSE pc[v]]
    /\ UNCHANGED <<diskVars, regime, op, asked, got, base, todo, cur, result>>

ParserStep(a) == Find(a) \/ Load(a) \/ CheckAttempted(a) \/ MarkAttempted(a)
PackageStep(a) ==
    \/ Exists(a) \/ Download(a) \/ MakeDir(a) \/ StartTar(a) \/ CreateFile(a)
    \/ FillFile(a) \/ TarFails(a) \/ Verify(a) \/ OpenDir(a) \/ RemoveFile(a)
    \/ RemoveDir(a) \/ Refresh(a)

Next ==
    \/ \E a \in Actors : Begin(a) \/ PackageStep(a) \/ Killed(a)
    \/ \E t \in Threads : ParserStep(t)

\* Every process that runs goes on.
Fairness == \A a \in Actors : WF_vars(PackageStep(a) \/ (a \in Threads /\ ParserStep(a)))

Spec == Init /\ [][Next]_vars /\ Fairness

-----------------------------------------------------------------------------
(* Properties *)

Is(r) == pkg # None /\ \A f \in Files : pkg.files[f] = r
IsWhole == \E r \in Releases : Is(r)

\* grammar.rs and parser.rs clean up behind a failed download or tar: where
\* nothing else happens meanwhile, an operation leaves a package of one release
\* or none, whatever it found, did and failed at; unless a removal failed, and
\* then until one succeeds.
WholeOrAbsent == regime = "quiet" /\ Busy = {} => pkg = None \/ IsWhole

\* What `cq grammar` and a parser report is what they leave: a grammar that was
\* loaded is the package's; "failed" and "removed" leave nothing; "installed" leaves
\* the release that was asked for, --tag before the registry's, and "updated" the
\* registry's.  "lost" is no report of the code's: grammar.rs:309 says "Returns an
\* error if installation of any package fails", but run_update drops the exit code
\* of run_install and returns success.  It leaves nothing, and an update that could
\* install does not end so.
ReportsAreTrue ==
    [][\A a \in Actors :
         regime' = "quiet" /\ pc[a] # "done" /\ pc'[a] = "done" =>
            CASE result'[a] \in Releases -> Is(result[a])'
              [] result'[a] \in {"failed", "removed", "absent", "lost"} -> pkg' = None
              [] result'[a] = "installed" -> Is(Wanted(a))'
              [] result'[a] = "updated" -> Is(Tag)'
              [] OTHER -> TRUE]_vars

\* No operation waits for another: each ends, whoever works in its directory.
OperationsEnd == <>[](Busy = {})
=============================================================================
