------------------------------- MODULE ScanCache -------------------------------
(***************************************************************************)
(* scan_project and scan_project_cached (scanner.rs) with the cache file of *)
(* a project (cache.rs).  Invocations of cq scan side by side, with and      *)
(* without --cache, while files are saved, created and deleted, caches are   *)
(* cleared and invocations killed.                                          *)
(*                                                                          *)
(* A file's symbols are a function of its text, so a text stands for them;   *)
(* files are read one at a time and in any order, as rayon's workers do.     *)
(***************************************************************************)
EXTENDS Naturals

CONSTANTS Files,
          Texts,       \* contents of a file
          Size,        \* Size[t]: the length of t
          Scopes,      \* scopes asked for (--in); Files is the whole project
          Procs,       \* invocations of cq
          MaxTime,     \* bound: the clock, in seconds, stops here
          None,        \* no file, no entry, no cache
          Torn         \* the contents of a cache file nobody can deserialize

ASSUME ScanAssumption ==
    /\ Size \in [Texts -> Nat]
    /\ Scopes \subseteq SUBSET Files
    /\ MaxTime \in Nat
    /\ None \notin Texts

File    == [text : Texts, mtime : 0..MaxTime]
Entry   == [mtime : 0..MaxTime, size : Nat, symbols : Texts]   \* CachedFile
Symbols == [symbols : Texts, source : Texts]                   \* FileSymbols
Entries == [Files -> Entry \cup {None}]
NoFiles == [f \in Files |-> None]

ASSUME NoneIsNothing ==
    /\ None \notin File \cup Entry \cup Symbols \cup [Files -> Texts \cup {None}]
    /\ None \notin Entries /\ Torn \notin Entries /\ Torn # None

VARIABLES
    disk,     \* disk[f]: the file, or None
    now,      \* in seconds, as the cache keeps it
    cache,    \* the cache file: None, Torn or entries
    pc,
    cached,   \* cached[p]: p runs with --cache
    scope,    \* scope[p]: the files p asks about
    entries,  \* entries[p]: the entries p has loaded, or builds
    todo,     \* todo[p]: the files p has still to look at
    result,   \* result[p]: the FileSymbols of p
    linked,   \* p has the cache file open, and it has not been removed since
    saw,      \* saw[p][f]: the texts of f while p was running
    unseen,   \* files saved in a way that an entry of them does not tell
    leftOut   \* files outside the scope of a scan that has been stored

procVars == <<pc, cached, scope, entries, todo, result>>
blind == <<unseen, leftOut>>
vars == <<disk, now, cache, procVars, linked, saw, blind>>

PCs == {"idle", "load", "validate", "rebuild", "discover", "scan", "stamp",
        "create", "write", "done"}

\* Each variable holds what the code's types hold; a scan returns files of its
\* scope only.
ScanTypeOK ==
    /\ disk \in [Files -> File \cup {None}]
    /\ now \in 0..MaxTime
    /\ cache \in Entries \cup {None, Torn}
    /\ pc \in [Procs -> PCs] /\ cached \in [Procs -> BOOLEAN]
    /\ scope \in [Procs -> SUBSET Files] /\ todo \in [Procs -> SUBSET Files]
    /\ entries \in [Procs -> Entries]
    /\ result \in [Procs -> [Files -> Symbols \cup {None}]]
    /\ linked \subseteq Procs
    /\ saw \in [Procs -> [Files -> SUBSET (Texts \cup {None})]]
    /\ unseen \subseteq Files /\ leftOut \subseteq Files
    /\ \A p \in Procs : \A f \in Files \ scope[p] : result[p][f] = None

Init ==
    /\ \E there \in SUBSET Files, t \in Texts :
          disk = [f \in Files |-> IF f \in there THEN [text |-> t, mtime |-> 0] ELSE None]
    /\ now = 0 /\ cache = None
    /\ pc = [p \in Procs |-> "idle"] /\ cached = [p \in Procs |-> FALSE]
    /\ scope = [p \in Procs |-> {}] /\ todo = [p \in Procs |-> {}]
    /\ entries = [p \in Procs |-> NoFiles] /\ result = [p \in Procs |-> NoFiles]
    /\ linked = {} /\ unseen = {} /\ leftOut = {}
    /\ saw = [p \in Procs |-> [f \in Files |-> {}]]

Running == {p \in Procs : pc[p] \notin {"idle", "done"}}
TextOf(file) == IF file = None THEN None ELSE file.text
Goto(p, to) == pc' = [pc EXCEPT ![p] = to]
Tick(p, f)  == todo' = [todo EXCEPT ![p] = @ \ {f}]

-----------------------------------------------------------------------------
(* A scan *)

\* Mutant: the cache is used with or without --cache.
BeginCached(p, s, use_cache) ==
    /\ pc[p] \in {"idle", "done"}
    /\ Goto(p, "load")
    /\ cached' = [cached EXCEPT ![p] = use_cache]
    /\ scope' = [scope EXCEPT ![p] = s]
    /\ result' = [result EXCEPT ![p] = NoFiles]
    /\ saw' = [saw EXCEPT ![p] = [f \in Files |-> {TextOf(disk[f])}]]
    /\ UNCHANGED <<disk, now, cache, entries, todo, linked, blind>>

Begin(p, s, use_cache) ==
    /\ pc[p] \in {"idle", "done"}
    /\ Goto(p, IF use_cache THEN "load" ELSE "discover")
    /\ cached' = [cached EXCEPT ![p] = use_cache]
    /\ scope' = [scope EXCEPT ![p] = s]
    /\ result' = [result EXCEPT ![p] = NoFiles]
    /\ saw' = [saw EXCEPT ![p] = [f \in Files |-> {TextOf(disk[f])}]]
    /\ UNCHANGED <<disk, now, cache, entries, todo, linked, blind>>

\* CacheStore::load
LoadHit(p) ==
    /\ pc[p] = "load" /\ cache \in Entries
    /\ entries' = [entries EXCEPT ![p] = cache]
    /\ todo' = [todo EXCEPT ![p] = {f \in Files : cache[f] # None}]
    /\ Goto(p, "validate")
    /\ UNCHANGED <<disk, now, cache, cached, scope, result, linked, saw, blind>>

\* Not there, cannot be read, or does not deserialize.
LoadMiss(p) ==
    /\ pc[p] = "load" /\ cache \notin Entries
    /\ Goto(p, "discover")
    /\ UNCHANGED <<disk, now, cache, cached, scope, entries, todo, result, linked, saw, blind>>

\* Mutant: a file that is there is taken for unchanged.
UnchangedIfThere(p, f) == disk[f] # None

\* is_valid of one entry: mtime and size are those of the file.
IsValid(p, f) ==
    /\ disk[f] # None
    /\ disk[f].mtime = entries[p][f].mtime
    /\ Size[disk[f].text] = entries[p][f].size

ValidateFile(p, f) ==
    /\ pc[p] = "validate" /\ f \in todo[p]
    /\ \/ IsValid(p, f) /\ Tick(p, f) /\ UNCHANGED <<pc, entries>>
       \/ /\ ~ IsValid(p, f)
          /\ Goto(p, "discover")
          /\ todo' = [todo EXCEPT ![p] = {}]
          /\ entries' = [entries EXCEPT ![p] = NoFiles]
    /\ UNCHANGED <<disk, now, cache, cached, scope, result, linked, saw, blind>>

\* Mutant: the scope is not looked at.
ValidatedWhole(p) ==
    /\ pc[p] = "validate" /\ todo[p] = {}
    /\ todo' = [todo EXCEPT ![p] = {f \in Files : entries[p][f] # None}]
    /\ Goto(p, "rebuild")
    /\ UNCHANGED <<disk, now, cache, cached, scope, entries, result, linked, saw, blind>>

\* The loop of is_valid is through; rebuild_from_cache filters by scope.
Validated(p) ==
    /\ pc[p] = "validate" /\ todo[p] = {}
    /\ todo' = [todo EXCEPT ![p] = {f \in scope[p] : entries[p][f] # None}]
    /\ Goto(p, "rebuild")
    /\ UNCHANGED <<disk, now, cache, cached, scope, entries, result, linked, saw, blind>>

\* parse_file reads the file; nothing comes of a file that cannot be read.
ReadInto(p, f, symbols) ==
    /\ Tick(p, f)
    /\ result' = [result EXCEPT ![p][f] =
                    IF disk[f] = None THEN None
                    ELSE [symbols |-> symbols, source |-> disk[f].text]]

\* rebuild_from_cache: the text is read again, the symbols are the entry's.
RebuildFile(p, f) ==
    /\ pc[p] = "rebuild" /\ f \in todo[p]
    /\ ReadInto(p, f, entries[p][f].symbols)
    /\ UNCHANGED <<disk, now, cache, pc, cached, scope, entries, linked, saw, blind>>

\* discover_files lists the files of the scope.
Discover(p) ==
    /\ pc[p] = "discover"
    /\ todo' = [todo EXCEPT ![p] = {f \in scope[p] : disk[f] # None}]
    /\ Goto(p, "scan")
    /\ UNCHANGED <<disk, now, cache, cached, scope, entries, result, linked, saw, blind>>

\* scan_single_file
ScanFile(p, f) ==
    /\ pc[p] = "scan" /\ f \in todo[p]
    /\ ReadInto(p, f, TextOf(disk[f]))
    /\ UNCHANGED <<disk, now, cache, pc, cached, scope, entries, linked, saw, blind>>

Returns(p) == Goto(p, "done") /\ entries' = [entries EXCEPT ![p] = NoFiles]

Rebuilt(p) ==
    /\ pc[p] = "rebuild" /\ todo[p] = {}
    /\ Returns(p)
    /\ UNCHANGED <<disk, now, cache, cached, scope, todo, result, linked, saw, blind>>

\* All files are read: the end, or build_cache_entries next.
Scanned(p) ==
    /\ pc[p] = "scan" /\ todo[p] = {}
    /\ \/ ~ cached[p] /\ Returns(p) /\ UNCHANGED todo
       \/ /\ cached[p] /\ Goto(p, "stamp")
          /\ todo' = [todo EXCEPT ![p] = {f \in Files : result[p][f] # None}]
          /\ UNCHANGED entries
    /\ UNCHANGED <<disk, now, cache, cached, scope, result, linked, saw, blind>>

-----------------------------------------------------------------------------
(* Storing *)

\* build_cache_entries asks for mtime and size now, after the parsing.
StampFile(p, f) ==
    /\ pc[p] = "stamp" /\ f \in todo[p]
    /\ Tick(p, f)
    /\ entries' = [entries EXCEPT ![p][f] =
                     IF disk[f] = None THEN None
                     ELSE [mtime |-> disk[f].mtime, size |-> Size[disk[f].text],
                           symbols |-> result[p][f].symbols]]
    /\ UNCHANGED <<disk, now, cache, pc, cached, scope, result, linked, saw, blind>>

Stamped(p) ==
    /\ pc[p] = "stamp" /\ todo[p] = {}
    /\ Goto(p, "create")
    /\ UNCHANGED <<disk, now, cache, cached, scope, entries, todo, result, linked, saw, blind>>

\* File::create empties the file, whoever else has it open.
Create(p) ==
    /\ pc[p] = "create"
    /\ cache' = Torn
    /\ linked' = linked \cup {p}
    /\ Goto(p, "write")
    /\ UNCHANGED <<disk, now, cached, scope, entries, todo, result, saw, blind>>

\* write_all; what another invocation wrote meanwhile is overwritten, and
\* what is left behind it ignored.
Write(p) ==
    /\ pc[p] = "write"
    /\ cache' = IF p \in linked THEN entries[p] ELSE cache
    /\ linked' = linked \ {p}
    /\ leftOut' = IF p \in linked THEN leftOut \cup (Files \ scope[p]) ELSE leftOut
    /\ Returns(p)
    /\ UNCHANGED <<disk, now, cached, scope, todo, result, saw, unseen>>

\* The directory or the file cannot be made: scan_project_cached ignores it.
StoreFails(p) ==
    /\ pc[p] = "create"
    /\ Returns(p)
    /\ UNCHANGED <<disk, now, cache, cached, scope, todo, result, linked, saw, blind>>

-----------------------------------------------------------------------------
(* Everybody else *)

\* clear_all_caches, or CacheStore::clear
Clear ==
    /\ cache # None
    /\ cache' = None /\ linked' = {}
    /\ IF \E p \in Running : cached[p]
          THEN UNCHANGED blind
          ELSE unseen' = {} /\ leftOut' = {}
    /\ UNCHANGED <<disk, now, procVars, saw>>

\* The user's interrupt, or an error of discover_files, ends the command.
Kill(p) ==
    /\ p \in Running
    /\ Goto(p, "idle")
    /\ linked' = linked \ {p}
    /\ entries' = [entries EXCEPT ![p] = NoFiles]
    /\ todo' = [todo EXCEPT ![p] = {}]
    /\ result' = [result EXCEPT ![p] = NoFiles]
    /\ UNCHANGED <<disk, now, cache, cached, scope, saw, blind>>

Change(f, file) ==
    /\ disk' = [disk EXCEPT ![f] = file]
    /\ saw' = [p \in Procs |->
                 IF p \in Running THEN [saw[p] EXCEPT ![f] = @ \cup {TextOf(file)}]
                                  ELSE saw[p]]
    /\ UNCHANGED <<now, cache, procVars, linked, leftOut>>

\* Something about f is in the cache, or on its way there.
Remembered(f) ==
    \/ cache \in Entries
    \/ \E p \in Running : cached[p] /\ \/ pc[p] \in {"validate", "stamp", "create", "write"}
                                       \/ pc[p] = "scan" /\ f \notin todo[p]

\* p has read f and does not know its mtime and size yet.
Overlooks(p, f) ==
    cached[p] /\ \/ pc[p] = "scan"  /\ f \in scope[p] \ todo[p]
                 \/ pc[p] = "stamp" /\ f \in todo[p]

\* What no entry tells: a new file, a second save within a second (mtime is in
\* seconds), and one between scan_single_file and build_cache_entries.
Save(f, t) ==
    /\ Change(f, [text |-> t, mtime |-> now])
    /\ unseen' =
          IF /\ Remembered(f)
             /\ \/ disk[f] = None
                \/ disk[f].mtime = now
                \/ \E p \in Procs : Overlooks(p, f)
          THEN unseen \cup {f} ELSE unseen

Delete(f) ==
    /\ disk[f] # None
    /\ Change(f, None)
    /\ UNCHANGED unseen

Second ==
    /\ now < MaxTime
    /\ now' = now + 1
    /\ UNCHANGED <<disk, cache, procVars, linked, saw, blind>>

ScanStep(p) ==
    \/ LoadHit(p) \/ LoadMiss(p) \/ Validated(p) \/ Rebuilt(p)
    \/ Discover(p) \/ Scanned(p) \/ Stamped(p) \/ Create(p) \/ Write(p) \/ StoreFails(p)
    \/ \E f \in Files : ValidateFile(p, f) \/ RebuildFile(p, f) \/ ScanFile(p, f) \/ StampFile(p, f)

Next ==
    \/ \E p \in Procs : ScanStep(p) \/ Kill(p)
                        \/ \E s \in Scopes, c \in BOOLEAN : Begin(p, s, c)
    \/ \E f \in Files : Delete(f) \/ \E t \in Texts : Save(f, t)
    \/ Clear \/ Second

Spec == Init /\ [][Next]_vars

-----------------------------------------------------------------------------
(* Correctness *)

SymbolsOf(r) == IF r = None THEN None ELSE r.symbols

Fresh == INSTANCE FreshScan WITH
    texts   <- [f \in Files |-> TextOf(disk[f])],
    running <- Running,
    trusts  <- cached,
    missed  <- unseen \cup leftOut,
    out     <- [p \in Procs |->
                  IF pc[p] = "done" THEN [f \in Files |-> SymbolsOf(result[p][f])] ELSE None]

\* Scans keep FreshScan's promise, with the cache or without it, whatever is
\* saved, torn, overwritten, cleared or killed, and when.  A scan with --cache may
\* be wrong of nothing but the files saved unseen or left out of a scan that was
\* stored, until the cache is cleared (is_valid, build_cache_entries, store).
KeepsFreshScan == Fresh!Spec

\* A scan without --cache is current whatever happens beside it (scan_project).
UncachedIsCurrent ==
    \A p \in Procs : ~ cached[p] =>
        /\ pc[p] = "done" => \A f \in scope[p] : SymbolsOf(result[p][f]) \in saw[p][f]
        /\ \A f \in Files : result[p][f] # None =>
              result[p][f].symbols = result[p][f].source

-----------------------------------------------------------------------------
(* What comments and documents say *)

\* cache.rs:278: "Check whether the cached data is still valid against the
\* current filesystem state".  So what a cached scan returns of the files whose
\* saving an entry tells is current (rebuild_from_cache).
CachedIsCurrent ==
    [][\A p \in Procs : cached[p] /\ pc[p] # "done" /\ pc'[p] = "done" =>
          \A f \in scope[p] \ unseen : SymbolsOf(result'[p][f]) \in saw[p][f]]_vars
=============================================================================
