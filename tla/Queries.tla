-------------------------------- MODULE Queries --------------------------------
(***************************************************************************)
(* What `cq refs`, `cq callers` and `cq dead` answer, by the steps of their  *)
(* run functions.  The answer of the resolution cascade is an input: places  *)
(* with a tier and, for a place that stack graphs resolved, the file its     *)
(* definition is in.  One place may come several times.                      *)
(***************************************************************************)
EXTENDS Sources

\* A reference as the cascade returns it.  The daemon's client spells the
\* file's path absolutely, everyone else relative to the project.  Of one place,
\* def tells the answers apart: the file of the definition that stack graphs
\* resolved it to, or how often a server has repeated it.
Found(p, tier, def) == [place |-> p, absolute |-> tier = "daemon", tier |-> tier, def |-> def]

\* The uses of a name and its definition; what finds some of them.
Uses(name) == {p \in Places : WordAt(p).text = name /\ WordAt(p).role # "keyword"}
SomeUses(name, tier, defs) ==
    {{Found(p, tier, d) : p \in S, d \in defs} : S \in SUBSET Uses(name)}

\* resolve_with_cascade: a language server finds some uses, or the stack graphs
\* resolve some; where they resolve none, the syntactic references.  Stack graphs
\* answer with every pair of a use and a definition of it, in its own file or
\* another.  Each reference is judged by itself, so that those found may all have
\* the same definitions.  Nobody asks a server for a name without a definition.
CascadeAnswers(name) ==
    LET servers == IF FindByName(name) = {} THEN {} ELSE {"daemon", "oneshot"}
    IN  (UNION {SomeUses(name, t, 0..n) : t \in servers, n \in 0..1})
        \cup (UNION {SomeUses(name, "graph", d) \ {{}} : d \in SUBSET (0..Len(project))})
        \cup {{Found(p, "syntactic", 0) : p \in Named(name)}}

\* The files of the definitions the index has.
DefFiles(name) == {p.file : p \in FindByName(name)}

\* Step 5b of refs: a resolved reference to a definition in some other file is
\* dropped, unless it is the file of the reference itself; def = 0 is unknown.
Relevant(name, found) ==
    IF DefFiles(name) = {} THEN found
    ELSE {r \in found : r.tier = "graph" /\ r.def # 0 =>
                          r.def \in DefFiles(name) \cup {r.place.file}}

\* An entry of the answer; kind and caller come from the syntactic reference at
\* the same place, and where there is none it is called a call.
Entry(r, syntactic) ==
    LET p == r.place
        known == p \in syntactic /\ ~ r.absolute
    IN  [place |-> p, absolute |-> r.absolute,
         kind |-> IF known THEN KindOf(WordAt(p).role) ELSE "Call",
         caller |-> IF known THEN Caller(p) ELSE <<>>,
         def |-> r.def, added |-> FALSE]

\* An entry that the command adds to what the cascade has found.
Added(p, kind, caller) ==
    [place |-> p, absolute |-> FALSE, kind |-> kind, caller |-> caller, def |-> 0, added |-> TRUE]
AddedReference(p) == Added(p, KindOf(WordAt(p).role), Caller(p))

\* Mutant: a line the cascade has covered is not added to.
MergeByLine(found, syntactic) ==
    LET entries == {Entry(r, syntactic) : r \in found}
        covered == {<<e.place.file, e.place.line>> : e \in {e \in entries : ~ e.absolute}}
    IN  entries \cup {AddedReference(p) :
                        p \in {p \in syntactic : <<p.file, p.line>> \notin covered}}

\* Steps 6 and 6b: the cascade's entries, and the syntactic ones at places, as
\* spelt, that it does not cover.
Merge(found, syntactic) ==
    LET entries == {Entry(r, syntactic) : r \in found}
        covered == {e.place : e \in {e \in entries : ~ e.absolute}}
    IN  entries \cup {AddedReference(p) : p \in syntactic \ covered}

\* Step 7b: a definition whose line has no entry is one; its column is the
\* beginning of the item.
DefinitionEntries(name, entries) ==
    {Added([p EXCEPT !.word = 1], "Definition", <<>>) :
        p \in {p \in FindByName(name) :
                 ~ \E e \in entries : ~ e.absolute /\ e.place.file = p.file /\ e.place.line = p.line}}

RefsAnswer(name, found) ==
    LET entries == Merge(Relevant(name, found), Named(name))
    IN  entries \cup DefinitionEntries(name, entries)

\* cq callers: the map holds calls only; of the cascade's answer all is kept
\* that is semantic or resolved, calls or not.
Calls(name) == {p \in Named(name) : KindOf(WordAt(p).role) = "Call"}
CallersAnswer(name, found) ==
    Merge({r \in found : r.tier # "syntactic"}, Calls(name))

\* cq dead: items that no reference names, but for entry points.
Dead ==
    LET named == {WordAt(p).text : p \in References}
    IN  {p \in Symbols : /\ WordAt(p).role \notin {"impl", "test"}
                         /\ WordAt(p).text \notin named \cup {Main}}
=============================================================================
