------------------------------- MODULE Commands -------------------------------
(***************************************************************************)
(* One command over a project: `cq refs`, `cq callers`, or `cq rename`, that *)
(* plans its edits from a scan and writes the files one after the other      *)
(* (rename.rs).                                                              *)
(***************************************************************************)
EXTENDS Queries

CONSTANTS Projects,  \* the projects
          Names,     \* names a query asks for
          NewName,   \* what a rename makes of them
          None       \* no value

\* What can be asked.
Questions == [op : {"refs", "callers", "rename"}, name : Names, apply : BOOLEAN]

ASSUME CommandsAssumption ==
    /\ Projects \subseteq Seq(Seq(Seq(Words)))
    /\ NewName \in Seq(Letters)
    /\ None \notin Questions

VARIABLES
    disk,    \* the files on disk: their lines, and whether the last has an end
    ends,    \* how the files end: with a newline or not
    cmd,     \* what was asked: an operation, a name and whether to apply
    pc,
    edits,   \* the edits planned
    todo,    \* files they are still to be applied to
    answer   \* entries of the answer

vars == <<project, disk, ends, cmd, pc, edits, todo, answer>>

Content(lines, ended) == [lines |-> lines, ended |-> ended]
Original(f) == Content([l \in Range1(project[f]) |-> TextOf(project[f][l])], ends[f])
Torn == Content(<<>>, FALSE)

\* What the control flow lets each variable hold; a file is written wholly or,
\* where that fails, left torn.
CommandsTypeOK ==
    /\ pc \in {"idle", "apply", "done", "failed"}
    /\ cmd = None <=> pc = "idle"
    /\ todo \subseteq {e.file : e \in edits}
    /\ \A e \in edits :
         /\ e.file \in Range1(project) /\ e.line \in Range1(project[e.file])
         /\ e.start < e.end /\ e.end <= Len(Original(e.file).lines[e.line])
    /\ \A f \in Range1(project) : disk[f] = Torn => pc = "failed" \/ Original(f) = Torn
    /\ \A e \in answer : e.place.file \in Range1(project)

Init ==
    /\ project \in Projects
    /\ ends \in [Range1(project) -> BOOLEAN]
    \* a file that is empty, or whose last line is, ends with a newline or has none
    /\ \A f \in Range1(project) :
          IF project[f] = <<>> THEN ~ ends[f] ELSE Last(project[f]) = <<>> => ends[f]
    /\ disk = [f \in Range1(project) |-> Original(f)]
    /\ cmd = None /\ pc = "idle" /\ edits = {} /\ todo = {} /\ answer = {}

Ask(op, name, apply) ==
    /\ pc = "idle"
    /\ cmd' = [op |-> op, name |-> name, apply |-> apply]

Refs(name) ==
    /\ Ask("refs", name, FALSE)
    /\ \E found \in CascadeAnswers(name) : answer' = RefsAnswer(name, found)
    /\ pc' = "done"
    /\ UNCHANGED <<project, disk, ends, edits, todo>>

Callers(name) ==
    /\ Ask("callers", name, FALSE)
    /\ \E found \in CascadeAnswers(name) : answer' = CallersAnswer(name, found)
    /\ pc' = "done"
    /\ UNCHANGED <<project, disk, ends, edits, todo>>

-----------------------------------------------------------------------------
(* cq rename *)

\* Mutant: the end is the last letter's column and not the one behind.
EditToLast(f, l, column, name) ==
    [file |-> f, line |-> l, start |-> column, end |-> column + Len(name) - 1]

\* A TextEdit.
Edit(f, l, column, name) ==
    [file |-> f, line |-> l, start |-> column, end |-> column + Len(name)]

\* line_text.find(old_name): the first time its letters occur.
Occurs(name, line, i) == i + Len(name) <= Len(line) /\ SubSeq(line, i + 1, i + Len(name)) = name
Find(name, line) == Min({i \in 0..Len(line) : Occurs(name, line, i)})

\* The references of that name, and each definition where its line first has
\* the name's letters, once each; impl blocks have theirs as a reference.
Plan(name) ==
    {Edit(p.file, p.line, ColumnOf(project[p.file][p.line], p.word), name) : p \in Named(name)}
    \cup {Edit(p.file, p.line, Find(name, TextOf(project[p.file][p.line])), name) :
            p \in {p \in FindByName(name) : WordAt(p).role # "impl"}}

\* Without a definition there is nothing to rename, and without --apply the
\* edits are only shown: their tier is always syntactic.
Rename(name, apply) ==
    /\ Ask("rename", name, apply)
    /\ IF FindByName(name) = {}
         THEN pc' = "failed" /\ UNCHANGED <<edits, todo>>
         ELSE /\ edits' = Plan(name)
              /\ todo' = IF apply THEN {e.file : e \in Plan(name)} ELSE {}
              /\ pc' = IF apply THEN "apply" ELSE "done"
    /\ UNCHANGED <<project, disk, ends, answer>>

\* replace_range, unless the line has become shorter.
Replace(lines, e) ==
    IF e.line <= Len(lines) /\ e.end <= Len(lines[e.line])
      THEN [lines EXCEPT ![e.line] = SubSeq(@, 1, e.start) \o NewName \o SubSeq(@, e.end + 1, Len(@))]
      ELSE lines

\* Mutant: from the beginning of the file to its end.
FirstEditFirst(d, e) == d.line < e.line \/ (d.line = e.line /\ d.start < e.start)

\* From the end of the file to its beginning.
LastEditFirst(d, e) == d.line > e.line \/ (d.line = e.line /\ d.start > e.start)

\* The edits of a file in that order, from its lines to what they make of them.
LastOf(these) == CHOOSE e \in these : \A d \in these \ {e} : LastEditFirst(d, e)
Applied(lines, these) ==
    MapThenFoldSet(LAMBDA e, before : Replace(before, e), lines, LAMBDA e : e, LastOf, these)

\* lines() and join: the newline at the end is put back, but one that ends an
\* empty last line is taken for it.
Join(lines, ended) ==
    IF ended /\ Len(lines) > 1 /\ Last(lines) = <<>>
      THEN Content(SubSeq(lines, 1, Len(lines) - 1), TRUE)
      ELSE Content(lines, ended)

\* apply_edits, of one file.
ApplyEdits(f) ==
    /\ pc = "apply" /\ f \in todo
    /\ disk' = [disk EXCEPT ![f] = Join(Applied(@.lines, {e \in edits : e.file = f}), @.ended)]
    /\ todo' = todo \ {f}
    /\ pc' = IF todo = {f} THEN "done" ELSE "apply"
    /\ UNCHANGED <<project, ends, cmd, edits, answer>>

\* It cannot be read, or cannot be written: the rename ends there.
FileFails(f) ==
    /\ pc = "apply" /\ f \in todo
    /\ \/ UNCHANGED disk
       \/ disk' = [disk EXCEPT ![f] = Torn]
    /\ pc' = "failed"
    /\ UNCHANGED <<project, ends, cmd, edits, todo, answer>>

Next ==
    \/ \E name \in Names :
          Refs(name) \/ Callers(name) \/ \E apply \in BOOLEAN : Rename(name, apply)
    \/ \E f \in Range1(project) : ApplyEdits(f) \/ FileFails(f)

Spec == Init /\ [][Next]_vars

-----------------------------------------------------------------------------
(* Properties *)

\* The file with the name's words renamed, those a scan knows, and nothing else
\* changed, but for an empty last line.
IsRenamed(w, name) ==
    w.text = name /\ (w.role \in Definitions \/ KindOf(w.role) # "None")
RenamedFile(f, name) ==
    LET new(w) == IF IsRenamed(w, name) THEN [w EXCEPT !.text = NewName] ELSE w
        lines == [l \in Range1(project[f]) |->
                    TextOf([i \in Range1(project[f][l]) |-> new(project[f][l][i])])]
    IN  IF \E p \in Places : p.file = f /\ IsRenamed(WordAt(p), name)
          THEN Join(lines, ends[f]) ELSE Original(f)

\* The name's letters occur in no definition's line before its own word.
FindsItself(name) ==
    \A p \in FindByName(name) : WordAt(p).role # "impl" =>
        Find(name, TextOf(project[p.file][p.line])) = ColumnOf(project[p.file][p.line], p.word)

\* rename.rs:182, 195: edits do not shift each other's positions.  Several on one
\* line, longer or shorter than what they replace, do what replacing the words
\* would; a rename that fails between two files leaves each as it was or wholly
\* renamed, but for the one it failed at; and one that only shows edits, none.
RenamedOrNot ==
    pc # "idle" /\ cmd.op = "rename" /\ FindsItself(cmd.name) =>
      LET written(f) == cmd.apply /\ edits # {} /\ f \notin todo
          due(f) == IF written(f) THEN RenamedFile(f, cmd.name) ELSE Original(f)
          wrong == {f \in Range1(project) : disk[f] # due(f)}
      IN  wrong = {} \/ (pc = "failed" /\ \E f \in todo : wrong = {f} /\ disk[f] = Torn)

\* refs.rs:172, "add syntactic references that the cascade missed": whichever
\* tier answers, whatever it leaves out and however often it repeats itself, each
\* use a scan knows is in the answer, and as what it is, each definition's line
\* has an entry, and what the command adds is listed nowhere else: only a place
\* that the cascade has found several times is there several times.  `cq dead`,
\* which looks for names in a way of its own, lists no item that has an entry.
RefsLoseNothing ==
    pc = "done" /\ cmd.op \in {"refs", "callers"} =>
      LET listed == {e.place : e \in {e \in answer : ~ e.absolute}}
          due == IF cmd.op = "refs" THEN Named(cmd.name) ELSE Calls(cmd.name)
      IN  /\ due \subseteq listed
          /\ \A p \in due : \E e \in answer : e.place = p /\ e.kind = KindOf(WordAt(p).role)
          /\ \A d, e \in answer :
                d.added /\ d.place = e.place /\ d.absolute = e.absolute => d = e
          /\ cmd.op = "refs" => \A p \in FindByName(cmd.name) :
                \E q \in listed : q.file = p.file /\ q.line = p.line
          /\ due # {} => \A p \in Dead : WordAt(p).text # cmd.name
=============================================================================
