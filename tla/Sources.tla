-------------------------------- MODULE Sources --------------------------------
(***************************************************************************)
(* The sources of a project as the queries see them: what a scan finds in   *)
(* them (extract_references, SymbolIndex), and their text, which a rename   *)
(* edits.                                                                   *)
(*                                                                          *)
(* Parsing is external: a word comes with the place it has in the syntax    *)
(* tree.  A file is a sequence of lines, a line of words with one space     *)
(* between two; a word's text is a sequence of letters, because columns,    *)
(* and the search for a name in a line, depend on them.  Functions do not   *)
(* nest: a call belongs to the last function begun before it.               *)
(***************************************************************************)
EXTENDS Naturals, Sequences, SequencesExt, FiniteSetsExt

CONSTANTS Letters, \* what words are made of
          Space,   \* the letter between two words
          Main     \* the text of the name `main`

VARIABLE project  \* the files, in the order of a scan; each a sequence of lines

\* Where a word stands in the syntax tree.
Definitions == {"function", "test", "struct"}
Roles == Definitions \cup
         {"keyword", "callee", "type", "impl", "use", "assigned", "value"}

Word(text, role) == [text |-> text, role |-> role]

\* A project's words: a node of the syntax tree has some text.
Words == [text : Seq(Letters) \ {<<>>}, role : Roles]

Range1(s) == 1..Len(s)

\* What stands before the i-th word of a line.
Gap(i) == IF i = 1 THEN <<>> ELSE <<Space>>

\* The letters of the first n words of a line.
Beginning(line, n) ==
    LET text[i \in 0..Len(line)] ==
          IF i = 0 THEN <<>> ELSE text[i - 1] \o Gap(i) \o line[i].text
    IN  text[n]

\* The letters of a line.
TextOf(line) == Beginning(line, Len(line))

\* The column at which the i-th word of a line begins, counted from 0.
ColumnOf(line, i) == Len(Beginning(line, i - 1) \o Gap(i))

PlacesOf(f) == UNION {{[file |-> f, line |-> l, word |-> i] : i \in Range1(project[f][l])} :
                         l \in Range1(project[f])}
Places == UNION {PlacesOf(f) : f \in Range1(project)}

WordAt(p) == project[p.file][p.line][p.word]

\* Places come in the order of the scan.
Before(p, q) ==
    \/ p.file < q.file
    \/ p.file = q.file /\ p.line < q.line
    \/ p.file = q.file /\ p.line = q.line /\ p.word < q.word

InOrder(S) == SetToSortSeq(S, Before)

-----------------------------------------------------------------------------
(* walk_rust_node, extract_use_refs, extract_call_ref, extract_assignment_ref *)

\* What kind of reference a word is, if any.  The name of an item is none, nor
\* is a name that is used as a value.
KindOf(role) ==
    CASE role = "callee"            -> "Call"
      [] role \in {"type", "impl"}  -> "TypeUsage"
      [] role = "use"               -> "Import"
      [] role = "assigned"          -> "Assignment"
      [] OTHER                      -> "None"

References == {p \in Places : KindOf(WordAt(p).role) # "None"}

\* enclosing_fn.
Caller(p) ==
    LET heads == {q \in Places : q.file = p.file /\ Before(q, p)
                                 /\ WordAt(q).role \in {"function", "test"}}
    IN  IF heads = {} THEN <<>> ELSE WordAt(Last(InOrder(heads))).text

\* ref_name_matches, extract_name_at_column, extract_ref_text: the identifier
\* that starts at a reference's column is the whole word.
Named(name) == {p \in References : WordAt(p).text = name}

-----------------------------------------------------------------------------
(* extract_top_level, SymbolIndex *)

\* from_scan and find_by_name: all items and impl blocks of that name.
Symbols == {p \in Places : WordAt(p).role \in Definitions \cup {"impl"}}
FindByName(name) == {p \in Symbols : WordAt(p).text = name}
=============================================================================
