------------------------------ MODULE MCCommands ------------------------------
(* Small projects: one file of functions that call each other in every way,   *)
(* or two files of lines in which names occur in different places.            *)
EXTENDS CallChain

\* Names, of which one begins another and one begins a keyword.
x  == <<"x">>
xx == <<"x", "x">>
f  == <<"f">>
MCNames == {x, xx, f}
MCLetters == {"x", "f", "n", "p", "u", "y"}
MCNewName == <<"y", "y">>
MCMain == xx

Keyword(text) == Word(text, "keyword")
Fn == Keyword(<<"f", "n">>)

\* fn name { callees }
Function(name, callees) ==
    <<Fn, Word(name, "function")>>
    \o SetToSeq({Word(c, "callee") : c \in callees})

\* Three functions that call each other.
CallGraphs ==
    {<<<<Function(x, a), Function(xx, b), Function(f, c)>>>> :
        <<a, b, c>> \in (SUBSET MCNames) \X (SUBSET MCNames) \X (SUBSET MCNames)}

Lines == {
    Function(x, {}), Function(f, {xx}),
    <<Fn, Word(xx, "test")>>,
    <<Keyword(<<"p">>), Word(x, "struct"), Word(f, "type")>>,
    <<Keyword(<<"p">>), Word(x, "impl")>>,
    <<Keyword(<<"u">>), Word(x, "use"), Word(xx, "use")>>,
    <<Word(x, "assigned"), Word(x, "callee"), Word(x, "callee")>>,
    <<Word(xx, "callee"), Word(x, "value")>>,
    <<>> }

\* A file of two lines and one of one.
Pairs == {<<<<p[1], p[2]>>, <<p[3]>>>> : p \in Lines \X Lines \X Lines}

MCProjects == CallGraphs \cup Pairs
=============================================================================
