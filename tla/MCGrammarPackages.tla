--------------------------- MODULE MCGrammarPackages ---------------------------
(* A process of two parser threads beside one invocation of `cq grammar`.    *)
EXTENDS GrammarPackages

CONSTANTS t1, t2, u1, p1

MCThreads == {t1, t2}
MCTools == {u1}
MCProcOf == [t \in {t1, t2} |-> p1]
=============================================================================
