------------------------------- MODULE CallChain -------------------------------
(***************************************************************************)
(* The tree of callers `cq callchain` prints (callchain.rs): the recursion   *)
(* over the calls of a project with its set of visited names, and the ways   *)
(* back along the calls that it should show.                                 *)
(***************************************************************************)
EXTENDS Commands

CONSTANT Depth  \* how many calls it goes back

ASSUME DepthAssumption == Depth \in Nat

\* build_caller_map, of one name: its calls in functions.
CallerMap(name) == {p \in Calls(name) : Caller(p) # <<>>}

\* They come in the order of the scan; this is the last of them.
LastCall(calls) == CHOOSE p \in calls : \A q \in calls \ {p} : Before(q, p)

\* The names of functions.
FunctionNames == {Caller(p) : p \in Places} \ {<<>>}

\* Mutant: a name that has been visited stays visited.
StaysVisited(visited, name) == visited

\* visited.remove.
Unvisit(visited, name) == visited \ {name}

\* build_chain_node, of a name that is looked at: the paths of the tree below it,
\* and visited as the call leaves it.  below has the nodes of one call less.
Node(below, name, visited) ==
    LET Child(p, node) ==
          IF Caller(p) \in node.seen THEN node
          ELSE LET child == below[Caller(p)][node.visited]
               IN  [paths |-> node.paths \cup {<<name>> \o w : w \in child.paths},
                    visited |-> child.visited,
                    seen |-> node.seen \cup {Caller(p)}]
        none == [paths |-> {}, visited |-> visited \cup {name}, seen |-> {}]
        node == MapThenFoldSet(Child, none, LAMBDA p : p, LastCall, CallerMap(name))
    IN  [paths |-> IF CallerMap(name) = {} THEN {<<name>>} ELSE node.paths,
         visited |-> Unvisit(node.visited, name)]

\* The nodes of a tree by how many calls are left: where none are, or the name
\* has been visited, it ends.
BuildChainNode(names, depth) ==
    LET nodes[left \in 0..depth] ==
          [name \in names |-> [visited \in SUBSET names |->
             IF left = 0 \/ name \in visited THEN [paths |-> {<<name>>}, visited |-> visited]
             ELSE Node(nodes[left - 1], name, visited)]]
    IN  nodes[depth]

Chain(name, depth) == BuildChainNode({name} \cup FunctionNames, depth)[name][{}].paths

\* What the tree should be: every way back along the calls, up to the depth,
\* or to a function without callers, or to one that is on the way already.
CallingNames(name) == {Caller(p) : p \in Calls(name)} \ {<<>>}
Ways(name, depth) ==
    {w \in UNION {[1..n -> {name} \cup FunctionNames] : n \in 1..(depth + 1)} :
        LET n == Len(w)
            repeated == \E i \in 1..(n - 1) : w[i] = w[n]
        IN  /\ w[1] = name
            /\ \A i \in 1..(n - 1) : w[i + 1] \in CallingNames(w[i])
            /\ \A i, j \in 1..(n - 1) : w[i] = w[j] => i = j
            /\ n = depth + 1 \/ repeated \/ CallingNames(w[n]) = {}}

\* callchain.rs: visited stops at functions that call each other and is taken
\* back behind each, so that one called on two ways is shown with all its
\* callers on both: the tree is all the ways back along the calls.
ChainsAreTheWays ==
    pc = "idle" => \A name \in Names : Chain(name, Depth) = Ways(name, Depth)
=============================================================================
