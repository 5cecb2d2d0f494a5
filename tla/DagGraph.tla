------------------------------ MODULE DagGraph ------------------------------
(***************************************************************************)
(* class dag as a data structure (make2/dag/dag.cpp): the operations that  *)
(* edit the graph, each of which keeps two edge lists per node, and the    *)
(* two traversals that look at all of it, dfs() and is_dag().  Both climb  *)
(* from a WHITE node to a source with source_of() and search downwards     *)
(* from there; one step is one turn of a loop.                             *)
(***************************************************************************)
EXTENDS DagBasics

CONSTANTS
    Cooked,    \* the keys set_recipe() is called with
    None       \* NULL

ASSUME GraphAssumption == Cooked \subseteq Node /\ None \notin Node

VARIABLES
    nodes,     \* _node_list
    in, out,   \* _in_list and _out_list of every node
    recipe,    \* the nodes whose _recipe is not empty
    status,    \* _status
    pc,        \* where the traversal is
    op,        \* which traversal it is
    todo,      \* what its loop over _node_list has still to come to
    start,     \* the node source_of() was called on
    seen,      \* s in source_of()
    cur,       \* retval in source_of(), p in the search
    stack,     \* s in the search, its top last
    answer,    \* what is_dag() said of the graph as it is, if it was asked
    visits     \* how often dfs() printed each node (history)

graph     == <<nodes, in, out, recipe>>
traversal == <<op, todo, start, seen, cur, stack>>
vars      == <<graph, status, pc, traversal, answer, visits>>

TypeOK ==
    /\ nodes \in SUBSET Node
    /\ in \in [Node -> SUBSET nodes] /\ out \in [Node -> SUBSET nodes]
    /\ recipe \in SUBSET nodes
    /\ status \in [Node -> Colour]
    /\ pc \in {"idle", "next", "climb", "descend", "top", "walk"}
    /\ op \in {"dfs", "is_dag"} /\ todo \in SUBSET nodes
    /\ start \in nodes \cup {None} /\ cur \in nodes \cup {None}
    /\ seen \in SUBSET nodes
    /\ stack \in Seq(nodes)
    /\ answer \in {"unknown", "dag", "loop"}
    /\ visits \in [Node -> Nat]

NoVisits == [v \in Node |-> 0]

Init ==
    /\ nodes = {}
    /\ in = [v \in Node |-> {}] /\ out = [v \in Node |-> {}]
    /\ recipe = {}
    /\ status = [v \in Node |-> WHITE]
    /\ pc = "idle" /\ op = "dfs" /\ todo = {}
    /\ start = None /\ cur = None /\ seen = {} /\ stack = <<>>
    /\ answer = "unknown"
    /\ visits = NoVisits

-----------------------------------------------------------------------------
(* Editing.  A key outside `nodes` has no node: its entries of in, out and *)
(* status mean nothing and have their initial values.                      *)

Edit ==
    /\ pc = "idle"
    /\ answer' = "unknown"
    /\ visits' = NoVisits
    /\ UNCHANGED <<pc, traversal>>

\* The constructor leaves _status uninitialised.
Create(keys) ==
    /\ nodes' = nodes \cup keys
    /\ \E c \in [keys \ nodes -> Colour] :
         status' = [v \in Node |-> IF v \in keys \ nodes THEN c[v] ELSE status[v]]

AddNode(v) ==
    /\ Edit
    /\ Create({v})
    /\ UNCHANGED <<in, out, recipe>>

\* Mutant: the edge is entered on one side only.
AddEdgeOneWay(u, v) ==
    /\ Edit
    /\ Create({u, v})
    /\ out' = [out EXCEPT ![u] = @ \cup {v}]
    /\ UNCHANGED <<in, recipe>>

AddEdge(u, v) ==
    /\ Edit
    /\ Create({u, v})
    /\ out' = [out EXCEPT ![u] = @ \cup {v}]
    /\ in' = [in EXCEPT ![v] = @ \cup {u}]
    /\ UNCHANGED recipe

\* Mutant: the children do not forget the node.
RemoveNodeHalf(v) ==
    /\ Edit
    /\ v \in nodes
    /\ nodes' = nodes \ {v}
    /\ out' = [u \in Node |-> IF u = v THEN {} ELSE out[u] \ {v}]
    /\ in' = [in EXCEPT ![v] = {}]
    /\ recipe' = recipe \ {v}
    /\ status' = [status EXCEPT ![v] = WHITE]

\* The parents and the children of the node forget it, then it is freed.
RemoveNode(v) ==
    /\ Edit
    /\ v \in nodes
    /\ nodes' = nodes \ {v}
    /\ out' = [u \in Node |-> IF u = v THEN {}
                              ELSE IF u \in in[v] THEN out[u] \ {v} ELSE out[u]]
    /\ in' = [u \in Node |-> IF u = v THEN {}
                             ELSE IF u \in out[v] THEN in[u] \ {v} ELSE in[u]]
    /\ recipe' = recipe \ {v}
    /\ status' = [status EXCEPT ![v] = WHITE]

RemoveEdge(u, v) ==
    /\ Edit
    /\ {u, v} \subseteq nodes
    /\ out' = [out EXCEPT ![u] = @ \ {v}]
    /\ in' = [in EXCEPT ![v] = @ \ {u}]
    /\ UNCHANGED <<nodes, recipe, status>>

\* set_recipe() with a text, and remove_recipe().
SetRecipe(v) ==
    /\ Edit
    /\ v \in nodes \cap Cooked
    /\ recipe' \in {recipe \cup {v}, recipe \ {v}}
    /\ UNCHANGED <<nodes, in, out, status>>

Editing ==
    \/ \E v \in Node : AddNode(v) \/ RemoveNode(v) \/ SetRecipe(v)
    \/ \E u, v \in Node : AddEdge(u, v) \/ RemoveEdge(u, v)

-----------------------------------------------------------------------------
(* What both traversals do: bleach, and from each node that is still WHITE *)
(* climb to a source.                                                      *)

\* Calls of dfs() and of is_dag(), up to their bleach().
Traverse(kind) ==
    /\ pc = "idle"
    /\ op' = kind /\ todo' = nodes
    /\ status' = [v \in Node |-> WHITE]
    /\ visits' = NoVisits
    /\ pc' = "next"
    /\ UNCHANGED <<graph, start, seen, cur, stack, answer>>

\* The loop over _node_list comes to a WHITE node and calls source_of().  It
\* takes the nodes in the order of their keys, which is any.
NextRoot(v) ==
    /\ pc = "next"
    /\ v \in todo /\ status[v] = WHITE
    /\ todo' = todo \ {v}
    /\ start' = v /\ cur' = v /\ seen' = {v}
    /\ pc' = "climb"
    /\ UNCHANGED <<graph, status, op, stack, answer, visits>>

\* It comes to a node that was searched already.
SkipNode(v) ==
    /\ pc = "next"
    /\ v \in todo /\ status[v] # WHITE
    /\ todo' = todo \ {v}
    /\ UNCHANGED <<graph, status, pc, op, start, seen, cur, stack, answer, visits>>

\* Mutant: source_of() forgets where it has been.
ClimbUnseen ==
    /\ pc = "climb"
    /\ \E u \in in[cur] \ seen : cur' = u
    /\ UNCHANGED <<graph, status, pc, op, todo, start, seen, stack, answer, visits>>

\* One parent up.  Which one is "first" is a matter of addresses.
Climb ==
    /\ pc = "climb"
    /\ \E u \in in[cur] \ seen : cur' = u
    /\ seen' = seen \cup {cur}
    /\ UNCHANGED <<graph, status, pc, op, todo, start, stack, answer, visits>>

\* The search starts at p: is_dag() enters its loop with it, dfs() pushes it.
Search(p) ==
    /\ start' = None /\ seen' = {}
    /\ IF op = "is_dag"
       THEN pc' = "descend" /\ cur' = p /\ UNCHANGED <<stack, status>>
       ELSE /\ pc' = "walk" /\ cur' = None
            /\ stack' = <<p>>
            /\ status' = [status EXCEPT ![p] = BLACK]
    /\ UNCHANGED <<graph, op, todo, answer, visits>>

\* source_of() returns the node without parents it has reached,
SourceFound ==
    /\ pc = "climb"
    /\ in[cur] = {}
    /\ Search(cur)

\* Mutant: it returns where it is.
ClimbedALoopStays ==
    /\ pc = "climb"
    /\ in[cur] \cap seen # {}
    /\ Search(cur)

\* or, having met a node again, the one it was called on.
ClimbedALoop ==
    /\ pc = "climb"
    /\ in[cur] \cap seen # {}
    /\ Search(start)

-----------------------------------------------------------------------------
(* dfs(): a node is coloured when it is pushed.                            *)

WhiteChildren(v) == {u \in out[v] : status[u] = WHITE}

\* Mutant: a node is coloured when it is popped.
WalkLate ==
    /\ pc = "walk"
    /\ stack # <<>>
    /\ LET u == Last(stack) IN
         /\ visits' = [visits EXCEPT ![u] = @ + 1]
         /\ status' = [status EXCEPT ![u] = BLACK]
         /\ \E s \in SetToSeqs(WhiteChildren(u)) : stack' = Front(stack) \o s
    /\ UNCHANGED <<graph, pc, op, todo, start, seen, cur, answer>>

Walk ==
    /\ pc = "walk"
    /\ stack # <<>>
    /\ LET u == Last(stack) IN
         /\ visits' = [visits EXCEPT ![u] = @ + 1]
         /\ status' = [v \in Node |-> IF v \in WhiteChildren(u) THEN BLACK
                                      ELSE status[v]]
         /\ \E s \in SetToSeqs(WhiteChildren(u)) : stack' = Front(stack) \o s
    /\ UNCHANGED <<graph, pc, op, todo, start, seen, cur, answer>>

-----------------------------------------------------------------------------
(* is_dag(): GREY nodes are those on the stack.                            *)

\* Mutant: the loop test comes before p is coloured.
DescendTestsFirst ==
    /\ pc = "descend"
    /\ \A u \in out[cur] : status[u] # GREY
    /\ stack' = Append(stack, cur)
    /\ status' = [status EXCEPT ![cur] = GREY]
    /\ IF WhiteChildren(cur) = {}
       THEN cur' = None /\ pc' = "top"
       ELSE cur' \in WhiteChildren(cur) /\ pc' = "descend"
    /\ UNCHANGED <<graph, op, todo, start, seen, answer, visits>>

\* The loop while (p): push p and go to its first WHITE child.
Descend ==
    /\ pc = "descend"
    /\ cur \notin out[cur] /\ \A u \in out[cur] : status[u] # GREY
    /\ stack' = Append(stack, cur)
    /\ status' = [status EXCEPT ![cur] = GREY]
    /\ IF WhiteChildren(cur) = {}
       THEN cur' = None /\ pc' = "top"
       ELSE cur' \in WhiteChildren(cur) /\ pc' = "descend"
    /\ UNCHANGED <<graph, op, todo, start, seen, answer, visits>>

\* goto fail_exit, and is_dag() returns false.
LoopDetected ==
    /\ pc = "descend"
    /\ cur \in out[cur] \/ \E u \in out[cur] : status[u] = GREY
    /\ status' = [status EXCEPT ![cur] = GREY]
    /\ todo' = {} /\ cur' = None /\ stack' = <<>>
    /\ answer' = "loop"
    /\ pc' = "idle"
    /\ UNCHANGED <<graph, op, start, seen, visits>>

\* Another WHITE child of the node on top: go there.
TopGoesOn ==
    /\ pc = "top"
    /\ stack # <<>>
    /\ cur' \in WhiteChildren(Last(stack))
    /\ pc' = "descend"
    /\ UNCHANGED <<graph, status, op, todo, start, seen, stack, answer, visits>>

\* Mutant: the node on top is finished after its first child.
TopIsDoneEarly ==
    /\ pc = "top"
    /\ stack # <<>>
    /\ status' = [status EXCEPT ![Last(stack)] = BLACK]
    /\ stack' = Front(stack)
    /\ UNCHANGED <<graph, pc, op, todo, start, seen, cur, answer, visits>>

TopIsDone ==
    /\ pc = "top"
    /\ stack # <<>>
    /\ WhiteChildren(Last(stack)) = {}
    /\ status' = [status EXCEPT ![Last(stack)] = BLACK]
    /\ stack' = Front(stack)
    /\ UNCHANGED <<graph, pc, op, todo, start, seen, cur, answer, visits>>

\* The search of either kind ends with an empty stack; on to the next root.
SearchDone ==
    /\ pc \in {"top", "walk"}
    /\ stack = <<>>
    /\ pc' = "next"
    /\ UNCHANGED <<graph, status, traversal, answer, visits>>

\* The loop is at its end: dfs() returns, is_dag() returns true.
TraversalDone ==
    /\ pc = "next"
    /\ todo = {}
    /\ pc' = "idle"
    /\ answer' = IF op = "is_dag" THEN "dag" ELSE answer
    /\ UNCHANGED <<graph, status, traversal, visits>>

-----------------------------------------------------------------------------
Travel ==
    \/ \E v \in Node : NextRoot(v) \/ SkipNode(v)
    \/ Climb \/ SourceFound \/ ClimbedALoop
    \/ Walk
    \/ Descend \/ LoopDetected \/ TopGoesOn \/ TopIsDone
    \/ SearchDone \/ TraversalDone

Next == Editing \/ (\E kind \in {"dfs", "is_dag"} : Traverse(kind)) \/ Travel

Spec == Init /\ [][Next]_vars

\* The calls are made by one thread that keeps running.
FairSpec == Spec /\ WF_vars(Travel)

-----------------------------------------------------------------------------
(* Correctness.                                                            *)

\* Every edge is in the lists of both its ends, whatever was added and removed:
\* the planner follows _in_list, the workers and is_dag() follow _out_list.
ListsAgree == \A u, v \in Node : u \in in[v] <=> v \in out[u]

\* A set in which everybody has a parent holds a loop.
Acyclic == \A C \in SUBSET nodes : C # {} => \E v \in C : in[v] \cap C = {}

\* is_dag() says exactly whether the graph has a loop.
IsDagIsRight == pc = "idle" /\ answer # "unknown" => (answer = "dag" <=> Acyclic)

\* dfs() prints every node exactly once, in a graph with loops too.
DfsVisitsOnce ==
    [][op = "dfs" /\ pc = "next" /\ pc' = "idle" => \A v \in nodes : visits[v] = 1]_vars

\* "If node is white, it cannot have any black ancestor" (is_dag()): between two
\* searches everything a WHITE node is made from is WHITE, so that climbing
\* never leads to a node that was searched before.
WhiteHasWhiteParents ==
    pc \in {"next", "climb"} =>
        \A v \in nodes : status[v] = WHITE => \A u \in in[v] : status[u] = WHITE

\* What v is made from, directly or not, and v.
MadeFrom(v) ==
    {u \in nodes : \A S \in SUBSET nodes :
        (v \in S /\ \A x \in S : in[x] \subseteq S) => u \in S}

\* "Return this if loop is detected" (source_of()), and only then: a search
\* starts at a source, or at the node itself if there is a loop among what that
\* node is made from.
SearchesFromSources ==
    [][pc = "climb" /\ pc' # "climb" =>
         LET p == IF pc' = "walk" THEN stack'[1] ELSE cur' IN
         \/ in[p] = {}
         \/ /\ p = start
            /\ \E C \in SUBSET MadeFrom(start) :
                 C # {} /\ \A v \in C : in[v] \cap C # {}]_vars

\* A traversal ends, loop or not.
TraversalReturns == pc # "idle" ~> pc = "idle"
=============================================================================
