---------------------------- MODULE MCDagSchedule ----------------------------
(***************************************************************************)
(* Instances of DagSchedule for TLC.  Nodes are numbers and every edge goes *)
(* from a smaller to a larger one, which loses no acyclic graph but those  *)
(* that differ in the names of the nodes.                                  *)
(***************************************************************************)
EXTENDS DagSchedule

CONSTANTS
    Cases,     \* pairs of a graph and what is asked of it
    Recipes,   \* the sets of nodes with a recipe
    Garbage    \* what an uninitialised _wait_black may hold

\* The plan with the outdated nodes of `order`, listed in that order.
PlanOf(edges, recipe, wanted, order, garbage) ==
    LET stale == ToSet(order)
        before(v) == Parents(edges, v) \cap stale
    IN [edges |-> edges, recipe |-> recipe, asked |-> wanted, tasks |-> order,
        status |-> [v \in Node |-> IF v \notin stale THEN WHITE
                                   ELSE IF before(v) = {} THEN GREY ELSE BLACK],
        wait |-> [v \in Node |-> IF v \in stale THEN Cardinality(before(v))
                                 ELSE garbage]]

\* Every plan the preprocessing may leave for these graphs and requests.
MCStart ==
    UNION {{p \in {PlanOf(c[1], recipe, c[2], order, garbage) :
                     order \in UNION {SetToSeqs(S) : S \in SUBSET c[2]},
                     garbage \in Garbage} : PreprocessResult(p)}
           : c \in Cases, recipe \in Recipes}

-----------------------------------------------------------------------------
Ascending(V) == {e \in V \X V : e[1] < e[2]}

\* Every graph of three nodes, and every request (PreprocessResult drops those
\* that do not hold what their nodes are made from).
AllOfThree == (SUBSET Ascending(1..3)) \X SUBSET (1..3)

\* 3 waits for 1, and 4 for 2 and 3: if 3 runs twice, 4 may outrun 2.  The same
\* with 4 waiting for 1 as well; and the whole request, or all of it but 4.
Crossings == {{<<1, 3>>, <<2, 4>>, <<3, 4>>},
              {<<1, 3>>, <<1, 4>>, <<2, 4>>, <<3, 4>>}}
CrossingsAsked == Crossings \X {1..4, 1..3}

ThreeAndCrossings == AllOfThree \cup CrossingsAsked

\* 3 waits for 2, which waits for 1; 3 waits for 1 and for 2.
ChainAndJoin == {{<<1, 2>>, <<2, 3>>}, {<<1, 3>>, <<2, 3>>}} \X {1..3}

AllOfTwo == (SUBSET Ascending(1..2)) \X SUBSET (1..2)

NoRecipes == {{}}
\* 2 is phony: it has nothing to run and cannot fail.
MixedRecipes == {Node \ {2}}

\* The counter of a node the preprocessing did not reach: with 1 the first
\* parent that finishes promotes it, with 2 the second one.
NoGarbage == {0}
SomeGarbage == {1, 2}
=============================================================================
