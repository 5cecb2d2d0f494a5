------------------------------ MODULE MCDagPlan ------------------------------
(***************************************************************************)
(* Instances of DagPlan for TLC: every directed graph, loops included, of  *)
(* normal targets that all have recipes; and every acyclic one (nodes in   *)
(* topological order) with every choice of recipes and phony targets.      *)
(***************************************************************************)
EXTENDS DagPlan

Instance(edges, recipe, phony) ==
    [edges |-> edges, recipe |-> recipe, phony |-> phony]

Digraphs == {Instance(edges, Node, {}) : edges \in SUBSET (Node \X Node)}

Ascending == {e \in Node \X Node : e[1] < e[2]}

Makefiles ==
    {Instance(edges, recipe, phony) :
        edges \in SUBSET Ascending, recipe \in SUBSET Node, phony \in SUBSET Node}

MCInstances == Digraphs \cup Makefiles
=============================================================================
