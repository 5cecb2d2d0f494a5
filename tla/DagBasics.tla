------------------------------ MODULE DagBasics ------------------------------
(***************************************************************************)
(* Vocabulary shared by the modules about make2/dag: the colours of a      *)
(* node, the neighbours of a node in the graph, the list operation the     *)
(* workers use, and the contract between the two halves of                 *)
(* dag::schedule(): what the preprocessing leaves behind and the           *)
(* scheduling stage starts from.                                           *)
(***************************************************************************)
EXTENDS Integers, Sequences, FiniteSets, SequencesExt

CONSTANT Node      \* the nodes of the dag, each standing for one target

ASSUME NodeAssumption == IsFiniteSet(Node)

WHITE == "WHITE"   \* untouched            / up to date
GREY  == "GREY"    \* on the DFS stack     / outdated, ready for update
BLACK == "BLACK"   \* visited              / outdated, has pending dependence
Colour == {WHITE, GREY, BLACK}

\* An edge <<u, v>> is u in v's _in_list and v in u's _out_list: v is made
\* from u.
Parents(edges, v)  == {u \in Node : <<u, v>> \in edges}
Children(edges, u) == {v \in Node : <<u, v>> \in edges}

\* ::std::list::remove(x) on a list without duplicates.
Without(s, x) ==
    IF Contains(s, x)
    THEN RemoveAt(s, CHOOSE i \in DOMAIN s : s[i] = x)
    ELSE s

NoDuplicates(s) == \A i, j \in DOMAIN s : s[i] = s[j] => i = j

-----------------------------------------------------------------------------
\* The state in which dag::schedule() spawns its workers.  `recipe` is the
\* set of nodes whose _recipe is not empty; `asked` holds the targets that
\* were passed to add_to_task_list() and everything they are made from.
\* `wait` is _wait_black, which the constructor leaves uninitialised: it is
\* any integer at a node the preprocessing never reached.
PlanType ==
    [edges : SUBSET (Node \X Node), recipe : SUBSET Node, asked : SUBSET Node,
     tasks : Seq(Node), status : [Node -> Colour], wait : [Node -> Int]]

\* The parents of v that have to be rebuilt before v.
StaleParents(p, v) == Parents(p.edges, v) \cap ToSet(p.tasks)

\* What _schedule_preprocessing() establishes after a single successful
\* add_to_task_list() on a bleached graph: the task list holds the outdated
\* nodes of the request and no node twice, the ready (GREY) ones first; a
\* node waits for exactly its outdated parents.  An outdated node makes every
\* node of the request that is made from it outdated.
PreprocessResult(p) ==
    /\ p \in PlanType
    /\ p.tasks # <<>>
    /\ NoDuplicates(p.tasks)
    /\ ToSet(p.tasks) \subseteq p.asked
    /\ \A v \in p.asked : Parents(p.edges, v) \subseteq p.asked
    /\ \A v \in Node \ ToSet(p.tasks) : p.status[v] = WHITE
    /\ \A v \in p.asked \ ToSet(p.tasks) : StaleParents(p, v) = {}
    /\ \A v \in ToSet(p.tasks) :
         /\ p.wait[v] = Cardinality(StaleParents(p, v))
         /\ p.status[v] = IF StaleParents(p, v) = {} THEN GREY ELSE BLACK
    /\ \A i, j \in DOMAIN p.tasks :
         <<p.tasks[i], p.tasks[j]>> \in p.edges => i < j
    /\ \A i, j \in DOMAIN p.tasks :
         (p.status[p.tasks[i]] = BLACK /\ p.status[p.tasks[j]] = GREY) => j < i
=============================================================================
