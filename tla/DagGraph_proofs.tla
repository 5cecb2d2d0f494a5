--------------------------- MODULE DagGraph_proofs ---------------------------
(***************************************************************************)
(* Proofs about DagGraph, for every set of keys and every order of the     *)
(* edge lists: the two edge lists of the nodes stay in agreement, whatever *)
(* is added and removed, source_of() finds sources or loops, is_dag() says *)
(* whether there is a loop, and dfs() prints every node once.              *)
(***************************************************************************)
EXTENDS DagGraph, ListFacts, FiniteSetTheorems, TLAPS

-----------------------------------------------------------------------------
(* The inductive invariant.                                                *)

\* What each place of a traversal knows of the locals.
Position ==
    /\ pc = "idle" => todo = {}
    /\ pc \in {"idle", "next", "climb"} => stack = <<>>
    /\ pc # "climb" => start = None /\ seen = {}
    /\ pc \notin {"climb", "descend"} => cur = None
    /\ pc \in {"descend", "top"} => op = "is_dag"
    /\ pc = "walk" => op = "dfs"
    /\ pc = "climb" => /\ start \in nodes /\ status[start] = WHITE
                      /\ cur \in nodes /\ status[cur] = WHITE
    /\ pc = "descend" => cur \in nodes /\ status[cur] = WHITE

\* The nodes on the stack are GREY in is_dag() and BLACK in dfs(); every child
\* of a BLACK node is BLACK, unless dfs() has not printed the node yet.
Coloured ==
    pc # "idle" =>
        \A v \in nodes :
            /\ op = "is_dag" => (status[v] = GREY <=> v \in ToSet(stack))
            /\ op = "dfs" => status[v] # GREY
            /\ op = "dfs" /\ v \in ToSet(stack) => status[v] = BLACK
            /\ status[v] = BLACK => \/ op = "dfs" /\ v \in ToSet(stack)
                                   \/ \A u \in out[v] : status[u] = BLACK

\* The stack of is_dag() is a path, and no edge leads back along it.
PathOnStack ==
    op = "is_dag" =>
        /\ NoDuplicates(stack)
        /\ \A i \in DOMAIN stack : i # 1 => stack[i] \in out[stack[i - 1]]
        /\ pc = "descend" /\ stack # <<>> => cur \in out[Last(stack)]
        /\ \A i, j \in DOMAIN stack : i <= j => stack[i] \notin out[stack[j]]

\* What is_dag() has finished holds no loop.
BlackIsAcyclic ==
    pc # "idle" /\ op = "is_dag" =>
        \A C \in SUBSET nodes :
            C # {} /\ (\A v \in C : status[v] = BLACK) =>
                \E v \in C : in[v] \cap C = {}

UpClosed(S) == \A v \in S : in[v] \subseteq S

\* source_of() came to each node it has seen but the last from one of its
\* children: each has a parent on the trail, and start is made from all of them.
Trail ==
    pc = "climb" =>
        /\ start \in seen
        /\ \A v \in seen : v = cur \/ in[v] \cap (seen \cup {cur}) # {}
        /\ \A S \in SUBSET nodes :
             start \in S /\ UpClosed(S) => seen \cup {cur} \subseteq S

AnswerIsRight == answer # "unknown" => (answer = "dag" <=> Acyclic)

IInv == /\ TypeOK /\ ListsAgree /\ Position /\ Coloured
        /\ PathOnStack /\ BlackIsAcyclic /\ Trail /\ AnswerIsRight

\* A WHITE node that the loop over _node_list has passed is still to be reached
\* by the search that is under way: whatever holds all it is made from meets the
\* stack or p.  So there is none between two searches.
Covered ==
    /\ pc = "climb" => \A v \in nodes \ todo : status[v] = WHITE => v = start
    /\ pc # "idle" =>
         \A v \in nodes \ todo : status[v] = WHITE =>
             \A S \in SUBSET nodes :
                 v \in S /\ UpClosed(S) => S \cap (ToSet(stack) \cup {cur}) # {}

\* The part of the invariant that is about the graph alone.
EdgesTyped ==
    /\ nodes \in SUBSET Node
    /\ in \in [Node -> SUBSET nodes]
    /\ out \in [Node -> SUBSET nodes]
    /\ recipe \in SUBSET nodes

EdgesInv == EdgesTyped /\ ListsAgree

-----------------------------------------------------------------------------
\* Each editing operation enters or erases an edge at both of its ends.
LEMMA EditingKeepsEdges == ASSUME EdgesInv, Editing PROVE EdgesInv'
<1> USE DEF EdgesInv, EdgesTyped, ListsAgree, Create
<1>1. ASSUME NEW v \in Node, AddNode(v) PROVE EdgesInv'
  BY <1>1 DEF AddNode
<1>2. ASSUME NEW v \in Node, RemoveNode(v) PROVE EdgesInv'
  <2>1. EdgesTyped'
    BY <1>2 DEF RemoveNode
  <2>2. ListsAgree'
    BY <1>2 DEF RemoveNode
  <2> QED BY <2>1, <2>2
<1>3. ASSUME NEW v \in Node, SetRecipe(v) PROVE EdgesInv'
  BY <1>3 DEF SetRecipe
<1>4. ASSUME NEW u \in Node, NEW v \in Node, AddEdge(u, v) PROVE EdgesInv'
  <2>1. EdgesTyped'
    BY <1>4 DEF AddEdge
  <2>2. ListsAgree'
    BY <1>4 DEF AddEdge
  <2> QED BY <2>1, <2>2
<1>5. ASSUME NEW u \in Node, NEW v \in Node, RemoveEdge(u, v) PROVE EdgesInv'
  <2>1. EdgesTyped'
    BY <1>5 DEF RemoveEdge
  <2>2. ListsAgree'
    BY <1>5 DEF RemoveEdge
  <2> QED BY <2>1, <2>2
<1> QED BY <1>1, <1>2, <1>3, <1>4, <1>5 DEF Editing

LEMMA EditingKeepsRest == ASSUME IInv, Editing PROVE IInv'
<1>1. EdgesInv'
  BY EditingKeepsEdges DEF IInv, TypeOK, EdgesInv, EdgesTyped
<1>2. /\ pc = "idle" /\ pc' = "idle" /\ answer' = "unknown"
      /\ visits' = NoVisits
      /\ UNCHANGED <<op, todo, start, seen, cur, stack>>
  BY DEF Editing, AddNode, AddEdge, RemoveNode, RemoveEdge, SetRecipe, Edit, traversal
<1>3. status' \in [Node -> Colour]
  <2> USE DEF IInv, TypeOK, Colour
  <2>1. ASSUME NEW keys \in SUBSET Node, Create(keys) PROVE status' \in [Node -> Colour]
    BY <2>1 DEF Create
  <2>2. ASSUME NEW v \in Node, AddNode(v) \/ RemoveNode(v) \/ SetRecipe(v)
        PROVE  status' \in [Node -> Colour]
    BY <2>1, <2>2 DEF AddNode, RemoveNode, SetRecipe
  <2>3. ASSUME NEW u \in Node, NEW v \in Node, AddEdge(u, v) \/ RemoveEdge(u, v)
        PROVE  status' \in [Node -> Colour]
    BY <2>1, <2>3 DEF AddEdge, RemoveEdge
  <2> QED BY <2>2, <2>3 DEF Editing
<1>4. start' = None /\ cur' = None /\ seen' = {} /\ stack' = <<>> /\ todo' = {}
  BY <1>2 DEF IInv, Position
<1> QED
  BY <1>1, <1>2, <1>3, <1>4
  DEF IInv, TypeOK, Position, Coloured, PathOnStack, BlackIsAcyclic, Trail,
      AnswerIsRight, EdgesInv, EdgesTyped, NoVisits, NoDuplicates

-----------------------------------------------------------------------------
(* Traversals.                                                             *)

\* Between two searches what a WHITE node is made from is WHITE: it is not on
\* the empty stack, and a BLACK node has BLACK children.
LEMMA WhiteAbove == IInv => WhiteHasWhiteParents
<1> SUFFICES ASSUME IInv, pc \in {"next", "climb"},
                    NEW v \in nodes, status[v] = WHITE, NEW u \in in[v]
             PROVE  status[u] = WHITE
  BY DEF WhiteHasWhiteParents
<1>1. u \in nodes /\ v \in out[u] /\ u \in Node /\ v \in Node
  BY DEF IInv, TypeOK, ListsAgree
<1>2. status[u] \in Colour /\ op \in {"dfs", "is_dag"} /\ pc # "idle"
  BY <1>1 DEF IInv, TypeOK
<1>3. u \notin ToSet(stack)
  BY DEF IInv, Position, ToSet
<1>4. status[u] # GREY
  BY <1>1, <1>2, <1>3 DEF IInv, Coloured
<1>5. status[u] # BLACK
  BY <1>1, <1>2, <1>3 DEF IInv, Coloured, WHITE, BLACK
<1> QED BY <1>2, <1>4, <1>5 DEF Colour

LEMMA TraverseKeeps ==
    ASSUME IInv, NEW kind \in {"dfs", "is_dag"}, Traverse(kind)
    PROVE  IInv'
<1> USE DEF Traverse, graph, WHITE, GREY, BLACK
<1>1. stack = <<>>
  BY DEF IInv, Position
<1>2. TypeOK' /\ ListsAgree' /\ AnswerIsRight'
  BY DEF IInv, TypeOK, ListsAgree, AnswerIsRight, Acyclic, Colour, NoVisits
<1>3. Position' /\ Trail'
  BY DEF IInv, Position, Trail
<1>4. \A v \in nodes : status'[v] = WHITE
  BY DEF IInv, TypeOK
<1>5. Coloured'
  BY <1>1, <1>4 DEF Coloured, ToSet
<1>6. PathOnStack'
  BY <1>1 DEF PathOnStack, NoDuplicates
<1>7. BlackIsAcyclic'
  BY <1>4 DEF BlackIsAcyclic
<1> QED BY <1>2, <1>3, <1>5, <1>6, <1>7 DEF IInv

LEMMA NextRootKeeps == ASSUME IInv, NEW v \in Node, NextRoot(v) PROVE IInv'
<1> USE DEF NextRoot, graph
<1>1. TypeOK' /\ ListsAgree' /\ AnswerIsRight'
  BY DEF IInv, TypeOK, ListsAgree, AnswerIsRight, Acyclic
<1>2. Position' /\ Trail'
  <2>1. v \in nodes
    BY DEF IInv, TypeOK
  <2> QED BY <2>1 DEF IInv, Position, Trail
<1>3. Coloured' /\ PathOnStack' /\ BlackIsAcyclic'
  BY DEF IInv, Coloured, PathOnStack, BlackIsAcyclic
<1> QED BY <1>1, <1>2, <1>3 DEF IInv

LEMMA SkipNodeKeeps == ASSUME IInv, NEW v \in Node, SkipNode(v) PROVE IInv'
<1> USE DEF SkipNode, graph
<1>1. TypeOK' /\ ListsAgree' /\ AnswerIsRight' /\ Position' /\ Trail'
  BY DEF IInv, TypeOK, ListsAgree, AnswerIsRight, Acyclic, Position, Trail
<1>2. Coloured' /\ PathOnStack' /\ BlackIsAcyclic'
  BY DEF IInv, Coloured, PathOnStack, BlackIsAcyclic
<1> QED BY <1>1, <1>2 DEF IInv

LEMMA ClimbKeeps == ASSUME IInv, Climb PROVE IInv'
<1> USE DEF Climb, graph
<1>1. PICK u \in in[cur] \ seen : cur' = u
  OBVIOUS
<1>2. cur \in nodes /\ status[cur] = WHITE
  BY DEF IInv, Position
<1>3. u \in nodes
  BY <1>2 DEF IInv, TypeOK
<1>4. status[u] = WHITE
  BY <1>2, WhiteAbove DEF WhiteHasWhiteParents
<1>5. TypeOK' /\ ListsAgree' /\ AnswerIsRight'
  BY <1>1, <1>2, <1>3 DEF IInv, TypeOK, ListsAgree, AnswerIsRight, Acyclic
<1>6. Position'
  BY <1>1, <1>3, <1>4 DEF IInv, Position
<1>7. Trail'
  BY <1>1, <1>2 DEF IInv, Trail, UpClosed
<1>8. Coloured' /\ PathOnStack' /\ BlackIsAcyclic'
  BY DEF IInv, Coloured, PathOnStack, BlackIsAcyclic
<1> QED BY <1>5, <1>6, <1>7, <1>8 DEF IInv

LEMMA SearchKeeps ==
    ASSUME IInv, pc = "climb", NEW p \in {start, cur}, Search(p)
    PROVE  IInv'
<1> USE DEF Search, graph, WHITE, GREY, BLACK
<1>1. p \in nodes /\ p \in Node /\ status[p] = WHITE /\ stack = <<>> /\ pc # "idle"
  BY DEF IInv, Position, TypeOK
<1>2. \A u \in nodes : status[u] # BLACK \/ p \notin out[u]
  BY <1>1 DEF IInv, Coloured, ToSet
<1>3. CASE op = "is_dag"
  <2> USE <1>1, <1>3
  <2>1. TypeOK' /\ ListsAgree' /\ AnswerIsRight' /\ Position' /\ Trail'
    BY DEF IInv, TypeOK, ListsAgree, AnswerIsRight, Acyclic, Position, Trail
  <2>2. Coloured' /\ PathOnStack' /\ BlackIsAcyclic'
    BY DEF IInv, Coloured, PathOnStack, BlackIsAcyclic
  <2> QED BY <2>1, <2>2 DEF IInv
<1>4. CASE op = "dfs"
  <2> USE <1>1, <1>4
  <2>1. TypeOK'
    <3>1. status' \in [Node -> Colour]
      BY DEF IInv, TypeOK, Colour
    <3>2. stack' = <<p>>
      OBVIOUS
    <3>3. <<p>> \in Seq(nodes)
      OBVIOUS
    <3> QED BY <3>1, <3>2, <3>3 DEF IInv, TypeOK
  <2>2. ListsAgree' /\ AnswerIsRight' /\ Position' /\ Trail'
    BY DEF IInv, ListsAgree, AnswerIsRight, Acyclic, Position, Trail
  <2>3. ToSet(stack') = {p} /\ ToSet(stack) = {}
    BY DEF ToSet
  <2>4. \A v \in nodes : status'[v] = IF v = p THEN BLACK ELSE status[v]
    BY DEF IInv, TypeOK
  <2>5. out \in [Node -> SUBSET nodes] /\ nodes \subseteq Node
    BY DEF IInv, TypeOK
  <2>6. Coloured'
    <3> SUFFICES ASSUME NEW v \in nodes
                 PROVE  /\ status'[v] # GREY
                        /\ v \in ToSet(stack') => status'[v] = BLACK
                        /\ status'[v] = BLACK => \/ v \in ToSet(stack')
                                                 \/ \A u \in out[v] : status'[u] = BLACK
      BY DEF Coloured
    <3> QED BY <2>3, <2>4, <2>5 DEF IInv, Coloured
  <2>7. PathOnStack' /\ BlackIsAcyclic'
    BY DEF PathOnStack, BlackIsAcyclic
  <2> QED BY <2>1, <2>2, <2>6, <2>7 DEF IInv
<1> QED BY <1>3, <1>4 DEF IInv, TypeOK

-----------------------------------------------------------------------------
(* dfs().                                                                  *)

LEMMA WalkKeeps == ASSUME IInv, Walk PROVE IInv'
<1> DEFINE u == Last(stack)
           white == WhiteChildren(u)
<1>1. /\ stack \in Seq(nodes) /\ stack # <<>> /\ nodes \subseteq Node /\ op = "dfs"
      /\ out \in [Node -> SUBSET nodes] /\ status \in [Node -> Colour]
      /\ visits \in [Node -> Nat] /\ pc = "walk" /\ pc' = "walk" /\ op' = op
  BY DEF IInv, TypeOK, Position, Walk
<1>2. u \in nodes /\ u \in Node /\ Front(stack) \in Seq(nodes)
  BY <1>1, PopFacts
<1>3. white \subseteq nodes /\ IsFiniteSet(white)
  <2>1. white \subseteq nodes
    BY <1>1, <1>2 DEF WhiteChildren
  <2> QED BY <2>1, <1>1, FS_Subset, NodeAssumption
<1>4. PICK s \in SetToSeqs(white) : stack' = Front(stack) \o s
  BY DEF Walk
<1>5. s \in Seq(nodes) /\ ToSet(s) = white
  <2>1. s \in Seq(white) /\ ToSet(s) = white
    BY <1>3, <1>4, EnumerationElements
  <2> QED BY <2>1, <1>3
<1>6. /\ stack' \in Seq(nodes)
      /\ ToSet(stack') = ToSet(Front(stack)) \cup white
      /\ ToSet(stack) = ToSet(Front(stack)) \cup {u}
  BY <1>1, <1>2, <1>4, <1>5, ConcatElements, PopElements
<1>7. /\ status' = [v \in Node |-> IF v \in white THEN BLACK ELSE status[v]]
      /\ visits' = [visits EXCEPT ![u] = @ + 1]
      /\ UNCHANGED <<graph, pc, op, todo, start, seen, cur, answer>>
  BY DEF Walk
<1>8. \A v \in white : status[v] = WHITE
  BY DEF WhiteChildren
<1>9. \A v \in out[u] : status[v] = WHITE => v \in white
  BY DEF WhiteChildren
<1> HIDE DEF u, white
<1> USE DEF graph, WHITE, GREY, BLACK
<1>10. TypeOK'
  <2>1. status' \in [Node -> Colour] /\ visits' \in [Node -> Nat]
    BY <1>1, <1>2, <1>7 DEF Colour
  <2> QED BY <1>6, <1>7, <2>1 DEF IInv, TypeOK
<1>11. ListsAgree' /\ AnswerIsRight' /\ Position' /\ Trail' /\ BlackIsAcyclic' /\ PathOnStack'
  BY <1>1, <1>7 DEF IInv, ListsAgree, AnswerIsRight, Acyclic, Position, Trail,
                    BlackIsAcyclic, PathOnStack
<1>12. Coloured'
  <2> SUFFICES ASSUME NEW v \in nodes
               PROVE  /\ status'[v] # GREY
                      /\ v \in ToSet(stack') => status'[v] = BLACK
                      /\ status'[v] = BLACK /\ v \notin ToSet(stack') =>
                           \A c \in out[v] : status'[c] = BLACK
    BY <1>1, <1>7 DEF Coloured
  <2>1. \A c \in nodes : status'[c] = IF c \in white THEN BLACK ELSE status[c]
    BY <1>1, <1>7
  <2>2. \A c \in nodes : status[c] # GREY /\ (c \in ToSet(stack) => status[c] = BLACK)
    BY <1>1 DEF IInv, Coloured
  <2>3. \A c \in nodes : status[c] = BLACK /\ c \notin ToSet(stack) =>
                         \A d \in out[c] : status[d] = BLACK
    BY <1>1 DEF IInv, Coloured
  <2>4. \A c \in nodes : status[c] \in Colour
    BY <1>1
  <2>5. \A c \in out[v] : c \in nodes
    BY <1>1
  <2>6. \A c \in out[u] : status'[c] = BLACK
    <3> SUFFICES ASSUME NEW c \in out[u] PROVE status'[c] = BLACK
      OBVIOUS
    <3>1. c \in nodes
      BY <1>1, <1>2
    <3> QED BY <3>1, <2>1, <2>2, <2>4, <1>9 DEF Colour
  <2>7. status'[v] # GREY /\ (v \in ToSet(stack') => status'[v] = BLACK)
    BY <2>1, <2>2, <1>6
  <2>8. ASSUME status'[v] = BLACK, v \notin ToSet(stack'), NEW c \in out[v]
        PROVE  status'[c] = BLACK
    <3>1. CASE v = u
      BY <3>1, <2>6
    <3>2. CASE v # u
      BY <3>2, <2>8, <2>1, <2>3, <2>5, <1>6
    <3> QED BY <3>1, <3>2
  <2> QED BY <2>7, <2>8
<1> QED BY <1>10, <1>11, <1>12 DEF IInv

-----------------------------------------------------------------------------
(* is_dag().                                                               *)

\* No BLACK node has a child that is not BLACK, and nothing on the stack of
\* is_dag() is BLACK or WHITE.
LEMMA DagColours ==
    ASSUME IInv, pc # "idle", op = "is_dag", NEW v \in nodes
    PROVE  /\ status[v] = GREY <=> v \in ToSet(stack)
           /\ status[v] = BLACK => \A u \in out[v] : status[u] = BLACK
           /\ status[v] \in {WHITE, GREY, BLACK}
           /\ v \in Node
<1>1. v \in Node /\ status[v] \in Colour
  BY DEF IInv, TypeOK
<1> QED BY <1>1 DEF IInv, Coloured, Colour

LEMMA DescendKeeps == ASSUME IInv, Descend PROVE IInv'
<1> DEFINE n == Len(stack)
<1>1. /\ pc = "descend" /\ op = "is_dag" /\ cur \in nodes /\ status[cur] = WHITE
      /\ stack \in Seq(nodes) /\ nodes \subseteq Node
      /\ out \in [Node -> SUBSET nodes] /\ status \in [Node -> Colour]
  BY DEF IInv, TypeOK, Position, Descend
<1>2. /\ stack' = Append(stack, cur) /\ status' = [status EXCEPT ![cur] = GREY]
      /\ cur \notin out[cur] /\ \A u \in out[cur] : status[u] # GREY
      /\ UNCHANGED <<graph, op, todo, start, seen, answer, visits>>
      /\ \/ cur' = None /\ pc' = "top"
         \/ cur' \in WhiteChildren(cur) /\ pc' = "descend"
  BY DEF Descend
<1>3. /\ stack' \in Seq(nodes) /\ n \in Nat
      /\ DOMAIN stack = 1..n /\ DOMAIN stack' = 1..(n + 1)
      /\ \A i \in 1..n : stack'[i] = stack[i]
      /\ stack'[n + 1] = cur
      /\ Len(stack') = n + 1
      /\ \A i \in 1..n : stack[i] \in nodes
  BY <1>1, <1>2, PushFacts
<1> HIDE DEF n
<1>4. \A i \in 1..(n + 1) : i \in 1..n \/ i = n + 1
  BY <1>3
<1>5. ToSet(stack') = ToSet(stack) \cup {cur}
  <2>1. ToSet(stack') \subseteq ToSet(stack) \cup {cur}
    BY <1>3, <1>4 DEF ToSet
  <2>2. ToSet(stack) \cup {cur} \subseteq ToSet(stack')
    BY <1>3 DEF ToSet
  <2> QED BY <2>1, <2>2
<1>6. \A v \in nodes : status'[v] = IF v = cur THEN GREY ELSE status[v]
  BY <1>1, <1>2
<1>7. /\ cur \notin ToSet(stack)
      /\ \A v \in out[cur] : v \in nodes /\ v \notin ToSet(stack)
  <2>1. \A v \in out[cur] : v \in nodes
    BY <1>1
  <2> QED BY <1>1, <1>2, <2>1, DagColours DEF WHITE, GREY
<1>8. cur' \in WhiteChildren(cur) => /\ cur' \in nodes /\ cur' \in out[cur]
                                   /\ cur' # cur /\ status[cur'] = WHITE
  BY <1>1, <1>2, <1>7 DEF WhiteChildren
<1> USE DEF graph
<1>9. TypeOK'
  <2>1. status' \in [Node -> Colour]
    BY <1>1, <1>2 DEF Colour
  <2> QED BY <1>1, <1>2, <1>3, <1>8, <2>1 DEF IInv, TypeOK
<1>10. ListsAgree' /\ AnswerIsRight' /\ Trail'
  BY <1>2 DEF IInv, ListsAgree, AnswerIsRight, Acyclic, Trail
<1>11. Position'
  <2>1. pc' = "descend" => cur' \in nodes /\ status'[cur'] = WHITE
    BY <1>2, <1>6, <1>8
  <2>2. start = None /\ seen = {}
    BY <1>1 DEF IInv, Position
  <2> QED BY <1>1, <1>2, <2>1, <2>2 DEF Position
<1>12. Coloured'
  <2> SUFFICES ASSUME NEW v \in nodes
               PROVE  /\ status'[v] = GREY <=> v \in ToSet(stack')
                      /\ status'[v] = BLACK => \A u \in out[v] : status'[u] = BLACK
    BY <1>1, <1>2 DEF Coloured
  <2>1. status'[v] = GREY <=> v \in ToSet(stack')
    BY <1>1, <1>5, <1>6, DagColours
  <2>2. ASSUME status'[v] = BLACK, NEW u \in out[v] PROVE status'[u] = BLACK
    <3>1. v # cur /\ status[v] = BLACK
      BY <2>2, <1>6 DEF GREY, BLACK
    <3>2. u \in nodes /\ status[u] = BLACK
      BY <3>1, <1>1, DagColours
    <3> QED BY <3>2, <1>1, <1>6 DEF WHITE, BLACK
  <2> QED BY <2>1, <2>2
<1>13. PathOnStack'
  <2>1. /\ NoDuplicates(stack)
        /\ \A i \in 1..n : i # 1 => stack[i] \in out[stack[i - 1]]
        /\ n # 0 => cur \in out[stack[n]]
        /\ \A i, j \in 1..n : i <= j => stack[i] \notin out[stack[j]]
    <3>1. n # 0 => stack # <<>>
      BY DEF n
    <3> QED BY <3>1, <1>1, <1>3 DEF IInv, PathOnStack, Last, n
  <2>2. \A i \in 1..n : stack[i] \in ToSet(stack)
    BY <1>3 DEF ToSet
  <2>3. NoDuplicates(stack')
    BY <2>1, <2>2, <1>3, <1>4, <1>7 DEF NoDuplicates
  <2>4. \A i \in 1..(n + 1) : i # 1 => stack'[i] \in out[stack'[i - 1]]
    <3> SUFFICES ASSUME NEW i \in 1..(n + 1), i # 1
                 PROVE  stack'[i] \in out[stack'[i - 1]]
      OBVIOUS
    <3>1. i - 1 \in 1..n /\ stack'[i - 1] = stack[i - 1]
      BY <1>3
    <3>2. CASE i \in 1..n
      BY <3>1, <3>2, <2>1, <1>3
    <3>3. CASE i = n + 1
      BY <3>1, <3>3, <2>1, <1>3
    <3> QED BY <3>2, <3>3, <1>4
  <2>5. pc' = "descend" => cur' \in out[Last(stack')]
    BY <1>2, <1>3, <1>8 DEF Last
  <2>6. ASSUME NEW i \in 1..(n + 1), NEW j \in 1..(n + 1), i <= j
        PROVE  stack'[i] \notin out[stack'[j]]
    <3>1. CASE j \in 1..n
      <4>1. i \in 1..n
        BY <3>1, <2>6, <1>3
      <4> QED BY <3>1, <4>1, <2>6, <2>1, <1>3
    <3>2. CASE j = n + 1 /\ i \in 1..n
      BY <3>2, <2>2, <1>3, <1>7
    <3>3. CASE j = n + 1 /\ i = n + 1
      BY <3>3, <1>2, <1>3
    <3> QED BY <3>1, <3>2, <3>3, <1>4
  <2> QED BY <2>3, <2>4, <2>5, <2>6, <1>2, <1>3 DEF PathOnStack
<1>14. BlackIsAcyclic'
  <2> SUFFICES ASSUME NEW C \in SUBSET nodes, C # {}, \A v \in C : status'[v] = BLACK
               PROVE  \E v \in C : in[v] \cap C = {}
    BY <1>2 DEF BlackIsAcyclic
  <2>1. \A v \in C : status[v] = BLACK
    BY <1>6 DEF GREY, BLACK
  <2> QED BY <2>1, <1>1 DEF IInv, BlackIsAcyclic
<1> QED BY <1>9, <1>10, <1>11, <1>12, <1>13, <1>14 DEF IInv

\* The stack from the GREY child on, with p, is a loop.
LEMMA LoopDetectedKeeps == ASSUME IInv, LoopDetected PROVE IInv'
<1> DEFINE n == Len(stack)
<1>1. /\ pc = "descend" /\ op = "is_dag" /\ cur \in nodes
      /\ stack \in Seq(nodes) /\ nodes \subseteq Node
      /\ n \in Nat /\ DOMAIN stack = 1..n
      /\ out \in [Node -> SUBSET nodes] /\ status \in [Node -> Colour]
      /\ in \in [Node -> SUBSET nodes]
      /\ \A u, v \in Node : u \in in[v] <=> v \in out[u]
  BY DEF IInv, TypeOK, Position, ListsAgree, LoopDetected
<1>2. /\ cur \in out[cur] \/ \E u \in out[cur] : status[u] = GREY
      /\ status' = [status EXCEPT ![cur] = GREY]
      /\ cur' = None /\ stack' = <<>> /\ answer' = "loop" /\ pc' = "idle" /\ todo' = {}
      /\ UNCHANGED <<graph, op, start, seen, visits>>
  BY DEF LoopDetected
<1>3. /\ \A i \in 1..n : stack[i] \in nodes
      /\ \A i \in 1..n : i # 1 => stack[i] \in out[stack[i - 1]]
      /\ n # 0 => cur \in out[stack[n]]
  <2>1. n # 0 => stack # <<>>
    OBVIOUS
  <2>2. \A i \in 1..n : stack[i] \in nodes
    BY <1>1
  <2>3. \A i \in 1..n : i # 1 => stack[i] \in out[stack[i - 1]]
    BY <1>1 DEF IInv, PathOnStack
  <2>4. stack # <<>> => cur \in out[stack[n]]
    BY <1>1 DEF IInv, PathOnStack, Last
  <2> QED BY <2>1, <2>2, <2>3, <2>4
<1> HIDE DEF n
<1>4. ~Acyclic
  <2>1. CASE cur \in out[cur]
    <3>1. {cur} \in SUBSET nodes /\ in[cur] \cap {cur} # {}
      BY <1>1, <2>1
    <3> QED BY <3>1 DEF Acyclic
  <2>2. CASE \E u \in out[cur] : status[u] = GREY
    <3>1. PICK k \in 1..n : stack[k] \in out[cur]
      BY <1>1, <2>2, DagColours DEF ToSet
    <3> DEFINE C == {stack[i] : i \in k..n} \cup {cur}
    <3>2. C \in SUBSET nodes /\ C # {}
      BY <1>1, <1>3
    <3>3. ASSUME NEW v \in C PROVE in[v] \cap C # {}
      <4>1. CASE v = cur
        <5>1. cur \in out[stack[n]] /\ n \in k..n /\ stack[n] \in nodes
          BY <1>1, <1>3
        <5>2. stack[n] \in in[cur] /\ stack[n] \in C
          BY <1>1, <5>1
        <5> QED BY <4>1, <5>2
      <4>2. CASE v = stack[k]
        <5>1. cur \in in[stack[k]] /\ cur \in C
          BY <1>1, <1>3, <3>1
        <5> QED BY <4>2, <5>1
      <4>3. ASSUME NEW i \in k..n, v = stack[i], i # k PROVE in[v] \cap C # {}
        <5>1. i \in 1..n /\ i - 1 \in 1..n /\ i - 1 \in k..n /\ i # 1
          BY <1>1, <4>3
        <5>2. stack[i - 1] \in in[stack[i]]
          BY <1>1, <1>3, <5>1
        <5>3. stack[i - 1] \in C
          BY <5>1
        <5> QED BY <4>3, <5>2, <5>3
      <4> QED BY <4>1, <4>2, <4>3
    <3> HIDE DEF C
    <3> QED BY <3>2, <3>3 DEF Acyclic
  <2> QED BY <1>2, <2>1, <2>2
<1> USE DEF graph
<1>5. TypeOK'
  <2>1. status' \in [Node -> Colour]
    BY <1>1, <1>2 DEF Colour
  <2> QED BY <1>2, <2>1 DEF IInv, TypeOK
<1>6. ListsAgree' /\ Trail' /\ Position' /\ Coloured' /\ BlackIsAcyclic'
  BY <1>1, <1>2 DEF IInv, ListsAgree, Trail, Position, Coloured, BlackIsAcyclic
<1>7. AnswerIsRight'
  BY <1>2, <1>4 DEF AnswerIsRight, Acyclic
<1>8. PathOnStack'
  BY <1>2 DEF PathOnStack, NoDuplicates
<1> QED BY <1>5, <1>6, <1>7, <1>8 DEF IInv

LEMMA TopGoesOnKeeps == ASSUME IInv, TopGoesOn PROVE IInv'
<1> USE DEF TopGoesOn, graph
<1>1. /\ stack \in Seq(nodes) /\ stack # <<>> /\ nodes \subseteq Node
      /\ out \in [Node -> SUBSET nodes] /\ pc = "top" /\ op = "is_dag"
  BY DEF IInv, TypeOK, Position
<1>2. Last(stack) \in nodes
  BY <1>1, PopFacts
<1>3. cur' \in out[Last(stack)] /\ cur' \in nodes /\ status[cur'] = WHITE
  BY <1>1, <1>2 DEF WhiteChildren
<1>4. TypeOK' /\ ListsAgree' /\ AnswerIsRight' /\ Trail'
  BY <1>3 DEF IInv, TypeOK, ListsAgree, AnswerIsRight, Acyclic, Trail
<1>5. Position'
  BY <1>1, <1>3 DEF IInv, Position
<1>6. Coloured' /\ BlackIsAcyclic'
  BY <1>1 DEF IInv, Coloured, BlackIsAcyclic
<1>7. PathOnStack'
  BY <1>1, <1>3 DEF IInv, PathOnStack, Last, NoDuplicates
<1> QED BY <1>4, <1>5, <1>6, <1>7 DEF IInv

\* All children of the node on top are BLACK: they are not WHITE, and a GREY
\* one would be an edge back along the stack.
LEMMA TopIsDoneKeeps == ASSUME IInv, TopIsDone PROVE IInv'
<1> DEFINE n == Len(stack)
           t == Last(stack)
<1>1. /\ pc = "top" /\ op = "is_dag" /\ stack # <<>>
      /\ stack \in Seq(nodes) /\ nodes \subseteq Node
      /\ out \in [Node -> SUBSET nodes] /\ status \in [Node -> Colour]
      /\ in \in [Node -> SUBSET nodes]
      /\ \A u, v \in Node : u \in in[v] <=> v \in out[u]
      /\ WhiteChildren(t) = {}
  BY DEF IInv, TypeOK, Position, ListsAgree, TopIsDone
<1>2. /\ status' = [status EXCEPT ![t] = BLACK] /\ stack' = Front(stack)
      /\ UNCHANGED <<graph, pc, op, todo, start, seen, cur, answer, visits>>
  BY DEF TopIsDone
<1>3. /\ n \in Nat \ {0} /\ DOMAIN stack = 1..n /\ DOMAIN stack' = 1..(n - 1)
      /\ stack' \in Seq(nodes) /\ t = stack[n] /\ t \in nodes
      /\ \A i \in 1..(n - 1) : stack'[i] = stack[i]
  BY <1>1, <1>2, PopFacts
<1>4. /\ NoDuplicates(stack)
      /\ \A i \in 1..n : i # 1 => stack[i] \in out[stack[i - 1]]
      /\ \A i, j \in 1..n : i <= j => stack[i] \notin out[stack[j]]
  BY <1>1, <1>3 DEF IInv, PathOnStack
<1> HIDE DEF n, t
<1>5. ToSet(stack') = ToSet(stack) \ {t}
  <2>1. \A i \in 1..n : i \in 1..(n - 1) \/ i = n
    BY <1>3
  <2>2. ToSet(stack) \ {t} \subseteq ToSet(stack')
    BY <1>3, <2>1 DEF ToSet
  <2>3. ToSet(stack') \subseteq ToSet(stack)
    BY <1>3 DEF ToSet
  <2>4. t \notin ToSet(stack')
    BY <1>3, <1>4 DEF ToSet, NoDuplicates
  <2> QED BY <2>2, <2>3, <2>4
<1>6. \A v \in nodes : status'[v] = IF v = t THEN BLACK ELSE status[v]
  BY <1>1, <1>2
<1>7. status[t] = GREY
  <2>1. t \in ToSet(stack)
    BY <1>3 DEF ToSet
  <2> QED BY <2>1, <1>1, <1>3, DagColours
<1>8. \A u \in out[t] : u \in nodes /\ u # t /\ status[u] = BLACK
  <2> SUFFICES ASSUME NEW u \in out[t]
               PROVE  u \in nodes /\ u # t /\ status[u] = BLACK
    OBVIOUS
  <2>1. u \in nodes /\ u \notin ToSet(stack)
    BY <1>1, <1>3, <1>4 DEF ToSet
  <2>2. status[u] # WHITE
    BY <1>1 DEF WhiteChildren, t
  <2>3. status[u] # GREY /\ status[u] \in {WHITE, GREY, BLACK}
    BY <2>1, <1>1, DagColours
  <2>4. u # t
    BY <1>3, <2>1 DEF ToSet
  <2> QED BY <2>1, <2>2, <2>3, <2>4
<1> USE DEF graph
<1>9. TypeOK'
  <2>1. status' \in [Node -> Colour]
    BY <1>1, <1>2 DEF Colour
  <2> QED BY <1>1, <1>2, <1>3, <2>1 DEF IInv, TypeOK
<1>10. ListsAgree' /\ AnswerIsRight' /\ Trail' /\ Position'
  BY <1>1, <1>2 DEF IInv, ListsAgree, AnswerIsRight, Acyclic, Trail, Position
<1>11. Coloured'
  <2> SUFFICES ASSUME NEW v \in nodes
               PROVE  /\ status'[v] = GREY <=> v \in ToSet(stack')
                      /\ status'[v] = BLACK => \A u \in out[v] : status'[u] = BLACK
    BY <1>1, <1>2 DEF Coloured
  <2>1. status'[v] = GREY <=> v \in ToSet(stack')
    BY <1>1, <1>5, <1>6, DagColours DEF GREY, BLACK
  <2>2. ASSUME status'[v] = BLACK, NEW u \in out[v] PROVE status'[u] = BLACK
    <3>1. u \in nodes
      BY <1>1
    <3>2. status[u] = BLACK
      BY <2>2, <1>1, <1>6, <1>8, DagColours
    <3> QED BY <3>1, <3>2, <1>6
  <2> QED BY <2>1, <2>2
<1>12. PathOnStack'
  <2>1. /\ NoDuplicates(stack')
        /\ \A i, j \in 1..(n - 1) : i <= j => stack'[i] \notin out[stack'[j]]
    BY <1>3, <1>4 DEF NoDuplicates
  <2>2. ASSUME NEW i \in 1..(n - 1), i # 1 PROVE stack'[i] \in out[stack'[i - 1]]
    <3>1. i - 1 \in 1..(n - 1) /\ i \in 1..n
      BY <1>3, <2>2
    <3> QED BY <3>1, <2>2, <1>3, <1>4
  <2> QED BY <2>1, <2>2, <1>1, <1>2, <1>3 DEF PathOnStack
<1>13. BlackIsAcyclic'
  <2> SUFFICES ASSUME NEW C \in SUBSET nodes, C # {}, \A v \in C : status'[v] = BLACK
               PROVE  \E v \in C : in[v] \cap C = {}
    BY <1>2 DEF BlackIsAcyclic
  <2>1. CASE t \notin C
    <3>1. \A v \in C : status[v] = BLACK
      BY <2>1, <1>6
    <3> QED BY <3>1, <1>1 DEF IInv, BlackIsAcyclic
  <2>2. CASE t \in C
    <3> SUFFICES ASSUME NEW p \in C, p \in in[t] PROVE FALSE
      BY <2>2
    <3>1. p \in nodes /\ t \in out[p]
      BY <1>1, <1>3
    <3>2. p # t
      BY <3>1, <1>8
    <3>3. status[p] = BLACK
      BY <3>2, <1>6
    <3>4. status[t] = BLACK
      BY <3>1, <3>3, <1>1, DagColours
    <3> QED BY <3>4, <1>7 DEF GREY, BLACK
  <2> QED BY <2>1, <2>2
<1> QED BY <1>9, <1>10, <1>11, <1>12, <1>13 DEF IInv

LEMMA SearchDoneKeeps == ASSUME IInv, SearchDone PROVE IInv'
<1> USE DEF SearchDone, graph, traversal
<1>1. TypeOK' /\ ListsAgree' /\ AnswerIsRight' /\ Trail'
  BY DEF IInv, TypeOK, ListsAgree, AnswerIsRight, Acyclic, Trail
<1>2. Position'
  BY DEF IInv, Position
<1>3. Coloured' /\ PathOnStack' /\ BlackIsAcyclic'
  BY DEF IInv, Coloured, PathOnStack, BlackIsAcyclic
<1> QED BY <1>1, <1>2, <1>3 DEF IInv

\* Behind the loop over _node_list no WHITE node is left.
LEMMA NoneIsWhite ==
    ASSUME IInv, Covered, pc = "next", NEW v \in nodes \ todo
    PROVE  status[v] # WHITE
<1>1. stack = <<>> /\ cur = None /\ nodes \subseteq Node /\ in \in [Node -> SUBSET nodes]
  BY DEF IInv, Position, TypeOK
<1>2. v \in nodes /\ nodes \in SUBSET nodes /\ UpClosed(nodes)
  BY <1>1 DEF UpClosed
<1>3. nodes \cap (ToSet(stack) \cup {cur}) = {}
  BY <1>1, GraphAssumption DEF ToSet
<1> QED BY <1>2, <1>3 DEF Covered

\* When is_dag() returns true everything is BLACK, so nothing is on a loop.
LEMMA TraversalDoneKeeps == ASSUME IInv, Covered, TraversalDone PROVE IInv'
<1> USE DEF TraversalDone, graph, traversal
<1>1. TypeOK' /\ ListsAgree' /\ Trail'
  BY DEF IInv, TypeOK, ListsAgree, Trail
<1>2. Position'
  BY DEF IInv, Position
<1>3. Coloured' /\ PathOnStack' /\ BlackIsAcyclic'
  BY DEF IInv, Coloured, PathOnStack, BlackIsAcyclic
<1>4. AnswerIsRight'
  <2>1. CASE op = "is_dag"
    <3>1. ToSet(stack) = {}
      BY DEF IInv, Position, ToSet
    <3>2. \A v \in nodes : status[v] = BLACK
      BY <2>1, <3>1, DagColours, NoneIsWhite
    <3>3. Acyclic
      BY <2>1, <3>2 DEF IInv, BlackIsAcyclic, Acyclic
    <3> QED BY <2>1, <3>3 DEF AnswerIsRight, Acyclic
  <2>2. CASE op # "is_dag"
    BY <2>2 DEF IInv, AnswerIsRight, Acyclic
  <2> QED BY <2>1, <2>2
<1> QED BY <1>1, <1>2, <1>3, <1>4 DEF IInv

-----------------------------------------------------------------------------
(* The theorems.                                                           *)

LEMMA GraphInit == Init => IInv
<1> SUFFICES ASSUME Init PROVE IInv
  OBVIOUS
<1>1. TypeOK
  BY DEF Init, TypeOK, Colour, NoVisits
<1>2. ListsAgree /\ Position /\ Coloured /\ BlackIsAcyclic /\ Trail /\ AnswerIsRight
  BY DEF Init, ListsAgree, Position, Coloured, BlackIsAcyclic, Trail, AnswerIsRight
<1>3. PathOnStack
  BY DEF Init, PathOnStack, NoDuplicates
<1> QED BY <1>1, <1>2, <1>3 DEF IInv

LEMMA GraphNext == IInv /\ Covered /\ [Next]_vars => IInv'
<1> SUFFICES ASSUME IInv, Covered, [Next]_vars PROVE IInv'
  OBVIOUS
<1>1. CASE Editing
  BY <1>1, EditingKeepsRest
<1>2. ASSUME NEW kind \in {"dfs", "is_dag"}, Traverse(kind) PROVE IInv'
  BY <1>2, TraverseKeeps
<1>3. ASSUME NEW v \in Node, NextRoot(v) \/ SkipNode(v) PROVE IInv'
  BY <1>3, NextRootKeeps, SkipNodeKeeps
<1>4. CASE Climb
  BY <1>4, ClimbKeeps
<1>5. CASE SourceFound \/ ClimbedALoop
  BY <1>5, SearchKeeps DEF SourceFound, ClimbedALoop
<1>6. CASE Walk
  BY <1>6, WalkKeeps
<1>7. CASE Descend \/ LoopDetected \/ TopGoesOn \/ TopIsDone
  BY <1>7, DescendKeeps, LoopDetectedKeeps, TopGoesOnKeeps, TopIsDoneKeeps
<1>8. CASE SearchDone \/ TraversalDone
  BY <1>8, SearchDoneKeeps, TraversalDoneKeeps
<1>9. CASE UNCHANGED vars
  <2> USE <1>9 DEF vars, graph, traversal
  <2>1. TypeOK' /\ ListsAgree' /\ Position'
    BY DEF IInv, TypeOK, ListsAgree, Position
  <2>2. Coloured' /\ Trail'
    BY DEF IInv, Coloured, ToSet, Trail, UpClosed
  <2>3. PathOnStack'
    BY DEF IInv, PathOnStack, NoDuplicates, Last
  <2>4. BlackIsAcyclic' /\ AnswerIsRight'
    BY DEF IInv, BlackIsAcyclic, AnswerIsRight, Acyclic
  <2> QED BY <2>1, <2>2, <2>3, <2>4 DEF IInv
<1> QED
  BY <1>1, <1>2, <1>3, <1>4, <1>5, <1>6, <1>7, <1>8, <1>9 DEF Next, Travel

\* What is not BLACK after a step is not made from anything that is, unless that
\* is on the stack of dfs().  So if a set of nodes is up-closed and off the new
\* stack, so is what is not BLACK of it, and the old stack and p met that.
LEMMA StillCovered ==
    ASSUME IInv, IInv', Covered, pc # "idle", pc' # "idle",
           op' = op, nodes' = nodes, in' = in, todo' = todo, cur = None,
           NEW v \in nodes \ todo, status[v] = WHITE, status'[v] = WHITE,
           \A u \in ToSet(stack) : u \in ToSet(stack') \/ status'[u] = BLACK,
           NEW S \in SUBSET nodes, v \in S, UpClosed(S)
    PROVE  S \cap ToSet(stack') # {}
<1> SUFFICES ASSUME S \cap ToSet(stack') = {} PROVE FALSE
  OBVIOUS
<1> DEFINE T == {x \in S : status'[x] # BLACK}
<1>1. v \in T /\ T \in SUBSET nodes
  BY DEF WHITE, BLACK
<1>2. ASSUME NEW x \in T, NEW y \in in[x] PROVE y \in T
  <2>1. x \in nodes /\ y \in S /\ y \in nodes /\ x \in Node /\ y \in Node
    BY <1>2 DEF UpClosed, IInv, TypeOK
  <2>2. x \in out'[y]
    BY <1>2, <2>1 DEF IInv, ListsAgree
  <2>3. ASSUME status'[y] = BLACK PROVE FALSE
    <3>1. y \notin ToSet(stack')
      BY <2>1
    <3>2. \A u \in out'[y] : status'[u] = BLACK
      BY <2>1, <2>3, <3>1 DEF IInv, Coloured
    <3> QED BY <1>2, <2>2, <3>2
  <2> QED BY <2>1, <2>3
<1>3. UpClosed(T)
  BY <1>2 DEF UpClosed
<1> HIDE DEF T
<1>4. T \cap (ToSet(stack) \cup {cur}) # {}
  BY <1>1, <1>3 DEF Covered
<1>5. None \notin T
  BY <1>1, GraphAssumption DEF IInv, TypeOK
<1> QED BY <1>4, <1>5 DEF T

LEMMA CoveredNext == IInv /\ IInv' /\ Covered /\ [Next]_vars => Covered'
<1> SUFFICES ASSUME IInv, IInv', Covered, [Next]_vars, pc' # "idle" PROVE Covered'
  BY DEF Covered
<1>1. CASE Editing
  BY <1>1 DEF Editing, AddNode, AddEdge, RemoveNode, RemoveEdge, SetRecipe, Edit, IInv,
              Position
<1>2. ASSUME NEW kind \in {"dfs", "is_dag"}, Traverse(kind) PROVE Covered'
  BY <1>2 DEF Traverse, graph, Covered
<1>3. ASSUME NEW v \in Node, NextRoot(v) PROVE Covered'
  <2>1. /\ pc = "next" /\ nodes' = nodes /\ status' = status /\ in' = in /\ stack' = stack
        /\ todo' = todo \ {v} /\ cur' = v /\ start' = v
    BY <1>3 DEF NextRoot, graph
  <2>2. \A u \in nodes \ todo' : status'[u] = WHITE => u = v
    BY <2>1, NoneIsWhite
  <2> QED BY <2>1, <2>2 DEF Covered
<1>4. ASSUME NEW v \in Node, SkipNode(v) PROVE Covered'
  <2>1. /\ pc = "next" /\ pc' = pc /\ nodes' = nodes /\ status' = status
        /\ todo' = todo \ {v} /\ status[v] # WHITE
    BY <1>4 DEF SkipNode, graph
  <2>2. \A u \in nodes \ todo' : status'[u] # WHITE
    BY <2>1, NoneIsWhite
  <2> QED BY <2>1, <2>2 DEF Covered
<1>5. CASE Climb
  <2>1. /\ pc = "climb" /\ pc' = pc /\ nodes' = nodes /\ status' = status /\ in' = in
        /\ stack' = stack /\ todo' = todo /\ start' = start /\ cur' \in in[cur]
    BY <1>5 DEF Climb, graph
  <2>2. ToSet(stack) = {}
    BY <2>1 DEF IInv, Position, ToSet
  <2>3. ASSUME NEW v \in nodes \ todo, status[v] = WHITE,
               NEW S \in SUBSET nodes, v \in S, UpClosed(S)
        PROVE  cur' \in S
    <3>1. cur \in S
      BY <2>1, <2>2, <2>3 DEF Covered
    <3> QED BY <2>1, <2>3, <3>1 DEF UpClosed
  <2> QED BY <2>1, <2>3 DEF Covered, UpClosed
<1>6. CASE SourceFound \/ ClimbedALoop
  <2>1. PICK p \in {cur, start} : Search(p)
    BY <1>6 DEF SourceFound, ClimbedALoop
  <2>2. /\ pc = "climb" /\ pc' # "climb" /\ nodes' = nodes /\ in' = in /\ todo' = todo
        /\ p \in ToSet(stack') \cup {cur'}
        /\ \A u \in nodes : status'[u] = WHITE => status[u] = WHITE
    <3>1. pc = "climb" /\ pc' # "climb" /\ nodes' = nodes /\ in' = in /\ todo' = todo
      BY <1>6, <2>1 DEF SourceFound, ClimbedALoop, Search, graph
    <3>2. p \in ToSet(stack') \cup {cur'}
      BY <2>1 DEF Search, ToSet
    <3>3. \A u \in nodes : status'[u] = WHITE => status[u] = WHITE
      BY <2>1 DEF Search, IInv, TypeOK, WHITE, BLACK
    <3> QED BY <3>1, <3>2, <3>3
  <2>3. ToSet(stack) = {}
    BY <2>2 DEF IInv, Position, ToSet
  <2>4. ASSUME NEW v \in nodes \ todo, status[v] = WHITE,
               NEW S \in SUBSET nodes, v \in S, UpClosed(S)
        PROVE  p \in S
    <3>1. v = start
      BY <2>2, <2>4 DEF Covered
    <3>2. cur \in S
      BY <2>2, <2>3, <2>4 DEF Covered
    <3> QED BY <2>4, <3>1, <3>2
  <2> QED BY <2>2, <2>4 DEF Covered, UpClosed
<1>7. CASE Walk \/ TopIsDone
  <2>1. /\ pc # "idle" /\ pc' # "climb" /\ op' = op /\ nodes' = nodes /\ in' = in
        /\ todo' = todo /\ cur = None /\ stack # <<>> /\ stack \in Seq(nodes)
        /\ status \in [Node -> Colour] /\ nodes \subseteq Node
    BY <1>7 DEF Walk, TopIsDone, graph, IInv, TypeOK, Position
  <2>2. Last(stack) \in nodes /\ ToSet(stack) = ToSet(Front(stack)) \cup {Last(stack)}
    BY <2>1, PopFacts, PopElements
  <2>3. /\ ToSet(Front(stack)) \subseteq ToSet(stack')
        /\ status'[Last(stack)] = BLACK
        /\ \A v \in nodes : status'[v] = WHITE => status[v] = WHITE
    <3>1. CASE Walk
      <4> DEFINE white == WhiteChildren(Last(stack))
      <4>1. status' = [v \in Node |-> IF v \in white THEN BLACK ELSE status[v]]
        BY <3>1 DEF Walk
      <4>2. status[Last(stack)] = BLACK
        BY <2>1, <2>2, <3>1 DEF Walk, IInv, Position, Coloured
      <4>3. ToSet(Front(stack)) \subseteq ToSet(stack')
        <5>1. white \subseteq nodes /\ IsFiniteSet(white)
          <6>1. white \subseteq nodes
            BY <2>1, <2>2 DEF WhiteChildren, IInv, TypeOK
          <6> QED BY <2>1, <6>1, FS_Subset, NodeAssumption
        <5>2. PICK s \in SetToSeqs(white) : stack' = Front(stack) \o s
          BY <3>1 DEF Walk
        <5>3. s \in Seq(white)
          BY <5>1, <5>2, EnumerationElements
        <5>4. s \in Seq(nodes) /\ Front(stack) \in Seq(nodes)
          BY <2>1, <5>1, <5>3, PopFacts
        <5> QED BY <5>2, <5>4, ConcatElements
      <4> HIDE DEF white
      <4> QED BY <2>1, <2>2, <4>1, <4>2, <4>3 DEF WHITE, BLACK
    <3>2. CASE TopIsDone
      BY <2>1, <2>2, <3>2 DEF TopIsDone, WHITE, BLACK
    <3> QED BY <1>7, <3>1, <3>2
  <2>4. \A u \in ToSet(stack) : u \in ToSet(stack') \/ status'[u] = BLACK
    BY <2>2, <2>3
  <2>5. ASSUME NEW v \in nodes \ todo, status'[v] = WHITE,
               NEW S \in SUBSET nodes, v \in S, UpClosed(S)
        PROVE  S \cap ToSet(stack') # {}
    BY <2>1, <2>3, <2>4, <2>5, StillCovered
  <2> QED BY <2>1, <2>5 DEF Covered, UpClosed
<1>8. CASE Descend \/ TopGoesOn
  <2>1. /\ pc # "idle" /\ pc' # "climb" /\ nodes' = nodes /\ in' = in /\ todo' = todo
        /\ stack \in Seq(nodes) /\ status \in [Node -> Colour] /\ nodes \subseteq Node
    BY <1>8 DEF Descend, TopGoesOn, graph, IInv, TypeOK
  <2>2. /\ \A S \in SUBSET nodes : S \cap (ToSet(stack) \cup {cur}) # {} =>
                                  S \cap (ToSet(stack') \cup {cur'}) # {}
        /\ \A v \in nodes : status'[v] = WHITE => status[v] = WHITE
    <3>1. CASE Descend
      <4>1. /\ stack' = Append(stack, cur) /\ cur \in nodes
            /\ status' = [status EXCEPT ![cur] = GREY]
        BY <3>1 DEF Descend, IInv, Position
      <4>2. ToSet(stack') = ToSet(stack) \cup {cur}
        BY <2>1, <4>1, PushElements
      <4> QED BY <2>1, <4>1, <4>2 DEF WHITE, GREY
    <3>2. CASE TopGoesOn
      <4>1. stack' = stack /\ status' = status /\ cur = None
        BY <3>2 DEF TopGoesOn, IInv, Position
      <4> QED BY <2>1, <4>1, GraphAssumption
    <3> QED BY <1>8, <3>1, <3>2
  <2> QED BY <2>1, <2>2 DEF Covered, UpClosed
<1>9. CASE LoopDetected \/ TraversalDone
  BY <1>9 DEF LoopDetected, TraversalDone
<1>10. CASE SearchDone
  BY <1>10 DEF SearchDone, graph, traversal, Covered, UpClosed
<1>11. CASE UNCHANGED vars
  BY <1>11 DEF vars, graph, traversal, Covered, UpClosed
<1> QED
  BY <1>1, <1>2, <1>3, <1>4, <1>5, <1>6, <1>7, <1>8, <1>9, <1>10, <1>11 DEF Next, Travel

THEOREM GraphInvariant == Spec => [](IInv /\ Covered)
<1>1. Init => IInv /\ Covered
  BY GraphInit DEF Init, Covered
<1>2. IInv /\ Covered /\ [Next]_vars => IInv' /\ Covered'
  BY GraphNext, CoveredNext
<1> QED BY <1>1, <1>2, PTL DEF Spec

\* TypeOK is an invariant: only keys of nodes are in the edge lists, on the stack
\* and in the locals of a traversal.
THEOREM GraphTyping == Spec => []TypeOK
<1>1. IInv => TypeOK
  BY DEF IInv
<1> QED BY <1>1, GraphInvariant, PTL

\* The edge lists of add_edge(), remove_edge() and remove_node() never disagree:
\* u is in the _in_list of v exactly if v is in the _out_list of u.
THEOREM EdgeListsAgree == Spec => []ListsAgree
<1>1. IInv => ListsAgree
  BY DEF IInv
<1> QED BY <1>1, GraphInvariant, PTL

\* is_dag() returns true exactly on graphs without loops, self-loops included,
\* whatever the order of the edge lists.
THEOREM IsDagCorrect == Spec => []IsDagIsRight
<1>1. IInv => IsDagIsRight
  BY DEF IInv, AnswerIsRight, IsDagIsRight
<1> QED BY <1>1, GraphInvariant, PTL

\* The comment in is_dag() is right: between two searches a WHITE node has no
\* BLACK ancestor, so source_of() ends at a node not searched before.
THEOREM RootsAreWhite == Spec => []WhiteHasWhiteParents
  BY WhiteAbove, GraphInvariant, PTL

\* source_of() returns a node without parents, or the node it was called on if
\* among what that is made from there is a loop.
THEOREM SourcesFound == Spec => SearchesFromSources
<1> DEFINE FromSource ==
      pc = "climb" /\ pc' # "climb" =>
        LET p == IF pc' = "walk" THEN stack'[1] ELSE cur' IN
        \/ in[p] = {}
        \/ /\ p = start
           /\ \E C \in SUBSET MadeFrom(start) :
                C # {} /\ \A v \in C : in[v] \cap C # {}
<1>1. IInv /\ [Next]_vars => [FromSource]_vars
  <2> SUFFICES ASSUME IInv, Next, pc = "climb", pc' # "climb"
               PROVE  FromSource
    OBVIOUS
  <2>1. SourceFound \/ ClimbedALoop
    BY DEF Next, Editing, AddNode, RemoveNode, SetRecipe, AddEdge, RemoveEdge, Edit,
           Traverse, Travel, NextRoot, SkipNode, Climb, Walk, Descend, LoopDetected,
           TopGoesOn, TopIsDone, SearchDone, TraversalDone, graph, traversal
  <2>2. CASE SourceFound
    BY <2>2 DEF SourceFound, Search
  <2>3. CASE ClimbedALoop
    <3> DEFINE C == seen \cup {cur}
    <3>1. C # {} /\ \A v \in C : in[v] \cap C # {}
      BY <2>3 DEF ClimbedALoop, IInv, Trail
    <3>2. C \subseteq MadeFrom(start)
      BY DEF IInv, TypeOK, Position, Trail, UpClosed, MadeFrom
    <3>3. (IF pc' = "walk" THEN stack'[1] ELSE cur') = start
      BY <2>3 DEF ClimbedALoop, Search
    <3> HIDE DEF C
    <3> QED BY <3>1, <3>2, <3>3
  <2> QED BY <2>1, <2>2, <2>3
<1> QED BY <1>1, GraphInvariant, PTL DEF Spec, SearchesFromSources

-----------------------------------------------------------------------------
(* How often dfs() prints a node.                                          *)

\* Once it is BLACK and off the stack, and not before; nothing is on the stack
\* twice, so that nothing is popped twice.
Printed ==
    op = "dfs" /\ pc # "idle" =>
        /\ IsInjective(stack)
        /\ \A v \in nodes :
             visits[v] = IF status[v] = BLACK /\ v \notin ToSet(stack) THEN 1 ELSE 0

LEMMA TraversePrints ==
    ASSUME IInv, NEW kind \in {"dfs", "is_dag"}, Traverse(kind)
    PROVE  Printed'
<1>1. stack = <<>> /\ stack' = <<>> /\ nodes \subseteq Node /\ nodes' = nodes
  BY DEF IInv, Position, TypeOK, Traverse, graph
<1>2. \A v \in nodes : status'[v] # BLACK /\ visits'[v] = 0
  BY <1>1 DEF Traverse, NoVisits, WHITE, BLACK
<1>3. IsInjective(stack')
  BY <1>1 DEF IsInjective
<1> QED BY <1>1, <1>2, <1>3 DEF Printed

LEMMA SearchPrints ==
    ASSUME IInv, Printed, pc = "climb", NEW p \in {start, cur}, Search(p)
    PROVE  Printed'
<1>1. /\ p \in nodes /\ p \in Node /\ status[p] = WHITE /\ stack = <<>>
      /\ nodes' = nodes /\ visits' = visits /\ op' = op
      /\ status \in [Node -> Colour] /\ nodes \subseteq Node
  BY DEF IInv, Position, TypeOK, Search, graph
<1>2. SUFFICES ASSUME op = "dfs" PROVE Printed'
  BY <1>1 DEF Printed
<1>3. stack' = <<p>> /\ status' = [status EXCEPT ![p] = BLACK]
  BY <1>2 DEF Search
<1>4. ToSet(stack) = {} /\ ToSet(stack') = {p} /\ IsInjective(stack')
  BY <1>1, <1>3 DEF ToSet, IsInjective
<1>5. \A v \in nodes : visits[v] = IF status[v] = BLACK THEN 1 ELSE 0
  BY <1>1, <1>2, <1>4 DEF Printed
<1>6. \A v \in nodes : status'[v] = IF v = p THEN BLACK ELSE status[v]
  BY <1>1, <1>3
<1>7. \A v \in nodes :
        visits'[v] = IF status'[v] = BLACK /\ v \notin ToSet(stack') THEN 1 ELSE 0
  BY <1>1, <1>4, <1>5, <1>6 DEF WHITE, BLACK
<1> QED BY <1>1, <1>4, <1>7 DEF Printed

LEMMA WalkPrints == ASSUME IInv, Printed, Walk PROVE Printed'
<1> DEFINE u == Last(stack)
           white == WhiteChildren(u)
<1>1. /\ stack \in Seq(nodes) /\ stack # <<>> /\ nodes \subseteq Node
      /\ op = "dfs" /\ pc = "walk" /\ nodes' = nodes
      /\ out \in [Node -> SUBSET nodes] /\ status \in [Node -> Colour]
      /\ visits \in [Node -> Nat]
      /\ status' = [v \in Node |-> IF v \in white THEN BLACK ELSE status[v]]
      /\ visits' = [visits EXCEPT ![u] = @ + 1]
  BY DEF IInv, TypeOK, Position, Walk, graph
<1>2. u \in nodes /\ Front(stack) \in Seq(nodes)
  BY <1>1, PopFacts
<1>3. white \subseteq nodes /\ \A v \in white : status[v] = WHITE
  BY <1>1, <1>2 DEF WhiteChildren
<1>4. PICK s \in SetToSeqs(white) : stack' = Front(stack) \o s
  BY DEF Walk
<1> HIDE DEF u, white
<1>5. s \in Seq(nodes) /\ ToSet(s) = white /\ IsInjective(s)
  <2>1. IsFiniteSet(white)
    BY <1>1, <1>3, FS_Subset, NodeAssumption
  <2>2. s \in Seq(white) /\ ToSet(s) = white /\ IsInjective(s)
    BY <1>4, <2>1, EnumerationElements
  <2> QED BY <2>2, <1>3
<1>6. /\ IsInjective(stack)
      /\ \A v \in nodes :
           visits[v] = IF status[v] = BLACK /\ v \notin ToSet(stack) THEN 1 ELSE 0
  BY <1>1 DEF Printed
<1>7. /\ ToSet(stack) = ToSet(Front(stack)) \cup {u}
      /\ u \notin ToSet(Front(stack)) /\ IsInjective(Front(stack))
  BY <1>1, <1>6, PopElements, PopInjective DEF u
<1>8. \A v \in nodes : v \in ToSet(stack) => status[v] = BLACK
  BY <1>1 DEF IInv, Coloured
<1>9. white \cap ToSet(stack) = {}
  BY <1>3, <1>8 DEF WHITE, BLACK
<1>10. ToSet(stack') = ToSet(Front(stack)) \cup white
  BY <1>2, <1>4, <1>5, ConcatElements
<1>11. IsInjective(stack')
  BY <1>2, <1>4, <1>5, <1>7, <1>9, ConcatInjective
<1>12. ASSUME NEW v \in nodes
       PROVE  visits'[v] = IF status'[v] = BLACK /\ v \notin ToSet(stack') THEN 1 ELSE 0
  <2>1. v \in Node /\ status'[v] = (IF v \in white THEN BLACK ELSE status[v])
    BY <1>1
  <2>2. visits'[v] = IF v = u THEN visits[u] + 1 ELSE visits[v]
    BY <1>1, <2>1
  <2>3. CASE v = u
    <3>1. visits[u] = 0 /\ status[u] = BLACK
      BY <1>2, <1>6, <1>7, <1>8
    <3>2. v \notin ToSet(stack') /\ status'[v] = BLACK
      BY <3>1, <2>1, <2>3, <1>7, <1>9, <1>10
    <3> QED BY <3>1, <3>2, <2>2, <2>3
  <2>4. CASE v \in white
    <3>1. v # u /\ visits[v] = 0 /\ v \in ToSet(stack')
      BY <2>4, <1>3, <1>6, <1>7, <1>9, <1>10 DEF WHITE, BLACK
    <3> QED BY <3>1, <2>2
  <2>5. CASE v # u /\ v \notin white
    <3>1. v \in ToSet(stack') <=> v \in ToSet(stack)
      BY <2>5, <1>7, <1>10
    <3> QED BY <3>1, <2>1, <2>2, <2>5, <1>6
  <2> QED BY <2>3, <2>4, <2>5
<1> QED BY <1>1, <1>11, <1>12 DEF Printed

LEMMA PrintedNext == IInv /\ Printed /\ [Next]_vars => Printed'
<1> SUFFICES ASSUME IInv, Printed, [Next]_vars PROVE Printed'
  OBVIOUS
<1>1. CASE Editing
  <2>1. pc' = "idle"
    BY <1>1 DEF Editing, AddNode, RemoveNode, SetRecipe, AddEdge, RemoveEdge, Edit
  <2> QED BY <2>1 DEF Printed
<1>2. ASSUME NEW kind \in {"dfs", "is_dag"}, Traverse(kind) PROVE Printed'
  BY <1>2, TraversePrints
<1>3. ASSUME NEW v \in Node, NextRoot(v) \/ SkipNode(v) PROVE Printed'
  BY <1>3 DEF NextRoot, SkipNode, graph, Printed
<1>4. CASE Climb
  BY <1>4 DEF Climb, graph, Printed
<1>5. CASE SourceFound \/ ClimbedALoop
  BY <1>5, SearchPrints DEF SourceFound, ClimbedALoop
<1>6. CASE Walk
  BY <1>6, WalkPrints
<1>7. CASE Descend \/ LoopDetected \/ TopGoesOn \/ TopIsDone
  <2>1. op' # "dfs"
    BY <1>7 DEF IInv, Position, Descend, LoopDetected, TopGoesOn, TopIsDone
  <2> QED BY <2>1 DEF Printed
<1>8. CASE SearchDone \/ TraversalDone
  BY <1>8 DEF SearchDone, TraversalDone, graph, traversal, Printed
<1>9. CASE UNCHANGED vars
  BY <1>9 DEF vars, graph, traversal, Printed
<1> QED
  BY <1>1, <1>2, <1>3, <1>4, <1>5, <1>6, <1>7, <1>8, <1>9 DEF Next, Travel

\* dfs() prints every node of the graph exactly once, with loops in it or
\* without, whatever the order of the edge lists.
THEOREM DfsPrintsOnce == Spec => DfsVisitsOnce
<1> DEFINE EachOnce ==
      op = "dfs" /\ pc = "next" /\ pc' = "idle" => \A v \in nodes : visits[v] = 1
<1>1. Init => Printed
  BY DEF Init, Printed
<1>2. IInv /\ Covered /\ Printed /\ [Next]_vars => [EachOnce]_vars
  <2> SUFFICES ASSUME IInv, Covered, Printed, Next, op = "dfs", pc = "next", pc' = "idle",
                      NEW v \in nodes
               PROVE  visits[v] = 1
    OBVIOUS
  <2>1. TraversalDone
    BY DEF Next, Editing, AddNode, RemoveNode, SetRecipe, AddEdge, RemoveEdge, Edit,
           Traverse, Travel, NextRoot, SkipNode, Climb, SourceFound, ClimbedALoop, Walk,
           Descend, LoopDetected, TopGoesOn, TopIsDone, SearchDone
  <2>2. stack = <<>> /\ v \notin ToSet(stack)
    BY DEF IInv, Position, ToSet
  <2>3. status[v] = BLACK
    <3>1. status[v] # WHITE
      BY <2>1, NoneIsWhite DEF TraversalDone
    <3> QED BY <3>1 DEF IInv, TypeOK, Coloured, Colour
  <2> QED BY <2>2, <2>3 DEF Printed
<1> QED BY <1>1, <1>2, PrintedNext, GraphInvariant, PTL DEF Spec, DfsVisitsOnce
=============================================================================
