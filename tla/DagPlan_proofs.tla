--------------------------- MODULE DagPlan_proofs ---------------------------
(***************************************************************************)
(* Proofs about DagPlan, for every set of graphs, every finite set of      *)
(* nodes, any number of requests and all file times: a request fails       *)
(* exactly on a loop, what it lists can be built from front to back, and   *)
(* the plan that preprocessing makes of the list is what DagSchedule       *)
(* starts from.                                                            *)
(***************************************************************************)
EXTENDS DagPlan, ListFacts, FiniteSetTheorems, TLAPS

-----------------------------------------------------------------------------
(* The inductive invariant.                                                *)

L == ToSet(taskList)
OnStack == ToSet(stack)
Goal == Last(targets)
Searching == pc \in {"idle", "descend", "top"}

\* What v is made from along the edges E, as Ancestors(v); whether that holds a
\* loop; and when a set of nodes can be built on its own.
Above(E, v) ==
    {u \in Node : \A S \in SUBSET Node :
        (v \in S /\ \A x \in S : Parents(E, x) \subseteq S) => u \in S}
Doomed(E, v) ==
    \E C \in SUBSET Above(E, v) : C # {} /\ \A x \in C : Parents(E, x) \cap C # {}
Closed(E, S) == \A v \in S : Parents(E, v) \subseteq S
Acyclic(E, S) ==
    \A C \in SUBSET S : C # {} => \E v \in C : Parents(E, v) \cap C = {}

\* Where a request stands.
Position ==
    /\ pc \notin {"descend", "top"} => stack = <<>>
    /\ pc \in {"descend", "top"} => targets # <<>>
    /\ pc = "descend" => /\ cur \in Node
                         /\ IF stack = <<>> THEN cur = Goal ELSE status[cur] = WHITE
    /\ stack # <<>> => stack[1] = Goal
    /\ pc = "top" /\ stack = <<>> => Goal \in L

\* What the colours mean during a search and between two: BLACK is listed, the
\* stack is GREY, and a listed node on the stack is the target asked for again.
Colours ==
    Searching =>
        /\ \A v \in Node : status[v] = BLACK => v \in L
        /\ \A v \in L : status[v] = BLACK \/ v \in OnStack
        /\ \A v \in OnStack : status[v] = GREY

\* The stack leads from the target upwards, never twice through the same node,
\* and no edge leads from a node on it back to one below.
StackIsPath ==
    /\ NoDuplicates(stack)
    /\ \A i \in DOMAIN stack :
         i # 1 => stack[i] \in ParentsOf(stack[i - 1]) /\ stack[i] \notin L
    /\ pc = "descend" /\ stack # <<>> => cur \in ParentsOf(Last(stack))
    /\ \A i, j \in DOMAIN stack : i <= j => stack[j] \in Above(dag.edges, stack[i])
    /\ \A i \in DOMAIN stack : \A u \in ParentsOf(stack[i]) :
         status[u] = GREY => \E j \in DOMAIN stack : i < j /\ stack[j] = u

\* What is listed needs nothing that is not, and holds no loop.
ListStandsAlone ==
    pc \in {"idle", "descend", "top", "visit"} =>
        Closed(dag.edges, L) /\ Acyclic(dag.edges, L)

\* A node that a failed request has left GREY is made from a loop.
LeftGreyIsDoomed ==
    Searching => \A v \in Node \ OnStack : status[v] = GREY => Doomed(dag.edges, v)

\* What the last answer says of its target.
Answered ==
    pc = "idle" /\ targets # <<>> => IF result THEN Goal \in L ELSE Doomed(dag.edges, Goal)

SearchInv ==
    /\ TypeOK /\ Position /\ Colours /\ StackIsPath
    /\ ListStandsAlone /\ LeftGreyIsDoomed /\ Answered /\ FeasibleForOneWorker

\* A listed node that was asked for again is still to be listed for it.
Due(v) ==
    IF /\ pc \in {"descend", "top"} /\ v = Goal /\ v \in L
       /\ pc = "descend" \/ stack # <<>>
    THEN 1 ELSE 0

\* How often a node is listed, and is still to be listed.
Counted(v) ==
    IF v \in L THEN Occurrences(taskList, v) + Due(v) = 1 + again[v] ELSE again[v] = 0

Repeats ==
    /\ \A v \in Node : Occurrences(taskList, v) <= 1 + again[v]
    /\ pc \in {"idle", "descend", "top", "visit"} => \A v \in Node : Counted(v)

\* As long as every request is for a WHITE node and succeeds, nothing is listed
\* twice, and GREY is the stack.
Fresh ==
    Searching /\ sound =>
        /\ NoDuplicates(taskList)
        /\ OnStack \cap L = {}
        /\ pc = "descend" => status[cur] = WHITE
        /\ \A v \in Node : status[v] = GREY => v \in OnStack

\* What makes a target outdated by itself.
Seed(v) ==
    \/ v \in dag.phony
    \/ v \in dag.recipe /\ \E u \in ParentsOf(v) : lmt[u] > lmt[v]

\* What the first pass says of a node when it has been there.
Judged(v) ==
    /\ status[v] # WHITE <=> Seed(v) \/ DarkParents(v) # {}
    /\ status[v] # WHITE =>
         /\ wait[v] = Cardinality(DarkParents(v))
         /\ status[v] = IF DarkParents(v) = {} THEN GREY ELSE BLACK

\* The first pass, half-way.
Visits == {taskList[i] : i \in 1..(todo - 1)}

Judging ==
    pc = "visit" /\ sound =>
        /\ todo \in 1..(Len(taskList) + 1)
        /\ NoDuplicates(taskList)
        /\ asked = L
        /\ \A v \in Node \ L : status[v] = WHITE
        /\ \A v \in Visits : Judged(v)

-----------------------------------------------------------------------------
(* What a node is made from.                                               *)

LEMMA AboveIsAncestors ==
    ASSUME NEW v
    PROVE  /\ Ancestors(v) = Above(dag.edges, v)
           /\ HasLoop(Ancestors(v)) <=> Doomed(dag.edges, v)
BY DEF Ancestors, Above, HasLoop, Doomed, ParentsOf

LEMMA AboveSelf ==
    ASSUME NEW E, NEW v \in Node
    PROVE  v \in Above(E, v) /\ Parents(E, v) \subseteq Above(E, v)
BY DEF Above, Parents

\* The least closed set: it is closed, and every closed set with v holds it.
LEMMA AboveIsClosed ==
    ASSUME NEW E, NEW v
    PROVE  Above(E, v) \subseteq Node /\ Closed(E, Above(E, v))
BY DEF Above, Parents, Closed

LEMMA AboveIsLeast ==
    ASSUME NEW E, NEW S \in SUBSET Node, Closed(E, S), NEW v \in S
    PROVE  Above(E, v) \subseteq S
BY DEF Above, Closed

LEMMA AboveTransitive ==
    ASSUME NEW E, NEW v, NEW u \in Above(E, v)
    PROVE  Above(E, u) \subseteq Above(E, v)
BY AboveIsClosed, AboveIsLeast

\* What is made from something made from a loop is made from a loop.
LEMMA DoomedBelow ==
    ASSUME NEW E, NEW v, NEW u \in Above(E, v), Doomed(E, u)
    PROVE  Doomed(E, v)
BY AboveTransitive DEF Doomed

LEMMA FoundedIsNotDoomed ==
    ASSUME NEW E, NEW S \in SUBSET Node, Closed(E, S), Acyclic(E, S), NEW v \in S
    PROVE  ~Doomed(E, v)
BY AboveIsLeast DEF Doomed, Acyclic

\* A node put onto a foundation that has all its parents.
LEMMA FoundationGrows ==
    ASSUME NEW E, NEW S \in SUBSET Node, Closed(E, S), Acyclic(E, S),
           NEW v \in Node, Parents(E, v) \subseteq S
    PROVE  Closed(E, S \cup {v}) /\ Acyclic(E, S \cup {v})
<1>1. Closed(E, S \cup {v})
  BY DEF Closed
<1>2. CASE v \in S
  <2>1. S \cup {v} = S
    BY <1>2
  <2> QED BY <2>1
<1>3. CASE v \notin S
  <2> SUFFICES ASSUME NEW C \in SUBSET (S \cup {v}), C # {}
               PROVE  \E x \in C : Parents(E, x) \cap C = {}
    BY <1>1 DEF Acyclic
  <2>1. CASE C \cap S = {}
    BY <1>3, <2>1
  <2>2. CASE C \cap S # {}
    <3>1. PICK x \in C \cap S : Parents(E, x) \cap (C \cap S) = {}
      BY <2>2 DEF Acyclic
    <3>2. Parents(E, x) \subseteq S
      BY DEF Closed
    <3> QED BY <3>1, <3>2
  <2> QED BY <2>1, <2>2
<1> QED BY <1>2, <1>3

-----------------------------------------------------------------------------
(* Requests.                                                               *)

LEMMA SearchInit == Init => SearchInv
<1> SUFFICES ASSUME Init PROVE SearchInv
  OBVIOUS
<1> USE DEF Init
<1>1. TypeOK
  BY BoundAssumption DEF TypeOK, Colour, PC
<1>2. L = {} /\ OnStack = {}
  BY DEF L, OnStack, ToSet
<1>3. Position /\ Colours /\ Answered /\ FeasibleForOneWorker
  BY <1>2 DEF Position, Colours, Answered, FeasibleForOneWorker, WHITE, GREY, BLACK
<1>4. StackIsPath
  BY DEF StackIsPath, NoDuplicates
<1>5. ListStandsAlone
  BY <1>2 DEF ListStandsAlone, Closed, Acyclic
<1>6. LeftGreyIsDoomed
  BY DEF LeftGreyIsDoomed, WHITE, GREY
<1> QED BY <1>1, <1>3, <1>4, <1>5, <1>6 DEF SearchInv

\* The stack and the list while a request is served, in terms of positions.
LEMMA SearchFacts ==
    ASSUME SearchInv
    PROVE  /\ stack \in Seq(Node) /\ taskList \in Seq(Node) /\ targets \in Seq(Node)
           /\ Len(stack) \in Nat /\ DOMAIN stack = 1..Len(stack)
           /\ Len(taskList) \in Nat /\ DOMAIN taskList = 1..Len(taskList)
           /\ status \in [Node -> Colour] /\ result \in BOOLEAN /\ cur \in Node \cup {None}
           /\ L \in SUBSET Node /\ OnStack \in SUBSET Node
           /\ \A i \in DOMAIN stack : stack[i] \in Node /\ stack[i] \in OnStack
           /\ \A v \in OnStack : \E i \in DOMAIN stack : stack[i] = v
           /\ targets # <<>> => Goal \in Node
<1>1. /\ stack \in Seq(Node) /\ taskList \in Seq(Node) /\ targets \in Seq(Node)
      /\ status \in [Node -> Colour] /\ result \in BOOLEAN /\ cur \in Node \cup {None}
  BY DEF SearchInv, TypeOK
<1>2. targets # <<>> => Goal \in Node
  BY <1>1, PopFacts DEF Goal
<1> QED BY <1>1, <1>2 DEF L, OnStack, ToSet

LEMMA PathFacts ==
    ASSUME SearchInv
    PROVE  LET n == Len(stack) IN
           /\ \A i, j \in 1..n : stack[i] = stack[j] => i = j
           /\ \A i \in 1..n : i # 1 =>
                stack[i] \in Parents(dag.edges, stack[i - 1]) /\ stack[i] \notin L
           /\ stack # <<>> => /\ n # 0 /\ Last(stack) = stack[n]
                              /\ pc = "descend" => cur \in Parents(dag.edges, stack[n])
           /\ \A i, j \in 1..n : i <= j => stack[j] \in Above(dag.edges, stack[i])
           /\ \A i \in 1..n : \A u \in Parents(dag.edges, stack[i]) :
                status[u] = GREY => \E j \in 1..n : i < j /\ stack[j] = u
<1> DEFINE n == Len(stack)
<1>1. StackIsPath
  BY DEF SearchInv
<1>2. DOMAIN stack = 1..n /\ stack \in Seq(Node)
  BY SearchFacts
<1>3. stack # <<>> => n # 0 /\ Last(stack) = stack[n]
  BY <1>2, PopFacts
<1> HIDE DEF n
<1>4. \A i, j \in 1..n : stack[i] = stack[j] => i = j
  BY <1>1, <1>2 DEF StackIsPath, NoDuplicates
<1>5. \A i \in 1..n : i # 1 =>
        stack[i] \in Parents(dag.edges, stack[i - 1]) /\ stack[i] \notin L
  BY <1>1, <1>2 DEF StackIsPath, ParentsOf
<1>6. stack # <<>> /\ pc = "descend" => cur \in Parents(dag.edges, stack[n])
  BY <1>1, <1>3 DEF StackIsPath, ParentsOf
<1>7. \A i, j \in 1..n : i <= j => stack[j] \in Above(dag.edges, stack[i])
  BY <1>1, <1>2 DEF StackIsPath
<1>8. \A i \in 1..n : \A u \in Parents(dag.edges, stack[i]) :
        status[u] = GREY => \E j \in 1..n : i < j /\ stack[j] = u
  BY <1>1, <1>2 DEF StackIsPath, ParentsOf
<1> QED BY <1>3, <1>4, <1>5, <1>6, <1>7, <1>8 DEF n

LEMMA RequestKeeps ==
    ASSUME SearchInv, NEW v \in Node, Request(v)
    PROVE  SearchInv'
<1> USE DEF Request
<1>1. TypeOK'
  BY DEF SearchInv, TypeOK, PC, Colour
<1>2. /\ L' = L /\ OnStack' = OnStack /\ OnStack' = {} /\ status' = status
      /\ stack' = <<>> /\ dag' = dag /\ taskList' = taskList
      /\ pc = "idle" /\ pc' = "descend" /\ cur' = v
  BY DEF SearchInv, Position, L, OnStack, ToSet
<1>3. targets' # <<>> /\ Goal' = v
  <2>1. targets \in Seq(Node)
    BY SearchFacts
  <2>2. /\ targets' \in Seq(Node) /\ targets' # <<>> /\ Len(targets') = Len(targets) + 1
        /\ targets'[Len(targets) + 1] = v
    BY <2>1
  <2> QED BY <2>2 DEF Goal, Last
<1>4. Position'
  BY <1>2, <1>3 DEF Position
<1>5. Colours'
  BY <1>2 DEF SearchInv, Colours, Searching
<1>6. StackIsPath'
  BY <1>2 DEF StackIsPath, NoDuplicates
<1>7. ListStandsAlone'
  BY <1>2 DEF SearchInv, ListStandsAlone
<1>8. LeftGreyIsDoomed'
  BY <1>2 DEF SearchInv, LeftGreyIsDoomed, Searching
<1>9. Answered' /\ FeasibleForOneWorker'
  BY <1>2 DEF SearchInv, Answered, FeasibleForOneWorker, ParentsOf
<1> QED BY <1>1, <1>4, <1>5, <1>6, <1>7, <1>8, <1>9 DEF SearchInv

LEMMA DescendKeeps ==
    ASSUME SearchInv, Descend
    PROVE  SearchInv'
<1> DEFINE n == Len(stack)
<1>1. /\ pc = "descend" /\ cur \in Node /\ targets # <<>>
      /\ stack = <<>> => cur = Goal
      /\ stack # <<>> => status[cur] = WHITE /\ stack[1] = Goal
  BY DEF Descend, SearchInv, Position
<1>2. /\ UNCHANGED <<dag, taskList, targets, result>>
      /\ L' = L /\ Goal' = Goal /\ pc' \in {"top", "descend"}
      /\ status' = [status EXCEPT ![cur] = GREY]
      /\ stack' = Append(stack, cur)
  BY DEF Descend, Push, graphVars, L, Goal
<1>3. /\ stack' \in Seq(Node) /\ n \in Nat
      /\ DOMAIN stack = 1..n /\ DOMAIN stack' = 1..(n + 1) /\ stack' # <<>>
      /\ \A i \in 1..n : stack'[i] = stack[i]
      /\ stack'[n + 1] = cur /\ Last(stack') = cur
      /\ stack # <<>> => n # 0 /\ Last(stack) = stack[n]
      /\ stack = <<>> => n = 0
  <2>1. stack \in Seq(Node)
    BY SearchFacts
  <2> QED BY <1>1, <1>2, <2>1, PushFacts DEF Last
<1>4. /\ status \in [Node -> Colour] /\ status' \in [Node -> Colour]
      /\ status'[cur] = GREY /\ \A v \in Node \ {cur} : status'[v] = status[v]
      /\ L \in SUBSET Node /\ OnStack \in SUBSET Node
  <2>1. status \in [Node -> Colour] /\ L \in SUBSET Node /\ OnStack \in SUBSET Node
    BY SearchFacts
  <2> QED BY <1>1, <1>2, <2>1 DEF Colour
<1>5. /\ \A i \in 1..n : stack[i] \in OnStack /\ stack[i] \in Node
      /\ \A v \in OnStack : \E i \in 1..n : stack[i] = v
  BY <1>3, SearchFacts
<1>6. OnStack' = OnStack \cup {cur}
  BY <1>1, <1>2, SearchFacts, PushElements DEF OnStack
<1>7. \A u \in Parents(dag.edges, cur) : u \in Node /\ u # cur /\ status[u] # GREY
  <2>1. \A u \in Parents(dag.edges, cur) : u \in Node /\ status'[u] # GREY
    BY DEF Descend, ParentsOf, Parents
  <2> QED BY <1>4, <2>1
<1>8. /\ cur \notin OnStack
      /\ stack # <<>> => cur \notin L
  BY <1>1, <1>5 DEF SearchInv, Colours, Searching, OnStack, ToSet, WHITE, GREY, BLACK
<1>9. pc' = "descend" => cur' \in Parents(dag.edges, cur) /\ cur' \in Node
                          /\ status'[cur'] = WHITE
  <2>1. pc' = "descend" => cur' \in WhiteParents(cur)
    BY DEF Descend
  <2> QED BY <1>4, <1>7, <2>1 DEF WhiteParents, ParentsOf, Parents
<1>10. cur' \in Node \cup {None}
  BY DEF Descend, WhiteParents, ParentsOf, Parents
<1>11. TypeOK'
  <2>1. /\ UNCHANGED <<wait, lmt, todo, sound, again, asked>> /\ TypeOK
    BY DEF Descend, graphVars, SearchInv
  <2> QED BY <1>2, <1>3, <1>4, <1>10, <2>1 DEF TypeOK, PC
<1> HIDE DEF n
<1>12. Position'
  <2>1. stack'[1] = Goal
    <3>1. 1 \in 1..n \/ n = 0
      BY <1>3
    <3> QED BY <1>1, <1>3, <3>1
  <2> QED BY <1>1, <1>2, <1>3, <1>9, <2>1 DEF Position
<1>13. Colours'
  <2>1. /\ \A v \in Node : status[v] = BLACK => v \in L
        /\ \A v \in L : status[v] = BLACK \/ v \in OnStack
        /\ \A v \in OnStack : status[v] = GREY
    BY <1>1 DEF SearchInv, Colours, Searching
  <2> QED BY <1>1, <1>2, <1>4, <1>6, <2>1 DEF Colours, GREY, BLACK
<1>14. StackIsPath'
  <2>1. /\ \A i, j \in 1..n : stack[i] = stack[j] => i = j
        /\ \A i \in 1..n : i # 1 =>
             stack[i] \in Parents(dag.edges, stack[i - 1]) /\ stack[i] \notin L
        /\ stack # <<>> => cur \in Parents(dag.edges, stack[n])
        /\ \A i, j \in 1..n : i <= j => stack[j] \in Above(dag.edges, stack[i])
        /\ \A i \in 1..n : \A u \in Parents(dag.edges, stack[i]) :
             status[u] = GREY => \E j \in 1..n : i < j /\ stack[j] = u
    BY <1>1, <1>3, PathFacts DEF n
  <2>2. \A i \in 1..(n + 1) : i \in 1..n \/ i = n + 1
    BY <1>3
  <2>3. \A i \in 1..n : i \in 1..(n + 1)
    BY <1>3
  <2>4. NoDuplicates(stack')
    BY <1>3, <1>5, <1>8, <2>1, <2>2 DEF NoDuplicates
  <2>5. ASSUME NEW i \in 1..(n + 1), i # 1
        PROVE  stack'[i] \in Parents(dag.edges, stack'[i - 1]) /\ stack'[i] \notin L
    <3>1. CASE i \in 1..n
      <4>1. i - 1 \in 1..n
        BY <1>3, <2>5, <3>1
      <4> QED BY <1>3, <2>1, <2>5, <3>1, <4>1
    <3>2. CASE i = n + 1
      <4>1. n # 0 /\ i - 1 = n /\ n \in 1..n
        BY <1>3, <2>5, <3>2
      <4> QED BY <1>3, <1>8, <2>1, <3>2, <4>1
    <3> QED BY <2>2, <3>1, <3>2
  <2>6. ASSUME NEW i \in 1..(n + 1), NEW j \in 1..(n + 1), i <= j
        PROVE  stack'[j] \in Above(dag.edges, stack'[i])
    <3>1. CASE j \in 1..n
      <4>1. i \in 1..n
        BY <1>3, <2>6, <3>1
      <4> QED BY <1>3, <2>1, <2>6, <3>1, <4>1
    <3>2. CASE j = n + 1 /\ i \in 1..n
      <4>1. n \in 1..n /\ i <= n /\ stack # <<>>
        BY <1>3, <3>2
      <4>2. stack[n] \in Above(dag.edges, stack[i])
        BY <2>1, <3>2, <4>1
      <4>3. cur \in Above(dag.edges, stack[n])
        BY <1>5, <2>1, <4>1, AboveSelf
      <4> QED BY <1>3, <3>2, <4>2, <4>3, AboveTransitive
    <3>3. CASE j = n + 1 /\ i = n + 1
      BY <1>1, <1>3, <3>3, AboveSelf
    <3> QED BY <2>2, <3>1, <3>2, <3>3
  <2>7. ASSUME NEW i \in 1..(n + 1), NEW u \in Parents(dag.edges, stack'[i]),
               status'[u] = GREY
        PROVE  \E j \in 1..(n + 1) : i < j /\ stack'[j] = u
    <3>1. CASE i = n + 1
      BY <1>3, <1>4, <1>7, <2>7, <3>1
    <3>2. CASE i \in 1..n /\ u = cur
      <4>1. n + 1 \in 1..(n + 1) /\ i < n + 1
        BY <1>3, <3>2
      <4> QED BY <1>3, <3>2, <4>1
    <3>3. CASE i \in 1..n /\ u # cur
      <4>1. u \in Parents(dag.edges, stack[i]) /\ status[u] = GREY
        BY <1>3, <1>4, <2>7, <3>3 DEF Parents
      <4>2. PICK j \in 1..n : i < j /\ stack[j] = u
        BY <2>1, <3>3, <4>1
      <4> QED BY <1>3, <2>3, <4>2
    <3> QED BY <2>2, <3>1, <3>2, <3>3
  <2>8. pc' = "descend" => cur' \in ParentsOf(Last(stack))'
    <3>1. Last(stack') = cur /\ dag' = dag
      BY <1>2, <1>3
    <3> QED BY <1>9, <3>1 DEF ParentsOf
  <2>9. DOMAIN stack' = 1..(n + 1) /\ dag' = dag /\ L' = L
    BY <1>2, <1>3
  <2> QED
    BY <2>4, <2>5, <2>6, <2>7, <2>8, <2>9, SMTT(30) DEF StackIsPath, ParentsOf
<1>15. ListStandsAlone' /\ Answered' /\ FeasibleForOneWorker'
  BY <1>1, <1>2
  DEF SearchInv, ListStandsAlone, Answered, FeasibleForOneWorker, ParentsOf
<1>16. LeftGreyIsDoomed'
  BY <1>1, <1>2, <1>4, <1>6 DEF SearchInv, LeftGreyIsDoomed, Searching
<1> QED BY <1>11, <1>12, <1>13, <1>14, <1>15, <1>16 DEF SearchInv

\* The nodes from the first GREY parent of cur on, and cur, are a loop: each of
\* them has a parent among them.
LEMMA LoopIsOne ==
    ASSUME SearchInv, LoopDetected
    PROVE  /\ Doomed(dag.edges, cur)
           /\ \A v \in OnStack : Doomed(dag.edges, v)
<1> DEFINE n == Len(stack)
           E == dag.edges
<1>1. /\ pc = "descend" /\ cur \in Node /\ Searching
  BY DEF LoopDetected, SearchInv, Position, Searching
<1>2. /\ n \in Nat /\ DOMAIN stack = 1..n /\ status \in [Node -> Colour]
      /\ \A i \in 1..n : stack[i] \in Node /\ stack[i] \in OnStack
      /\ \A v \in OnStack : \E i \in 1..n : stack[i] = v
  BY SearchFacts
<1>3. stack = <<>> => n = 0
  OBVIOUS
<1>4. /\ \A i \in 1..n : i # 1 => stack[i] \in Parents(E, stack[i - 1])
      /\ n # 0 => cur \in Parents(E, stack[n])
      /\ \A i, j \in 1..n : i <= j => stack[j] \in Above(E, stack[i])
  BY <1>1, <1>3, PathFacts
<1>5. PICK u \in Parents(E, cur) : u = cur \/ status[u] = GREY
  BY <1>1, <1>2 DEF LoopDetected, ParentsOf, Parents
<1>6. u \in Node /\ u \in Above(E, cur) /\ cur \in Above(E, cur)
  BY <1>1, <1>5, AboveSelf DEF Parents
<1> HIDE DEF n, E
<1>7. Doomed(E, cur)
  <2>1. CASE u = cur
    <3>1. {cur} \in SUBSET Above(E, cur) /\ {cur} # {} /\ cur \in Parents(E, cur) \cap {cur}
      BY <1>5, <1>6, <2>1
    <3> QED BY <3>1 DEF Doomed
  <2>2. CASE u # cur /\ u \notin OnStack
    <3>1. Doomed(E, u)
      BY <1>1, <1>5, <1>6, <2>2 DEF SearchInv, LeftGreyIsDoomed, E
    <3> QED BY <1>6, <3>1, DoomedBelow
  <2>3. CASE u \in OnStack
    <3>1. PICK k \in 1..n : stack[k] = u
      BY <1>2, <2>3
    <3> DEFINE C == {stack[i] : i \in k..n} \cup {cur}
    <3>2. \A i \in k..n : i \in 1..n /\ k <= i
      BY <1>2, <3>1
    <3>3. ASSUME NEW i \in k..n PROVE stack[i] \in Above(E, cur)
      <4>1. stack[i] \in Above(E, u)
        BY <1>4, <3>1, <3>2
      <4> QED BY <1>6, <4>1, AboveTransitive
    <3>4. ASSUME NEW i \in k..n
          PROVE  \E x \in C : x \in Parents(E, stack[i])
      <4>1. CASE i = n
        <5>1. n # 0
          BY <1>2, <3>1
        <5> QED BY <1>4, <4>1, <5>1
      <4>2. CASE i # n
        <5>1. i + 1 \in k..n /\ i + 1 \in 1..n /\ i + 1 # 1 /\ (i + 1) - 1 = i
          BY <1>2, <3>1, <4>2
        <5>2. stack[i + 1] \in Parents(E, stack[i])
          BY <1>4, <5>1
        <5> QED BY <5>1, <5>2
      <4> QED BY <4>1, <4>2
    <3>5. u \in C
      <4>1. k \in k..n
        BY <1>2, <3>1
      <4> QED BY <3>1, <4>1
    <3>6. C \in SUBSET Above(E, cur)
      BY <1>6, <3>3
    <3>7. \A x \in C : x = cur \/ \E i \in k..n : x = stack[i]
      OBVIOUS
    <3>8. cur \in C
      OBVIOUS
    <3> HIDE DEF C
    <3>9. \A x \in C : Parents(E, x) \cap C # {}
      BY <1>5, <3>4, <3>5, <3>7
    <3> QED BY <3>6, <3>8, <3>9 DEF Doomed
  <2> QED BY <2>1, <2>2, <2>3
<1>8. ASSUME NEW v \in OnStack PROVE Doomed(E, v)
  <2>1. PICK i \in 1..n : stack[i] = v
    BY <1>2
  <2>2. n \in 1..n /\ i <= n /\ n # 0
    BY <1>2, <2>1
  <2>3. stack[n] \in Above(E, v)
    BY <1>4, <2>1, <2>2
  <2>4. cur \in Above(E, stack[n])
    BY <1>2, <1>4, <2>2, AboveSelf
  <2>5. Doomed(E, stack[n])
    BY <1>7, <2>4, DoomedBelow
  <2> QED BY <2>3, <2>5, DoomedBelow
<1> QED BY <1>7, <1>8 DEF E

LEMMA LoopDetectedKeeps ==
    ASSUME SearchInv, LoopDetected
    PROVE  SearchInv'
<1>1. /\ pc = "descend" /\ cur \in Node /\ targets # <<>> /\ Searching
      /\ stack = <<>> => cur = Goal
      /\ stack # <<>> => stack[1] = Goal
  BY DEF LoopDetected, SearchInv, Position, Searching
<1>2. /\ UNCHANGED <<dag, taskList, targets, wait, lmt, again, asked, todo>>
      /\ L' = L /\ Goal' = Goal /\ pc' = "idle" /\ result' = FALSE /\ sound' = FALSE
      /\ status' = [status EXCEPT ![cur] = GREY] /\ stack' = <<>> /\ cur' = None
      /\ OnStack' = {}
  BY DEF LoopDetected, L, Goal, OnStack, ToSet
<1>3. /\ status \in [Node -> Colour] /\ status' \in [Node -> Colour]
      /\ status'[cur] = GREY /\ \A v \in Node \ {cur} : status'[v] = status[v]
      /\ L \in SUBSET Node
  <2>1. status \in [Node -> Colour] /\ L \in SUBSET Node
    BY SearchFacts
  <2> QED BY <1>1, <1>2, <2>1 DEF Colour
<1>4. TypeOK'
  <2>1. TypeOK
    BY DEF SearchInv
  <2>2. sound' \in BOOLEAN /\ result' \in BOOLEAN
    BY <1>2
  <2>3. stack' \in Seq(Node) /\ cur' \in Node \cup {None} /\ pc' \in PC
    BY <1>2 DEF PC
  <2> QED BY <1>2, <1>3, <2>1, <2>2, <2>3 DEF TypeOK
<1>5. Position'
  BY <1>2 DEF Position
<1>6. cur \notin L /\ OnStack \cap L = {}
  <2>1. Closed(dag.edges, L) /\ Acyclic(dag.edges, L)
    BY <1>1 DEF SearchInv, ListStandsAlone
  <2> QED BY <1>3, <2>1, LoopIsOne, FoundedIsNotDoomed
<1>7. Colours'
  <2>1. /\ \A v \in Node : status[v] = BLACK => v \in L
        /\ \A v \in L : status[v] = BLACK \/ v \in OnStack
    BY <1>1 DEF SearchInv, Colours
  <2> QED BY <1>2, <1>3, <1>6, <2>1 DEF Colours, GREY, BLACK
<1>8. StackIsPath'
  BY <1>2 DEF StackIsPath, NoDuplicates
<1>9. ListStandsAlone' /\ FeasibleForOneWorker'
  BY <1>1, <1>2 DEF SearchInv, ListStandsAlone, FeasibleForOneWorker, ParentsOf
<1>10. LeftGreyIsDoomed'
  <2>1. \A v \in Node \ OnStack : status[v] = GREY => Doomed(dag.edges, v)
    BY <1>1 DEF SearchInv, LeftGreyIsDoomed
  <2> QED BY <1>2, <1>3, <2>1, LoopIsOne DEF LeftGreyIsDoomed
<1>11. Answered'
  <2>1. Doomed(dag.edges, Goal)
    <3>1. CASE stack = <<>>
      BY <1>1, <3>1, LoopIsOne
    <3>2. CASE stack # <<>>
      <4>1. 1 \in DOMAIN stack /\ stack[1] \in OnStack
        BY <3>2, SearchFacts
      <4> QED BY <1>1, <3>2, <4>1, LoopIsOne
    <3> QED BY <3>1, <3>2
  <2> QED BY <1>2, <2>1 DEF Answered
<1> QED BY <1>4, <1>5, <1>7, <1>8, <1>9, <1>10, <1>11 DEF SearchInv

LEMMA TopGoesOnKeeps ==
    ASSUME SearchInv, TopGoesOn
    PROVE  SearchInv'
<1>1. /\ pc = "top" /\ pc' = "descend" /\ stack # <<>> /\ targets # <<>>
      /\ UNCHANGED <<dag, targets, sound, again, asked, status, wait, lmt, taskList, stack,
                     result, todo>>
      /\ L' = L /\ OnStack' = OnStack /\ Goal' = Goal
      /\ stack # <<>> => stack[1] = Goal
  BY DEF TopGoesOn, graphVars, SearchInv, Position, L, OnStack, Goal
<1>2. /\ cur' \in Parents(dag.edges, Last(stack)) /\ status[cur'] = WHITE
      /\ cur' \in Node
  BY DEF TopGoesOn, WhiteParents, ParentsOf, Parents
<1>3. TypeOK'
  BY <1>1, <1>2 DEF SearchInv, TypeOK, PC
<1>4. Position'
  BY <1>1, <1>2 DEF Position
<1>5. Colours' /\ LeftGreyIsDoomed'
  BY <1>1 DEF SearchInv, Colours, LeftGreyIsDoomed, Searching
<1>6. StackIsPath'
  <2>1. StackIsPath
    BY DEF SearchInv
  <2> QED BY <1>1, <1>2, <2>1 DEF StackIsPath, ParentsOf
<1>7. ListStandsAlone' /\ FeasibleForOneWorker' /\ Answered'
  BY <1>1 DEF SearchInv, ListStandsAlone, FeasibleForOneWorker, Answered, ParentsOf
<1> QED BY <1>3, <1>4, <1>5, <1>6, <1>7 DEF SearchInv

\* The node on top and what it is made from, when no parent is WHITE any more.
LEMMA TopIsDone ==
    ASSUME SearchInv, TopIsListed
    PROVE  LET n == Len(stack)
               x == Last(stack)
           IN  /\ n \in Nat \ {0} /\ x = stack[n] /\ x \in Node /\ x \in OnStack
               /\ Parents(dag.edges, x) \subseteq L
               /\ taskList' = Append(taskList, x) /\ L' = L \cup {x}
               /\ stack' = Front(stack) /\ stack' \in Seq(Node)
               /\ Len(stack') = n - 1 /\ \A i \in 1..(n - 1) : stack'[i] = stack[i]
               /\ OnStack' = OnStack \ {x}
               /\ status' = [status EXCEPT ![x] = BLACK]
<1> DEFINE n == Len(stack)
           x == Last(stack)
<1>1. /\ n \in Nat \ {0} /\ x = stack[n] /\ x \in Node
      /\ stack' = Front(stack) /\ stack' \in Seq(Node)
      /\ DOMAIN stack = 1..n /\ DOMAIN stack' = 1..(n - 1)
      /\ \A i \in 1..(n - 1) : stack'[i] = stack[i]
  <2>1. stack \in Seq(Node) /\ stack # <<>> /\ stack' = Front(stack)
    BY SearchFacts DEF TopIsListed
  <2> QED BY <2>1, PopFacts
<1>2. Len(stack') = n - 1
  <2>1. stack \in Seq(Node) /\ stack # <<>> /\ stack' = Front(stack)
    BY SearchFacts DEF TopIsListed
  <2> QED BY <2>1, PopFacts
<1>3. /\ taskList' = Append(taskList, x) /\ status' = [status EXCEPT ![x] = BLACK]
      /\ pc = "top" /\ WhiteParents(x) = {}
  BY DEF TopIsListed
<1> HIDE DEF n, x
<1>4. n \in 1..n /\ \A i \in 1..n : i \in 1..(n - 1) \/ i = n
  BY <1>1
<1>5. \A i \in 1..(n - 1) : i \in 1..n /\ i # n
  BY <1>1
<1>6. OnStack = {stack[i] : i \in 1..n} /\ OnStack' = {stack'[i] : i \in 1..(n - 1)}
  BY <1>1 DEF OnStack, ToSet
<1>7. /\ \A i, j \in 1..n : stack[i] = stack[j] => i = j
      /\ \A i \in 1..n : \A u \in Parents(dag.edges, stack[i]) :
           status[u] = GREY => \E j \in 1..n : i < j /\ stack[j] = u
  BY PathFacts DEF n
<1>8. x \in OnStack /\ OnStack' = OnStack \ {x}
  <2>1. x \in OnStack
    BY <1>1, <1>4, <1>6
  <2>2. OnStack' \subseteq OnStack \ {x}
    BY <1>1, <1>4, <1>5, <1>6, <1>7
  <2>3. OnStack \ {x} \subseteq OnStack'
    BY <1>1, <1>4, <1>6
  <2> QED BY <2>1, <2>2, <2>3
<1>9. ASSUME NEW u \in Parents(dag.edges, x) PROVE u \in L
  <2>1. u \in Node /\ status[u] \in Colour /\ status[u] # WHITE
    <3>1. u \in Node /\ status \in [Node -> Colour]
      BY SearchFacts DEF Parents
    <3> QED BY <1>3, <3>1 DEF WhiteParents, ParentsOf
  <2>2. status[u] # GREY
    <3>1. \A j \in 1..n : ~(n < j)
      BY <1>1
    <3> QED BY <1>1, <1>4, <1>7, <1>9, <3>1
  <2>3. status[u] = BLACK
    BY <2>1, <2>2 DEF Colour
  <2> QED BY <1>3, <2>1, <2>3 DEF SearchInv, Colours, Searching
<1>10. L' = L \cup {x}
  BY <1>1, <1>3, SearchFacts, PushElements DEF L
<1> QED BY <1>1, <1>2, <1>3, <1>8, <1>9, <1>10 DEF n, x

LEMMA TopIsListedKeeps ==
    ASSUME SearchInv, TopIsListed
    PROVE  SearchInv'
<1> DEFINE n == Len(stack)
           x == Last(stack)
           E == dag.edges
<1>1. /\ n \in Nat \ {0} /\ x = stack[n] /\ x \in Node /\ x \in OnStack
      /\ Parents(E, x) \subseteq L
      /\ taskList' = Append(taskList, x) /\ L' = L \cup {x}
      /\ stack' \in Seq(Node)
      /\ Len(stack') = n - 1 /\ \A i \in 1..(n - 1) : stack'[i] = stack[i]
      /\ OnStack' = OnStack \ {x}
      /\ status' = [status EXCEPT ![x] = BLACK]
  BY TopIsDone
<1>2. /\ UNCHANGED <<dag, targets, sound, again, asked, wait, lmt, cur, pc, result, todo>>
      /\ pc = "top" /\ pc' = "top" /\ Goal' = Goal /\ targets # <<>> /\ Searching
      /\ stack # <<>> /\ stack[1] = Goal
  BY DEF TopIsListed, graphVars, Goal, SearchInv, Position, Searching
<1>3. /\ status \in [Node -> Colour] /\ status' \in [Node -> Colour]
      /\ status'[x] = BLACK /\ \A v \in Node \ {x} : status'[v] = status[v]
      /\ L \in SUBSET Node /\ OnStack \in SUBSET Node
  <2>1. status \in [Node -> Colour] /\ L \in SUBSET Node /\ OnStack \in SUBSET Node
    BY SearchFacts
  <2> HIDE DEF x
  <2> QED BY <1>1, <2>1 DEF Colour
<1>4. taskList \in Seq(Node) /\ taskList' \in Seq(Node)
  BY <1>1, SearchFacts
<1>5. DOMAIN stack' = 1..(n - 1)
  BY <1>1
<1> HIDE DEF n, x, E
<1>6. TypeOK'
  <2>1. TypeOK
    BY DEF SearchInv
  <2> QED BY <1>1, <1>2, <1>3, <1>4, <2>1 DEF TypeOK
<1>7. Position'
  <2>1. CASE n = 1
    <3>1. Len(stack') = 0
      BY <1>1, <2>1
    <3>2. stack' = <<>> /\ Goal \in L'
      BY <1>1, <1>2, <2>1, <3>1
    <3> QED BY <1>2, <3>2 DEF Position
  <2>2. CASE n # 1
    <3>1. 1 \in 1..(n - 1)
      BY <1>1, <2>2
    <3>2. stack' # <<>>
      <4>1. Len(stack') # 0
        BY <1>1, <2>2
      <4> QED BY <4>1
    <3> QED BY <1>1, <1>2, <3>1, <3>2 DEF Position
  <2> QED BY <2>1, <2>2
<1>8. Colours'
  <2>1. /\ \A v \in Node : status[v] = BLACK => v \in L
        /\ \A v \in L : status[v] = BLACK \/ v \in OnStack
        /\ \A v \in OnStack : status[v] = GREY
    BY <1>2 DEF SearchInv, Colours
  <2> QED BY <1>1, <1>3, <2>1 DEF Colours
<1>9. StackIsPath'
  <2>1. /\ \A i, j \in 1..n : stack[i] = stack[j] => i = j
        /\ \A i \in 1..n : i # 1 => stack[i] \in Parents(E, stack[i - 1]) /\ stack[i] \notin L
        /\ \A i, j \in 1..n : i <= j => stack[j] \in Above(E, stack[i])
        /\ \A i \in 1..n : \A u \in Parents(E, stack[i]) :
             status[u] = GREY => \E j \in 1..n : i < j /\ stack[j] = u
    BY PathFacts DEF n, E
  <2>2. /\ \A i \in 1..(n - 1) : i \in 1..n /\ i # n
        /\ \A i \in 1..n : i # n => i \in 1..(n - 1)
        /\ \A i \in 1..(n - 1) : i # 1 => i - 1 \in 1..(n - 1)
        /\ n \in 1..n
    BY <1>1
  <2>3. NoDuplicates(stack')
    BY <1>1, <1>5, <2>1, <2>2 DEF NoDuplicates
  <2>4. ASSUME NEW i \in 1..(n - 1), i # 1
        PROVE  stack'[i] \in Parents(E, stack'[i - 1]) /\ stack'[i] \notin L'
    <3>1. stack'[i] = stack[i] /\ stack'[i - 1] = stack[i - 1] /\ i \in 1..n /\ i # n
      BY <1>1, <2>2, <2>4
    <3>2. stack[i] # x
      BY <1>1, <2>1, <2>2, <3>1
    <3> QED BY <1>1, <2>1, <2>4, <3>1, <3>2
  <2>5. ASSUME NEW i \in 1..(n - 1), NEW j \in 1..(n - 1), i <= j
        PROVE  stack'[j] \in Above(E, stack'[i])
    BY <1>1, <2>1, <2>2, <2>5
  <2>6. ASSUME NEW i \in 1..(n - 1), NEW u \in Parents(E, stack'[i]), status'[u] = GREY
        PROVE  \E j \in 1..(n - 1) : i < j /\ stack'[j] = u
    <3>1. u \in Node /\ u # x
      BY <1>3, <2>6 DEF Parents, GREY, BLACK
    <3>2. u \in Parents(E, stack[i]) /\ status[u] = GREY /\ i \in 1..n
      BY <1>1, <1>3, <2>2, <2>6, <3>1
    <3>3. PICK j \in 1..n : i < j /\ stack[j] = u
      BY <2>1, <3>2
    <3>4. j # n
      BY <1>1, <3>1, <3>3
    <3> QED BY <1>1, <2>2, <3>3, <3>4
  <2>7. dag' = dag /\ E' = E /\ pc' # "descend"
    BY <1>2 DEF E
  <2> HIDE DEF E
  <2>8. /\ \A i \in DOMAIN stack' :
             i # 1 => stack'[i] \in ParentsOf(stack[i - 1])' /\ stack'[i] \notin L'
        /\ \A i, j \in DOMAIN stack' : i <= j => stack'[j] \in Above(dag'.edges, stack'[i])
        /\ \A i \in DOMAIN stack' : \A u \in ParentsOf(stack[i])' :
             status'[u] = GREY => \E j \in DOMAIN stack' : i < j /\ stack'[j] = u
    BY <1>5, <2>4, <2>5, <2>6, <2>7 DEF ParentsOf, E
  <2> QED BY <2>3, <2>7, <2>8 DEF StackIsPath
<1>10. ListStandsAlone' /\ Answered'
  <2>1. Closed(E, L) /\ Acyclic(E, L)
    BY <1>2 DEF SearchInv, ListStandsAlone, E
  <2>2. Closed(E, L \cup {x}) /\ Acyclic(E, L \cup {x})
    BY <1>1, <1>3, <2>1, FoundationGrows
  <2> QED BY <1>1, <1>2, <2>2 DEF ListStandsAlone, Answered, E
<1>11. LeftGreyIsDoomed'
  BY <1>1, <1>2, <1>3 DEF SearchInv, LeftGreyIsDoomed, Searching, GREY, BLACK
<1>12. FeasibleForOneWorker'
  <2> DEFINE m == Len(taskList)
  <2>1. /\ m \in Nat /\ DOMAIN taskList = 1..m /\ DOMAIN taskList' = 1..(m + 1)
        /\ \A i \in 1..m : taskList'[i] = taskList[i]
        /\ taskList'[m + 1] = x
    BY <1>1, <1>4, PushFacts
  <2> HIDE DEF m
  <2>2. \A i \in 1..m : Parents(E, taskList[i]) \subseteq {taskList[j] : j \in 1..(i - 1)}
    BY <1>2, <2>1 DEF SearchInv, FeasibleForOneWorker, ParentsOf, E
  <2>3. L = {taskList[j] : j \in 1..m}
    BY <2>1 DEF L, ToSet
  <2>4. ASSUME NEW i \in 1..(m + 1)
        PROVE  Parents(E, taskList'[i]) \subseteq {taskList'[j] : j \in 1..(i - 1)}
    <3>1. CASE i = m + 1
      <4>1. i - 1 = m
        BY <2>1, <3>1
      <4> QED BY <1>1, <2>1, <2>3, <3>1, <4>1
    <3>2. CASE i # m + 1
      <4>1. i \in 1..m /\ \A j \in 1..(i - 1) : j \in 1..m
        BY <2>1, <3>2
      <4> QED BY <2>1, <2>2, <4>1
    <3> QED BY <3>1, <3>2
  <2>5. \A i \in DOMAIN taskList' :
          ParentsOf(taskList[i])' \subseteq {taskList'[j] : j \in 1..(i - 1)}
    BY <1>2, <2>1, <2>4 DEF ParentsOf, E
  <2> QED BY <2>5 DEF FeasibleForOneWorker
<1> QED BY <1>6, <1>7, <1>8, <1>9, <1>10, <1>11, <1>12 DEF SearchInv

LEMMA RequestDoneKeeps ==
    ASSUME SearchInv, RequestDone
    PROVE  SearchInv'
<1>1. /\ pc = "top" /\ pc' = "idle" /\ stack = <<>> /\ result' = TRUE
      /\ UNCHANGED <<dag, targets, sound, again, asked, status, wait, lmt, taskList, stack, cur,
                     todo>>
      /\ L' = L /\ OnStack' = OnStack /\ Goal' = Goal
  BY DEF RequestDone, graphVars, L, OnStack, Goal
<1>2. TypeOK'
  BY <1>1 DEF SearchInv, TypeOK, PC
<1>3. Position' /\ Answered'
  BY <1>1 DEF SearchInv, Position, Answered
<1>4. Colours' /\ LeftGreyIsDoomed' /\ ListStandsAlone'
  BY <1>1 DEF SearchInv, Colours, LeftGreyIsDoomed, ListStandsAlone, Searching
<1>5. StackIsPath' /\ FeasibleForOneWorker'
  BY <1>1 DEF SearchInv, StackIsPath, FeasibleForOneWorker, ParentsOf, NoDuplicates
<1> QED BY <1>2, <1>3, <1>4, <1>5 DEF SearchInv

LEMMA ScheduleKeeps ==
    ASSUME SearchInv, Schedule
    PROVE  SearchInv'
<1>1. /\ pc = "idle" /\ pc' = "visit" /\ asked' = L /\ todo' = 1 /\ stack = <<>>
      /\ UNCHANGED <<dag, targets, sound, again, status, wait, lmt, taskList, stack, cur, result>>
      /\ L' = L /\ OnStack' = OnStack
  BY DEF Schedule, L, OnStack, SearchInv, Position
<1>2. TypeOK'
  <2>1. TypeOK /\ L \in SUBSET Node
    BY SearchFacts DEF SearchInv
  <2> QED BY <1>1, <2>1 DEF TypeOK, PC
<1>3. Position' /\ Answered' /\ Colours' /\ LeftGreyIsDoomed'
  BY <1>1 DEF Position, Answered, Colours, LeftGreyIsDoomed, Searching
<1>4. ListStandsAlone'
  BY <1>1 DEF SearchInv, ListStandsAlone
<1>5. StackIsPath' /\ FeasibleForOneWorker'
  BY <1>1 DEF SearchInv, StackIsPath, FeasibleForOneWorker, ParentsOf, NoDuplicates
<1> QED BY <1>2, <1>3, <1>4, <1>5 DEF SearchInv

-----------------------------------------------------------------------------
(* Preprocessing.                                                          *)

VisitOf(v) ==
    \/ VisitPhony(v)
    \/ \E time \in FileTime : VisitSource(v, time) \/ VisitBlocked(v, time) \/ VisitReady(v, time)

\* What a visit that finds `time` says of its node.
JudgedAs(v, time, colour) ==
    /\ lmt' = [lmt EXCEPT ![v] = time]
    /\ status' = [status EXCEPT ![v] = colour]
    /\ colour # WHITE <=> \/ v \in dag.phony
                          \/ v \in dag.recipe /\ \E u \in ParentsOf(v) : lmt[u] > time
                          \/ DarkParents(v) # {}
    /\ colour # WHITE =>
         /\ wait' = [wait EXCEPT ![v] = Cardinality(DarkParents(v))]
         /\ colour = IF DarkParents(v) = {} THEN GREY ELSE BLACK

LEMMA DarkParentsFinite ==
    ASSUME NEW v
    PROVE  DarkParents(v) \in SUBSET Node /\ Cardinality(DarkParents(v)) \in Nat
<1>1. DarkParents(v) \in SUBSET Node
  BY DEF DarkParents, ParentsOf, Parents
<1> QED BY <1>1, NodeAssumption, FS_Subset, FS_CardinalityType

LEMMA VisitFrame ==
    ASSUME SearchInv, NEW v \in Node, VisitOf(v)
    PROVE  /\ pc = "visit" /\ pc' = "visit" /\ todo' = todo + 1
           /\ todo <= Len(taskList) /\ taskList[todo] = v
           /\ UNCHANGED <<dag, targets, sound, again, asked, taskList, stack, cur, result>>
           /\ wait' \in [Node -> Int] /\ \A u \in Node \ {v} : wait'[u] = wait[u]
<1>1. /\ pc = "visit" /\ pc' = "visit" /\ todo' = todo + 1
      /\ todo <= Len(taskList) /\ taskList[todo] = v
      /\ UNCHANGED <<dag, targets, sound, again, asked, taskList, stack, cur, result>>
      /\ \/ wait' = wait
         \/ wait' = [wait EXCEPT ![v] = Cardinality(DarkParents(v))]
  BY DEF VisitOf, VisitPhony, VisitSource, VisitBlocked, VisitReady, Visited, Visiting,
         graphVars
<1>2. wait \in [Node -> Int] /\ Cardinality(DarkParents(v)) \in Int
  BY DarkParentsFinite DEF SearchInv, TypeOK
<1> QED BY <1>1, <1>2

LEMMA VisitJudges ==
    ASSUME SearchInv, NEW v \in Node, VisitOf(v)
    PROVE  \E time \in Int, colour \in Colour : JudgedAs(v, time, colour)
<1> USE DEF Visited
<1>1. WHITE # GREY /\ WHITE # BLACK /\ {WHITE, GREY, BLACK} \subseteq Colour
  BY DEF WHITE, GREY, BLACK, Colour
<1>2. CASE VisitPhony(v)
  <2>1. JudgedAs(v, 0, IF DarkParents(v) = {} THEN GREY ELSE BLACK)
    BY <1>1, <1>2 DEF VisitPhony, JudgedAs
  <2> QED BY <1>1, <2>1
<1>3. ASSUME NEW time \in FileTime, VisitSource(v, time) PROVE JudgedAs(v, time, WHITE)
  <2>1. DarkParents(v) = {} /\ ParentsOf(v) = {}
    BY <1>3 DEF VisitSource, DarkParents
  <2> QED BY <1>3, <2>1 DEF VisitSource, JudgedAs
<1>4. ASSUME NEW time \in FileTime, VisitBlocked(v, time) PROVE JudgedAs(v, time, BLACK)
  BY <1>1, <1>4 DEF VisitBlocked, JudgedAs
<1>5. ASSUME NEW time \in FileTime, VisitReady(v, time)
      PROVE  JudgedAs(v, time, IF v \in dag.recipe /\ Outdated(v, time) THEN GREY ELSE WHITE)
  BY <1>1, <1>5 DEF VisitReady, JudgedAs, Outdated
<1>6. FileTime \subseteq Int
  BY DEF FileTime
<1> QED BY <1>1, <1>2, <1>3, <1>4, <1>5, <1>6 DEF VisitOf

LEMMA VisitKeeps ==
    ASSUME SearchInv, NEW v \in Node, VisitOf(v)
    PROVE  SearchInv'
<1>1. /\ pc = "visit" /\ pc' = "visit" /\ todo' = todo + 1
      /\ UNCHANGED <<dag, targets, sound, again, asked, taskList, stack, cur, result>>
      /\ wait' \in [Node -> Int] /\ stack = <<>> /\ stack' = <<>>
  BY VisitFrame DEF SearchInv, Position
<1>2. PICK time \in Int, colour \in Colour : JudgedAs(v, time, colour)
  BY VisitJudges
<1>3. TypeOK'
  <2>1. TypeOK
    BY DEF SearchInv
  <2>2. status' \in [Node -> Colour] /\ lmt' \in [Node -> Int]
    BY <1>2, <2>1 DEF TypeOK, JudgedAs
  <2> QED BY <1>1, <2>1, <2>2 DEF TypeOK
<1>4. L' = L
  BY <1>1 DEF L
<1>5. Position' /\ Answered' /\ Colours' /\ LeftGreyIsDoomed'
  BY <1>1 DEF Position, Answered, Colours, LeftGreyIsDoomed, Searching
<1>6. ListStandsAlone' /\ FeasibleForOneWorker'
  BY <1>1, <1>4 DEF SearchInv, ListStandsAlone, FeasibleForOneWorker, ParentsOf
<1>7. StackIsPath'
  BY <1>1 DEF StackIsPath, NoDuplicates
<1> QED BY <1>3, <1>5, <1>6, <1>7 DEF SearchInv

LEMMA NoRecipeKeeps ==
    ASSUME SearchInv, NEW v \in Node, NEW time \in FileTime, NoRecipe(v, time)
    PROVE  SearchInv'
<1>1. /\ pc = "visit" /\ pc' = "exited" /\ stack = <<>> /\ stack' = <<>>
      /\ UNCHANGED <<dag, targets, sound, again, asked, taskList, status, wait, lmt, cur, result,
                     todo>>
  BY DEF NoRecipe, Visiting, graphVars, SearchInv, Position
<1>2. TypeOK'
  BY <1>1 DEF SearchInv, TypeOK, PC
<1>3. /\ Position' /\ Answered' /\ Colours' /\ LeftGreyIsDoomed' /\ ListStandsAlone'
      /\ FeasibleForOneWorker'
  BY <1>1 DEF Position, Answered, Colours, LeftGreyIsDoomed, ListStandsAlone,
              FeasibleForOneWorker, Searching
<1>4. StackIsPath'
  BY <1>1 DEF StackIsPath, NoDuplicates
<1> QED BY <1>2, <1>3, <1>4 DEF SearchInv

\* The second pass, by positions: `order` is a one-to-one list of the positions
\* of all nodes that are not WHITE.
Kept == {i \in DOMAIN taskList : status[taskList[i]] # WHITE}

LEMMA RearrangeFacts ==
    ASSUME SearchInv, Rearrange
    PROVE  \E order \in Seq(DOMAIN taskList) :
             /\ ToSet(order) = Kept /\ IsInjective(order)
             /\ Len(order) \in Nat /\ DOMAIN order = 1..Len(order)
             /\ \A k \in DOMAIN order : order[k] \in DOMAIN taskList
             /\ \A k, l \in DOMAIN order : k < l => Before(order[k], order[l])
             /\ taskList' = [k \in DOMAIN order |-> taskList[order[k]]]
             /\ DOMAIN taskList' = DOMAIN order
             /\ taskList' \in Seq(Node)
<1>1. PICK order \in SetToSeqs(Kept) :
        /\ \A k, l \in DOMAIN order : k < l => Before(order[k], order[l])
        /\ taskList' = [k \in DOMAIN order |-> taskList[order[k]]]
  BY DEF Rearrange, Kept
<1>2. /\ taskList \in Seq(Node) /\ Len(taskList) \in Nat
      /\ DOMAIN taskList = 1..Len(taskList)
  BY SearchFacts
<1>3. IsFiniteSet(Kept)
  <2>1. IsFiniteSet(1..Len(taskList)) /\ Kept \in SUBSET (1..Len(taskList))
    BY <1>2, FS_Interval DEF Kept
  <2> QED BY <2>1, FS_Subset
<1>4. order \in Seq(Kept) /\ ToSet(order) = Kept /\ IsInjective(order)
  BY <1>3, EnumerationElements
<1>5. Kept \subseteq DOMAIN taskList
  BY DEF Kept
<1>6. /\ Len(order) \in Nat /\ DOMAIN order = 1..Len(order)
      /\ \A k \in DOMAIN order : order[k] \in DOMAIN taskList
      /\ order \in Seq(DOMAIN taskList)
  BY <1>4, <1>5
<1>7. \A k \in DOMAIN order : taskList[order[k]] \in Node
  BY <1>2, <1>6
<1>8. taskList' \in Seq(Node) /\ DOMAIN taskList' = DOMAIN order
  BY <1>1, <1>6, <1>7
<1> QED BY <1>1, <1>4, <1>6, <1>8

LEMMA RearrangeKeeps ==
    ASSUME SearchInv, Rearrange
    PROVE  SearchInv'
<1>1. /\ pc = "visit" /\ pc' = "planned" /\ stack = <<>> /\ stack' = <<>>
      /\ UNCHANGED <<dag, targets, sound, again, asked, status, wait, lmt, cur, result, todo>>
  BY DEF Rearrange, graphVars, SearchInv, Position
<1>2. TypeOK'
  <2>1. TypeOK /\ taskList' \in Seq(Node)
    BY RearrangeFacts DEF SearchInv
  <2> QED BY <1>1, <2>1 DEF TypeOK, PC
<1>3. /\ Position' /\ Answered' /\ Colours' /\ LeftGreyIsDoomed' /\ ListStandsAlone'
      /\ FeasibleForOneWorker'
  BY <1>1 DEF Position, Answered, Colours, LeftGreyIsDoomed, ListStandsAlone,
              FeasibleForOneWorker, Searching
<1>4. StackIsPath'
  BY <1>1 DEF StackIsPath, NoDuplicates
<1> QED BY <1>2, <1>3, <1>4 DEF SearchInv

LEMMA SearchStays == ASSUME SearchInv, UNCHANGED vars PROVE SearchInv'
<1>1. /\ UNCHANGED <<dag, targets, sound, again, asked, status, wait, lmt, taskList, stack, cur, pc,
                     result, todo>>
      /\ L' = L /\ OnStack' = OnStack /\ Goal' = Goal
  BY DEF vars, graphVars, L, OnStack, Goal
<1>2. TypeOK'
  BY <1>1 DEF SearchInv, TypeOK
<1>3. Position' /\ Answered' /\ Colours' /\ LeftGreyIsDoomed' /\ ListStandsAlone'
  BY <1>1 DEF SearchInv, Position, Answered, Colours, LeftGreyIsDoomed, ListStandsAlone,
              Searching
<1>4. StackIsPath' /\ FeasibleForOneWorker'
  <2>1. StackIsPath /\ FeasibleForOneWorker
    BY DEF SearchInv
  <2> QED BY <1>1, <2>1 DEF StackIsPath, FeasibleForOneWorker, NoDuplicates, ParentsOf
<1> QED BY <1>2, <1>3, <1>4 DEF SearchInv

\* The steps of the code, the first pass as one.
LEMMA StepCases ==
    ASSUME [Next]_vars
    PROVE  \/ \E v \in Node : Request(v)
           \/ Descend \/ LoopDetected \/ TopGoesOn \/ TopIsListed \/ RequestDone \/ Schedule
           \/ \E v \in Node : VisitOf(v)
           \/ \E v \in Node, time \in FileTime : NoRecipe(v, time)
           \/ Rearrange
           \/ UNCHANGED vars
BY DEF Next, Step, Finished, VisitOf

LEMMA SearchAlways == Spec => []SearchInv
<1>1. Init => SearchInv
  BY SearchInit
<1>2. SearchInv /\ [Next]_vars => SearchInv'
  BY StepCases, RequestKeeps, DescendKeeps, LoopDetectedKeeps, TopGoesOnKeeps,
     TopIsListedKeeps, RequestDoneKeeps, ScheduleKeeps, VisitKeeps, NoRecipeKeeps,
     RearrangeKeeps, SearchStays
<1> QED BY <1>1, <1>2, PTL DEF Spec

\* Everything the modules compute with has the type it is declared with: for all
\* graphs, requests and file times.
THEOREM PlanTyping == Spec => []TypeOK
<1>1. SearchInv => TypeOK
  BY DEF SearchInv
<1> QED BY <1>1, SearchAlways, PTL

\* add_to_task_list() returns false exactly if its target is made from a loop,
\* also after requests that failed.
THEOREM FailsOnLoops == Spec => []FalseIffLoop
<1>1. SearchInv => FalseIffLoop
  <2> SUFFICES ASSUME SearchInv, pc = "idle", targets # <<>>
               PROVE  result <=> ~HasLoop(Ancestors(Last(targets)))
    BY DEF FalseIffLoop
  <2>1. HasLoop(Ancestors(Goal)) <=> Doomed(dag.edges, Goal)
    BY AboveIsAncestors
  <2>2. IF result THEN Goal \in L ELSE Doomed(dag.edges, Goal)
    BY DEF SearchInv, Answered
  <2>3. result => ~Doomed(dag.edges, Goal)
    <3>1. L \in SUBSET Node /\ Closed(dag.edges, L) /\ Acyclic(dag.edges, L)
      BY SearchFacts DEF SearchInv, ListStandsAlone
    <3> QED BY <2>2, <3>1, FoundedIsNotDoomed
  <2> QED BY <2>1, <2>2, <2>3 DEF Goal
<1> QED BY <1>1, SearchAlways, PTL

\* The task list can be built from its front to its back.
THEOREM ListsInOrder == Spec => []FeasibleForOneWorker
<1>1. SearchInv => FeasibleForOneWorker
  BY DEF SearchInv
<1> QED BY <1>1, SearchAlways, PTL

\* A request that succeeded has listed everything its target is made from.
THEOREM ListsAll == Spec => []ListsAllAncestors
<1>1. SearchInv => ListsAllAncestors
  <2> SUFFICES ASSUME SearchInv, pc = "idle", targets # <<>>, result
               PROVE  Ancestors(Last(targets)) \subseteq ToSet(taskList)
    BY DEF ListsAllAncestors
  <2>1. Goal \in L /\ L \in SUBSET Node /\ Closed(dag.edges, L)
    BY SearchFacts DEF SearchInv, Answered, ListStandsAlone
  <2>2. Above(dag.edges, Goal) \subseteq L
    BY <2>1, AboveIsLeast
  <2> QED BY <2>2, AboveIsAncestors DEF Goal, L
<1> QED BY <1>1, SearchAlways, PTL

-----------------------------------------------------------------------------
(* How often a node is listed.                                             *)

LEMMA NotListed ==
    ASSUME NEW v \in Node, v \notin L
    PROVE  Occurrences(taskList, v) = 0
<1>1. {i \in DOMAIN taskList : taskList[i] = v} = {}
  BY DEF L, ToSet
<1>2. Cardinality({}) = 0
  BY FS_EmptySet
<1> QED BY <1>1, <1>2 DEF Occurrences

LEMMA CountTypes ==
    ASSUME SearchInv, NEW v \in Node
    PROVE  Occurrences(taskList, v) \in Nat /\ again[v] \in Nat /\ Due(v) \in {0, 1}
BY SearchFacts, OccurrencesType DEF Due, SearchInv, TypeOK

\* While what is listed is exact, nothing is listed too often.
LEMMA CountedIsEnough ==
    ASSUME SearchInv, NEW v \in Node, Counted(v)
    PROVE  Occurrences(taskList, v) <= 1 + again[v]
<1>1. Occurrences(taskList, v) \in Nat /\ again[v] \in Nat /\ Due(v) \in {0, 1}
  BY CountTypes
<1>2. CASE v \in L
  BY <1>1, <1>2 DEF Counted
<1>3. CASE v \notin L
  BY <1>1, <1>3, NotListed
<1> QED BY <1>2, <1>3

\* The second pass drops nodes and moves them, and adds none.
LEMMA RearrangeAddsNone ==
    ASSUME SearchInv, Rearrange, NEW v
    PROVE  Occurrences(taskList', v) <= Occurrences(taskList, v)
<1> DEFINE P == {i \in DOMAIN taskList : taskList[i] = v}
           Q == {k \in DOMAIN taskList' : taskList'[k] = v}
<1>1. PICK order \in Seq(DOMAIN taskList) :
        /\ IsInjective(order)
        /\ \A k \in DOMAIN order : order[k] \in DOMAIN taskList
        /\ taskList' = [k \in DOMAIN order |-> taskList[order[k]]]
        /\ DOMAIN taskList' = DOMAIN order
  BY RearrangeFacts
<1>2. IsFiniteSet(P)
  <2>1. DOMAIN taskList = 1..Len(taskList) /\ Len(taskList) \in Nat
    BY SearchFacts
  <2>2. IsFiniteSet(DOMAIN taskList) /\ P \in SUBSET DOMAIN taskList
    BY <2>1, FS_Interval
  <2> QED BY <2>2, FS_Subset
<1> DEFINE f == [k \in Q |-> order[k]]
<1>3. \A k \in Q : k \in DOMAIN order /\ order[k] \in P
  BY <1>1
<1> HIDE DEF P, Q
<1>4. f \in Injection(Q, P)
  BY <1>1, <1>3 DEF Injection, IsInjective
<1> HIDE DEF f
<1>5. Cardinality(Q) <= Cardinality(P)
  BY <1>2, <1>4, FS_Injection
<1> QED BY <1>5 DEF P, Q, Occurrences

\* A request for a listed node is to be served once more, and is counted so.
LEMMA RequestIsCounted ==
    ASSUME SearchInv, Repeats, NEW x \in Node, Request(x), NEW v \in Node
    PROVE  Counted(v)'
<1>1. /\ pc = "idle" /\ targets' = Append(targets, x) /\ taskList' = taskList
      /\ targets \in Seq(Node) /\ pc' = "descend" /\ again \in [Node -> Nat]
      /\ again' = IF x \in ToSet(taskList) THEN [again EXCEPT ![x] = @ + 1] ELSE again
  BY SearchFacts DEF Request, SearchInv, TypeOK
<1>2. Goal' = x
  BY <1>1 DEF Goal, Last
<1>3. L' = L
  BY <1>1 DEF L
<1>4. Due(v) = 0 /\ Due(v)' = IF v = x /\ v \in L THEN 1 ELSE 0
  BY <1>1, <1>2, <1>3 DEF Due
<1>5. again'[v] = IF v = x /\ v \in L THEN again[v] + 1 ELSE again[v]
  BY <1>1 DEF L
<1>6. Counted(v)
  BY <1>1 DEF Repeats
<1>7. Occurrences(taskList, v) \in Nat /\ again[v] \in Nat
  BY CountTypes
<1>8. CASE v \in L
  <2>1. Occurrences(taskList, v) + 0 = 1 + again[v]
    BY <1>4, <1>6, <1>8 DEF Counted
  <2>2. Occurrences(taskList, v) + Due(v)' = 1 + again'[v]
    BY <1>4, <1>5, <1>7, <2>1
  <2> QED BY <1>1, <1>3, <1>8, <2>2 DEF Counted
<1>9. CASE v \notin L
  BY <1>3, <1>5, <1>6, <1>9 DEF Counted
<1> QED BY <1>8, <1>9

\* The target is listed for its request; any other node on the stack was WHITE
\* and is listed for the first time.
LEMMA ListingIsCounted ==
    ASSUME SearchInv, Repeats, TopIsListed, NEW v \in Node
    PROVE  Counted(v)'
<1> DEFINE n == Len(stack)
           x == Last(stack)
<1>1. /\ n \in Nat \ {0} /\ x = stack[n] /\ x \in Node
      /\ taskList' = Append(taskList, x) /\ L' = L \cup {x}
      /\ stack' \in Seq(Node) /\ Len(stack') = n - 1
  BY TopIsDone
<1>2. /\ pc = "top" /\ pc' = "top" /\ again' = again /\ Goal' = Goal
      /\ stack # <<>> /\ stack[1] = Goal
  BY DEF TopIsListed, graphVars, Goal, SearchInv, Position
<1>3. Occurrences(taskList', v) = Occurrences(taskList, v) + IF x = v THEN 1 ELSE 0
  BY <1>1, SearchFacts, OccurrencesAppend
<1>4. /\ \A i, j \in 1..n : stack[i] = stack[j] => i = j
      /\ \A i \in 1..n : i # 1 => stack[i] \notin L
  BY PathFacts
<1>5. Counted(v) /\ Occurrences(taskList, v) \in Nat /\ again[v] \in Nat
  BY <1>2, CountTypes DEF Repeats
<1> HIDE DEF n, x
<1>6. Due(v) = IF v = Goal /\ v \in L THEN 1 ELSE 0
  BY <1>2 DEF Due
<1>7. Due(v)' = IF v = Goal /\ v \in L' /\ stack' # <<>> THEN 1 ELSE 0
  BY <1>2 DEF Due
<1>8. CASE n = 1
  <2>1. stack' = <<>> /\ x = Goal
    BY <1>1, <1>2, <1>8
  <2>2. CASE v = x /\ v \in L
    <3>1. Occurrences(taskList, v) + 1 = 1 + again[v]
      BY <1>5, <1>6, <2>1, <2>2 DEF Counted
    <3>2. Occurrences(taskList', v) + Due(v)' = 1 + again[v]
      BY <1>3, <1>5, <1>7, <2>1, <2>2, <3>1
    <3> QED BY <1>1, <1>2, <2>2, <3>2 DEF Counted
  <2>3. CASE v = x /\ v \notin L
    <3>1. Occurrences(taskList, v) = 0 /\ again[v] = 0
      BY <1>5, <2>3, NotListed DEF Counted
    <3>2. Occurrences(taskList', v) + Due(v)' = 1 + again[v]
      BY <1>3, <1>7, <2>1, <2>3, <3>1
    <3> QED BY <1>1, <1>2, <2>3, <3>2 DEF Counted
  <2>4. CASE v # x
    <3>1. Due(v) = 0 /\ Due(v)' = 0 /\ Occurrences(taskList', v) = Occurrences(taskList, v)
      BY <1>3, <1>5, <1>6, <1>7, <2>1, <2>4
    <3>2. v \in L' <=> v \in L
      BY <1>1, <2>4
    <3> QED BY <1>2, <1>5, <3>1, <3>2 DEF Counted
  <2> QED BY <2>2, <2>3, <2>4
<1>9. CASE n # 1
  <2>1. n \in 1..n /\ 1 \in 1..n
    BY <1>1, <1>9
  <2>2. x # Goal /\ x \notin L /\ stack' # <<>>
    BY <1>1, <1>2, <1>4, <1>9, <2>1
  <2>3. CASE v = x
    <3>1. Occurrences(taskList, v) = 0 /\ again[v] = 0
      BY <1>5, <2>2, <2>3, NotListed DEF Counted
    <3>2. Occurrences(taskList', v) + Due(v)' = 1 + again[v]
      BY <1>3, <1>7, <2>2, <2>3, <3>1
    <3> QED BY <1>1, <1>2, <2>3, <3>2 DEF Counted
  <2>4. CASE v # x
    <3>1. v \in L' <=> v \in L
      BY <1>1, <2>4
    <3>2. Due(v)' = Due(v) /\ Occurrences(taskList', v) = Occurrences(taskList, v)
      BY <1>3, <1>5, <1>6, <1>7, <2>2, <2>4, <3>1
    <3> QED BY <1>2, <1>5, <3>1, <3>2 DEF Counted
  <2> QED BY <2>3, <2>4
<1> QED BY <1>8, <1>9

\* A request that fails was not for a listed node: what is listed holds no loop.
LEMMA LoopIsNotListed ==
    ASSUME SearchInv, LoopDetected
    PROVE  Goal \notin L
<1>1. SearchInv'
  BY LoopDetectedKeeps
<1>2. /\ UNCHANGED <<targets, taskList, dag>> /\ pc' = "idle" /\ result' = FALSE
      /\ pc = "descend" /\ targets # <<>>
  BY DEF LoopDetected, SearchInv, Position
<1>3. Doomed(dag.edges, Goal)
  <2>1. Doomed(dag.edges, Goal)'
    BY <1>1, <1>2 DEF SearchInv, Answered
  <2>2. Goal' = Goal
    BY <1>2 DEF Goal
  <2> QED BY <1>2, <2>1, <2>2 DEF Doomed, Above
<1>4. L \in SUBSET Node /\ Closed(dag.edges, L) /\ Acyclic(dag.edges, L)
  BY <1>2, SearchFacts DEF SearchInv, ListStandsAlone
<1> QED BY <1>3, <1>4, FoundedIsNotDoomed

LEMMA RepeatsAlways == Spec => []Repeats
<1>1. Init => Repeats
  <2> SUFFICES ASSUME Init, NEW v \in Node
               PROVE  Occurrences(taskList, v) <= 1 + again[v] /\ Counted(v)
    BY DEF Repeats
  <2>1. SearchInv
    BY SearchInit
  <2>2. L = {} /\ again[v] = 0
    BY DEF Init, L, ToSet
  <2>3. Counted(v)
    BY <2>2 DEF Counted
  <2> QED BY <2>1, <2>3, CountedIsEnough
<1>2. SearchInv /\ SearchInv' /\ Repeats /\ [Next]_vars => Repeats'
  <2> SUFFICES ASSUME SearchInv, SearchInv', Repeats, [Next]_vars PROVE Repeats'
    OBVIOUS
  <2>1. ASSUME \A v \in Node : Counted(v)'
        PROVE  Repeats'
    <3>1. ASSUME NEW v \in Node
          PROVE  Occurrences(taskList', v) <= 1 + again'[v]
      <4>1. /\ Occurrences(taskList', v) \in Nat /\ again'[v] \in Nat
            /\ Due(v)' \in {0, 1}
        BY OccurrencesType DEF Due, SearchInv, TypeOK
      <4>2. CASE v \in L'
        BY <2>1, <4>1, <4>2 DEF Counted
      <4>3. CASE v \notin L'
        <5>1. {i \in DOMAIN taskList' : taskList'[i] = v} = {}
          BY <4>3 DEF L, ToSet
        <5>2. Occurrences(taskList', v) = 0
          BY <5>1, FS_EmptySet DEF Occurrences
        <5> QED BY <4>1, <5>2
      <4> QED BY <4>2, <4>3
    <3> QED BY <2>1, <3>1 DEF Repeats
  <2>2. ASSUME UNCHANGED <<taskList, again>>,
               pc \in {"idle", "descend", "top", "visit"},
               \A v \in Node : Due(v)' = Due(v)
        PROVE  Repeats'
    <3>1. ASSUME NEW v \in Node PROVE Counted(v)'
      <4>1. Counted(v) /\ Due(v)' = Due(v)
        BY <2>2 DEF Repeats
      <4>2. L' = L
        BY <2>2 DEF L
      <4> QED BY <2>2, <4>1, <4>2 DEF Counted
    <3> QED BY <2>1, <3>1
  <2>3. CASE \E x \in Node : Request(x)
    BY <2>1, <2>3, RequestIsCounted
  <2>4. CASE Descend
    <3>1. /\ UNCHANGED <<taskList, targets, again>> /\ pc = "descend"
          /\ pc' = "descend" \/ (pc' = "top" /\ stack' # <<>>)
      <4>1. stack' = Append(stack, cur) /\ cur \in Node /\ stack \in Seq(Node)
        BY <2>4, SearchFacts DEF Descend, Push, SearchInv, Position
      <4>2. stack' # <<>>
        BY <4>1
      <4> QED BY <2>4, <4>2 DEF Descend, graphVars
    <3>2. ASSUME NEW v \in Node PROVE Due(v)' = Due(v)
      <4>1. Goal' = Goal /\ L' = L
        BY <3>1 DEF Goal, L
      <4> QED BY <3>1, <4>1 DEF Due
    <3> QED BY <2>2, <3>1, <3>2
  <2>5. CASE LoopDetected
    <3>1. /\ UNCHANGED <<taskList, again>> /\ pc = "descend" /\ pc' = "idle"
      BY <2>5 DEF LoopDetected
    <3>2. ASSUME NEW v \in Node PROVE Due(v)' = Due(v)
      BY <2>5, <3>1, LoopIsNotListed DEF Due
    <3> QED BY <2>2, <3>1, <3>2
  <2>6. CASE TopGoesOn
    <3>1. /\ UNCHANGED <<taskList, again, targets>> /\ pc = "top" /\ stack # <<>>
          /\ pc' = "descend"
      BY <2>6 DEF TopGoesOn, graphVars
    <3>2. ASSUME NEW v \in Node PROVE Due(v)' = Due(v)
      <4>1. Goal' = Goal /\ L' = L
        BY <3>1 DEF Goal, L
      <4> QED BY <3>1, <4>1 DEF Due
    <3> QED BY <2>2, <3>1, <3>2
  <2>7. CASE TopIsListed
    BY <2>1, <2>7, ListingIsCounted
  <2>8. CASE RequestDone
    <3>1. /\ UNCHANGED <<taskList, again>> /\ pc = "top" /\ stack = <<>> /\ pc' = "idle"
      BY <2>8 DEF RequestDone, graphVars
    <3>2. ASSUME NEW v \in Node PROVE Due(v)' = Due(v)
      BY <3>1 DEF Due
    <3> QED BY <2>2, <3>1, <3>2
  <2>9. CASE Schedule \/ \E x \in Node : VisitOf(x)
    <3>1. /\ UNCHANGED <<taskList, again>> /\ pc \in {"idle", "visit"} /\ pc' = "visit"
      BY <2>9, VisitFrame DEF Schedule, graphVars
    <3>2. ASSUME NEW v \in Node PROVE Due(v)' = Due(v)
      BY <3>1 DEF Due
    <3> QED BY <2>2, <3>1, <3>2
  <2>10. CASE \E x \in Node, time \in FileTime : NoRecipe(x, time)
    <3>1. UNCHANGED <<taskList, again>> /\ pc' = "exited"
      BY <2>10 DEF NoRecipe, graphVars
    <3> QED BY <3>1 DEF Repeats
  <2>11. CASE Rearrange
    <3>1. again' = again /\ pc' = "planned"
      BY <2>11 DEF Rearrange, graphVars
    <3>2. ASSUME NEW v \in Node
          PROVE  Occurrences(taskList', v) <= 1 + again'[v]
      <4>1. Occurrences(taskList', v) <= Occurrences(taskList, v)
        BY <2>11, RearrangeAddsNone
      <4>2. Occurrences(taskList, v) <= 1 + again[v]
        BY DEF Repeats
      <4>3. Occurrences(taskList, v) \in Nat /\ again[v] \in Nat
        BY CountTypes
      <4>4. Occurrences(taskList', v) \in Nat
        BY OccurrencesType DEF SearchInv, TypeOK
      <4> QED BY <3>1, <4>1, <4>2, <4>3, <4>4
    <3> QED BY <3>1, <3>2 DEF Repeats
  <2>12. CASE UNCHANGED vars
    <3>1. UNCHANGED <<taskList, again, targets, pc, stack>>
      BY <2>12 DEF vars, graphVars
    <3>2. ASSUME NEW v \in Node PROVE Counted(v)' <=> Counted(v)
      <4>1. Goal' = Goal /\ L' = L
        BY <3>1 DEF Goal, L
      <4>2. Due(v)' = Due(v)
        BY <3>1, <4>1 DEF Due
      <4> QED BY <3>1, <4>1, <4>2 DEF Counted
    <3> QED BY <3>1, <3>2 DEF Repeats
  <2> QED BY StepCases, <2>3, <2>4, <2>5, <2>6, <2>7, <2>8, <2>9, <2>10, <2>11, <2>12
<1> QED BY <1>1, <1>2, SearchAlways, PTL DEF Spec

\* A node is listed once, and once more for each request that was made for it
\* when it was listed.
THEOREM ListedAsRequested == Spec => []ListedAgainAsAsked
<1>1. SearchInv /\ Repeats => ListedAgainAsAsked
  <2> SUFFICES ASSUME SearchInv, Repeats PROVE ListedAgainAsAsked
    OBVIOUS
  <2>1. \A v \in Node : Listed(v) = Occurrences(taskList, v)
    BY DEF Listed, Occurrences
  <2>2. ASSUME pc \in {"idle", "visit"}, NEW v \in ToSet(taskList)
        PROVE  Listed(v) = 1 + again[v]
    <3>1. v \in Node /\ v \in L
      BY <2>2, SearchFacts DEF L
    <3>2. Occurrences(taskList, v) \in Nat /\ Due(v) = 0 /\ Counted(v)
      BY <2>2, <3>1, CountTypes DEF Due, Repeats
    <3> QED BY <2>1, <3>1, <3>2 DEF Counted
  <2> QED BY <2>1, <2>2 DEF ListedAgainAsAsked, Repeats
<1> QED BY <1>1, SearchAlways, RepeatsAlways, PTL

-----------------------------------------------------------------------------
(* The plan.                                                               *)

LEMMA FreshAlways == Spec => []Fresh
<1>1. Init => Fresh
  <2> SUFFICES ASSUME Init PROVE Fresh
    OBVIOUS
  <2>1. L = {} /\ taskList = <<>> /\ pc = "idle" /\ \A v \in Node : status[v] = WHITE
    BY DEF Init, L, ToSet
  <2> QED BY <2>1 DEF Fresh, NoDuplicates, WHITE, GREY
<1>2. SearchInv /\ Fresh /\ [Next]_vars => Fresh'
  <2> SUFFICES ASSUME SearchInv, Fresh, [Next]_vars, Searching', sound' PROVE Fresh'
    BY DEF Fresh
  <2>1. status \in [Node -> Colour] /\ L \in SUBSET Node /\ OnStack \in SUBSET Node
    BY SearchFacts
  <2>2. ASSUME Searching, sound
        PROVE  /\ NoDuplicates(taskList) /\ OnStack \cap L = {}
               /\ pc = "descend" => status[cur] = WHITE
               /\ \A v \in Node : status[v] = GREY => v \in OnStack
    BY <2>2 DEF Fresh
  <2>3. ASSUME NEW v \in Node, Request(v) PROVE Fresh'
    <3>1. /\ pc = "idle" /\ sound /\ status[v] = WHITE /\ cur' = v /\ Searching
          /\ L' = L /\ OnStack' = OnStack /\ UNCHANGED <<status, taskList>>
      BY <2>3 DEF Request, SearchInv, Position, L, OnStack, ToSet, Searching
    <3> QED BY <2>2, <3>1 DEF Fresh
  <2>4. CASE Descend
    <3>1. /\ pc = "descend" /\ Searching /\ sound /\ cur \in Node /\ L' = L
          /\ status' = [status EXCEPT ![cur] = GREY]
          /\ stack' = Append(stack, cur) /\ taskList' = taskList
      BY <2>4 DEF Descend, Push, graphVars, SearchInv, Position, Searching, L
    <3>2. OnStack' = OnStack \cup {cur}
      BY <3>1, SearchFacts, PushElements DEF OnStack
    <3>3. cur \notin L
      BY <2>2, <3>1 DEF SearchInv, Colours, WHITE, GREY, BLACK
    <3>4. pc' = "descend" => status'[cur'] = WHITE
      <4>1. SearchInv'
        BY <2>4, DescendKeeps
      <4>2. stack' # <<>>
        BY <3>1, SearchFacts
      <4> QED BY <4>1, <4>2 DEF SearchInv, Position
    <3>5. \A v \in Node : status'[v] = GREY => v = cur \/ status[v] = GREY
      BY <2>1, <3>1
    <3> QED BY <2>2, <3>1, <3>2, <3>3, <3>4, <3>5 DEF Fresh
  <2>5. CASE LoopDetected
    BY <2>5 DEF LoopDetected
  <2>6. CASE TopGoesOn
    <3>1. /\ Searching /\ sound /\ L' = L /\ OnStack' = OnStack
          /\ status[cur'] = WHITE /\ UNCHANGED <<status, taskList>>
      BY <2>6 DEF TopGoesOn, WhiteParents, graphVars, Searching, L, OnStack
    <3> QED BY <2>2, <3>1 DEF Fresh
  <2>7. CASE TopIsListed
    <3> DEFINE x == Last(stack)
    <3>1. /\ x \in Node /\ x \in OnStack /\ taskList' = Append(taskList, x)
          /\ L' = L \cup {x} /\ OnStack' = OnStack \ {x}
          /\ status' = [status EXCEPT ![x] = BLACK]
      BY <2>7, TopIsDone
    <3>2. Searching /\ sound /\ pc' # "descend"
      BY <2>7 DEF TopIsListed, graphVars, Searching
    <3> HIDE DEF x
    <3>3. /\ x \notin L /\ NoDuplicates(taskList)
          /\ \A v \in Node : status[v] = GREY => v \in OnStack
      BY <2>2, <3>1, <3>2
    <3>4. NoDuplicates(taskList')
      <4> DEFINE m == Len(taskList)
      <4>1. /\ m \in Nat /\ DOMAIN taskList = 1..m /\ DOMAIN taskList' = 1..(m + 1)
            /\ \A i \in 1..m : taskList'[i] = taskList[i]
            /\ taskList'[m + 1] = x
        BY <3>1, SearchFacts, PushFacts
      <4> HIDE DEF m
      <4>2. \A i \in 1..m : taskList[i] # x
        BY <3>3, <4>1 DEF L, ToSet
      <4>3. \A i \in 1..(m + 1) : i \in 1..m \/ i = m + 1
        BY <4>1
      <4>4. \A i, j \in 1..m : taskList[i] = taskList[j] => i = j
        BY <3>3, <4>1 DEF NoDuplicates
      <4>5. \A i, j \in 1..(m + 1) : taskList'[i] = taskList'[j] => i = j
        BY <4>1, <4>2, <4>3, <4>4
      <4> QED BY <4>1, <4>5 DEF NoDuplicates
    <3>5. \A v \in Node : status'[v] = GREY => v # x /\ status[v] = GREY
      BY <2>1, <3>1 DEF GREY, BLACK
    <3>6. OnStack' \cap L' = {}
      BY <2>2, <3>1, <3>2
    <3> QED BY <3>1, <3>2, <3>3, <3>4, <3>5, <3>6 DEF Fresh
  <2>8. CASE RequestDone \/ UNCHANGED vars
    <3>1. /\ Searching /\ sound /\ UNCHANGED <<status, taskList, stack, cur>>
          /\ pc' = "descend" => pc = "descend"
          /\ L' = L /\ OnStack' = OnStack
      BY <2>8 DEF RequestDone, vars, graphVars, Searching, L, OnStack
    <3> QED BY <2>2, <3>1 DEF Fresh
  <2>9. ~Schedule /\ ~Rearrange
    BY DEF Schedule, Rearrange, Searching
  <2>10. \A v \in Node : ~VisitOf(v)
    BY VisitFrame DEF Searching
  <2>11. \A v \in Node, time \in FileTime : ~NoRecipe(v, time)
    BY DEF NoRecipe, Searching
  <2> QED BY StepCases, <2>3, <2>4, <2>5, <2>6, <2>7, <2>8, <2>9, <2>10, <2>11
<1> QED BY <1>1, <1>2, SearchAlways, PTL DEF Spec

\* What was judged stays judged while neither the node nor what it is made from
\* changes.
LEMMA JudgedStays ==
    ASSUME NEW v \in Node, Judged(v), dag' = dag,
           lmt'[v] = lmt[v], status'[v] = status[v], wait'[v] = wait[v],
           \A u \in Parents(dag.edges, v) : lmt'[u] = lmt[u] /\ status'[u] = status[u]
    PROVE  Judged(v)'
<1>1. ParentsOf(v)' = ParentsOf(v) /\ ParentsOf(v) = Parents(dag.edges, v)
  BY DEF ParentsOf
<1>2. DarkParents(v)' = DarkParents(v)
  BY <1>1 DEF DarkParents
<1>3. Seed(v)' <=> Seed(v)
  BY <1>1 DEF Seed
<1> QED BY <1>2, <1>3 DEF Judged

\* A visit judges its node by parents that it does not change.
LEMMA VisitedIsJudged ==
    ASSUME SearchInv, NEW v \in Node, VisitOf(v), v \notin Parents(dag.edges, v)
    PROVE  Judged(v)'
<1>1. /\ status \in [Node -> Colour] /\ lmt \in [Node -> Int] /\ wait \in [Node -> Int]
      /\ dag' = dag
  BY VisitFrame DEF SearchInv, TypeOK
<1>2. PICK time \in Int, colour \in Colour : JudgedAs(v, time, colour)
  BY VisitJudges
<1>3. /\ lmt'[v] = time /\ status'[v] = colour
      /\ \A u \in Node \ {v} : lmt'[u] = lmt[u] /\ status'[u] = status[u]
      /\ colour # WHITE <=> \/ v \in dag.phony
                            \/ v \in dag.recipe /\ \E u \in ParentsOf(v) : lmt[u] > time
                            \/ DarkParents(v) # {}
      /\ colour # WHITE =>
           /\ wait'[v] = Cardinality(DarkParents(v))
           /\ colour = IF DarkParents(v) = {} THEN GREY ELSE BLACK
  BY <1>1, <1>2 DEF JudgedAs
<1>4. ParentsOf(v)' = ParentsOf(v) /\ ParentsOf(v) \subseteq Node \ {v}
  BY <1>1 DEF ParentsOf, Parents
<1>5. DarkParents(v)' = DarkParents(v)
  BY <1>3, <1>4 DEF DarkParents
<1>6. Seed(v)' <=> \/ v \in dag.phony
                   \/ v \in dag.recipe /\ \E u \in ParentsOf(v) : lmt[u] > time
  BY <1>1, <1>3, <1>4 DEF Seed
<1> QED BY <1>3, <1>5, <1>6 DEF Judged

LEMMA VisitKeepsJudging ==
    ASSUME SearchInv, Judging, sound, NEW x \in Node, VisitOf(x)
    PROVE  Judging'
<1> DEFINE m == Len(taskList)
<1>1. /\ pc = "visit" /\ pc' = "visit" /\ todo' = todo + 1
      /\ todo <= m /\ taskList[todo] = x
      /\ UNCHANGED <<dag, targets, sound, again, asked, taskList, stack, cur, result>>
      /\ \A u \in Node \ {x} : wait'[u] = wait[u]
  BY VisitFrame
<1>2. /\ todo \in 1..(m + 1) /\ NoDuplicates(taskList) /\ asked = L
      /\ \A v \in Node \ L : status[v] = WHITE
      /\ \A v \in Visits : Judged(v)
  BY <1>1 DEF Judging
<1>3. /\ m \in Nat /\ DOMAIN taskList = 1..m /\ todo \in 1..m
      /\ status \in [Node -> Colour] /\ lmt \in [Node -> Int]
      /\ \A i \in 1..m : taskList[i] \in Node
  <2>1. m \in Nat /\ DOMAIN taskList = 1..m /\ taskList \in Seq(Node)
    BY SearchFacts
  <2>2. status \in [Node -> Colour] /\ lmt \in [Node -> Int]
    BY DEF SearchInv, TypeOK
  <2>3. todo \in 1..m
    BY <1>1, <1>2, <2>1
  <2>4. \A i \in 1..m : taskList[i] \in Node
    BY <2>1
  <2> QED BY <2>1, <2>2, <2>3, <2>4
<1>4. \A u \in Node \ {x} : lmt'[u] = lmt[u] /\ status'[u] = status[u]
  <2>1. PICK time \in Int, colour \in Colour : JudgedAs(x, time, colour)
    BY VisitJudges
  <2> QED BY <1>3, <2>1 DEF JudgedAs
<1> HIDE DEF m
<1>5. ASSUME NEW i \in 1..m, i <= todo
      PROVE  \A u \in Parents(dag.edges, taskList[i]) : u \in Node \ {x}
  <2>1. Parents(dag.edges, taskList[i]) \subseteq {taskList[j] : j \in 1..(i - 1)}
    BY <1>1, <1>3 DEF SearchInv, FeasibleForOneWorker, ParentsOf
  <2>2. ASSUME NEW j \in 1..(i - 1) PROVE taskList[j] \in Node /\ taskList[j] # x
    <3>1. j \in 1..m /\ j # todo
      BY <1>3, <1>5
    <3> QED BY <1>1, <1>2, <1>3, <3>1 DEF NoDuplicates
  <2> QED BY <2>1, <2>2
<1>6. ASSUME NEW v \in Visits PROVE Judged(v)'
  <2>1. PICK i \in 1..(todo - 1) : v = taskList[i]
    BY DEF Visits
  <2>2. i \in 1..m /\ i <= todo /\ i # todo
    BY <1>3
  <2>3. v \in Node /\ v # x
    BY <1>1, <1>2, <1>3, <2>1, <2>2 DEF NoDuplicates
  <2>4. \A u \in Parents(dag.edges, v) : u \in Node \ {x}
    BY <1>5, <2>1, <2>2
  <2>5. Judged(v)
    BY <1>2
  <2> QED BY <1>1, <1>4, <2>3, <2>4, <2>5, JudgedStays
<1>7. Judged(x)'
  <2>1. todo <= todo
    BY <1>3
  <2>2. x \notin Parents(dag.edges, x)
    BY <1>1, <1>3, <1>5, <2>1
  <2> QED BY <2>2, VisitedIsJudged
<1>8. \A v \in Visits' : v \in Visits \/ v = x
  <2>1. Visits' = {taskList[i] : i \in 1..todo}
    <3>1. todo' - 1 = todo
      BY <1>1, <1>3
    <3> QED BY <1>1, <3>1 DEF Visits
  <2>2. \A i \in 1..todo : i \in 1..(todo - 1) \/ i = todo
    BY <1>3
  <2> QED BY <1>1, <2>1, <2>2 DEF Visits
<1>9. \A v \in Visits' : Judged(v)'
  BY <1>6, <1>7, <1>8
<1>10. L' = L /\ NoDuplicates(taskList') /\ asked' = L'
  BY <1>1, <1>2 DEF L
<1>11. todo' \in 1..(Len(taskList') + 1)
  BY <1>1, <1>3 DEF m
<1>12. \A v \in Node \ L : status'[v] = WHITE
  <2>1. x \in L
    BY <1>1, <1>3 DEF L, ToSet
  <2> QED BY <1>2, <1>4, <2>1
<1> QED BY <1>9, <1>10, <1>11, <1>12 DEF Judging

LEMMA JudgingAlways == Spec => []Judging
<1>1. Init => Judging
  BY DEF Init, Judging
<1>2. SearchInv /\ Fresh /\ Judging /\ [Next]_vars => Judging'
  <2> SUFFICES ASSUME SearchInv, Fresh, Judging, [Next]_vars, pc' = "visit", sound'
               PROVE  Judging'
    BY DEF Judging
  <2>1. CASE Schedule
    <3>1. /\ pc = "idle" /\ sound /\ Searching /\ asked' = L /\ todo' = 1 /\ OnStack = {}
          /\ L' = L /\ UNCHANGED <<status, taskList>>
      BY <2>1 DEF Schedule, SearchInv, Position, Searching, L, OnStack, ToSet
    <3>2. /\ NoDuplicates(taskList) /\ \A v \in Node : status[v] # GREY
          /\ status \in [Node -> Colour] /\ \A v \in Node : status[v] = BLACK => v \in L
          /\ Len(taskList) \in Nat
      <4>1. NoDuplicates(taskList) /\ \A v \in Node : status[v] # GREY
        BY <3>1 DEF Fresh
      <4>2. \A v \in Node : status[v] = BLACK => v \in L
        BY <3>1 DEF SearchInv, Colours
      <4> QED BY <4>1, <4>2, SearchFacts
    <3>3. \A v \in Node \ L : status[v] = WHITE
      BY <3>2 DEF Colour
    <3>4. Visits' = {}
      <4>1. 1..(todo' - 1) = {}
        BY <3>1
      <4> QED BY <4>1 DEF Visits
    <3> QED BY <3>1, <3>2, <3>3, <3>4 DEF Judging
  <2>2. ASSUME NEW v \in Node, VisitOf(v) PROVE Judging'
    <3>1. sound
      BY <2>2, VisitFrame
    <3> QED BY <2>2, <3>1, VisitKeepsJudging
  <2>3. CASE UNCHANGED vars
    <3>1. /\ UNCHANGED <<dag, asked, sound, status, wait, lmt, taskList, pc, todo>>
          /\ L' = L /\ Visits' = Visits
      BY <2>3 DEF vars, graphVars, L, Visits
    <3>2. /\ todo \in 1..(Len(taskList) + 1) /\ NoDuplicates(taskList) /\ asked = L
          /\ \A v \in Node \ L : status[v] = WHITE
          /\ \A v \in Visits : Judged(v)
      BY <3>1 DEF Judging
    <3>3. Visits \subseteq Node
      <4>1. \A i \in 1..(todo - 1) : i \in DOMAIN taskList
        BY <3>2, SearchFacts
      <4> QED BY <4>1, SearchFacts DEF Visits
    <3>4. \A v \in Visits : Judged(v)'
      BY <3>1, <3>2, <3>3, JudgedStays
    <3> QED BY <3>1, <3>2, <3>4 DEF Judging
  <2>4. /\ \A v \in Node : ~Request(v)
        /\ ~Descend /\ ~LoopDetected /\ ~TopGoesOn /\ ~TopIsListed /\ ~RequestDone
        /\ \A v \in Node, time \in FileTime : ~NoRecipe(v, time)
        /\ ~Rearrange
    BY DEF Request, Descend, LoopDetected, TopGoesOn, TopIsListed, RequestDone, NoRecipe,
           Rearrange
  <2> QED BY StepCases, <2>1, <2>2, <2>3, <2>4
<1> QED BY <1>1, <1>2, SearchAlways, FreshAlways, PTL DEF Spec

\* When every node has been visited, what is not WHITE is what has to be built.
LEMMA AllJudged ==
    ASSUME SearchInv, Judging, sound, Rearrange
    PROVE  /\ asked = L /\ NoDuplicates(taskList)
           /\ \A v \in Node \ L : status[v] = WHITE
           /\ \A v \in L : Judged(v) /\ Parents(dag.edges, v) \subseteq L
           /\ Closed(dag.edges, L) /\ Acyclic(dag.edges, L)
           /\ \A i \in DOMAIN taskList :
                Parents(dag.edges, taskList[i]) \subseteq {taskList[j] : j \in 1..(i - 1)}
<1>1. pc = "visit" /\ todo > Len(taskList)
  BY DEF Rearrange
<1>2. /\ todo \in 1..(Len(taskList) + 1) /\ asked = L /\ NoDuplicates(taskList)
      /\ \A v \in Node \ L : status[v] = WHITE
      /\ \A v \in Visits : Judged(v)
  BY <1>1 DEF Judging
<1>3. todo - 1 = Len(taskList) /\ DOMAIN taskList = 1..Len(taskList)
  BY <1>1, <1>2, SearchFacts
<1>4. Visits = L
  BY <1>3 DEF Visits, L, ToSet
<1>5. Closed(dag.edges, L) /\ Acyclic(dag.edges, L)
  BY <1>1 DEF SearchInv, ListStandsAlone
<1>6. \A i \in DOMAIN taskList :
        Parents(dag.edges, taskList[i]) \subseteq {taskList[j] : j \in 1..(i - 1)}
  BY <1>1 DEF SearchInv, FeasibleForOneWorker, ParentsOf
<1> QED BY <1>2, <1>4, <1>5, <1>6 DEF Closed

LEMMA KeptNodes ==
    ASSUME SearchInv, Rearrange
    PROVE  /\ ToSet(taskList') = {v \in L : status[v] # WHITE}
           /\ NoDuplicates(taskList) => NoDuplicates(taskList')
<1>1. PICK order \in Seq(DOMAIN taskList) :
        /\ ToSet(order) = Kept /\ IsInjective(order)
        /\ \A k \in DOMAIN order : order[k] \in DOMAIN taskList
        /\ taskList' = [k \in DOMAIN order |-> taskList[order[k]]]
        /\ DOMAIN taskList' = DOMAIN order
  BY RearrangeFacts
<1>2. \A k \in DOMAIN order : taskList'[k] = taskList[order[k]]
  BY <1>1
<1>3. \A k \in DOMAIN order : taskList'[k] \in L /\ status[taskList'[k]] # WHITE
  BY <1>1, <1>2 DEF ToSet, Kept, L
<1>4. ASSUME NEW v \in L, status[v] # WHITE PROVE \E k \in DOMAIN order : taskList'[k] = v
  <2>1. PICK i \in DOMAIN taskList : taskList[i] = v
    BY DEF L, ToSet
  <2>2. i \in ToSet(order)
    BY <1>1, <1>4, <2>1 DEF Kept
  <2>3. PICK k \in DOMAIN order : order[k] = i
    BY <2>2 DEF ToSet
  <2> QED BY <1>2, <2>1, <2>3
<1>5. ToSet(taskList') = {v \in L : status[v] # WHITE}
  BY <1>1, <1>3, <1>4 DEF ToSet
<1>6. ASSUME NoDuplicates(taskList) PROVE NoDuplicates(taskList')
  <2>1. \A k, l \in DOMAIN order : order[k] = order[l] => k = l
    BY <1>1 DEF IsInjective
  <2> QED BY <1>1, <1>2, <1>6, <2>1 DEF NoDuplicates
<1> QED BY <1>5, <1>6

\* What preprocessing establishes: the parents that are not WHITE are the parents
\* on the list.
LEMMA PlanEstablished ==
    ASSUME SearchInv, Judging, sound, Rearrange, taskList' # <<>>
    PROVE  PreprocessResult(Plan')
<1> DEFINE E == dag.edges
           t == taskList'
           p == [edges |-> dag.edges, recipe |-> dag.recipe, asked |-> asked,
                 tasks |-> taskList', status |-> status, wait |-> wait]
<1>1. Plan' = p
  BY DEF Rearrange, graphVars, Plan
<1>2. /\ p.edges = E /\ p.recipe = dag.recipe /\ p.asked = asked /\ p.tasks = t
      /\ p.status = status /\ p.wait = wait
  OBVIOUS
<1>3. /\ asked = L /\ NoDuplicates(taskList)
      /\ \A v \in Node \ L : status[v] = WHITE
      /\ \A v \in L : Judged(v) /\ Parents(E, v) \subseteq L
      /\ \A i \in DOMAIN taskList :
           Parents(E, taskList[i]) \subseteq {taskList[j] : j \in 1..(i - 1)}
  BY AllJudged
<1>4. ToSet(t) = {v \in L : status[v] # WHITE} /\ NoDuplicates(t)
  BY <1>3, KeptNodes
<1>5. /\ status \in [Node -> Colour] /\ wait \in [Node -> Int] /\ L \in SUBSET Node
      /\ t \in Seq(Node) /\ asked \in SUBSET Node
      /\ DOMAIN taskList = 1..Len(taskList) /\ Len(taskList) \in Nat
      /\ \A i \in DOMAIN taskList : taskList[i] \in L
  <2>1. TypeOK /\ t \in Seq(Node)
    BY RearrangeFacts DEF SearchInv
  <2> QED BY <2>1, SearchFacts DEF TypeOK, L, ToSet
<1>6. p \in PlanType
  <2>1. E \in SUBSET (Node \X Node) /\ dag.recipe \in SUBSET Node
    BY InstanceAssumption DEF SearchInv, TypeOK
  <2> QED BY <1>5, <2>1 DEF PlanType
<1>7. PICK order \in Seq(DOMAIN taskList) :
        /\ \A k \in DOMAIN order : order[k] \in DOMAIN taskList
        /\ DOMAIN order = 1..Len(order) /\ Len(order) \in Nat
        /\ \A k, l \in DOMAIN order : k < l => Before(order[k], order[l])
        /\ taskList' = [k \in DOMAIN order |-> taskList[order[k]]]
        /\ DOMAIN taskList' = DOMAIN order
  BY RearrangeFacts
<1>8. /\ DOMAIN t = DOMAIN order
      /\ \A k \in DOMAIN t : /\ k \in Int /\ order[k] \in DOMAIN taskList /\ order[k] \in Int
                             /\ t[k] = taskList[order[k]] /\ t[k] \in ToSet(t)
      /\ \A k, l \in DOMAIN t : k < l =>
           IF status[t[k]] = GREY THEN status[t[l]] = GREY => order[k] > order[l]
           ELSE status[t[l]] # GREY /\ order[k] < order[l]
  <2>1. \A k \in DOMAIN t : /\ k \in Int /\ order[k] \in DOMAIN taskList /\ order[k] \in Int
                            /\ t[k] = taskList[order[k]] /\ t[k] \in ToSet(t)
    BY <1>5, <1>7 DEF ToSet
  <2> QED BY <1>7, <2>1 DEF Before
<1> HIDE DEF p, t, E
<1>9. \A v \in L : StaleParents(p, v) = DarkParents(v)
  BY <1>2, <1>3, <1>4 DEF StaleParents, DarkParents, ParentsOf, E
<1>10. ASSUME NEW v \in ToSet(t)
       PROVE  /\ p.wait[v] = Cardinality(StaleParents(p, v))
              /\ p.status[v] = IF StaleParents(p, v) = {} THEN GREY ELSE BLACK
  <2>1. v \in L /\ status[v] # WHITE /\ Judged(v)
    BY <1>3, <1>4
  <2> QED BY <1>2, <1>9, <2>1 DEF Judged
<1>11. \A v \in p.asked \ ToSet(t) : StaleParents(p, v) = {}
  <2> SUFFICES ASSUME NEW v \in L, status[v] = WHITE PROVE DarkParents(v) = {}
    BY <1>2, <1>3, <1>4, <1>9
  <2> QED BY <1>3 DEF Judged
<1>12. ASSUME NEW i \in DOMAIN t, NEW j \in DOMAIN t, <<t[i], t[j]>> \in E
       PROVE  i < j
  <2>1. t[i] \in L /\ t[j] \in L /\ status[t[i]] # WHITE /\ t[i] \in Node
    BY <1>4, <1>5, <1>8
  <2>2. t[i] \in Parents(E, t[j])
    BY <1>12, <2>1 DEF Parents
  <2>3. t[i] \in DarkParents(t[j])
    BY <2>1, <2>2 DEF DarkParents, ParentsOf, E
  <2>4. Judged(t[j]) /\ status[t[j]] # WHITE
    BY <1>3, <1>4, <1>8, <2>1
  <2>5. status[t[j]] = BLACK
    BY <2>3, <2>4 DEF Judged
  <2>6. PICK k \in 1..(order[j] - 1) : t[i] = taskList[k]
    BY <1>3, <1>8, <2>2
  <2>7. order[i] < order[j]
    <3>1. k \in DOMAIN taskList /\ k < order[j]
      BY <1>5, <1>8, <2>6
    <3>2. k = order[i]
      BY <1>3, <1>8, <2>6, <3>1 DEF NoDuplicates
    <3> QED BY <3>1, <3>2
  <2>8. ~(j < i) /\ i # j
    BY <1>8, <2>5, <2>7 DEF GREY, BLACK
  <2> QED BY <1>8, <2>8
<1>13. ASSUME NEW i \in DOMAIN t, NEW j \in DOMAIN t,
              status[t[i]] = BLACK, status[t[j]] = GREY
       PROVE  j < i
  <2>1. ~(i < j) /\ i # j
    BY <1>8, <1>13 DEF GREY, BLACK
  <2> QED BY <1>8, <2>1
<1>14. \A v \in Node \ ToSet(t) : status[v] = WHITE
  BY <1>3, <1>4
<1>15. /\ t # <<>> /\ ToSet(t) \subseteq asked
       /\ \A v \in asked : Parents(E, v) \subseteq asked
  BY <1>3, <1>4 DEF t
<1> QED BY <1>1, <1>2, <1>4, <1>6, <1>10, <1>11, <1>12, <1>13, <1>14, <1>15
        DEF PreprocessResult

\* Preprocessing hands over a plan that the scheduling stage can work on.
THEOREM PlanSafety == Spec => []PlanIsSound
<1>1. Init => PlanIsSound
  BY DEF Init, PlanIsSound
<1>2. SearchInv /\ Judging /\ PlanIsSound /\ [Next]_vars => PlanIsSound'
  <2> SUFFICES ASSUME SearchInv, Judging, PlanIsSound, [Next]_vars,
                      pc' = "planned", sound', taskList' # <<>>
               PROVE  PreprocessResult(Plan')
    BY DEF PlanIsSound
  <2>1. CASE Rearrange
    <3>1. sound
      BY <2>1 DEF Rearrange, graphVars
    <3> QED BY <2>1, <3>1, PlanEstablished
  <2>2. CASE UNCHANGED vars
    <3>1. pc = "planned" /\ sound /\ taskList # <<>> /\ Plan' = Plan
      BY <2>2 DEF vars, graphVars, Plan
    <3> QED BY <3>1 DEF PlanIsSound
  <2>3. \A v \in Node : ~VisitOf(v)
    BY VisitFrame
  <2>4. /\ \A v \in Node : ~Request(v)
        /\ ~Descend /\ ~LoopDetected /\ ~TopGoesOn /\ ~TopIsListed /\ ~RequestDone
        /\ ~Schedule /\ \A v \in Node, time \in FileTime : ~NoRecipe(v, time)
    BY DEF Request, Descend, LoopDetected, TopGoesOn, TopIsListed, RequestDone, Schedule,
           NoRecipe
  <2> QED BY StepCases, <2>1, <2>2, <2>3, <2>4
<1> QED BY <1>1, <1>2, SearchAlways, JudgingAlways, PTL DEF Spec

\* A node is found outdated exactly if it is made from a seed: the WHITE nodes
\* are closed under parents and hold no seed, and if no seed were above a node
\* that is not WHITE, the nodes above it that are not WHITE would all have a
\* parent among themselves.
LEMMA OutdatedIsBelowSeed ==
    ASSUME SearchInv, Judging, sound, Rearrange, NEW v \in L
    PROVE  status[v] # WHITE <=> Above(dag.edges, v) \cap Seeds # {}
<1> DEFINE A == Above(dag.edges, v)
<1>1. /\ asked = L /\ L \in SUBSET Node
      /\ \A u \in L : Judged(u) /\ Parents(dag.edges, u) \subseteq L
      /\ Closed(dag.edges, L) /\ Acyclic(dag.edges, L)
  BY AllJudged, SearchFacts
<1>2. Seeds = {u \in L : Seed(u)}
  BY <1>1 DEF Seeds, Seed
<1>3. A \subseteq L /\ Closed(dag.edges, A) /\ v \in A
  BY <1>1, AboveIsLeast, AboveIsClosed, AboveSelf
<1>4. \A u \in L : status[u] # WHITE <=>
          Seed(u) \/ \E w \in Parents(dag.edges, u) : status[w] # WHITE
  BY <1>1 DEF Judged, DarkParents, ParentsOf
<1> HIDE DEF A
<1>5. ASSUME status[v] # WHITE, A \cap Seeds = {} PROVE FALSE
  <2> DEFINE C == {u \in A : status[u] # WHITE}
  <2>1. C \in SUBSET L /\ v \in C
    BY <1>3, <1>5
  <2>2. \A u \in C : Parents(dag.edges, u) \cap C # {}
    <3> SUFFICES ASSUME NEW u \in C PROVE Parents(dag.edges, u) \cap C # {}
      OBVIOUS
    <3>1. u \in L /\ ~Seed(u) /\ Parents(dag.edges, u) \subseteq A
      BY <1>2, <1>3, <1>5 DEF Closed
    <3>2. PICK w \in Parents(dag.edges, u) : status[w] # WHITE
      BY <1>4, <3>1
    <3> QED BY <3>1, <3>2
  <2> HIDE DEF C
  <2> QED BY <1>1, <2>1, <2>2 DEF Acyclic
<1>6. ASSUME status[v] = WHITE PROVE A \cap Seeds = {}
  <2> DEFINE W == {u \in L : status[u] = WHITE}
  <2>1. Closed(dag.edges, W)
    BY <1>1, <1>4 DEF Closed
  <2>2. W \in SUBSET Node /\ v \in W
    BY <1>1, <1>6
  <2>3. W \cap Seeds = {}
    BY <1>2, <1>4
  <2> HIDE DEF W
  <2>4. A \subseteq W
    BY <2>1, <2>2, AboveIsLeast DEF A
  <2> QED BY <2>3, <2>4
<1> QED BY <1>5, <1>6 DEF A

\* Preprocessing keeps a target exactly if it or something it is made from is
\* phony, or has a recipe and a parent whose file is newer.
THEOREM OutdatedSafety == Spec => []KeepsTheOutdated
<1>1. Init => KeepsTheOutdated
  BY DEF Init, KeepsTheOutdated
<1>2. SearchInv /\ Judging /\ KeepsTheOutdated /\ [Next]_vars => KeepsTheOutdated'
  <2> SUFFICES ASSUME SearchInv, Judging, KeepsTheOutdated, [Next]_vars,
                      pc' = "planned", sound'
               PROVE  ToSet(taskList') = {v \in asked' : Ancestors(v)' \cap Seeds' # {}}
    BY DEF KeepsTheOutdated
  <2>1. ASSUME dag' = dag, asked' = asked, lmt' = lmt
        PROVE  Seeds' = Seeds /\ \A v : Ancestors(v)' = Ancestors(v)
    BY <2>1 DEF Seeds, Ancestors, ParentsOf
  <2>2. CASE Rearrange
    <3>1. dag' = dag /\ asked' = asked /\ lmt' = lmt /\ sound
      BY <2>2 DEF Rearrange, graphVars
    <3>2. ToSet(taskList') = {v \in L : status[v] # WHITE} /\ asked = L
      BY <2>2, <3>1, KeptNodes, AllJudged
    <3>3. \A v \in L : status[v] # WHITE <=> Ancestors(v) \cap Seeds # {}
      BY <2>2, <3>1, OutdatedIsBelowSeed, AboveIsAncestors
    <3> QED BY <2>1, <3>1, <3>2, <3>3
  <2>3. CASE UNCHANGED vars
    <3>1. /\ dag' = dag /\ asked' = asked /\ lmt' = lmt /\ taskList' = taskList
          /\ pc = "planned" /\ sound
      BY <2>3 DEF vars, graphVars
    <3>2. ToSet(taskList) = {v \in asked : Ancestors(v) \cap Seeds # {}}
      BY <3>1 DEF KeepsTheOutdated
    <3> QED BY <2>1, <3>1, <3>2
  <2>4. \A v \in Node : ~VisitOf(v)
    BY VisitFrame
  <2>5. /\ \A v \in Node : ~Request(v)
        /\ ~Descend /\ ~LoopDetected /\ ~TopGoesOn /\ ~TopIsListed /\ ~RequestDone
        /\ ~Schedule /\ \A v \in Node, time \in FileTime : ~NoRecipe(v, time)
    BY DEF Request, Descend, LoopDetected, TopGoesOn, TopIsListed, RequestDone, Schedule,
           NoRecipe
  <2> QED BY StepCases, <2>2, <2>3, <2>4, <2>5
<1> QED BY <1>1, <1>2, SearchAlways, JudgingAlways, PTL DEF Spec
=============================================================================
