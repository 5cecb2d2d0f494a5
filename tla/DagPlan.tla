------------------------------- MODULE DagPlan -------------------------------
(***************************************************************************)
(* How make2/dag decides what to build: dag::add_to_task_list(), called    *)
(* once per requested target after bleach(), and the preprocessing half of *)
(* dag::schedule().  The first is a depth-first search with one explicit   *)
(* stack that lists everything a target is made from, or finds a loop; the *)
(* second compares file times and keeps the outdated targets.  One step is *)
(* one turn of a loop of the code.                                         *)
(***************************************************************************)
EXTENDS DagBasics

CONSTANTS
    None,       \* NULL
    Instances,  \* the graphs: records [edges, recipe, phony]
    MaxTime,    \* file times are 1..MaxTime, 0 is a file that is not there
    MaxCalls,   \* how many targets are requested, at most
    Garbage     \* what the uninitialised _wait_black and _lmt hold

ASSUME NoneAssumption == None \notin Node
ASSUME InstanceAssumption ==
    Instances \subseteq [edges : SUBSET (Node \X Node), recipe : SUBSET Node,
                         phony : SUBSET Node]
ASSUME BoundAssumption == MaxTime \in Nat /\ MaxCalls \in Nat /\ Garbage \in Int

VARIABLES
    dag,       \* the graph, the recipes and the types; never changes
    status,    \* _status
    wait,      \* _wait_black
    lmt,       \* _lmt
    taskList,  \* _task_list
    stack,     \* the DFS stack s, its top last
    cur,       \* p
    pc,        \* where the caller's thread is
    result,    \* what add_to_task_list() returned last
    todo,      \* the position the preprocessing has reached
    targets,   \* the targets requested so far (history)
    sound,     \* every request succeeded and was for a WHITE node (history)
    again,     \* how often each node was requested when it was listed (history)
    asked      \* what was listed when schedule() was called (history)

graphVars == <<dag, targets, sound, again, asked>>
vars == <<graphVars, status, wait, lmt, taskList, stack, cur, pc, result, todo>>

PC == {"idle", "descend", "top", "visit", "planned", "exited"}

TypeOK ==
    /\ dag \in Instances
    /\ status \in [Node -> Colour]
    /\ wait \in [Node -> Int]
    /\ lmt \in [Node -> Int]
    /\ taskList \in Seq(Node)
    /\ stack \in Seq(Node)
    /\ cur \in Node \cup {None}
    /\ pc \in PC
    /\ result \in BOOLEAN
    /\ todo \in Nat
    /\ targets \in Seq(Node)
    /\ sound \in BOOLEAN
    /\ again \in [Node -> Nat]
    /\ asked \in SUBSET Node

\* The graph is built and bleach() has made every node WHITE.
Init ==
    /\ dag \in Instances
    /\ status = [v \in Node |-> WHITE]
    /\ wait = [v \in Node |-> Garbage]
    /\ lmt = [v \in Node |-> Garbage]
    /\ taskList = <<>>
    /\ stack = <<>>
    /\ cur = None
    /\ pc = "idle"
    /\ result = TRUE
    /\ todo = 0
    /\ targets = <<>>
    /\ sound = TRUE
    /\ again = [v \in Node |-> 0]
    /\ asked = {}

ParentsOf(v) == Parents(dag.edges, v)

\* Mutant: whatever is not on the stack is searched again.
NonGreyParents(v) == {u \in ParentsOf(v) : status[u] # GREY}

WhiteParents(v) == {u \in ParentsOf(v) : status[u] = WHITE}

-----------------------------------------------------------------------------
(* add_to_task_list().                                                     *)

Request(v) ==
    /\ pc = "idle"
    /\ Len(targets) < MaxCalls
    /\ targets' = Append(targets, v)
    /\ sound' = (sound /\ status[v] = WHITE)
    /\ again' = IF v \in ToSet(taskList) THEN [again EXCEPT ![v] = @ + 1] ELSE again
    /\ cur' = v
    /\ stack' = <<>>
    /\ pc' = "descend"
    /\ UNCHANGED <<dag, status, wait, lmt, taskList, result, todo, asked>>

Push(v) ==
    /\ stack' = Append(stack, v)
    /\ status' = [status EXCEPT ![v] = GREY]

\* Mutant: the loop test comes before p is coloured.
DescendTestsFirst ==
    /\ pc = "descend"
    /\ Push(cur)
    /\ \A u \in ParentsOf(cur) : status[u] # GREY
    /\ IF WhiteParents(cur) = {}
       THEN cur' = None /\ pc' = "top"
       ELSE cur' \in WhiteParents(cur) /\ pc' = "descend"
    /\ UNCHANGED <<graphVars, wait, lmt, taskList, result, todo>>

\* Mutant: NULL is pushed when there is no WHITE parent.
DescendToNull ==
    /\ pc = "descend"
    /\ Push(cur)
    /\ \A u \in ParentsOf(cur) : status'[u] # GREY
    /\ IF WhiteParents(cur) = {}
       THEN cur' = None
       ELSE cur' \in WhiteParents(cur)
    /\ UNCHANGED <<graphVars, pc, wait, lmt, taskList, result, todo>>

\* The loop while (p): put p on the stack and go to its first WHITE parent,
\* which is any of them: _in_list is ordered by address.
Descend ==
    /\ pc = "descend"
    /\ Push(cur)
    /\ \A u \in ParentsOf(cur) : status'[u] # GREY
    /\ IF WhiteParents(cur) = {}
       THEN cur' = None /\ pc' = "top"
       ELSE cur' \in WhiteParents(cur) /\ pc' = "descend"
    /\ UNCHANGED <<graphVars, wait, lmt, taskList, result, todo>>

\* goto fail_exit: a parent, or p itself, is on the stack.  The colours and
\* what was listed so far stay as they are.
LoopDetected ==
    /\ pc = "descend"
    /\ status' = [status EXCEPT ![cur] = GREY]
    /\ \E u \in ParentsOf(cur) : status'[u] = GREY
    /\ stack' = <<>>
    /\ cur' = None
    /\ pc' = "idle"
    /\ result' = FALSE
    /\ sound' = FALSE
    /\ UNCHANGED <<dag, targets, again, asked, wait, lmt, taskList, todo>>

\* Another WHITE parent of the node on top: go there.
TopGoesOn ==
    /\ pc = "top"
    /\ stack # <<>>
    /\ cur' \in WhiteParents(Last(stack))
    /\ pc' = "descend"
    /\ UNCHANGED <<graphVars, status, wait, lmt, taskList, stack, result, todo>>

\* Mutant: the node on top is listed after its first parent.
TopIsListedEarly ==
    /\ pc = "top"
    /\ stack # <<>>
    /\ taskList' = Append(taskList, Last(stack))
    /\ status' = [status EXCEPT ![Last(stack)] = BLACK]
    /\ stack' = Front(stack)
    /\ UNCHANGED <<graphVars, wait, lmt, cur, pc, result, todo>>

\* The node on top has no WHITE parent left: list it.
TopIsListed ==
    /\ pc = "top"
    /\ stack # <<>>
    /\ WhiteParents(Last(stack)) = {}
    /\ taskList' = Append(taskList, Last(stack))
    /\ status' = [status EXCEPT ![Last(stack)] = BLACK]
    /\ stack' = Front(stack)
    /\ UNCHANGED <<graphVars, wait, lmt, cur, pc, result, todo>>

\* Mutant: the search ends with nodes on the stack.
RequestDoneEarly ==
    /\ pc = "top"
    /\ pc' = "idle"
    /\ result' = TRUE
    /\ UNCHANGED <<graphVars, status, wait, lmt, taskList, stack, cur, todo>>

\* Mutant: off by one, an empty stack is not noticed.
RequestDoneAtOne ==
    /\ pc = "top"
    /\ Len(stack) = 1
    /\ pc' = "idle"
    /\ result' = TRUE
    /\ UNCHANGED <<graphVars, status, wait, lmt, taskList, stack, cur, todo>>

RequestDone ==
    /\ pc = "top"
    /\ stack = <<>>
    /\ pc' = "idle"
    /\ result' = TRUE
    /\ UNCHANGED <<graphVars, status, wait, lmt, taskList, stack, cur, todo>>

-----------------------------------------------------------------------------
(* _schedule_preprocessing().                                              *)

\* dag::schedule() returns at once when the list is empty.
Schedule ==
    /\ pc = "idle"
    /\ taskList # <<>>
    /\ asked' = ToSet(taskList)
    /\ todo' = 1
    /\ pc' = "visit"
    /\ UNCHANGED <<dag, targets, sound, again, status, wait, lmt, taskList, stack,
                   cur, result>>

DarkParents(v) == {u \in ParentsOf(v) : status[u] # WHITE}

\* One node of the first pass gets its time and its colour.  `counted` says
\* whether the code recounts _wait_black on the way.
Visited(v, time, counted, colour) ==
    /\ lmt' = [lmt EXCEPT ![v] = time]
    /\ wait' = IF counted THEN [wait EXCEPT ![v] = Cardinality(DarkParents(v))]
               ELSE wait
    /\ status' = [status EXCEPT ![v] = colour]
    /\ todo' = todo + 1
    /\ UNCHANGED <<graphVars, taskList, stack, cur, pc, result>>

Visiting(v) == pc = "visit" /\ todo <= Len(taskList) /\ taskList[todo] = v

VisitPhony(v) ==
    /\ Visiting(v)
    /\ v \in dag.phony
    /\ Visited(v, 0, TRUE, IF DarkParents(v) = {} THEN GREY ELSE BLACK)

\* Mutant: a parent as old as the target makes it outdated.
OutdatedIfAsOld(v, time) == \E u \in ParentsOf(v) : lmt[u] >= time

\* What update_last_modified_time() can find; 0 if stat() fails.
FileTime == 0..MaxTime

\* A normal target, whose stat() reports `time`.
Missing(v, time) == time = 0 /\ v \notin dag.recipe
Outdated(v, time) == \E u \in ParentsOf(v) : lmt[u] > time

VisitSource(v, time) ==
    /\ Visiting(v)
    /\ v \notin dag.phony /\ ~Missing(v, time)
    /\ ParentsOf(v) = {}
    /\ Visited(v, time, FALSE, WHITE)

VisitBlocked(v, time) ==
    /\ Visiting(v)
    /\ v \notin dag.phony /\ ~Missing(v, time)
    /\ DarkParents(v) # {}
    /\ v \in dag.recipe
    /\ Visited(v, time, TRUE, BLACK)

VisitReady(v, time) ==
    /\ Visiting(v)
    /\ v \notin dag.phony /\ ~Missing(v, time)
    /\ ParentsOf(v) # {} /\ DarkParents(v) = {}
    /\ Visited(v, time, TRUE,
               IF v \in dag.recipe /\ Outdated(v, time) THEN GREY ELSE WHITE)

\* exit(1): no recipe to build a target that does not exist, or is outdated.
NoRecipe(v, time) ==
    /\ Visiting(v)
    /\ v \notin dag.phony /\ v \notin dag.recipe
    /\ time = 0 \/ DarkParents(v) # {}
    /\ pc' = "exited"
    /\ UNCHANGED <<graphVars, status, wait, lmt, taskList, stack, cur, result,
                   todo>>

\* Mutant: the GREY nodes go to the back.
BeforeToBack(i, j) ==
    IF status[taskList[i]] = GREY
    THEN status[taskList[j]] = GREY /\ i > j
    ELSE status[taskList[j]] # GREY => i < j

\* The order of two nodes that stay, by their positions so far: a GREY one goes
\* in front of all before it.
Before(i, j) ==
    IF status[taskList[i]] = GREY
    THEN status[taskList[j]] = GREY => i > j
    ELSE status[taskList[j]] # GREY /\ i < j

\* The second pass erases the WHITE nodes and moves each GREY one to the front
\* as it comes to it, which reverses them.  `order` lists the positions of the
\* nodes that stay in their new order.
Rearrange ==
    /\ pc = "visit"
    /\ todo > Len(taskList)
    /\ \E order \in SetToSeqs({i \in DOMAIN taskList : status[taskList[i]] # WHITE}) :
         /\ \A k, l \in DOMAIN order : k < l => Before(order[k], order[l])
         /\ taskList' = [k \in DOMAIN order |-> taskList[order[k]]]
    /\ pc' = "planned"
    /\ UNCHANGED <<graphVars, status, wait, lmt, stack, cur, result, todo>>

-----------------------------------------------------------------------------
Over == pc \in {"planned", "exited"} \/ (pc = "idle" /\ Len(targets) = MaxCalls)

Finished == Over /\ UNCHANGED vars

Step ==
    \/ \E v \in Node : Request(v)
    \/ Descend \/ LoopDetected \/ TopGoesOn \/ TopIsListed \/ RequestDone
    \/ Schedule
    \/ \E v \in Node : VisitPhony(v)
    \/ \E v \in Node, time \in FileTime :
         \/ VisitSource(v, time) \/ VisitBlocked(v, time)
         \/ VisitReady(v, time) \/ NoRecipe(v, time)
    \/ Rearrange

Next == Step \/ Finished

Spec == Init /\ [][Next]_vars

\* The calls are made by one thread that keeps running.
FairSpec == Spec /\ WF_vars(Step)

-----------------------------------------------------------------------------
(* Correctness.                                                            *)

\* What v is made from, directly or not, and v: the least set that holds v and
\* the parents of its members.
Ancestors(v) ==
    {u \in Node : \A S \in SUBSET Node :
        (v \in S /\ \A x \in S : ParentsOf(x) \subseteq S) => u \in S}

\* A finite set in which everybody has a parent holds a loop.
HasLoop(S) ==
    \E C \in SUBSET S : C # {} /\ \A v \in C : ParentsOf(v) \cap C # {}

\* add_to_task_list() returns false exactly if the target is made from a loop,
\* also when an earlier call failed and left its GREY nodes behind.
FalseIffLoop ==
    pc = "idle" /\ targets # <<>> => (result <=> ~HasLoop(Ancestors(Last(targets))))

\* Until schedule() reorders it, the task list can be built from the front to
\* the back by one worker, even if a call failed in between.
FeasibleForOneWorker ==
    pc \in {"idle", "descend", "top", "visit"} =>
        \A i \in DOMAIN taskList :
            ParentsOf(taskList[i]) \subseteq {taskList[j] : j \in 1..(i - 1)}

\* A request that succeeded has listed all its target is made from.
ListsAllAncestors ==
    pc = "idle" /\ targets # <<>> /\ result =>
        Ancestors(Last(targets)) \subseteq ToSet(taskList)

\* What schedule() hands to the scheduling stage is what DagSchedule starts
\* from, for one request and for several, if each was for a target not listed
\* before.
Plan == [edges |-> dag.edges, recipe |-> dag.recipe, asked |-> asked,
         tasks |-> taskList, status |-> status, wait |-> wait]
PlanIsSound ==
    pc = "planned" /\ sound /\ taskList # <<>> => PreprocessResult(Plan)

\* A target of the request is kept exactly if it, or something it is made
\* from, is phony or has a recipe and a parent whose file is newer.
Seeds ==
    {v \in asked : \/ v \in dag.phony
                   \/ v \in dag.recipe /\ \E u \in ParentsOf(v) : lmt[u] > lmt[v]}
KeepsTheOutdated ==
    pc = "planned" /\ sound =>
        ToSet(taskList) = {v \in asked : Ancestors(v) \cap Seeds # {}}

Listed(v) == Cardinality({i \in DOMAIN taskList : taskList[i] = v})

\* A node is listed once, and once more for each request that was made for it
\* when it was listed: never because it is reached along several paths, from
\* several targets, or after a request that failed half-way.  schedule() drops
\* entries and adds none.
ListedAgainAsAsked ==
    /\ \A v \in Node : Listed(v) <= 1 + again[v]
    /\ pc \in {"idle", "visit"} =>
          \A v \in ToSet(taskList) : Listed(v) = 1 + again[v]

\* A request ends, loop or not.
RequestReturns == pc \in {"descend", "top"} ~> pc = "idle"
=============================================================================
