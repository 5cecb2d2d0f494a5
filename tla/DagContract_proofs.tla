------------------------- MODULE DagContract_proofs -------------------------
(***************************************************************************)
(* The counting arguments about DagSchedule, for every graph, every number *)
(* of workers and every plan that satisfies PreprocessResult: how often a  *)
(* target is started, in which order, and what is done when schedule()     *)
(* returns.  Together they show that the threads implement BuildContract.  *)
(***************************************************************************)
EXTENDS DagSchedule_proofs, ListFacts

-----------------------------------------------------------------------------
(* What is proved in DagSchedule_proofs, and what a step leaves alone.     *)

Known == TypeInv /\ Control /\ ListInv /\ OnlyTouchable

LEMMA KnownAlways == Spec => []Known
BY Base, ListAlways, TouchableAlways, PTL DEF Known

\* The master touches no target, and moves no worker but from sleep to the
\* queue.
LEMMA MasterFrame ==
    ASSUME TypeInv, MasterStep
    PROVE  /\ UNCHANGED <<plan, status, waitBlack, task, kids, kid, starts,
                          finishes, aborted>>
           /\ \A w \in Worker :
                wpc'[w] = wpc[w] \/ (wpc[w] = "asleep" /\ wpc'[w] = "get")
<1> USE DEF workerVars, history, TypeInv, TypeOK
<1>1. CASE MasterNotify
  BY <1>1 DEF MasterNotify, WakeOne, Asleep
<1>2. CASE MasterDrain
  BY <1>2 DEF MasterDrain, Asleep
<1> QED
  BY <1>1, <1>2
  DEF MasterStep, MasterCheck, MasterLock, MasterQueue, MasterUnlock,
      MasterFinish, MasterDrained, MasterReturn

\* A worker touches no local variable of another.
LEMMA WorkerFrame ==
    ASSUME TypeInv, NEW w \in Worker, WorkerStep(w)
    PROVE  /\ plan' = plan /\ mpc' = mpc
           /\ \A x \in Worker \ {w} :
                /\ wpc'[x] = wpc[x] /\ task'[x] = task[x]
                /\ kids'[x] = kids[x] /\ kid'[x] = kid[x]
BY DEF WorkerStep, WorkerCheck, WorkerPop, WorkerQuit, WorkerSleep,
       SpuriousWake, RecipeSucceeds, RecipeFails, WorkerRemove, ChildWaits,
       ChildReady, PromoteRemove, PromoteFront, WorkerLoop, WorkerAt,
       workerVars, TypeInv, TypeOK

\* A worker without a target, looking for one or leaving.
LEMMA IdleFrame ==
    ASSUME TypeInv, NEW w \in Worker,
           WorkerCheck(w) \/ WorkerQuit(w) \/ WorkerSleep(w) \/ SpuriousWake(w)
    PROVE  /\ UNCHANGED <<plan, taskList, status, waitBlack, q, mpc, task, kids,
                          kid, starts, finishes, aborted>>
           /\ wpc[w] \notin Working /\ wpc[w] # "exited" /\ wpc'[w] \notin Working
           /\ \A x \in Worker \ {w} : wpc'[x] = wpc[x]
BY DEF WorkerCheck, WorkerQuit, WorkerSleep, SpuriousWake, WorkerAt, history,
       TypeInv, TypeOK, Working

-----------------------------------------------------------------------------
(* Starts and finishes.                                                    *)

\* A node counts as many runs as there are workers in its recipe.
LEMMA RunsFinite ==
    ASSUME NEW v
    PROVE  IsFiniteSet(Runs(v)) /\ Cardinality(Runs(v)) \in Nat
BY WorkerAssumption, FS_Subset, FS_CardinalityType DEF Runs

LEMMA StartsMaster ==
    ASSUME Known, StartsAccounted, MasterStep
    PROVE  StartsAccounted'
<1> USE DEF Known, TypeInv, TypeOK, StartsAccounted
<1>1. \A w \in Worker : wpc'[w] \in Working \cup {"exited"} \/ wpc[w] \in Working \cup {"exited"}
                          => wpc'[w] = wpc[w]
  BY MasterFrame DEF Working
<1>2. \A v : Runs(v)' = Runs(v)
  BY <1>1, MasterFrame DEF Runs, Working
<1>3. mpc' = "returned" => \A w \in Worker : wpc'[w] = "exited"
  BY <1>1 DEF MasterStep, MasterAt, MasterCheck, MasterLock, MasterQueue, MasterNotify,
              MasterUnlock, MasterFinish, MasterDrain, MasterDrained, MasterReturn
<1> QED
  BY <1>1, <1>2, <1>3, MasterFrame

LEMMA StartsWorker ==
    ASSUME Known, StartsAccounted, NEW w \in Worker, WorkerStep(w)
    PROVE  StartsAccounted'
<1>1. /\ mpc' = mpc
      /\ \A x \in Worker \ {w} : wpc'[x] = wpc[x] /\ task'[x] = task[x]
  BY WorkerFrame DEF Known
<1>2. /\ starts \in [Node -> Nat] /\ finishes \in [Node -> Nat]
      /\ wpc \in [Worker -> WorkerPC] /\ task \in [Worker -> Node \cup {None}]
      /\ q \in Seq(Node)
  BY DEF Known, TypeInv, TypeOK
<1>3. \A x \in Worker : wpc[x] \in Working => task[x] \in Node
  BY DEF Known, TypeInv, LocalsSet
<1>4. mpc' # "returned"
  <2>1. wpc[w] # "exited"
    BY DEF WorkerStep, WorkerCheck, WorkerPop, WorkerQuit, WorkerSleep,
           SpuriousWake, RecipeSucceeds, RecipeFails, WorkerRemove, ChildWaits,
           ChildReady, PromoteRemove, PromoteFront, WorkerLoop, WorkerAt
  <2> QED
    BY <1>1, <2>1 DEF StartsAccounted
\* The worker keeps its target, outside of the recipe, or has none.
<1>5. ASSUME UNCHANGED <<starts, finishes>>, wpc[w] # "run", wpc'[w] # "run",
             wpc'[w] \in Working => wpc[w] \in Working /\ task'[w] = task[w]
      PROVE  StartsAccounted'
  <2>1. \A v \in Node : Runs(v)' = Runs(v)
    BY <1>1, <1>5 DEF Runs
  <2>2. \A x \in Worker : wpc'[x] \in Working =>
          /\ wpc[x] \in Working /\ task'[x] = task[x]
          /\ wpc'[x] # "run" => wpc[x] # "run"
    BY <1>1, <1>5
  <2> QED
    BY <1>4, <1>5, <2>1, <2>2 DEF StartsAccounted
<1>6. CASE WorkerCheck(w) \/ WorkerQuit(w) \/ WorkerSleep(w) \/ SpuriousWake(w)
  <2>1. /\ UNCHANGED <<starts, finishes>>
        /\ wpc[w] \notin Working /\ wpc'[w] \notin Working
    BY <1>6, IdleFrame DEF Known
  <2> QED
    BY <1>5, <2>1 DEF Working
<1>7. CASE WorkerPop(w)
  <2> DEFINE n == Head(q)
  <2>1. /\ n \in Node /\ task'[w] = n /\ wpc[w] = "get" /\ wpc'[w] = "run"
        /\ starts' = [starts EXCEPT ![n] = @ + 1] /\ finishes' = finishes
    BY <1>2, <1>7 DEF WorkerPop, WorkerAt
  <2> HIDE DEF n
  <2>2. /\ starts'[n] = starts[n] + 1
        /\ \A v \in Node : v # n => starts'[v] = starts[v]
        /\ \A v \in Node : starts'[v] >= starts[v]
    BY <1>2, <2>1
  <2>3. ASSUME NEW v \in Node PROVE starts'[v] = finishes'[v] + Cardinality(Runs(v)')
    <3>1. CASE v = n
      <4>1. Runs(v)' = Runs(v) \cup {w} /\ w \notin Runs(v)
        BY <1>1, <2>1, <3>1 DEF Runs
      <4>2. Cardinality(Runs(v)') = Cardinality(Runs(v)) + 1
        BY <4>1, RunsFinite, FS_AddElement
      <4> QED
        BY <1>2, <2>1, <2>2, <3>1, <4>2, RunsFinite DEF StartsAccounted
    <3>2. CASE v # n
      <4>1. Runs(v)' = Runs(v)
        BY <1>1, <2>1, <3>2 DEF Runs
      <4> QED
        BY <2>1, <2>2, <3>2, <4>1 DEF StartsAccounted
    <3> QED
      BY <3>1, <3>2
  <2>4. ASSUME NEW x \in Worker, wpc'[x] \in Working PROVE starts'[task'[x]] > 0
    <3>1. CASE x = w
      BY <1>2, <2>1, <2>2, <3>1
    <3>2. CASE x # w
      <4>1. task[x] \in Node /\ starts[task[x]] > 0 /\ task'[x] = task[x]
        BY <1>1, <1>3, <2>4, <3>2 DEF StartsAccounted
      <4> QED
        BY <1>2, <2>1, <2>2, <4>1
    <3> QED
      BY <3>1, <3>2
  <2>5. \A x \in Worker : wpc'[x] \in Working \ {"run"} => finishes'[task'[x]] > 0
    BY <1>1, <2>1 DEF StartsAccounted
  <2>6. ASSUME NEW x \in Worker, wpc'[x] \in Working, x # w, task'[x] = n
        PROVE  starts'[n] > 1
    BY <1>1, <1>2, <2>1, <2>2, <2>6 DEF StartsAccounted
  <2>7. ASSUME NEW x \in Worker, NEW y \in Worker, x # y,
               wpc'[x] \in Working, wpc'[y] \in Working, task'[x] = task'[y]
        PROVE  starts'[task'[x]] > 1
    <3>1. CASE x = w \/ y = w
      BY <2>1, <2>6, <2>7, <3>1
    <3>2. CASE x # w /\ y # w
      <4>1. task[x] \in Node /\ starts[task[x]] > 1 /\ task'[x] = task[x]
        BY <1>1, <1>3, <2>7, <3>2 DEF StartsAccounted
      <4> QED
        BY <1>2, <2>1, <2>2, <4>1
    <3> QED
      BY <3>1, <3>2
  <2> QED
    BY <1>4, <2>3, <2>4, <2>5, <2>7 DEF StartsAccounted
<1>8. CASE RecipeSucceeds(w)
  <2> DEFINE n == task[w]
  <2>1. /\ n \in Node /\ task'[w] = n /\ wpc[w] = "run" /\ wpc'[w] = "remove"
        /\ finishes' = [finishes EXCEPT ![n] = @ + 1] /\ starts' = starts
    BY <1>2, <1>3, <1>8 DEF RecipeSucceeds, WorkerAt, Working
  <2>2. \A x \in Worker : wpc'[x] \in Working => wpc[x] \in Working /\ task'[x] = task[x]
    BY <1>1, <2>1 DEF Working
  <2>3. ASSUME NEW v \in Node PROVE starts'[v] = finishes'[v] + Cardinality(Runs(v)')
    <3>1. CASE v = n
      <4>1. Runs(v)' = Runs(v) \ {w} /\ w \in Runs(v)
        BY <1>1, <2>1, <3>1 DEF Runs
      <4>2. Cardinality(Runs(v)') = Cardinality(Runs(v)) - 1
        BY <4>1, RunsFinite, FS_RemoveElement
      <4> QED
        BY <1>2, <2>1, <3>1, <4>2, RunsFinite DEF StartsAccounted
    <3>2. CASE v # n
      <4>1. Runs(v)' = Runs(v)
        BY <1>1, <2>1, <3>2 DEF Runs
      <4> QED
        BY <1>2, <2>1, <3>2, <4>1 DEF StartsAccounted
    <3> QED
      BY <3>1, <3>2
  <2>4. ASSUME NEW x \in Worker, wpc'[x] \in Working \ {"run"}
        PROVE  finishes'[task'[x]] > 0
    <3>1. CASE x = w
      BY <1>2, <2>1, <3>1
    <3>2. CASE x # w
      <4>1. task[x] \in Node /\ finishes[task[x]] > 0 /\ task'[x] = task[x]
        BY <1>1, <1>3, <2>4, <3>2 DEF StartsAccounted
      <4> QED
        BY <1>2, <2>1, <4>1
    <3> QED
      BY <3>1, <3>2
  <2> QED
    BY <1>4, <2>1, <2>2, <2>3, <2>4 DEF StartsAccounted
<1>9. CASE RecipeFails(w)
  <2>1. UNCHANGED <<mpc, wpc, task, starts, finishes>>
    BY <1>9 DEF RecipeFails, workerVars, history
  <2>2. \A v \in Node : Runs(v)' = Runs(v)
    BY <2>1 DEF Runs
  <2> QED
    BY <2>1, <2>2 DEF StartsAccounted
<1>10. CASE \/ WorkerRemove(w) \/ ChildWaits(w) \/ ChildReady(w)
            \/ PromoteRemove(w) \/ PromoteFront(w) \/ WorkerLoop(w)
  <2>1. /\ UNCHANGED <<starts, finishes>> /\ wpc[w] # "run" /\ wpc'[w] # "run"
        /\ wpc'[w] \in Working => wpc[w] \in Working /\ task'[w] = task[w]
    BY <1>2, <1>10
    DEF WorkerRemove, ChildWaits, ChildReady, PromoteRemove, PromoteFront,
        WorkerLoop, WorkerAt, history, Working
  <2> QED
    BY <1>5, <2>1
<1> QED
  BY <1>6, <1>7, <1>8, <1>9, <1>10 DEF WorkerStep

LEMMA StartsAlways == Spec => []StartsAccounted
<1>1. Init => StartsAccounted
  <2> SUFFICES ASSUME Init PROVE StartsAccounted
    OBVIOUS
  <2>1. \A v \in Node : Runs(v) = {} /\ starts[v] = 0 /\ finishes[v] = 0
    BY DEF Init, Runs
  <2>2. \A v \in Node : Cardinality(Runs(v)) = 0
    BY <2>1, FS_EmptySet
  <2> QED
    BY <2>1, <2>2 DEF Init, StartsAccounted, Working
<1>2. Known /\ StartsAccounted /\ [Next]_vars => StartsAccounted'
  <2> SUFFICES ASSUME Known, StartsAccounted, [Next]_vars PROVE StartsAccounted'
    OBVIOUS
  <2>1. CASE MasterStep
    BY <2>1, StartsMaster
  <2>2. ASSUME NEW w \in Worker, WorkerStep(w) PROVE StartsAccounted'
    BY <2>2, StartsWorker
  <2>3. CASE UNCHANGED vars
    BY <2>3 DEF vars, masterVars, workerVars, history, StartsAccounted, Runs
  <2> QED
    BY <2>1, <2>2, <2>3 DEF Next, Terminated
<1> QED
  BY <1>1, <1>2, KnownAlways, PTL DEF Spec

\* When schedule() returns no target waits in q and no recipe is running,
\* however many workers there are.
THEOREM ReturnSafety == Spec => []ReturnsQuiet
<1>1. Known /\ StartsAccounted => ReturnsQuiet
  <2> SUFFICES ASSUME Known, StartsAccounted, mpc = "returned"
               PROVE  q = <<>> /\ \A v \in Node : finishes[v] = starts[v]
    BY DEF ReturnsQuiet
  <2>1. \A w \in Worker : wpc[w] = "exited"
    BY DEF StartsAccounted
  <2>2. q = <<>>
    BY <2>1, WorkerAssumption DEF Known, Control
  <2>3. \A v \in Node : Cardinality(Runs(v)) = 0
    BY <2>1, FS_EmptySet DEF Runs
  <2>4. finishes \in [Node -> Nat]
    BY DEF Known, TypeInv, TypeOK
  <2> QED
    BY <2>2, <2>3, <2>4 DEF StartsAccounted
<1> QED
  BY <1>1, KnownAlways, StartsAlways, PTL

-----------------------------------------------------------------------------
(* Promotions.                                                             *)

\* The types the arguments below rest on.
LEMMA Types ==
    ASSUME TypeInv
    PROVE  /\ taskList \in Seq(Node) /\ q \in Seq(Node)
           /\ waitBlack \in [Node -> Int] /\ status \in [Node -> Colour]
           /\ starts \in [Node -> Nat] /\ finishes \in [Node -> Nat]
           /\ wpc \in [Worker -> WorkerPC] /\ task \in [Worker -> Node \cup {None}]
           /\ kids \in [Worker -> SUBSET Node] /\ kid \in [Worker -> Node \cup {None}]
           /\ plan.wait \in [Node -> Int] /\ plan.status \in [Node -> Colour]
           /\ \A w \in Worker : wpc[w] \in Working => task[w] \in Node
           /\ \A w \in Worker : Moving(w) => kid[w] \in Node
BY PlanFacts DEF TypeInv, TypeOK, LocalsSet, Moving

\* A step that counts nothing down and moves no other child.
LEMMA PromotedStays ==
    ASSUME TypeInv, PromotedOnce, UNCHANGED <<plan, waitBlack>>,
           \A x \in Worker : Moving(x)' => Moving(x) /\ kid'[x] = kid[x]
    PROVE  PromotedOnce'
BY DEF PromotedOnce

\* What each step of a worker does to the counters and to the moving child.
LEMMA PromotedWorker ==
    ASSUME TypeInv, PromotedOnce, NEW w \in Worker, WorkerStep(w)
    PROVE  PromotedOnce'
<1>1. /\ plan' = plan
      /\ \A x \in Worker \ {w} : wpc'[x] = wpc[x] /\ kid'[x] = kid[x]
  BY WorkerFrame
<1>2. CASE ChildWaits(w)
  <2>1. PICK u \in kids[w] : /\ waitBlack' = [waitBlack EXCEPT ![u] = @ - 1]
                             /\ wpc[w] = "children" /\ wpc'[w] = "children"
    BY <1>2, Types DEF ChildWaits, WorkerAt
  <2>2. \A v \in Node : waitBlack'[v] \in Int /\ waitBlack'[v] <= waitBlack[v]
    BY <2>1, Types
  <2>3. \A x \in Worker : Moving(x)' => Moving(x) /\ kid'[x] = kid[x] /\ kid[x] \in Node
    BY <1>1, <2>1, Types DEF Moving
  <2>4. \A v \in Node : waitBlack'[v] <= plan.wait[v]
    BY <2>2, Types DEF PromotedOnce
  <2>5. \A x \in Worker : Moving(x)' =>
          waitBlack'[kid'[x]] < 1 /\ plan.wait[kid'[x]] >= 1
    BY <2>2, <2>3, Types DEF PromotedOnce
  <2> QED
    BY <1>1, <2>3, <2>4, <2>5 DEF PromotedOnce
<1>3. CASE ChildReady(w)
  <2>1. PICK u \in kids[w] : /\ waitBlack[u] = 1 /\ kid'[w] = u
                             /\ waitBlack' = [waitBlack EXCEPT ![u] = 0]
                             /\ wpc[w] = "children" /\ wpc'[w] = "promote"
    BY <1>3, Types DEF ChildReady, WorkerAt
  <2>2. u \in Node /\ plan.wait[u] >= 1
    BY <2>1, Types DEF PromotedOnce
  <2>3. /\ \A v \in Node : waitBlack'[v] \in Int /\ waitBlack'[v] <= waitBlack[v]
        /\ waitBlack'[u] = 0
    BY <2>1, <2>2, Types
  <2>4. \A x \in Worker \ {w} : Moving(x)' =>
          Moving(x) /\ kid'[x] = kid[x] /\ kid[x] \in Node /\ kid[x] # u
    BY <1>1, <2>1, Types DEF Moving, PromotedOnce
  <2>5. \A v \in Node : waitBlack'[v] <= plan.wait[v]
    BY <2>3, Types DEF PromotedOnce
  <2>6. ASSUME NEW x \in Worker, Moving(x)'
        PROVE  waitBlack'[kid'[x]] < 1 /\ plan.wait[kid'[x]] >= 1
    <3>1. CASE x = w
      BY <2>1, <2>2, <2>3, <3>1
    <3>2. CASE x # w
      BY <2>3, <2>4, <2>6, <3>2, Types DEF PromotedOnce
    <3> QED
      BY <3>1, <3>2
  <2>7. \A x, y \in Worker : Moving(x)' /\ Moving(y)' /\ kid'[x] = kid'[y] => x = y
    BY <2>1, <2>4 DEF PromotedOnce
  <2> QED
    BY <1>1, <2>5, <2>6, <2>7 DEF PromotedOnce
<1>4. CASE ~ChildWaits(w) /\ ~ChildReady(w)
  <2>1. /\ waitBlack' = waitBlack
        /\ Moving(w)' => Moving(w) /\ kid'[w] = kid[w]
    BY <1>4, Types
    DEF WorkerStep, WorkerCheck, WorkerPop, WorkerQuit, WorkerSleep,
        SpuriousWake, RecipeSucceeds, RecipeFails, WorkerRemove, PromoteRemove,
        PromoteFront, WorkerLoop, WorkerAt, workerVars, Moving
  <2>2. \A x \in Worker : Moving(x)' => Moving(x) /\ kid'[x] = kid[x]
    BY <1>1, <2>1 DEF Moving
  <2> QED
    BY <1>1, <2>1, <2>2, PromotedStays
<1> QED
  BY <1>2, <1>3, <1>4

LEMMA PromotedAlways == Spec => []PromotedOnce
<1>1. Init => PromotedOnce
  <2> SUFFICES ASSUME Init PROVE PromotedOnce
    OBVIOUS
  <2>1. TypeInv
    BY BaseInit
  <2>2. \A v \in Node : waitBlack[v] <= plan.wait[v]
    BY <2>1, Types DEF Init
  <2> QED
    BY <2>2 DEF Init, PromotedOnce, Moving
<1>2. TypeInv /\ PromotedOnce /\ [Next]_vars => PromotedOnce'
  <2> SUFFICES ASSUME TypeInv, PromotedOnce, [Next]_vars PROVE PromotedOnce'
    OBVIOUS
  <2>1. CASE MasterStep
    <3>1. \A x \in Worker : Moving(x)' => Moving(x) /\ kid'[x] = kid[x]
      BY <2>1, MasterFrame DEF Moving
    <3> QED
      BY <2>1, <3>1, MasterFrame, PromotedStays
  <2>2. ASSUME NEW w \in Worker, WorkerStep(w) PROVE PromotedOnce'
    BY <2>2, PromotedWorker
  <2>3. CASE UNCHANGED vars
    BY <2>3, PromotedStays DEF vars, workerVars, Moving
  <2> QED
    BY <2>1, <2>2, <2>3 DEF Next, Terminated
<1> QED
  BY <1>1, <1>2, Base, PTL DEF Spec

\* The children a worker has not looked at yet belong to its target.
LEMMA KidsAlways == Spec => []KidsOfTask
<1>1. Init => KidsOfTask
  BY DEF Init, KidsOfTask
<1>2. TypeInv /\ KidsOfTask /\ [Next]_vars => KidsOfTask'
  <2> SUFFICES ASSUME TypeInv, KidsOfTask, [Next]_vars PROVE KidsOfTask'
    OBVIOUS
  <2>1. CASE MasterStep
    BY <2>1, MasterFrame DEF KidsOfTask
  <2>2. ASSUME NEW w \in Worker, WorkerStep(w) PROVE KidsOfTask'
    <3>1. /\ plan' = plan
          /\ \A x \in Worker \ {w} :
               wpc'[x] = wpc[x] /\ task'[x] = task[x] /\ kids'[x] = kids[x]
      BY <2>2, WorkerFrame
    <3>2. kids'[w] # {} => /\ wpc'[w] \in {"children", "promote", "front"}
                           /\ kids'[w] \subseteq Children(plan.edges, task'[w])
      <4>1. CASE WorkerRemove(w)
        BY <4>1, Types DEF WorkerRemove, WorkerAt
      <4>2. CASE ChildWaits(w)
        <5>1. PICK u \in kids[w] : /\ wpc'[w] = "children" /\ task'[w] = task[w]
                                   /\ kids'[w] = kids[w] \ {u}
          BY <4>2, Types DEF ChildWaits, WorkerAt
        <5> QED
          BY <5>1 DEF KidsOfTask
      <4>3. CASE ChildReady(w)
        <5>1. PICK u \in kids[w] : /\ wpc'[w] = "promote" /\ task'[w] = task[w]
                                   /\ kids'[w] = kids[w] \ {u}
          BY <4>3, Types DEF ChildReady, WorkerAt
        <5> QED
          BY <5>1 DEF KidsOfTask
      <4>4. CASE ~WorkerRemove(w) /\ ~ChildWaits(w) /\ ~ChildReady(w)
        <5>1. /\ kids' = kids
              /\ kids[w] # {} => wpc'[w] \in {"children", "promote", "front"}
                                 /\ task'[w] = task[w]
          BY <2>2, <4>4, Types
          DEF KidsOfTask, WorkerStep, WorkerCheck, WorkerPop, WorkerQuit,
              WorkerSleep, SpuriousWake, RecipeSucceeds, RecipeFails,
              PromoteRemove, PromoteFront, WorkerLoop, WorkerAt, workerVars
        <5> QED
          BY <5>1 DEF KidsOfTask
      <4> QED
        BY <4>1, <4>2, <4>3, <4>4
    <3> QED
      BY <3>1, <3>2 DEF KidsOfTask
  <2>3. CASE UNCHANGED vars
    BY <2>3 DEF vars, workerVars, KidsOfTask
  <2> QED
    BY <2>1, <2>2, <2>3 DEF Next, Terminated
<1> QED
  BY <1>1, <1>2, Base, PTL DEF Spec

-----------------------------------------------------------------------------
(* How often a target reaches the workers.                                 *)

\* The four numbers that are added up are numbers.
LEMMA HandOutTypes ==
    ASSUME TypeInv, NEW v \in Node
    PROVE  /\ starts[v] \in Nat /\ InQueue(v) \in Nat
           /\ OnList(v) \in {0, 1} /\ ToPromote(v) \in {0, 1}
           /\ plan.status[v] \in Colour
<1>1. q \in Seq(Node)
  BY Types
<1>2. InQueue(v) \in Nat
  BY <1>1, OccurrencesType DEF InQueue, Occurrences
<1> QED
  BY <1>2, Types DEF OnList, ToPromote

\* A step that hands nothing out and prepares no hand-out.
LEMMA HandOutsStay ==
    ASSUME TypeInv, TypeInv', HandOutsBounded, UNCHANGED <<plan, q, starts>>,
           \A v \in Node : OnList(v)' <= OnList(v) /\ ToPromote(v)' <= ToPromote(v)
    PROVE  HandOutsBounded'
<1> SUFFICES ASSUME NEW v \in Node
             PROVE  starts'[v] + InQueue(v)' + OnList(v)' + ToPromote(v)'
                      <= IF plan'.status[v] = BLACK THEN 2 ELSE 1
  BY DEF HandOutsBounded
<1>1. InQueue(v)' = InQueue(v)
  BY DEF InQueue
<1>2. OnList(v)' \in {0, 1} /\ ToPromote(v)' \in {0, 1}
  BY DEF OnList, ToPromote
<1>3. /\ starts[v] \in Nat /\ InQueue(v) \in Nat
      /\ OnList(v) \in {0, 1} /\ ToPromote(v) \in {0, 1}
  BY HandOutTypes
<1>4. starts[v] + InQueue(v) + OnList(v) + ToPromote(v)
        <= IF plan.status[v] = BLACK THEN 2 ELSE 1
  BY DEF HandOutsBounded
<1> QED
  BY <1>1, <1>2, <1>3, <1>4

\* The head of a list without duplicates is not on its tail.
LEMMA HeadNotOnTail ==
    ASSUME NEW S, NEW s \in Seq(S), s # <<>>, NoDuplicates(s)
    PROVE  ~Contains(Tail(s), Head(s))
<1>1. /\ Len(s) \in Nat \ {0} /\ DOMAIN s = 1..Len(s) /\ Head(s) = s[1]
      /\ Len(Tail(s)) = Len(s) - 1
      /\ \A i \in 1..(Len(s) - 1) : Tail(s)[i] = s[i + 1]
  OBVIOUS
<1>2. \A i \in 1..(Len(s) - 1) : i + 1 \in 1..Len(s) /\ i + 1 # 1
  BY <1>1
<1>3. \A i \in 1..(Len(s) - 1) : Tail(s)[i] # s[1]
  BY <1>1, <1>2 DEF NoDuplicates
<1> QED
  BY <1>1, <1>3 DEF Contains

LEMMA HandOutsMaster ==
    ASSUME Known, HandOutsBounded, MasterStep
    PROVE  HandOutsBounded'
<1>1. TypeInv /\ TypeInv' /\ Control /\ ListHasNoDuplicates
  BY TypeMaster DEF Known, ListInv
<1>2. \A v \in Node : ToPromote(v)' = ToPromote(v)
  <2>1. waitBlack' = waitBlack /\ kid' = kid
    BY <1>1, MasterFrame
  <2>2. \A x \in Worker : Moving(x)' <=> Moving(x)
    BY <1>1, MasterFrame DEF Moving
  <2> QED
    BY <2>1, <2>2 DEF ToPromote
<1>3. plan' = plan /\ starts' = starts
  BY <1>1, MasterFrame
<1>4. CASE MasterQueue
  <2> DEFINE n == Head(taskList)
  <2>1. /\ taskList # <<>> /\ n \in Node /\ mpc = "scan" /\ mpc' = "notify"
        /\ taskList' = taskList /\ q' = Append(q, n)
    BY <1>1, <1>4, Types DEF MasterQueue, ScanGoesOn, MasterAt
  <2> SUFFICES ASSUME NEW v \in Node
               PROVE  starts'[v] + InQueue(v)' + OnList(v)' + ToPromote(v)'
                        <= IF plan'.status[v] = BLACK THEN 2 ELSE 1
    BY DEF HandOutsBounded
  <2>2. InQueue(v)' = InQueue(v) + IF n = v THEN 1 ELSE 0
    <3>1. q \in Seq(Node)
      BY <1>1, Types
    <3>2. Occurrences(Append(q, n), v) = Occurrences(q, v) + IF n = v THEN 1 ELSE 0
      BY <2>1, <3>1, OccurrencesAppend
    <3>3. InQueue(v) = Occurrences(q, v) /\ InQueue(v)' = Occurrences(Append(q, n), v)
      BY <2>1 DEF InQueue, Occurrences
    <3> QED
      BY <3>2, <3>3
  <2>3. Contains(taskList, n)
    BY <1>1, <2>1, Types, TailElements
  <2>4. OnList(v) = OnList(v)' + IF n = v THEN 1 ELSE 0
    BY <2>1, <2>3 DEF OnList
  <2>5. starts[v] + InQueue(v) + OnList(v) + ToPromote(v)
          <= IF plan.status[v] = BLACK THEN 2 ELSE 1
    BY DEF HandOutsBounded
  <2>6. OnList(v)' \in {0, 1} /\ starts[v] \in Nat /\ InQueue(v) \in Nat
        /\ ToPromote(v) \in {0, 1}
    BY <1>1, HandOutTypes DEF OnList
  <2> HIDE DEF n
  <2> QED
    BY <1>2, <1>3, <2>2, <2>4, <2>5, <2>6
<1>5. CASE MasterNotify
  <2>1. /\ taskList # <<>> /\ mpc = "notify" /\ mpc' = "scan" /\ q' = q
        /\ taskList' = Tail(taskList)
    BY <1>1, <1>5 DEF MasterNotify, MasterAt, Control
  <2>2. /\ \A y : Contains(taskList, y) <=> y = Head(taskList) \/ Contains(Tail(taskList), y)
        /\ ~Contains(Tail(taskList), Head(taskList))
    BY <1>1, <2>1, Types, TailElements, HeadNotOnTail DEF ListHasNoDuplicates
  <2>3. \A v \in Node : OnList(v)' = OnList(v)
    BY <2>1, <2>2 DEF OnList
  <2>4. \A v \in Node : OnList(v)' <= OnList(v) /\ ToPromote(v)' <= ToPromote(v)
    BY <1>1, <1>2, <2>3, HandOutTypes
  <2> QED
    BY <1>1, <1>3, <2>1, <2>4, HandOutsStay
<1>6. CASE ~MasterQueue /\ ~MasterNotify
  <2>1. taskList' = taskList /\ q' = q /\ mpc # "notify" /\ mpc' # "notify"
    BY <1>6 DEF MasterStep, MasterCheck, MasterLock, MasterUnlock,
                MasterFinish, MasterDrain, MasterDrained, MasterReturn, MasterAt
  <2>2. \A v \in Node : OnList(v)' = OnList(v)
    BY <2>1 DEF OnList
  <2>3. \A v \in Node : OnList(v)' <= OnList(v) /\ ToPromote(v)' <= ToPromote(v)
    BY <1>1, <1>2, <2>2, HandOutTypes
  <2> QED
    BY <1>1, <1>3, <2>1, <2>3, HandOutsStay
<1> QED
  BY <1>4, <1>5, <1>6

LEMMA HandOutsWorker ==
    ASSUME Known, PromotedOnce, HandOutsBounded, NEW w \in Worker, WorkerStep(w)
    PROVE  HandOutsBounded'
<1>1. TypeInv /\ TypeInv' /\ Control /\ ListHasNoDuplicates /\ KidIsOffTheList
  BY TypeWorker DEF Known, ListInv
<1>2. /\ plan' = plan /\ mpc' = mpc
      /\ \A x \in Worker \ {w} : wpc'[x] = wpc[x] /\ kid'[x] = kid[x]
  BY <1>1, WorkerFrame
\* A step that leaves the list alone.
<1>3. ASSUME taskList' = taskList PROVE \A v \in Node : OnList(v)' = OnList(v)
  BY <1>2, <1>3 DEF OnList
\* One that promotes nothing.
<1>4. ASSUME waitBlack' = waitBlack, Moving(w)' => Moving(w), kid'[w] = kid[w]
      PROVE  \A v \in Node : ToPromote(v)' <= ToPromote(v)
  <2>1. \A x \in Worker : Moving(x)' => Moving(x) /\ kid'[x] = kid[x]
    BY <1>2, <1>4 DEF Moving
  <2> QED
    BY <1>4, <2>1 DEF ToPromote
\* One that takes a node off the list.
<1>5. ASSUME NEW n, mpc # "notify", taskList' = Without(taskList, n)
      PROVE  \A v \in Node : OnList(v)' <= OnList(v)
  <2>1. \A v \in Node : Contains(taskList', v) => Contains(taskList, v)
    BY <1>1, <1>5, Types, WithoutElements DEF ListHasNoDuplicates
  <2> QED
    BY <1>2, <1>5, <2>1 DEF OnList
<1>6. \A v \in Node : OnList(v) <= OnList(v) /\ ToPromote(v) <= ToPromote(v)
  BY <1>1, HandOutTypes
<1>7. CASE WorkerPop(w)
  <2> DEFINE n == Head(q)
  <2>1. /\ q # <<>> /\ n \in Node /\ q' = Tail(q) /\ taskList' = taskList
        /\ starts' = [starts EXCEPT ![n] = @ + 1]
        /\ waitBlack' = waitBlack /\ kid' = kid /\ wpc'[w] = "run"
    BY <1>1, <1>7, Types DEF WorkerPop, WorkerAt
  <2> SUFFICES ASSUME NEW v \in Node
               PROVE  starts'[v] + InQueue(v)' + OnList(v)' + ToPromote(v)'
                        <= IF plan'.status[v] = BLACK THEN 2 ELSE 1
    BY DEF HandOutsBounded
  <2>2. InQueue(v) = InQueue(v)' + IF n = v THEN 1 ELSE 0
    <3>1. q \in Seq(Node)
      BY <1>1, Types
    <3>2. Occurrences(q, v) = Occurrences(Tail(q), v) + IF n = v THEN 1 ELSE 0
      BY <2>1, <3>1, OccurrencesHead
    <3>3. InQueue(v) = Occurrences(q, v) /\ InQueue(v)' = Occurrences(Tail(q), v)
      BY <2>1 DEF InQueue, Occurrences
    <3> QED
      BY <3>2, <3>3
  <2>3. OnList(v)' = OnList(v) /\ ToPromote(v)' <= ToPromote(v)
    BY <1>3, <1>4, <2>1 DEF Moving
  <2>4. starts'[v] = starts[v] + IF n = v THEN 1 ELSE 0
    BY <1>1, <2>1, Types
  <2>5. starts[v] + InQueue(v) + OnList(v) + ToPromote(v)
          <= IF plan.status[v] = BLACK THEN 2 ELSE 1
    BY DEF HandOutsBounded
  <2>6. /\ starts[v] \in Nat /\ InQueue(v)' \in Nat /\ OnList(v) \in {0, 1}
        /\ ToPromote(v) \in {0, 1} /\ ToPromote(v)' \in {0, 1}
    <3>1. /\ starts[v] \in Nat /\ OnList(v) \in {0, 1} /\ ToPromote(v) \in {0, 1}
      BY <1>1, HandOutTypes
    <3>2. q' \in Seq(Node)
      BY <1>1 DEF TypeInv, TypeOK
    <3>3. InQueue(v)' \in Nat
      BY <3>2, OccurrencesType DEF InQueue, Occurrences
    <3> QED
      BY <3>1, <3>3 DEF ToPromote
  <2> HIDE DEF n
  <2> QED
    BY <1>2, <2>2, <2>3, <2>4, <2>5, <2>6
<1>8. CASE ChildWaits(w)
  <2>1. PICK u \in kids[w] :
          /\ waitBlack[u] # 1 /\ waitBlack' = [waitBlack EXCEPT ![u] = @ - 1]
          /\ UNCHANGED <<taskList, q, starts, kid>> /\ wpc'[w] = "children"
    BY <1>1, <1>8, Types DEF ChildWaits, WorkerAt, history
  <2>2. \A v \in Node : waitBlack'[v] >= 1 => waitBlack[v] >= 1
    BY <1>1, <2>1, Types
  <2>3. \A x \in Worker : Moving(x)' => Moving(x) /\ kid'[x] = kid[x]
    BY <1>2, <2>1 DEF Moving
  <2>4. \A v \in Node : ToPromote(v)' <= ToPromote(v)
    BY <2>2, <2>3 DEF ToPromote
  <2> QED
    BY <1>1, <1>2, <1>3, <1>6, <2>1, <2>4, HandOutsStay
<1>9. CASE ChildReady(w)
  <2>1. PICK u \in kids[w] :
          /\ waitBlack[u] = 1 /\ waitBlack' = [waitBlack EXCEPT ![u] = 0]
          /\ UNCHANGED <<taskList, q, starts>> /\ kid' = [kid EXCEPT ![w] = u]
          /\ wpc[w] = "children"
    BY <1>1, <1>9, Types DEF ChildReady, WorkerAt, history
  <2>2. \A v \in Node : waitBlack'[v] >= 1 => waitBlack[v] >= 1
    BY <1>1, <2>1, Types
  <2>3. \A x \in Worker : Moving(x)' =>
          (Moving(x) /\ kid'[x] = kid[x]) \/ (kid'[x] = u /\ waitBlack[u] >= 1)
    BY <1>1, <1>2, <2>1, Types DEF Moving
  <2>4. \A v \in Node : ToPromote(v)' <= ToPromote(v)
    BY <2>2, <2>3 DEF ToPromote
  <2> QED
    BY <1>1, <1>2, <1>3, <1>6, <2>1, <2>4, HandOutsStay
<1>10. CASE WorkerRemove(w)
  <2>1. /\ taskList' = Without(taskList, task[w]) /\ mpc # "notify"
        /\ UNCHANGED <<q, starts, waitBlack, kid>> /\ wpc'[w] = "children"
    BY <1>1, <1>10, Types, Names DEF WorkerRemove, WorkerAt, history, Control
  <2> QED
    BY <1>1, <1>2, <1>4, <1>5, <2>1, HandOutsStay DEF Moving
<1>11. CASE PromoteRemove(w)
  <2>1. /\ taskList' = Without(taskList, kid[w]) /\ mpc # "notify"
        /\ UNCHANGED <<q, starts, waitBlack, kid>> /\ wpc[w] = "promote"
    BY <1>1, <1>11, Types, Names DEF PromoteRemove, WorkerAt, history, Control
  <2> QED
    BY <1>1, <1>2, <1>4, <1>5, <2>1, HandOutsStay DEF Moving
\* The child's promotion turns into an entry on the list.
<1>12. CASE PromoteFront(w)
  <2> DEFINE n == kid[w]
  <2>1. /\ n \in Node /\ wpc[w] = "front" /\ wpc'[w] = "children"
        /\ taskList' = <<n>> \o taskList /\ UNCHANGED <<q, starts, waitBlack>>
    BY <1>1, <1>12, Types DEF PromoteFront, WorkerAt, history, Moving
  <2> HIDE DEF n
  <2>2. mpc # "notify"
    BY <1>1, <2>1, Names DEF Control
  <2>3. \A v : Contains(taskList', v) <=> v = n \/ Contains(taskList, v)
    BY <1>1, <2>1, Types, FrontElements
  <2>4. ~Contains(taskList, n)
    BY <1>1, <2>1 DEF KidIsOffTheList, n
  <2>5. waitBlack[n] < 1 /\ \A x \in Worker \ {w} : Moving(x) => kid[x] # n
    BY <2>1 DEF PromotedOnce, Moving, n
  <2>6. ~Moving(w)' /\ \A x \in Worker \ {w} :
          (Moving(x)' <=> Moving(x)) /\ kid'[x] = kid[x]
    BY <1>2, <2>1 DEF Moving
  <2>7. ASSUME NEW v \in Node
        PROVE  starts'[v] + InQueue(v)' + OnList(v)' + ToPromote(v)'
                 <= IF plan'.status[v] = BLACK THEN 2 ELSE 1
    <3>1. InQueue(v)' = InQueue(v)
      BY <2>1 DEF InQueue
    <3>2. CASE v = n
      <4>1. OnList(v) = 0 /\ OnList(v)' = 1
        BY <1>2, <2>2, <2>3, <2>4, <3>2 DEF OnList
      <4>2. ToPromote(v) = 1
        BY <2>1, <3>2 DEF ToPromote, Moving, n
      <4>3. ToPromote(v)' = 0
        <5>1. ~(waitBlack'[v] >= 1)
          BY <1>1, <2>1, <2>5, <3>2, Types
        <5>2. \A x \in Worker : ~(Moving(x)' /\ kid'[x] = v)
          BY <2>5, <2>6, <3>2
        <5> QED
          BY <5>1, <5>2 DEF ToPromote
      <4> QED
        BY <1>1, <1>2, <2>1, <3>1, <4>1, <4>2, <4>3, HandOutTypes DEF HandOutsBounded
    <3>3. CASE v # n
      <4>1. OnList(v)' = OnList(v)
        BY <1>2, <2>2, <2>3, <3>3 DEF OnList
      <4>2. ToPromote(v)' = ToPromote(v)
        <5>1. \A x \in Worker : Moving(x)' /\ kid'[x] = v <=> Moving(x) /\ kid[x] = v
          BY <2>6, <3>3 DEF n
        <5> QED
          BY <2>1, <5>1 DEF ToPromote
      <4> QED
        BY <1>2, <2>1, <3>1, <4>1, <4>2 DEF HandOutsBounded
    <3> QED
      BY <3>2, <3>3
  <2> QED
    BY <2>7 DEF HandOutsBounded
<1>13. CASE \/ WorkerCheck(w) \/ WorkerQuit(w) \/ WorkerSleep(w)
            \/ SpuriousWake(w) \/ RecipeSucceeds(w) \/ RecipeFails(w)
            \/ WorkerLoop(w)
  <2>1. /\ UNCHANGED <<taskList, q, starts, waitBlack, kid>>
        /\ Moving(w)' => Moving(w)
    BY <1>1, <1>13, Types
    DEF WorkerCheck, WorkerQuit, WorkerSleep, SpuriousWake, RecipeSucceeds,
        RecipeFails, WorkerLoop, WorkerAt, workerVars, history, Moving
  <2> QED
    BY <1>1, <1>2, <1>3, <1>4, <1>6, <2>1, HandOutsStay
<1> QED
  BY <1>7, <1>8, <1>9, <1>10, <1>11, <1>12, <1>13 DEF WorkerStep

\* An outdated target that is not ready waits for somebody, and the other way
\* round.
LEMMA WaitsIfBlack ==
    ASSUME TypeInv, NEW v \in Tasks
    PROVE  /\ v \in Node
           /\ plan.wait[v] = Cardinality(StaleParents(plan, v))
           /\ IsFiniteSet(StaleParents(plan, v))
           /\ plan.status[v] = BLACK <=> plan.wait[v] >= 1
           /\ plan.status[v] # BLACK <=> StaleParents(plan, v) = {}
<1>1. PreprocessResult(plan) /\ plan.tasks \in Seq(Node)
  BY PlanFacts DEF TypeInv
<1>2. v \in Node
  BY <1>1 DEF Tasks, ToSet
<1>3. IsFiniteSet(StaleParents(plan, v))
  BY NodeAssumption, FS_Subset DEF StaleParents, Parents
<1>4. Cardinality(StaleParents(plan, v)) \in Nat
  BY <1>3, FS_CardinalityType
<1>5. Cardinality(StaleParents(plan, v)) = 0 <=> StaleParents(plan, v) = {}
  BY <1>3, FS_EmptySet
<1>6. /\ plan.wait[v] = Cardinality(StaleParents(plan, v))
      /\ plan.status[v] = IF StaleParents(plan, v) = {} THEN GREY ELSE BLACK
  BY <1>1 DEF PreprocessResult, Tasks
<1> QED
  BY <1>2, <1>3, <1>4, <1>5, <1>6 DEF GREY, BLACK

LEMMA HandOutsAlways == Spec => []HandOutsBounded
<1>1. Init => HandOutsBounded
  <2> SUFFICES ASSUME Init, NEW v \in Node
               PROVE  starts[v] + InQueue(v) + OnList(v) + ToPromote(v)
                        <= IF plan.status[v] = BLACK THEN 2 ELSE 1
    BY DEF HandOutsBounded
  <2>1. TypeInv
    BY BaseInit
  <2>2. starts[v] = 0
    BY DEF Init
  <2>3. InQueue(v) = 0
    <3>1. {i \in DOMAIN q : q[i] = v} = {}
      BY DEF Init
    <3> QED
      BY <3>1, FS_EmptySet DEF InQueue
  <2>4. OnList(v) \in {0, 1} /\ ToPromote(v) \in {0, 1}
    BY <2>1, HandOutTypes
  <2>5. CASE v \in Tasks /\ plan.status[v] # BLACK
    <3>1. ~(waitBlack[v] >= 1)
      BY <2>1, <2>5, WaitsIfBlack, Types DEF Init
    <3>2. ToPromote(v) = 0
      BY <3>1 DEF Init, ToPromote, Moving
    <3> QED
      BY <2>2, <2>3, <2>4, <3>2
  <2>6. CASE v \notin Tasks
    <3>1. ~Contains(taskList, v)
      BY <2>1, <2>6, Types, InList DEF Init, Tasks
    <3>2. OnList(v) = 0
      BY <3>1 DEF OnList
    <3> QED
      BY <2>2, <2>3, <2>4, <3>2
  <2>7. CASE plan.status[v] = BLACK
    BY <2>2, <2>3, <2>4, <2>7
  <2> QED
    BY <2>5, <2>6, <2>7
<1>2. Known /\ PromotedOnce /\ HandOutsBounded /\ [Next]_vars => HandOutsBounded'
  <2> SUFFICES ASSUME Known, PromotedOnce, HandOutsBounded, [Next]_vars
               PROVE  HandOutsBounded'
    OBVIOUS
  <2>1. CASE MasterStep
    BY <2>1, HandOutsMaster
  <2>2. ASSUME NEW w \in Worker, WorkerStep(w) PROVE HandOutsBounded'
    BY <2>2, HandOutsWorker
  <2>3. CASE UNCHANGED vars
    BY <2>3 DEF vars, masterVars, workerVars, history, HandOutsBounded, InQueue,
                OnList, ToPromote, Moving
  <2> QED
    BY <2>1, <2>2, <2>3 DEF Next, Terminated
<1> QED
  BY <1>1, <1>2, KnownAlways, PromotedAlways, PTL DEF Spec

\* The unlocked window between the GREY mark and the move to the front can
\* make a target run twice, but on no graph and with no number of workers a
\* third time; a target that was ready from the start runs once.
THEOREM TwiceSafety == Spec => []AtMostTwice
<1>1. TypeInv /\ HandOutsBounded => AtMostTwice
  <2> SUFFICES ASSUME TypeInv, HandOutsBounded, NEW v \in Node
               PROVE  starts[v] <= IF plan.status[v] = BLACK THEN 2 ELSE 1
    BY DEF AtMostTwice
  <2> QED
    BY HandOutTypes DEF HandOutsBounded
<1> QED
  BY <1>1, Base, HandOutsAlways, PTL

-----------------------------------------------------------------------------
(* What the master may miss.                                               *)

LEMMA LostMaster ==
    ASSUME Known, PromotedOnce, NothingIsLost, MasterStep
    PROVE  NothingIsLost'
<1>1. TypeInv /\ Control /\ ErasesWhatItQueued
  BY DEF Known, ListInv
<1>2. plan' = plan /\ kid' = kid /\ Tasks' = Tasks
  BY <1>1, MasterFrame DEF Tasks
<1>3. Tasks \subseteq Node
  BY <1>1, WaitsIfBlack
<1>4. \A v \in Tasks : ~HandedOut(v)' => ~HandedOut(v)
  BY <1>1, <1>3, HandedOutStays DEF Next
<1>5. \A x \in Worker : wpc[x] = "front" => wpc'[x] = "front"
  BY <1>1, MasterFrame
<1>6. ASSUME NEW v \in Tasks, ~HandedOut(v)'
      PROVE  \/ Contains(taskList', v)
             \/ \E x \in Worker : wpc'[x] = "front" /\ kid'[x] = v
  <2>1. \/ Contains(taskList, v)
        \/ \E x \in Worker : wpc[x] = "front" /\ kid[x] = v
    BY <1>4, <1>6 DEF NothingIsLost
  <2>2. CASE \E x \in Worker : wpc[x] = "front" /\ kid[x] = v
    BY <1>2, <1>5, <2>2
  <2>3. CASE Contains(taskList, v) /\ MasterNotify
    <3>1. /\ taskList # <<>> /\ taskList' = Tail(taskList) /\ v # Head(taskList)
      BY <1>1, <1>4, <1>6, <2>3
      DEF MasterNotify, MasterAt, Control, ErasesWhatItQueued
    <3> QED
      BY <1>1, <2>3, <3>1, Types, TailElements
  <2>4. CASE Contains(taskList, v) /\ ~MasterNotify
    <3>1. taskList' = taskList
      BY <2>4 DEF MasterStep, MasterCheck, MasterLock, MasterQueue, MasterUnlock,
                  MasterFinish, MasterDrain, MasterDrained, MasterReturn
    <3> QED
      BY <2>4, <3>1
  <2> QED
    BY <2>1, <2>2, <2>3, <2>4
<1>7. ASSUME NEW u \in Tasks, NEW v \in Tasks,
             mpc' \in {"finish", "drain", "join", "returned"},
             ~HandedOut(u)', ~HandedOut(v)'
      PROVE  u = v /\ plan.status[v] = BLACK
  <2>1. CASE mpc \in {"finish", "drain", "join", "returned"}
    BY <1>4, <1>7, <2>1 DEF NothingIsLost
  <2>2. CASE mpc \notin {"finish", "drain", "join", "returned"}
    <3>1. taskList = <<>>
      BY <1>7, <2>2
      DEF MasterStep, MasterCheck, MasterLock, MasterQueue, MasterNotify,
          MasterUnlock, MasterFinish, MasterDrain, MasterDrained, MasterReturn,
          MasterAt
    <3>2. ~Contains(taskList, u) /\ ~Contains(taskList, v)
      BY <3>1 DEF Contains
    <3>3. PICK x \in Worker : wpc[x] = "front" /\ kid[x] = u
      BY <1>4, <1>7, <3>2 DEF NothingIsLost
    <3>4. PICK y \in Worker : wpc[y] = "front" /\ kid[y] = v
      BY <1>4, <1>7, <3>2 DEF NothingIsLost
    <3>5. x = y
      BY <1>1, <3>3, <3>4 DEF Control
    <3>6. plan.wait[v] >= 1
      BY <3>4 DEF PromotedOnce, Moving
    <3> QED
      BY <1>1, <3>3, <3>4, <3>5, <3>6, WaitsIfBlack
  <2> QED
    BY <2>1, <2>2
<1> QED
  BY <1>2, <1>6, <1>7 DEF NothingIsLost

LEMMA LostWorker ==
    ASSUME Known, StartsAccounted, NothingIsLost, NEW w \in Worker, WorkerStep(w)
    PROVE  NothingIsLost'
<1>1. TypeInv /\ Control /\ ListHasNoDuplicates
  BY DEF Known, ListInv
<1>2. /\ plan' = plan /\ mpc' = mpc /\ Tasks' = Tasks
      /\ \A x \in Worker \ {w} : wpc'[x] = wpc[x] /\ kid'[x] = kid[x]
  BY <1>1, WorkerFrame DEF Tasks
<1>3. Tasks \subseteq Node
  BY <1>1, WaitsIfBlack
<1>4. \A v \in Tasks : ~HandedOut(v)' => ~HandedOut(v)
  BY <1>1, <1>3, HandedOutStays DEF Next
<1>5. ASSUME NEW v \in Tasks, ~HandedOut(v)'
      PROVE  \/ Contains(taskList', v)
             \/ \E x \in Worker : wpc'[x] = "front" /\ kid'[x] = v
  <2>1. \/ Contains(taskList, v)
        \/ \E x \in Worker : wpc[x] = "front" /\ kid[x] = v
    BY <1>4, <1>5 DEF NothingIsLost
  <2>2. CASE WorkerRemove(w)
    <3>1. /\ taskList' = Without(taskList, task[w]) /\ task[w] \in Node
          /\ \A x \in Worker : wpc[x] # "front"
          /\ starts[task[w]] > 0
      BY <1>1, <2>2, Types, Names
      DEF WorkerRemove, WorkerAt, Control, StartsAccounted, Working
    <3>2. v # task[w]
      BY <1>4, <1>5, <3>1 DEF HandedOut
    <3> QED
      BY <1>1, <2>1, <3>1, <3>2, Types, WithoutElements DEF ListHasNoDuplicates
  <2>3. CASE PromoteRemove(w)
    <3>1. /\ taskList' = Without(taskList, kid[w]) /\ kid' = kid
          /\ wpc'[w] = "front" /\ \A x \in Worker : wpc[x] # "front"
      BY <1>1, <2>3, Types, Names DEF PromoteRemove, WorkerAt, Control
    <3>2. v # kid[w] => Contains(taskList', v)
      BY <1>1, <2>1, <3>1, Types, WithoutElements DEF ListHasNoDuplicates
    <3> QED
      BY <3>1, <3>2
  <2>4. CASE PromoteFront(w)
    <3>1. /\ taskList' = <<kid[w]>> \o taskList /\ kid[w] \in Node
          /\ wpc[w] = "front"
      BY <1>1, <2>4, Types DEF PromoteFront, WorkerAt, Moving
    <3>2. \A x \in Worker : wpc[x] = "front" => x = w
      BY <1>1, <3>1 DEF Control
    <3>3. v = kid[w] \/ Contains(taskList, v)
      BY <2>1, <3>2
    <3> QED
      BY <1>1, <3>1, <3>3, Types, FrontElements
  <2>5. CASE ~WorkerRemove(w) /\ ~PromoteRemove(w) /\ ~PromoteFront(w)
    <3>1. /\ taskList' = taskList
          /\ wpc[w] = "front" => wpc'[w] = "front" /\ kid'[w] = kid[w]
      BY <2>5
      DEF WorkerStep, WorkerCheck, WorkerPop, WorkerQuit, WorkerSleep,
          SpuriousWake, RecipeSucceeds, RecipeFails, ChildWaits, ChildReady,
          WorkerLoop, WorkerAt, workerVars
    <3> QED
      BY <1>2, <2>1, <3>1
  <2> QED
    BY <2>2, <2>3, <2>4, <2>5
<1> QED
  BY <1>2, <1>4, <1>5 DEF NothingIsLost

LEMMA LostAlways == Spec => []NothingIsLost
<1>1. Init => NothingIsLost
  <2> SUFFICES ASSUME Init PROVE NothingIsLost
    OBVIOUS
  <2>1. TypeInv
    BY BaseInit
  <2>2. \A v \in Tasks : Contains(taskList, v)
    BY <2>1, Types, InList DEF Init, Tasks
  <2> QED
    BY <2>2 DEF Init, NothingIsLost
<1>2. Known /\ PromotedOnce /\ StartsAccounted /\ NothingIsLost /\ [Next]_vars
        => NothingIsLost'
  <2> SUFFICES ASSUME Known, PromotedOnce, StartsAccounted, NothingIsLost,
                      [Next]_vars
               PROVE  NothingIsLost'
    OBVIOUS
  <2>1. CASE MasterStep
    BY <2>1, LostMaster
  <2>2. ASSUME NEW w \in Worker, WorkerStep(w) PROVE NothingIsLost'
    BY <2>2, LostWorker
  <2>3. CASE UNCHANGED vars
    BY <2>3 DEF vars, masterVars, workerVars, history, NothingIsLost, Tasks,
                HandedOut
  <2> QED
    BY <2>1, <2>2, <2>3 DEF Next, Terminated
<1> QED
  BY <1>1, <1>2, KnownAlways, PromotedAlways, StartsAlways, PTL DEF Spec

\* The unlocked poll of the list loses at most one target of the plan, with
\* however many workers, since only the holder of the list lock can have a
\* target that is neither on the list nor handed out.
THEOREM LeavesSafety == Spec => []LeavesAtMostOne
<1>1. TypeInv /\ NothingIsLost => LeavesAtMostOne
  <2> SUFFICES ASSUME TypeInv, NothingIsLost,
                      mpc \in {"finish", "drain", "join", "returned"}
               PROVE  Cardinality({v \in Tasks : ~HandedOut(v)}) <= 1
    BY DEF LeavesAtMostOne
  <2> DEFINE L == {v \in Tasks : ~HandedOut(v)}
  <2>1. \A u, v \in L : u = v
    BY DEF NothingIsLost
  <2> HIDE DEF L
  <2>2. CASE L = {}
    BY <2>2, FS_EmptySet DEF L
  <2>3. CASE L # {}
    <3>1. PICK v : L = {v}
      BY <2>1, <2>3
    <3>2. Cardinality(L) = 1
      BY <3>1, FS_Singleton
    <3> QED
      BY <3>2 DEF L
  <2> QED
    BY <2>2, <2>3
<1> QED
  BY <1>1, Base, LostAlways, PTL

-----------------------------------------------------------------------------
(* Order.                                                                  *)

\* Counted parents are outdated parents; a larger set of them counts more.
LEMMA CountedFinite ==
    ASSUME TypeInv, NEW v \in Tasks, NEW C \in SUBSET StaleParents(plan, v)
    PROVE  /\ IsFiniteSet(C) /\ Cardinality(C) \in Nat
           /\ Cardinality(C) <= plan.wait[v]
           /\ Cardinality(C) = plan.wait[v] => C = StaleParents(plan, v)
<1>1. /\ IsFiniteSet(StaleParents(plan, v))
      /\ plan.wait[v] = Cardinality(StaleParents(plan, v))
  BY WaitsIfBlack
<1> QED
  BY <1>1, FS_Subset, FS_CardinalityType

\* A parent of a target that has run is an outdated one: schedule() touches
\* no other node of the request.
LEMMA ParentThatRan ==
    ASSUME TypeInv, OnlyTouchable, NEW v \in Tasks, NEW u \in Node,
           v \in Children(plan.edges, u), starts[u] > 0
    PROVE  u \in StaleParents(plan, v)
<1>1. PreprocessResult(plan)
  BY PlanFacts DEF TypeInv
<1>2. u \in Parents(plan.edges, v)
  BY DEF Children, Parents
<1>3. u \in plan.asked
  BY <1>1, <1>2 DEF PreprocessResult, Tasks
<1>4. u \in Tasks
  BY <1>3 DEF OnlyTouchable, Touchable
<1> QED
  BY <1>2, <1>4 DEF StaleParents, Tasks

\* A step under which no counted parent is lost keeps the first half of
\* CountsDown at a node whose counter it leaves alone.
LEMMA CountedStays ==
    ASSUME TypeInv, NEW v \in Tasks, plan' = plan, waitBlack'[v] = waitBlack[v],
           (\A u \in StaleParents(plan, v) : starts[u] <= 1)
             => plan.wait[v] - waitBlack[v] <= Cardinality(Counted(v)),
           \A u \in StaleParents(plan, v) : starts'[u] <= 1 => starts[u] <= 1,
           (\A u \in StaleParents(plan, v) : starts'[u] <= 1)
             => Counted(v) \subseteq Counted(v)'
    PROVE  (\A u \in StaleParents(plan', v) : starts'[u] <= 1)
             => plan'.wait[v] - waitBlack'[v] <= Cardinality(Counted(v)')
<1> SUFFICES ASSUME \A u \in StaleParents(plan, v) : starts'[u] <= 1
             PROVE  plan.wait[v] - waitBlack[v] <= Cardinality(Counted(v)')
  OBVIOUS
<1>1. Counted(v)' \in SUBSET StaleParents(plan, v)
  BY DEF Counted
<1>2. IsFiniteSet(Counted(v)') /\ Cardinality(Counted(v)') \in Nat
  BY <1>1, CountedFinite
<1>3. Cardinality(Counted(v)) <= Cardinality(Counted(v)')
  BY <1>2, FS_Subset
<1>4. Cardinality(Counted(v)) \in Nat
  BY <1>2, FS_Subset, FS_CardinalityType
<1>5. v \in Node
  BY WaitsIfBlack
<1> QED
  BY <1>2, <1>3, <1>4, <1>5, Types

\* Counting a child down: the worker's target becomes a counted parent of it.
LEMMA CountedGrows ==
    ASSUME Known, StartsAccounted, KidsOfTask,
           NEW w \in Worker, NEW v \in Tasks, v \in kids[w],
           wpc[w] = "children", wpc'[w] \in {"children", "promote"},
           UNCHANGED <<plan, task, starts, finishes>>,
           waitBlack'[v] = waitBlack[v] - 1,
           kids'[w] = kids[w] \ {v},
           \A x \in Worker \ {w} : wpc'[x] = wpc[x] /\ kids'[x] = kids[x],
           (\A u \in StaleParents(plan, v) : starts[u] <= 1)
             => plan.wait[v] - waitBlack[v] <= Cardinality(Counted(v))
    PROVE  (\A u \in StaleParents(plan', v) : starts'[u] <= 1)
             => plan'.wait[v] - waitBlack'[v] <= Cardinality(Counted(v)')
<1> SUFFICES ASSUME \A u \in StaleParents(plan, v) : starts[u] <= 1
             PROVE  plan.wait[v] - (waitBlack[v] - 1) <= Cardinality(Counted(v)')
  OBVIOUS
<1> DEFINE u == task[w]
<1>1. TypeInv /\ OnlyTouchable
  BY DEF Known
<1>2. /\ u \in Node /\ starts[u] > 0 /\ finishes[u] > 0
      /\ v \in Children(plan.edges, u)
  BY <1>1, Types DEF Working, StartsAccounted, KidsOfTask
<1>3. u \in StaleParents(plan, v)
  BY <1>1, <1>2, ParentThatRan
<1>4. starts[u] <= 1 /\ starts[u] \in Nat
  BY <1>1, <1>2, <1>3, Types
<1>5. \A x \in Worker \ {w} : task[x] # u \/ wpc[x] \notin Working
  BY <1>4 DEF StartsAccounted, Working
<1>6. \A x \in Worker \ {w} : task[x] = u => wpc'[x] # "remove" /\ kids'[x] = {}
  BY <1>5 DEF KidsOfTask, Working
<1>7. u \notin Counted(v)
  BY DEF Counted
<1>8. Counted(v) \cup {u} \subseteq Counted(v)'
  <2>1. u \in Counted(v)'
    BY <1>2, <1>3, <1>6 DEF Counted
  <2>2. ASSUME NEW t \in Counted(v) PROVE t \in Counted(v)'
    <3>1. t # u
      BY <1>7, <2>2
    <3> QED
      BY <2>2, <3>1 DEF Counted
  <2> QED
    BY <2>1, <2>2
<1> HIDE DEF u
<1>9. Counted(v)' \in SUBSET StaleParents(plan, v)
  BY DEF Counted
<1>10. IsFiniteSet(Counted(v)') /\ Cardinality(Counted(v)') \in Nat
  BY <1>1, <1>9, CountedFinite
<1>11. IsFiniteSet(Counted(v))
  BY <1>8, <1>10, FS_Subset
<1>12. /\ Cardinality(Counted(v) \cup {u}) = Cardinality(Counted(v)) + 1
       /\ Cardinality(Counted(v)) \in Nat
  BY <1>7, <1>11, FS_AddElement, FS_CardinalityType
<1>13. Cardinality(Counted(v) \cup {u}) <= Cardinality(Counted(v)')
  BY <1>8, <1>10, FS_Subset
<1>14. v \in Node
  BY <1>1, WaitsIfBlack
<1> QED
  BY <1>1, <1>10, <1>12, <1>13, <1>14, Types

\* A step that counts nothing down, hands out nothing and marks nothing ready.
LEMMA CountsStay ==
    ASSUME TypeInv, CountsDown, UNCHANGED <<plan, waitBlack>>,
           \A v \in Tasks : \A u \in StaleParents(plan, v) :
              starts'[u] <= 1 => starts[u] <= 1,
           \A v \in Tasks : (\A u \in StaleParents(plan, v) : starts'[u] <= 1)
                               => Counted(v) \subseteq Counted(v)',
           \A v \in Tasks : status'[v] # BLACK \/ HandedOut(v)'
                               => status[v] # BLACK \/ HandedOut(v)
    PROVE  CountsDown'
<1> SUFFICES ASSUME NEW v \in Tasks
             PROVE  /\ (\A u \in StaleParents(plan', v) : starts'[u] <= 1) =>
                          plan'.wait[v] - waitBlack'[v] <= Cardinality(Counted(v)')
                    /\ status'[v] # BLACK \/ HandedOut(v)' => waitBlack'[v] <= 0
  BY DEF CountsDown, Tasks
<1>1. (\A u \in StaleParents(plan, v) : starts[u] <= 1)
        => plan.wait[v] - waitBlack[v] <= Cardinality(Counted(v))
  BY DEF CountsDown
<1>2. (\A u \in StaleParents(plan', v) : starts'[u] <= 1) =>
        plan'.wait[v] - waitBlack'[v] <= Cardinality(Counted(v)')
  BY <1>1, CountedStays
<1> QED
  BY <1>2 DEF CountsDown

LEMMA CountsMaster ==
    ASSUME Known, CountsDown, MasterStep
    PROVE  CountsDown'
<1>1. TypeInv
  BY DEF Known
<1>2. /\ UNCHANGED <<plan, status, waitBlack, task, kids, starts, finishes>>
      /\ \A x \in Worker : wpc'[x] = "remove" => wpc[x] = "remove"
  BY <1>1, MasterFrame
<1>3. \A v \in Tasks : Counted(v) \subseteq Counted(v)'
  BY <1>2 DEF Counted
<1>4. ASSUME NEW v \in Tasks, HandedOut(v)'
      PROVE  status[v] # BLACK \/ HandedOut(v)
  <2>1. CASE MasterQueue
    <3>1. /\ q' = Append(q, Head(taskList)) /\ Head(taskList) \in Node
          /\ status[Head(taskList)] # BLACK
      BY <1>1, <2>1, Types DEF MasterQueue, ScanGoesOn
    <3>2. Contains(q', v) => v = Head(taskList) \/ Contains(q, v)
      BY <1>1, <3>1, Types, AppendElements
    <3> QED
      BY <1>2, <1>4, <3>1, <3>2 DEF HandedOut
  <2>2. CASE ~MasterQueue
    <3>1. q' = q
      BY <2>2 DEF MasterStep, MasterCheck, MasterLock, MasterNotify,
                  MasterUnlock, MasterFinish, MasterDrain, MasterDrained,
                  MasterReturn
    <3> QED
      BY <1>2, <1>4, <3>1 DEF HandedOut
  <2> QED
    BY <2>1, <2>2
<1> QED
  BY <1>1, <1>2, <1>3, <1>4, CountsStay

LEMMA CountsWorker ==
    ASSUME Known, StartsAccounted, KidsOfTask, CountsDown,
           NEW w \in Worker, WorkerStep(w)
    PROVE  CountsDown'
<1>1. TypeInv
  BY DEF Known
<1>2. /\ plan' = plan
      /\ \A x \in Worker \ {w} :
           wpc'[x] = wpc[x] /\ task'[x] = task[x] /\ kids'[x] = kids[x]
  BY <1>1, WorkerFrame
<1>3. Tasks \subseteq Node /\ \A v : StaleParents(plan, v) \subseteq Node
  BY <1>1, WaitsIfBlack DEF StaleParents, Parents
\* The worker does not start to block the counting of a node.
<1>4. ASSUME UNCHANGED <<waitBlack, q, starts, finishes, status>>,
             \A t \in Node : \A v \in Node :
                task'[w] = t /\ (wpc'[w] = "remove" \/ v \in kids'[w])
                  => task[w] = t /\ (wpc[w] = "remove" \/ v \in kids[w])
      PROVE  CountsDown'
  <2>1. \A v \in Tasks : Counted(v) \subseteq Counted(v)'
    BY <1>2, <1>3, <1>4 DEF Counted
  <2> QED
    BY <1>1, <1>2, <1>4, <2>1, CountsStay DEF HandedOut
<1>5. CASE WorkerCheck(w) \/ WorkerQuit(w) \/ WorkerSleep(w) \/ SpuriousWake(w)
  BY <1>1, <1>4, <1>5, IdleFrame DEF Working
<1>6. CASE RecipeFails(w)
  BY <1>4, <1>6 DEF RecipeFails, workerVars, history
<1>7. CASE PromoteRemove(w) \/ PromoteFront(w)
  BY <1>1, <1>4, <1>7, Types DEF PromoteRemove, PromoteFront, WorkerAt, history
<1>8. CASE WorkerLoop(w)
  <2>1. task'[w] = None
    BY <1>1, <1>8, Types DEF WorkerLoop
  <2> QED
    BY <1>4, <1>8, <2>1, Names DEF WorkerLoop, history
<1>9. CASE WorkerPop(w)
  <2> DEFINE n == Head(q)
  <2>1. /\ q # <<>> /\ n \in Node /\ q' = Tail(q) /\ task'[w] = n
        /\ starts' = [starts EXCEPT ![n] = @ + 1]
        /\ UNCHANGED <<waitBlack, finishes, status, kids>>
        /\ wpc[w] = "get" /\ wpc'[w] = "run"
    BY <1>1, <1>9, Types DEF WorkerPop, WorkerAt
  <2>2. \A v : Contains(q, v) <=> v = n \/ Contains(Tail(q), v)
    BY <1>1, <2>1, Types, TailElements
  <2>3. \A v \in Node : /\ starts[v] \in Nat /\ starts'[v] \in Nat
                        /\ starts'[v] >= starts[v]
                        /\ v # n => starts'[v] = starts[v]
    <3>1. starts \in [Node -> Nat]
      BY <1>1, Types
    <3> HIDE DEF n
    <3> QED
      BY <2>1, <3>1
  <2>4. \A v \in Tasks : HandedOut(v)' => HandedOut(v)
    BY <1>3, <2>1, <2>2, <2>3 DEF HandedOut
  <2>5. starts[n] \in Nat /\ finishes[n] \in Nat /\ starts'[n] = starts[n] + 1
    BY <1>1, <2>1, Types
  <2>6. \A v \in Node : starts'[v] <= 1 => starts[v] <= 1
    BY <2>3
  <2>7. starts'[n] <= 1 => finishes[n] = 0
    BY <2>1, <2>5, RunsFinite DEF StartsAccounted
  <2> HIDE DEF n
  <2>8. kids[w] = {}
    BY <2>1 DEF KidsOfTask
  <2>9. ASSUME NEW v \in Tasks,
               \A u \in StaleParents(plan, v) : starts'[u] <= 1,
               NEW t \in Counted(v)
        PROVE  t \in Counted(v)'
    <3>1. t \in StaleParents(plan, v) /\ finishes[t] > 0
      BY DEF Counted
    <3>2. t # n
      BY <2>5, <2>7, <2>9, <3>1
    <3>3. \A x \in Worker : task'[x] = t => x # w /\ task[x] = t
      BY <1>2, <2>1, <3>2
    <3> QED
      BY <1>2, <2>1, <3>1, <3>3 DEF Counted
  <2> QED
    BY <1>1, <1>2, <1>3, <2>1, <2>4, <2>6, <2>9, CountsStay
<1>10. CASE RecipeSucceeds(w)
  <2> DEFINE n == task[w]
  <2>1. /\ n \in Node /\ finishes' = [finishes EXCEPT ![n] = @ + 1]
        /\ status' = [status EXCEPT ![n] = WHITE]
        /\ UNCHANGED <<waitBlack, q, task, kids, starts>>
        /\ wpc[w] = "run" /\ wpc'[w] = "remove"
    BY <1>1, <1>10, Types DEF RecipeSucceeds, WorkerAt, Working
  <2>2. HandedOut(n)
    BY <2>1 DEF StartsAccounted, Working, HandedOut
  <2>3. \A v \in Tasks : status'[v] # BLACK \/ HandedOut(v)'
                          => status[v] # BLACK \/ HandedOut(v)
    BY <1>1, <1>3, <2>1, <2>2, Types DEF HandedOut
  <2>4. finishes[n] > 0 => starts[n] > 1
    <3>1. w \in Runs(n)
      BY <2>1 DEF Runs
    <3>2. Cardinality(Runs(n)) > 0
      BY <3>1, RunsFinite, FS_EmptySet
    <3>3. starts[n] = finishes[n] + Cardinality(Runs(n)) /\ finishes[n] \in Nat
      BY <1>1, <2>1, Types DEF StartsAccounted
    <3> QED
      BY <3>2, <3>3, RunsFinite
  <2>5. starts[n] \in Nat
    BY <1>1, <2>1, Types
  <2>6. ASSUME NEW v \in Tasks,
               \A u \in StaleParents(plan, v) : starts'[u] <= 1,
               NEW t \in Counted(v)
        PROVE  t \in Counted(v)'
    <3>1. /\ t \in StaleParents(plan, v) /\ t \in Node /\ finishes[t] > 0
          /\ \A x \in Worker : task[x] = t => wpc[x] # "remove" /\ v \notin kids[x]
      BY <1>3 DEF Counted
    <3>2. starts[t] <= 1
      BY <2>1, <2>6, <3>1
    <3>3. t # n
      BY <2>4, <2>5, <3>1, <3>2
    <3>4. finishes'[t] = finishes[t]
      BY <1>1, <2>1, <3>1, <3>3, Types
    <3>5. \A x \in Worker : task[x] = t => x # w
      BY <3>3
    <3> QED
      BY <1>2, <2>1, <3>1, <3>4, <3>5 DEF Counted
  <2> QED
    BY <1>1, <1>2, <2>1, <2>3, <2>6, CountsStay
<1>11. CASE WorkerRemove(w)
  <2>1. /\ UNCHANGED <<waitBlack, q, task, starts, finishes, status>>
        /\ wpc[w] = "remove" /\ wpc'[w] = "children"
    BY <1>1, <1>11, Types DEF WorkerRemove, WorkerAt, history
  <2> QED
    BY <1>4, <2>1
\* A child is counted down by one, and called ready when that makes it zero.
<1>12. ASSUME NEW u \in kids[w], wpc[w] = "children",
              wpc'[w] \in {"children", "promote"},
              UNCHANGED <<q, task, starts, finishes>>,
              waitBlack' = [waitBlack EXCEPT ![u] = @ - 1],
              kids'[w] = kids[w] \ {u},
              \A v \in Node : status'[v] # status[v] => v = u /\ waitBlack[u] = 1
       PROVE  CountsDown'
  <2>1. u \in Node
    BY <1>1, Types
  <2>2. /\ waitBlack'[u] = waitBlack[u] - 1 /\ waitBlack[u] \in Int
        /\ \A v \in Node : v # u => waitBlack'[v] = waitBlack[v]
        /\ \A v \in Node : waitBlack'[v] <= waitBlack[v]
    BY <1>1, <1>12, <2>1, Types
  <2>3. ASSUME NEW v \in Tasks
        PROVE  (\A t \in StaleParents(plan', v) : starts'[t] <= 1)
                 => plan'.wait[v] - waitBlack'[v] <= Cardinality(Counted(v)')
    <3>1. (\A t \in StaleParents(plan, v) : starts[t] <= 1)
             => plan.wait[v] - waitBlack[v] <= Cardinality(Counted(v))
      BY DEF CountsDown
    <3>2. CASE v = u
      BY <1>2, <1>12, <2>2, <3>1, <3>2, CountedGrows
    <3>3. CASE v # u
      <4>1. Counted(v) \subseteq Counted(v)'
        BY <1>2, <1>12 DEF Counted
      <4> QED
        BY <1>1, <1>2, <1>3, <1>12, <2>2, <3>1, <3>3, <4>1, CountedStays
    <3> QED
      BY <3>2, <3>3
  <2>4. ASSUME NEW v \in Tasks, status'[v] # BLACK \/ HandedOut(v)'
        PROVE  waitBlack'[v] <= 0
    <3>1. CASE status[v] # BLACK \/ HandedOut(v)
      <4>1. waitBlack[v] <= 0 /\ v \in Node
        BY <1>3, <3>1 DEF CountsDown
      <4> QED
        BY <1>1, <1>12, <2>1, <2>2, <4>1, Types
    <3>2. CASE ~(status[v] # BLACK \/ HandedOut(v))
      <4>1. v = u /\ waitBlack[u] = 1
        BY <1>3, <1>12, <2>4, <3>2 DEF HandedOut
      <4> QED
        BY <2>2, <4>1
    <3> QED
      BY <3>1, <3>2
  <2>5. Tasks' = Tasks
    BY <1>2 DEF Tasks
  <2> QED
    BY <2>3, <2>4, <2>5 DEF CountsDown
<1>13. CASE ChildWaits(w)
  <2>1. PICK u \in kids[w] :
          /\ wpc[w] = "children" /\ wpc'[w] = "children"
          /\ waitBlack' = [waitBlack EXCEPT ![u] = @ - 1]
          /\ kids' = [kids EXCEPT ![w] = @ \ {u}]
          /\ UNCHANGED <<q, task, starts, finishes, status>>
    BY <1>1, <1>13, Types DEF ChildWaits, WorkerAt, history
  <2>2. kids'[w] = kids[w] \ {u}
    BY <1>1, <2>1, Types
  <2> QED
    BY <1>12, <2>1, <2>2
<1>14. CASE ChildReady(w)
  <2>1. PICK u \in kids[w] :
          /\ wpc[w] = "children" /\ wpc'[w] = "promote"
          /\ waitBlack[u] = 1 /\ waitBlack' = [waitBlack EXCEPT ![u] = 0]
          /\ status' = [status EXCEPT ![u] = GREY]
          /\ kids' = [kids EXCEPT ![w] = @ \ {u}]
          /\ UNCHANGED <<q, task, starts, finishes>>
    BY <1>1, <1>14, Types DEF ChildReady, WorkerAt, history
  <2>2. /\ kids'[w] = kids[w] \ {u}
        /\ waitBlack' = [waitBlack EXCEPT ![u] = @ - 1]
        /\ \A v \in Node : status'[v] # status[v] => v = u /\ waitBlack[u] = 1
    BY <1>1, <2>1, Types
  <2> QED
    BY <1>12, <2>1, <2>2
<1> QED
  BY <1>5, <1>6, <1>7, <1>8, <1>9, <1>10, <1>11, <1>13, <1>14 DEF WorkerStep

LEMMA CountsAlways == Spec => []CountsDown
<1>1. Init => CountsDown
  <2> SUFFICES ASSUME Init, NEW v \in Tasks
               PROVE  /\ plan.wait[v] - waitBlack[v] <= Cardinality(Counted(v))
                      /\ status[v] # BLACK \/ HandedOut(v) => waitBlack[v] <= 0
    BY DEF CountsDown
  <2>1. TypeInv
    BY BaseInit
  <2>2. v \in Node /\ plan.wait[v] \in Int /\ waitBlack[v] = plan.wait[v]
        /\ status[v] = plan.status[v]
    BY <2>1, WaitsIfBlack, Types DEF Init
  <2>3. Cardinality(Counted(v)) \in Nat
    <3>1. Counted(v) \in SUBSET StaleParents(plan, v)
      BY DEF Counted
    <3> QED
      BY <2>1, <3>1, CountedFinite
  <2>4. ~HandedOut(v)
    BY <2>2 DEF Init, HandedOut, Contains
  <2>5. status[v] # BLACK => ~(plan.wait[v] >= 1)
    BY <2>1, <2>2, WaitsIfBlack
  <2> QED
    BY <2>2, <2>3, <2>4, <2>5
<1>2. Known /\ StartsAccounted /\ KidsOfTask /\ CountsDown /\ [Next]_vars
        => CountsDown'
  <2> SUFFICES ASSUME Known, StartsAccounted, KidsOfTask, CountsDown, [Next]_vars
               PROVE  CountsDown'
    OBVIOUS
  <2>1. CASE MasterStep
    BY <2>1, CountsMaster
  <2>2. ASSUME NEW w \in Worker, WorkerStep(w) PROVE CountsDown'
    BY <2>2, CountsWorker
  <2>3. CASE UNCHANGED vars
    BY <2>3 DEF vars, masterVars, workerVars, history, CountsDown, Tasks,
                Counted, HandedOut
  <2> QED
    BY <2>1, <2>2, <2>3 DEF Next, Terminated
<1> QED
  BY <1>1, <1>2, KnownAlways, StartsAlways, KidsAlways, PTL DEF Spec

\* What CountsDown says of a target that was handed out.
LEMMA HandedOutInOrder == TypeInv /\ CountsDown => OrderUnlessRunTwice
<1> SUFFICES ASSUME TypeInv, CountsDown, NEW v \in Tasks, HandedOut(v),
                    ~(\E u \in StaleParents(plan, v) : starts[u] > 1)
             PROVE  \A u \in StaleParents(plan, v) : finishes[u] > 0
  BY DEF OrderUnlessRunTwice
<1>1. \A u \in StaleParents(plan, v) : starts[u] <= 1
  <2>1. \A u \in StaleParents(plan, v) : u \in Node
    BY DEF StaleParents, Parents
  <2>2. starts \in [Node -> Nat]
    BY Types
  <2> QED
    BY <2>1, <2>2
<1>2. waitBlack[v] <= 0 /\ plan.wait[v] - waitBlack[v] <= Cardinality(Counted(v))
  BY <1>1 DEF CountsDown
<1>3. Counted(v) \in SUBSET StaleParents(plan, v)
  BY DEF Counted
<1>4. /\ Cardinality(Counted(v)) \in Nat
      /\ Cardinality(Counted(v)) <= plan.wait[v]
      /\ Cardinality(Counted(v)) = plan.wait[v] => Counted(v) = StaleParents(plan, v)
  BY <1>3, CountedFinite
<1>5. plan.wait[v] \in Int /\ waitBlack[v] \in Int
  BY WaitsIfBlack, Types
<1>6. Counted(v) = StaleParents(plan, v)
  BY <1>2, <1>4, <1>5
<1> QED
  BY <1>6 DEF Counted

\* For every graph and number of workers: a target is not handed out before
\* all its outdated parents are rebuilt, unless one of them ran twice.
THEOREM OrderSafety == Spec => []OrderUnlessRunTwice
BY HandedOutInOrder, Base, CountsAlways, PTL

-----------------------------------------------------------------------------
(* The contract.                                                           *)

Guarantees ==
    /\ Known
    /\ StartsAccounted
    /\ HandOutsBounded
    /\ NothingIsLost
    /\ OrderUnlessRunTwice

LEMMA GuaranteesAlways == Spec => []Guarantees
BY KnownAlways, StartsAlways, HandOutsAlways, LostAlways, OrderSafety, PTL
DEF Guarantees

\* The contract speaks of the plan in the scheduler's words.
LEMMA SameWords ==
    /\ Contract!Tasks = Tasks
    /\ Contract!BLACK = BLACK
    /\ \A v : Contract!StaleParents(plan, v) = StaleParents(plan, v)
BY DEF Contract!Tasks, Tasks, Contract!BLACK, BLACK, Contract!StaleParents,
       StaleParents, Contract!Parents, Parents, Contract!ToSet, ToSet

\* Taking a target from the queue starts it, and the contract allows it.
LEMMA PopBegins ==
    ASSUME Guarantees, NEW w \in Worker, WorkerPop(w)
    PROVE  Contract!Begin(Head(q))
<1> DEFINE n == Head(q)
<1>1. TypeInv /\ Control /\ OnlyTouchable
  BY DEF Guarantees, Known
<1>2. /\ q # <<>> /\ n \in Node /\ q' = Tail(q) /\ ~aborted
      /\ starts' = [starts EXCEPT ![n] = @ + 1]
      /\ UNCHANGED <<plan, finishes, aborted, mpc>> /\ wpc[w] = "get"
  BY <1>1, Types DEF WorkerPop, WorkerAt
<1>3. mpc # "returned"
  BY <1>2 DEF Guarantees, StartsAccounted
<1>4. Contains(q, n)
  BY <1>1, <1>2, Types, TailElements
<1>5. HandedOut(n)
  BY <1>4 DEF HandedOut
<1>6. n \in Tasks \/ n \notin plan.asked
  BY <1>1, <1>4, Types, InList DEF OnlyTouchable, Touchable
<1>7. starts[n] < IF plan.status[n] = BLACK THEN 2 ELSE 1
  <2>1. InQueue(n) >= 1
    <3>1. Occurrences(q, n) = Occurrences(Tail(q), n) + 1
      BY <1>1, <1>2, Types, OccurrencesHead
    <3>2. Occurrences(Tail(q), n) \in Nat
      <4>1. Tail(q) \in Seq(Node)
        BY <1>1, <1>2, Types
      <4> HIDE DEF n
      <4> QED
        BY <4>1, OccurrencesType
    <3>3. InQueue(n) = Occurrences(q, n)
      BY DEF InQueue, Occurrences
    <3> QED
      BY <3>1, <3>2, <3>3
  <2>2. starts[n] + InQueue(n) + OnList(n) + ToPromote(n)
          <= IF plan.status[n] = BLACK THEN 2 ELSE 1
    BY <1>2 DEF Guarantees, HandOutsBounded
  <2> HIDE DEF n
  <2> QED
    BY <1>1, <1>2, <2>1, <2>2, HandOutTypes
<1>8. n \in Tasks =>
        \/ \A u \in StaleParents(plan, n) : finishes[u] > 0
        \/ \E u \in StaleParents(plan, n) : starts[u] > 1
  BY <1>5 DEF Guarantees, OrderUnlessRunTwice
<1> HIDE DEF n
<1>9. /\ n \in Contract!Tasks \/ n \notin plan.asked
      /\ starts[n] < IF plan.status[n] = Contract!BLACK THEN 2 ELSE 1
      /\ n \in Contract!Tasks =>
           \/ \A u \in Contract!StaleParents(plan, n) : finishes[u] > 0
           \/ \E u \in Contract!StaleParents(plan, n) : starts[u] > 1
  BY <1>6, <1>7, <1>8, SameWords
<1>10. Contract!Begin(n)
  BY <1>2, <1>3, <1>9 DEF Contract!Begin
<1> QED
  BY <1>10 DEF n

\* A recipe that comes back ends a run of its target.
LEMMA SuccessEnds ==
    ASSUME Guarantees, NEW w \in Worker, RecipeSucceeds(w)
    PROVE  task[w] \in Node /\ Contract!End(task[w])
<1> DEFINE n == task[w]
<1>1. TypeInv
  BY DEF Guarantees, Known
<1>2. /\ n \in Node /\ ~aborted /\ wpc[w] = "run"
      /\ finishes' = [finishes EXCEPT ![n] = @ + 1]
      /\ UNCHANGED <<plan, starts, aborted, mpc>>
  BY <1>1, Types DEF RecipeSucceeds, WorkerAt, Working
<1>3. mpc # "returned"
  BY <1>2 DEF Guarantees, StartsAccounted
<1>4. Contract!Running(n)
  <2>1. w \in Runs(n)
    BY <1>2 DEF Runs
  <2>2. Cardinality(Runs(n)) > 0
    BY <2>1, RunsFinite, FS_EmptySet
  <2>3. starts[n] = finishes[n] + Cardinality(Runs(n)) /\ finishes[n] \in Nat
    BY <1>1, <1>2, Types DEF Guarantees, StartsAccounted
  <2> QED
    BY <2>2, <2>3, RunsFinite DEF Contract!Running
<1> HIDE DEF n
<1>5. Contract!End(n)
  BY <1>2, <1>3, <1>4 DEF Contract!End
<1> QED
  BY <1>2, <1>5 DEF n

\* A recipe that fails ends the call.
LEMMA FailureAborts ==
    ASSUME Guarantees, NEW w \in Worker, RecipeFails(w)
    PROVE  Contract!Abort
<1> DEFINE n == task[w]
<1>1. TypeInv
  BY DEF Guarantees, Known
<1>2. /\ n \in Node /\ n \in plan.recipe /\ ~aborted /\ aborted' = TRUE
      /\ wpc[w] = "run" /\ UNCHANGED <<plan, starts, finishes>>
  BY <1>1, Types DEF RecipeFails, Working, history
<1>3. mpc # "returned"
  BY <1>2 DEF Guarantees, StartsAccounted
<1>4. Contract!Running(n)
  <2>1. w \in Runs(n)
    BY <1>2 DEF Runs
  <2>2. Cardinality(Runs(n)) > 0
    BY <2>1, RunsFinite, FS_EmptySet
  <2>3. starts[n] = finishes[n] + Cardinality(Runs(n)) /\ finishes[n] \in Nat
    BY <1>1, <1>2, Types DEF Guarantees, StartsAccounted
  <2> QED
    BY <2>2, <2>3, RunsFinite DEF Contract!Running
<1> HIDE DEF n
<1> QED
  BY <1>2, <1>3, <1>4 DEF Contract!Abort

\* When the master returns the contract lets it.
LEMMA ReturnReturns ==
    ASSUME Guarantees, MasterReturn
    PROVE  Contract!Return
<1>1. TypeInv /\ Control
  BY DEF Guarantees, Known
<1>2. /\ ~aborted /\ mpc = "join" /\ mpc' = "returned"
      /\ UNCHANGED <<plan, starts, finishes, aborted>>
      /\ \A w \in Worker : wpc[w] = "exited"
  BY DEF MasterReturn, MasterAt, history
<1>3. q = <<>>
  BY <1>1, <1>2, WorkerAssumption DEF Control
<1>4. \A v \in Node : ~Contract!Running(v)
  <2> SUFFICES ASSUME NEW v \in Node PROVE ~(finishes[v] < starts[v])
    BY DEF Contract!Running
  <2>1. Runs(v) = {}
    BY <1>2 DEF Runs
  <2>2. Cardinality(Runs(v)) = 0
    BY <2>1, FS_EmptySet
  <2>3. starts[v] = finishes[v] + Cardinality(Runs(v)) /\ finishes[v] \in Nat
    BY <1>1, Types DEF Guarantees, StartsAccounted
  <2> QED
    BY <2>2, <2>3
<1>5. \A v \in Tasks : starts[v] = 0 => ~HandedOut(v)
  BY <1>3 DEF HandedOut, Contains
<1>6. /\ \A v, u \in Tasks : starts[v] = 0 /\ starts[u] = 0 => u = v
      /\ \A v \in Tasks : starts[v] = 0 => plan.status[v] = BLACK
  BY <1>2, <1>5 DEF Guarantees, NothingIsLost
<1>7. /\ \A v, u \in Contract!Tasks : starts[v] = 0 /\ starts[u] = 0 => u = v
      /\ \A v \in Contract!Tasks : starts[v] = 0 => plan.status[v] = Contract!BLACK
  BY <1>6, SameWords
<1> QED
  BY <1>2, <1>4, <1>7 DEF Contract!Return

\* Every step of the threads is a step of the contract, or none.
LEMMA ContractStep ==
    ASSUME Guarantees, [Next]_vars
    PROVE  [Contract!Next]_(Contract!vars)
<1>1. TypeInv
  BY DEF Guarantees, Known
<1>2. ASSUME NEW w \in Worker, WorkerPop(w) PROVE Contract!Next
  <2>1. Head(q) \in Node
    BY <1>1, <1>2, Types DEF WorkerPop
  <2> QED
    BY <1>2, <2>1, PopBegins DEF Contract!Next
<1>3. ASSUME NEW w \in Worker, RecipeSucceeds(w) PROVE Contract!Next
  BY <1>3, SuccessEnds DEF Contract!Next
<1>4. ASSUME NEW w \in Worker, RecipeFails(w) PROVE Contract!Next
  BY <1>4, FailureAborts DEF Contract!Next
<1>5. CASE MasterReturn
  BY <1>5, ReturnReturns DEF Contract!Next
\* The call goes on, or it is over and stays so.
<1>6. ASSUME UNCHANGED <<plan, starts, finishes, aborted>>,
             mpc' = "returned" <=> mpc = "returned"
      PROVE  UNCHANGED Contract!vars
  BY <1>6 DEF Contract!vars
<1>7. CASE MasterStep /\ ~MasterReturn
  <2>1. mpc # "returned" /\ mpc' # "returned"
    BY <1>7 DEF MasterStep, MasterAt, MasterCheck, MasterLock, MasterQueue,
                MasterNotify, MasterUnlock, MasterFinish, MasterDrain,
                MasterDrained
  <2> QED
    BY <1>1, <1>6, <1>7, <2>1, MasterFrame
<1>8. ASSUME NEW w \in Worker, WorkerStep(w), ~WorkerPop(w),
             ~RecipeSucceeds(w), ~RecipeFails(w)
      PROVE  UNCHANGED Contract!vars
  <2>1. UNCHANGED <<plan, starts, finishes, aborted, mpc>>
    BY <1>8
    DEF WorkerStep, WorkerCheck, WorkerQuit, WorkerSleep, SpuriousWake,
        WorkerRemove, ChildWaits, ChildReady, PromoteRemove, PromoteFront,
        WorkerLoop, history
  <2> QED
    BY <1>6, <2>1
<1>9. CASE UNCHANGED vars
  BY <1>6, <1>9 DEF vars, masterVars, history
<1> QED
  BY <1>2, <1>3, <1>4, <1>5, <1>7, <1>8, <1>9 DEF Next, Terminated

\* The threads together implement BuildContract, for every graph, every plan
\* the preprocessing may leave and every number of workers: a start is allowed
\* by the order and the number of runs it promises, nothing is started or
\* running once schedule() returned, and at most one target, which had to wait,
\* was left out.
THEOREM ContractRefinement == Spec => ImplementsContract
<1>1. Init => Contract!Init
  BY DEF Init, Contract!Init
<1>2. Guarantees /\ [Next]_vars => [Contract!Next]_(Contract!vars)
  BY ContractStep
<1> QED
  BY <1>1, <1>2, GuaranteesAlways, PTL DEF Spec, ImplementsContract, Contract!Spec
=============================================================================
