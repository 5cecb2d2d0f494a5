----------------------------- MODULE DagSchedule -----------------------------
(***************************************************************************)
(* The scheduling stage of dag::schedule() (make2/dag/dag.cpp): the master *)
(* thread moves ready targets from _task_list to the queue q, the workers  *)
(* run them and promote the children that became ready to the front of     *)
(* _task_list.  The master polls _task_list without its lock, flag_finish  *)
(* is written without q_mtx, and a worker marks a child GREY before it     *)
(* takes the list lock to move it: these windows are steps of their own    *)
(* here.  A region that holds one lock from its first shared access to its *)
(* last, with nothing read outside of it, is one step: the q_mtx regions,  *)
(* the u->_mtx region and the removal of a finished target.                *)
(***************************************************************************)
EXTENDS DagBasics

CONSTANTS
    Worker,   \* the n worker threads
    Master,   \* the thread that called schedule()
    None,     \* no node, no thread
    Start     \* the plans schedule() may have preprocessed

ASSUME StartAssumption  == \A p \in Start : PreprocessResult(p)
ASSUME NameAssumption   == Master \notin Worker /\ None \notin Node \cup Worker \cup {Master}
ASSUME WorkerAssumption == IsFiniteSet(Worker) /\ Worker # {}

VARIABLES
    plan,        \* the plan this call of schedule() works on; never changes
    taskList,    \* _task_list
    status,      \* _status of every node
    waitBlack,   \* _wait_black of every node
    q,           \* the queue of targets ready to run
    flagFinish,  \* flag_finish
    listOwner,   \* who holds _task_list_mtx
    mpc,         \* where the master is
    wpc,         \* where each worker is
    task,        \* p in each worker
    kids,        \* the children of p each worker has not looked at yet
    kid,         \* u in each worker, while it moves u to the front
    starts,      \* how often each node's recipe was started (history)
    finishes,    \* how often it succeeded (history)
    aborted      \* a recipe failed and exit(1) ended the process

masterVars == <<mpc>>
workerVars == <<wpc, task, kids, kid>>
history    == <<starts, finishes>>
vars == <<plan, taskList, status, waitBlack, q, flagFinish, listOwner,
          masterVars, workerVars, history, aborted>>

MasterPC == {"check", "lock", "scan", "notify", "finish", "drain", "join",
             "returned"}
WorkerPC == {"check", "get", "asleep", "run", "remove", "children", "promote",
             "front", "exited"}

TypeOK ==
    /\ plan \in PlanType
    /\ taskList \in Seq(Node)
    /\ status \in [Node -> Colour]
    /\ waitBlack \in [Node -> Int]
    /\ q \in Seq(Node)
    /\ flagFinish \in BOOLEAN
    /\ listOwner \in Worker \cup {Master, None}
    /\ mpc \in MasterPC
    /\ wpc \in [Worker -> WorkerPC]
    /\ task \in [Worker -> Node \cup {None}]
    /\ kids \in [Worker -> SUBSET Node]
    /\ kid \in [Worker -> Node \cup {None}]
    /\ starts \in [Node -> Nat]
    /\ finishes \in [Node -> Nat]
    /\ aborted \in BOOLEAN

Init ==
    /\ plan \in Start
    /\ taskList = plan.tasks
    /\ status = plan.status
    /\ waitBlack = plan.wait
    /\ q = <<>>
    /\ flagFinish = FALSE
    /\ listOwner = None
    /\ mpc = "check"
    /\ wpc = [w \in Worker |-> "check"]
    /\ task = [w \in Worker |-> None]
    /\ kids = [w \in Worker |-> {}]
    /\ kid = [w \in Worker |-> None]
    /\ starts = [v \in Node |-> 0]
    /\ finishes = [v \in Node |-> 0]
    /\ aborted = FALSE

Asleep == {w \in Worker : wpc[w] = "asleep"}

-----------------------------------------------------------------------------
(* The master.                                                             *)

MasterAt(from, to) ==
    /\ ~aborted
    /\ mpc = from
    /\ mpc' = to

\* Mutant: the master leaves as soon as nothing on the list is ready.
MasterCheckHeadOnly ==
    /\ MasterAt("check", IF taskList = <<>> \/ status[Head(taskList)] = BLACK
                         THEN "finish" ELSE "lock")
    /\ UNCHANGED <<plan, taskList, status, waitBlack, q, flagFinish,
                   listOwner, workerVars, history, aborted>>

\* The loop condition reads _task_list without _task_list_mtx.
MasterCheck ==
    /\ MasterAt("check", IF taskList = <<>> THEN "finish" ELSE "lock")
    /\ UNCHANGED <<plan, taskList, status, waitBlack, q, flagFinish,
                   listOwner, workerVars, history, aborted>>

MasterLock ==
    /\ MasterAt("lock", "scan")
    /\ listOwner = None
    /\ listOwner' = Master
    /\ UNCHANGED <<plan, taskList, status, waitBlack, q, flagFinish,
                   workerVars, history, aborted>>

ScanGoesOn == taskList # <<>> /\ status[Head(taskList)] # BLACK

MasterQueue ==
    /\ MasterAt("scan", "notify")
    /\ ScanGoesOn
    /\ q' = Append(q, Head(taskList))
    /\ UNCHANGED <<plan, taskList, status, waitBlack, flagFinish, listOwner,
                   workerVars, history, aborted>>

\* Mutant: nobody is notified.
WakeNobody == UNCHANGED wpc

WakeOne ==
    IF Asleep = {}
    THEN UNCHANGED wpc
    ELSE \E w \in Asleep : wpc' = [wpc EXCEPT ![w] = "get"]

\* Mutant: the queued node stays on the list.
MasterNotifyKeepsNode ==
    /\ MasterAt("notify", "scan")
    /\ WakeOne
    /\ UNCHANGED <<plan, taskList, status, waitBlack, q, flagFinish, listOwner,
                   task, kids, kid, history, aborted>>

\* q_cond.notify_one() after q_mtx was released, and the erase of the queued
\* node, which only the holder of the list lock can see.
MasterNotify ==
    /\ MasterAt("notify", "scan")
    /\ WakeOne
    /\ taskList' = Tail(taskList)
    /\ UNCHANGED <<plan, status, waitBlack, q, flagFinish, listOwner, task,
                   kids, kid, history, aborted>>

MasterUnlock ==
    /\ MasterAt("scan", "check")
    /\ ~ScanGoesOn
    /\ listOwner' = None
    /\ UNCHANGED <<plan, taskList, status, waitBlack, q, flagFinish,
                   workerVars, history, aborted>>

\* flag_finish is set without q_mtx.
MasterFinish ==
    /\ MasterAt("finish", "drain")
    /\ flagFinish' = TRUE
    /\ UNCHANGED <<plan, taskList, status, waitBlack, q, listOwner,
                   workerVars, history, aborted>>

\* while (!q.empty()) q_cond.notify_all(): nobody is notified once q is empty.
MasterDrain ==
    /\ MasterAt("drain", "drain")
    /\ q # <<>>
    /\ wpc' = [w \in Worker |-> IF w \in Asleep THEN "get" ELSE wpc[w]]
    /\ UNCHANGED <<plan, taskList, status, waitBlack, q, flagFinish,
                   listOwner, task, kids, kid, history, aborted>>

MasterDrained ==
    /\ MasterAt("drain", "join")
    /\ q = <<>>
    /\ UNCHANGED <<plan, taskList, status, waitBlack, q, flagFinish,
                   listOwner, workerVars, history, aborted>>

\* Mutant: one worker is joined, not all.
MasterReturnJoinsOne ==
    /\ MasterAt("join", "returned")
    /\ \E w \in Worker : wpc[w] = "exited"
    /\ UNCHANGED <<plan, taskList, status, waitBlack, q, flagFinish,
                   listOwner, workerVars, history, aborted>>

MasterReturn ==
    /\ MasterAt("join", "returned")
    /\ \A w \in Worker : wpc[w] = "exited"
    /\ UNCHANGED <<plan, taskList, status, waitBlack, q, flagFinish,
                   listOwner, workerVars, history, aborted>>

MasterStep ==
    \/ MasterCheck \/ MasterLock \/ MasterQueue \/ MasterNotify
    \/ MasterUnlock \/ MasterFinish \/ MasterDrain \/ MasterDrained
    \/ MasterReturn

-----------------------------------------------------------------------------
(* A worker.                                                               *)

WorkerAt(w, from, to) ==
    /\ ~aborted
    /\ wpc[w] = from
    /\ wpc' = [wpc EXCEPT ![w] = to]

\* Mutant: a worker leaves once the flag is up, whatever is in q.
WorkerCheckFlagOnly(w) ==
    /\ WorkerAt(w, "check", IF flagFinish THEN "exited" ELSE "get")
    /\ UNCHANGED <<plan, taskList, status, waitBlack, q, flagFinish,
                   listOwner, mpc, task, kids, kid, history, aborted>>

WorkerCheck(w) ==
    /\ WorkerAt(w, "check", IF flagFinish /\ q = <<>> THEN "exited" ELSE "get")
    /\ UNCHANGED <<plan, taskList, status, waitBlack, q, flagFinish,
                   listOwner, mpc, task, kids, kid, history, aborted>>

WorkerPop(w) ==
    /\ WorkerAt(w, "get", "run")
    /\ q # <<>>
    /\ q' = Tail(q)
    /\ task' = [task EXCEPT ![w] = Head(q)]
    /\ starts' = [starts EXCEPT ![Head(q)] = @ + 1]
    /\ UNCHANGED <<plan, taskList, status, waitBlack, flagFinish, listOwner,
                   mpc, kids, kid, finishes, aborted>>

\* Mutant: the flag is tested before q is.
WorkerQuitEarly(w) ==
    /\ WorkerAt(w, "get", "exited")
    /\ flagFinish
    /\ UNCHANGED <<plan, taskList, status, waitBlack, q, flagFinish,
                   listOwner, mpc, task, kids, kid, history, aborted>>

WorkerQuit(w) ==
    /\ WorkerAt(w, "get", "exited")
    /\ q = <<>> /\ flagFinish
    /\ UNCHANGED <<plan, taskList, status, waitBlack, q, flagFinish,
                   listOwner, mpc, task, kids, kid, history, aborted>>

WorkerSleep(w) ==
    /\ WorkerAt(w, "get", "asleep")
    /\ q = <<>> /\ ~flagFinish
    /\ UNCHANGED <<plan, taskList, status, waitBlack, q, flagFinish,
                   listOwner, mpc, task, kids, kid, history, aborted>>

\* A condition variable may wake a sleeper that nobody notified.
SpuriousWake(w) ==
    /\ WorkerAt(w, "asleep", "get")
    /\ UNCHANGED <<plan, taskList, status, waitBlack, q, flagFinish,
                   listOwner, mpc, task, kids, kid, history, aborted>>

\* system() returns 0, or there is no recipe to run.
RecipeSucceeds(w) ==
    /\ WorkerAt(w, "run", "remove")
    /\ finishes' = [finishes EXCEPT ![task[w]] = @ + 1]
    /\ status' = [status EXCEPT ![task[w]] = WHITE]
    /\ UNCHANGED <<plan, taskList, waitBlack, q, flagFinish, listOwner, mpc,
                   task, kids, kid, starts, aborted>>

\* Mutant: the exit status of the recipe is ignored.
RecipeFailsUnnoticed(w) ==
    /\ WorkerAt(w, "run", "remove")
    /\ task[w] \in plan.recipe
    /\ UNCHANGED <<plan, taskList, status, waitBlack, q, flagFinish,
                   listOwner, mpc, task, kids, kid, history, aborted>>

\* A recipe that fails ends the whole process, whatever the others are at.
RecipeFails(w) ==
    /\ ~aborted
    /\ wpc[w] = "run"
    /\ task[w] \in plan.recipe
    /\ aborted' = TRUE
    /\ UNCHANGED <<plan, taskList, status, waitBlack, q, flagFinish,
                   listOwner, mpc, workerVars, history>>

\* Mutant: _in_list is walked instead of _out_list.
WorkerRemoveThenParents(w) ==
    /\ WorkerAt(w, "remove", "children")
    /\ listOwner = None
    /\ taskList' = Without(taskList, task[w])
    /\ kids' = [kids EXCEPT ![w] = Parents(plan.edges, task[w])]
    /\ UNCHANGED <<plan, status, waitBlack, q, flagFinish, listOwner, mpc,
                   task, kid, history, aborted>>

WorkerRemove(w) ==
    /\ WorkerAt(w, "remove", "children")
    /\ listOwner = None
    /\ taskList' = Without(taskList, task[w])
    /\ kids' = [kids EXCEPT ![w] = Children(plan.edges, task[w])]
    /\ UNCHANGED <<plan, status, waitBlack, q, flagFinish, listOwner, mpc,
                   task, kid, history, aborted>>

\* A child that is still waiting for somebody else.
ChildWaits(w) ==
    \E u \in kids[w] :
        /\ waitBlack[u] # 1
        /\ WorkerAt(w, "children", "children")
        /\ waitBlack' = [waitBlack EXCEPT ![u] = @ - 1]
        /\ kids' = [kids EXCEPT ![w] = @ \ {u}]
        /\ UNCHANGED <<plan, taskList, status, q, flagFinish, listOwner, mpc,
                       task, kid, history, aborted>>

\* Mutant: the first parent that finishes promotes the child.
ChildReadyAtOnce(w) ==
    \E u \in kids[w] :
        /\ waitBlack[u] > 0
        /\ WorkerAt(w, "children", "promote")
        /\ waitBlack' = [waitBlack EXCEPT ![u] = 0]
        /\ status' = [status EXCEPT ![u] = GREY]
        /\ kids' = [kids EXCEPT ![w] = @ \ {u}]
        /\ kid' = [kid EXCEPT ![w] = u]
        /\ UNCHANGED <<plan, taskList, q, flagFinish, listOwner, mpc, task,
                       history, aborted>>

\* A child that waited for this target last.  From here to PromoteRemove it is
\* GREY and still where it was in _task_list.
ChildReady(w) ==
    \E u \in kids[w] :
        /\ waitBlack[u] = 1
        /\ WorkerAt(w, "children", "promote")
        /\ waitBlack' = [waitBlack EXCEPT ![u] = 0]
        /\ status' = [status EXCEPT ![u] = GREY]
        /\ kids' = [kids EXCEPT ![w] = @ \ {u}]
        /\ kid' = [kid EXCEPT ![w] = u]
        /\ UNCHANGED <<plan, taskList, q, flagFinish, listOwner, mpc, task,
                       history, aborted>>

\* Mutant: the child is not taken off the list before it is pushed.
PromoteRemoveNothing(w) ==
    /\ WorkerAt(w, "promote", "front")
    /\ listOwner = None
    /\ listOwner' = w
    /\ UNCHANGED <<plan, taskList, status, waitBlack, q, flagFinish, mpc, task,
                   kids, kid, history, aborted>>

\* Mutant: the list lock is not waited for.
PromoteRemoveUnlocked(w) ==
    /\ WorkerAt(w, "promote", "front")
    /\ listOwner' = w
    /\ taskList' = Without(taskList, kid[w])
    /\ UNCHANGED <<plan, status, waitBlack, q, flagFinish, mpc, task, kids,
                   kid, history, aborted>>

\* Mutant: what is pushed is read back from the node that was just removed.
PromoteRemoveLosesKid(w) ==
    /\ WorkerAt(w, "promote", "front")
    /\ listOwner = None
    /\ listOwner' = w
    /\ taskList' = Without(taskList, kid[w])
    /\ kid' = [kid EXCEPT ![w] = None]
    /\ UNCHANGED <<plan, status, waitBlack, q, flagFinish, mpc, task, kids,
                   history, aborted>>

\* The list lock is held, but the master's loop condition does not take it:
\* it sees the list without the child.
PromoteRemove(w) ==
    /\ WorkerAt(w, "promote", "front")
    /\ listOwner = None
    /\ listOwner' = w
    /\ taskList' = Without(taskList, kid[w])
    /\ UNCHANGED <<plan, status, waitBlack, q, flagFinish, mpc, task, kids,
                   kid, history, aborted>>

PromoteFront(w) ==
    /\ WorkerAt(w, "front", "children")
    /\ taskList' = <<kid[w]>> \o taskList
    /\ kid' = [kid EXCEPT ![w] = None]
    /\ listOwner' = None
    /\ UNCHANGED <<plan, status, waitBlack, q, flagFinish, mpc, task, kids,
                   history, aborted>>

WorkerLoop(w) ==
    /\ WorkerAt(w, "children", "check")
    /\ kids[w] = {}
    /\ task' = [task EXCEPT ![w] = None]
    /\ UNCHANGED <<plan, taskList, status, waitBlack, q, flagFinish,
                   listOwner, mpc, kids, kid, history, aborted>>

WorkerStep(w) ==
    \/ WorkerCheck(w) \/ WorkerPop(w) \/ WorkerQuit(w) \/ WorkerSleep(w)
    \/ SpuriousWake(w) \/ RecipeSucceeds(w) \/ RecipeFails(w)
    \/ WorkerRemove(w) \/ ChildWaits(w) \/ ChildReady(w) \/ PromoteRemove(w)
    \/ PromoteFront(w) \/ WorkerLoop(w)

-----------------------------------------------------------------------------
\* schedule() returned or the process is gone.
Over == mpc = "returned" \/ aborted

Terminated == Over /\ UNCHANGED vars

Next == MasterStep \/ (\E w \in Worker : WorkerStep(w)) \/ Terminated

Spec == Init /\ [][Next]_vars

\* Every thread that can run does, a recipe ends, and a thread that keeps
\* asking for the list lock gets it.  Nothing is assumed of spurious wakeups.
Unprompted(w) ==
    \/ WorkerCheck(w) \/ WorkerPop(w) \/ WorkerQuit(w) \/ WorkerSleep(w)
    \/ RecipeSucceeds(w) \/ RecipeFails(w) \/ ChildWaits(w) \/ ChildReady(w)
    \/ PromoteFront(w) \/ WorkerLoop(w)

Fairness ==
    /\ WF_vars(MasterStep)
    /\ SF_vars(MasterLock)
    /\ \A w \in Worker :
         /\ WF_vars(Unprompted(w))
         /\ SF_vars(WorkerRemove(w) \/ PromoteRemove(w))

FairSpec == Spec /\ Fairness
-----------------------------------------------------------------------------
(* Correctness.                                                            *)

Tasks == ToSet(plan.tasks)

\* A node that was given to the workers at least once.
HandedOut(v) == starts[v] > 0 \/ Contains(q, v)

\* _task_list never holds a node twice, so that list::remove() takes away
\* exactly the node it is meant to and `Without` models it.
ListHasNoDuplicates == NoDuplicates(taskList)

\* What the master erases from the head of _task_list has been handed out.  It
\* pushes the head onto q and erases it in two steps: whoever put a node in front
\* without the list lock would break this.
ErasesWhatItQueued ==
    mpc = "notify" => taskList # <<>> /\ HandedOut(Head(taskList))

\* A signal is never lost while it matters: when a target waits in q and the
\* master is not about to signal, some worker is up and will come for it.
NoLostWakeup ==
    q # <<>> /\ mpc # "notify" => \E w \in Worker : wpc[w] \notin {"asleep", "exited"}

\* The unlocked window between marking a child GREY and moving it lets a
\* target run a second time, but never a third, and a target that was ready
\* from the start runs once.
AtMostTwice ==
    \A v \in Node : starts[v] <= IF plan.status[v] = BLACK THEN 2 ELSE 1

\* A target is started before one of its outdated parents is rebuilt only if
\* a parent of it was run twice (its second run counts the target down again).
OrderUnlessRunTwice ==
    \A v \in Tasks :
        HandedOut(v) =>
            \/ \A u \in StaleParents(plan, v) : finishes[u] > 0
            \/ \E u \in StaleParents(plan, v) : starts[u] > 1

\* What is up to date in the request is left alone, even while workers count
\* down nodes nobody asked for.
UpToDateNeverRun == \A v \in plan.asked \ Tasks : ~HandedOut(v)

\* The unlocked poll of an emptied list makes the master give up early, but
\* then it misses at most one target of the plan.
LeavesAtMostOne ==
    mpc \in {"finish", "drain", "join", "returned"} =>
        Cardinality({v \in Tasks : ~HandedOut(v)}) <= 1

\* schedule() does not return while a target waits or a recipe runs.
ReturnsQuiet ==
    mpc = "returned" =>
        q = <<>> /\ \A v \in Node : finishes[v] = starts[v]

\* What dag.h promises of schedule(): every target of the request is built.
AllBuilt == mpc = "returned" => \A v \in Tasks : finishes[v] > 0

\* What the colours promise: a target is handed out when nothing it is made
\* from is outdated any more.
DependencyOrder ==
    \A v \in Tasks : HandedOut(v) =>
        \A u \in StaleParents(plan, v) : finishes[u] > 0

\* schedule() comes back, or a recipe failed.
Termination == <>Over

\* A target in q is run to its end, whoever signalled whom, unless a recipe
\* fails.
QueuedIsBuilt ==
    \A v \in Node : Contains(q, v) ~> (finishes[v] > 0 \/ aborted)

\* A target that was ready from the start is built, unless a recipe fails.
ReadyIsBuilt ==
    \A v \in Node :
        (v \in Tasks /\ plan.status[v] = GREY) ~> (finishes[v] > 0 \/ aborted)

\* The one way not to return is to wait in join() for workers that sleep on
\* q_cond and that nobody will signal.
HangsOnlyInJoin ==
    <>(Over \/ (mpc = "join" /\ \A w \in Worker : wpc[w] \in {"asleep", "exited"}))
\* The threads together implement the contract of the call: who runs when, how
\* often, and what is done when schedule() returns.
Contract == INSTANCE BuildContract WITH
    outcome <- IF aborted THEN "aborted"
               ELSE IF mpc = "returned" THEN "returned" ELSE "building"
ImplementsContract == Contract!Spec
-----------------------------------------------------------------------------
(* What makes the properties above inductive.                              *)

Working == {"run", "remove", "children", "promote", "front"}

\* A worker that has a target, or moves a child, has one.
LocalsSet ==
    \A w \in Worker :
        /\ wpc[w] \in Working => task[w] \in Node
        /\ wpc[w] \in {"promote", "front"} => kid[w] \in Node

\* Who holds the list lock, when the flag is up, and what the first worker to
\* leave proves about the queue.  The master erases from a list that is not
\* empty.
Control ==
    /\ \A w \in Worker : listOwner = w <=> wpc[w] = "front"
    /\ listOwner = Master <=> mpc \in {"scan", "notify"}
    /\ flagFinish <=> mpc \in {"drain", "join", "returned"}
    /\ \A w \in Worker : wpc[w] = "exited" => flagFinish /\ q = <<>>
    /\ mpc = "notify" => taskList # <<>>

\* The owner of the lock has taken its child off the list.
KidIsOffTheList ==
    \A w \in Worker : wpc[w] = "front" => ~Contains(taskList, kid[w])

\* The nodes schedule() may touch: the outdated ones of the request, and what
\* nobody asked for.
Touchable == Node \ (plan.asked \ Tasks)

OnlyTouchable ==
    /\ ToSet(taskList) \subseteq Touchable
    /\ ToSet(q) \subseteq Touchable
    /\ \A v \in Node : starts[v] > 0 => v \in Touchable
    /\ \A w \in Worker :
         /\ wpc[w] \in Working => task[w] \in Touchable
         /\ kids[w] \subseteq Touchable
         /\ wpc[w] \in {"promote", "front"} => kid[w] \in Touchable

Runs(v) == {w \in Worker : wpc[w] = "run" /\ task[w] = v}
Moving(w) == wpc[w] \in {"promote", "front"}

\* Every start is a success or a worker in the recipe; two workers with the
\* same target took it from q twice.  Nobody is left when schedule() returns.
StartsAccounted ==
    /\ \A v \in Node : starts[v] = finishes[v] + Cardinality(Runs(v))
    /\ \A w \in Worker : wpc[w] \in Working => starts[task[w]] > 0
    /\ \A w \in Worker : wpc[w] \in Working \ {"run"} => finishes[task[w]] > 0
    /\ \A w, x \in Worker :
         w # x /\ wpc[w] \in Working /\ wpc[x] \in Working /\ task[w] = task[x]
            => starts[task[w]] > 1
    /\ mpc = "returned" => \A w \in Worker : wpc[w] = "exited"

\* A node is promoted when its counter passes from 1 to 0, and counters only
\* go down: no node is promoted twice, nor one that never had to wait.
PromotedOnce ==
    /\ \A v \in Node : waitBlack[v] <= plan.wait[v]
    /\ \A w \in Worker : Moving(w) => waitBlack[kid[w]] < 1 /\ plan.wait[kid[w]] >= 1
    /\ \A w, x \in Worker : Moving(w) /\ Moving(x) /\ kid[w] = kid[x] => w = x

\* What may still bring v to a worker: its entries in q, its entry on
\* _task_list, and a promotion to come.
InQueue(v) == Cardinality({i \in DOMAIN q : q[i] = v})
OnList(v) ==
    IF Contains(taskList, v) /\ ~(mpc = "notify" /\ v = Head(taskList)) THEN 1 ELSE 0
ToPromote(v) ==
    IF waitBlack[v] >= 1 \/ \E w \in Worker : Moving(w) /\ kid[w] = v THEN 1 ELSE 0

\* A node reaches q from where the preprocessing put it on the list and, if it
\* had to wait, once more when it is promoted.
HandOutsBounded ==
    \A v \in Node :
        starts[v] + InQueue(v) + OnList(v) + ToPromote(v)
            <= IF plan.status[v] = BLACK THEN 2 ELSE 1

\* No target is lost: it was handed out, it is on the list, or the worker that
\* holds the list lock is about to put it back.  Once the master has left its
\* loop only such a one can be missing.
NothingIsLost ==
    /\ \A v \in Tasks :
         HandedOut(v) \/ Contains(taskList, v)
         \/ \E w \in Worker : wpc[w] = "front" /\ kid[w] = v
    /\ mpc \in {"finish", "drain", "join", "returned"} =>
         \A u, v \in Tasks :
            ~HandedOut(u) /\ ~HandedOut(v) => u = v /\ plan.status[v] = BLACK

\* The children a worker has not looked at are children of its target.
KidsOfTask ==
    \A w \in Worker :
        kids[w] # {} => /\ wpc[w] \in {"children", "promote", "front"}
                        /\ kids[w] \subseteq Children(plan.edges, task[w])

\* The outdated parents of v that succeeded and were counted at v.
Counted(v) ==
    {u \in StaleParents(plan, v) :
        /\ finishes[u] > 0
        /\ \A w \in Worker : task[w] = u => wpc[w] # "remove" /\ v \notin kids[w]}

\* Unless an outdated parent of v ran twice, v has been counted down at most
\* once for each of those that were counted, and v is not handed out before
\* its counter is used up.
CountsDown ==
    \A v \in Tasks :
        /\ (\A u \in StaleParents(plan, v) : starts[u] <= 1) =>
              plan.wait[v] - waitBlack[v] <= Cardinality(Counted(v))
        /\ status[v] # BLACK \/ HandedOut(v) => waitBlack[v] <= 0
=============================================================================
