# zmake and make2, specified

This directory holds TLA+ modules about the programs of this repository, the TLC
configurations that check them, and proofs for TLAPS. `bin/zmake` generates
makefiles for a source tree; `make2/` is the beginning of a build tool of its own,
whose core, `make2/dag`, decides which targets are outdated and rebuilds them with
a pool of threads; `demo/` holds programs built with zmake, of which the search tree
in `demo/algorithm/bst` is specified here.

## The system and its parts

| Part | State | Operations | What is hard |
|---|---|---|---|
| `make2/dag`: graph | nodes, `_in_list`, `_out_list`, recipes, colours | `add_node`, `add_edge`, `remove_*`, `set_recipe`, `bleach`, `dfs`, `is_dag` | colours are shared by all traversals; `_key` and removed nodes dangle |
| `make2/dag`: planner | colours, DFS stack, `_task_list`, `_lmt`, `_wait_black` | `add_to_task_list`, `_schedule_preprocessing` | loops, several requests, what a failed request leaves behind, file times |
| `make2/dag`: scheduler | `_task_list`, colours, `_wait_black`, queue `q`, `flag_finish`, three kinds of mutex, a condition variable | the master in `schedule`, `_schedule_worker_function` | unlocked reads, two-step promotions, wakeups, failing recipes |
| `bin/zmake` | the makefiles of a tree, the directories still to walk | generate `root.mk`, `rules.mk`, `Makefile`; walk from the root; delete | dialogue per file, files truncated before they are written, interruption anywhere |
| generated makefiles | `TMP`, `OBJ`, `DEP`, the objects and `.d` files of earlier builds | recursive include of `rules.mk`, `make`, `make all` | variables expanded when a rule is read or when its recipe runs; what is the default goal |
| `demo/algorithm/bst` | the nodes with key, balance factor and two links; the stacks of a call | `bst_insert`, `bst_search`, `bst_delete`, `bst_traverse`, `bst_destroy` | rotations without parent pointers, balance factors that nothing recomputes, traversals that thread the tree |
| `bin/zmake2`, `bin/zmake3`, `bin/rmake`, `bin/strip.sh` | - | earlier generators, helper scripts | - |
| `make2/parser`, `make2/doc` | - | exercises and a design text for a Make2file language | not connected to the rest |
| other programs of `demo/` | - | example programs and vendored libraries | independent of each other |

The caller builds a graph, calls `bleach()`, `add_to_task_list()` for each target it
wants and then `schedule(n)`. The request lists the target and all it is made from in
dependency order. `schedule()` first drops what is up to date and counts for every
remaining target the parents it waits for (preprocessing), then runs the rest: the
master moves ready (GREY) targets from the front of `_task_list` to `q`, the workers
run them, count their children down and move a child that became ready to the front.

`zmake` and `make` share nothing but files: `zmake` writes the makefiles that a later `make`
reads, the user edits them and the sources in between, and any of the commands may be
interrupted.

What makes each part right:

* planner: `false` exactly on a loop; the list can be built front to back; exactly the
  outdated targets stay; what it leaves is what the scheduler needs.
* graph: both edge lists tell the same; `is_dag()` is right on every graph and comes back; `dfs()`
  prints every node once.
* scheduler: each target is built once, after what it is made from; nothing else is
  touched; nobody sleeps while a target waits; the call returns with everything built.
* zmake: files the user wants kept are kept, also by a walk that is quit or interrupted; a walk
  misses no directory; a forced run repairs whatever an interrupted one has left.
* generated makefiles: every object below is found, once, compiled with the flags of its own
  directory, and brought up to date in one pass.
* bst: it is a set of keys; nothing is lost, leaked or shared; every traversal prints its order and
  leaves the tree as it was.

## Modules

* `DagBasics` - colours, neighbours, `list::remove`, and `PreprocessResult`, the
  contract between the two halves of `schedule()`. `DagPlan` is checked to establish
  it (`PlanIsSound`); `DagSchedule` assumes it of every plan it starts from
  (`StartAssumption`). This is how the two modules compose.
* `DagPlan` - `add_to_task_list()` and `_schedule_preprocessing()`. `cur` is `p`,
  `stack` is `s`; `Descend` is one turn of `while (p)`, `LoopDetected` the
  `goto fail_exit`, `TopGoesOn`, `TopIsListed` and `RequestDone` the rest of the outer
  loop. Each `Visit...` action is one turn of the first pass, one action per branch;
  `NoRecipe` is `exit(1)`. `Rearrange` is the second pass: `Before` says which of two entries comes first
  on the list it leaves.
* `DagSchedule` - the scheduling stage. `mpc` and `wpc[w]` say where each thread is:

  | step | code (`make2/dag/dag.cpp`) |
  |---|---|
  | `MasterCheck` | 691, `_task_list.empty()` without the lock |
  | `MasterLock`, `MasterQueue`, `MasterNotify`, `MasterUnlock` | 692-707 |
  | `MasterFinish`, `MasterDrain`, `MasterDrained`, `MasterReturn` | 710-716 |
  | `WorkerCheck` | 520 |
  | `WorkerPop`, `WorkerQuit`, `WorkerSleep`, `SpuriousWake` | 521-529, one `q_mtx` region |
  | `RecipeSucceeds`, `RecipeFails` | 530-538 |
  | `WorkerRemove` | 539-541 |
  | `ChildWaits`, `ChildReady` | 543-549, one `u->_mtx` region |
  | `PromoteRemove`, `PromoteFront` | 551-554; the list lock is held from one to the other |

* `DagGraph` - `class dag` as a data structure, between two calls of the planner. `in` and `out`
  are the two edge lists, `AddNode` ... `SetRecipe` the operations that edit them. `Traverse` is
  the `bleach()` at the start of `dfs()` and `is_dag()`, `NextRoot`, `SkipNode` and `TraversalDone` are
  their loop over `_node_list`, of which `todo` is what is still to come, `Climb`, `SourceFound` and `ClimbedALoop` are `source_of()`, `Walk` is a turn of `dfs()`'s
  search, `Descend`, `LoopDetected`, `TopGoesOn` and `TopIsDone` are `is_dag()`'s, which is the
  mirror image of the planner's.
* `BuildContract` - what `schedule()` gives its caller without any thread, list or
  lock: which recipe may begin when and what is done on return. `DagSchedule`
  implements it (`ImplementsContract`).
* `DagSchedule_proofs`, `DagContract_proofs`, `DagPlan_proofs`, `DagGraph_proofs` - the TLAPS proofs about these
  modules, the second one with the counting arguments and the refinement of `BuildContract`;
  `ListFacts` - the lemmas about lists and stacks that they and the following proofs share.
* `SourceTree` - the directories, their sources and makefiles, and the user who edits both. What a
  makefile says is reduced to: absent, empty, as generated, or edited by the user.
* `Zmake` - `bin/zmake`. One action of `Invoke` per option (`GenRoot` is -r, `GenBranchOnly` -b,
  `RWalk` -b -R, `GenMakefile` -m, `DeleteAll` -D); `todo` is what `os.walk()` has yet to list;
  `GenBranch` and `GenBranchNoSources` are `gen_branch()`, `DeleteRules` and `DeleteRoot` the two halves
  of a turn of `delete_all()`. `Overwrite`, `Skip`, `Ask` and the `Answer...` actions are `strfile2()`
  and `check_overwrite()`, `Open` and `Close` are `strfile()`: between them the file is empty.
* `RulesMk` - make reading the generated files. `include` is the chain of includes still to read,
  `tmp` is `TMP`, `objs` stands for `OBJ` and `DEP`; `ReadRules` is one `rules.mk`, `ReadDeps` the end
  of the `Makefile`, where the goal is fixed, `Compile` the recipe of a pattern rule.
* `ZmakeProject` - `Zmake` and `RulesMk` composed over one `SourceTree`: one command at a time.
* `ZmakeProject_proofs` - the proofs about these four: lemmas about paths, the steps of zmake, the steps
  of make and the theorems about both.
* `Bst` - `demo/algorithm/bst/bst.cpp`. `Down` is the search that `bst_insert()`, `bst_search()` and
  `bst_delete()` begin with, `Predecessor` and `Unlink` take a node out, `Update` is a turn of the way
  back with its rotation; the `...Step`, `DescendLeft` and `Morris...` actions are turns of the
  traversals. Following a NULL pointer leads to "crashed".
* `OrderedSet` - what `bst.h` promises: a set of keys, and calls (`call`, `arg`) that take effect once on
  the key they name, and return. `Spec` is what the header says; in `SpecAsKept` an insert into a tree that
  was emptied fails, which is what the code does. `Bst` implements the latter (`ImplementsSet`) and not the
  former (`ImplementsHeader`): a call takes effect where its node is found, hung or taken out, and the way
  back with its rotations comes between that (`done`) and its return.
* `BstOrders` - the recursive traversals, as the reference for the others, and the instance for TLC. They
  are recursive functions on the nodes. For the level order the code has no recursive traversal;
  `IsLevelorder` says what it is: every key, row by row, and in a row from left to right.
* `Bst_proofs` - the proofs about `Bst`, its refinement of `OrderedSet` included; `BstOrders_proofs` - the
  proofs that every traversal prints its order.
* `MCDagSchedule`, `MCDagPlan`, `MCZmakeProject` - the instances for TLC.

Definitions marked "Mutant" are the original action with one plausible mistake; they are
not part of any next-state relation. They are there to see each property fail.

### Atomicity

A region that holds one lock from its first shared access to its last is one step when
nothing in it is read by anybody who does not take that lock. The list lock does not
qualify for the promotion, because line 691 reads the list without it: removal and
`push_front` are two steps. In `WorkerSleep` the test of `flag_finish` and the start of the
wait are one step although the flag is not protected by `q_mtx`: the flag can change in
between, but whoever set it then finds `q` empty (the worker holds `q_mtx` and saw it
empty) and signals nobody, so the outcome is that of sleeping first. `notify_one` is merged
with the erase that follows, which only the holder of the list lock sees.
The order in which a worker visits children, and the choice of a first WHITE parent, are
by address in the code and free here, as are the first parent `source_of()` climbs to and the
order in which children are pushed. Data races on single words are interleavings of
whole reads and writes.

`_wait_black` is not initialised by the constructor: outside the planned targets it is any
integer (`Garbage` in the runs). `stat()` goes through the dangling `_key`, so its result
is chosen freely when a file is looked at.

`zmake` and `make` are processes that the user runs one after the other, so a step is what happens
between two points where an interruption leaves different files: opening a file, closing it, removing
one. The text of a generated file is smaller than the buffer it is written through and reaches the
file when it is closed. The order in which a directory is listed is free. All C and C++ files of a
directory stand for one source and one object, whose version and flags are what matters; a file is
outdated when its version is not that of its source.

`Bst` has one thread; its steps are turns of loops so that the properties are also checked inside a
call, where the stacks and links are half-way.

## Runs

| run | question | instance |
|---|---|---|
| `schedule_safety` | which targets run, how often, in which order, what is left at return; does the code implement `BuildContract` | two workers; every plan over every acyclic graph of three nodes and every request closed under parents, and two graphs of four nodes; counters outside the request 1 or 2; one phony target, all other recipes may fail |
| `schedule_live` | what must happen | two workers, a chain and a join of three nodes, all outdated parts of them |
| `plan_safety` | are requests and preprocessing right | all 512 directed graphs of three nodes with recipes everywhere, and all acyclic ones with every choice of recipes and phony targets; two requests; times 0 (missing), 1, 2 |
| `graph_safety` | do the edge lists agree; are `is_dag()`, `dfs()` and `source_of()` right and do they return | every graph of up to three nodes (567, loops included), reached by every sequence of edits, with traversals in between; one key gets a recipe |
| `schedule_termination` | does `schedule()` return? No. | one worker, two nodes |
| `schedule_allbuilt` | is everything built at return? No. | two workers, two nodes |
| `schedule_dependency` | are parents built first? No. | two workers, two graphs of four nodes |
| `zmake_safety` | which files does zmake touch, what has a walk done when it ends, what does make reach and bring up to date, does every command end | a project of four directories in three states (new; with a directory without sources; built), ten command lines with -f, -s and the dialogue; two invocations, one make, one edit, interrupted anywhere |
| `zmake_incremental` | does a make bring everything up to date? Not after the first. | the same projects, two edits, two makes |
| `zmake_flags` | is every object compiled with the flags of its directory? No. | the same |
| `bst_safety` | is the tree a set, a tree, and traversed in order | five keys, a node for each; every sequence of calls, all eight traversals |
| `bst_delete` | can a delete only fail because the key is not there? No. | three keys |

Bounds. Three nodes have every shape a promotion can meet: no child, a child with one or two
parents, a chain. The four-node graphs are the smallest in which a target that ran twice makes a
child overtake another parent: the child needs two parents, one of which had to wait itself,
while the other is still running. Two workers are enough for that and for two promotions at a
time; the theorems below hold for every number. Two requests show both an overlapping and a
disjoint second one, and a request after a failed one. Two file times and "missing" give
every comparison. Three nodes are the smallest graphs in which `source_of()` can run into a loop its
node is not part of and in which branches meet without a loop; the theorems cover all larger ones.
The project has a directory with a child and a sibling, which is what nested includes and a walk with a
gap need; two invocations let a second one meet what the first, interrupted, has left, and one make
then reads it. A tree of five nodes has rotations of all four kinds, also with a subtree between the
nodes that turn, because deletes leave trees that are out of balance. Nodes are interchangeable
(`Symmetry`): which one `malloc()` returns changes nothing else.

Fairness (`DagSchedule!FairSpec`). The master and every worker keep running (weak fairness), a
recipe ends, and a thread that keeps asking for `_task_list_mtx` gets it (strong fairness: the
master takes and releases it in a polling loop). Nothing is assumed of spurious wakeups.
`DagPlan!FairSpec` and `DagGraph!FairSpec` say only that the single calling thread keeps running
(weak fairness of the steps of a call; nobody has to make one). `ZmakeProject!FairSpec` says that a
command that has begun keeps running and that its user answers what it asks.

## What was found

* `schedule()` may hang (`schedule_termination`): a worker on its way to `wait()` when the
  flag goes up is signalled by nobody if `q` is already empty. `HangsOnlyInJoin` shows that
  this is the only way not to return.
* A target can be left out (`schedule_allbuilt`): line 691 sees the list empty between
  lines 552 and 553. `LeavesAtMostOne` shows that it is never more than one.
* A target can run twice and make its children overtake their parents
  (`schedule_dependency`): it is GREY (548) before it is moved (551). `AtMostTwice` and
  `OrderUnlessRunTwice` say how far that goes.
* Children nobody asked for are counted down and may be run: line 542 walks all children of a target,
  although line 655 says that they are BLACK. `UpToDateNeverRun` shows that the up-to-date part of
  the request is safe.
* A target that an earlier request has listed is listed, and run, again if it is requested itself;
  `ListedAgainAsAsked` shows that nothing else is, in whatever order requests overlap: the history `again`
  counts the requests made for a node when it was listed.
* A target with a recipe whose file is missing is "up to date" if it has no parents (line 449), although
  line 593 says that the file exists from there on.
* After a first build `make` builds one object (`zmake_incremental`): `-include $(DEP)` stands before
  `all:`, so the first rule of the first `.d` file is the default goal. `AllIsUpToDate` shows that
  `make all`, and the first `make`, do what the README promises.
* Every object is compiled with the flags of the directory whose `rules.mk` was read last
  (`zmake_flags`): `$(TMP)` in a recipe is expanded when the recipe runs.
* `zmake` leaves an empty file when it is interrupted between opening and closing it, which -s then
  skips and make includes without a word. `AtMostOneTorn` shows that it is one file at most, and
  `ForcedWalkIsReached` that -f repairs it.
* A directory without sources gets no `rules.mk` and so cuts those below it off from the chain of
  includes; `ForcedWalkIsReached` and `ObjectsAreReached` say what is reached nevertheless.
* Deleting a left leaf counts it as one on the right and may follow a NULL pointer (`bst_delete`). For
  the calls that come back `ImplementsSet` shows that each has added, found or removed the key it was
  given, wrong balance factors or not.
* Once the last key was deleted no key can be inserted any more: `bst_insert()` returns NULL for an empty
  tree (line 227), where `bst.h:29` names only "allocation failure or collision with existing node".
  `ImplementsSet` shows that such an insert always fails (`InsertIntoEmptied`) and that every other call does
  to the keys what the header says. No run is kept for the violation; with `PROPERTY ImplementsHeader` in the
  place of the invariant of `BstOrders_delete.cfg` TLC prints it: create, delete, insert.
* The pre-order traversal with a stack, which is what BST_PREORDER means, follows the NULL pointer of a tree
  whose last key was deleted (line 435), where `bst.h:50-52` says that it is supported and behaves as
  expected; all other traversals return. `INVARIANT TraverseNeverCrashes` in the same configuration prints it:
  create, delete, traverse. `LeavesTreeAndOrder` shows what every traversal prints that does not crash.

## Proofs

`DagSchedule_proofs` is about `Spec`, for every graph, every set `Start` of plans that satisfy
`PreprocessResult`, and every finite non-empty set of workers. Assumptions: the named `ASSUME`s
of `DagBasics` and `DagSchedule`, which TLC evaluates on every run.

* `Base` - the types, `LocalsSet` (a worker has a target where it uses one) and `Control`: the
  list lock is held exactly inside the regions it protects, the flag is up exactly after the
  loop, a worker that left proves `q` empty, and the master erases from a list that is not
  empty. Types alone are not inductive: `Tail` of `_task_list` in `MasterNotify` needs the lock.
  `Typing` follows.
* `WakeupSafety` - `NoLostWakeup`, inductive together with `Base`: when the master signals
  with nobody asleep, nobody has left either, because the flag is still down.
* `ListSafety`, `EraseSafety` - `ListHasNoDuplicates` and `ErasesWhatItQueued`, with the strengthening
  `KidIsOffTheList`: who holds the lock has already taken its child off the list. Between queueing and
  erasing, the list can only change by what the lock protects, so its head stays.
* `UpToDateSafety` - `UpToDateNeverRun`, from `OnlyTouchable`: list, queue and locals of the
  workers hold only outdated targets of the request and nodes outside it, a set that is closed
  under children because the request is closed under parents.

The lemmas `WithoutShape`, `WithoutElements`, `TailElements`, `FrontElements` and
`AppendElements` say what the list operations do to length, elements and duplicates.

`DagContract_proofs` goes on from there, under the same assumptions. Its invariants stand in
`DagSchedule`, next to what they count.

* `ReturnSafety` - `ReturnsQuiet`, from `StartsAccounted`: the starts of a node are its successes plus
  the workers in its recipe, so nobody is running when all have left.
* `TwiceSafety` - `AtMostTwice`, from `HandOutsBounded`: starts, entries in `q`, the entry on the
  list and a promotion to come are together at most two, and one for a node that was ready. A promotion
  uses itself up (`PromotedOnce`): a counter passes from 1 to 0 once, because counters only go down.
  `AtMostTwice` alone says nothing of a node that is still queued.
* `LeavesSafety` - `LeavesAtMostOne`, from `NothingIsLost`: a target is handed out, on the list, or in
  the hands of the one worker that holds the list lock.
* `OrderSafety` - `OrderUnlessRunTwice`, from `CountsDown`: while no outdated parent of a node runs twice,
  the node is counted down at most once for each parent that has finished and no longer has the node before
  it (`Counted`, `KidsOfTask`). Its counter was the number of outdated parents, so when it is used up all
  of them are in.
* `ContractRefinement` - `ImplementsContract`. `WorkerPop` is `Begin`, `RecipeSucceeds` is `End`,
  `RecipeFails` is `Abort`, `MasterReturn` is `Return` (`PopBegins`, `SuccessEnds`, `FailureAborts`,
  `ReturnReturns`); every other step leaves what the caller sees unchanged. That `Begin` and `Return` are
  allowed is what the theorems above say.

`DagPlan_proofs` is about `Spec` of `DagPlan`, for every finite set of nodes, every set of graphs, any number
of requests and any file times. `Above` is `Ancestors` as a set that is least among those closed under
parents, which is all that is needed of it: no proof follows a path step by step.

* `FailsOnLoops` - `FalseIffLoop`. "false": from the GREY parent on, the stack and `cur` are a set in which
  everybody has a parent (`StackIsPath`). A request may also stop at a node that an earlier failed one
  has left GREY, and then that node is made from a loop (`LeftGreyIsDoomed`). "true": the target
  is listed (`Answered`), and what is listed needs nothing else and holds no loop (`ListStandsAlone`).
* `ListsInOrder`, `ListsAll` - from the same invariant, `SearchInv`. That BLACK is "listed" holds between two
  requests too (`Colours`), which is why a later request may stop at it.
* `ListedAsRequested` - `ListedAgainAsAsked`, from `Repeats`: during a request, the entries of a listed node,
  and one to come (`Due`) if it is the target and was listed before, are one more than the requests made for
  it when it was listed; a node that is not listed never was.
* `PlanSafety` - `PlanIsSound`. `Fresh`: if every request was for a WHITE node and succeeded, nothing is
  listed twice. `Judging`: the first pass has given every node it has visited its colour and counter,
  from parents that come earlier on the list and so have theirs. `Rearrange` keeps what is not WHITE
  and adds nothing (`RearrangeAddsNone`). With this theorem and the assumption of `DagSchedule_proofs`
  both sides of the contract `PreprocessResult` are proved.
* `OutdatedSafety` - `KeepsTheOutdated`: what stays WHITE is closed under parents as far as it is listed, so
  nothing above it is outdated; what is kept and not outdated itself has a parent that is kept, and since
  the list holds no loop one of them is outdated.
* `PlanTyping`.

`DagGraph_proofs` is about `Spec` of `DagGraph`, for every finite set of keys.

* `GraphInvariant` - the inductive invariant `IInv`. `IsDagIsRight` alone is not inductive, because
  nothing in it says what the colours mean in the middle of a search. `Coloured`: GREY is the stack
  and children of BLACK nodes are BLACK. `PathOnStack`: the stack is a path without an edge back
  along it, which is what the one test at line 298 establishes for good. `BlackIsAcyclic`: what is
  finished holds no loop. `Trail`: what `source_of()` has seen has a parent on its trail, and `start` is
  made from all of it. `Covered`, for the loop over `_node_list`: a WHITE node that it has passed is made from
  a node on the stack, or from `p`, so the search that is under way will reach it.
* `IsDagCorrect` - "loop": the part of the stack from the GREY child on is a set in which everybody has
  a parent. "dag": a node that becomes BLACK has only BLACK children, so no BLACK node is made into
  it, and it cannot close a loop.
* `RootsAreWhite` - the comment at lines 352-356, from `Coloured` with an empty stack.
* `SourcesFound` - an action property: when `source_of()` gives up, everybody on the trail has a parent on
  it, and `start` is made from the trail, so it is the loop that is asked for.
* `DfsPrintsOnce` - an action property, from `Printed`: a node has been printed if it is BLACK and off the
  stack, and a node is pushed only when it turns BLACK, so it is on the stack once. That no node is left out
  is `Covered` at the end of the loop.
* `EdgeListsAgree`, `GraphTyping`.

`EnumerationElements`, `ConcatElements`, `ConcatInjective`, `PopFacts`, `PopElements`, `PopInjective`,
`PushFacts` and `PushElements` in `ListFacts` are the lemmas about the stacks; the first needs that an
injection between sets of the same size reaches everything. `Occurrences` and its lemmas count entries.

`ZmakeProject_proofs` is about `Spec` of `ZmakeProject`, for every finite set of directories that holds
with a path all paths above it, every set of projects and command lines, and any number of commands,
edits and interruptions. Its invariant is `ProjectInv`; the parts are stated in `Zmake` and `RulesMk`.

* `ZmakeInv` - `Places`: what zmake knows of its command line and target at each place.
  `WrittenIsWhole`: what has been written is complete, but for the target; from this `OnlyTargetIsTorn`.
  `TargetPermitted`: the permission to overwrite was given before the file was opened, which
  `KeepsExisting` alone does not say while a file that was absent is being written; from both `ExistingIsKept`.
  `Walking`: every directory with sources is below one the walk is still to come to, is the
  target, or has what it should have; from this `WalkServesAll` and `ForcedWalkRepairs`. `Deleting` is
  the same for -D (`AllBelowIsDeleted`). That a step of the walk loses nothing (`WalkToFacts`) rests
  on `BelowChild`: what is below a directory is the directory or below one of its children.
* `MakeInv` - `Collecting`: what is collected and what is reached from the files still to be included is
  together what is reached from the start, and no two of these files have a directory below them in common,
  so nothing is collected twice (`CollectsTheReached`). `ReachedThrough` is the lemma behind it: a
  `rules.mk` reaches its directory and what its subdirectories reach. `Building`: what is outdated is
  still a goal (`OnePassSuffices`).
* `OneAtATime` - zmake and make do not work at the same time, so each finds the files as the other left
  them. `LongestAbove` shows that `find_root()` has a nearest root to find if it has any.

`Bst_proofs` is about `Spec` of `Bst`, for every finite set of integer keys, enough nodes for them, and
every order of calls, also those that end in a NULL pointer. A tree is described without recursion: `d[n]`
is the set of what is below `n`, `n` included, and `Tree` says that it is `n` and what is below its two
links, that these two are disjoint, and that keys on the left are smaller and on the right larger.

* `Invariant` - the inductive invariant `IInv`. `ImplementsSet` alone is not inductive: a search that
  has come half-way must know that the key is below `p` or nowhere (`Searching`), and after a rotation the
  whole heap has to be a search tree again for the next one. `Shape` says that some `d` makes the heap a
  `Tree` over exactly the allocated nodes, but for the right links of a set `H`, which are threads.
  `Replacing`: the stack holds the way from the root to the node that is to be taken out, and on the
  left of the node that is deleted nothing is larger. `GoingBack`: the stack holds the way to `p`, so its
  top is the parent whose link a rotation has to set. `Hung`: a thread leads from the predecessor to the
  node it is for, exactly the nodes with `p` on their left have one, and so the way back up ends with
  none (`NoneHung`).
* Changes of the tree are lemmas about functions first: `LeafOnTheLeft` hangs a new leaf, `OutWithoutRight`
  takes out a node with at most one child, `Rotated` is a single rotation, and `Mirror` gives the other half of
  each. `HangRight` and `StraightenedLeft` carry rotations over to the heap; a double rotation is two single ones.
  `TurnOfTheWayBack` puts the branches of `Update` together: afterwards the heap is `Rearranged`, a search
  tree in which nothing has changed but below the node that was turned, so the stack still is the way.
* `TreeIsLeft` - `LeavesTree`, from `Tree` with no threads. That every allocated node can be reached is
  `AllReached`: a set of nodes that holds the root and is closed under children is all of the tree, since
  a highest node that it misses has a parent, which it holds.
* `TreeImplementsSet` - `ImplementsSet`. `Insert`, `Search` and `Delete` are the calls (`Calling`). `SearchDone`,
  `InsertIntoNothing`, `InsertCollides`, `InsertNode`, `DeleteMissing` and `Unlink` are where they take
  effect on the key they were given (`Effecting`): a search that ends at NULL has its key nowhere in
  the tree (`Searching`), and what `Unlink` takes out is that key (`Replacing`). The last turn of `Update` is the
  return. Every other step leaves the reachable keys and the answer unchanged, also the hanging of threads,
  because a thread leads to a node of the tree.
* `Types` - `TypeOK`. That a balance factor stays in -1..1 does not need that it is right.

What `Bst_proofs` does not say: that the tree is balanced (it need not be, see below) and that a call comes
back (a delete may follow a NULL pointer, `bst_delete`).

`BstOrders_proofs` is about the same `Spec`. It needs no induction over data: that the recursive functions are
defined and print one list only follows from the invariant's `d`, by a lowest node for which it would fail
(`FoldsExist`, `FoldsUnique`, `RecursiveFolds`).

* `TraversalsPrint` - `LeavesTreeAndOrder`. It says nothing of a traversal that is under way, so the inductive
  invariant `OInv` adds to `IInv` what has been printed and what is yet to come. `f[n]` is what the recursive
  traversal prints below `n`; `out`, put together with what is yet to come, is `f[t]` throughout. What is
  to come has a form of its own for each kind of traversal:
  * preorder with a stack: what is below the entries, the last one first (`Stacked`).
  * `Waypoints`, for the other stacks: each entry is a node at which the traversal has gone left, owes its
    key and its right side (`Owed`), and may have put its right child off. The tests of lines 486, 532 and
    557 compare the right child of the top entry with what was put off last. `PutOffLast`: that
    is the right child of a node on the way; since each of these lies below the one before, it is a child of
    the top one only if that one has put it off (`PostorderPrints`, `Stack2Prints`).
  * `Waiting`, for the threads: the nodes to which threads lead, and only they (`AwaitThreads`), owe their
    right side and, in order, their key. `Ahead`: coming back along a thread the traversal is at the last of
    them and finds its left side printed; elsewhere nothing below `p` has been printed. `GoneOn` shows
    that following a right link, which may be a thread, keeps this.
  * the queue: the queue holds a row and the beginning of the next (`Queued`), and whatever is below none
    of its nodes has been printed and comes before the rest (`RowByRow`).

Only model-checked: liveness with its fairness, which is out of the prover's reach (`QueuedIsBuilt`,
`ReadyIsBuilt`, `HangsOnlyInJoin`, `RequestReturns`, `TraversalReturns` and `CommandReturns`). Every
invariant and every action property that a passing run checks is proved.

## Plan

1. (done) `DagSchedule`, `BuildContract`, `DagPlan` with their runs; proofs of the types, wakeups,
   list and untouched targets.
2. (done) `DagGraph`: the graph operations, `dfs()` and `is_dag()`, with the proofs above.
3. (done) `SourceTree`, `Zmake`, `RulesMk` and `ZmakeProject`; `Bst` with `OrderedSet` and `BstOrders`.
4. (done) Proofs: the counting invariants of `DagSchedule` and its refinement of `BuildContract`; every safety
   property of `DagPlan`; `DfsVisitsOnce`; `TypeOK`, `ImplementsSet` and `LeavesTree` of `Bst`.
5. (done) Proofs about `ZmakeProject`: every invariant of `zmake_safety`.
6. (done) The printed orders for trees of any size, with a ghost for what the stacks, the queue and the
   threads still have to print, on top of `Bst_proofs!Shape`.

## Not modelled

The text of recipes, messages and time stamps; failure of thread creation or allocation;
`sink_of()`, `install_gtest()` and the other functions nobody calls. `schedule(0)`, which waits for
ever, is excluded by `WorkerAssumption`. Targets listed twice are outside the contract `DagSchedule`
starts from. A second call of `schedule()` on the same graph is a new plan.

Of the generated makefiles the rules for `.s` and `.exe` files, `clean`, `test` and the hand-written
`gtest/rules.mk`, which would put a rule of its own first; symbolic links and the depth limit of
`find_root()`; sources that change while a command runs. The heights of a `bst` of six and more keys are not
checked: there the double rotations (lines 61-72 and 109-120) correct balance factors as if the middle node had
none of its own, and from seven keys on trees of inserts alone can be out of balance.

`zmake2` and `zmake3` are superseded by `zmake`; `rmake` and `strip.sh` are loops over files without
state. The parsers of `make2/parser` are generated and have no caller, the language of `make2/doc` no
code; `demo/algorithm/graph/dag` is an earlier copy of `make2/dag`. Most lines of the repository are
vendored (googletest twice, jsoncpp, lemon) or tables of numbers, and the rest of `demo/` are small
programs that do not interact with each other or with zmake.
