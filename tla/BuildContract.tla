---------------------------- MODULE BuildContract ----------------------------
(***************************************************************************)
(* What the scheduling stage of dag::schedule() gives its caller, whatever *)
(* the threads, the list, the queue and the locks do: which recipes may    *)
(* start, how often and after which others, and what is done by the time   *)
(* the call returns.  This is the guarantee of the code as it is, which is *)
(* weaker than "every target once, in order": a target that had to wait    *)
(* may run twice, one whose parent ran twice may run too early, and one    *)
(* target may be left out.                                                 *)
(***************************************************************************)
EXTENDS DagBasics

CONSTANTS Start, Worker

VARIABLES plan, starts, finishes, outcome

vars == <<plan, starts, finishes, outcome>>

Tasks == ToSet(plan.tasks)
Running(v) == finishes[v] < starts[v]

Init ==
    /\ plan \in Start
    /\ starts = [v \in Node |-> 0]
    /\ finishes = [v \in Node |-> 0]
    /\ outcome = "building"

Begin(v) ==
    /\ outcome = "building"
    /\ v \in Tasks \/ v \notin plan.asked
    /\ starts[v] < IF plan.status[v] = BLACK THEN 2 ELSE 1
    /\ v \in Tasks =>
         \/ \A u \in StaleParents(plan, v) : finishes[u] > 0
         \/ \E u \in StaleParents(plan, v) : starts[u] > 1
    /\ starts' = [starts EXCEPT ![v] = @ + 1]
    /\ UNCHANGED <<plan, finishes, outcome>>

End(v) ==
    /\ outcome = "building"
    /\ Running(v)
    /\ finishes' = [finishes EXCEPT ![v] = @ + 1]
    /\ UNCHANGED <<plan, starts, outcome>>

Abort ==
    /\ outcome = "building"
    /\ \E v \in plan.recipe : Running(v)
    /\ outcome' = "aborted"
    /\ UNCHANGED <<plan, starts, finishes>>

Return ==
    /\ outcome = "building"
    /\ \A v \in Node : ~Running(v)
    /\ \A v, u \in Tasks : starts[v] = 0 /\ starts[u] = 0 => u = v
    /\ \A v \in Tasks : starts[v] = 0 => plan.status[v] = BLACK
    /\ outcome' = "returned"
    /\ UNCHANGED <<plan, starts, finishes>>

Next == (\E v \in Node : Begin(v) \/ End(v)) \/ Abort \/ Return

Spec == Init /\ [][Next]_vars
=============================================================================
