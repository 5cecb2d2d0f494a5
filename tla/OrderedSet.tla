----------------------------- MODULE OrderedSet -----------------------------
(***************************************************************************)
(* What demo/algorithm/bst/bst.h promises its caller, without any node,    *)
(* pointer or rotation: a set of keys, and calls that name a key, take     *)
(* effect once, and return.                                                *)
(***************************************************************************)
CONSTANTS
    Key,
    NoKey    \* the argument of no call

VARIABLES
    keys,    \* the keys in the tree
    call,    \* the call that is under way, or "none"
    arg,     \* its key
    done,    \* it has taken effect and has not returned
    answer   \* whether the last call returned a node

vars == <<keys, call, arg, done, answer>>

Init ==
    /\ \E k \in Key : keys = {k}
    /\ call = "none" /\ arg = NoKey /\ done = FALSE
    /\ answer = FALSE

Call(o, k) ==
    /\ call = "none"
    /\ call' = o /\ arg' = k
    /\ UNCHANGED <<keys, done, answer>>

Returns == call' = "none" /\ arg' = NoKey /\ done' = FALSE

\* The call takes effect: it may return with it, or later.
TakesEffect(o) ==
    /\ call = o /\ ~done
    /\ Returns \/ (done' = TRUE /\ UNCHANGED <<call, arg>>)

\* "Return NULL in case of allocation failure or collision with existing node."
Insert ==
    /\ TakesEffect("insert")
    /\ answer' = (arg \notin keys)
    /\ keys' = keys \cup {arg}

\* "Return NULL if no match was found."
Search ==
    /\ TakesEffect("search")
    /\ answer' = (arg \in keys)
    /\ UNCHANGED keys

\* "Can only fail due to nonexisting key."
Delete ==
    /\ TakesEffect("delete")
    /\ answer' = FALSE
    /\ keys' = keys \ {arg}

Return == done /\ Returns /\ UNCHANGED <<keys, answer>>

NextButInsert ==
    \/ \E o \in {"insert", "search", "delete"}, k \in Key : Call(o, k)
    \/ Search \/ Delete \/ Return

Next == Insert \/ NextButInsert

\* What the header says.
Spec == Init /\ [][Next]_vars

-----------------------------------------------------------------------------
\* What the code does otherwise: no key can be inserted once the last one was
\* deleted.
InsertIntoEmptied ==
    /\ TakesEffect("insert")
    /\ keys = {}
    /\ answer' = FALSE
    /\ UNCHANGED keys

NextAsKept ==
    \/ keys # {} /\ Insert
    \/ InsertIntoEmptied
    \/ NextButInsert

\* What the code keeps.
SpecAsKept == Init /\ [][NextAsKept]_vars
=============================================================================
