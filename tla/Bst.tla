--------------------------------- MODULE Bst ---------------------------------
(***************************************************************************)
(* demo/algorithm/bst/bst.cpp: a binary search tree that keeps balance     *)
(* factors and rotates as an AVL tree does, without parent pointers or     *)
(* recursion, and its ways of traversing a tree.  One step is one turn of  *)
(* a loop.  Following a NULL pointer ends the process.                     *)
(***************************************************************************)
EXTENDS Integers, Sequences, FiniteSets, SequencesExt, FiniteSetsExt

CONSTANTS
    Key,   \* the keys
    Node,  \* the nodes that malloc() has
    NULL

ASSUME KeyAssumption == Key \subseteq Int /\ Key # {} /\ IsFiniteSet(Key)
\* malloc() does not fail: there is a node for every key.
ASSUME NodeAssumption ==
    /\ IsFiniteSet(Node) /\ Cardinality(Node) >= Cardinality(Key)
    /\ NULL \notin Node \cup Key

Pointer == Node \cup {NULL}

VARIABLES
    node,    \* the nodes: key, bf, left, right
    used,    \* the nodes that are allocated
    t,       \* the caller's tree, *t
    pc,      \* where the call is
    op,      \* which call it is: an operation, or the order of a traversal
    arg,     \* the key the call is given
    p, q,    \* the pointers it works with
    s, s2,   \* its stacks, the top last, or its queue
    out,     \* the keys a traversal has printed
    answer   \* whether the last call returned a node

vars == <<node, used, t, pc, op, arg, p, q, s, s2, out, answer>>

Order == {"preorder", "inorder", "postorder", "stack2 inorder",
          "stack2 postorder", "morris preorder", "morris inorder", "levelorder"}

\* Every variable has its type.  A balance factor is -1, 0 or 1 between two
\* turns of a loop, whatever the rotations were given.
TypeOK ==
    /\ node \in [Node -> [key : Key, bf : -1..1, left : Pointer, right : Pointer]]
    /\ used \in SUBSET Node
    /\ t \in Pointer
    /\ pc \in {"idle", "down", "pred", "unlink", "update", "visit", "seek",
              "crashed", "destroyed"}
    /\ op \in {"none", "insert", "search", "delete"} \cup Order
    /\ arg \in Key \cup {NULL}
    /\ p \in Pointer /\ q \in Pointer
    /\ s \in Seq(Pointer) /\ s2 \in Seq(Pointer)
    /\ out \in Seq(Key)
    /\ answer \in BOOLEAN

Fresh(k) == [key |-> k, bf |-> 0, left |-> NULL, right |-> NULL]

\* What a node holds that is not allocated: nothing reads it.
Blank == Fresh(CHOOSE k \in Key : TRUE)

\* bst_create().
Init ==
    /\ t \in Node
    /\ used = {t}
    /\ \E k \in Key : node = [n \in Node |-> IF n = t THEN Fresh(k) ELSE Blank]
    /\ pc = "idle"
    /\ op = "none" /\ arg = NULL
    /\ p = NULL /\ q = NULL
    /\ s = <<>> /\ s2 = <<>>
    /\ out = <<>>
    /\ answer = FALSE

\* The call returns: its locals are gone.
Done ==
    /\ pc' = "idle"
    /\ op' = "none" /\ arg' = NULL
    /\ p' = NULL /\ q' = NULL
    /\ s' = <<>> /\ s2' = <<>>
    /\ out' = <<>>

Crash ==
    /\ pc' = "crashed"
    /\ UNCHANGED <<node, used, t, op, arg, p, q, s, s2, out, answer>>

-----------------------------------------------------------------------------
(* The way down, with the nodes passed on the stack.                       *)

Start(o, k) ==
    /\ pc = "idle"
    /\ op' = o /\ arg' = k
    /\ pc' = "down"
    /\ p' = t
    /\ UNCHANGED <<node, used, t, q, s, s2, out, answer>>

Insert(k) == Start("insert", k)
Search(k) == Start("search", k)
Delete(k) == Start("delete", k)

Down ==
    /\ pc = "down"
    /\ p # NULL /\ node[p].key # arg
    /\ p' = IF arg > node[p].key THEN node[p].right ELSE node[p].left
    /\ s' = IF op = "search" THEN s ELSE Append(s, p)
    /\ UNCHANGED <<node, used, t, pc, op, arg, q, s2, out, answer>>

Arrived(o) == pc = "down" /\ op = o /\ (p # NULL => node[p].key = arg)

SearchDone ==
    /\ Arrived("search")
    /\ answer' = (p # NULL)
    /\ Done
    /\ UNCHANGED <<node, used, t>>

\* bst_insert() of a tree that is NULL returns NULL, whatever the key.
InsertIntoNothing ==
    /\ Arrived("insert")
    /\ t = NULL
    /\ answer' = FALSE
    /\ Done
    /\ UNCHANGED <<node, used, t>>

\* The key is there already.
InsertCollides ==
    /\ Arrived("insert")
    /\ p # NULL
    /\ answer' = FALSE
    /\ Done
    /\ UNCHANGED <<node, used, t>>

\* The new node hangs below the last one passed; then the way back begins.
InsertNode ==
    /\ Arrived("insert")
    /\ t # NULL /\ p = NULL
    /\ \E n \in Node \ used :
       LET above == Last(s)
           hung == [node EXCEPT ![n] = Fresh(arg)]
       IN  /\ node' = IF arg < node[above].key
                      THEN [hung EXCEPT ![above].left = n]
                      ELSE [hung EXCEPT ![above].right = n]
           /\ used' = used \cup {n}
           /\ p' = above
           /\ q' = n
    /\ s' = Front(s)
    /\ pc' = "update"
    /\ answer' = TRUE
    /\ UNCHANGED <<t, op, arg, s2, out>>

DeleteMissing ==
    /\ Arrived("delete")
    /\ p = NULL
    /\ answer' = FALSE
    /\ Done
    /\ UNCHANGED <<node, used, t>>

\* bst_delete() takes the key's predecessor out of the tree in its place: the
\* rightmost node of the left subtree.  q is y; p stays x.
DeleteFound ==
    /\ Arrived("delete")
    /\ p # NULL
    /\ IF node[p].left = NULL
       THEN q' = p /\ s' = s /\ pc' = "unlink"
       ELSE q' = node[p].left /\ s' = Append(s, p) /\ pc' = "pred"
    /\ UNCHANGED <<node, used, t, op, arg, p, s2, out, answer>>

Predecessor ==
    /\ pc = "pred"
    /\ IF node[q].right = NULL
       THEN pc' = "unlink" /\ UNCHANGED <<q, s>>
       ELSE s' = Append(s, q) /\ q' = node[q].right /\ UNCHANGED pc
    /\ UNCHANGED <<node, used, t, op, arg, p, s2, out, answer>>

\* Mutant: x keeps the key that is to be deleted, and y's key is lost.
TakenOutKeyStays == [node EXCEPT ![q] = Blank]

\* x takes over the key of y, and y is taken out; nothing reads it any more.
TakenOut == [node EXCEPT ![p].key = node[q].key, ![q] = Blank]

OnlyChild(n) == IF node[n].left # NULL THEN node[n].left ELSE node[n].right

\* The first turn of the way back compares p->left with y only after y was
\* replaced there, and frees y at the end.
Unlink ==
    /\ pc = "unlink"
    /\ answer' = FALSE
    /\ used' = used \ {q}
    /\ LET above == Last(s)
       IN  IF s = <<>>
           THEN /\ t' = OnlyChild(q)
                /\ node' = TakenOut
                /\ Done
           ELSE /\ node' = IF node[above].left = q
                           THEN [TakenOut EXCEPT ![above].left = OnlyChild(q)]
                           ELSE [TakenOut EXCEPT ![above].right = OnlyChild(q)]
                /\ p' = above
                /\ s' = Front(s)
                /\ pc' = "update"
                /\ UNCHANGED <<t, op, arg, q, s2, out>>

-----------------------------------------------------------------------------
(* The way back: balance factors and rotations.                            *)

LR(h, x) ==
    LET z == h[x].left
        y == h[z].right
    IN  [h EXCEPT ![x].left = y,
                  ![z].right = h[y].left, ![z].bf = @ + 1,
                  ![y].left = z, ![y].bf = @ + 1]

LL(h, x) ==
    LET y == h[x].left
    IN  [h EXCEPT ![x].left = h[y].right, ![x].bf = @ - 2,
                  ![y].right = x, ![y].bf = @ - 1]

RL(h, x) ==
    LET z == h[x].right
        y == h[z].left
    IN  [h EXCEPT ![x].right = y,
                  ![z].left = h[y].right, ![z].bf = @ - 1,
                  ![y].right = z, ![y].bf = @ - 1]

RR(h, x) ==
    LET y == h[x].right
    IN  [h EXCEPT ![x].right = h[y].left, ![x].bf = @ + 2,
                  ![y].left = x, ![y].bf = @ + 1]

LeansRight(h, x) == h[h[x].left].bf = -1
LeansLeft(h, x) == h[h[x].right].bf = 1

\* The heap after a rotation below x, and the root of the rotated subtree.
RotateRight(h, x) ==
    LET g == IF LeansRight(h, x) THEN LR(h, x) ELSE h
    IN  [heap |-> LL(g, x), root |-> g[x].left]

\* Mutant: a zigzag is not straightened first.
RotateLeftOnce(h, x) == [heap |-> RR(h, x), root |-> h[x].right]

RotateLeft(h, x) ==
    LET g == IF LeansLeft(h, x) THEN RL(h, x) ELSE h
    IN  [heap |-> RR(g, x), root |-> g[x].right]

\* The pointers that the rotations follow lead somewhere.
CanRotateRight(h, x) ==
    h[x].left # NULL /\ (LeansRight(h, x) => h[h[x].left].right # NULL)
CanRotateLeft(h, x) ==
    h[x].right # NULL /\ (LeansLeft(h, x) => h[h[x].right].left # NULL)

\* p's balance factor, now that the subtree at q has grown or shrunk.
Counted ==
    [node EXCEPT ![p].bf = IF (node[p].left = q) = (op = "insert")
                           THEN @ + 1 ELSE @ - 1]

Rebalanced ==
    LET h == Counted
    IN  CASE h[p].bf > 1  -> RotateRight(h, p)
          [] h[p].bf < -1 -> RotateLeft(h, p)
          [] OTHER        -> [heap |-> h, root |-> p]

UpdateCrashes ==
    LET h == Counted
    IN  \/ h[p].bf > 1 /\ ~CanRotateRight(h, p)
        \/ h[p].bf < -1 /\ ~CanRotateLeft(h, p)

\* The way back ends when the subtree has the height it had before the call.
\* The code never looks at the height: it looks at the balance factor.
HeightIsKept(bf) == IF op = "insert" THEN bf = 0 ELSE bf # 0

Update ==
    /\ pc = "update"
    /\ IF UpdateCrashes THEN Crash
       ELSE LET h == Rebalanced.heap
                tmp == Rebalanced.root
                above == Last(s)
            IN  IF s = <<>>
                THEN node' = h /\ t' = tmp /\ Done /\ UNCHANGED <<used, answer>>
                ELSE /\ node' = IF h[above].left = p
                                THEN [h EXCEPT ![above].left = tmp]
                                ELSE [h EXCEPT ![above].right = tmp]
                     /\ IF HeightIsKept(h[tmp].bf)
                        THEN Done
                        ELSE p' = above /\ q' = p /\ s' = Front(s)
                             /\ UNCHANGED <<pc, op, arg, s2, out>>
                     /\ UNCHANGED <<used, t, answer>>

-----------------------------------------------------------------------------
(* bst_traverse().  BST_DEBUG repeats the traversals with one stack and    *)
(* the level order; BST_RECURSIVE is in BstOrders.                         *)

Traverse(mode) ==
    /\ pc = "idle"
    /\ op' = mode
    /\ pc' = "visit"
    /\ IF mode \in {"preorder", "levelorder"}
       THEN /\ s' = IF mode = "levelorder" /\ t = NULL THEN <<>> ELSE <<t>>
            /\ p' = NULL
       ELSE p' = t /\ s' = s
    /\ UNCHANGED <<node, used, t, arg, q, s2, out, answer>>

Traverses(modes) == pc = "visit" /\ op \in modes

TraversalOver == pc = "visit" /\ s = <<>> /\ p = NULL

TraversalDone == TraversalOver /\ Done /\ UNCHANGED <<node, used, t, answer>>

Pushed(stack, n) == IF n = NULL THEN stack ELSE Append(stack, n)

PrintNode(n) == out' = Append(out, node[n].key)

\* bst_traverse() of a tree that is NULL prints through the pointer.
PreorderStep ==
    /\ Traverses({"preorder"})
    /\ s # <<>>
    /\ IF Last(s) = NULL THEN Crash
       ELSE LET n == Last(s)
            IN  /\ PrintNode(n)
                /\ s' = Pushed(Pushed(Front(s), node[n].right), node[n].left)
                /\ UNCHANGED <<node, used, t, pc, op, arg, p, q, s2, answer>>

LevelorderStep ==
    /\ Traverses({"levelorder"})
    /\ s # <<>>
    /\ PrintNode(Head(s))
    /\ s' = Pushed(Pushed(Tail(s), node[Head(s)].left), node[Head(s)].right)
    /\ UNCHANGED <<node, used, t, pc, op, arg, p, q, s2, answer>>

\* The ways down: in order and both ways in postorder put the right child off.
DescendLeft ==
    /\ Traverses({"inorder", "postorder", "stack2 inorder", "stack2 postorder"})
    /\ p # NULL
    /\ s' = Append(IF op = "postorder" THEN Pushed(s, node[p].right) ELSE s, p)
    /\ s2' = IF op \in {"stack2 inorder", "stack2 postorder"}
             THEN Pushed(s2, node[p].right) ELSE s2
    /\ p' = node[p].left
    /\ UNCHANGED <<node, used, t, pc, op, arg, q, out, answer>>

InorderStep ==
    /\ Traverses({"inorder"})
    /\ p = NULL /\ s # <<>>
    /\ PrintNode(Last(s))
    /\ s' = Front(s)
    /\ p' = node[Last(s)].right
    /\ UNCHANGED <<node, used, t, pc, op, arg, q, s2, answer>>

\* The right child of n was put off on this stack and is next on it.
IsPutOff(n, stack) ==
    node[n].right # NULL /\ stack # <<>> /\ Last(stack) = node[n].right

PostorderStep ==
    /\ Traverses({"postorder"})
    /\ p = NULL /\ s # <<>>
    /\ LET n == Last(s)
           rest == Front(s)
       IN  IF IsPutOff(n, rest)
           THEN s' = Append(Front(rest), n) /\ p' = node[n].right /\ UNCHANGED out
           ELSE s' = rest /\ p' = NULL /\ PrintNode(n)
    /\ UNCHANGED <<node, used, t, pc, op, arg, q, s2, answer>>

Stack2Step ==
    /\ Traverses({"stack2 inorder", "stack2 postorder"})
    /\ p = NULL /\ s # <<>>
    /\ LET n == Last(s)
           later == IsPutOff(n, s2) /\ op = "stack2 postorder"
       IN  /\ IF IsPutOff(n, s2)
              THEN s2' = Front(s2) /\ p' = node[n].right
              ELSE s2' = s2 /\ p' = NULL
           /\ IF later THEN UNCHANGED <<s, out>> ELSE s' = Front(s) /\ PrintNode(n)
    /\ UNCHANGED <<node, used, t, pc, op, arg, q, answer>>

Morris == {"morris preorder", "morris inorder"}

MorrisStep ==
    /\ Traverses(Morris)
    /\ p # NULL
    /\ IF node[p].left = NULL
       THEN PrintNode(p) /\ p' = node[p].right /\ UNCHANGED <<q, pc>>
       ELSE q' = node[p].left /\ pc' = "seek" /\ UNCHANGED <<p, out>>
    /\ UNCHANGED <<node, used, t, op, arg, s, s2, answer>>

\* prev moves to the predecessor of p, where a thread to p is hung or cut.
MorrisSeek ==
    /\ pc = "seek"
    /\ node[q].right \notin {NULL, p}
    /\ q' = node[q].right
    /\ UNCHANGED <<node, used, t, pc, op, arg, p, s, s2, out, answer>>

MorrisHang ==
    /\ pc = "seek"
    /\ node[q].right = NULL
    /\ node' = [node EXCEPT ![q].right = p]
    /\ IF op = "morris preorder" THEN PrintNode(p) ELSE UNCHANGED out
    /\ p' = node[p].left
    /\ pc' = "visit"
    /\ q' = NULL
    /\ UNCHANGED <<used, t, op, arg, s, s2, answer>>

\* Mutant: the thread stays.
MorrisLeavesThread ==
    /\ pc = "seek"
    /\ node[q].right = p
    /\ IF op = "morris inorder" THEN PrintNode(p) ELSE UNCHANGED out
    /\ p' = node[p].right
    /\ pc' = "visit"
    /\ q' = NULL
    /\ UNCHANGED <<node, used, t, op, arg, s, s2, answer>>

MorrisCut ==
    /\ pc = "seek"
    /\ node[q].right = p
    /\ node' = [node EXCEPT ![q].right = NULL]
    /\ IF op = "morris inorder" THEN PrintNode(p) ELSE UNCHANGED out
    /\ p' = node[p].right
    /\ pc' = "visit"
    /\ q' = NULL
    /\ UNCHANGED <<used, t, op, arg, s, s2, answer>>

-----------------------------------------------------------------------------
Children(n) == {node[n].left, node[n].right} \ {NULL}

\* The nodes that can be reached from r along the links: every set without them
\* that holds r lacks a child of one of its nodes.
ReachableFrom(r) ==
    {n \in Node : \A S \in SUBSET (Node \ {n}) :
        r \in S \cup {NULL} => \E m \in S : ~(Children(m) \subseteq S)}

Reachable == ReachableFrom(t)

\* bst_destroy(): every node is freed; the caller must not use its pointer again.
Destroy ==
    /\ pc = "idle"
    /\ used' = used \ Reachable
    /\ pc' = "destroyed"
    /\ UNCHANGED <<node, t, op, arg, p, q, s, s2, out, answer>>

Ended == pc \in {"crashed", "destroyed"} /\ UNCHANGED vars

Next ==
    \/ \E k \in Key : Insert(k) \/ Search(k) \/ Delete(k)
    \/ \E mode \in Order : Traverse(mode)
    \/ Down \/ Predecessor
    \/ SearchDone \/ InsertIntoNothing \/ InsertCollides \/ InsertNode
    \/ DeleteMissing \/ DeleteFound \/ Unlink
    \/ Update
    \/ PreorderStep \/ LevelorderStep \/ DescendLeft \/ InorderStep
    \/ PostorderStep \/ Stack2Step
    \/ MorrisStep \/ MorrisSeek \/ MorrisHang \/ MorrisCut
    \/ TraversalDone
    \/ Destroy
    \/ Ended

Spec == Init /\ [][Next]_vars

-----------------------------------------------------------------------------
(* Properties.                                                             *)

\* A call that is given a key takes effect when its node is found, hung or
\* taken out; the way back comes after that.
Calls == {"insert", "search", "delete"}
Promise == INSTANCE OrderedSet WITH
    NoKey <- NULL,
    keys <- {node[n].key : n \in Reachable},
    call <- IF op \in Calls THEN op ELSE "none",
    done <- op \in Calls /\ pc \in {"update", "crashed"}

\* Every call of bst_insert(), bst_search() and bst_delete() does to the keys of
\* the tree, once and before it returns, what it is asked for its key, and
\* answers so; nothing else changes them.  A rotation, a delete or a traversal
\* that threads the tree would break it by losing or reviving a key, and by
\* putting one where the next call does not look for it.  The insert into a tree
\* that was emptied is as in the code.
ImplementsSet == Promise!SpecAsKept

\* The same with bst_insert() as bst.h has it.  The code does not keep it: delete
\* the last key and insert one.
ImplementsHeader == Promise!Spec

\* Every node below t has one parent, t has none, and no other node is
\* allocated.
HeapIsTree ==
    /\ used = Reachable
    /\ \A n \in Reachable :
          /\ node[n].left # NULL => node[n].left # node[n].right
          /\ Cardinality({m \in Reachable : n \in Children(m)})
                = IF n = t THEN 0 ELSE 1

\* Between two calls, and when a traversal is over, the heap is a tree again.
LeavesTree == pc = "idle" \/ TraversalOver => HeapIsTree

\* A call of bst_delete() never follows a NULL pointer ("Can only fail due to
\* nonexisting key" in bst.h).
DeleteNeverCrashes == op = "delete" => pc # "crashed"

\* Nor does a traversal ("supported and behave as expected" in bst.h).  The
\* pre-order one with a stack does, when the last key was deleted.
TraverseNeverCrashes == op \in Order => pc # "crashed"
=============================================================================
