------------------------------ MODULE BstOrders ------------------------------
(***************************************************************************)
(* The orders of a traversal by recursion, BST_RECURSIVE, and that the     *)
(* traversals of Bst, which use stacks, queues and threads, print the same.*)
(***************************************************************************)
EXTENDS Bst

Symmetry == Permutations(Node)

Preorder[n \in used \cup {NULL}] ==
    IF n = NULL THEN <<>>
    ELSE <<node[n].key>> \o Preorder[node[n].left] \o Preorder[node[n].right]

Inorder[n \in used \cup {NULL}] ==
    IF n = NULL THEN <<>>
    ELSE Inorder[node[n].left] \o <<node[n].key>> \o Inorder[node[n].right]

Postorder[n \in used \cup {NULL}] ==
    IF n = NULL THEN <<>>
    ELSE Postorder[node[n].left] \o Postorder[node[n].right] \o <<node[n].key>>

Recursive(mode) ==
    CASE mode \in {"preorder", "morris preorder"} -> Preorder[t]
      [] mode \in {"inorder", "stack2 inorder", "morris inorder"} -> Inorder[t]
      [] mode \in {"postorder", "stack2 postorder"} -> Postorder[t]

\* The level order, for which the code has no recursive traversal: row by row, and
\* in a row from left to right.
Depth(n) == Cardinality({a \in used : n \in ReachableFrom(a)})

IsAbove(m, n) ==
    \/ Depth(m) < Depth(n)
    \/ Depth(m) = Depth(n) /\ node[m].key < node[n].key

IsLevelorder(keys) ==
    /\ ToSet(keys) = {node[n].key : n \in used}
    /\ \A i, j \in DOMAIN keys : \A m, n \in used :
          i < j /\ keys[i] = node[m].key /\ keys[j] = node[n].key => IsAbove(m, n)

\* Between two calls the nodes that are allocated are a tree: no delete leaks a
\* node or keeps a freed one, no rotation loses or shares a subtree, and no
\* thread is left behind.  When a traversal is over it has printed what the
\* recursive one prints, or the rows of the tree.
LeavesTreeAndOrder ==
    /\ LeavesTree
    /\ TraversalOver =>
          IF op = "levelorder" THEN IsLevelorder(out) ELSE out = Recursive(op)
=============================================================================
