-------------------------- MODULE BstOrders_proofs --------------------------
(***************************************************************************)
(* The traversals of the AVL tree print what the recursive ones print, for *)
(* every tree: however long the stacks, the queue and the threads.         *)
(***************************************************************************)
EXTENDS BstOrders, Bst_proofs

-----------------------------------------------------------------------------
(* The recursive traversals.                                               *)

\* What is printed below a node with key x, from what its two sides print.
Written(style, x, a, b) ==
    IF style = "preorder" THEN <<x>> \o a \o b
    ELSE IF style = "inorder" THEN a \o <<x>> \o b
    ELSE a \o b \o <<x>>

\* f[n] is what is printed below n.
Folds(style, l, r, k, U, f) ==
    /\ f[NULL] = <<>>
    /\ \A n \in U : f[n] = Written(style, k[n], f[l[n]], f[r[n]])

Lists(U) == [U \cup {NULL} -> Seq(Key)]

LEMMA WrittenType ==
    ASSUME NEW style, NEW x \in Key, NEW a \in Seq(Key), NEW b \in Seq(Key)
    PROVE  Written(style, x, a, b) \in Seq(Key)
<1>1. <<x>> \in Seq(Key)
  OBVIOUS
<1>2. <<x>> \o a \in Seq(Key) /\ a \o <<x>> \in Seq(Key) /\ a \o b \in Seq(Key)
  BY <1>1, ConcatProperties
<1>3. <<x>> \o a \o b \in Seq(Key) /\ a \o <<x>> \o b \in Seq(Key) /\ a \o b \o <<x>> \in Seq(Key)
  BY <1>1, <1>2, ConcatProperties
<1> QED BY <1>3 DEF Written

\* Below every node the printing is defined: what its two sides print is put
\* together.
LEMMA FoldsBelow ==
    ASSUME NEW l, NEW r, NEW k, NEW d, NEW U, NEW root, Tree(l, r, k, d, U, root),
           \A m \in U : k[m] \in Key, NEW style, NEW n \in U,
           NEW g \in Lists(U), g[NULL] = <<>>,
           \A m \in d[l[n]] : g[m] = Written(style, k[m], g[l[m]], g[r[m]]),
           NEW h \in Lists(U), h[NULL] = <<>>,
           \A m \in d[r[n]] : h[m] = Written(style, k[m], h[l[m]], h[r[m]])
    PROVE  \E f \in Lists(U) : f[NULL] = <<>> /\
              \A m \in d[n] : f[m] = Written(style, k[m], f[l[m]], f[r[m]])
<1> DEFINE top == Written(style, k[n], g[l[n]], h[r[n]])
           f == [m \in U \cup {NULL} |-> IF m \in d[l[n]] THEN g[m]
                                         ELSE IF m \in d[r[n]] THEN h[m]
                                         ELSE IF m = n THEN top ELSE <<>>]
<1>1. /\ NULL \notin U /\ d[NULL] = {}
      /\ \A m \in U : k[m] \in Int /\ m \in d[m] /\ d[m] \subseteq U
      /\ \A m \in U : l[m] \in U \cup {NULL} /\ r[m] \in U \cup {NULL}
      /\ \A b, m \in U : b \in d[l[m]] <=> b \in d[m] /\ k[b] < k[m]
      /\ \A b, m \in U : b \in d[r[m]] <=> b \in d[m] /\ k[b] > k[m]
      /\ \A b, m \in U : b \in d[m] /\ k[b] = k[m] => b = m
      /\ \A b, m \in U : b \in d[m] => d[b] \subseteq d[m]
  BY TreeFacts
<1>2. \A m \in U \cup {NULL} : g[m] \in Seq(Key) /\ h[m] \in Seq(Key)
  BY DEF Lists
<1>3. top \in Seq(Key) /\ <<>> \in Seq(Key)
  BY <1>1, <1>2, WrittenType
<1>4. l[n] \in U \cup {NULL} /\ r[n] \in U \cup {NULL}
  BY <1>1
<1>5. d[l[n]] \subseteq U /\ d[r[n]] \subseteq U
  BY <1>1, <1>4
<1>6. d[l[n]] \cap d[r[n]] = {} /\ n \notin d[l[n]] /\ n \notin d[r[n]]
  BY <1>1, <1>5
<1>7. \A m \in d[n] : m = n \/ m \in d[l[n]] \/ m \in d[r[n]]
  BY <1>1
<1> HIDE DEF top
<1>8. f \in Lists(U)
  BY <1>2, <1>3 DEF Lists
<1>9. /\ \A m \in d[l[n]] \cup {NULL} : f[m] = g[m]
      /\ \A m \in d[r[n]] \cup {NULL} : f[m] = h[m]
      /\ f[n] = top
  BY <1>1, <1>5, <1>6
<1> HIDE DEF f
<1>10. ASSUME NEW c \in U \cup {NULL}, NEW m \in d[c]
       PROVE  l[m] \in d[c] \cup {NULL} /\ r[m] \in d[c] \cup {NULL}
  <2>1. c \in U /\ m \in U
    BY <1>1, <1>10
  <2>2. l[m] \in U => l[m] \in d[m]
    BY <2>1, <1>1
  <2>3. r[m] \in U => r[m] \in d[m]
    BY <2>1, <1>1
  <2>4. d[m] \subseteq d[c]
    BY <2>1, <1>1, <1>10
  <2> QED BY <2>1, <2>2, <2>3, <2>4, <1>1
<1>11. ASSUME NEW m \in d[n] PROVE f[m] = Written(style, k[m], f[l[m]], f[r[m]])
  <2>1. CASE m \in d[l[n]]
    <3>1. l[m] \in d[l[n]] \cup {NULL} /\ r[m] \in d[l[n]] \cup {NULL}
      BY <2>1, <1>4, <1>10
    <3> QED BY <2>1, <3>1, <1>9
  <2>2. CASE m \in d[r[n]]
    <3>1. l[m] \in d[r[n]] \cup {NULL} /\ r[m] \in d[r[n]] \cup {NULL}
      BY <2>2, <1>4, <1>10
    <3> QED BY <2>2, <3>1, <1>9
  <2>3. CASE m = n
    <3>1. l[n] \in d[l[n]] \cup {NULL} /\ r[n] \in d[r[n]] \cup {NULL}
      BY <1>1, <1>4
    <3> QED BY <2>3, <3>1, <1>9 DEF top
  <2> QED BY <2>1, <2>2, <2>3, <1>7
<1>12. f[NULL] = <<>>
  BY <1>9
<1> QED BY <1>8, <1>11, <1>12

\* What a recursive traversal prints is defined for every tree.
LEMMA FoldsExist ==
    ASSUME NEW l, NEW r, NEW k, NEW d, NEW U, NEW root, Tree(l, r, k, d, U, root),
           \A m \in U : k[m] \in Key, NEW style
    PROVE  \E f \in Lists(U) : Folds(style, l, r, k, U, f)
<1> DEFINE Below(n) == \E f \in Lists(U) : f[NULL] = <<>> /\
              \A m \in d[n] : f[m] = Written(style, k[m], f[l[m]], f[r[m]])
           S == {n \in U : ~Below(n)}
<1>1. /\ NULL \notin U /\ d[NULL] = {} /\ root \in U \cup {NULL} /\ d[root] = U
      /\ \A m \in U : l[m] \in U \cup {NULL} /\ r[m] \in U \cup {NULL}
  BY TreeFacts
<1>2. Below(NULL)
  <2> DEFINE f == [m \in U \cup {NULL} |-> <<>>]
  <2>1. f \in Lists(U) /\ f[NULL] = <<>>
    BY DEF Lists
  <2> HIDE DEF f
  <2> QED BY <2>1, <1>1
<1>3. ASSUME S # {} PROVE FALSE
  <2>1. PICK n \in S : \A b \in S : b \in d[n] => b = n
    <3> HIDE DEF S
    <3>1. S \in SUBSET U
      BY DEF S
    <3> QED BY <3>1, <1>3, SomeLowest
  <2>2. n \in U /\ ~Below(n)
    BY <2>1
  <2>3. l[n] \in U => l[n] \in d[n] /\ l[n] # n
    BY <2>2, AboveChild
  <2>4. r[n] \in U => r[n] \in d[n] /\ r[n] # n
    BY <2>2, AboveChild
  <2> HIDE DEF Below
  <2>5. Below(l[n]) /\ Below(r[n])
    BY <2>1, <2>2, <2>3, <2>4, <1>1, <1>2
  <2>6. PICK g \in Lists(U) : g[NULL] = <<>> /\
              \A m \in d[l[n]] : g[m] = Written(style, k[m], g[l[m]], g[r[m]])
    BY <2>5 DEF Below
  <2>7. PICK h \in Lists(U) : h[NULL] = <<>> /\
              \A m \in d[r[n]] : h[m] = Written(style, k[m], h[l[m]], h[r[m]])
    BY <2>5 DEF Below
  <2>8. Below(n)
    BY <2>2, <2>6, <2>7, FoldsBelow DEF Below
  <2> QED BY <2>2, <2>8
<1>4. Below(root)
  <2> HIDE DEF Below
  <2> QED BY <1>1, <1>2, <1>3
<1> QED BY <1>1, <1>4 DEF Folds

\* And there is only one way to define it.
LEMMA FoldsUnique ==
    ASSUME NEW l, NEW r, NEW k, NEW d, NEW U, NEW root, Tree(l, r, k, d, U, root),
           NEW style, NEW f, NEW g,
           Folds(style, l, r, k, U, f), Folds(style, l, r, k, U, g)
    PROVE  f[root] = g[root]
<1> DEFINE S == {n \in U : f[n] # g[n]}
<1>1. /\ root \in U \cup {NULL}
      /\ \A m \in U : l[m] \in U \cup {NULL} /\ r[m] \in U \cup {NULL}
  BY TreeFacts
<1>2. f[NULL] = g[NULL]
  BY DEF Folds
<1>3. ASSUME S # {} PROVE FALSE
  <2>1. PICK n \in S : \A b \in S : b \in d[n] => b = n
    <3> HIDE DEF S
    <3>1. S \in SUBSET U
      BY DEF S
    <3> QED BY <3>1, <1>3, SomeLowest
  <2>2. n \in U /\ f[n] # g[n]
    BY <2>1
  <2>3. l[n] \in U => l[n] \in d[n] /\ l[n] # n
    BY <2>2, AboveChild
  <2>4. r[n] \in U => r[n] \in d[n] /\ r[n] # n
    BY <2>2, AboveChild
  <2>5. f[l[n]] = g[l[n]]
    BY <2>1, <2>2, <2>3, <1>1, <1>2
  <2>6. f[r[n]] = g[r[n]]
    BY <2>1, <2>2, <2>4, <1>1, <1>2
  <2> QED BY <2>2, <2>5, <2>6 DEF Folds
<1> QED BY <1>1, <1>2, <1>3

\* Which of the recursive traversals a traversal repeats.
Style(mode) ==
    IF mode \in {"preorder", "morris preorder"} THEN "preorder"
    ELSE IF mode \in {"inorder", "stack2 inorder", "morris inorder"} THEN "inorder"
    ELSE "postorder"

\* f says what each recursive call prints, on the tree without the threads of H.
Printed(style, f, H) ==
    f \in Lists(used) /\ Folds(style, Lefts(node), Rights(node, H), Keys(node), used, f)

LEMMA PrintedFacts ==
    ASSUME TypeOK, NEW style, NEW f, NEW H, Printed(style, f, H)
    PROVE  /\ f[NULL] = <<>> /\ \A n \in used \cup {NULL} : f[n] \in Seq(Key)
           /\ \A n \in used :
                 f[n] = Written(style, node[n].key, f[node[n].left], f[Rights(node, H)[n]])
<1>1. \A n \in used : Lefts(node)[n] = node[n].left /\ Keys(node)[n] = node[n].key
  BY NodeTypes DEF Lefts, Keys
<1> QED BY <1>1 DEF Printed, Folds, Lists

LEMMA PrintedExists ==
    ASSUME TypeOK, NEW style, NEW d, NEW H, HeapTree(node, H, d, used, t)
    PROVE  \E f \in Lists(used) : Printed(style, f, H)
<1>1. \A n \in used : Keys(node)[n] \in Key
  BY NodeTypes DEF Keys
<1>2. Tree(Lefts(node), Rights(node, H), Keys(node), d, used, t)
  BY DEF HeapTree
<1>3. \E f \in Lists(used) : Folds(style, Lefts(node), Rights(node, H), Keys(node), used, f)
  BY <1>1, <1>2, FoldsExist
<1> QED BY <1>3 DEF Printed

\* The recursive functions, with the tree in the heap, are such an f.
LEMMA RecursiveFolds ==
    ASSUME TypeOK, NEW d, HeapTree(node, {}, d, used, t)
    PROVE  /\ Folds("preorder", Lefts(node), Rights(node, {}), Keys(node), used, Preorder)
           /\ Folds("inorder", Lefts(node), Rights(node, {}), Keys(node), used, Inorder)
           /\ Folds("postorder", Lefts(node), Rights(node, {}), Keys(node), used, Postorder)
<1> DEFINE l == Lefts(node)
           r == Rights(node, {})
           k == Keys(node)
           P == used \cup {NULL}
           pre(f) == [n \in P |-> IF n = NULL THEN <<>>
                 ELSE <<node[n].key>> \o f[node[n].left] \o f[node[n].right]]
           in(f) == [n \in P |-> IF n = NULL THEN <<>>
                 ELSE f[node[n].left] \o <<node[n].key>> \o f[node[n].right]]
           post(f) == [n \in P |-> IF n = NULL THEN <<>>
                 ELSE f[node[n].left] \o f[node[n].right] \o <<node[n].key>>]
<1>1. /\ NULL \notin used
      /\ \A n \in used : l[n] = node[n].left /\ r[n] = node[n].right /\ k[n] = node[n].key
  BY NodeTypes DEF Lefts, Rights, Keys
<1> HIDE DEF l, r, k
<1>2. ASSUME NEW style PROVE \E f : f \in Lists(used) /\ Folds(style, l, r, k, used, f)
  BY PrintedExists DEF Printed, l, r, k
<1>3. Preorder = pre(Preorder)
  <2>1. PICK f \in Lists(used) : Folds("preorder", l, r, k, used, f)
    BY <1>2
  <2>2. f = pre(f)
    BY <2>1, <1>1 DEF Lists, Folds, Written
  <2>3. \E g : g = pre(g)
    BY <2>2
  <2> QED BY <2>3, Zenon DEF Preorder
<1>4. Inorder = in(Inorder)
  <2>1. PICK f \in Lists(used) : Folds("inorder", l, r, k, used, f)
    BY <1>2
  <2>2. f = in(f)
    BY <2>1, <1>1 DEF Lists, Folds, Written
  <2>3. \E g : g = in(g)
    BY <2>2
  <2> QED BY <2>3, Zenon DEF Inorder
<1>5. Postorder = post(Postorder)
  <2>1. PICK f \in Lists(used) : Folds("postorder", l, r, k, used, f)
    BY <1>2
  <2>2. f = post(f)
    BY <2>1, <1>1 DEF Lists, Folds, Written
  <2>3. \E g : g = post(g)
    BY <2>2
  <2> QED BY <2>3, Zenon DEF Postorder
<1>6. ASSUME NEW f, f = pre(f) PROVE Folds("preorder", l, r, k, used, f)
  <2>1. f[NULL] = <<>> /\ \A n \in used :
           f[n] = <<node[n].key>> \o f[node[n].left] \o f[node[n].right]
    BY <1>1, <1>6
  <2> QED BY <2>1, <1>1 DEF Folds, Written
<1>7. ASSUME NEW f, f = in(f) PROVE Folds("inorder", l, r, k, used, f)
  <2>1. f[NULL] = <<>> /\ \A n \in used :
           f[n] = f[node[n].left] \o <<node[n].key>> \o f[node[n].right]
    BY <1>1, <1>7
  <2> QED BY <2>1, <1>1 DEF Folds, Written
<1>8. ASSUME NEW f, f = post(f) PROVE Folds("postorder", l, r, k, used, f)
  <2>1. f[NULL] = <<>> /\ \A n \in used :
           f[n] = f[node[n].left] \o f[node[n].right] \o <<node[n].key>>
    BY <1>1, <1>8
  <2> QED BY <2>1, <1>1 DEF Folds, Written
<1> HIDE DEF pre, in, post
<1>9. Folds("preorder", l, r, k, used, Preorder)
  BY <1>3, <1>6
<1>10. Folds("inorder", l, r, k, used, Inorder)
  BY <1>4, <1>7
<1>11. Folds("postorder", l, r, k, used, Postorder)
  BY <1>5, <1>8
<1> QED BY <1>9, <1>10, <1>11 DEF l, r, k

\* At the root f says what the recursive traversal prints.
LEMMA RecursiveIsPrinted ==
    ASSUME TypeOK, NEW d, HeapTree(node, {}, d, used, t), NEW mode \in Order \ {"levelorder"},
           NEW f, Printed(Style(mode), f, {})
    PROVE  f[t] = Recursive(mode)
<1> DEFINE l == Lefts(node)
           r == Rights(node, {})
           k == Keys(node)
<1>1. Tree(l, r, k, d, used, t)
  BY DEF HeapTree
<1>2. /\ Folds("preorder", l, r, k, used, Preorder)
      /\ Folds("inorder", l, r, k, used, Inorder)
      /\ Folds("postorder", l, r, k, used, Postorder)
  BY RecursiveFolds
<1>3. Folds(Style(mode), l, r, k, used, f)
  BY DEF Printed
<1> HIDE DEF l, r, k
<1>4. CASE mode \in {"preorder", "morris preorder"}
  <2>1. Style(mode) = "preorder" /\ Recursive(mode) = Preorder[t]
    BY <1>4 DEF Style, Recursive
  <2> QED BY <2>1, <1>1, <1>2, <1>3, FoldsUnique
<1>5. CASE mode \in {"inorder", "stack2 inorder", "morris inorder"}
  <2>1. Style(mode) = "inorder" /\ Recursive(mode) = Inorder[t]
    BY <1>5 DEF Style, Recursive
  <2> QED BY <2>1, <1>1, <1>2, <1>3, FoldsUnique
<1>6. CASE mode \in {"postorder", "stack2 postorder"}
  <2>1. Style(mode) = "postorder" /\ Recursive(mode) = Postorder[t]
    BY <1>6 DEF Style, Recursive
  <2> QED BY <2>1, <1>1, <1>2, <1>3, FoldsUnique
<1> QED BY <1>4, <1>5, <1>6 DEF Order

-----------------------------------------------------------------------------
(* Sequences of keys put together.                                         *)

\* What a node still owes when all on its left is printed and b is what there is
\* to print on its right; a node visited first has printed its key.
Owed(style, x, b) ==
    IF style = "preorder" THEN b
    ELSE IF style = "inorder" THEN <<x>> \o b
    ELSE b \o <<x>>

LEMMA OwedType ==
    ASSUME NEW style, NEW x \in Key, NEW b \in Seq(Key)
    PROVE  Owed(style, x, b) \in Seq(Key)
<1>1. <<x>> \in Seq(Key)
  OBVIOUS
<1>2. <<x>> \o b \in Seq(Key) /\ b \o <<x>> \in Seq(Key)
  BY <1>1, ConcatProperties
<1> QED BY <1>2 DEF Owed

\* What is printed below a node is what its left side prints, then what it owes.
LEMMA LeftThenOwed ==
    ASSUME NEW style \in {"inorder", "postorder"}, NEW x \in Key,
           NEW a \in Seq(Key), NEW b \in Seq(Key), NEW z \in Seq(Key)
    PROVE  Written(style, x, a, b) \o z = a \o (Owed(style, x, b) \o z)
<1> DEFINE one == <<x>>
<1>1. one \in Seq(Key)
  OBVIOUS
<1> HIDE DEF one
<1>2. /\ one \o b \in Seq(Key) /\ b \o one \in Seq(Key) /\ a \o b \in Seq(Key)
  BY <1>1, ConcatProperties
<1>3. (a \o one) \o b = a \o (one \o b) /\ (a \o b) \o one = a \o (b \o one)
  <2>1. (a \o one) \o b = a \o (one \o b)
    BY <1>1, ConcatAssociative, SMTT(30)
  <2>2. (a \o b) \o one = a \o (b \o one)
    BY <1>1, ConcatAssociative
  <2> QED BY <2>1, <2>2
<1>4. (a \o (one \o b)) \o z = a \o ((one \o b) \o z)
  <2>1. PICK y \in Seq(Key) : y = one \o b
    BY <1>2
  <2>2. (a \o y) \o z = a \o (y \o z)
    BY ConcatAssociative, SMTT(30)
  <2> QED BY <2>1, <2>2
<1>5. (a \o (b \o one)) \o z = a \o ((b \o one) \o z)
  <2>1. PICK y \in Seq(Key) : y = b \o one
    BY <1>2
  <2>2. (a \o y) \o z = a \o (y \o z)
    BY ConcatAssociative, SMTT(30)
  <2> QED BY <2>1, <2>2
<1>6. CASE style = "inorder"
  <2>1. Written(style, x, a, b) = a \o one \o b /\ Owed(style, x, b) = one \o b
    BY <1>6 DEF Written, Owed, one
  <2> QED BY <2>1, <1>3, <1>4
<1>7. CASE style = "postorder"
  <2>1. Written(style, x, a, b) = a \o b \o one /\ Owed(style, x, b) = b \o one
    BY <1>7 DEF Written, Owed, one
  <2> QED BY <2>1, <1>3, <1>5
<1> QED BY <1>6, <1>7

\* A key that is next is printed.
LEMMA KeyPrinted ==
    ASSUME NEW x \in Key, NEW a \in Seq(Key), NEW z \in Seq(Key)
    PROVE  Append(a, x) \o z = a \o (<<x>> \o z)
<1> DEFINE one == <<x>>
<1>1. one \in Seq(Key) /\ Append(a, x) = a \o one
  BY AppendIsConcat
<1> HIDE DEF one
<1>2. (a \o one) \o z = a \o (one \o z)
  BY <1>1, ConcatAssociative
<1> QED BY <1>1, <1>2 DEF one

\* In order the key comes first of what is owed.
LEMMA InorderOwed ==
    ASSUME NEW x \in Key, NEW a \in Seq(Key), NEW b \in Seq(Key), NEW z \in Seq(Key)
    PROVE  a \o (<<>> \o (Owed("inorder", x, b) \o z)) = Append(a, x) \o (b \o z)
<1> DEFINE one == <<x>>
<1>1. one \in Seq(Key) /\ Owed("inorder", x, b) = one \o b
  BY DEF Owed
<1>2. b \o z \in Seq(Key)
  BY ConcatProperties
<1>3. Append(a, x) \o (b \o z) = a \o (one \o (b \o z))
  BY <1>2, KeyPrinted
<1> HIDE DEF one
<1>4. (one \o b) \o z = one \o (b \o z) /\ one \o (b \o z) \in Seq(Key)
  BY <1>1, <1>2, ConcatAssociative, ConcatProperties, SMTT(30)
<1>5. <<>> \o (one \o (b \o z)) = one \o (b \o z)
  BY <1>4, ConcatEmptySeq
<1> QED BY <1>1, <1>3, <1>4, <1>5

\* In postorder the right side comes first, and the key remains owed.
LEMMA PostorderOwed ==
    ASSUME NEW x \in Key, NEW a \in Seq(Key), NEW b \in Seq(Key), NEW z \in Seq(Key)
    PROVE  /\ <<>> \o (Owed("postorder", x, b) \o z) = b \o (Owed("postorder", x, <<>>) \o z)
           /\ a \o (<<>> \o (Owed("postorder", x, <<>>) \o z)) = Append(a, x) \o (<<>> \o z)
<1> DEFINE one == <<x>>
<1>1. /\ one \in Seq(Key) /\ <<>> \in Seq(Key) /\ Owed("postorder", x, b) = b \o one
      /\ Owed("postorder", x, <<>>) = <<>> \o one
  BY DEF Owed
<1>2. Append(a, x) \o z = a \o (one \o z)
  BY KeyPrinted
<1> HIDE DEF one
<1>3. <<>> \o one = one /\ <<>> \o z = z
  BY <1>1, ConcatEmptySeq
<1>4. one \o z \in Seq(Key) /\ (b \o one) \o z = b \o (one \o z)
  BY <1>1, ConcatProperties, ConcatAssociative, SMTT(30)
<1>5. b \o (one \o z) \in Seq(Key)
  BY <1>4, ConcatProperties
<1>6. <<>> \o (b \o (one \o z)) = b \o (one \o z) /\ <<>> \o (one \o z) = one \o z
  BY <1>4, <1>5, ConcatEmptySeq
<1> QED BY <1>1, <1>2, <1>3, <1>4, <1>6

\* Before the rest of a preorder comes the key.
LEMMA PreorderOwed ==
    ASSUME NEW x \in Key, NEW b \in Seq(Key), NEW c \in Seq(Key), NEW z \in Seq(Key)
    PROVE  Written("preorder", x, b, c) \o z = <<x>> \o (b \o (c \o z))
<1> DEFINE one == <<x>>
<1>1. one \in Seq(Key) /\ Written("preorder", x, b, c) = one \o b \o c
  BY DEF Written
<1>2. c \o z \in Seq(Key)
  BY ConcatProperties
<1> HIDE DEF one
<1>3. one \o b \in Seq(Key)
  BY <1>1, ConcatProperties
<1>4. ((one \o b) \o c) \o z = (one \o b) \o (c \o z)
  BY <1>3, ConcatAssociative, SMTT(30)
<1>5. (one \o b) \o (c \o z) = one \o (b \o (c \o z))
  <2>1. PICK y \in Seq(Key) : y = c \o z
    BY <1>2
  <2>2. PICK w \in Seq(Key) : w = one
    BY <1>1
  <2>3. (w \o b) \o y = w \o (b \o y)
    BY ConcatAssociative, SMTT(30)
  <2> QED BY <2>1, <2>2, <2>3
<1> QED BY <1>1, <1>4, <1>5 DEF one

-----------------------------------------------------------------------------
(* The traversals with stacks.                                             *)

Stack2 == {"stack2 inorder", "stack2 postorder"}
Stacks == {"inorder", "postorder"} \cup Stack2

LEMMA StackStyle ==
    ASSUME NEW mode \in Stacks
    PROVE  Style(mode) = IF mode \in {"inorder", "stack2 inorder"} THEN "inorder"
                         ELSE "postorder"
BY DEF Stacks, Stack2, Style

\* A node at which the traversal has gone left, the right child that it has put
\* off there, the stacks up to it, and what is to be printed when all on its left
\* is.
Waypoint == [at : Node, put : Pointer, stack : Seq(Node), second : Seq(Node),
             rest : Seq(Key)]

\* The waypoint v lies on u.
LiesOn(mode, h, f, u, v) ==
    /\ v.put \in {h[v.at].right, NULL}
    /\ Style(mode) = "inorder" => v.put = h[v.at].right
    /\ v.stack = Append(IF mode = "postorder" THEN Pushed(u.stack, v.put) ELSE u.stack, v.at)
    /\ v.second = IF mode \in Stack2 THEN Pushed(u.second, v.put) ELSE u.second
    /\ v.rest = Owed(Style(mode), h[v.at].key, f[v.put]) \o u.rest

Under(d, m, n) == m \in d[n] /\ m # n

\* The last of the right children that were put off lies on the second stack.
PutOffLast(G, i) ==
    G[i].second # <<>> =>
        \E j \in 1..i : G[j].put # NULL /\ Last(G[i].second) = G[j].put

\* L waypoints, each below the one it lies on.
Waypoints(mode, h, f, d, U, G, L) ==
    /\ G \in [Nat -> Waypoint] /\ L \in Nat
    /\ G[0].stack = <<>> /\ G[0].second = <<>> /\ G[0].rest = <<>>
    /\ \A i \in 1..L : /\ G[i].at \in U /\ LiesOn(mode, h, f, G[i - 1], G[i])
                       /\ PutOffLast(G, i)
                       /\ \A j \in 1..(i - 1) : Under(d, G[i].at, G[j].at)

\* The traversal is at p, and has yet to print what is below it and what the
\* waypoints owe.
OnTheWay(d, f, G, L) ==
    /\ Waypoints(op, node, f, d, used, G, L)
    /\ s = G[L].stack /\ s2 = G[L].second
    /\ p \in used \cup {NULL}
    /\ p # NULL => \A i \in 1..L : Under(d, p, G[i].at)
    /\ out \o (f[p] \o G[L].rest) = f[t]

\* One waypoint more.
LEMMA WaypointPushed ==
    ASSUME NEW mode, NEW h, NEW f, NEW d, NEW U, NEW G, NEW L,
           Waypoints(mode, h, f, d, U, G, L), NEW v \in Waypoint,
           v.at \in U, LiesOn(mode, h, f, G[L], v),
           \A i \in 1..L : Under(d, v.at, G[i].at)
    PROVE  \E G2 : Waypoints(mode, h, f, d, U, G2, L + 1) /\ G2[L + 1] = v
<1> DEFINE G2 == [G EXCEPT ![L + 1] = v]
<1>1. /\ G \in [Nat -> Waypoint] /\ L \in Nat
      /\ G[0].stack = <<>> /\ G[0].second = <<>> /\ G[0].rest = <<>>
      /\ \A i \in 1..L : /\ G[i].at \in U /\ LiesOn(mode, h, f, G[i - 1], G[i])
                         /\ PutOffLast(G, i)
                         /\ \A j \in 1..(i - 1) : Under(d, G[i].at, G[j].at)
  BY DEF Waypoints
<1>2. G2 \in [Nat -> Waypoint] /\ G2[L + 1] = v /\ \A i \in 0..L : G2[i] = G[i]
  BY <1>1
<1> HIDE DEF G2
<1>3. L + 1 \in Nat /\ G2[0] = G[0]
  BY <1>1, <1>2
<1>4. ASSUME NEW i \in 1..(L + 1)
      PROVE  /\ G2[i].at \in U /\ LiesOn(mode, h, f, G2[i - 1], G2[i])
             /\ \A j \in 1..(i - 1) : Under(d, G2[i].at, G2[j].at)
  <2>1. CASE i \in 1..L
    <3>1. G2[i] = G[i] /\ G2[i - 1] = G[i - 1] /\ \A j \in 1..(i - 1) : G2[j] = G[j]
      BY <2>1, <1>1, <1>2
    <3> QED BY <2>1, <3>1, <1>1
  <2>2. CASE i = L + 1
    <3>1. G2[i] = v /\ G2[i - 1] = G[L] /\ \A j \in 1..(i - 1) : j \in 1..L /\ G2[j] = G[j]
      BY <2>2, <1>1, <1>2
    <3> QED BY <3>1
  <2> QED BY <2>1, <2>2, <1>1
<1>5. ASSUME NEW i \in 1..L PROVE PutOffLast(G2, i)
  <2>1. PutOffLast(G, i)
    BY <1>1
  <2>2. G2[i] = G[i] /\ \A j \in 1..i : G2[j] = G[j]
    BY <1>1, <1>2
  <2> QED BY <2>1, <2>2 DEF PutOffLast
<1>6. PutOffLast(G2, L + 1)
  <2>1. v.second = G[L].second \/ (v.put # NULL /\ v.second = Append(G[L].second, v.put))
    BY DEF LiesOn, Pushed
  <2>2. CASE v.second = G[L].second
    <3>1. ASSUME v.second # <<>>
          PROVE  \E j \in 1..(L + 1) : G2[j].put # NULL /\ Last(v.second) = G2[j].put
      <4>1. L \in 1..L
        BY <2>2, <3>1, <1>1
      <4>2. PICK j \in 1..L : G[j].put # NULL /\ Last(v.second) = G[j].put
        BY <2>2, <3>1, <4>1, <1>1 DEF PutOffLast
      <4>3. j \in 1..(L + 1) /\ G2[j] = G[j]
        BY <1>1, <1>2
      <4> QED BY <4>2, <4>3
    <3> QED BY <3>1, <1>2 DEF PutOffLast
  <2>3. CASE v.put # NULL /\ v.second = Append(G[L].second, v.put)
    <3>1. G[L].second \in Seq(Node) /\ v.put \in Node
      BY <2>3, <1>1 DEF Waypoint, Pointer
    <3>2. Last(v.second) = v.put
      BY <2>3, <3>1, PushLast
    <3>3. L + 1 \in 1..(L + 1)
      BY <1>1
    <3> QED BY <2>3, <3>2, <3>3, <1>2 DEF PutOffLast
  <2> QED BY <2>1, <2>2, <2>3
<1>7. ASSUME NEW i \in 1..(L + 1) PROVE PutOffLast(G2, i)
  <2>1. i \in 1..L \/ i = L + 1
    BY <1>1
  <2> QED BY <2>1, <1>5, <1>6
<1>8. Waypoints(mode, h, f, d, U, G2, L + 1)
  BY <1>1, <1>2, <1>3, <1>4, <1>7 DEF Waypoints
<1> QED BY <1>2, <1>8

\* One waypoint less.
LEMMA WaypointPopped ==
    ASSUME NEW mode, NEW h, NEW f, NEW d, NEW U, NEW G, NEW L,
           Waypoints(mode, h, f, d, U, G, L), L # 0
    PROVE  /\ L - 1 \in Nat /\ L \in 1..L /\ Waypoints(mode, h, f, d, U, G, L - 1)
           /\ G[L] \in Waypoint /\ G[L - 1] \in Waypoint
           /\ G[L].at \in U /\ LiesOn(mode, h, f, G[L - 1], G[L])
           /\ \A j \in 1..(L - 1) : j \in 1..L /\ Under(d, G[L].at, G[j].at)
<1>1. /\ G \in [Nat -> Waypoint] /\ L \in Nat
      /\ G[0].stack = <<>> /\ G[0].second = <<>> /\ G[0].rest = <<>>
      /\ \A i \in 1..L : /\ G[i].at \in U /\ LiesOn(mode, h, f, G[i - 1], G[i])
                         /\ PutOffLast(G, i)
                         /\ \A j \in 1..(i - 1) : Under(d, G[i].at, G[j].at)
  BY DEF Waypoints
<1>2. L - 1 \in Nat /\ L \in 1..L /\ \A i \in 1..(L - 1) : i \in 1..L
  BY <1>1
<1>3. Waypoints(mode, h, f, d, U, G, L - 1)
  BY <1>1, <1>2 DEF Waypoints
<1>4. G[L].at \in U /\ LiesOn(mode, h, f, G[L - 1], G[L])
      /\ \A j \in 1..(L - 1) : Under(d, G[L].at, G[j].at)
  BY <1>1, <1>2
<1> QED BY <1>1, <1>2, <1>3, <1>4

\* A child is below whatever is above its parent.
LEMMA ChildUnder ==
    ASSUME NEW l, NEW r, NEW k, NEW d, NEW U, NEW root, Tree(l, r, k, d, U, root),
           NEW a \in U, NEW c \in U, c = l[a] \/ c = r[a]
    PROVE  Under(d, c, a) /\ \A n \in U : Under(d, a, n) => Under(d, c, n)
<1>1. c \in d[a] /\ c # a
  BY AboveChild
<1>2. ASSUME NEW n \in U, Under(d, a, n) PROVE Under(d, c, n)
  <2>1. a \in d[n] /\ a # n
    BY <1>2 DEF Under
  <2>2. c \in d[n]
    BY <2>1, <1>1, TreeFacts
  <2>3. c # n
    BY <2>1, <1>1, BelowAntisymmetric
  <2> QED BY <2>2, <2>3 DEF Under
<1> QED BY <1>1, <1>2 DEF Under

\* The tree and what is printed below its nodes, when no thread hangs.
LEMMA StillTree ==
    ASSUME TypeOK, NEW d, HeapTree(node, {}, d, used, t), NEW f, Printed(Style(op), f, {})
    PROVE  /\ used \subseteq Node /\ NULL \notin used /\ t \in used \cup {NULL}
           /\ Tree(Lefts(node), Rights(node, {}), Keys(node), d, used, t)
           /\ \A n \in used : /\ node[n].key \in Key
                              /\ node[n].left \in used \cup {NULL}
                              /\ node[n].right \in used \cup {NULL}
                              /\ node[n].left = Lefts(node)[n]
                              /\ node[n].right = Rights(node, {})[n]
           /\ f[NULL] = <<>> /\ \A n \in used \cup {NULL} : f[n] \in Seq(Key)
           /\ \A n \in used :
                 f[n] = Written(Style(op), node[n].key, f[node[n].left], f[node[n].right])
<1>1. Tree(Lefts(node), Rights(node, {}), Keys(node), d, used, t)
  BY DEF HeapTree
<1>2. \A n \in Node : Lefts(node)[n] = node[n].left /\ Rights(node, {})[n] = node[n].right
  BY DEF Lefts, Rights
<1>3. /\ used \subseteq Node /\ NULL \notin used /\ t \in used \cup {NULL}
      /\ \A n \in used : Lefts(node)[n] \in used \cup {NULL}
                         /\ Rights(node, {})[n] \in used \cup {NULL}
  BY <1>1, TreeFacts
<1>4. \A n \in used : node[n].key \in Key
  BY <1>3, NodeTypes
<1>5. /\ f[NULL] = <<>> /\ \A n \in used \cup {NULL} : f[n] \in Seq(Key)
      /\ \A n \in used :
            f[n] = Written(Style(op), node[n].key, f[node[n].left], f[Rights(node, {})[n]])
  BY PrintedFacts
<1> QED BY <1>1, <1>2, <1>3, <1>4, <1>5

\* The way down makes p a waypoint.
LEMMA DescendLeftPrints ==
    ASSUME IInv, DescendLeft, NEW d, HeapTree(node, {}, d, used, t),
           NEW f, Printed(Style(op), f, {}), NEW G, NEW L, OnTheWay(d, f, G, L)
    PROVE  \E G2, L2 : OnTheWay(d, f, G2, L2)'
<1>1. /\ op \in Stacks /\ p # NULL
      /\ s' = Append(IF op = "postorder" THEN Pushed(s, node[p].right) ELSE s, p)
      /\ s2' = IF op \in Stack2 THEN Pushed(s2, node[p].right) ELSE s2
      /\ p' = node[p].left
      /\ UNCHANGED <<node, used, t, op, out>>
  BY DEF DescendLeft, Traverses, Stacks, Stack2
<1>2. TypeOK /\ s \in Seq(Node) /\ s2 \in Seq(Node) /\ s' \in Seq(Node) /\ s2' \in Seq(Node)
  <2>1. pc = "visit" /\ pc' = "visit" /\ op # "preorder" /\ op' # "preorder"
    BY DEF DescendLeft, Traverses
  <2>2. IInv'
    BY DescendLeftKeeps
  <2>3. s' \in Seq(Node) /\ s2' \in Seq(Node)
    BY <2>1, <2>2 DEF IInv, Control
  <2> QED BY <2>1, <2>3, StackTypes
<1>3. /\ Waypoints(op, node, f, d, used, G, L)
      /\ s = G[L].stack /\ s2 = G[L].second /\ p \in used
      /\ \A i \in 1..L : Under(d, p, G[i].at)
      /\ out \o (f[p] \o G[L].rest) = f[t]
      /\ G[L].rest \in Seq(Key) /\ L \in Nat /\ \A i \in 1..L : G[i].at \in used
  <2>1. G \in [Nat -> Waypoint] /\ L \in Nat /\ \A i \in 1..L : G[i].at \in used
    BY DEF OnTheWay, Waypoints
  <2>2. G[L].rest \in Seq(Key)
    BY <2>1 DEF Waypoint
  <2> QED BY <1>1, <2>1, <2>2 DEF OnTheWay
<1>4. /\ p \in Node /\ node[p].key \in Key
      /\ node[p].left \in used \cup {NULL} /\ node[p].right \in used \cup {NULL}
      /\ f[node[p].left] \in Seq(Key) /\ f[node[p].right] \in Seq(Key)
      /\ f[p] = Written(Style(op), node[p].key, f[node[p].left], f[node[p].right])
  BY <1>2, <1>3, StillTree
<1>5. used \subseteq Node /\ node[p].right \in Pointer
  BY <1>2, <1>4, NodeTypes
<1>6. PICK z : z = Owed(Style(op), node[p].key, f[node[p].right]) \o G[L].rest
  OBVIOUS
<1>7. z \in Seq(Key)
  <2>1. Owed(Style(op), node[p].key, f[node[p].right]) \in Seq(Key)
    BY <1>4, OwedType
  <2> QED BY <2>1, <1>3, <1>6, ConcatProperties
<1>8. PICK v : v = [at |-> p, put |-> node[p].right, stack |-> s', second |-> s2', rest |-> z]
  OBVIOUS
<1>9. v \in Waypoint /\ v.at \in used
  BY <1>2, <1>3, <1>4, <1>5, <1>7, <1>8 DEF Waypoint
<1>10. LiesOn(op, node, f, G[L], v)
  BY <1>1, <1>3, <1>6, <1>8 DEF LiesOn
<1>11. \A i \in 1..L : Under(d, v.at, G[i].at)
  BY <1>3, <1>8
<1>12. PICK G2 : Waypoints(op, node, f, d, used, G2, L + 1) /\ G2[L + 1] = v
  BY <1>3, <1>9, <1>10, <1>11, WaypointPushed
<1>13. s' = G2[L + 1].stack /\ s2' = G2[L + 1].second /\ G2[L + 1].rest = z
  BY <1>8, <1>12
<1>14. ASSUME p' # NULL, NEW i \in 1..(L + 1) PROVE Under(d, p', G2[i].at)
  <2>1. /\ node[p].left \in used /\ p' = node[p].left
        /\ node[p].left = Lefts(node)[p]
        /\ Tree(Lefts(node), Rights(node, {}), Keys(node), d, used, t)
    BY <1>1, <1>2, <1>3, <1>4, <1>14, StillTree
  <2>2. Under(d, p', p) /\ \A n \in used : Under(d, p, n) => Under(d, p', n)
    BY <2>1, <1>3, ChildUnder
  <2>3. CASE i = L + 1
    BY <2>2, <2>3, <1>8, <1>12
  <2>4. CASE i # L + 1
    <3>1. L + 1 \in Nat \ {0} /\ i \in 1..((L + 1) - 1)
      BY <2>4, <1>3
    <3>2. Under(d, G2[L + 1].at, G2[i].at) /\ G2[i].at \in used
      <4>1. L + 1 \in 1..(L + 1)
        BY <1>3
      <4> QED BY <3>1, <4>1, <1>12 DEF Waypoints
    <3> QED BY <2>2, <3>2, <1>8, <1>12
  <2> QED BY <2>3, <2>4
<1>15. out \o (f[node[p].left] \o z) = f[t]
  <2>1. Style(op) \in {"inorder", "postorder"}
    BY <1>1, StackStyle
  <2>2. f[p] \o G[L].rest = f[node[p].left] \o z
    <3>1. /\ node[p].key \in Key /\ G[L].rest \in Seq(Key)
          /\ f[node[p].left] \in Seq(Key) /\ f[node[p].right] \in Seq(Key)
      BY <1>3, <1>4
    <3>2. Written(Style(op), node[p].key, f[node[p].left], f[node[p].right]) \o G[L].rest
             = f[node[p].left] \o (Owed(Style(op), node[p].key, f[node[p].right]) \o G[L].rest)
      <4>1. PICK m \in {"inorder", "postorder"} : m = Style(op)
        BY <2>1
      <4>2. PICK x \in Key : x = node[p].key
        BY <3>1
      <4>3. PICK a \in Seq(Key) : a = f[node[p].left]
        BY <3>1
      <4>4. PICK b \in Seq(Key) : b = f[node[p].right]
        BY <3>1
      <4>5. PICK y \in Seq(Key) : y = G[L].rest
        BY <3>1
      <4>6. Written(m, x, a, b) \o y = a \o (Owed(m, x, b) \o y)
        BY LeftThenOwed, ZenonT(60)
      <4> QED BY <4>1, <4>2, <4>3, <4>4, <4>5, <4>6
    <3> QED BY <3>2, <1>4, <1>6
  <2> QED BY <2>2, <1>3
<1>16. OnTheWay(d, f, G2, L + 1)'
  <2>1. Waypoints(op, node, f, d, used, G2, L + 1)'
    BY <1>1, <1>12
  <2>2. (p \in used \cup {NULL})'
    BY <1>1, <1>4
  <2>3. (p # NULL => \A i \in 1..(L + 1) : Under(d, p, G2[i].at))'
    BY <1>14
  <2>4. (out \o (f[p] \o G2[L + 1].rest) = f[t])'
    BY <1>1, <1>13, <1>15
  <2> QED BY <2>1, <2>2, <2>3, <2>4, <1>13 DEF OnTheWay
<1> QED BY <1>16

LEMMA FrontOfPush ==
    ASSUME NEW S, NEW stack \in Seq(S), NEW c \in S
    PROVE  /\ Append(stack, c) # <<>>
           /\ Front(Append(stack, c)) = stack /\ Last(Append(stack, c)) = c
<1> DEFINE longer == Append(stack, c)
<1>1. longer \in Seq(S) /\ longer # <<>> /\ Last(longer) = c
  BY PushFacts, PushLast
<1>2. /\ DOMAIN longer = 1..(Len(stack) + 1) /\ Len(stack) \in Nat
      /\ \A i \in 1..Len(stack) : longer[i] = stack[i]
  BY PushFacts
<1>3. Len(longer) = Len(stack) + 1
  OBVIOUS
<1> HIDE DEF longer
<1>4. /\ Front(longer) \in Seq(S) /\ Len(Front(longer)) = Len(longer) - 1
      /\ \A i \in 1..(Len(longer) - 1) : Front(longer)[i] = longer[i]
  BY <1>1, PopFacts
<1>5. Front(longer) = stack
  BY <1>2, <1>3, <1>4, SeqEqual
<1> QED BY <1>1, <1>5 DEF longer

\* The waypoint at the top, when the way down has ended.
AtTheTop(f, G, L) ==
    /\ L \in Nat \ {0}
    /\ G[L] \in Waypoint /\ G[L - 1] \in Waypoint
    /\ G[L].at \in used /\ G[L].at \in Node
    /\ node[G[L].at].key \in Key /\ LiesOn(op, node, f, G[L - 1], G[L])
    /\ G[L].put \in used \cup {NULL} /\ f[G[L].put] \in Seq(Key)
    /\ G[L - 1].rest \in Seq(Key) /\ out \in Seq(Key)
    /\ s = G[L].stack /\ s2 = G[L].second /\ Last(s) = G[L].at
    /\ Front(s) = IF op = "postorder" THEN Pushed(G[L - 1].stack, G[L].put)
                  ELSE G[L - 1].stack
    /\ out \o (<<>> \o (Owed(Style(op), node[G[L].at].key, f[G[L].put])
                       \o G[L - 1].rest)) = f[t]

LEMMA TopWaypoint ==
    ASSUME TypeOK, NEW d, HeapTree(node, {}, d, used, t),
           NEW f, Printed(Style(op), f, {}), NEW G, NEW L, OnTheWay(d, f, G, L),
           op \in Stacks, s # <<>>, p = NULL
    PROVE  AtTheTop(f, G, L) /\ Waypoints(op, node, f, d, used, G, L)
<1>1. /\ Waypoints(op, node, f, d, used, G, L) /\ s = G[L].stack /\ s2 = G[L].second
      /\ out \o (f[NULL] \o G[L].rest) = f[t]
  BY DEF OnTheWay
<1>2. L \in Nat \ {0}
  BY <1>1 DEF Waypoints
<1>3. /\ L - 1 \in Nat /\ G[L] \in Waypoint /\ G[L - 1] \in Waypoint
      /\ G[L].at \in used /\ LiesOn(op, node, f, G[L - 1], G[L])
  BY <1>1, <1>2, WaypointPopped
<1>4. G[L].at \in Node /\ node[G[L].at].key \in Key
  BY <1>3, StillTree
<1>5. G[L].put \in used \cup {NULL}
  <2>1. node[G[L].at].right \in used \cup {NULL}
    BY <1>3, StillTree
  <2> QED BY <2>1, <1>3 DEF LiesOn
<1>6. f[NULL] = <<>> /\ f[G[L].put] \in Seq(Key)
  BY <1>5, StillTree
<1>7. G[L - 1].rest \in Seq(Key) /\ G[L - 1].stack \in Seq(Node) /\ out \in Seq(Key)
  BY <1>3 DEF Waypoint, TypeOK
<1> DEFINE base == IF op = "postorder" THEN Pushed(G[L - 1].stack, G[L].put)
                   ELSE G[L - 1].stack
<1>8. base \in Seq(Node)
  <2>1. G[L].put \in Node \cup {NULL}
    BY <1>5, StillTree
  <2>2. Pushed(G[L - 1].stack, G[L].put) \in Seq(Node)
    BY <2>1, <1>7, PushedType
  <2> QED BY <2>2, <1>7
<1>9. s = Append(base, G[L].at)
  BY <1>1, <1>3 DEF LiesOn
<1> HIDE DEF base
<1>10. Last(s) = G[L].at /\ Front(s) = base
  BY <1>4, <1>8, <1>9, FrontOfPush
<1>11. G[L].rest = Owed(Style(op), node[G[L].at].key, f[G[L].put]) \o G[L - 1].rest
  BY <1>3 DEF LiesOn
<1>12. out \o (<<>> \o (Owed(Style(op), node[G[L].at].key, f[G[L].put])
                       \o G[L - 1].rest)) = f[t]
  BY <1>1, <1>6, <1>11
<1>13. AtTheTop(f, G, L)
  BY <1>1, <1>2, <1>3, <1>4, <1>5, <1>6, <1>7, <1>10, <1>12 DEF base, AtTheTop
<1> QED BY <1>1, <1>13

\* The node at the top is printed; its right child is next, if it has one that is
\* not printed yet.
LEMMA WaypointLeft ==
    ASSUME TypeOK, NEW d, HeapTree(node, {}, d, used, t),
           NEW f, Printed(Style(op), f, {}), NEW G, NEW L, OnTheWay(d, f, G, L),
           op \in Stacks, s # <<>>, p = NULL,
           Style(op) = "inorder" \/ G[L].put = NULL,
           UNCHANGED <<node, used, t, op>>,
           out' = Append(out, node[G[L].at].key), p' = G[L].put,
           s' = G[L - 1].stack, s2' = G[L - 1].second
    PROVE  OnTheWay(d, f, G, L - 1)'
<1>1. /\ L \in Nat \ {0} /\ Waypoints(op, node, f, d, used, G, L)
      /\ G[L].at \in used /\ node[G[L].at].key \in Key
      /\ LiesOn(op, node, f, G[L - 1], G[L])
      /\ G[L].put \in used \cup {NULL} /\ f[G[L].put] \in Seq(Key)
      /\ G[L - 1].rest \in Seq(Key) /\ out \in Seq(Key)
      /\ out \o (<<>> \o (Owed(Style(op), node[G[L].at].key, f[G[L].put])
                         \o G[L - 1].rest)) = f[t]
  <2>1. AtTheTop(f, G, L) /\ Waypoints(op, node, f, d, used, G, L)
    BY TopWaypoint
  <2> QED BY <2>1 DEF AtTheTop
<1>2. /\ Waypoints(op, node, f, d, used, G, L - 1)
      /\ \A j \in 1..(L - 1) : j \in 1..L /\ Under(d, G[L].at, G[j].at)
  BY <1>1, WaypointPopped
<1>3. Waypoints(op, node, f, d, used, G, L - 1)'
  BY <1>2
<1>4. ASSUME p' # NULL, NEW i \in 1..(L - 1) PROVE Under(d, p', G[i].at)
  <2>1. /\ G[L].put \in used /\ G[L].put = Rights(node, {})[G[L].at]
        /\ G[L].at \in used
        /\ Tree(Lefts(node), Rights(node, {}), Keys(node), d, used, t)
    BY <1>1, <1>4, StillTree DEF LiesOn
  <2>2. \A n \in used : Under(d, G[L].at, n) => Under(d, G[L].put, n)
    BY <2>1, ChildUnder
  <2>3. G[i].at \in used
    BY <1>2 DEF Waypoints
  <2> QED BY <2>2, <2>3, <1>2
<1>5. Append(out, node[G[L].at].key) \o (f[G[L].put] \o G[L - 1].rest) = f[t]
  <2>1. PICK x \in Key : x = node[G[L].at].key
    BY <1>1
  <2>2. PICK a \in Seq(Key) : a = out
    BY <1>1
  <2>3. PICK b \in Seq(Key) : b = f[G[L].put]
    BY <1>1
  <2>4. PICK z \in Seq(Key) : z = G[L - 1].rest
    BY <1>1
  <2>5. CASE Style(op) = "inorder"
    <3>1. a \o (<<>> \o (Owed("inorder", x, b) \o z)) = Append(a, x) \o (b \o z)
      BY InorderOwed
    <3> QED BY <2>1, <2>2, <2>3, <2>4, <2>5, <3>1, <1>1
  <2>6. CASE Style(op) # "inorder"
    <3>1. Style(op) = "postorder" /\ G[L].put = NULL /\ f[NULL] = <<>>
      BY <2>6, StackStyle, StillTree
    <3>2. a \o (<<>> \o (Owed("postorder", x, <<>>) \o z)) = Append(a, x) \o (<<>> \o z)
      BY PostorderOwed
    <3> QED BY <2>1, <2>2, <2>3, <2>4, <3>1, <3>2, <1>1
  <2> QED BY <2>5, <2>6
<1>6. (out \o (f[p] \o G[L - 1].rest) = f[t])'
  BY <1>5
<1>7. (p \in used \cup {NULL})' /\ (s = G[L - 1].stack)' /\ (s2 = G[L - 1].second)'
  BY <1>1
<1>8. (p # NULL => \A i \in 1..(L - 1) : Under(d, p, G[i].at))'
  BY <1>4
<1> QED BY <1>3, <1>6, <1>7, <1>8 DEF OnTheWay

\* In postorder the traversal goes right first and comes back to the node.
LEMMA WaypointTurned ==
    ASSUME TypeOK, NEW d, HeapTree(node, {}, d, used, t),
           NEW f, Printed(Style(op), f, {}), NEW G, NEW L, OnTheWay(d, f, G, L),
           op \in Stacks, s # <<>>, p = NULL,
           Style(op) = "postorder", G[L].put # NULL,
           UNCHANGED <<node, used, t, op, out>>, p' = G[L].put,
           s' = Append(G[L - 1].stack, G[L].at), s2' = G[L - 1].second
    PROVE  \E G2 : OnTheWay(d, f, G2, L)'
<1>1. /\ L \in Nat \ {0} /\ Waypoints(op, node, f, d, used, G, L)
      /\ G[L - 1] \in Waypoint
      /\ G[L].at \in used /\ G[L].at \in Node /\ node[G[L].at].key \in Key
      /\ LiesOn(op, node, f, G[L - 1], G[L])
      /\ G[L].put \in used \cup {NULL} /\ f[G[L].put] \in Seq(Key)
      /\ G[L - 1].rest \in Seq(Key) /\ out \in Seq(Key)
      /\ out \o (<<>> \o (Owed(Style(op), node[G[L].at].key, f[G[L].put])
                         \o G[L - 1].rest)) = f[t]
  <2>1. AtTheTop(f, G, L) /\ Waypoints(op, node, f, d, used, G, L)
    BY TopWaypoint
  <2> QED BY <2>1 DEF AtTheTop
<1>2. /\ Waypoints(op, node, f, d, used, G, L - 1) /\ L - 1 \in Nat
      /\ \A j \in 1..(L - 1) : j \in 1..L /\ Under(d, G[L].at, G[j].at)
  BY <1>1, WaypointPopped
<1>3. L \in Nat \ {0} /\ G[L].at \in Node
  BY <1>1, Zenon
<1>4. PICK z : z = Owed("postorder", node[G[L].at].key, <<>>) \o G[L - 1].rest
  OBVIOUS
<1>5. z \in Seq(Key)
  <2>1. <<>> \in Seq(Key)
    OBVIOUS
  <2>2. Owed("postorder", node[G[L].at].key, <<>>) \in Seq(Key)
    BY <2>1, <1>1, OwedType
  <2> QED BY <2>2, <1>1, <1>4, ConcatProperties
<1>6. PICK v : v = [at |-> G[L].at, put |-> NULL, stack |-> s', second |-> s2', rest |-> z]
  OBVIOUS
<1>7. v \in Waypoint /\ v.at = G[L].at
  <2>1. G[L - 1].stack \in Seq(Node) /\ s2' \in Seq(Node)
    BY <1>1 DEF Waypoint
  <2>2. s' \in Seq(Node)
    BY <2>1, <1>3
  <2> QED BY <2>1, <2>2, <1>1, <1>5, <1>6 DEF Waypoint, Pointer
<1>8. LiesOn(op, node, f, G[L - 1], v)
  <2>1. f[NULL] = <<>>
    BY StillTree
  <2> QED BY <2>1, <1>4, <1>6 DEF LiesOn, Pushed
<1>9. PICK G2 : Waypoints(op, node, f, d, used, G2, L) /\ G2[L] = v
  <2>1. PICK w \in Waypoint : w = v
    BY <1>7
  <2>2. PICK i \in Nat : i = L - 1
    BY <1>3
  <2>3. Waypoints(op, node, f, d, used, G, i)
    BY <2>2, <1>2, Zenon
  <2>4. w.at \in used /\ LiesOn(op, node, f, G[i], w)
    BY <2>1, <2>2, <1>1, <1>7, <1>8, Zenon
  <2>5. \A j \in 1..i : Under(d, w.at, G[j].at)
    BY <2>1, <2>2, <1>2, <1>7, Zenon
  <2>6. \E G2 : Waypoints(op, node, f, d, used, G2, i + 1) /\ G2[i + 1] = w
    BY <2>3, <2>4, <2>5, WaypointPushed, SMTT(30)
  <2>7. i + 1 = L
    BY <2>2, <1>3
  <2> QED BY <2>1, <2>6, <2>7, Zenon
<1>10. ASSUME NEW i \in 1..L PROVE Under(d, G[L].put, G2[i].at)
  <2>1. /\ G[L].put \in used /\ G[L].put = Rights(node, {})[G[L].at]
        /\ G[L].at \in used
        /\ Tree(Lefts(node), Rights(node, {}), Keys(node), d, used, t)
    BY <1>1, StillTree DEF LiesOn
  <2>2. /\ Under(d, G[L].put, G[L].at)
        /\ \A n \in used : Under(d, G[L].at, n) => Under(d, G[L].put, n)
    BY <2>1, ChildUnder
  <2>3. CASE i = L
    BY <2>2, <2>3, <1>7, <1>9
  <2>4. CASE i # L
    <3>1. L \in 1..L /\ i \in 1..(L - 1)
      BY <2>4, <1>3
    <3>2. Under(d, G2[L].at, G2[i].at) /\ G2[i].at \in used
      BY <3>1, <1>9 DEF Waypoints
    <3> QED BY <2>2, <3>2, <1>7, <1>9
  <2> QED BY <2>3, <2>4
<1>11. out \o (f[G[L].put] \o z) = f[t]
  <2>1. PICK x \in Key : x = node[G[L].at].key
    BY <1>1
  <2>2. PICK a \in Seq(Key) : a = out
    BY <1>1
  <2>3. PICK b \in Seq(Key) : b = f[G[L].put]
    BY <1>1
  <2>4. PICK y \in Seq(Key) : y = G[L - 1].rest
    BY <1>1
  <2>5. <<>> \o (Owed("postorder", x, b) \o y) = b \o (Owed("postorder", x, <<>>) \o y)
    BY PostorderOwed
  <2> QED BY <2>1, <2>2, <2>3, <2>4, <2>5, <1>1, <1>4
<1>12. Waypoints(op, node, f, d, used, G2, L)'
  BY <1>9
<1>13. G2[L].rest = z /\ G2[L].stack = s' /\ G2[L].second = s2'
  BY <1>6, <1>9
<1>14. (out \o (f[p] \o G2[L].rest) = f[t])'
  BY <1>11, <1>13
<1>15. (p \in used \cup {NULL})' /\ (s = G2[L].stack)' /\ (s2 = G2[L].second)'
  BY <1>1, <1>13
<1>16. (p # NULL => \A i \in 1..L : Under(d, p, G2[i].at))'
  BY <1>10
<1>17. OnTheWay(d, f, G2, L)'
  BY <1>12, <1>14, <1>15, <1>16 DEF OnTheWay
<1> QED BY <1>17

LEMMA InorderPrints ==
    ASSUME IInv, InorderStep, NEW d, HeapTree(node, {}, d, used, t),
           NEW f, Printed(Style(op), f, {}), NEW G, NEW L, OnTheWay(d, f, G, L)
    PROVE  \E G2, L2 : OnTheWay(d, f, G2, L2)'
<1>1. /\ TypeOK /\ op = "inorder" /\ op \in Stacks /\ op \notin Stack2
      /\ p = NULL /\ s # <<>> /\ out' = Append(out, node[Last(s)].key)
      /\ s' = Front(s) /\ p' = node[Last(s)].right
      /\ UNCHANGED <<node, used, t, op, s2>>
  BY DEF InorderStep, Traverses, PrintNode, IInv, Stacks, Stack2
<1>2. Style(op) = "inorder"
  BY <1>1 DEF Style
<1>3. AtTheTop(f, G, L)
  BY <1>1, TopWaypoint
<1>4. /\ Last(s) = G[L].at /\ Front(s) = G[L - 1].stack
      /\ node[Last(s)].right = G[L].put /\ s2 = G[L - 1].second
  BY <1>1, <1>2, <1>3 DEF AtTheTop, LiesOn
<1>5. OnTheWay(d, f, G, L - 1)'
  BY <1>1, <1>2, <1>4, WaypointLeft
<1> QED BY <1>5

\* A right child that was put off is next on its stack until the traversal goes
\* there, and not after that.
LEMMA PostorderPrints ==
    ASSUME IInv, PostorderStep, NEW d, HeapTree(node, {}, d, used, t),
           NEW f, Printed(Style(op), f, {}), NEW G, NEW L, OnTheWay(d, f, G, L)
    PROVE  \E G2, L2 : OnTheWay(d, f, G2, L2)'
<1> DEFINE n == Last(s)
           rest == Front(s)
<1>1. /\ TypeOK /\ op = "postorder" /\ op \in Stacks /\ op \notin Stack2
      /\ p = NULL /\ s # <<>>
      /\ UNCHANGED <<node, used, t, op, s2>>
  BY DEF PostorderStep, Traverses, IInv, Stacks, Stack2
<1>2. \/ /\ IsPutOff(n, rest) /\ s' = Append(Front(rest), n)
         /\ p' = node[n].right /\ UNCHANGED out
      \/ /\ ~IsPutOff(n, rest) /\ s' = rest /\ p' = NULL
         /\ out' = Append(out, node[n].key)
  BY DEF PostorderStep, PrintNode
<1>3. Style(op) = "postorder"
  BY <1>1 DEF Style
<1>4. AtTheTop(f, G, L) /\ Waypoints(op, node, f, d, used, G, L)
  BY <1>1, TopWaypoint
<1>5. /\ L \in Nat \ {0} /\ n = G[L].at /\ n \in used
      /\ rest = Pushed(G[L - 1].stack, G[L].put) /\ s2 = G[L - 1].second
      /\ G[L].put \in {node[n].right, NULL} /\ G[L].put \in used \cup {NULL}
      /\ G[L - 1].stack \in Seq(Node)
  BY <1>1, <1>4 DEF AtTheTop, LiesOn, Waypoint
<1> HIDE DEF n, rest
<1>6. CASE G[L].put # NULL
  <2>1. G[L].put \in Node /\ node[n].right = G[L].put
    BY <1>1, <1>5, <1>6, StillTree
  <2>2. rest = Append(G[L - 1].stack, G[L].put)
    BY <1>5, <1>6 DEF Pushed
  <2>3. rest # <<>> /\ Front(rest) = G[L - 1].stack /\ Last(rest) = G[L].put
    <3>1. PICK base \in Seq(Node) : base = G[L - 1].stack
      BY <1>5
    <3>2. PICK c \in Node : c = G[L].put
      BY <2>1
    <3>3. rest = Append(base, c)
      BY <2>2, <3>1, <3>2
    <3>4. Append(base, c) # <<>> /\ Front(Append(base, c)) = base /\ Last(Append(base, c)) = c
      BY FrontOfPush
    <3> QED BY <3>1, <3>2, <3>3, <3>4
  <2>4. IsPutOff(n, rest)
    BY <2>1, <2>3, <1>6 DEF IsPutOff
  <2>5. s' = Append(G[L - 1].stack, G[L].at) /\ p' = G[L].put /\ UNCHANGED out
    BY <2>1, <2>3, <2>4, <1>2, <1>5
  <2>6. UNCHANGED <<node, used, t, op, out>> /\ s2' = G[L - 1].second
    BY <2>5, <1>1, <1>5
  <2> QED BY <2>5, <2>6, <1>1, <1>3, <1>6, WaypointTurned
<1>7. CASE G[L].put = NULL
  <2>1. rest = G[L - 1].stack
    BY <1>5, <1>7 DEF Pushed
  <2>2. ASSUME IsPutOff(n, rest) PROVE FALSE
    <3>1. node[n].right # NULL /\ rest # <<>> /\ Last(rest) = node[n].right
      BY <2>2 DEF IsPutOff
    <3>2. L - 1 \in Nat /\ L - 1 # 0 /\ Waypoints(op, node, f, d, used, G, L - 1)
          /\ \A j \in 1..(L - 1) : Under(d, G[L].at, G[j].at)
      <4>1. L - 1 \in Nat /\ Waypoints(op, node, f, d, used, G, L - 1)
            /\ \A j \in 1..(L - 1) : Under(d, G[L].at, G[j].at)
        BY <1>4, <1>5, WaypointPopped
      <4>2. G[0].stack = <<>>
        BY <1>4 DEF Waypoints
      <4> QED BY <4>1, <4>2, <3>1, <2>1
    <3> DEFINE a == G[L - 1].at
    <3>3. /\ L - 1 \in 1..(L - 1) /\ a \in used
          /\ G[(L - 1) - 1] \in Waypoint /\ LiesOn(op, node, f, G[(L - 1) - 1], G[L - 1])
      BY <3>2, WaypointPopped
    <3>4. Under(d, n, a)
      BY <3>2, <3>3, <1>5
    <3>5. PICK base \in Seq(Node) : G[L - 1].stack = Append(base, a)
      <4>1. G[L - 1].put \in Node \cup {NULL}
        BY <3>2, <1>4 DEF Waypoints, Waypoint, Pointer
      <4>2. G[(L - 1) - 1].stack \in Seq(Node)
        BY <3>3 DEF Waypoint
      <4>3. Pushed(G[(L - 1) - 1].stack, G[L - 1].put) \in Seq(Node)
        BY <4>1, <4>2, PushedType
      <4>4. G[L - 1].stack = Append(Pushed(G[(L - 1) - 1].stack, G[L - 1].put), G[L - 1].at)
        BY <3>3, <1>1 DEF LiesOn
      <4> QED BY <4>3, <4>4
    <3>6. a \in Node
      BY <3>3, <1>1, StillTree
    <3> HIDE DEF a
    <3>7. node[n].right = a
      BY <3>1, <3>5, <3>6, <2>1, PushLast
    <3>8. /\ a = Rights(node, {})[n]
          /\ Tree(Lefts(node), Rights(node, {}), Keys(node), d, used, t)
      BY <3>7, <1>1, <1>5, StillTree
    <3>9. a \in used /\ n \in used
      BY <3>3, <1>5 DEF a
    <3>10. Under(d, a, a)
      BY <3>4, <3>8, <3>9, ChildUnder
    <3> QED BY <3>10 DEF Under
  <2>3. s' = G[L - 1].stack /\ p' = G[L].put /\ out' = Append(out, node[G[L].at].key)
    BY <2>1, <2>2, <1>2, <1>5, <1>7
  <2>4. UNCHANGED <<node, used, t, op>> /\ s2' = G[L - 1].second
    BY <1>1, <1>5
  <2>5. OnTheWay(d, f, G, L - 1)'
    BY <2>3, <2>4, <1>1, <1>7, WaypointLeft
  <2> QED BY <2>5
<1> QED BY <1>6, <1>7

\* On the second stack lie the right children of the nodes on the first one at
\* which the traversal has not gone right.
LEMMA Stack2Prints ==
    ASSUME IInv, Stack2Step, NEW d, HeapTree(node, {}, d, used, t),
           NEW f, Printed(Style(op), f, {}), NEW G, NEW L, OnTheWay(d, f, G, L)
    PROVE  \E G2, L2 : OnTheWay(d, f, G2, L2)'
<1> DEFINE n == Last(s)
           later == IsPutOff(n, s2) /\ op = "stack2 postorder"
<1>1. /\ TypeOK /\ op \in Stack2 /\ op \in Stacks /\ op # "postorder"
      /\ p = NULL /\ s # <<>>
      /\ UNCHANGED <<node, used, t, op>>
  BY DEF Stack2Step, Traverses, IInv, Stacks, Stack2
<1>2. /\ IsPutOff(n, s2) => s2' = Front(s2) /\ p' = node[n].right
      /\ ~IsPutOff(n, s2) => s2' = s2 /\ p' = NULL
      /\ later => s' = s /\ out' = out
      /\ ~later => s' = Front(s) /\ out' = Append(out, node[n].key)
  BY DEF Stack2Step, PrintNode
<1>3. Style(op) = IF op = "stack2 inorder" THEN "inorder" ELSE "postorder"
  BY <1>1 DEF Style, Stack2
<1>4. AtTheTop(f, G, L) /\ Waypoints(op, node, f, d, used, G, L)
  BY <1>1, TopWaypoint
<1>5. /\ L \in Nat \ {0} /\ n = G[L].at /\ n \in used
      /\ s2 = Pushed(G[L - 1].second, G[L].put)
      /\ Front(s) = G[L - 1].stack /\ s = Append(G[L - 1].stack, G[L].at)
      /\ G[L].put \in {node[n].right, NULL} /\ G[L].put \in used \cup {NULL}
      /\ Style(op) = "inorder" => G[L].put = node[n].right
      /\ G[L - 1].second \in Seq(Node)
  BY <1>1, <1>4 DEF AtTheTop, LiesOn, Waypoint
<1> HIDE DEF n
<1>6. CASE G[L].put # NULL
  <2>1. G[L].put \in Node /\ node[n].right = G[L].put
    BY <1>1, <1>5, <1>6, StillTree
  <2>2. s2 = Append(G[L - 1].second, G[L].put)
    BY <1>5, <1>6 DEF Pushed
  <2>3. s2 # <<>> /\ Front(s2) = G[L - 1].second /\ Last(s2) = G[L].put
    <3>1. PICK base \in Seq(Node) : base = G[L - 1].second
      BY <1>5
    <3>2. PICK c \in Node : c = G[L].put
      BY <2>1
    <3>3. s2 = Append(base, c)
      BY <2>2, <3>1, <3>2
    <3>4. Append(base, c) # <<>> /\ Front(Append(base, c)) = base /\ Last(Append(base, c)) = c
      BY FrontOfPush
    <3> QED BY <3>1, <3>2, <3>3, <3>4
  <2>4. IsPutOff(n, s2)
    BY <2>1, <2>3, <1>6 DEF IsPutOff
  <2>5. s2' = G[L - 1].second /\ p' = G[L].put
    BY <2>1, <2>3, <2>4, <1>2
  <2>6. CASE op = "stack2 postorder"
    <3>1. s' = Append(G[L - 1].stack, G[L].at) /\ UNCHANGED <<node, used, t, op, out>>
      BY <2>4, <2>6, <1>1, <1>2, <1>5
    <3> QED BY <2>5, <2>6, <3>1, <1>1, <1>3, <1>6, WaypointTurned
  <2>7. CASE op # "stack2 postorder"
    <3>1. s' = G[L - 1].stack /\ out' = Append(out, node[G[L].at].key)
      BY <2>7, <1>2, <1>5
    <3>2. Style(op) = "inorder"
      BY <2>7, <1>1, <1>3 DEF Stack2
    <3>3. OnTheWay(d, f, G, L - 1)'
      BY <2>5, <3>1, <3>2, <1>1, WaypointLeft
    <3> QED BY <3>3
  <2> QED BY <2>6, <2>7
<1>7. CASE G[L].put = NULL
  <2>1. s2 = G[L - 1].second
    BY <1>5, <1>7 DEF Pushed
  <2>2. ASSUME IsPutOff(n, s2) PROVE FALSE
    <3>1. node[n].right # NULL /\ s2 # <<>> /\ Last(s2) = node[n].right
      BY <2>2 DEF IsPutOff
    <3>2. L - 1 \in Nat /\ L - 1 # 0 /\ \A j \in 1..(L - 1) : j \in 1..L /\ Under(d, G[L].at, G[j].at)
      <4>1. L - 1 \in Nat /\ \A j \in 1..(L - 1) : j \in 1..L /\ Under(d, G[L].at, G[j].at)
        BY <1>4, <1>5, WaypointPopped
      <4>2. G[0].second = <<>>
        BY <1>4 DEF Waypoints
      <4> QED BY <4>1, <4>2, <3>1, <2>1
    <3>3. L - 1 \in 1..L /\ PutOffLast(G, L - 1)
      <4>1. L - 1 \in 1..L
        BY <3>2, <1>5
      <4> QED BY <4>1, <1>4 DEF Waypoints
    <3>4. PICK j \in 1..(L - 1) : G[j].put # NULL /\ Last(s2) = G[j].put
      BY <3>1, <3>3, <2>1 DEF PutOffLast
    <3>5. j \in 1..L /\ G[j].at \in used /\ G[j].put = node[G[j].at].right
      <4>1. G[j].at \in used /\ LiesOn(op, node, f, G[j - 1], G[j])
        BY <3>2, <3>4, <1>4 DEF Waypoints
      <4> QED BY <4>1, <3>2, <3>4 DEF LiesOn
    <3>6. PICK a \in used : a = G[j].at
      BY <3>5
    <3>7. PICK c : c = node[n].right
      OBVIOUS
    <3>8. c = Rights(node, {})[n] /\ c = Rights(node, {})[a] /\ c \in used
          /\ Tree(Lefts(node), Rights(node, {}), Keys(node), d, used, t)
      <4>1. c = node[a].right /\ c # NULL
        BY <3>1, <3>4, <3>5, <3>6, <3>7
      <4> QED BY <4>1, <3>6, <3>7, <1>1, <1>5, StillTree
    <3>9. n = a
      BY <3>8, <1>5, OneParent
    <3>10. Under(d, n, a)
      BY <3>2, <3>4, <3>6, <1>5
    <3> QED BY <3>9, <3>10 DEF Under
  <2>3. /\ s' = G[L - 1].stack /\ p' = G[L].put /\ s2' = G[L - 1].second
        /\ out' = Append(out, node[G[L].at].key)
    BY <2>1, <2>2, <1>2, <1>5, <1>7
  <2>4. OnTheWay(d, f, G, L - 1)'
    BY <2>3, <1>1, <1>7, WaypointLeft
  <2> QED BY <2>4
<1> QED BY <1>6, <1>7

-----------------------------------------------------------------------------
(* The traversal with the stack of what is yet to be printed.              *)

\* On the stack lie subtrees; those up to the i-th print R[i], the last first.
Stacked(f, U, z, R) ==
    /\ R \in [Nat -> Seq(Key)] /\ R[0] = <<>>
    /\ \A i \in 1..Len(z) : z[i] \in U \cup {NULL} /\ R[i] = f[z[i]] \o R[i - 1]

OnTheStack(f, R) ==
    p = NULL /\ Stacked(f, used, s, R) /\ out \o R[Len(s)] = f[t]

LEMMA StackedMore ==
    ASSUME NEW U \in SUBSET Node, NEW f, f[NULL] = <<>>, NEW z \in Seq(Pointer), NEW R,
           Stacked(f, U, z, R), NEW c \in U \cup {NULL}, f[c] \in Seq(Key)
    PROVE  \E R2 : Stacked(f, U, Pushed(z, c), R2)
                   /\ R2[Len(Pushed(z, c))] = f[c] \o R[Len(z)]
<1>1. /\ R \in [Nat -> Seq(Key)] /\ R[0] = <<>>
      /\ \A i \in 1..Len(z) : z[i] \in U \cup {NULL} /\ R[i] = f[z[i]] \o R[i - 1]
  BY Zenon DEF Stacked
<1>2. Len(z) \in Nat /\ R[Len(z)] \in Seq(Key)
  BY <1>1
<1>3. CASE c = NULL
  <2>1. Pushed(z, c) = z
    BY <1>3 DEF Pushed
  <2>2. R[Len(z)] = f[c] \o R[Len(z)]
    <3>1. PICK y \in Seq(Key) : y = R[Len(z)]
      BY <1>2
    <3>2. <<>> \o y = y
      BY ConcatEmptySeq
    <3> QED BY <3>1, <3>2, <1>3
  <2> QED BY <2>1, <2>2
<1>4. CASE c # NULL
  <2> DEFINE n == Len(z) + 1
  <2>1. Pushed(z, c) = Append(z, c) /\ c \in Pointer
    BY <1>4 DEF Pushed, Pointer
  <2>2. /\ Len(Append(z, c)) = n /\ Append(z, c)[n] = c /\ n \in Nat
        /\ \A i \in 1..Len(z) : Append(z, c)[i] = z[i]
    BY <2>1
  <2>3. f[c] \o R[Len(z)] \in Seq(Key)
    BY <1>2, ConcatProperties
  <2>4. PICK new \in Seq(Key) : new = f[c] \o R[Len(z)]
    BY <2>3
  <2>5. PICK R2 : R2 = [R EXCEPT ![n] = new]
    OBVIOUS
  <2>6. R2 \in [Nat -> Seq(Key)] /\ R2[n] = new /\ \A i \in 0..Len(z) : R2[i] = R[i]
    <3>1. n \in Nat /\ \A i \in 0..Len(z) : i \in Nat /\ i # n
      BY <1>2
    <3>2. R \in [Nat -> Seq(Key)]
      BY <1>1, Zenon
    <3> HIDE DEF n
    <3> QED BY <3>1, <3>2, <2>5
  <2>7. R2[0] = <<>>
    BY <2>6, <1>1
  <2>8. ASSUME NEW i \in 1..n
        PROVE  Append(z, c)[i] \in U \cup {NULL} /\ R2[i] = f[Append(z, c)[i]] \o R2[i - 1]
    <3>1. CASE i = n
      <4>1. R2[i] = new /\ R2[i - 1] = R[Len(z)] /\ Append(z, c)[i] = c
        BY <3>1, <2>2, <2>6, <1>2
      <4> QED BY <4>1, <2>4
    <3>2. CASE i # n
      <4>1. i \in 1..Len(z) /\ i \in 0..Len(z) /\ i - 1 \in 0..Len(z)
        BY <3>2, <1>2
      <4> QED BY <4>1, <2>2, <2>6, <1>1
    <3> QED BY <3>1, <3>2
  <2>9. Stacked(f, U, Append(z, c), R2)
    BY <2>2, <2>6, <2>7, <2>8 DEF Stacked
  <2> QED BY <2>1, <2>2, <2>4, <2>6, <2>9
<1> QED BY <1>3, <1>4

LEMMA StackedLess ==
    ASSUME NEW U, NEW f, NEW z \in Seq(Pointer), z # <<>>, NEW R, Stacked(f, U, z, R)
    PROVE  /\ Stacked(f, U, Front(z), R) /\ Front(z) \in Seq(Pointer)
           /\ Last(z) \in U \cup {NULL} /\ R[Len(z)] = f[Last(z)] \o R[Len(Front(z))]
           /\ R[Len(Front(z))] \in Seq(Key)
<1>1. /\ R \in [Nat -> Seq(Key)] /\ R[0] = <<>>
      /\ \A i \in 1..Len(z) : z[i] \in U \cup {NULL} /\ R[i] = f[z[i]] \o R[i - 1]
  BY DEF Stacked
<1>2. /\ Front(z) \in Seq(Pointer) /\ Len(z) \in Nat \ {0} /\ Last(z) = z[Len(z)]
      /\ Len(Front(z)) = Len(z) - 1
      /\ \A i \in 1..(Len(z) - 1) : Front(z)[i] = z[i]
  BY PopFacts
<1>3. Len(z) \in 1..Len(z) /\ Len(z) - 1 \in Nat
  BY <1>2
<1>4. Stacked(f, U, Front(z), R)
  <2> DEFINE y == Front(z)
  <2>1. Len(y) = Len(z) - 1 /\ \A i \in 1..Len(y) : i \in 1..Len(z) /\ y[i] = z[i]
    BY <1>2
  <2> HIDE DEF y
  <2>2. \A i \in 1..Len(y) : y[i] \in U \cup {NULL} /\ R[i] = f[y[i]] \o R[i - 1]
    BY <2>1, <1>1
  <2>3. Stacked(f, U, y, R)
    BY <2>2, <1>1, Zenon DEF Stacked
  <2> QED BY <2>3 DEF y
<1> QED BY <1>1, <1>2, <1>3, <1>4

\* A node is printed, and its children lie where it lay.
LEMMA PreorderPrints ==
    ASSUME IInv, PreorderStep, pc' = "visit", NEW d, HeapTree(node, {}, d, used, t),
           NEW f, Printed(Style(op), f, {}), NEW R, OnTheStack(f, R)
    PROVE  \E R2 : OnTheStack(f, R2)'
<1>1. TypeOK /\ s \in Seq(Pointer) /\ s # <<>> /\ op = "preorder" /\ used \in SUBSET Node
      /\ out \in Seq(Key)
  BY DEF IInv, TypeOK, PreorderStep, Traverses
<1>2. p = NULL /\ Stacked(f, used, s, R) /\ out \o R[Len(s)] = f[t]
  BY DEF OnTheStack
<1>3. /\ Stacked(f, used, Front(s), R) /\ Front(s) \in Seq(Pointer)
      /\ Last(s) \in used \cup {NULL} /\ R[Len(s)] = f[Last(s)] \o R[Len(Front(s))]
      /\ R[Len(Front(s))] \in Seq(Key)
  BY <1>1, <1>2, StackedLess
<1>4. Last(s) # NULL
  BY DEF PreorderStep, Crash
<1>5. PICK n \in used : n = Last(s)
  BY <1>3, <1>4
<1>6. /\ out' = Append(out, node[n].key)
      /\ s' = Pushed(Pushed(Front(s), node[n].right), node[n].left)
      /\ UNCHANGED <<node, used, t, p, op>>
  BY <1>4, <1>5 DEF PreorderStep, PrintNode
<1>7. /\ node[n].key \in Key
      /\ node[n].left \in used \cup {NULL} /\ node[n].right \in used \cup {NULL}
      /\ f[NULL] = <<>> /\ f[node[n].left] \in Seq(Key) /\ f[node[n].right] \in Seq(Key)
      /\ f[n] = Written(Style(op), node[n].key, f[node[n].left], f[node[n].right])
  BY <1>1, StillTree
<1>8. Style(op) = "preorder"
  BY <1>1 DEF Style
<1>9. PICK R1 : /\ Stacked(f, used, Pushed(Front(s), node[n].right), R1)
                /\ R1[Len(Pushed(Front(s), node[n].right))]
                      = f[node[n].right] \o R[Len(Front(s))]
  <2>1. PICK c \in used \cup {NULL} : c = node[n].right
    BY <1>7
  <2>2. PICK z \in Seq(Pointer) : z = Front(s)
    BY <1>3
  <2>3. used \in SUBSET Node /\ f[NULL] = <<>> /\ f[c] \in Seq(Key) /\ Stacked(f, used, z, R)
    BY <2>1, <2>2, <1>1, <1>3, <1>7
  <2>4. \E R1 : Stacked(f, used, Pushed(z, c), R1)
                /\ R1[Len(Pushed(z, c))] = f[c] \o R[Len(z)]
    BY <2>3, StackedMore, ZenonT(60)
  <2> QED BY <2>1, <2>2, <2>4
<1>10. Pushed(Front(s), node[n].right) \in Seq(Pointer)
  <2>1. node[n].right \in Pointer
    BY <1>1, <1>7 DEF Pointer
  <2> QED BY <2>1, <1>3 DEF Pushed
<1>11. PICK z1 \in Seq(Pointer) : z1 = Pushed(Front(s), node[n].right)
  BY <1>10
<1>12. Stacked(f, used, z1, R1) /\ R1[Len(z1)] = f[node[n].right] \o R[Len(Front(s))]
  BY <1>9, <1>11
<1>13. PICK R2 : /\ Stacked(f, used, Pushed(z1, node[n].left), R2)
                 /\ R2[Len(Pushed(z1, node[n].left))] = f[node[n].left] \o R1[Len(z1)]
  <2>1. PICK c \in used \cup {NULL} : c = node[n].left
    BY <1>7
  <2>2. used \in SUBSET Node /\ f[NULL] = <<>> /\ f[c] \in Seq(Key) /\ Stacked(f, used, z1, R1)
    BY <2>1, <1>1, <1>7, <1>12
  <2>3. \E R2 : Stacked(f, used, Pushed(z1, c), R2)
                /\ R2[Len(Pushed(z1, c))] = f[c] \o R1[Len(z1)]
    BY <2>2, StackedMore, ZenonT(60)
  <2> QED BY <2>1, <2>3
<1>14. /\ s' = Pushed(z1, node[n].left)
       /\ R2[Len(s')] = f[node[n].left] \o (f[node[n].right] \o R[Len(Front(s))])
  BY <1>6, <1>11, <1>12, <1>13
<1>15. out' \o R2[Len(s')] = f[t]
  <2>1. PICK x \in Key : x = node[n].key
    BY <1>7
  <2>2. PICK b \in Seq(Key) : b = f[node[n].left]
    BY <1>7
  <2>3. PICK c \in Seq(Key) : c = f[node[n].right]
    BY <1>7
  <2>4. PICK z \in Seq(Key) : z = R[Len(Front(s))]
    BY <1>3
  <2>5. PICK a \in Seq(Key) : a = out
    BY <1>1
  <2>6. a \o (Written("preorder", x, b, c) \o z) = Append(a, x) \o (b \o (c \o z))
    <3>1. Written("preorder", x, b, c) \o z = <<x>> \o (b \o (c \o z))
      BY PreorderOwed
    <3>2. c \o z \in Seq(Key) /\ b \o (c \o z) \in Seq(Key)
      BY ConcatProperties
    <3>3. PICK y \in Seq(Key) : y = b \o (c \o z)
      BY <3>2
    <3>4. Append(a, x) \o y = a \o (<<x>> \o y)
      BY KeyPrinted
    <3> QED BY <3>1, <3>3, <3>4
  <2>7. out' = Append(a, x) /\ R2[Len(s')] = b \o (c \o z)
    BY <2>1, <2>2, <2>3, <2>4, <2>5, <1>6, <1>14
  <2>8. R[Len(s)] = Written("preorder", x, b, c) \o z
    BY <2>1, <2>2, <2>3, <2>4, <1>3, <1>5, <1>7, <1>8
  <2> QED BY <2>5, <2>6, <2>7, <2>8, <1>2
<1>16. Stacked(f, used, s, R2)'
  BY <1>6, <1>13, <1>14
<1>17. OnTheStack(f, R2)'
  BY <1>2, <1>6, <1>15, <1>16 DEF OnTheStack
<1> QED BY <1>17

-----------------------------------------------------------------------------
(* The traversal with a queue.                                             *)

\* How deep n lies, itself counted.
Row(d, U, n) == Cardinality(Upward(d, U, n))

LeftOf(k, A, B) == \A m \in A, n \in B : k[m] < k[n]

\* a is queued before b: it is further left in the same row, or in the row before
\* and further right.
QueuedBefore(k, d, U, a, b) ==
    \/ Row(d, U, a) = Row(d, U, b) /\ LeftOf(k, d[a], d[b])
    \/ Row(d, U, b) = Row(d, U, a) + 1 /\ LeftOf(k, d[b], d[a])

Queued(k, d, U, z) ==
    /\ \A i \in DOMAIN z : z[i] \in U
    /\ \A i, j \in DOMAIN z : i < j => QueuedBefore(k, d, U, z[i], z[j])

InFront(k, d, U, m, n) ==
    \/ Row(d, U, m) < Row(d, U, n)
    \/ Row(d, U, m) = Row(d, U, n) /\ k[m] < k[n]

\* What is below no node of the queue: it has been printed.
Past(d, U, z) == {m \in U : \A a \in ToSet(z) : m \notin d[a]}

KeysInRows(k, d, U, keys) ==
    \A i, j \in DOMAIN keys : \A m, n \in U :
        i < j /\ keys[i] = k[m] /\ keys[j] = k[n] => InFront(k, d, U, m, n)

RowByRow(k, d, U, z, keys) ==
    /\ Queued(k, d, U, z)
    /\ ToSet(keys) = {k[m] : m \in Past(d, U, z)}
    /\ \A m \in Past(d, U, z), n \in U \ Past(d, U, z) : InFront(k, d, U, m, n)
    /\ KeysInRows(k, d, U, keys)

LEMMA RowTypes ==
    ASSUME NEW d, NEW U \in SUBSET Node
    PROVE  \A n : Upward(d, U, n) \in SUBSET U /\ IsFiniteSet(Upward(d, U, n))
                  /\ Row(d, U, n) \in Nat
<1>1. IsFiniteSet(U)
  BY NodeAssumption, FS_Subset
<1>2. ASSUME NEW n PROVE Upward(d, U, n) \in SUBSET U
  BY DEF Upward
<1>3. ASSUME NEW n PROVE IsFiniteSet(Upward(d, U, n)) /\ Row(d, U, n) \in Nat
  BY <1>1, <1>2, FS_Subset, FS_CardinalityType DEF Row
<1> QED BY <1>2, <1>3

\* A child is one row below its parent; what is below a node is not above it.
LEMMA RowChild ==
    ASSUME NEW l, NEW r, NEW k, NEW d, NEW U, NEW root, Tree(l, r, k, d, U, root),
           NEW a \in U, NEW c \in U, c = l[a] \/ c = r[a]
    PROVE  Row(d, U, c) = Row(d, U, a) + 1
<1>1. U \in SUBSET Node
  BY TreeFacts
<1>2. PICK S : S = Upward(d, U, a)
  OBVIOUS
<1>3. IsFiniteSet(S)
  BY <1>1, <1>2, RowTypes
<1>4. Upward(d, U, c) = S \cup {c} /\ c \notin S
  <2>1. /\ Upward(d, U, c) = Upward(d, U, a) \cup {c}
        /\ \A m \in Upward(d, U, a) : c \in d[m] /\ c # m
    BY UpwardChild
  <2> QED BY <2>1, <1>2
<1> QED BY <1>2, <1>3, <1>4, FS_AddElement DEF Row

LEMMA RowUnder ==
    ASSUME NEW l, NEW r, NEW k, NEW d, NEW U, NEW root, Tree(l, r, k, d, U, root),
           NEW n \in U, NEW m \in d[n]
    PROVE  m = n \/ Row(d, U, n) < Row(d, U, m)
<1> SUFFICES ASSUME m # n PROVE Row(d, U, n) < Row(d, U, m)
  OBVIOUS
<1>1. /\ U \in SUBSET Node /\ m \in U /\ m \in d[m]
      /\ \A b, a \in U : b \in d[a] => d[b] \subseteq d[a]
  BY TreeFacts
<1>2. PICK S : S = Upward(d, U, n)
  OBVIOUS
<1>3. PICK T : T = Upward(d, U, m)
  OBVIOUS
<1>4. IsFiniteSet(T) /\ Cardinality(T) \in Nat /\ Cardinality(S) \in Nat
  BY <1>1, <1>2, <1>3, RowTypes DEF Row
<1>5. n \notin d[m]
  BY <1>1, BelowAntisymmetric
<1>6. S \in SUBSET T /\ m \in T /\ m \notin S
  BY <1>1, <1>2, <1>3, <1>5 DEF Upward
<1>7. Cardinality(S) <= Cardinality(T) /\ Cardinality(S) # Cardinality(T)
  BY <1>4, <1>6, FS_Subset
<1> QED BY <1>2, <1>3, <1>4, <1>7 DEF Row

\* One node more in the queue.
LEMMA QueuedMore ==
    ASSUME NEW k, NEW d, NEW U \in SUBSET Node, NULL \notin U, NEW z \in Seq(Node),
           Queued(k, d, U, z), NEW c \in U \cup {NULL},
           c # NULL => \A i \in DOMAIN z : QueuedBefore(k, d, U, z[i], c)
    PROVE  /\ Queued(k, d, U, Pushed(z, c)) /\ Pushed(z, c) \in Seq(Node)
           /\ ToSet(Pushed(z, c)) = ToSet(z) \cup ({c} \ {NULL})
           /\ \A b : (\A i \in DOMAIN z : QueuedBefore(k, d, U, z[i], b))
                        /\ (c # NULL => QueuedBefore(k, d, U, c, b))
                     => \A i \in DOMAIN Pushed(z, c) : QueuedBefore(k, d, U, Pushed(z, c)[i], b)
<1>1. CASE c = NULL
  BY <1>1 DEF Pushed
<1>2. CASE c # NULL
  <2> DEFINE y == Append(z, c)
             n == Len(z) + 1
  <2>1. c \in Node /\ c \in U /\ Pushed(z, c) = y
    BY <1>2 DEF Pushed
  <2>2. /\ y \in Seq(Node) /\ DOMAIN z = 1..Len(z) /\ Len(z) \in Nat /\ DOMAIN y = 1..n
        /\ \A i \in 1..Len(z) : y[i] = z[i]
        /\ y[n] = c
    BY <2>1, PushFacts
  <2>3. ToSet(y) = ToSet(z) \cup {c}
    BY <2>1, PushElements
  <2> HIDE DEF y
  <2>4. \A i \in DOMAIN y : (i \in DOMAIN z /\ y[i] = z[i]) \/ (i = n /\ y[i] = c)
    BY <2>2
  <2>5. \A i, j \in DOMAIN y : i < j => i \in DOMAIN z
    BY <2>2
  <2>6. Queued(k, d, U, y)
    <3>1. \A i \in DOMAIN y : y[i] \in U
      BY <2>1, <2>4 DEF Queued
    <3>2. ASSUME NEW i \in DOMAIN y, NEW j \in DOMAIN y, i < j
          PROVE  QueuedBefore(k, d, U, y[i], y[j])
      <4>1. i \in DOMAIN z /\ y[i] = z[i]
        BY <2>2, <2>5, <3>2
      <4>2. CASE j = n /\ y[j] = c
        BY <4>1, <4>2, <1>2
      <4>3. CASE j \in DOMAIN z /\ y[j] = z[j]
        BY <4>1, <4>3, <3>2 DEF Queued
      <4> QED BY <4>2, <4>3, <2>4
    <3> QED BY <3>1, <3>2 DEF Queued
  <2>7. ASSUME NEW b, \A i \in DOMAIN z : QueuedBefore(k, d, U, z[i], b),
               QueuedBefore(k, d, U, c, b)
        PROVE  \A i \in DOMAIN y : QueuedBefore(k, d, U, y[i], b)
    BY <2>4, <2>7
  <2> QED BY <2>1, <2>2, <2>3, <2>6, <2>7, <1>2
<1> QED BY <1>1, <1>2

\* The first of the queue gives way to its children.
LEMMA QueueTurned ==
    ASSUME NEW l, NEW r, NEW k, NEW d, NEW U, NEW root, Tree(l, r, k, d, U, root),
           NEW z \in Seq(Node), z # <<>>, Queued(k, d, U, z)
    PROVE  LET h == Head(z)
               new == Pushed(Pushed(Tail(z), l[h]), r[h])
           IN  /\ h \in U /\ Queued(k, d, U, new)
               /\ ToSet(new) = ToSet(Tail(z)) \cup ({l[h], r[h]} \ {NULL})
               /\ \A a \in ToSet(Tail(z)) : a \in U /\ QueuedBefore(k, d, U, h, a)
<1> DEFINE y == Tail(z)
           n == Len(z)
<1>1. /\ n \in Nat \ {0} /\ DOMAIN z = 1..n /\ y \in Seq(Node) /\ DOMAIN y = 1..(n - 1)
      /\ Head(z) = z[1] /\ \A i \in 1..(n - 1) : y[i] = z[i + 1]
  OBVIOUS
<1>2. PICK h : h = Head(z)
  OBVIOUS
<1> HIDE DEF y
<1>3. /\ h \in U /\ \A i \in DOMAIN y : y[i] \in U /\ QueuedBefore(k, d, U, h, y[i])
      /\ \A i, j \in DOMAIN y : i < j => QueuedBefore(k, d, U, y[i], y[j])
  <2>1. /\ \A i \in DOMAIN z : z[i] \in U
        /\ \A i, j \in DOMAIN z : i < j => QueuedBefore(k, d, U, z[i], z[j])
    BY DEF Queued
  <2>2. 1 \in DOMAIN z /\ \A i \in DOMAIN y : i + 1 \in DOMAIN z /\ 1 < i + 1 /\ y[i] = z[i + 1]
    BY <1>1
  <2>3. \A i, j \in DOMAIN y : i < j => i + 1 < j + 1
    BY <1>1
  <2>4. h = z[1]
    BY <1>1, <1>2
  <2> QED BY <2>1, <2>2, <2>3, <2>4
<1>4. Queued(k, d, U, y)
  BY <1>3 DEF Queued
<1>5. \A a \in ToSet(y) : a \in U /\ QueuedBefore(k, d, U, h, a)
  BY <1>3 DEF ToSet
<1>6. /\ U \in SUBSET Node /\ NULL \notin U
      /\ l[h] \in U \cup {NULL} /\ r[h] \in U \cup {NULL} /\ h \in d[h]
      /\ \A m \in U : k[m] \in Int /\ d[m] \subseteq U
      /\ \A b, m \in U : b \in d[l[m]] <=> b \in d[m] /\ k[b] < k[m]
      /\ \A b, m \in U : b \in d[r[m]] <=> b \in d[m] /\ k[b] > k[m]
  BY <1>3, TreeFacts
<1>7. ASSUME NEW c \in {l[h], r[h]}, c # NULL, NEW a \in U, QueuedBefore(k, d, U, h, a)
      PROVE  QueuedBefore(k, d, U, a, c)
  <2>1. c \in U /\ Row(d, U, c) = Row(d, U, h) + 1 /\ d[c] \subseteq d[h]
    <3>1. c \in U
      BY <1>6, <1>7
    <3>2. c \in d[h]
      BY <3>1, <1>3, AboveChild
    <3> QED BY <3>1, <3>2, <1>3, RowChild, TreeFacts
  <2>2. Row(d, U, h) \in Nat /\ Row(d, U, a) \in Nat
    BY <1>6, RowTypes
  <2>3. CASE Row(d, U, h) = Row(d, U, a) /\ LeftOf(k, d[h], d[a])
    <3>1. LeftOf(k, d[c], d[a])
      BY <2>1, <2>3 DEF LeftOf
    <3> QED BY <3>1, <2>1, <2>3 DEF QueuedBefore
  <2>4. CASE Row(d, U, a) = Row(d, U, h) + 1 /\ LeftOf(k, d[a], d[h])
    <3>1. LeftOf(k, d[a], d[c])
      BY <2>1, <2>4 DEF LeftOf
    <3> QED BY <3>1, <2>1, <2>4 DEF QueuedBefore
  <2> QED BY <1>7, <2>3, <2>4 DEF QueuedBefore
<1>8. ASSUME l[h] # NULL, r[h] # NULL PROVE QueuedBefore(k, d, U, l[h], r[h])
  <2>1. Row(d, U, l[h]) = Row(d, U, r[h])
    BY <1>3, <1>6, <1>8, RowChild
  <2>2. ASSUME NEW a \in d[l[h]], NEW b \in d[r[h]] PROVE k[a] < k[b]
    <3>1. a \in U /\ b \in U
      BY <1>6, <1>8
    <3> QED BY <3>1, <1>3, <1>6
  <2>3. LeftOf(k, d[l[h]], d[r[h]])
    BY <2>2 DEF LeftOf
  <2> QED BY <2>1, <2>3 DEF QueuedBefore
<1>9. PICK c1 : c1 = l[h]
  OBVIOUS
<1>10. PICK c2 : c2 = r[h]
  OBVIOUS
<1>11. c1 \in U \cup {NULL} /\ c2 \in U \cup {NULL}
  BY <1>6, <1>9, <1>10
<1>12. /\ \A i \in DOMAIN y : c1 # NULL => QueuedBefore(k, d, U, y[i], c1)
       /\ \A i \in DOMAIN y : c2 # NULL => QueuedBefore(k, d, U, y[i], c2)
       /\ c1 # NULL /\ c2 # NULL => QueuedBefore(k, d, U, c1, c2)
  BY <1>3, <1>7, <1>8, <1>9, <1>10
<1>13. y \in Seq(Node)
  BY <1>1
<1>14. PICK y1 : y1 = Pushed(y, c1)
  OBVIOUS
<1>15. /\ Queued(k, d, U, y1) /\ y1 \in Seq(Node)
       /\ ToSet(y1) = ToSet(y) \cup ({c1} \ {NULL})
       /\ \A b : (\A i \in DOMAIN y : QueuedBefore(k, d, U, y[i], b))
                    /\ (c1 # NULL => QueuedBefore(k, d, U, c1, b))
                 => \A i \in DOMAIN y1 : QueuedBefore(k, d, U, y1[i], b)
  <2>1. /\ U \in SUBSET Node /\ NULL \notin U /\ y \in Seq(Node) /\ Queued(k, d, U, y)
        /\ c1 \in U \cup {NULL}
        /\ c1 # NULL => \A i \in DOMAIN y : QueuedBefore(k, d, U, y[i], c1)
    BY <1>4, <1>6, <1>11, <1>12, <1>13
  <2>2. /\ Queued(k, d, U, Pushed(y, c1)) /\ Pushed(y, c1) \in Seq(Node)
        /\ ToSet(Pushed(y, c1)) = ToSet(y) \cup ({c1} \ {NULL})
        /\ \A b : (\A i \in DOMAIN y : QueuedBefore(k, d, U, y[i], b))
                     /\ (c1 # NULL => QueuedBefore(k, d, U, c1, b))
                  => \A i \in DOMAIN Pushed(y, c1) :
                        QueuedBefore(k, d, U, Pushed(y, c1)[i], b)
    BY <2>1, QueuedMore
  <2> QED BY <2>2, <1>14, Zenon
<1>16. c2 # NULL => \A i \in DOMAIN y1 : QueuedBefore(k, d, U, y1[i], c2)
  BY <1>12, <1>15
<1>17. /\ Queued(k, d, U, Pushed(y1, c2))
       /\ ToSet(Pushed(y1, c2)) = ToSet(y1) \cup ({c2} \ {NULL})
  <2>1. /\ U \in SUBSET Node /\ NULL \notin U /\ y1 \in Seq(Node) /\ Queued(k, d, U, y1)
        /\ c2 \in U \cup {NULL}
    BY <1>6, <1>11, <1>15
  <2>2. /\ Queued(k, d, U, Pushed(y1, c2)) /\ Pushed(y1, c2) \in Seq(Node)
        /\ ToSet(Pushed(y1, c2)) = ToSet(y1) \cup ({c2} \ {NULL})
        /\ \A b : (\A i \in DOMAIN y1 : QueuedBefore(k, d, U, y1[i], b))
                     /\ (c2 # NULL => QueuedBefore(k, d, U, c2, b))
                  => \A i \in DOMAIN Pushed(y1, c2) :
                        QueuedBefore(k, d, U, Pushed(y1, c2)[i], b)
    BY <2>1, <1>16, QueuedMore
  <2> QED BY <2>2
<1>18. ToSet(Pushed(y1, c2)) = ToSet(y) \cup ({c1, c2} \ {NULL})
  BY <1>15, <1>17
<1> QED BY <1>2, <1>3, <1>5, <1>9, <1>10, <1>14, <1>17, <1>18 DEF y

\* The first of the queue is printed: it is the next of its row, or the first of
\* the next one.
LEMMA RowPrinted ==
    ASSUME NEW l, NEW r, NEW k, NEW d, NEW U, NEW root, Tree(l, r, k, d, U, root),
           \A m \in U : k[m] \in Key, NEW z \in Seq(Node), z # <<>>, NEW keys \in Seq(Key),
           RowByRow(k, d, U, z, keys)
    PROVE  RowByRow(k, d, U, Pushed(Pushed(Tail(z), l[Head(z)]), r[Head(z)]),
                    Append(keys, k[Head(z)]))
<1>1. PICK h : h = Head(z)
  OBVIOUS
<1>2. PICK new : new = Pushed(Pushed(Tail(z), l[h]), r[h])
  OBVIOUS
<1>3. PICK old : old = ToSet(Tail(z))
  OBVIOUS
<1>4. PICK P : P = Past(d, U, z)
  OBVIOUS
<1>5. PICK Q : Q = Past(d, U, new)
  OBVIOUS
<1>6. /\ Queued(k, d, U, z) /\ ToSet(keys) = {k[m] : m \in P}
      /\ \A m \in P, n \in U \ P : InFront(k, d, U, m, n)
      /\ KeysInRows(k, d, U, keys)
  BY <1>4 DEF RowByRow
<1>7. /\ h \in U /\ Queued(k, d, U, new) /\ ToSet(new) = old \cup ({l[h], r[h]} \ {NULL})
      /\ \A a \in old : a \in U /\ QueuedBefore(k, d, U, h, a)
  <2>1. LET g == Head(z)
            w == Pushed(Pushed(Tail(z), l[g]), r[g])
        IN  /\ g \in U /\ Queued(k, d, U, w)
            /\ ToSet(w) = ToSet(Tail(z)) \cup ({l[g], r[g]} \ {NULL})
            /\ \A a \in ToSet(Tail(z)) : a \in U /\ QueuedBefore(k, d, U, g, a)
    BY <1>6, QueueTurned
  <2> QED BY <2>1, <1>1, <1>2, <1>3
<1>8. ToSet(z) = {h} \cup old
  BY <1>1, <1>3, HeadElements
<1>9. /\ U \in SUBSET Node /\ NULL \notin U /\ d[NULL] = {}
      /\ l[h] \in U \cup {NULL} /\ r[h] \in U \cup {NULL} /\ h \in d[h]
      /\ \A m \in U : k[m] \in Int /\ d[m] \subseteq U /\ m \in d[m]
      /\ \A b \in U : b \in d[l[h]] <=> b \in d[h] /\ k[b] < k[h]
      /\ \A b \in U : b \in d[r[h]] <=> b \in d[h] /\ k[b] > k[h]
      /\ \A b \in U : b \in d[h] /\ k[b] = k[h] => b = h
  BY <1>7, TreeFacts
<1>10. \A n : Row(d, U, n) \in Nat
  BY <1>9, RowTypes
\* What is below h is not below the others.
<1>11. ASSUME NEW a \in old PROVE h \notin d[a]
  <2>1. a \in U /\ a \in d[a] /\ k[h] \in Int /\ k[a] \in Int
    BY <1>7, <1>9
  <2>2. QueuedBefore(k, d, U, h, a)
    BY <1>7
  <2>3. LeftOf(k, d[h], d[a]) \/ LeftOf(k, d[a], d[h])
    BY <2>2 DEF QueuedBefore
  <2> QED BY <2>1, <2>3, <1>9 DEF LeftOf
<1>12. Q = P \cup {h}
  <2>1. \A m \in U : m \in P <=> m \notin d[h] /\ \A a \in old : m \notin d[a]
    BY <1>4, <1>8 DEF Past
  <2>2. \A m \in U : m \in Q <=> m \notin d[l[h]] /\ m \notin d[r[h]]
                                   /\ \A a \in old : m \notin d[a]
    BY <1>5, <1>7, <1>9 DEF Past
  <2>3. \A m \in U : m \in d[h] => m = h \/ m \in d[l[h]] \/ m \in d[r[h]]
    BY <1>7, <1>9
  <2>4. h \notin d[l[h]] /\ h \notin d[r[h]]
    BY <1>7, <1>9
  <2>5. \A m \in U : m \in d[l[h]] \/ m \in d[r[h]] => m \in d[h]
    BY <1>9
  <2>6. P \subseteq U /\ Q \subseteq U
    BY <1>4, <1>5 DEF Past
  <2> QED BY <2>1, <2>2, <2>3, <2>4, <2>5, <2>6, <1>7, <1>11
<1>13. h \in U \ P /\ P \subseteq U
  BY <1>4, <1>7, <1>8, <1>9 DEF Past
<1>14. ASSUME NEW n \in U \ Q PROVE InFront(k, d, U, h, n)
  <2>1. n \in U /\ n # h /\ k[n] \in Int /\ k[h] \in Int
    BY <1>7, <1>9, <1>12
  <2>2. CASE n \in d[h]
    <3>1. Row(d, U, h) < Row(d, U, n)
      BY <2>1, <2>2, <1>7, RowUnder
    <3> QED BY <3>1 DEF InFront
  <2>3. CASE n \notin d[h]
    <3>1. \E a \in old : n \in d[a]
      BY <2>1, <2>3, <1>4, <1>8, <1>12 DEF Past
    <3>2. PICK a \in old : n \in d[a]
      BY <3>1
    <3>3. a \in U /\ QueuedBefore(k, d, U, h, a)
      BY <1>7
    <3>4. n = a \/ Row(d, U, a) < Row(d, U, n)
      BY <3>2, <3>3, RowUnder
    <3>5. CASE Row(d, U, h) = Row(d, U, a) /\ LeftOf(k, d[h], d[a])
      <4>1. k[h] < k[n]
        BY <3>2, <3>5, <1>9 DEF LeftOf
      <4> QED BY <4>1, <3>4, <3>5 DEF InFront
    <3>6. CASE Row(d, U, a) = Row(d, U, h) + 1
      <4>1. Row(d, U, h) < Row(d, U, n)
        <5>1. PICK i \in Nat : i = Row(d, U, h)
          BY <1>10
        <5>2. PICK j \in Nat : j = Row(d, U, n)
          BY <1>10
        <5>3. j = i + 1 \/ i + 1 < j
          BY <5>1, <5>2, <3>4, <3>6
        <5> QED BY <5>1, <5>2, <5>3
      <4> QED BY <4>1 DEF InFront
    <3> QED BY <3>3, <3>5, <3>6 DEF QueuedBefore
  <2> QED BY <2>2, <2>3
<1>15. \A m \in Q, n \in U \ Q : InFront(k, d, U, m, n)
  BY <1>6, <1>12, <1>14
<1>16. PICK x \in Key : x = k[h]
  BY <1>7
<1>17. ToSet(Append(keys, x)) = {k[m] : m \in Q}
  <2>1. ToSet(Append(keys, x)) = ToSet(keys) \cup {x}
    BY PushElements
  <2> QED BY <2>1, <1>6, <1>12, <1>16
<1>18. KeysInRows(k, d, U, Append(keys, x))
  <2> DEFINE w == Append(keys, x)
             e == Len(keys) + 1
  <2>1. /\ DOMAIN keys = 1..Len(keys) /\ Len(keys) \in Nat /\ DOMAIN w = 1..e
        /\ \A i \in 1..Len(keys) : w[i] = keys[i]
        /\ w[e] = x
    BY PushFacts
  <2> HIDE DEF w
  <2>2. SUFFICES ASSUME NEW i \in DOMAIN w, NEW j \in DOMAIN w, NEW m \in U, NEW n \in U,
                        i < j, w[i] = k[m], w[j] = k[n]
                 PROVE  InFront(k, d, U, m, n)
    BY DEF KeysInRows, w
  <2>3. i \in DOMAIN keys /\ w[i] = keys[i]
    BY <2>1, <2>2
  <2>4. CASE j \in DOMAIN keys
    <3>1. w[j] = keys[j]
      BY <2>1, <2>4
    <3> QED BY <3>1, <2>2, <2>3, <2>4, <1>6 DEF KeysInRows
  <2>5. CASE j \notin DOMAIN keys
    <3>1. k[n] = k[h]
      BY <2>1, <2>2, <2>5, <1>16
    <3>2. n = h
      BY <3>1, <1>7, KeysDiffer
    <3>3. k[m] \in ToSet(keys)
      BY <2>2, <2>3 DEF ToSet
    <3>4. PICK a \in P : k[m] = k[a]
      BY <3>3, <1>6
    <3>5. m = a
      BY <3>4, <1>13, KeysDiffer
    <3> QED BY <3>2, <3>5, <1>6, <1>13
  <2> QED BY <2>4, <2>5
<1>19. RowByRow(k, d, U, new, Append(keys, x))
  BY <1>5, <1>7, <1>15, <1>17, <1>18 DEF RowByRow
<1> QED BY <1>1, <1>2, <1>16, <1>19

\* At the start of a traversal nothing is printed and all is yet to come.
LEMMA RowsBegin ==
    ASSUME NEW l, NEW r, NEW k, NEW d, NEW U, NEW root, Tree(l, r, k, d, U, root),
           NEW z, z = IF root = NULL THEN <<>> ELSE <<root>>
    PROVE  RowByRow(k, d, U, z, <<>>)
<1>1. /\ root \in U \cup {NULL} /\ d[root] = U /\ NULL \notin U /\ d[NULL] = {}
  BY TreeFacts
<1>2. /\ \A i \in DOMAIN z : z[i] \in U
      /\ \A i, j \in DOMAIN z : ~(i < j)
      /\ ToSet(z) = {root} \ {NULL}
  BY <1>1 DEF ToSet
<1>3. Queued(k, d, U, z)
  BY <1>2 DEF Queued
<1>4. Past(d, U, z) = {}
  BY <1>1, <1>2 DEF Past
<1>5. ToSet(<<>>) = {} /\ KeysInRows(k, d, U, <<>>)
  BY DEF ToSet, KeysInRows
<1> QED BY <1>3, <1>4, <1>5 DEF RowByRow

LEMMA LevelorderPrints ==
    ASSUME IInv, LevelorderStep, NEW d, HeapTree(node, {}, d, used, t),
           RowByRow(Keys(node), d, used, s, out)
    PROVE  RowByRow(Keys(node), d, used, s, out)'
<1>1. TypeOK /\ s \in Seq(Node) /\ s # <<>> /\ out \in Seq(Key)
  <2>1. pc = "visit" /\ op = "levelorder" /\ s # <<>>
    BY DEF LevelorderStep, Traverses
  <2> QED BY <2>1, StackTypes DEF TypeOK
<1>2. /\ out' = Append(out, node[Head(s)].key)
      /\ s' = Pushed(Pushed(Tail(s), node[Head(s)].left), node[Head(s)].right)
      /\ UNCHANGED <<node, used>>
  BY DEF LevelorderStep, PrintNode
<1>3. Tree(Lefts(node), Rights(node, {}), Keys(node), d, used, t)
  BY DEF HeapTree
<1>4. /\ Head(s) \in Node /\ \A n \in Node : /\ Lefts(node)[n] = node[n].left
                                              /\ Rights(node, {})[n] = node[n].right
                                              /\ Keys(node)[n] = node[n].key
  BY <1>1, HeadElements DEF Lefts, Rights, Keys
<1>5. \A m \in used : Keys(node)[m] \in Key
  BY <1>1, NodeTypes DEF Keys
<1>6. RowByRow(Keys(node), d, used,
               Pushed(Pushed(Tail(s), Lefts(node)[Head(s)]), Rights(node, {})[Head(s)]),
               Append(out, Keys(node)[Head(s)]))
  BY <1>1, <1>3, <1>5, RowPrinted
<1>7. RowByRow(Keys(node), d, used, s', out')
  BY <1>2, <1>4, <1>6
<1>8. Keys(node)' = Keys(node)
  BY <1>2 DEF Keys
<1> QED BY <1>2, <1>7, <1>8

\* What can be reached from a node is what is below it.
LEMMA ReachableBelow ==
    ASSUME TypeOK, NEW d, HeapTree(node, {}, d, used, t), NEW a \in used
    PROVE  ReachableFrom(a) = d[a]
<1> DEFINE l == Lefts(node)
           r == Rights(node, {})
           k == Keys(node)
<1>1. Tree(l, r, k, d, used, t)
  BY DEF HeapTree
<1>2. /\ used \subseteq Node /\ NULL \notin used /\ t \in used
      /\ a \in d[a] /\ d[a] \subseteq used
      /\ \A m \in used : l[m] \in used \cup {NULL} /\ r[m] \in used \cup {NULL}
      /\ \A b, m \in used : b \in d[m] => d[b] \subseteq d[m]
  <2>1. d[t] = used /\ d[NULL] = {} /\ t \in used \cup {NULL}
    BY <1>1, TreeFacts
  <2> QED BY <2>1, <1>1, TreeFacts
<1>3. \A m \in used : l[m] = node[m].left /\ r[m] = node[m].right
  BY <1>2 DEF Lefts, Rights
<1> HIDE DEF l, r, k
<1>4. \A m \in used : Children(m) = {l[m], r[m]} \ {NULL}
  BY <1>3 DEF Children
<1>5. \A m \in used, c \in used : c = l[m] \/ c = r[m] =>
         c \in d[m] /\ \A n \in used : c \in d[n] /\ n # c => m \in d[n]
  BY <1>1, AboveChild
<1>6. ASSUME NEW n \in ReachableFrom(a), n \notin d[a] PROVE FALSE
  <2>1. d[a] \in SUBSET (Node \ {n}) /\ a \in d[a] \cup {NULL}
    BY <1>2, <1>6
  <2>2. PICK m \in d[a] : ~(Children(m) \subseteq d[a])
    BY <2>1 DEF ReachableFrom
  <2>3. m \in used
    BY <1>2
  <2>4. PICK c \in used : (c = l[m] \/ c = r[m]) /\ c \notin d[a]
    BY <2>2, <2>3, <1>2, <1>4
  <2>5. c \in d[m] /\ d[m] \subseteq d[a]
    BY <2>3, <2>4, <1>2, <1>5
  <2> QED BY <2>4, <2>5
<1>7. ASSUME NEW n \in d[a], NEW S \in SUBSET (Node \ {n}), a \in S \cup {NULL},
             \A m \in S : Children(m) \subseteq S
      PROVE  FALSE
  <2> DEFINE W == S \cup (used \ d[a])
  <2>1. a \in S /\ a # t => t \in used \ d[a]
    <3>1. ASSUME a # t, t \in d[a] PROVE FALSE
      <4>1. a \in d[t]
        BY <1>1, <1>2, TreeFacts
      <4> QED BY <4>1, <3>1, <1>1, <1>2, BelowAntisymmetric
    <3> QED BY <3>1, <1>2
  <2>2. a \in S /\ t \in W
    BY <2>1, <1>2, <1>7
  <2>3. ASSUME NEW m \in W \cap used PROVE {l[m], r[m]} \ {NULL} \subseteq W
    <3>1. CASE m \in S
      BY <3>1, <1>4, <1>7
    <3>2. CASE m \notin S
      <4>1. m \in used \ d[a]
        BY <3>2
      <4>2. ASSUME NEW c \in used, c = l[m] \/ c = r[m], c \in d[a] PROVE c = a
        BY <4>1, <4>2, <1>5
      <4> QED BY <4>2, <2>2, <1>2
    <3> QED BY <3>1, <3>2
  <2> HIDE DEF W
  <2>4. used \subseteq W
    BY <2>2, <2>3, <1>1, AllReached
  <2>5. n \in used /\ n \notin W
    BY <1>2, <1>7 DEF W
  <2> QED BY <2>4, <2>5
<1>8. ASSUME NEW n \in d[a] PROVE n \in ReachableFrom(a)
  <2>1. n \in Node
    BY <1>2
  <2>2. \A S \in SUBSET (Node \ {n}) :
           a \in S \cup {NULL} => \E m \in S : ~(Children(m) \subseteq S)
    BY <1>7
  <2> QED BY <2>1, <2>2 DEF ReachableFrom
<1> QED BY <1>6, <1>8

\* When the queue is empty the rows have been printed.
LEMMA RowsArePrinted ==
    ASSUME TypeOK, NEW d, HeapTree(node, {}, d, used, t),
           RowByRow(Keys(node), d, used, <<>>, out)
    PROVE  IsLevelorder(out)
<1> DEFINE k == Keys(node)
<1>1. \A a \in used : ReachableFrom(a) = d[a]
  BY ReachableBelow
<1>2. \A n \in used : Upward(d, used, n) = {a \in used : n \in ReachableFrom(a)}
  BY <1>1 DEF Upward
<1>3. \A n \in used : Depth(n) = Row(d, used, n)
  BY <1>2 DEF Depth, Row
<1>4. \A n \in used : k[n] = node[n].key
  BY NodeTypes DEF Keys
<1>5. Past(d, used, <<>>) = used
  BY DEF Past, ToSet
<1>6. ToSet(out) = {k[n] : n \in used} /\ KeysInRows(k, d, used, out)
  BY <1>5 DEF RowByRow
<1> HIDE DEF k
<1>7. {k[n] : n \in used} = {node[n].key : n \in used}
  BY <1>4
<1>8. \A m, n \in used : InFront(k, d, used, m, n) => IsAbove(m, n)
  BY <1>3, <1>4 DEF InFront, IsAbove
<1>9. ASSUME NEW i \in DOMAIN out, NEW j \in DOMAIN out, NEW m \in used, NEW n \in used,
             i < j, out[i] = node[m].key, out[j] = node[n].key
      PROVE  IsAbove(m, n)
  <2>1. out[i] = k[m] /\ out[j] = k[n]
    BY <1>4, <1>9
  <2> QED BY <2>1, <1>6, <1>8, <1>9 DEF KeysInRows
<1> QED BY <1>6, <1>7, <1>9 DEF IsLevelorder

-----------------------------------------------------------------------------
(* The traversals with threads.                                            *)

MorrisStyles == {"preorder", "inorder"}

\* The nodes w[1], ..., w[L] wait for the traversal to come back along a thread,
\* each on the left of the one before; w[1], ..., w[i] owe R[i].
Waiting(style, l, r, k, d, U, f, w, R, L) ==
    /\ L \in Nat /\ w \in [Nat -> Node] /\ R \in [Nat -> Seq(Key)] /\ R[0] = <<>>
    /\ \A i \in 1..L : w[i] \in U /\ R[i] = Owed(style, k[w[i]], f[r[w[i]]]) \o R[i - 1]
    /\ \A j \in 1..L : \A i \in 1..(j - 1) : w[j] \in d[l[w[i]]]

Returned(g, H, x) == \E m \in H : g[m] = x

\* It is those nodes that the threads lead to.
AwaitThreads(g, H, U, w, L) ==
    \A a \in U : Returned(g, H, a) <=> \E i \in 1..L : w[i] = a

\* x has nothing left to print on its left when a thread leads to it: then it is
\* the last that waits.
Ahead(g, H, f, w, R, L, x, keys, all) ==
    IF Returned(g, H, x) THEN L # 0 /\ w[L] = x /\ keys \o R[L] = all
    ELSE keys \o (f[x] \o R[L]) = all

LEMMA NoLeftOwed ==
    ASSUME NEW style \in MorrisStyles, NEW x \in Key, NEW b \in Seq(Key), NEW z \in Seq(Key)
    PROVE  Written(style, x, <<>>, b) \o z = <<x>> \o (b \o z)
<1>1. PICK y \in Seq(Key) : y = b \o z
  BY ConcatProperties
<1>2. <<>> \in Seq(Key) /\ <<>> \o y = y
  BY ConcatEmptySeq
<1>3. CASE style = "preorder"
  <2>1. Written("preorder", x, <<>>, b) \o z = <<x>> \o (<<>> \o (b \o z))
    BY <1>2, PreorderOwed, ZenonT(60)
  <2> QED BY <2>1, <1>1, <1>2, <1>3
<1>4. CASE style = "inorder"
  <2> DEFINE one == <<x>>
  <2>1. one \in Seq(Key) /\ Written(style, x, <<>>, b) = <<>> \o one \o b
    BY <1>4 DEF Written
  <2> HIDE DEF one
  <2>2. PICK c \in Seq(Key) : c = one
    BY <2>1
  <2>3. <<>> \o c = c
    BY ConcatEmptySeq
  <2>4. (c \o b) \o z = c \o (b \o z)
    BY ConcatAssociative
  <2> QED BY <2>1, <2>2, <2>3, <2>4 DEF one
<1> QED BY <1>3, <1>4 DEF MorrisStyles

\* Past its left side a node that waits prints, in order, its key; then follows
\* its right side.
LEMMA ThreadOwed ==
    ASSUME NEW style \in MorrisStyles, NEW x \in Key, NEW a \in Seq(Key), NEW b \in Seq(Key),
           NEW z \in Seq(Key)
    PROVE  a \o (Owed(style, x, b) \o z)
             = (IF style = "inorder" THEN Append(a, x) ELSE a) \o (b \o z)
<1>1. CASE style = "preorder"
  BY <1>1 DEF Owed
<1>2. CASE style = "inorder"
  <2>1. a \o (<<>> \o (Owed("inorder", x, b) \o z)) = Append(a, x) \o (b \o z)
    BY InorderOwed
  <2>2. Owed("inorder", x, b) \in Seq(Key)
    BY OwedType
  <2>3. PICK y \in Seq(Key) : y = Owed("inorder", x, b) \o z
    BY <2>2, ConcatProperties
  <2>4. <<>> \o y = y
    BY ConcatEmptySeq
  <2> QED BY <2>1, <2>3, <2>4, <1>2
<1> QED BY <1>1, <1>2 DEF MorrisStyles

\* In order a node prints its left side first.
LEMMA LeftFirst ==
    ASSUME NEW x \in Key, NEW a \in Seq(Key), NEW b \in Seq(Key), NEW z \in Seq(Key)
    PROVE  Written("inorder", x, a, b) \o z = a \o (Owed("inorder", x, b) \o z)
<1>1. PICK style \in {"inorder", "postorder"} : style = "inorder"
  OBVIOUS
<1>2. Written(style, x, a, b) \o z = a \o (Owed(style, x, b) \o z)
  BY LeftThenOwed, ZenonT(60)
<1> QED BY <1>1, <1>2

\* And when it begins to wait it prints, in preorder, its key; then follows its
\* left side.
LEMMA WaitOwed ==
    ASSUME NEW style \in MorrisStyles, NEW x \in Key, NEW a \in Seq(Key), NEW b \in Seq(Key),
           NEW c \in Seq(Key), NEW z \in Seq(Key)
    PROVE  a \o (Written(style, x, b, c) \o z)
             = (IF style = "preorder" THEN Append(a, x) ELSE a) \o (b \o (Owed(style, x, c) \o z))
<1>1. CASE style = "preorder"
  <2>1. Written("preorder", x, b, c) \o z = <<x>> \o (b \o (c \o z))
    BY PreorderOwed, ZenonT(60)
  <2>2. c \o z \in Seq(Key) /\ b \o (c \o z) \in Seq(Key)
    BY ConcatProperties
  <2>3. PICK y \in Seq(Key) : y = b \o (c \o z)
    BY <2>2
  <2>4. Append(a, x) \o y = a \o (<<x>> \o y)
    BY KeyPrinted
  <2>5. Owed(style, x, c) = c
    BY <1>1 DEF Owed
  <2> QED BY <2>1, <2>3, <2>4, <2>5, <1>1
<1>2. CASE style = "inorder"
  <2>1. Written("inorder", x, b, c) \o z = b \o (Owed("inorder", x, c) \o z)
    BY LeftFirst, ZenonT(60)
  <2> QED BY <2>1, <1>2
<1> QED BY <1>1, <1>2 DEF MorrisStyles

\* The two for every list, to be instantiated one list at a time.
LEMMA EachWaitOwed ==
    \A style \in MorrisStyles : \A x \in Key : \A a \in Seq(Key) : \A b \in Seq(Key) :
       \A c \in Seq(Key) : \A z \in Seq(Key) :
          a \o (Written(style, x, b, c) \o z)
             = (IF style = "preorder" THEN Append(a, x) ELSE a) \o (b \o (Owed(style, x, c) \o z))
BY WaitOwed

LEMMA EachThreadOwed ==
    \A style \in MorrisStyles : \A x \in Key : \A a \in Seq(Key) : \A b \in Seq(Key) :
       \A z \in Seq(Key) :
          a \o (Owed(style, x, b) \o z)
             = (IF style = "inorder" THEN Append(a, x) ELSE a) \o (b \o z)
BY ThreadOwed

\* A node to which no thread leads is to the left of those that wait.
LEMMA WaitingAbove ==
    ASSUME NEW style, NEW l, NEW r, NEW k, NEW d, NEW U, NEW root,
           Tree(l, r, k, d, U, root), NEW g, NEW H, NEW f, NEW w, NEW R, NEW L,
           Waiting(style, l, r, k, d, U, f, w, R, L), AwaitThreads(g, H, U, w, L),
           NEW x \in U, Hung(l, g, k, d, U, H, x), ~Returned(g, H, x),
           NEW i \in 1..L
    PROVE  w[i] \in U /\ x \in d[l[w[i]]] /\ k[x] < k[w[i]]
<1>1. w[i] \in U
  BY DEF Waiting
<1>2. Returned(g, H, w[i])
  BY <1>1 DEF AwaitThreads
<1>3. PICK m \in H : g[m] = w[i]
  BY <1>2 DEF Returned
<1>4. x = g[m] \/ x \in d[l[g[m]]]
  BY DEF Hung
<1>5. x \in d[l[w[i]]]
  BY <1>3, <1>4 DEF Returned
<1>6. k[x] < k[w[i]]
  BY <1>1, <1>5, TreeFacts
<1> QED BY <1>1, <1>5, <1>6

\* From a node whose left side is printed the traversal goes on to its right
\* child, or along its thread, which leads to the last that waits.
LEMMA GoneOn ==
    ASSUME NEW style \in MorrisStyles, NEW l, NEW r, NEW k, NEW d, NEW U, NEW root,
           Tree(l, r, k, d, U, root), NEW g, NEW H \in SUBSET U,
           \A m \in H : r[m] = NULL, \A m \in U \ H : r[m] = g[m],
           NEW f, f[NULL] = <<>>, NEW w, NEW R, NEW L,
           Waiting(style, l, r, k, d, U, f, w, R, L), AwaitThreads(g, H, U, w, L),
           NEW x \in U, Hung(l, g, k, d, U, H, x), ~Returned(g, H, x),
           NEW keys, NEW all, keys \o (f[r[x]] \o R[L]) = all
    PROVE  Ahead(g, H, f, w, R, L, g[x], keys, all)
<1>1. /\ NULL \notin U /\ d[NULL] = {} /\ \A m \in U : k[m] \in Int
      /\ \A m \in U : l[m] \in U \cup {NULL} /\ r[m] \in U \cup {NULL} /\ m \in d[m]
      /\ \A e, m \in U : e \in d[l[m]] <=> e \in d[m] /\ k[e] < k[m]
  BY TreeFacts
<1>2. \A m \in H : /\ g[m] \in U /\ m \in d[l[g[m]]]
                   /\ \A b \in d[l[g[m]]] : k[b] <= k[m]
                   /\ x = g[m] \/ x \in d[l[g[m]]]
  BY DEF Hung
<1>3. L \in Nat /\ R \in [Nat -> Seq(Key)]
  BY Zenon DEF Waiting
<1>4. PICK z \in Seq(Key) : z = R[L]
  BY <1>3
<1>5. <<>> \o z = z
  BY ConcatEmptySeq
<1>6. CASE x \in H
  <2>1. PICK y \in U : y = g[x]
    BY <1>2, <1>6
  <2>2. Returned(g, H, y)
    BY <2>1, <1>6 DEF Returned
  <2>3. PICK i \in 1..L : w[i] = y
    BY <2>2 DEF AwaitThreads
  <2>4. L # 0 /\ L \in 1..L
    BY <2>3, <1>3
  <2>5. ASSUME i # L PROVE FALSE
    <3>1. i \in 1..(L - 1)
      BY <2>5, <1>3
    <3>2. w[L] \in d[l[w[i]]]
      BY <3>1, <2>4, Zenon DEF Waiting
    <3>3. k[w[L]] <= k[x]
      BY <3>2, <2>1, <2>3, <1>2, <1>6
    <3>4. w[L] \in U /\ k[x] < k[w[L]]
      BY <2>4, WaitingAbove, ZenonT(60)
    <3> QED BY <3>3, <3>4, <1>1
  <2>6. w[L] = y
    BY <2>3, <2>5
  <2>7. keys \o z = all
    BY <1>4, <1>5, <1>6
  <2> QED BY <2>1, <2>2, <2>4, <2>6, <2>7, <1>4 DEF Ahead
<1>7. CASE x \notin H /\ r[x] # NULL
  <2>1. g[x] = r[x] /\ r[x] \in U
    BY <1>1, <1>7
  <2>2. r[x] \in d[x] /\ r[x] # x
    BY <2>1, AboveChild
  <2>3. ASSUME NEW m \in H, g[m] = r[x] PROVE FALSE
    <3>1. x \in d[l[r[x]]]
      BY <2>2, <2>3, <1>2
    <3>2. x \in d[r[x]]
      BY <3>1, <2>1, <1>1
    <3> QED BY <3>2, <2>1, <2>2, BelowAntisymmetric
  <2>4. ~Returned(g, H, g[x])
    BY <2>1, <2>3 DEF Returned
  <2> QED BY <2>1, <2>4 DEF Ahead
<1>8. CASE x \notin H /\ r[x] = NULL
  <2>1. g[x] = NULL
    BY <1>8
  <2>2. ~Returned(g, H, NULL)
    BY <1>1, <1>2 DEF Returned
  <2> QED BY <2>1, <2>2, <1>8 DEF Ahead
<1> QED BY <1>6, <1>7, <1>8

\* The traversal is at x, with threads to the nodes that wait.
OnThreads(style, l, r, k, d, U, root, g, H, f, w, R, L, x, keys, all) ==
    /\ style \in MorrisStyles /\ Tree(l, r, k, d, U, root) /\ H \in SUBSET U
    /\ \A m \in H : r[m] = NULL
    /\ \A m \in U \ H : r[m] = g[m]
    /\ \A m \in U : k[m] \in Key
    /\ f[NULL] = <<>>
    /\ \A m \in U \cup {NULL} : f[m] \in Seq(Key)
    /\ \A m \in U : f[m] = Written(style, k[m], f[l[m]], f[r[m]])
    /\ Waiting(style, l, r, k, d, U, f, w, R, L) /\ AwaitThreads(g, H, U, w, L)
    /\ x \in U /\ Hung(l, g, k, d, U, H, x) /\ keys \in Seq(Key)
    /\ Ahead(g, H, f, w, R, L, x, keys, all)

\* A thread is hung to x, which waits, and the traversal goes to its left child.
LEMMA WaitsNow ==
    ASSUME NEW style, NEW l, NEW r, NEW k, NEW d, NEW U, NEW root, NEW g, NEW H, NEW f,
           NEW w, NEW R, NEW L, NEW x, NEW keys, NEW all,
           OnThreads(style, l, r, k, d, U, root, g, H, f, w, R, L, x, keys, all),
           NEW y \in U \ H, r[y] = NULL, LastOnTheLeft(l, k, d, x, y),
           NEW h, h[y] = x, SameBut(g, h, U, y)
    PROVE  \E w2, R2 :
              /\ Waiting(style, l, r, k, d, U, f, w2, R2, L + 1)
              /\ AwaitThreads(h, H \cup {y}, U, w2, L + 1)
              /\ Ahead(h, H \cup {y}, f, w2, R2, L + 1, l[x],
                       IF style = "preorder" THEN Append(keys, k[x]) ELSE keys, all)
<1> SUFFICES
      ASSUME style \in MorrisStyles, Tree(l, r, k, d, U, root), H \in SUBSET U,
             \A m \in U : k[m] \in Key,
             \A m \in U \cup {NULL} : f[m] \in Seq(Key),
             \A m \in U : f[m] = Written(style, k[m], f[l[m]], f[r[m]]),
             Waiting(style, l, r, k, d, U, f, w, R, L), AwaitThreads(g, H, U, w, L),
             x \in U, Hung(l, g, k, d, U, H, x), keys \in Seq(Key),
             Ahead(g, H, f, w, R, L, x, keys, all)
      PROVE  \E w2, R2 :
                /\ Waiting(style, l, r, k, d, U, f, w2, R2, L + 1)
                /\ AwaitThreads(h, H \cup {y}, U, w2, L + 1)
                /\ Ahead(h, H \cup {y}, f, w2, R2, L + 1, l[x],
                         IF style = "preorder" THEN Append(keys, k[x]) ELSE keys, all)
  BY Zenon DEF OnThreads
<1>1. /\ NULL \notin U /\ U \subseteq Node /\ d[NULL] = {} /\ \A m \in U : k[m] \in Int
      /\ \A m \in U : l[m] \in U \cup {NULL} /\ r[m] \in U \cup {NULL} /\ m \in d[m]
      /\ \A e, m \in U : e \in d[l[m]] <=> e \in d[m] /\ k[e] < k[m]
      /\ \A e, m \in U : e \in d[r[m]] <=> e \in d[m] /\ k[e] > k[m]
  BY TreeFacts
<1>2. \A m \in H : /\ g[m] \in U /\ m \in d[l[g[m]]]
                   /\ \A b \in d[l[g[m]]] : k[b] <= k[m]
                   /\ x = g[m] \/ x \in d[l[g[m]]]
  BY DEF Hung
<1>3. y \in d[l[x]] /\ \A m \in d[l[x]] : m \in d[y] \/ k[m] < k[y]
  BY DEF LastOnTheLeft
<1>4. /\ L \in Nat /\ R \in [Nat -> Seq(Key)] /\ w \in [Nat -> Node] /\ R[0] = <<>>
      /\ \A i \in 1..L : w[i] \in U /\ R[i] = Owed(style, k[w[i]], f[r[w[i]]]) \o R[i - 1]
      /\ \A j \in 1..L : \A i \in 1..(j - 1) : w[j] \in d[l[w[i]]]
  BY Zenon DEF Waiting
<1>5. ASSUME NEW m \in H, g[m] = x PROVE FALSE
  <2>1. m \in U /\ m \in d[l[x]] /\ k[y] <= k[m]
    BY <1>2, <1>3, <1>5
  <2>2. m \in d[y]
    BY <2>1, <1>1, <1>3
  <2>3. m \in d[r[y]]
    <3>1. m # y
      OBVIOUS
    <3>2. k[m] > k[y]
      BY <2>1, <3>1, <1>1, KeysDiffer
    <3> QED BY <2>1, <2>2, <3>2, <1>1
  <2> QED BY <2>3, <1>1
<1>6. ~Returned(g, H, x) /\ keys \o (f[x] \o R[L]) = all
  BY <1>5 DEF Returned, Ahead
<1>7. l[x] \in U /\ l[x] \in d[x] /\ l[x] # x
  <2>1. l[x] \in U
    BY <1>1, <1>3
  <2> QED BY <2>1, AboveChild
<1>8. PICK new : new = Owed(style, k[x], f[r[x]]) \o R[L]
  OBVIOUS
<1>9. new \in Seq(Key) /\ R[L] \in Seq(Key) /\ f[l[x]] \in Seq(Key) /\ f[r[x]] \in Seq(Key)
      /\ k[x] \in Key
  <2>1. R[L] \in Seq(Key)
    BY <1>4
  <2>2. k[x] \in Key /\ f[r[x]] \in Seq(Key) /\ f[l[x]] \in Seq(Key)
    BY <1>1
  <2>3. Owed(style, k[x], f[r[x]]) \in Seq(Key)
    BY <2>2, OwedType
  <2> QED BY <2>1, <2>2, <2>3, <1>8, ConcatProperties
<1>10. PICK w2 : w2 = [w EXCEPT ![L + 1] = x]
  OBVIOUS
<1>11. PICK R2 : R2 = [R EXCEPT ![L + 1] = new]
  OBVIOUS
<1>12. /\ L \in Nat /\ L + 1 \in Nat /\ L + 1 # 0
       /\ \A i \in 0..L : i \in Nat /\ i # L + 1
  <2>1. L \in Nat
    BY <1>4, Zenon
  <2> QED BY <2>1
<1>13. w2 \in [Nat -> Node] /\ w2[L + 1] = x /\ \A i \in 0..L : w2[i] = w[i]
  <2>1. w \in [Nat -> Node] /\ x \in Node
    BY <1>1, <1>4
  <2> QED BY <2>1, <1>10, <1>12
<1>14. R2 \in [Nat -> Seq(Key)] /\ R2[L + 1] = new /\ \A i \in 0..L : R2[i] = R[i]
  <2>1. R \in [Nat -> Seq(Key)]
    BY <1>4, Zenon
  <2> QED BY <2>1, <1>9, <1>11, <1>12
<1>15. ASSUME NEW i \in 1..(L + 1)
       PROVE  w2[i] \in U /\ R2[i] = Owed(style, k[w2[i]], f[r[w2[i]]]) \o R2[i - 1]
  <2>1. CASE i = L + 1
    <3>1. i - 1 = L /\ L \in 0..L
      BY <2>1, <1>12
    <3>2. R2[i - 1] = R[L]
      BY <3>1, <1>14
    <3> QED BY <3>2, <2>1, <1>8, <1>13, <1>14
  <2>2. CASE i # L + 1
    <3>1. i \in 1..L /\ i \in 0..L /\ i - 1 \in 0..L
      BY <2>2, <1>12
    <3>2. w2[i] = w[i] /\ R2[i] = R[i] /\ R2[i - 1] = R[i - 1]
      BY <3>1, <1>13, <1>14
    <3> QED BY <3>1, <3>2, <1>4
  <2> QED BY <2>1, <2>2
<1>16. ASSUME NEW j \in 1..(L + 1), NEW i \in 1..(j - 1) PROVE w2[j] \in d[l[w2[i]]]
  <2>1. i \in 1..L /\ i \in 0..L
    BY <1>12
  <2>2. w2[i] = w[i]
    BY <2>1, <1>13
  <2>3. CASE j = L + 1
    <3>1. x \in d[l[w[i]]]
      <4>1. w[i] \in U
        BY <2>1, <1>4, Zenon
      <4>2. Returned(g, H, w[i])
        BY <2>1, <4>1 DEF AwaitThreads
      <4>3. PICK m \in H : g[m] = w[i]
        BY <4>2 DEF Returned
      <4>4. g[m] # x
        BY <1>5
      <4> QED BY <4>3, <4>4, <1>2
    <3> QED BY <2>2, <2>3, <3>1, <1>13
  <2>4. CASE j # L + 1
    <3>1. j \in 1..L /\ j \in 0..L
      BY <2>4, <1>12
    <3>2. w2[j] = w[j]
      BY <3>1, <1>13
    <3> QED BY <2>2, <3>1, <3>2, <1>4
  <2> QED BY <2>3, <2>4
<1>17. Waiting(style, l, r, k, d, U, f, w2, R2, L + 1)
  <2>1. R2[0] = <<>>
    <3>1. 0 \in 0..L
      BY <1>4
    <3> QED BY <3>1, <1>4, <1>14
  <2>2. /\ L + 1 \in Nat /\ w2 \in [Nat -> Node] /\ R2 \in [Nat -> Seq(Key)]
        /\ \A i \in 1..(L + 1) :
              w2[i] \in U /\ R2[i] = Owed(style, k[w2[i]], f[r[w2[i]]]) \o R2[i - 1]
        /\ \A j \in 1..(L + 1) : \A i \in 1..(j - 1) : w2[j] \in d[l[w2[i]]]
    BY <1>12, <1>13, <1>14, <1>15, <1>16
  <2> QED BY <2>1, <2>2, Zenon DEF Waiting
<1>18. \A m \in H : h[m] = g[m]
  BY DEF SameBut
<1>19. AwaitThreads(h, H \cup {y}, U, w2, L + 1)
  <2>1. ASSUME NEW a \in U
        PROVE  Returned(h, H \cup {y}, a) <=> \E i \in 1..(L + 1) : w2[i] = a
    <3>1. Returned(h, H \cup {y}, a) <=> Returned(g, H, a) \/ a = x
      BY <1>18 DEF Returned
    <3>2. (\E i \in 1..(L + 1) : w2[i] = a) <=> (\E i \in 1..L : w[i] = a) \/ a = x
      <4>1. L + 1 \in 1..(L + 1) /\ w2[L + 1] = x
        BY <1>12, <1>13
      <4>2. \A i \in 1..L : i \in 1..(L + 1) /\ w2[i] = w[i]
        BY <1>12, <1>13
      <4>3. \A i \in 1..(L + 1) : i \in 1..L \/ i = L + 1
        BY <1>12
      <4> QED BY <4>1, <4>2, <4>3
    <3> QED BY <3>1, <3>2 DEF AwaitThreads
  <2> QED BY <2>1 DEF AwaitThreads
<1>20. ~Returned(h, H \cup {y}, l[x])
  <2>1. ASSUME NEW m \in H, g[m] = l[x] PROVE FALSE
    <3>1. x \in d[l[l[x]]]
      BY <2>1, <1>2, <1>7
    <3>2. x \in d[l[x]]
      BY <3>1, <1>1, <1>7
    <3> QED BY <3>2, <1>7, BelowAntisymmetric
  <2> QED BY <2>1, <1>7, <1>18 DEF Returned
<1>21. (IF style = "preorder" THEN Append(keys, k[x]) ELSE keys) \o (f[l[x]] \o R2[L + 1]) = all
  <2>1. PICK v \in Key : v = k[x]
    BY <1>9
  <2>2. PICK b \in Seq(Key) : b = f[l[x]]
    BY <1>9
  <2>3. PICK c \in Seq(Key) : c = f[r[x]]
    BY <1>9
  <2>4. PICK z \in Seq(Key) : z = R[L]
    BY <1>9
  <2>5. keys \o (Written(style, v, b, c) \o z)
           = (IF style = "preorder" THEN Append(keys, v) ELSE keys)
                \o (b \o (Owed(style, v, c) \o z))
    <3>1. \A a1 \in Seq(Key) : \A b1 \in Seq(Key) : \A c1 \in Seq(Key) : \A z1 \in Seq(Key) :
             a1 \o (Written(style, v, b1, c1) \o z1)
                = (IF style = "preorder" THEN Append(a1, v) ELSE a1)
                     \o (b1 \o (Owed(style, v, c1) \o z1))
      BY EachWaitOwed, Zenon
    <3>2. \A c1 \in Seq(Key) : \A z1 \in Seq(Key) :
             keys \o (Written(style, v, b, c1) \o z1)
                = (IF style = "preorder" THEN Append(keys, v) ELSE keys)
                     \o (b \o (Owed(style, v, c1) \o z1))
      BY <3>1, Zenon
    <3> QED BY <3>2, Zenon
  <2>6. keys \o (Written(style, v, b, c) \o z) = all
    BY <2>1, <2>2, <2>3, <2>4, <1>6
  <2> QED BY <2>1, <2>2, <2>3, <2>4, <2>5, <2>6, <1>8, <1>14
<1>22. Ahead(h, H \cup {y}, f, w2, R2, L + 1, l[x],
             IF style = "preorder" THEN Append(keys, k[x]) ELSE keys, all)
  BY <1>20, <1>21 DEF Ahead
<1> QED BY <1>17, <1>19, <1>22

\* The other threads stay where they were.
LEMMA OneNoMore ==
    ASSUME NEW style, NEW l, NEW r, NEW k, NEW d, NEW U, NEW root, NEW g, NEW H, NEW f,
           NEW w, NEW R, NEW L, NEW x, NEW keys, NEW all,
           OnThreads(style, l, r, k, d, U, root, g, H, f, w, R, L, x, keys, all),
           NEW y \in H, g[y] = x, NEW h, SameBut(g, h, U, y)
    PROVE  /\ Hung(l, h, k, d, U, H \ {y}, x)
           /\ \A m \in H \ {y} : h[m] # x
<1>1. /\ Tree(l, r, k, d, U, root) /\ H \in SUBSET U /\ x \in U
      /\ Hung(l, g, k, d, U, H, x)
  BY Zenon DEF OnThreads
<1> QED BY <1>1, ThreadCut

\* The thread to x is cut, and the traversal goes on from there.
LEMMA WaitsNoMore ==
    ASSUME NEW style, NEW l, NEW r, NEW k, NEW d, NEW U, NEW root, NEW g, NEW H, NEW f,
           NEW w, NEW R, NEW L, NEW x, NEW keys, NEW all,
           OnThreads(style, l, r, k, d, U, root, g, H, f, w, R, L, x, keys, all),
           NEW y \in H, g[y] = x, NEW h, SameBut(g, h, U, y),
           \A m \in U \ (H \ {y}) : r[m] = h[m]
    PROVE  /\ Waiting(style, l, r, k, d, U, f, w, R, L - 1)
           /\ AwaitThreads(h, H \ {y}, U, w, L - 1)
           /\ Ahead(h, H \ {y}, f, w, R, L - 1, h[x],
                    IF style = "inorder" THEN Append(keys, k[x]) ELSE keys, all)
<1>1. /\ Hung(l, h, k, d, U, H \ {y}, x) /\ \A m \in H \ {y} : h[m] # x
  BY OneNoMore
<1> SUFFICES
      ASSUME style \in MorrisStyles, Tree(l, r, k, d, U, root), H \in SUBSET U,
             \A m \in H : r[m] = NULL,
             \A m \in U : k[m] \in Key,
             f[NULL] = <<>>, \A m \in U \cup {NULL} : f[m] \in Seq(Key),
             Waiting(style, l, r, k, d, U, f, w, R, L), AwaitThreads(g, H, U, w, L),
             x \in U, Hung(l, g, k, d, U, H, x), keys \in Seq(Key),
             Ahead(g, H, f, w, R, L, x, keys, all)
      PROVE  /\ Waiting(style, l, r, k, d, U, f, w, R, L - 1)
             /\ AwaitThreads(h, H \ {y}, U, w, L - 1)
             /\ Ahead(h, H \ {y}, f, w, R, L - 1, h[x],
                      IF style = "inorder" THEN Append(keys, k[x]) ELSE keys, all)
  BY Zenon DEF OnThreads
<1>2. /\ NULL \notin U /\ d[NULL] = {} /\ \A m \in U : k[m] \in Int
      /\ \A m \in U : l[m] \in U \cup {NULL} /\ r[m] \in U \cup {NULL} /\ m \in d[m]
      /\ \A e, m \in U : e \in d[l[m]] <=> e \in d[m] /\ k[e] < k[m]
  BY TreeFacts
<1>3. /\ L \in Nat /\ R \in [Nat -> Seq(Key)] /\ w \in [Nat -> Node] /\ R[0] = <<>>
      /\ \A i \in 1..L : w[i] \in U /\ R[i] = Owed(style, k[w[i]], f[r[w[i]]]) \o R[i - 1]
      /\ \A j \in 1..L : \A i \in 1..(j - 1) : w[j] \in d[l[w[i]]]
  BY Zenon DEF Waiting
<1>4. L # 0 /\ w[L] = x /\ keys \o R[L] = all
  BY DEF Returned, Ahead
<1>5. /\ L - 1 \in Nat /\ L \in 1..L /\ \A i \in 1..(L - 1) : i \in 1..L
      /\ \A i \in 1..L : i \in 1..(L - 1) \/ i = L
  <2>1. L \in Nat /\ L # 0
    BY <1>3, <1>4, Zenon
  <2> QED BY <2>1
<1>6. Waiting(style, l, r, k, d, U, f, w, R, L - 1)
  <2>1. /\ \A i \in 1..(L - 1) :
              w[i] \in U /\ R[i] = Owed(style, k[w[i]], f[r[w[i]]]) \o R[i - 1]
        /\ \A j \in 1..(L - 1) : \A i \in 1..(j - 1) : w[j] \in d[l[w[i]]]
    BY <1>3, <1>5
  <2> QED BY <2>1, <1>3, <1>5, Zenon DEF Waiting
<1>7. ~Returned(h, H \ {y}, x)
  BY <1>1 DEF Returned
<1>8. AwaitThreads(h, H \ {y}, U, w, L - 1)
  <2>1. ASSUME NEW a \in U
        PROVE  Returned(h, H \ {y}, a) <=> \E i \in 1..(L - 1) : w[i] = a
    <3>1. CASE a = x
      <4>1. ASSUME NEW i \in 1..(L - 1), w[i] = x PROVE FALSE
        <5>1. w[L] \in d[l[w[i]]]
          BY <4>1, <1>3, <1>5, Zenon
        <5>2. x \in d[l[x]]
          BY <4>1, <5>1, <1>4
        <5> QED BY <5>2, <1>2
      <4> QED BY <3>1, <4>1, <1>7
    <3>2. CASE a # x
      <4>1. Returned(h, H \ {y}, a) <=> Returned(g, H, a)
        <5>1. \A m \in H \ {y} : h[m] = g[m]
          BY DEF SameBut
        <5> QED BY <3>2, <5>1 DEF Returned
      <4>2. (\E i \in 1..L : w[i] = a) <=> (\E i \in 1..(L - 1) : w[i] = a)
        BY <3>2, <1>4, <1>5
      <4> QED BY <4>1, <4>2 DEF AwaitThreads
    <3> QED BY <3>1, <3>2
  <2> QED BY <2>1 DEF AwaitThreads
<1>9. PICK keys2 : keys2 = IF style = "inorder" THEN Append(keys, k[x]) ELSE keys
  OBVIOUS
<1>10. keys2 \o (f[r[x]] \o R[L - 1]) = all
  <2>1. PICK v \in Key : v = k[x]
    OBVIOUS
  <2>2. PICK c \in Seq(Key) : c = f[r[x]]
    BY <1>2
  <2>3. PICK z \in Seq(Key) : z = R[L - 1]
    BY <1>3, <1>5
  <2>4. R[L] = Owed(style, v, c) \o z
    BY <2>1, <2>2, <2>3, <1>3, <1>4, <1>5
  <2>5. keys \o (Owed(style, v, c) \o z)
           = (IF style = "inorder" THEN Append(keys, v) ELSE keys) \o (c \o z)
    <3>1. \A a1 \in Seq(Key) : \A c1 \in Seq(Key) : \A z1 \in Seq(Key) :
             a1 \o (Owed(style, v, c1) \o z1)
                = (IF style = "inorder" THEN Append(a1, v) ELSE a1) \o (c1 \o z1)
      BY EachThreadOwed, Zenon
    <3> QED BY <3>1, Zenon
  <2> QED BY <2>1, <2>2, <2>3, <2>4, <2>5, <1>4, <1>9
<1>11. Ahead(h, H \ {y}, f, w, R, L - 1, h[x], keys2, all)
  <2>1. PICK H2 : H2 = H \ {y}
    OBVIOUS
  <2>2. /\ H2 \in SUBSET U /\ \A m \in H2 : r[m] = NULL
        /\ \A m \in U \ H2 : r[m] = h[m]
        /\ Hung(l, h, k, d, U, H2, x) /\ ~Returned(h, H2, x)
        /\ AwaitThreads(h, H2, U, w, L - 1)
    BY <2>1, <1>1, <1>7, <1>8
  <2>3. PICK L2 : L2 = L - 1
    OBVIOUS
  <2>4. /\ Waiting(style, l, r, k, d, U, f, w, R, L2) /\ AwaitThreads(h, H2, U, w, L2)
        /\ keys2 \o (f[r[x]] \o R[L2]) = all
    BY <2>2, <2>3, <1>6, <1>10
  <2>5. Ahead(h, H2, f, w, R, L2, h[x], keys2, all)
    BY <2>2, <2>4, GoneOn, ZenonT(60)
  <2> QED BY <2>1, <2>3, <2>5
<1> QED BY <1>6, <1>8, <1>9, <1>11

\* Where a traversal with threads is, and what is yet to come.
AlongThreads(d, H, f, w, R, L) ==
    /\ Waiting(Style(op), Lefts(node), Rights(node, H), Keys(node), d, used, f, w, R, L)
    /\ AwaitThreads(Rights(node, {}), H, used, w, L)
    /\ Ahead(Rights(node, {}), H, f, w, R, L, p, out, f[t])

LEMMA MorrisStyle ==
    ASSUME op \in Morris
    PROVE  /\ Style(op) \in MorrisStyles
           /\ op = "morris preorder" <=> Style(op) = "preorder"
           /\ op = "morris inorder" <=> Style(op) = "inorder"
BY DEF Morris, MorrisStyles, Style

\* What the three steps need to know of the heap.
LinkFacts(d, H, f, l, r, g, k) ==
    /\ Tree(l, r, k, d, used, t) /\ H \in SUBSET used /\ Hung(l, g, k, d, used, H, p)
    /\ \A m \in H : r[m] = NULL
    /\ \A m \in used \ H : r[m] = g[m]
    /\ \A m \in used : k[m] \in Key
    /\ \A m \in used : f[m] = Written(Style(op), k[m], f[l[m]], f[r[m]])
    /\ \A m \in Node : l[m] = node[m].left /\ g[m] = node[m].right /\ k[m] = node[m].key

NodeFacts(f) ==
    /\ p \in used /\ p \in Node /\ used \subseteq Node /\ out \in Seq(Key)
    /\ f[NULL] = <<>> /\ \A m \in used \cup {NULL} : f[m] \in Seq(Key)
    /\ Style(op) \in MorrisStyles

\* Both hold in the middle of a traversal that hangs threads.
LEMMA InTheThreads ==
    ASSUME IInv, Threaded, p # NULL, NEW d, NEW H, Shape(d, H),
           NEW f, Printed(Style(op), f, H)
    PROVE  /\ LinkFacts(d, H, f, Lefts(node), Rights(node, H), Rights(node, {}), Keys(node))
           /\ NodeFacts(f)
           /\ pc = "seek" => q \in used /\ Rightmost(d, p, q)
<1>1. TypeOK /\ op \in Morris /\ out \in Seq(Key)
  BY DEF IInv, Threaded, TypeOK
<1>2. Middle(d, H)
  BY InTheMiddle
<1>3. /\ Tree(Lefts(node), Rights(node, H), Keys(node), d, used, t)
      /\ H \subseteq used /\ p \in used \cup {NULL}
      /\ Hung(Lefts(node), Rights(node, {}), Keys(node), d, used, H, p)
      /\ pc = "seek" => q \in used /\ Rightmost(d, p, q)
  BY <1>2 DEF Middle
<1>4. /\ used \subseteq Node /\ NULL \notin Node
      /\ \A n \in Node : node[n].key \in Key
  BY <1>1, NodeTypes
<1>5. /\ f[NULL] = <<>> /\ \A n \in used \cup {NULL} : f[n] \in Seq(Key)
      /\ \A n \in used :
            f[n] = Written(Style(op), node[n].key, f[node[n].left], f[Rights(node, H)[n]])
  BY <1>1, PrintedFacts
<1>6. \A m \in Node : /\ Lefts(node)[m] = node[m].left
                      /\ Rights(node, {})[m] = node[m].right
                      /\ Keys(node)[m] = node[m].key
                      /\ m \in H => Rights(node, H)[m] = NULL
                      /\ m \notin H => Rights(node, H)[m] = node[m].right
  BY DEF Lefts, Rights, Keys
<1>7. /\ \A m \in H : Rights(node, H)[m] = NULL
      /\ \A m \in used \ H : Rights(node, H)[m] = Rights(node, {})[m]
      /\ \A m \in used : Keys(node)[m] \in Key
  BY <1>3, <1>4, <1>6
<1>8. \A m \in used :
         f[m] = Written(Style(op), Keys(node)[m], f[Lefts(node)[m]], f[Rights(node, H)[m]])
  BY <1>4, <1>5, <1>6
<1>9. \A m \in Node : /\ Lefts(node)[m] = node[m].left
                      /\ Rights(node, {})[m] = node[m].right
                      /\ Keys(node)[m] = node[m].key
  BY <1>6
<1>10. LinkFacts(d, H, f, Lefts(node), Rights(node, H), Rights(node, {}), Keys(node))
  <2>1. H \in SUBSET used
    BY <1>3
  <2> QED BY <2>1, <1>3, <1>7, <1>8, <1>9, Zenon DEF LinkFacts
<1>11. NodeFacts(f)
  <2>1. p \in used /\ p \in Node
    BY <1>3, <1>4
  <2>2. Style(op) \in MorrisStyles
    BY <1>1, MorrisStyle
  <2> QED BY <2>1, <2>2, <1>1, <1>4, <1>5, Zenon DEF NodeFacts
<1> QED BY <1>3, <1>10, <1>11

\* A node without a left child: its key is printed and the traversal goes on.
LEMMA NoLeftPrinted ==
    ASSUME NEW style \in MorrisStyles, NEW l, NEW r, NEW k, NEW d, NEW U, NEW root,
           Tree(l, r, k, d, U, root), NEW g, NEW H \in SUBSET U,
           \A m \in H : r[m] = NULL, \A m \in U \ H : r[m] = g[m],
           \A m \in U : k[m] \in Key,
           NEW f, f[NULL] = <<>>, \A m \in U \cup {NULL} : f[m] \in Seq(Key),
           \A m \in U : f[m] = Written(style, k[m], f[l[m]], f[r[m]]),
           NEW w, NEW R, NEW L,
           Waiting(style, l, r, k, d, U, f, w, R, L), AwaitThreads(g, H, U, w, L),
           NEW x \in U, Hung(l, g, k, d, U, H, x), l[x] = NULL,
           NEW keys \in Seq(Key), NEW all, Ahead(g, H, f, w, R, L, x, keys, all)
    PROVE  Ahead(g, H, f, w, R, L, g[x], Append(keys, k[x]), all)
<1>1. /\ d[NULL] = {} /\ \A m \in U : r[m] \in U \cup {NULL}
  BY TreeFacts
<1>2. ~Returned(g, H, x)
  <2>1. \A m \in H : m \in d[l[g[m]]]
    BY DEF Hung
  <2> QED BY <2>1, <1>1 DEF Returned
<1>3. keys \o (f[x] \o R[L]) = all
  BY <1>2 DEF Ahead
<1>4. L \in Nat /\ R \in [Nat -> Seq(Key)]
  BY Zenon DEF Waiting
<1>5. PICK v \in Key : v = k[x]
  OBVIOUS
<1>6. PICK b \in Seq(Key) : b = f[r[x]]
  BY <1>1
<1>7. PICK z \in Seq(Key) : z = R[L]
  BY <1>4
<1>8. f[x] = Written(style, v, <<>>, b)
  BY <1>5, <1>6
<1>9. Written(style, v, <<>>, b) \o z = <<v>> \o (b \o z)
  BY NoLeftOwed
<1>10. b \o z \in Seq(Key)
  BY ConcatProperties
<1>11. PICK y \in Seq(Key) : y = b \o z
  BY <1>10
<1>12. Append(keys, v) \o y = keys \o (<<v>> \o y)
  BY KeyPrinted
<1>13. PICK keys2 : keys2 = Append(keys, v)
  OBVIOUS
<1>14. keys2 \o (f[r[x]] \o R[L]) = all
  BY <1>3, <1>6, <1>7, <1>8, <1>9, <1>11, <1>12, <1>13
<1>15. Ahead(g, H, f, w, R, L, g[x], keys2, all)
  BY <1>2, <1>14, GoneOn
<1> QED BY <1>5, <1>13, <1>15

LEMMA MorrisStepPrints ==
    ASSUME IInv, MorrisStep, NEW d, NEW H, Shape(d, H),
           NEW f, Printed(Style(op), f, H), NEW w, NEW R, NEW L,
           AlongThreads(d, H, f, w, R, L)
    PROVE  AlongThreads(d, H, f, w, R, L)'
<1>1. /\ pc = "visit" /\ op \in Morris /\ p # NULL
      /\ \/ node[p].left = NULL /\ out' = Append(out, node[p].key) /\ p' = node[p].right
         \/ node[p].left # NULL /\ p' = p /\ out' = out
      /\ UNCHANGED <<node, used, t, op>>
  BY DEF MorrisStep, Traverses, PrintNode
<1>2. CASE node[p].left # NULL
  <2>1. UNCHANGED <<node, used, t, op, p, out>>
    BY <1>1, <1>2
  <2> QED BY <2>1, Zenon DEF AlongThreads
<1>3. CASE node[p].left = NULL
  <2>1. PICK l, r, g, k : /\ l = Lefts(node) /\ r = Rights(node, H)
                          /\ g = Rights(node, {}) /\ k = Keys(node)
    OBVIOUS
  <2>2. LinkFacts(d, H, f, l, r, g, k) /\ NodeFacts(f)
    BY <2>1, <1>1, InTheThreads DEF Threaded
  <2>3. PICK style, U, x, root, keys :
           style = Style(op) /\ U = used /\ x = p /\ root = t /\ keys = out
    OBVIOUS
  <2>4. /\ Waiting(style, l, r, k, d, U, f, w, R, L) /\ AwaitThreads(g, H, U, w, L)
        /\ Ahead(g, H, f, w, R, L, x, keys, f[root])
    BY <2>1, <2>3, Zenon DEF AlongThreads
  <2>5. /\ Tree(l, r, k, d, U, root) /\ H \in SUBSET U /\ Hung(l, g, k, d, U, H, x)
        /\ \A m \in H : r[m] = NULL
        /\ \A m \in U \ H : r[m] = g[m]
        /\ \A m \in U : k[m] \in Key
        /\ \A m \in U : f[m] = Written(style, k[m], f[l[m]], f[r[m]])
        /\ \A m \in Node : l[m] = node[m].left /\ g[m] = node[m].right /\ k[m] = node[m].key
    BY <2>2, <2>3, Zenon DEF LinkFacts
  <2>6. /\ x \in U /\ x \in Node /\ keys \in Seq(Key) /\ style \in MorrisStyles
        /\ f[NULL] = <<>> /\ \A m \in U \cup {NULL} : f[m] \in Seq(Key)
    BY <2>2, <2>3, Zenon DEF NodeFacts
  <2>7. l[x] = NULL /\ p' = g[x] /\ out' = Append(keys, k[x])
    BY <2>3, <2>5, <2>6, <1>1, <1>3
  <2>8. PICK all : all = f[root]
    OBVIOUS
  <2>9. Ahead(g, H, f, w, R, L, x, keys, all)
    BY <2>4, <2>8
  <2>10. Ahead(g, H, f, w, R, L, g[x], Append(keys, k[x]), all)
    BY <2>4, <2>5, <2>6, <2>7, <2>9, NoLeftPrinted
  <2>11. Ahead(g, H, f, w, R, L, p', out', f[t'])
    BY <2>3, <2>7, <2>8, <2>10, <1>1
  <2>12. /\ Waiting(Style(op)', l, r, k, d, used', f, w, R, L)
         /\ AwaitThreads(g, H, used', w, L)
    BY <2>3, <2>4, <1>1
  <2>13. /\ l = Lefts(node') /\ r = Rights(node', H) /\ g = Rights(node', {})
         /\ k = Keys(node')
    BY <2>1, <1>1
  <2> QED BY <2>11, <2>12, <2>13, Zenon DEF AlongThreads
<1> QED BY <1>2, <1>3

\* A thread is hung at p.
LEMMA MorrisHangPrints ==
    ASSUME IInv, MorrisHang, NEW d \in [Pointer -> SUBSET Node], NEW H \in SUBSET Node,
           Shape(d, H), NEW H2, H2 = H \cup {q},
           NEW f, Printed(Style(op), f, H), NEW w, NEW R, NEW L,
           AlongThreads(d, H, f, w, R, L)
    PROVE  Printed(Style(op), f, H2)' /\ \E w2, R2 : AlongThreads(d, H2, f, w2, R2, L + 1)'
<1>1. /\ pc = "seek" /\ node[q].right = NULL
      /\ node' = [node EXCEPT ![q].right = p]
      /\ out' = IF op = "morris preorder" THEN Append(out, node[p].key) ELSE out
      /\ p' = node[p].left
      /\ UNCHANGED <<used, t, op>>
  BY DEF MorrisHang, PrintNode
<1>2. TypeOK /\ op \in Morris /\ p # NULL
  BY <1>1 DEF IInv, Control
<1>3. q \notin H
  BY MorrisHangShape
<1>4. PICK l, r, g, k : /\ l = Lefts(node) /\ r = Rights(node, H)
                        /\ g = Rights(node, {}) /\ k = Keys(node)
  OBVIOUS
<1>5. LinkFacts(d, H, f, l, r, g, k) /\ NodeFacts(f) /\ q \in used /\ Rightmost(d, p, q)
  BY <1>1, <1>2, <1>4, InTheThreads DEF Threaded
<1>6. PICK style, U, x, y, root, keys, all :
         /\ style = Style(op) /\ U = used /\ x = p /\ y = q /\ root = t /\ keys = out
         /\ all = f[root]
  OBVIOUS
<1>7. /\ Waiting(style, l, r, k, d, U, f, w, R, L) /\ AwaitThreads(g, H, U, w, L)
      /\ Ahead(g, H, f, w, R, L, x, keys, f[root])
  BY <1>4, <1>6, Zenon DEF AlongThreads
<1>8. /\ Tree(l, r, k, d, U, root) /\ H \in SUBSET U /\ Hung(l, g, k, d, U, H, x)
      /\ \A m \in H : r[m] = NULL
      /\ \A m \in U \ H : r[m] = g[m]
      /\ \A m \in U : k[m] \in Key
      /\ \A m \in U : f[m] = Written(style, k[m], f[l[m]], f[r[m]])
      /\ \A m \in Node : l[m] = node[m].left /\ g[m] = node[m].right /\ k[m] = node[m].key
  BY <1>5, <1>6, Zenon DEF LinkFacts
<1>9. /\ x \in U /\ x \in Node /\ keys \in Seq(Key) /\ style \in MorrisStyles
      /\ f[NULL] = <<>> /\ \A m \in U \cup {NULL} : f[m] \in Seq(Key) /\ U \subseteq Node
  BY <1>5, <1>6, Zenon DEF NodeFacts
<1>10. y \in U \ H /\ y \in Node /\ x \in Pointer
  BY <1>3, <1>5, <1>6, <1>9 DEF Pointer
<1>11. r[y] = NULL
  BY <1>1, <1>6, <1>8, <1>10
<1>12. LastOnTheLeft(l, k, d, x, y)
  <2>1. \A m \in d[l[x]] : m \in U /\ m \in Node
    <3>1. \A m \in U : l[m] \in U \cup {NULL} /\ d[m] \subseteq U
      BY <1>8, TreeFacts
    <3>2. d[NULL] = {}
      BY <1>8, TreeFacts
    <3> QED BY <3>1, <3>2, <1>9
  <2>2. l[x] = node[p].left
    BY <1>6, <1>8, <1>9
  <2>3. q \in d[node[p].left]
        /\ \A m \in d[node[p].left] : m \in d[q] \/ node[m].key < node[q].key
    BY <1>5 DEF Rightmost
  <2> QED BY <2>1, <2>2, <2>3, <1>6, <1>8, <1>10 DEF LastOnTheLeft
<1>13. PICK h : h = Rights(node', {})
  OBVIOUS
<1>14. /\ Lefts(node') = l /\ Keys(node') = k /\ h[y] = x
       /\ \A m \in Node \ {y} : h[m] = g[m]
  BY <1>1, <1>2, <1>4, <1>6, <1>10, <1>13, RightChanged
<1>15. Rights(node', H2) = r
  BY <1>1, <1>2, <1>4, <1>6, <1>10, OneThreadMore
<1>16. SameBut(g, h, U, y)
  BY <1>9, <1>14 DEF SameBut
<1>17. PICK keys2 : keys2 = IF style = "preorder" THEN Append(keys, k[x]) ELSE keys
  OBVIOUS
<1>18. Ahead(g, H, f, w, R, L, x, keys, all)
  BY <1>6, <1>7
<1>19. \E w2, R2 :
          /\ Waiting(style, l, r, k, d, U, f, w2, R2, L + 1)
          /\ AwaitThreads(h, H \cup {y}, U, w2, L + 1)
          /\ Ahead(h, H \cup {y}, f, w2, R2, L + 1, l[x],
                   IF style = "preorder" THEN Append(keys, k[x]) ELSE keys, all)
  <2>1. OnThreads(style, l, r, k, d, U, root, g, H, f, w, R, L, x, keys, all)
    BY <1>7, <1>8, <1>9, <1>18, Zenon DEF OnThreads
  <2> QED BY <2>1, <1>10, <1>11, <1>12, <1>14, <1>16, WaitsNow
<1>20. PICK w2, R2 : /\ Waiting(style, l, r, k, d, U, f, w2, R2, L + 1)
                     /\ AwaitThreads(h, H2, U, w2, L + 1)
                     /\ Ahead(h, H2, f, w2, R2, L + 1, l[x], keys2, all)
  BY <1>6, <1>17, <1>19
<1>21. p' = l[x]
  BY <1>1, <1>6, <1>8, <1>9
<1>22. out' = keys2
  BY <1>1, <1>2, <1>6, <1>8, <1>9, <1>17, MorrisStyle
<1>23. AlongThreads(d, H2, f, w2, R2, L + 1)'
  <2>1. Waiting(Style(op'), Lefts(node'), Rights(node', H2), Keys(node'), d, used', f, w2, R2,
                L + 1)
    BY <1>1, <1>6, <1>14, <1>15, <1>20
  <2>2. AwaitThreads(Rights(node', {}), H2, used', w2, L + 1)
    BY <1>1, <1>6, <1>13, <1>20
  <2>3. Ahead(Rights(node', {}), H2, f, w2, R2, L + 1, p', out', f[t'])
    BY <1>1, <1>6, <1>13, <1>20, <1>21, <1>22
  <2> QED BY <2>1, <2>2, <2>3 DEF AlongThreads
<1>24. Printed(Style(op), f, H2)'
  BY <1>1, <1>4, <1>14, <1>15 DEF Printed
<1> QED BY <1>23, <1>24

\* The thread to p is cut.
LEMMA MorrisCutPrints ==
    ASSUME IInv, MorrisCut, NEW d \in [Pointer -> SUBSET Node], NEW H \in SUBSET Node,
           Shape(d, H), NEW H2, H2 = H \ {q},
           NEW f, Printed(Style(op), f, H), NEW w, NEW R, NEW L,
           AlongThreads(d, H, f, w, R, L)
    PROVE  Printed(Style(op), f, H2)' /\ AlongThreads(d, H2, f, w, R, L - 1)'
<1>1. /\ pc = "seek" /\ node[q].right = p
      /\ node' = [node EXCEPT ![q].right = NULL]
      /\ out' = IF op = "morris inorder" THEN Append(out, node[p].key) ELSE out
      /\ p' = node[p].right
      /\ UNCHANGED <<used, t, op>>
  BY DEF MorrisCut, PrintNode
<1>2. TypeOK /\ op \in Morris /\ p # NULL
  BY <1>1 DEF IInv, Control
<1>3. q \in H
  BY MorrisCutShape
<1>4. PICK l, r, g, k : /\ l = Lefts(node) /\ r = Rights(node, H)
                        /\ g = Rights(node, {}) /\ k = Keys(node)
  OBVIOUS
<1>5. LinkFacts(d, H, f, l, r, g, k) /\ NodeFacts(f) /\ q \in used /\ Rightmost(d, p, q)
  BY <1>1, <1>2, <1>4, InTheThreads DEF Threaded
<1>6. PICK style, U, x, y, root, keys, all :
         /\ style = Style(op) /\ U = used /\ x = p /\ y = q /\ root = t /\ keys = out
         /\ all = f[root]
  OBVIOUS
<1>7. /\ Waiting(style, l, r, k, d, U, f, w, R, L) /\ AwaitThreads(g, H, U, w, L)
      /\ Ahead(g, H, f, w, R, L, x, keys, f[root])
  BY <1>4, <1>6, Zenon DEF AlongThreads
<1>8. /\ Tree(l, r, k, d, U, root) /\ H \in SUBSET U /\ Hung(l, g, k, d, U, H, x)
      /\ \A m \in H : r[m] = NULL
      /\ \A m \in U \ H : r[m] = g[m]
      /\ \A m \in U : k[m] \in Key
      /\ \A m \in U : f[m] = Written(style, k[m], f[l[m]], f[r[m]])
      /\ \A m \in Node : l[m] = node[m].left /\ g[m] = node[m].right /\ k[m] = node[m].key
  BY <1>5, <1>6, Zenon DEF LinkFacts
<1>9. /\ x \in U /\ x \in Node /\ keys \in Seq(Key) /\ style \in MorrisStyles
      /\ f[NULL] = <<>> /\ \A m \in U \cup {NULL} : f[m] \in Seq(Key) /\ U \subseteq Node
  BY <1>5, <1>6, Zenon DEF NodeFacts
<1>10. y \in H /\ y \in Node /\ NULL \in Pointer
  BY <1>3, <1>6, <1>8, <1>9 DEF Pointer
<1>11. g[y] = x
  BY <1>1, <1>6, <1>8, <1>10
<1>12. x # y
  <2>1. y \in d[node[p].left]
    BY <1>5, <1>6 DEF Rightmost
  <2>2. y \in d[l[x]]
    BY <2>1, <1>6, <1>8, <1>9
  <2>3. \A e, m \in U : e \in d[l[m]] <=> e \in d[m] /\ k[e] < k[m]
    BY <1>8, TreeFacts
  <2>4. \A m \in U : k[m] \in Int
    BY <1>8, TreeFacts
  <2> QED BY <2>2, <2>3, <2>4, <1>9
<1>13. PICK h : h = Rights(node', {})
  OBVIOUS
<1>14. /\ Lefts(node') = l /\ Keys(node') = k /\ h[y] = NULL
       /\ \A m \in Node \ {y} : h[m] = g[m]
  BY <1>1, <1>2, <1>4, <1>6, <1>10, <1>13, RightChanged
<1>15. Rights(node', H2) = r
  BY <1>1, <1>2, <1>4, <1>6, <1>10, OneThreadLess
<1>16. SameBut(g, h, U, y)
  BY <1>9, <1>14 DEF SameBut
<1>17. \A m \in U \ (H \ {y}) : r[m] = h[m]
  BY <1>8, <1>9, <1>10, <1>14
<1>18. Ahead(g, H, f, w, R, L, x, keys, all)
  BY <1>6, <1>7
<1>19. /\ Waiting(style, l, r, k, d, U, f, w, R, L - 1)
       /\ AwaitThreads(h, H \ {y}, U, w, L - 1)
       /\ Ahead(h, H \ {y}, f, w, R, L - 1, h[x],
                IF style = "inorder" THEN Append(keys, k[x]) ELSE keys, all)
  <2>1. OnThreads(style, l, r, k, d, U, root, g, H, f, w, R, L, x, keys, all)
    BY <1>7, <1>8, <1>9, <1>18, Zenon DEF OnThreads
  <2> QED BY <2>1, <1>10, <1>11, <1>16, <1>17, WaitsNoMore
<1>20. PICK keys2 : keys2 = IF style = "inorder" THEN Append(keys, k[x]) ELSE keys
  OBVIOUS
<1>21. /\ Waiting(style, l, r, k, d, U, f, w, R, L - 1)
       /\ AwaitThreads(h, H2, U, w, L - 1)
       /\ Ahead(h, H2, f, w, R, L - 1, h[x], keys2, all)
  BY <1>6, <1>19, <1>20
<1>22. p' = h[x]
  BY <1>1, <1>6, <1>8, <1>9, <1>12, <1>14
<1>23. out' = keys2
  BY <1>1, <1>2, <1>6, <1>8, <1>9, <1>20, MorrisStyle
<1>24. AlongThreads(d, H2, f, w, R, L - 1)'
  <2>1. Waiting(Style(op'), Lefts(node'), Rights(node', H2), Keys(node'), d, used', f, w, R,
                L - 1)
    BY <1>1, <1>6, <1>14, <1>15, <1>21
  <2>2. AwaitThreads(Rights(node', {}), H2, used', w, L - 1)
    BY <1>1, <1>6, <1>13, <1>21
  <2>3. Ahead(Rights(node', {}), H2, f, w, R, L - 1, p', out', f[t'])
    BY <1>1, <1>6, <1>13, <1>21, <1>22, <1>23
  <2> QED BY <2>1, <2>2, <2>3 DEF AlongThreads
<1>25. Printed(Style(op), f, H2)'
  BY <1>1, <1>4, <1>14, <1>15 DEF Printed
<1> QED BY <1>24, <1>25

-----------------------------------------------------------------------------
(* All traversals.                                                         *)

\* What is printed, and what is yet to come: the traversal follows the rows, or a
\* list f that the recursive traversal would print.
ByRecursion(d, H, f) ==
    /\ Printed(Style(op), f, H)
    /\ op = "preorder" => \E R : OnTheStack(f, R)
    /\ op \in Stacks => \E G, L : OnTheWay(d, f, G, L)
    /\ op \in Morris => \E w, R, L : AlongThreads(d, H, f, w, R, L)

Printing(d, H) ==
    /\ op \in Order
    /\ op = "levelorder" => p = NULL /\ RowByRow(Keys(node), d, used, s, out)
    /\ op # "levelorder" => \E f : ByRecursion(d, H, f)

\* The inductive invariant: that of the heap, and what the traversal that is under
\* way has printed and has yet to print.
OInv ==
    /\ IInv
    /\ pc \in {"visit", "seek"} =>
         \E d \in [Pointer -> SUBSET Node], H \in SUBSET Node : Shape(d, H) /\ Printing(d, H)

\* Every order is of one kind.
LEMMA OrderParts == \A mode \in Order \ {"levelorder"} :
    \/ mode = "preorder" /\ mode \notin Stacks /\ mode \notin Morris
    \/ mode \in Stacks /\ mode # "preorder" /\ mode \notin Morris
    \/ mode \in Morris /\ mode # "preorder" /\ mode \notin Stacks
BY DEF Order, Stacks, Stack2, Morris

\* There is a node, even when it is not allocated.
LEMMA SomeNode == \E n : n \in Node
<1>1. Node # {}
  <2> SUFFICES ASSUME Node = {} PROVE FALSE
    OBVIOUS
  <2>1. IsFiniteSet(Key) /\ Key # {} /\ Cardinality(Node) >= Cardinality(Key)
    BY KeyAssumption, NodeAssumption
  <2>2. Cardinality(Key) \in Nat /\ Cardinality(Key) # 0
    BY <2>1, FS_CardinalityType, FS_EmptySet
  <2>3. Cardinality(Node) = 0
    BY FS_EmptySet
  <2> QED BY <2>1, <2>2, <2>3
<1> QED BY <1>1

\* Nothing is printed yet, and nothing but the whole tree is to come.
LEMMA AllToCome ==
    ASSUME NEW a \in Seq(Key)
    PROVE  /\ <<>> \in Seq(Key)
           /\ <<>> \o (a \o <<>>) = a
<1>1. <<>> \in Seq(Key) /\ a \o <<>> = a /\ <<>> \o a = a
  BY ConcatEmptySeq
<1> QED BY <1>1

\* The ghosts with which each kind of traversal begins.
LEMMA StackBegins ==
    ASSUME NEW f, NEW U, NEW root \in U \cup {NULL}, f[root] \in Seq(Key)
    PROVE  \E R : Stacked(f, U, <<root>>, R) /\ <<>> \o R[Len(<<root>>)] = f[root]
<1> DEFINE R == [i \in Nat |-> IF i = 0 THEN <<>> ELSE f[root]]
<1>1. PICK a \in Seq(Key) : a = f[root]
  OBVIOUS
<1>2. <<>> \in Seq(Key) /\ a \o <<>> = a /\ <<>> \o a = a
  BY ConcatEmptySeq
<1>3. R \in [Nat -> Seq(Key)] /\ R[0] = <<>> /\ R[1] = a
  BY <1>1, <1>2
<1> HIDE DEF R
<1>4. Len(<<root>>) = 1 /\ <<root>>[1] = root
  OBVIOUS
<1>5. PICK z : z = <<root>>
  OBVIOUS
<1>6. Len(z) = 1 /\ z[1] = root
  BY <1>4, <1>5
<1>7. R[1] = f[z[1]] \o R[0]
  BY <1>1, <1>2, <1>3, <1>6
<1>8. ASSUME NEW i \in 1..Len(z) PROVE z[i] \in U \cup {NULL} /\ R[i] = f[z[i]] \o R[i - 1]
  <2>1. i = 1 /\ i - 1 = 0
    BY <1>6
  <2>2. z[i] \in U \cup {NULL}
    BY <2>1, <1>6
  <2> QED BY <2>1, <2>2, <1>7
<1>9. Stacked(f, U, z, R)
  BY <1>3, <1>8, Zenon DEF Stacked
<1>10. <<>> \o R[Len(z)] = f[root]
  BY <1>1, <1>2, <1>3, <1>6
<1> QED BY <1>5, <1>9, <1>10

LEMMA WaypointsBegin ==
    ASSUME NEW mode, NEW h, NEW f, NEW d, NEW U
    PROVE  \E G : /\ Waypoints(mode, h, f, d, U, G, 0)
                  /\ G[0].stack = <<>> /\ G[0].second = <<>> /\ G[0].rest = <<>>
<1>1. PICK n : n \in Node
  BY SomeNode
<1> DEFINE v == [at |-> n, put |-> NULL, stack |-> <<>>, second |-> <<>>, rest |-> <<>>]
           G == [i \in Nat |-> v]
<1>2. v \in Waypoint
  <2>1. NULL \in Pointer
    BY DEF Pointer
  <2> QED BY <2>1, <1>1 DEF Waypoint
<1>3. v.stack = <<>> /\ v.second = <<>> /\ v.rest = <<>>
  OBVIOUS
<1> HIDE DEF v
<1>4. G \in [Nat -> Waypoint] /\ G[0] = v
  BY <1>2
<1> HIDE DEF G
<1>5. 0 \in Nat /\ \A i \in 1..0 : FALSE
  OBVIOUS
<1>6. Waypoints(mode, h, f, d, U, G, 0)
  BY <1>3, <1>4, <1>5 DEF Waypoints
<1> QED BY <1>3, <1>4, <1>6

LEMMA ThreadsBegin ==
    ASSUME NEW style, NEW l, NEW r, NEW g, NEW k, NEW d, NEW U, NEW root, NEW f,
           f[root] \in Seq(Key)
    PROVE  \E w, R : /\ Waiting(style, l, r, k, d, U, f, w, R, 0)
                     /\ AwaitThreads(g, {}, U, w, 0)
                     /\ Ahead(g, {}, f, w, R, 0, root, <<>>, f[root])
<1>1. PICK n : n \in Node
  BY SomeNode
<1> DEFINE w == [i \in Nat |-> n]
           R == [i \in Nat |-> <<>>]
<1>2. w \in [Nat -> Node] /\ R \in [Nat -> Seq(Key)] /\ R[0] = <<>>
  BY <1>1
<1> HIDE DEF w, R
<1>3. 0 \in Nat /\ \A i \in 1..0 : FALSE
  OBVIOUS
<1>4. Waiting(style, l, r, k, d, U, f, w, R, 0)
  BY <1>2, <1>3, Zenon DEF Waiting
<1>5. \A a : ~Returned(g, {}, a)
  BY DEF Returned
<1>6. AwaitThreads(g, {}, U, w, 0)
  BY <1>3, <1>5, Zenon DEF AwaitThreads
<1>7. PICK a \in Seq(Key) : a = f[root]
  OBVIOUS
<1>8. <<>> \o (a \o <<>>) = a
  BY AllToCome
<1>9. <<>> \o (f[root] \o R[0]) = f[root]
  BY <1>2, <1>7, <1>8
<1>10. Ahead(g, {}, f, w, R, 0, root, <<>>, f[root])
  BY <1>5, <1>9, Zenon DEF Ahead
<1> QED BY <1>4, <1>6, <1>10

\* A traversal begins with nothing printed.
LEMMA TraverseBegins ==
    ASSUME IInv, NEW mode \in Order, Traverse(mode),
           NEW d \in [Pointer -> SUBSET Node], Shape(d, {})
    PROVE  Printing(d, {})'
<1>1. /\ pc = "idle" /\ op' = mode
      /\ mode = "levelorder" => p' = NULL /\ s' = IF t = NULL THEN <<>> ELSE <<t>>
      /\ mode = "preorder" => p' = NULL /\ s' = <<t>>
      /\ mode \notin {"preorder", "levelorder"} => p' = t /\ s' = s
      /\ UNCHANGED <<node, used, t, s2, out>>
  BY DEF Traverse
<1>2. TypeOK /\ s = <<>> /\ s2 = <<>> /\ out = <<>>
  BY <1>1 DEF IInv, Control
<1>3. /\ HeapTree(node, {}, d, used, t)
      /\ Tree(Lefts(node), Rights(node, {}), Keys(node), d, used, t)
  BY DEF Shape, HeapTree
<1>4. CASE mode = "levelorder"
  <2>1. PICK z : z = IF t = NULL THEN <<>> ELSE <<t>>
    OBVIOUS
  <2>2. RowByRow(Keys(node), d, used, z, <<>>)
    BY <2>1, <1>3, RowsBegin
  <2>3. RowByRow(Keys(node'), d, used', s', out') /\ p' = NULL
    BY <2>1, <2>2, <1>1, <1>2, <1>4
  <2> QED BY <2>3, <1>1, <1>4, Zenon DEF Printing
<1>5. CASE mode # "levelorder"
  <2>1. PICK f : Printed(Style(mode), f, {})
    BY <1>2, <1>3, PrintedExists
  <2>2. Printed(Style(op), f, {})'
    BY <2>1, <1>1 DEF Printed
  <2>3. t \in used \cup {NULL} /\ NULL \notin used
    BY <1>3, TreeFacts
  <2>4. f[t] \in Seq(Key)
    BY <2>1, <2>3, <1>2, PrintedFacts
  <2>5. CASE mode = "preorder"
    <3>1. PICK R : Stacked(f, used, <<t>>, R) /\ <<>> \o R[Len(<<t>>)] = f[t]
      BY <2>3, <2>4, StackBegins
    <3>2. OnTheStack(f, R)'
      BY <3>1, <2>5, <1>1, <1>2 DEF OnTheStack
    <3>3. op' = "preorder" /\ op' \notin Stacks /\ op' \notin Morris
      BY <2>5, <1>1 DEF Stacks, Stack2, Morris
    <3> QED BY <3>2, <3>3, <2>2, <1>1, <1>5, Zenon DEF ByRecursion, Printing
  <2>6. CASE mode \in Stacks
    <3>1. PICK G : /\ Waypoints(mode, node, f, d, used, G, 0)
                   /\ G[0].stack = <<>> /\ G[0].second = <<>> /\ G[0].rest = <<>>
      BY WaypointsBegin
    <3>2. mode \notin {"preorder", "levelorder"} /\ mode \notin Morris
      BY <2>6 DEF Stacks, Stack2, Morris
    <3>3. <<>> \o (f[t] \o <<>>) = f[t]
      <4>1. PICK a \in Seq(Key) : a = f[t]
        BY <2>4
      <4>2. <<>> \o (a \o <<>>) = a
        BY AllToCome
      <4> QED BY <4>1, <4>2
    <3>4. /\ Waypoints(op', node', f, d, used', G, 0)
          /\ s' = G[0].stack /\ s2' = G[0].second /\ p' \in used' \cup {NULL}
      BY <3>1, <3>2, <2>3, <1>1, <1>2
    <3>5. out' \o (f[p'] \o G[0].rest) = f[t']
      BY <3>1, <3>2, <3>3, <1>1, <1>2
    <3>6. \A i \in 1..0 : FALSE
      OBVIOUS
    <3>7. OnTheWay(d, f, G, 0)'
      BY <3>4, <3>5, <3>6, Zenon DEF OnTheWay
    <3>8. op' # "preorder" /\ op' # "levelorder" /\ op' \notin Morris
      BY <3>2, <1>1
    <3> QED BY <3>7, <3>8, <2>2, <1>1, Zenon DEF ByRecursion, Printing
  <2>7. CASE mode \in Morris
    <3>1. PICK w, R :
             /\ Waiting(Style(mode), Lefts(node), Rights(node, {}), Keys(node), d, used, f, w, R, 0)
             /\ AwaitThreads(Rights(node, {}), {}, used, w, 0)
             /\ Ahead(Rights(node, {}), {}, f, w, R, 0, t, <<>>, f[t])
      BY <2>4, ThreadsBegin
    <3>2. mode \notin {"preorder", "levelorder"} /\ mode \notin Stacks
      BY <2>7 DEF Stacks, Stack2, Morris
    <3>3. op' = mode /\ p' = t /\ out' = <<>> /\ UNCHANGED <<node, used, t>>
      BY <3>2, <1>1, <1>2
    <3>4. AlongThreads(d, {}, f, w, R, 0)'
      BY <3>1, <3>3 DEF AlongThreads
    <3>5. op' # "preorder" /\ op' # "levelorder" /\ op' \notin Stacks
      BY <3>2, <1>1
    <3> QED BY <3>4, <3>5, <2>2, <1>1, Zenon DEF ByRecursion, Printing
  <2> QED BY <2>5, <2>6, <2>7, <1>5, OrderParts
<1> QED BY <1>4, <1>5

\* The steps that leave the tree alone.
OtherSteps == PreorderStep \/ LevelorderStep \/ DescendLeft \/ InorderStep
                 \/ PostorderStep \/ Stack2Step

\* A step that leaves the tree alone.
LEMMA OtherPrints ==
    ASSUME IInv, OtherSteps, pc' \in {"visit", "seek"},
           NEW d \in [Pointer -> SUBSET Node], NEW H \in SUBSET Node,
           Shape(d, H), Printing(d, H)
    PROVE  Shape(d, {})' /\ Printing(d, {})'
<1>1. /\ pc = "visit" /\ op \notin Morris /\ op' = op /\ pc' = "visit"
      /\ UNCHANGED <<node, used, t>>
      /\ PreorderStep => op = "preorder"
      /\ LevelorderStep => op = "levelorder" /\ p' = p
      /\ DescendLeft \/ InorderStep \/ PostorderStep \/ Stack2Step => op \in Stacks
  BY DEF OtherSteps, PreorderStep, LevelorderStep, DescendLeft, InorderStep, PostorderStep,
         Stack2Step, Traverses, Crash, Stacks, Stack2, Morris
<1>2. H = {} /\ Shape(d, {})'
  BY <1>1, OtherShape
<1>3. HeapTree(node, {}, d, used, t) /\ Printing(d, {})
  BY <1>2 DEF Shape
<1>4. op \in Order
  BY DEF Printing
<1>5. CASE LevelorderStep
  <2>1. op = "levelorder" /\ p' = p
    BY <1>1, <1>5
  <2>2. p = NULL /\ RowByRow(Keys(node), d, used, s, out)
    BY <2>1 DEF Printing
  <2>3. RowByRow(Keys(node), d, used, s, out)'
    BY <2>2, <1>3, <1>5, LevelorderPrints
  <2>4. op' = "levelorder" /\ p' = NULL /\ op' \in Order
    BY <2>1, <2>2, <1>1, <1>4
  <2>5. Printing(d, {})'
    BY <2>3, <2>4, Zenon DEF Printing
  <2> QED BY <2>5, <1>2
<1>6. ASSUME op # "levelorder" PROVE \E f : ByRecursion(d, {}, f)
  BY <1>3, <1>6, Zenon DEF Printing
<1>7. ASSUME NEW f, Printed(Style(op), f, {}) PROVE Printed(Style(op), f, {})'
  BY <1>1, <1>7 DEF Printed
<1>8. CASE PreorderStep
  <2>1. op = "preorder" /\ op # "levelorder" /\ op \notin Stacks
    BY <1>1, <1>8 DEF Stacks, Stack2
  <2>2. PICK f : ByRecursion(d, {}, f)
    BY <2>1, <1>6
  <2>3. Printed(Style(op), f, {}) /\ \E R : OnTheStack(f, R)
    BY <2>1, <2>2, Zenon DEF ByRecursion
  <2>4. PICK R : OnTheStack(f, R)
    BY <2>3
  <2>5. \E R2 : OnTheStack(f, R2)'
    BY <2>3, <2>4, <1>1, <1>3, <1>8, PreorderPrints
  <2>6. Printed(Style(op), f, {})'
    BY <2>3, <1>7
  <2>7. op' = "preorder" /\ op' # "levelorder" /\ op' \notin Stacks /\ op' \notin Morris
        /\ op' \in Order
    BY <2>1, <1>1, <1>4
  <2>8. Printing(d, {})'
    BY <2>5, <2>6, <2>7, Zenon DEF ByRecursion, Printing
  <2> QED BY <2>8, <1>2
<1>9. CASE DescendLeft \/ InorderStep \/ PostorderStep \/ Stack2Step
  <2>1. op \in Stacks /\ op # "levelorder" /\ op # "preorder"
    BY <1>1, <1>9 DEF Stacks, Stack2
  <2>2. PICK f : ByRecursion(d, {}, f)
    BY <2>1, <1>6
  <2>3. Printed(Style(op), f, {}) /\ \E G, L : OnTheWay(d, f, G, L)
    BY <2>1, <2>2, Zenon DEF ByRecursion
  <2>4. PICK G, L : OnTheWay(d, f, G, L)
    BY <2>3
  <2>5. \E G2, L2 : OnTheWay(d, f, G2, L2)'
    <3>1. CASE DescendLeft
      BY <3>1, <2>3, <2>4, <1>3, DescendLeftPrints
    <3>2. CASE InorderStep
      BY <3>2, <2>3, <2>4, <1>3, InorderPrints
    <3>3. CASE PostorderStep
      BY <3>3, <2>3, <2>4, <1>3, PostorderPrints
    <3>4. CASE Stack2Step
      BY <3>4, <2>3, <2>4, <1>3, Stack2Prints
    <3> QED BY <3>1, <3>2, <3>3, <3>4, <1>9
  <2>6. Printed(Style(op), f, {})'
    BY <2>3, <1>7
  <2>7. op' # "levelorder" /\ op' # "preorder" /\ op' \in Stacks /\ op' \notin Morris
        /\ op' \in Order
    BY <2>1, <1>1, <1>4
  <2>8. Printing(d, {})'
    BY <2>5, <2>6, <2>7, Zenon DEF ByRecursion, Printing
  <2> QED BY <2>8, <1>2
<1> QED BY <1>5, <1>8, <1>9 DEF OtherSteps

ThreadSteps == MorrisStep \/ MorrisSeek \/ MorrisHang \/ MorrisCut

\* A step along the threads.
LEMMA ThreadPrints ==
    ASSUME IInv, ThreadSteps, NEW d \in [Pointer -> SUBSET Node], NEW H \in SUBSET Node,
           Shape(d, H), Printing(d, H)
    PROVE  \E H2 \in SUBSET Node : Shape(d, H2)' /\ Printing(d, H2)'
<1>1. pc \in {"visit", "seek"} /\ op' = op
  BY DEF ThreadSteps, MorrisStep, MorrisSeek, MorrisHang, MorrisCut, Traverses
<1>2. op \in Morris
  <2>1. Control
    BY DEF IInv
  <2> QED BY <2>1 DEF ThreadSteps, MorrisStep, MorrisSeek, MorrisHang, MorrisCut, Traverses,
                      Control
<1>3. op \in Order /\ op # "levelorder" /\ op # "preorder" /\ op \notin Stacks
  BY <1>2 DEF Printing, Morris, Stacks, Stack2
<1>4. PICK f : ByRecursion(d, H, f)
  BY <1>3, Zenon DEF Printing
<1>5. Printed(Style(op), f, H) /\ \E w, R, L : AlongThreads(d, H, f, w, R, L)
  BY <1>2, <1>4, Zenon DEF ByRecursion
<1>6. PICK w, R, L : AlongThreads(d, H, f, w, R, L)
  BY <1>5
<1>7. ASSUME NEW H2 \in SUBSET Node, Shape(d, H2)', Printed(Style(op), f, H2)',
             \E w2, R2, L2 : AlongThreads(d, H2, f, w2, R2, L2)'
      PROVE  \E H3 \in SUBSET Node : Shape(d, H3)' /\ Printing(d, H3)'
  <2>1. op' \in Morris /\ op' # "preorder" /\ op' # "levelorder" /\ op' \notin Stacks
        /\ op' \in Order
    BY <1>1, <1>2, <1>3
  <2>2. ByRecursion(d, H2, f)'
    BY <2>1, <1>7, Zenon DEF ByRecursion
  <2>3. Printing(d, H2)'
    BY <2>1, <2>2, Zenon DEF Printing
  <2> QED BY <2>3, <1>7
<1>8. CASE MorrisStep
  <2>1. Shape(d, H)'
    BY <1>8, MorrisStepShape
  <2>2. AlongThreads(d, H, f, w, R, L)'
    BY <1>5, <1>6, <1>8, MorrisStepPrints
  <2>3. UNCHANGED <<node, used, op>>
    BY <1>8 DEF MorrisStep
  <2>4. Printed(Style(op), f, H)'
    BY <2>3, <1>5 DEF Printed
  <2> QED BY <2>1, <2>2, <2>4, <1>7
<1>9. CASE MorrisSeek
  <2>1. Shape(d, H)'
    BY <1>9, MorrisSeekShape
  <2>2. UNCHANGED <<node, used, t, op, p, out>>
    BY <1>9 DEF MorrisSeek
  <2>3. AlongThreads(d, H, f, w, R, L)'
    BY <2>2, <1>6, Zenon DEF AlongThreads
  <2>4. Printed(Style(op), f, H)'
    BY <2>2, <1>5 DEF Printed
  <2> QED BY <2>1, <2>3, <2>4, <1>7
<1>10. CASE MorrisHang
  <2>1. PICK H2 : H2 = H \cup {q}
    OBVIOUS
  <2>2. H2 \in SUBSET Node /\ Shape(d, H2)'
    BY <2>1, <1>10, MorrisHangShape
  <2>3. Printed(Style(op), f, H2)' /\ \E w2, R2 : AlongThreads(d, H2, f, w2, R2, L + 1)'
    BY <2>1, <1>5, <1>6, <1>10, MorrisHangPrints
  <2> QED BY <2>2, <2>3, <1>7
<1>11. CASE MorrisCut
  <2>1. PICK H2 : H2 = H \ {q}
    OBVIOUS
  <2>2. H2 \in SUBSET Node /\ Shape(d, H2)'
    BY <2>1, <1>11, MorrisCutShape
  <2>3. Printed(Style(op), f, H2)' /\ AlongThreads(d, H2, f, w, R, L - 1)'
    BY <2>1, <1>5, <1>6, <1>11, MorrisCutPrints
  <2> QED BY <2>2, <2>3, <1>7
<1> QED BY <1>8, <1>9, <1>10, <1>11 DEF ThreadSteps

\* No other step leads into a traversal.
LEMMA NoTraversal ==
    ASSUME [Next]_vars, pc' \in {"visit", "seek"},
           ~(\E mode \in Order : Traverse(mode)), ~OtherSteps, ~ThreadSteps
    PROVE  UNCHANGED vars
<1>1. ASSUME NEW k \in Key, Insert(k) \/ Search(k) \/ Delete(k) PROVE FALSE
  BY <1>1 DEF Insert, Search, Delete, Start
<1>2. ~InsertIntoNothing /\ ~Down
  BY DEF InsertIntoNothing, Done, Down
<1>3. ~Predecessor
  BY DEF Predecessor
<1>4. ~SearchDone /\ ~InsertCollides /\ ~DeleteMissing /\ ~TraversalDone
  BY DEF SearchDone, InsertCollides, DeleteMissing, TraversalDone, Done
<1>5. ~InsertNode /\ ~DeleteFound
  BY DEF InsertNode, DeleteFound
<1>6. ~Unlink
  BY DEF Unlink, Done
<1>7. ~Update
  BY DEF Update, Done, Crash
<1>8. ~Destroy
  BY DEF Destroy
<1> QED BY <1>1, <1>2, <1>3, <1>4, <1>5, <1>6, <1>7, <1>8, Zenon
        DEF Next, OtherSteps, ThreadSteps, Ended

LEMMA PrintingInit == ASSUME Init PROVE OInv
<1>1. IInv
  BY InitHolds
<1>2. pc = "idle"
  BY DEF Init
<1> QED BY <1>1, <1>2 DEF OInv

LEMMA PrintingKeeps == ASSUME OInv, [Next]_vars PROVE OInv'
<1>1. IInv
  BY DEF OInv
<1>2. IInv'
  BY <1>1, NextKeeps
<1>3. ASSUME pc' \in {"visit", "seek"}
      PROVE  \E d \in [Pointer -> SUBSET Node], H \in SUBSET Node :
                Shape(d, H)' /\ Printing(d, H)'
  <2>1. CASE \E mode \in Order : Traverse(mode)
    <3>1. PICK mode \in Order : Traverse(mode)
      BY <2>1
    <3>2. PICK d \in [Pointer -> SUBSET Node] : Shape(d, {})
      <4>1. pc = "idle"
        BY <3>1 DEF Traverse
      <4> QED BY <4>1, <1>1, ShapeOf DEF Threaded
    <3>3. Shape(d, {})'
      BY <3>1, <3>2, <1>1, TraverseShape
    <3>4. Printing(d, {})'
      BY <3>1, <3>2, <1>1, TraverseBegins
    <3>5. {} \in SUBSET Node
      OBVIOUS
    <3> QED BY <3>3, <3>4, <3>5
  <2>2. CASE OtherSteps \/ ThreadSteps
    <3>1. pc \in {"visit", "seek"}
      BY <2>2 DEF OtherSteps, ThreadSteps, PreorderStep, LevelorderStep, DescendLeft,
                  InorderStep, PostorderStep, Stack2Step, MorrisStep, MorrisSeek, MorrisHang,
                  MorrisCut, Traverses
    <3>2. PICK d \in [Pointer -> SUBSET Node], H \in SUBSET Node : Shape(d, H) /\ Printing(d, H)
      BY <3>1, Zenon DEF OInv
    <3>3. CASE OtherSteps
      <4>1. Shape(d, {})' /\ Printing(d, {})'
        BY <3>2, <3>3, <1>1, <1>3, OtherPrints
      <4>2. {} \in SUBSET Node
        OBVIOUS
      <4> QED BY <4>1, <4>2
    <3>4. CASE ThreadSteps
      BY <3>2, <3>4, <1>1, ThreadPrints
    <3> QED BY <2>2, <3>3, <3>4
  <2>3. CASE ~(\E mode \in Order : Traverse(mode)) /\ ~OtherSteps /\ ~ThreadSteps
    <3>1. UNCHANGED vars
      BY <2>3, <1>3, NoTraversal
    <3>2. UNCHANGED <<node, used, t, pc, op, arg, p, q, s, s2, out, answer>>
      BY <3>1 DEF vars
    <3>3. PICK d \in [Pointer -> SUBSET Node], H \in SUBSET Node : Shape(d, H) /\ Printing(d, H)
      BY <3>2, <1>3, Zenon DEF OInv
    <3>4. Shape(d, H)'
      BY <3>2, <3>3 DEF Shape, HeapTree, Searching, Replacing, GoingBack, Threads, Threaded,
                        Rightmost
    <3>5. Printing(d, H)'
      BY <3>2, <3>3, ZenonT(60) DEF Printing, ByRecursion, Printed, OnTheStack, OnTheWay, AlongThreads
    <3> QED BY <3>4, <3>5
  <2> QED BY <2>1, <2>2, <2>3
<1> QED BY <1>2, <1>3, Zenon DEF OInv

\* When nothing is yet to come everything has been printed.
LEMMA AllPrinted ==
    ASSUME OInv, TraversalOver
    PROVE  IF op = "levelorder" THEN IsLevelorder(out) ELSE out = Recursive(op)
<1>1. pc = "visit" /\ s = <<>> /\ p = NULL
  BY DEF TraversalOver
<1>2. TypeOK /\ out \in Seq(Key)
  BY DEF OInv, IInv, TypeOK
<1>3. PICK d \in [Pointer -> SUBSET Node], H \in SUBSET Node : Shape(d, H) /\ Printing(d, H)
  BY <1>1, Zenon DEF OInv
<1>4. HeapTree(node, H, d, used, t) /\ Threads(d, H) /\ op \in Order
  BY <1>3 DEF Shape, Printing
<1>5. H = {}
  <2>1. CASE ~Threaded
    BY <2>1, <1>4 DEF Threads
  <2>2. CASE Threaded
    <3>1. Hung(Lefts(node), Rights(node, {}), Keys(node), d, used, H, NULL)
      BY <2>2, <1>1, <1>4 DEF Threads
    <3>2. Tree(Lefts(node), Rights(node, H), Keys(node), d, used, t)
      BY <1>4 DEF HeapTree
    <3> QED BY <3>1, <3>2, NoneHung
  <2> QED BY <2>1, <2>2
<1>6. HeapTree(node, {}, d, used, t) /\ Printing(d, {})
  BY <1>3, <1>4, <1>5
<1>7. CASE op = "levelorder"
  <2>1. RowByRow(Keys(node), d, used, <<>>, out)
    BY <1>1, <1>6, <1>7 DEF Printing
  <2> QED BY <2>1, <1>2, <1>6, <1>7, RowsArePrinted
<1>8. CASE op # "levelorder"
  <2>1. PICK f : ByRecursion(d, {}, f)
    BY <1>6, <1>8, Zenon DEF Printing
  <2>2. Printed(Style(op), f, {})
    BY <2>1 DEF ByRecursion
  <2>3. f[t] = Recursive(op)
    BY <2>2, <1>2, <1>4, <1>6, <1>8, RecursiveIsPrinted
  <2>4. f[NULL] = <<>>
    BY <2>2, <1>2, PrintedFacts
  <2>5. out \o <<>> = out /\ <<>> \o <<>> = <<>>
    <3>1. \A z \in Seq(Key) : z \o <<>> = z
      BY ConcatEmptySeq
    <3>2. <<>> \in Seq(Key)
      BY ConcatEmptySeq, AllToCome
    <3> QED BY <3>1, <3>2, <1>2
  <2>6. CASE op = "preorder"
    <3>1. PICK R : OnTheStack(f, R)
      BY <2>1, <2>6, Zenon DEF ByRecursion
    <3>2. R[0] = <<>> /\ out \o R[Len(s)] = f[t]
      BY <3>1, Zenon DEF OnTheStack, Stacked
    <3>3. Len(s) = 0
      BY <1>1
    <3> QED BY <3>2, <3>3, <2>3, <2>5, <2>6
  <2>7. CASE op \in Stacks
    <3>1. PICK G, L : OnTheWay(d, f, G, L)
      BY <2>1, <2>7, Zenon DEF ByRecursion
    <3>2. /\ Waypoints(op, node, f, d, used, G, L) /\ G[L].stack = <<>>
          /\ out \o (<<>> \o G[L].rest) = f[t]
      BY <3>1, <2>4, <1>1 DEF OnTheWay
    <3>3. L \in Nat /\ G[0].rest = <<>> /\ G \in [Nat -> Waypoint]
          /\ \A i \in 1..L : G[i].at \in used /\ LiesOn(op, node, f, G[i - 1], G[i])
      BY <3>2, Zenon DEF Waypoints
    <3>4. ASSUME L # 0 PROVE FALSE
      <4>1. L \in 1..L /\ L - 1 \in Nat
        <5>1. L \in Nat
          BY <3>3, Zenon
        <5> QED BY <5>1, <3>4
      <4>2. LiesOn(op, node, f, G[L - 1], G[L]) /\ G[L - 1] \in Waypoint
        BY <4>1, <3>3
      <4>3. PICK stack, u, v : /\ u = G[L - 1] /\ v = G[L]
                               /\ stack = IF op = "postorder" THEN Pushed(u.stack, v.put)
                                          ELSE u.stack
        OBVIOUS
      <4>4. v.stack = Append(stack, v.at)
        BY <4>2, <4>3 DEF LiesOn
      <4>5. u.stack \in Seq(Node) /\ v.put \in Pointer
        BY <4>1, <4>2, <4>3, <3>3 DEF Waypoint
      <4>6. stack \in Seq(Node)
        BY <4>3, <4>5 DEF Pushed, Pointer
      <4>7. PICK a : a = v.at
        OBVIOUS
      <4>8. a \in Node
        BY <4>1, <4>3, <4>7, <3>3 DEF Waypoint
      <4>9. Append(stack, a) # <<>>
        BY <4>6, <4>8
      <4>10. Append(stack, a) = <<>>
        BY <4>3, <4>4, <4>7, <3>2
      <4> QED BY <4>9, <4>10
    <3>5. G[L].rest = <<>>
      BY <3>3, <3>4, Zenon
    <3>6. out \o (<<>> \o <<>>) = f[t]
      BY <3>2, <3>5, Zenon
    <3>7. out \o <<>> = f[t]
      BY <3>6, <2>5, Zenon
    <3> QED BY <3>7, <2>3, <2>5, <1>8
  <2>8. CASE op \in Morris
    <3>1. PICK w, R, L : AlongThreads(d, {}, f, w, R, L)
      BY <2>1, <2>8, Zenon DEF ByRecursion
    <3>2. /\ Waiting(Style(op), Lefts(node), Rights(node, {}), Keys(node), d, used, f, w, R, L)
          /\ AwaitThreads(Rights(node, {}), {}, used, w, L)
          /\ Ahead(Rights(node, {}), {}, f, w, R, L, NULL, out, f[t])
      BY <3>1, <1>1, Zenon DEF AlongThreads
    <3>3. L \in Nat /\ R[0] = <<>> /\ \A i \in 1..L : w[i] \in used
      BY <3>2, Zenon DEF Waiting
    <3>4. \A a : ~Returned(Rights(node, {}), {}, a)
      BY DEF Returned
    <3>5. L = 0
      <4>1. \A i \in 1..L : FALSE
        BY <3>2, <3>3, <3>4 DEF AwaitThreads
      <4>2. L \in Nat
        BY <3>3
      <4> QED BY <4>1, <4>2
    <3>6. out \o (f[NULL] \o R[L]) = f[t]
      BY <3>2, <3>4, Zenon DEF Ahead
    <3>7. R[L] = <<>>
      BY <3>3, <3>5, Zenon
    <3>8. out \o (<<>> \o <<>>) = f[t]
      BY <3>6, <3>7, <2>4, Zenon
    <3>9. out \o <<>> = f[t]
      BY <3>8, <2>5, Zenon
    <3> QED BY <3>9, <2>3, <2>5, <1>8
  <2> QED BY <2>6, <2>7, <2>8, <1>4, <1>8, OrderParts
<1> QED BY <1>7, <1>8

\* When a traversal is over it has printed what the recursive traversal of the same
\* order prints, or the rows of the tree, and has left a tree without threads.
THEOREM TraversalsPrint == Spec => []LeavesTreeAndOrder
<1>1. Init => OInv
  BY PrintingInit
<1>2. OInv /\ [Next]_vars => OInv'
  BY PrintingKeeps
<1>3. OInv /\ LeavesTree => LeavesTreeAndOrder
  BY AllPrinted DEF LeavesTreeAndOrder
<1> QED BY <1>1, <1>2, <1>3, TreeIsLeft, PTL DEF Spec
=============================================================================
