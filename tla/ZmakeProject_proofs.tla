------------------------- MODULE ZmakeProject_proofs -------------------------
(***************************************************************************)
(* Proofs about a project under zmake and make, for every tree, every set  *)
(* of command lines and any number of commands, edits and interruptions:   *)
(* each step of zmake and of make keeps the invariant of its program, and  *)
(* the two together keep what Zmake, RulesMk and ZmakeProject promise.    *)
(***************************************************************************)
EXTENDS ZmakeProject, ListFacts, FiniteSetTheorems, WellFoundedInduction, TLAPS

-----------------------------------------------------------------------------
(* Paths.                                                                  *)

\* Above a path there is a longest one of any kind.
LEMMA LongestAbove ==
    ASSUME NEW d \in Dir, NEW T, T \subseteq Up(d), T # {}
    PROVE  \E t \in T : \A o \in T : Len(o) <= Len(t)
<1> DEFINE Rest(t) == (Len(t) + 1)..Len(d)
           U == {Rest(t) : t \in T}
           N == 1..Len(d)
<1>1. Len(d) \in Nat /\ \A t \in T : t \in Dir /\ Len(t) \in Nat /\ Len(t) <= Len(d)
  BY DirAssumption DEF Up, IsPrefix
<1>2. \A t \in T : Rest(t) \in SUBSET N /\ IsFiniteSet(Rest(t))
  <2>1. \A t \in T : Rest(t) \subseteq N
    BY <1>1
  <2>2. IsFiniteSet(N)
    BY <1>1, FS_Interval
  <2> QED BY <2>1, <2>2, FS_Subset
<1>3. U \subseteq FiniteSubsetsOf(N) /\ U # {}
  BY <1>2 DEF FiniteSubsetsOf
<1>4. PICK x \in U : \A y \in U : ~ (<<y, x>> \in StrictSubsetOrdering(N))
  <2> HIDE DEF U, N
  <2> QED BY <1>3, FS_StrictSubsetOrderingWellFounded, WFMin
<1>5. PICK t \in T : x = Rest(t)
  OBVIOUS
<1>6. ASSUME NEW o \in T, Len(o) > Len(t) PROVE FALSE
  <2>1. Rest(o) \subseteq Rest(t) /\ Rest(o) # Rest(t)
    BY <1>1, <1>6
  <2>2. <<Rest(o), Rest(t)>> \in StrictSubsetOrdering(N)
    BY <1>2, <2>1 DEF StrictSubsetOrdering
  <2> QED BY <1>4, <1>5, <2>2
<1> QED BY <1>1, <1>6

\* What is below a directory, told entry by entry.
LEMMA BelowPointwise ==
    ASSUME NEW d \in Dir, NEW x \in Dir
    PROVE  /\ Len(d) \in Nat /\ Len(x) \in Nat
           /\ x \in Below(d) <=> Len(d) <= Len(x) /\ \A i \in 1..Len(d) : d[i] = x[i]
BY PrefixPointwise, DirAssumption DEF Below

LEMMA BelowItself == ASSUME NEW d \in Dir PROVE d \in Below(d)
BY BelowPointwise

LEMMA BelowTransitive ==
    ASSUME NEW d \in Dir, NEW e \in Below(d), NEW x \in Below(e)
    PROVE  x \in Below(d)
<1>1. e \in Dir /\ x \in Dir
  BY DEF Below
<1>2. /\ Len(d) \in Nat /\ Len(e) \in Nat /\ Len(x) \in Nat
      /\ Len(d) <= Len(e) /\ Len(e) <= Len(x)
      /\ \A i \in 1..Len(d) : d[i] = e[i]
      /\ \A i \in 1..Len(e) : e[i] = x[i]
  BY <1>1, BelowPointwise
<1> QED BY <1>1, <1>2, BelowPointwise

\* What is below a directory is the directory itself or below a child of it.
LEMMA BelowChild ==
    ASSUME NEW d \in Dir, NEW x \in Below(d), x # d
    PROVE  \E c \in Children(d) : x \in Below(c)
<1> DEFINE n == Len(d)
           c == SubSeq(x, 1, n + 1)
<1>1. /\ x \in Dir /\ x \in Seq(STRING) /\ d \in Seq(STRING)
      /\ n \in Nat /\ Len(x) \in Nat /\ n <= Len(x)
      /\ \A i \in 1..n : d[i] = x[i]
  BY BelowPointwise, DirAssumption DEF Below
<1>2. n < Len(x)
  <2> SUFFICES ASSUME n = Len(x) PROVE FALSE
    BY <1>1
  <2> QED BY <1>1
<1>3. c \in Dir
  BY <1>1, <1>2, DirAssumption
<1>4. Len(c) = n + 1 /\ \A i \in 1..(n + 1) : c[i] = x[i]
  <2>1. 1 \in Int /\ n + 1 \in Int /\ \A i \in 1..(n + 1) : x[i] \in STRING
    BY <1>1, <1>2
  <2>2. /\ Len(c) = IF 1 <= n + 1 THEN (n + 1) - 1 + 1 ELSE 0
        /\ \A i \in 1..((n + 1) - 1 + 1) : c[i] = x[1 + i - 1]
    BY <2>1, SubSeqProperties
  <2> HIDE DEF c
  <2>3. (n + 1) - 1 + 1 = n + 1 /\ \A i \in 1..(n + 1) : 1 + i - 1 = i
    BY <1>1
  <2> QED BY <1>1, <2>2, <2>3
<1> HIDE DEF c
<1>5. c \in Children(d)
  BY <1>1, <1>3, <1>4, BelowPointwise DEF Children
<1>6. x \in Below(c)
  BY <1>1, <1>2, <1>3, <1>4, BelowPointwise
<1> QED BY <1>5, <1>6

\* Two children of a directory have nothing below them in common.
LEMMA ChildrenApart ==
    ASSUME NEW d \in Dir, NEW b \in Children(d), NEW c \in Children(d),
           NEW x \in Below(b), x \in Below(c)
    PROVE  b = c
<1>1. b \in Dir /\ c \in Dir /\ x \in Dir
  BY DEF Children, Below
<1>2. /\ Len(b) \in Nat /\ Len(b) = Len(c)
      /\ \A i \in 1..Len(b) : b[i] = x[i] /\ c[i] = x[i]
  BY <1>1, BelowPointwise DEF Children
<1>3. b \in Seq(STRING) /\ c \in Seq(STRING)
  BY <1>1, DirAssumption
<1> QED BY <1>2, <1>3

\* A directory is not below its children, nor below another directory that is
\* below it.
LEMMA BelowAntisymmetric ==
    ASSUME NEW d \in Dir, NEW x \in Below(d), d \in Below(x)
    PROVE  x = d
<1>1. x \in Dir /\ x \in Seq(STRING) /\ d \in Seq(STRING)
  BY DirAssumption DEF Below
<1>2. /\ Len(d) \in Nat /\ Len(x) = Len(d)
      /\ \A i \in 1..Len(d) : d[i] = x[i]
  BY <1>1, BelowPointwise
<1> QED BY <1>1, <1>2

LEMMA NotBelowChild ==
    ASSUME NEW d \in Dir, NEW c \in Children(d)
    PROVE  d \notin Below(c)
<1>1. c \in Dir /\ Len(c) = Len(d) + 1
  BY DEF Children, Below
<1> QED BY <1>1, BelowPointwise

\* What is above and what is below a directory.
LEMMA UpIsAbove ==
    ASSUME NEW d \in Dir, NEW x \in Dir
    PROVE  x \in Up(d) <=> d \in Below(x)
BY DEF Up, Below

-----------------------------------------------------------------------------
(* Files.                                                                  *)

\* A file that is set has the new content, and no other has changed.
LEMMA SetFileFacts ==
    ASSUME TreeTypeOK, NEW f \in Dir \X MkFile, NEW c \in Content,
           SetFile(f[1], f[2], c), before' = before
    PROVE  /\ file' \in [Dir -> [MkFile -> Content]]
           /\ file'[f[1]][f[2]] = c
           /\ \A g \in Dir \X MkFile : g # f => file'[g[1]][g[2]] = file[g[1]][g[2]]
           /\ \A g \in Written' : g = f \/ g \in Written
           /\ \A d \in Dir, n \in MkFile :
                 d # f[1] \/ n # f[2] => file'[d][n] = file[d][n]
<1>1. f[1] \in Dir /\ f[2] \in MkFile /\ file \in [Dir -> [MkFile -> Content]]
  BY DEF TreeTypeOK
<1>2. file' \in [Dir -> [MkFile -> Content]] /\ file'[f[1]][f[2]] = c
  BY <1>1 DEF SetFile
<1>3. \A d \in Dir, n \in MkFile : d # f[1] \/ n # f[2] => file'[d][n] = file[d][n]
  BY <1>1 DEF SetFile
<1>4. \A g \in Dir \X MkFile : g # f => file'[g[1]][g[2]] = file[g[1]][g[2]]
  BY <1>3
<1>5. \A g \in Written' : g = f \/ g \in Written
  BY <1>4 DEF Written
<1> QED BY <1>2, <1>3, <1>4, <1>5

\* A permission lasts as long as the invocation.
LEMMA PermittedStays ==
    ASSUME args' = args, before' = before, agreed \subseteq agreed',
           NEW f, Permitted(f)
    PROVE  Permitted(f)'
BY DEF Permitted

-----------------------------------------------------------------------------
(* The walk.                                                               *)

\* A step of the walk: all the walk was to come to it still is to come to, but
\* for the directory it is in now.
LEMMA WalkToFacts ==
    ASSUME todo \in Seq(Dir), NEW d \in Dir, WalkTo(d)
    PROVE  /\ d \in ToSet(todo)
           /\ todo' \in Seq(Dir)
           /\ \A x \in ToSet(todo') : x \in Below(d) \/ x \in ToSet(todo)
           /\ \A x \in Dir : Pending(x) => x = d \/ Pending(x)'
<1> DEFINE rest == Tail(todo)
<1>1. PICK s \in SetToSeqs(Children(d)) : todo' = s \o rest
  BY DEF WalkTo, Listings
<1>2. d = Head(todo) /\ todo # <<>>
  BY DEF WalkTo
<1>3. d \in ToSet(todo) /\ rest \in Seq(Dir) /\ ToSet(todo) = {d} \cup ToSet(rest)
  BY <1>2, HeadElements
<1>4. Children(d) \subseteq Below(d) /\ Below(d) \subseteq Dir
  BY DEF Children, Below
<1>5. IsFiniteSet(Children(d))
  BY <1>4, FS_Subset, DirAssumption
<1>6. s \in Seq(Children(d)) /\ ToSet(s) = Children(d)
  BY <1>1, <1>5, EnumerationElements
<1>7. s \in Seq(Dir)
  BY <1>4, <1>6
<1> HIDE DEF rest
<1>8. todo' \in Seq(Dir) /\ ToSet(todo') = Children(d) \cup ToSet(rest)
  BY <1>1, <1>3, <1>6, <1>7, ConcatElements
<1>9. \A x \in ToSet(todo') : x \in Below(d) \/ x \in ToSet(todo)
  BY <1>3, <1>4, <1>8
<1>10. ASSUME NEW x \in Dir, Pending(x), x # d PROVE Pending(x)'
  <2>1. PICK y \in ToSet(todo) : x \in Below(y)
    BY <1>10 DEF Pending
  <2>2. CASE y = d
    <3>1. \E c \in Children(d) : x \in Below(c)
      BY <1>10, <2>1, <2>2, BelowChild
    <3> QED BY <1>8, <3>1 DEF Pending
  <2>3. CASE y \in ToSet(rest)
    BY <1>8, <2>1, <2>3 DEF Pending
  <2> QED BY <1>3, <2>2, <2>3
<1> QED BY <1>3, <1>8, <1>9, <1>10

\* The directories a walk comes to are below the one it started in.
LEMMA WalkStaysBelow ==
    ASSUME todo \in Seq(Dir), NEW d \in Dir, WalkTo(d),
           NEW r \in Dir, ToSet(todo) \subseteq Below(r)
    PROVE  d \in Below(r) /\ ToSet(todo') \subseteq Below(r)
<1>1. d \in Below(r)
  BY WalkToFacts
<1>2. \A x \in Below(d) : x \in Below(r)
  BY <1>1, BelowTransitive
<1>3. \A x \in ToSet(todo') : x \in Below(d) \/ x \in ToSet(todo)
  BY WalkToFacts
<1> QED BY <1>1, <1>2, <1>3

-----------------------------------------------------------------------------
(* find_root() and the types.                                              *)

LEMMA FindRootType == ASSUME NEW d \in Dir PROVE FindRoot(d) \in Dir \cup {NoDir}
<1> DEFINE roots == {r \in Up(d) : IsFile(r, "root.mk")}
<1>1. CASE roots = {}
  BY <1>1 DEF FindRoot
<1>2. CASE roots # {}
  <2>1. \E t \in roots : \A o \in roots : Len(o) <= Len(t)
    <3> HIDE DEF roots
    <3>1. roots \subseteq Up(d)
      BY DEF roots
    <3> QED BY <1>2, <3>1, LongestAbove
  <2>2. FindRoot(d) \in roots
    BY <1>2, <2>1 DEF FindRoot
  <2> QED BY <2>2 DEF Up
<1> QED BY <1>1, <1>2

\* The inductive invariant of the tree and zmake.
IInv == TreeTypeOK /\ ZmakeTypeOK /\ ZmakeInv

\* Nothing is claimed of an invocation that is over.
LEMMA IdleInv == ASSUME zpc = "idle" PROVE ZmakeInv
BY DEF ZmakeInv, Places, WrittenIsWhole, KeepsExisting, TargetPermitted, Walking, Deleting

LEMMA ExitKeeps == ASSUME ZmakeTypeOK, Exit PROVE ZmakeTypeOK' /\ ZmakeInv'
<1>1. ZmakeTypeOK'
  BY DEF ZmakeTypeOK, Exit, NoArgs, NoTree, MkFile, Content, ZmakePC
<1>2. (zpc = "idle")'
  BY DEF Exit
<1>3. ZmakeInv'
  BY <1>2, IdleInv, PTL
<1> QED BY <1>1, <1>3

\* An invocation begins with all its files as they are.
LEMMA BeginKeeps == ASSUME IInv, Invoke PROVE IInv'
<1> USE DEF IInv
<1>1. PICK a \in Invocation :
        \/ GenRoot(a) \/ GenBranchOnly(a) \/ GenMakefile(a) \/ RWalk(a)
        \/ RootNotFound(a) \/ DeleteAll(a)
  BY DEF Invoke
<1>2. a.op \in Op /\ a.dir \in Dir /\ a.mode \in Mode
  BY InvocationAssumption
<1>3. CASE RootNotFound(a)
  <2>1. /\ zpc = "idle" /\ zpc' = "idle" /\ runs' \in 0..MaxInvocations
        /\ UNCHANGED <<treeVars, args, found, todo, target, before, agreed>>
    BY <1>3, MaxInvocationsAssumption DEF RootNotFound, ZmakeTypeOK
  <2>2. TreeTypeOK' /\ ZmakeTypeOK'
    BY <2>1 DEF treeVars, TreeTypeOK, ZmakeTypeOK, ZmakePC
  <2>3. (zpc = "idle")'
    BY <2>1
  <2>4. ZmakeInv'
    BY <2>3, IdleInv, PTL
  <2> QED BY <2>2, <2>4
<1>4. CASE ~RootNotFound(a)
  <2>1. Begin(a)
    BY <1>1, <1>4 DEF GenRoot, GenBranchOnly, GenMakefile, GenOne, RWalk, DeleteAll
  <2>2. /\ args' = a /\ before' = file /\ UNCHANGED <<treeVars, agreed>>
        /\ runs' \in 0..MaxInvocations /\ runs < MaxInvocations
    BY <2>1, MaxInvocationsAssumption DEF Begin, ZmakeTypeOK
  <2>3. TreeTypeOK' /\ Written' = {}
    BY <2>2 DEF treeVars, TreeTypeOK, Written
  <2>4. CASE GenRoot(a)
    <3>1. /\ a.op = "root" /\ target' = <<a.dir, "root.mk">> /\ zpc' = "strfile2"
          /\ UNCHANGED <<found, todo>>
      BY <2>4 DEF GenRoot
    <3>2. ZmakeTypeOK'
      BY <1>2, <2>2, <3>1 DEF ZmakeTypeOK, treeVars, TreeTypeOK, ZmakePC, MkFile
    <3>3. ZmakeInv'
      BY <1>2, <2>2, <2>3, <3>1
         DEF ZmakeInv, Places, WrittenIsWhole, KeepsExisting, TargetPermitted,
             Walking, Deleting, MkFile
    <3> QED BY <2>3, <3>2, <3>3
  <2>5. ASSUME NEW n \in MkFile, GenOne(a, n), a.op \in {"branch", "makefile"}
        PROVE  IInv'
    <3>1. /\ found' = FindRoot(a.dir) /\ found' # NoDir
          /\ target' = <<a.dir, n>> /\ zpc' = "strfile2" /\ UNCHANGED todo
      BY <2>5 DEF GenOne
    <3>2. found' \in Dir
      BY <1>2, <3>1, FindRootType
    <3>3. ZmakeTypeOK'
      BY <1>2, <2>2, <3>1, <3>2 DEF ZmakeTypeOK, treeVars, TreeTypeOK, ZmakePC
    <3>4. ZmakeInv'
      BY <1>2, <2>2, <2>3, <2>5, <3>1
         DEF ZmakeInv, Places, WrittenIsWhole, KeepsExisting, TargetPermitted,
             Walking, Deleting
    <3> QED BY <2>3, <3>3, <3>4
  <2>6. CASE RWalk(a)
    <3>1. /\ a.op = "recursive" /\ found' = FindRoot(a.dir) /\ found' # NoDir
          /\ todo' = <<found'>> /\ zpc' = "walk" /\ UNCHANGED target
      BY <2>6 DEF RWalk
    <3>2. found' \in Dir
      BY <1>2, <3>1, FindRootType
    <3>3. ZmakeTypeOK'
      BY <1>2, <2>2, <3>1, <3>2 DEF ZmakeTypeOK, treeVars, TreeTypeOK, ZmakePC
    <3>4. ToSet(todo') = {found'}
      BY <3>1 DEF ToSet
    <3>5. ToSet(todo') \subseteq Below(found') /\ \A d \in Below(found') : Pending(d)'
      BY <3>2, <3>4, BelowItself DEF Pending
    <3>6. Walking'
      BY <2>3, <3>1, <3>5 DEF Walking
    <3>7. ZmakeInv'
      BY <1>2, <2>2, <2>3, <3>1, <3>6
         DEF ZmakeInv, Places, WrittenIsWhole, KeepsExisting, TargetPermitted, Deleting
    <3> QED BY <2>3, <3>3, <3>7
  <2>7. CASE DeleteAll(a)
    <3>1. /\ a.op = "delete" /\ todo' = <<a.dir>> /\ zpc' = "walk"
          /\ UNCHANGED <<found, target>>
      BY <2>7 DEF DeleteAll
    <3>2. ZmakeTypeOK'
      BY <1>2, <2>2, <3>1 DEF ZmakeTypeOK, treeVars, TreeTypeOK, ZmakePC
    <3>3. ToSet(todo') = {a.dir}
      BY <3>1 DEF ToSet
    <3>4. ToSet(todo') \subseteq Below(a.dir) /\ \A d \in Below(a.dir) : Pending(d)'
      BY <1>2, <3>3, BelowItself DEF Pending
    <3>5. Deleting'
      BY <2>2, <2>3, <3>1, <3>4 DEF Deleting
    <3>6. ZmakeInv'
      BY <1>2, <2>2, <2>3, <3>1, <3>5
         DEF ZmakeInv, Places, WrittenIsWhole, KeepsExisting, TargetPermitted, Walking
    <3> QED BY <2>3, <3>2, <3>6
  <2>8. "rules.mk" \in MkFile /\ "Makefile" \in MkFile
    BY DEF MkFile
  <2> QED BY <1>1, <1>4, <2>4, <2>5, <2>6, <2>7, <2>8 DEF GenBranchOnly, GenMakefile
<1> QED BY <1>3, <1>4

-----------------------------------------------------------------------------
(* The steps of the walk.                                                  *)

\* gen_branch() has nothing to do in a directory without sources, and its
\* target in one with sources.
LEMMA GenBranchKeeps ==
    ASSUME IInv, NEW d \in Dir, GenBranchNoSources(d) \/ GenBranch(d)
    PROVE  IInv'
<1> USE DEF IInv
<1>1. /\ WalkTo(d) /\ zpc = "walk" /\ args.op = "recursive"
      /\ UNCHANGED <<src, file, names, edits, args, found, runs, before, agreed>>
      /\ \/ ~HasSources(d) /\ zpc' = "walk" /\ target' = target
         \/ HasSources(d) /\ zpc' = "strfile2" /\ target' = <<d, "rules.mk">>
  BY DEF GenBranchNoSources, GenBranch, WalkTo, invocation
<1>2. todo \in Seq(Dir) /\ found \in Dir
  BY <1>1 DEF ZmakeTypeOK
<1>3. /\ todo' \in Seq(Dir)
      /\ \A x \in Dir : Pending(x) => x = d \/ Pending(x)'
  BY <1>1, <1>2, WalkToFacts
<1>4. d \in Below(found) /\ ToSet(todo') \subseteq Below(found)
  BY <1>1, <1>2, WalkStaysBelow DEF ZmakeInv, Walking
<1>5. TreeTypeOK' /\ ZmakeTypeOK'
  BY <1>1, <1>3 DEF TreeTypeOK, ZmakeTypeOK, ZmakePC, MkFile
<1>6. Written' = Written
  BY <1>1 DEF Written
<1>7. Places' /\ TargetPermitted' /\ Deleting'
  BY <1>1 DEF ZmakeInv, Places, TargetPermitted, Deleting, MkFile
<1>8. WrittenIsWhole'
  BY <1>1, <1>6 DEF ZmakeInv, WrittenIsWhole
<1>9. KeepsExisting'
  BY <1>1, <1>6 DEF ZmakeInv, KeepsExisting, Permitted
<1>10. Walking'
  <2>1. \A x \in Dir : (HasSources(x)' <=> HasSources(x)) /\ (Served(x)' <=> Served(x))
    BY <1>1 DEF HasSources, Served, IsFile
  <2>2. \A x \in Below(found) : HasSources(x) => Pending(x) \/ Served(x)
    BY <1>1 DEF ZmakeInv, Walking, AtTarget
  <2>3. Below(found) \subseteq Dir
    BY DEF Below
  <2>4. ASSUME NEW x \in Below(found), HasSources(x)
        PROVE  Pending(x)' \/ AtTarget(x)' \/ Served(x)'
    <3>1. CASE x = d
      BY <1>1, <2>4, <3>1 DEF AtTarget
    <3>2. CASE x # d
      BY <1>3, <2>1, <2>2, <2>3, <2>4, <3>2
    <3> QED BY <3>1, <3>2
  <2>5. \A x \in Below(found') : HasSources(x)' => Pending(x)' \/ AtTarget(x)' \/ Served(x)'
    BY <1>1, <2>1, <2>3, <2>4
  <2>6. zpc' # "walk" => /\ target'[1] \in Below(found')
                         /\ HasSources(target[1])' /\ target'[2] = "rules.mk"
    BY <1>1, <1>4, <2>1, <2>3
  <2>7. \A f \in Written' : /\ f[1] \in Below(found')
                            /\ HasSources(f[1])' /\ f[2] = "rules.mk"
    BY <1>1, <1>6, <2>1, <2>3 DEF ZmakeInv, Walking
  <2> QED BY <1>1, <1>4, <2>5, <2>6, <2>7 DEF Walking
<1> QED BY <1>5, <1>7, <1>8, <1>9, <1>10 DEF ZmakeInv

\* zmake -D deletes the rules.mk of a directory; its root.mk is next.
LEMMA DeleteRulesKeeps ==
    ASSUME IInv, NEW d \in Dir, DeleteRules(d)
    PROVE  IInv'
<1> USE DEF IInv
<1> DEFINE f == <<d, "rules.mk">>
<1>1. /\ WalkTo(d) /\ zpc = "walk" /\ zpc' = "delroot" /\ args.op = "delete"
      /\ target' = <<d, "root.mk">> /\ SetFile(d, "rules.mk", "absent")
      /\ UNCHANGED <<src, names, edits, args, found, runs, before, agreed>>
  BY DEF DeleteRules, WalkTo, invocation
<1>2. todo \in Seq(Dir) /\ args \in Invocation /\ args.dir \in Dir
  BY <1>1, InvocationAssumption DEF ZmakeTypeOK, ZmakeInv, Places
<1>3. /\ todo' \in Seq(Dir)
      /\ \A x \in Dir : Pending(x) => x = d \/ Pending(x)'
  BY <1>1, <1>2, WalkToFacts
<1>4. d \in Below(args.dir) /\ ToSet(todo') \subseteq Below(args.dir)
  BY <1>1, <1>2, WalkStaysBelow DEF ZmakeInv, Deleting
<1>5. f \in Dir \X MkFile /\ "absent" \in Content /\ f[1] = d /\ f[2] = "rules.mk"
  BY DEF MkFile, Content
<1>6. /\ file' \in [Dir -> [MkFile -> Content]]
      /\ file'[d]["rules.mk"] = "absent"
      /\ \A g \in Dir \X MkFile : g # f => file'[g[1]][g[2]] = file[g[1]][g[2]]
      /\ \A g \in Written' : g = f \/ g \in Written
      /\ \A x \in Dir, n \in MkFile : x # d \/ n # "rules.mk" => file'[x][n] = file[x][n]
  BY <1>1, <1>5, SetFileFacts
<1>7. TreeTypeOK' /\ ZmakeTypeOK'
  BY <1>1, <1>3, <1>6 DEF TreeTypeOK, ZmakeTypeOK, ZmakePC, MkFile
<1>8. Places' /\ TargetPermitted' /\ Walking'
  BY <1>1, <1>2 DEF Places, TargetPermitted, Walking, MkFile
<1>9. WrittenIsWhole'
  BY <1>1, <1>5, <1>6 DEF ZmakeInv, WrittenIsWhole, Written
<1>10. KeepsExisting'
  <2>1. Permitted(f)
    BY <1>1, <1>5 DEF Permitted
  <2>2. \A g \in Written' : Permitted(g)
    BY <1>1, <1>6, <2>1 DEF ZmakeInv, KeepsExisting
  <2> QED BY <1>1, <2>2, PermittedStays DEF KeepsExisting
<1>11. Deleting'
  <2>1. \A x \in Dir : Deleted(x) => Deleted(x)'
    BY <1>6 DEF Deleted, IsFile, MkFile
  <2>2. Below(args.dir) \subseteq Dir
    BY DEF Below
  <2>3. \A x \in Below(args.dir) : Pending(x) \/ Deleted(x)
    BY <1>1 DEF ZmakeInv, Deleting, AtTarget
  <2>4. \A x \in Below(args.dir) : Pending(x)' \/ AtTarget(x)' \/ Deleted(x)'
    BY <1>1, <1>3, <2>1, <2>2, <2>3 DEF AtTarget
  <2>5. \A g \in Written' : g[1] \in Below(args.dir) /\ g[2] # "Makefile"
    BY <1>1, <1>4, <1>5, <1>6 DEF ZmakeInv, Deleting
  <2>6. ~IsFile(d, "rules.mk")'
    BY <1>6 DEF IsFile
  <2> QED BY <1>1, <1>4, <2>4, <2>5, <2>6 DEF Deleting
<1> QED BY <1>7, <1>8, <1>9, <1>10, <1>11 DEF ZmakeInv

\* Its root.mk is deleted: zmake -D is done with the directory.
LEMMA DeleteRootKeeps == ASSUME IInv, DeleteRoot PROVE IInv'
<1> USE DEF IInv
<1>1. /\ zpc = "delroot" /\ zpc' = "walk" /\ SetFile(target[1], "root.mk", "absent")
      /\ UNCHANGED <<src, names, edits, args, found, runs, before, todo, target, agreed>>
  BY DEF DeleteRoot, invocation
<1>2. /\ args \in Invocation /\ args.op = "delete"
      /\ target \in Dir \X MkFile /\ target[2] = "root.mk"
      /\ "absent" \in Content /\ todo \in Seq(Dir)
  BY <1>1 DEF ZmakeInv, Places, Content, ZmakeTypeOK
<1>3. /\ file' \in [Dir -> [MkFile -> Content]]
      /\ file'[target[1]][target[2]] = "absent"
      /\ \A g \in Dir \X MkFile : g # target => file'[g[1]][g[2]] = file[g[1]][g[2]]
      /\ \A g \in Written' : g = target \/ g \in Written
      /\ \A x \in Dir, n \in MkFile :
            x # target[1] \/ n # target[2] => file'[x][n] = file[x][n]
  BY <1>1, <1>2, SetFileFacts
<1>4. TreeTypeOK' /\ ZmakeTypeOK'
  BY <1>1, <1>3 DEF TreeTypeOK, ZmakeTypeOK, ZmakePC
<1>5. Places' /\ TargetPermitted' /\ Walking'
  BY <1>1, <1>2 DEF Places, TargetPermitted, Walking
<1>6. WrittenIsWhole'
  BY <1>1, <1>2, <1>3 DEF ZmakeInv, WrittenIsWhole, Written
<1>7. KeepsExisting'
  <2>1. Permitted(target)
    BY <1>2 DEF Permitted
  <2>2. \A g \in Written' : Permitted(g)
    BY <1>1, <1>3, <2>1 DEF ZmakeInv, KeepsExisting
  <2> QED BY <1>1, <2>2, PermittedStays DEF KeepsExisting
<1>8. Deleting'
  <2>1. /\ target[1] \in Below(args.dir) /\ ~IsFile(target[1], "rules.mk")
        /\ ToSet(todo) \subseteq Below(args.dir)
        /\ \A x \in Below(args.dir) : Pending(x) \/ x = target[1] \/ Deleted(x)
        /\ \A g \in Written : g[1] \in Below(args.dir) /\ g[2] # "Makefile"
    BY <1>1, <1>2 DEF ZmakeInv, Deleting, AtTarget
  <2>2. Below(args.dir) \subseteq Dir
    BY DEF Below
  <2>3. \A x \in Dir : Deleted(x) => Deleted(x)'
    BY <1>2, <1>3 DEF Deleted, IsFile, MkFile
  <2>4. Deleted(target[1])'
    <3>1. file'[target[1]]["rules.mk"] = "absent" /\ file'[target[1]]["root.mk"] = "absent"
      BY <1>2, <1>3, <2>1 DEF IsFile, MkFile
    <3> QED BY <1>1, <3>1 DEF Deleted, IsFile
  <2>5. \A x \in Below(args.dir) : Pending(x) => Pending(x)'
    BY <1>1 DEF Pending
  <2>6. \A x \in Below(args.dir) : Pending(x)' \/ AtTarget(x)' \/ Deleted(x)'
    BY <1>1, <2>1, <2>2, <2>3, <2>4, <2>5
  <2>7. \A g \in Written' : g[1] \in Below(args.dir) /\ g[2] # "Makefile"
    BY <1>2, <1>3, <2>1
  <2> QED BY <1>1, <2>1, <2>6, <2>7 DEF Deleting
<1> QED BY <1>4, <1>5, <1>6, <1>7, <1>8 DEF ZmakeInv

-----------------------------------------------------------------------------
(* The steps of strfile2().                                                *)

\* After a file is done zmake -b -R walks on; every other invocation is over.
LEMMA NextFileFacts ==
    ASSUME IInv, NextFile
    PROVE  \/ ZmakeTypeOK' /\ ZmakeInv'
           \/ /\ args.op = "recursive" /\ zpc' = "walk"
              /\ UNCHANGED <<args, found, runs, before, todo, target, agreed>>
              /\ args.op # "delete"
<1>1. CASE args.op = "recursive"
  BY <1>1 DEF NextFile, invocation
<1>2. CASE args.op # "recursive"
  BY <1>2, ExitKeeps DEF NextFile, IInv
<1> QED BY <1>1, <1>2

\* A file that exists is kept, by -s or by a no.
LEMMA KeptKeeps == ASSUME IInv, Skip \/ AnswerNo PROVE IInv'
<1> USE DEF IInv
<1>1. /\ zpc \in {"strfile2", "asking"} /\ NextFile /\ UNCHANGED treeVars
      /\ TargetExists /\ args.mode # "force"
      /\ target \in Dir \X MkFile
  BY DEF Skip, AnswerNo, ZmakeInv, Places
<1>2. TreeTypeOK' /\ file' = file /\ src' = src
  BY <1>1 DEF TreeTypeOK, treeVars
<1>3. CASE ZmakeTypeOK' /\ ZmakeInv'
  BY <1>2, <1>3
<1>4. CASE /\ args.op = "recursive" /\ zpc' = "walk"
           /\ UNCHANGED <<args, found, runs, before, todo, target, agreed>>
           /\ args.op # "delete"
  <2>1. ZmakeTypeOK'
    BY <1>2, <1>4 DEF ZmakeTypeOK, ZmakePC
  <2>2. Written' = Written
    BY <1>2, <1>4 DEF Written
  <2>3. Places' /\ TargetPermitted' /\ Deleting'
    BY <1>1, <1>4 DEF ZmakeInv, Places, TargetPermitted, Deleting
  <2>4. WrittenIsWhole'
    BY <1>1, <1>2, <1>4, <2>2 DEF ZmakeInv, WrittenIsWhole
  <2>5. KeepsExisting'
    BY <1>1, <1>4, <2>2 DEF ZmakeInv, KeepsExisting, Permitted
  <2>6. Walking'
    <3>1. /\ target[1] \in Below(found) /\ target[2] = "rules.mk"
          /\ ToSet(todo) \subseteq Below(found)
          /\ \A f \in Written : /\ f[1] \in Below(found)
                                /\ HasSources(f[1]) /\ f[2] = "rules.mk"
          /\ \A d \in Below(found) :
                HasSources(d) => Pending(d) \/ d = target[1] \/ Served(d)
      BY <1>1, <1>4 DEF ZmakeInv, Walking, AtTarget
    <3>2. Served(target[1])
      <4>1. IsFile(target[1], "rules.mk")
        BY <1>1, <3>1 DEF TargetExists
      <4>2. ASSUME before[target[1]]["rules.mk"] = "absent"
            PROVE  file[target[1]]["rules.mk"] = "generated"
        <5>1. target \in Written
          BY <1>1, <3>1, <4>1, <4>2 DEF Written, IsFile
        <5> QED BY <1>1, <1>4, <3>1, <5>1 DEF ZmakeInv, WrittenIsWhole
      <4> QED BY <1>1, <4>1, <4>2 DEF Served
    <3>3. \A d \in Below(found) :
            /\ HasSources(d)' <=> HasSources(d)
            /\ Served(d)' <=> Served(d)
            /\ Pending(d)' <=> Pending(d)
      BY <1>2, <1>4 DEF HasSources, Served, IsFile, Pending
    <3>4. \A d \in Below(found) : HasSources(d)' => Pending(d)' \/ Served(d)'
      BY <3>1, <3>2, <3>3
    <3>5. \A f \in Written' : /\ f[1] \in Below(found)
                              /\ HasSources(f[1])' /\ f[2] = "rules.mk"
      BY <2>2, <3>1, <3>3
    <3> QED BY <1>4, <3>1, <3>4, <3>5 DEF Walking
  <2> QED BY <1>2, <2>1, <2>3, <2>4, <2>5, <2>6 DEF ZmakeInv
<1> QED BY <1>1, <1>3, <1>4, NextFileFacts

\* The target is truncated: its user agreed, or it was not there when the
\* invocation began, or was written before by this very invocation.
LEMMA OpenKeeps == ASSUME IInv, Overwrite \/ AnswerYes PROVE IInv'
<1> USE DEF IInv
<1>1. /\ zpc \in {"strfile2", "asking"} /\ zpc' = "writing"
      /\ SetFile(target[1], target[2], "empty")
      /\ UNCHANGED <<src, names, edits, args, found, runs, before, todo, target>>
      /\ target \in Dir \X MkFile /\ args \in Invocation /\ args.op # "delete"
      /\ "empty" \in Content
  BY DEF Overwrite, AnswerYes, Open, invocation, ZmakeInv, Places, Content
<1>2. agreed \subseteq agreed' /\ agreed' \in SUBSET (Dir \X MkFile)
  BY <1>1 DEF Overwrite, AnswerYes, ZmakeTypeOK
<1>3. /\ file' \in [Dir -> [MkFile -> Content]]
      /\ file'[target[1]][target[2]] = "empty"
      /\ \A g \in Dir \X MkFile : g # target => file'[g[1]][g[2]] = file[g[1]][g[2]]
      /\ \A g \in Written' : g = target \/ g \in Written
      /\ \A x \in Dir, n \in MkFile :
            x # target[1] \/ n # target[2] => file'[x][n] = file[x][n]
  BY <1>1, SetFileFacts
<1>4. TreeTypeOK' /\ ZmakeTypeOK'
  BY <1>1, <1>2, <1>3 DEF TreeTypeOK, ZmakeTypeOK, ZmakePC
<1>5. Places' /\ Deleting'
  BY <1>1 DEF Places, Deleting
<1>6. WrittenIsWhole'
  BY <1>1, <1>3 DEF ZmakeInv, WrittenIsWhole, Written
<1>7. Permitted(target)'
  <2>1. CASE AnswerYes
    BY <1>1, <2>1 DEF AnswerYes, Permitted
  <2>2. CASE args.mode = "force"
    BY <1>1, <2>2 DEF Permitted
  <2>3. CASE ~TargetExists
    <3>1. target \in Written \/ before[target[1]][target[2]] = "absent"
      BY <1>1, <2>3 DEF TargetExists, IsFile, Written
    <3>2. Permitted(target)
      BY <1>1, <3>1 DEF ZmakeInv, KeepsExisting, Permitted
    <3> QED BY <1>1, <1>2, <3>2 DEF Permitted
  <2> QED BY <2>1, <2>2, <2>3 DEF Overwrite
<1>8. KeepsExisting' /\ TargetPermitted'
  <2>1. \A g \in Written : Permitted(g)'
    BY <1>1, <1>2, PermittedStays DEF ZmakeInv, KeepsExisting
  <2> QED BY <1>1, <1>3, <1>7, <2>1 DEF KeepsExisting, TargetPermitted
<1>9. Walking'
  <2> SUFFICES ASSUME args.op = "recursive" PROVE Walking'
    BY <1>1 DEF Walking
  <2>1. /\ target[1] \in Below(found) /\ HasSources(target[1]) /\ target[2] = "rules.mk"
        /\ ToSet(todo) \subseteq Below(found)
        /\ \A f \in Written : /\ f[1] \in Below(found)
                              /\ HasSources(f[1]) /\ f[2] = "rules.mk"
        /\ \A d \in Below(found) :
              HasSources(d) => Pending(d) \/ d = target[1] \/ Served(d)
    BY <1>1 DEF ZmakeInv, Walking, AtTarget
  <2>2. Below(found) \subseteq Dir
    BY DEF Below
  <2>3. \A d \in Dir : /\ HasSources(d)' <=> HasSources(d)
                       /\ Pending(d)' <=> Pending(d)
                       /\ d # target[1] => (Served(d)' <=> Served(d))
                       /\ AtTarget(d)' <=> d = target[1]
    BY <1>1, <1>3 DEF HasSources, Pending, Served, IsFile, AtTarget, MkFile
  <2>4. \A d \in Below(found) :
          HasSources(d)' => Pending(d)' \/ AtTarget(d)' \/ Served(d)'
    BY <2>1, <2>2, <2>3
  <2>5. HasSources(target[1])' /\ target'[1] \in Below(found) /\ target'[2] = "rules.mk"
    BY <1>1, <2>1 DEF HasSources
  <2>6. \A f \in Written' : /\ f[1] \in Below(found)
                            /\ HasSources(f[1])' /\ f[2] = "rules.mk"
    BY <1>3, <2>1, <2>2, <2>3
  <2> QED BY <1>1, <2>1, <2>4, <2>5, <2>6 DEF Walking
<1> QED BY <1>4, <1>5, <1>6, <1>8, <1>9 DEF ZmakeInv

\* The target gets its text.
LEMMA CloseKeeps == ASSUME IInv, Close PROVE IInv'
<1> USE DEF IInv
<1>1. /\ zpc = "writing" /\ NextFile /\ SetFile(target[1], target[2], "generated")
      /\ UNCHANGED <<src, edits>>
      /\ names' = IF target[2] = "Makefile" THEN [names EXCEPT ![target[1]] = found]
                  ELSE names
      /\ target \in Dir \X MkFile /\ args \in Invocation /\ args.op # "delete"
      /\ "generated" \in Content
  BY DEF Close, ZmakeInv, Places, Content
<1>2. file' \in [Dir -> [MkFile -> Content]]
  BY <1>1 DEF SetFile, TreeTypeOK
<1>3. TreeTypeOK'
  BY <1>1, <1>2 DEF TreeTypeOK, ZmakeTypeOK
<1>4. CASE ZmakeTypeOK' /\ ZmakeInv'
  BY <1>3, <1>4
<1>5. CASE /\ args.op = "recursive" /\ zpc' = "walk"
           /\ UNCHANGED <<args, found, runs, before, todo, target, agreed>>
           /\ args.op # "delete"
  <2>1. /\ file'[target[1]][target[2]] = "generated"
        /\ \A g \in Dir \X MkFile : g # target => file'[g[1]][g[2]] = file[g[1]][g[2]]
        /\ \A g \in Written' : g = target \/ g \in Written
        /\ \A x \in Dir, n \in MkFile :
              x # target[1] \/ n # target[2] => file'[x][n] = file[x][n]
    BY <1>1, <1>5, SetFileFacts
  <2>2. ZmakeTypeOK'
    BY <1>5 DEF ZmakeTypeOK, ZmakePC
  <2>3. Places' /\ TargetPermitted' /\ Deleting'
    BY <1>1, <1>5 DEF Places, TargetPermitted, Deleting
  <2>4. WrittenIsWhole'
    BY <1>1, <1>5, <2>1 DEF ZmakeInv, WrittenIsWhole, Written
  <2>5. KeepsExisting'
    <3>1. \A g \in Written' : Permitted(g)
      BY <1>1, <2>1 DEF ZmakeInv, KeepsExisting, TargetPermitted
    <3> QED BY <1>5, <3>1, PermittedStays DEF KeepsExisting
  <2>6. Walking'
    <3>1. /\ target[1] \in Below(found) /\ HasSources(target[1]) /\ target[2] = "rules.mk"
          /\ ToSet(todo) \subseteq Below(found)
          /\ \A f \in Written : /\ f[1] \in Below(found)
                                /\ HasSources(f[1]) /\ f[2] = "rules.mk"
          /\ \A d \in Below(found) :
                HasSources(d) => Pending(d) \/ d = target[1] \/ Served(d)
      BY <1>1, <1>5 DEF ZmakeInv, Walking, AtTarget
    <3>2. Below(found) \subseteq Dir
      BY DEF Below
    <3>3. \A d \in Dir : d = target[1] => Served(d)'
      BY <1>5, <2>1, <3>1 DEF Served, IsFile
    <3>4. \A d \in Dir : /\ HasSources(d)' <=> HasSources(d)
                         /\ Pending(d)' <=> Pending(d)
                         /\ d # target[1] => (Served(d)' <=> Served(d))
      BY <1>1, <1>5, <2>1 DEF HasSources, Pending, Served, IsFile, MkFile
    <3>5. \A d \in Below(found) : HasSources(d)' => Pending(d)' \/ Served(d)'
      BY <1>5, <3>1, <3>2, <3>3, <3>4
    <3>6. \A f \in Written' : /\ f[1] \in Below(found)
                              /\ HasSources(f[1])' /\ f[2] = "rules.mk"
      BY <2>1, <3>1, <3>2, <3>4
    <3> QED BY <1>5, <3>1, <3>5, <3>6 DEF Walking
  <2> QED BY <1>3, <2>2, <2>3, <2>4, <2>5, <2>6 DEF ZmakeInv
<1> QED BY <1>1, <1>4, <1>5, NextFileFacts

-----------------------------------------------------------------------------
(* All steps.                                                              *)

LEMMA AskKeeps == ASSUME IInv, Ask PROVE IInv'
<1> USE DEF IInv
<1>1. /\ zpc = "strfile2" /\ zpc' = "asking" /\ args.mode = "ask" /\ TargetExists
      /\ UNCHANGED <<src, file, names, edits, args, found, runs, before, todo, target,
                     agreed>>
  BY DEF Ask, invocation, treeVars
<1>2. TreeTypeOK' /\ ZmakeTypeOK'
  BY <1>1 DEF TreeTypeOK, ZmakeTypeOK, ZmakePC
<1>3. Written' = Written
  BY <1>1 DEF Written
<1>4. Places' /\ TargetPermitted' /\ Deleting'
  BY <1>1 DEF ZmakeInv, Places, TargetPermitted, Deleting, TargetExists, IsFile
<1>5. WrittenIsWhole' /\ KeepsExisting'
  BY <1>1, <1>3 DEF ZmakeInv, WrittenIsWhole, KeepsExisting, Permitted
<1>6. Walking'
  <2>1. \A d \in Dir : /\ HasSources(d)' <=> HasSources(d)
                       /\ Pending(d)' <=> Pending(d)
                       /\ Served(d)' <=> Served(d)
                       /\ AtTarget(d)' <=> AtTarget(d)
    BY <1>1 DEF HasSources, Pending, Served, IsFile, AtTarget
  <2>2. Below(found) \subseteq Dir
    BY DEF Below
  <2> QED BY <1>1, <1>3, <2>1, <2>2 DEF ZmakeInv, Walking, HasSources
<1> QED BY <1>2, <1>4, <1>5, <1>6 DEF ZmakeInv

LEMMA InvocationKeeps == ASSUME IInv, ZmakeRuns \/ Interrupt PROVE IInv'
<1>1. CASE \E d \in Dir : GenBranchNoSources(d) \/ GenBranch(d)
  BY <1>1, GenBranchKeeps
<1>2. CASE \E d \in Dir : DeleteRules(d)
  BY <1>2, DeleteRulesKeeps
<1>3. CASE DeleteRoot
  BY <1>3, DeleteRootKeeps
<1>4. CASE Exit /\ UNCHANGED treeVars
  BY <1>4, ExitKeeps DEF IInv, TreeTypeOK, treeVars
<1>5. CASE Overwrite \/ AnswerYes
  BY <1>5, OpenKeeps
<1>6. CASE Skip \/ AnswerNo
  BY <1>6, KeptKeeps
<1>7. CASE Ask
  BY <1>7, AskKeeps
<1>8. CASE Close
  BY <1>8, CloseKeeps
<1> QED BY <1>1, <1>2, <1>3, <1>4, <1>5, <1>6, <1>7, <1>8
        DEF ZmakeRuns, Interrupt, WalkDone, AnswerQuit

\* The user edits between two invocations.
LEMMA UserEditsKeeps ==
    ASSUME IInv, zpc = "idle", UserEdits, UNCHANGED zmakeVars PROVE IInv'
<1>1. (zpc = "idle")'
  BY DEF zmakeVars
<1>2. ZmakeInv'
  BY <1>1, IdleInv, PTL
<1>3. ZmakeTypeOK'
  BY DEF IInv, ZmakeTypeOK, zmakeVars
<1>4. edits' \in 0..MaxEdits /\ names' = names
  BY MaxEditsAssumption DEF IInv, TreeTypeOK, UserEdits
<1>5. PICK d \in Dir : EditSources(d) \/ \E n \in MkFile : EditFile(d, n)
  BY DEF UserEdits
<1>6. src' \in [Dir -> Nat] /\ file' \in [Dir -> [MkFile -> Content]]
  <2>1. CASE EditSources(d)
    BY <2>1 DEF IInv, TreeTypeOK, EditSources
  <2>2. CASE \E n \in MkFile : EditFile(d, n)
    BY <2>2 DEF IInv, TreeTypeOK, EditFile, SetFile, Content
  <2> QED BY <1>5, <2>1, <2>2
<1> QED BY <1>2, <1>3, <1>4, <1>6 DEF IInv, TreeTypeOK

LEMMA UnchangedKeeps ==
    ASSUME IInv, UNCHANGED <<treeVars, zmakeVars>> PROVE IInv'
<1>1. UNCHANGED <<src, file, names, edits, zpc, args, found, todo, target, runs, before,
                  agreed>>
  BY DEF treeVars, zmakeVars
<1>2. TreeTypeOK' /\ ZmakeTypeOK'
  BY <1>1 DEF IInv, TreeTypeOK, ZmakeTypeOK
<1>3. ZmakeInv'
  BY <1>1 DEF IInv, ZmakeInv, Places, WrittenIsWhole, KeepsExisting, TargetPermitted,
     Walking, Deleting, Written, Permitted, TargetExists, Pending, AtTarget, Served,
     Deleted, HasSources, IsFile
<1> QED BY <1>2, <1>3 DEF IInv

-----------------------------------------------------------------------------
(* The steps of make.                                                      *)

\* The inductive invariant of make.
MInv == MakeTypeOK /\ MakeInv

\* What make reads of the tree: its files and whether there are sources.
TreeStays == UNCHANGED <<src, file>>

LEMMA ReachedStays ==
    ASSUME TreeStays, NEW x PROVE Reached(x)' = Reached(x)
BY DEF TreeStays, Reached, HasText, HasSources

-----------------------------------------------------------------------------
(* What is reached.                                                        *)

\* A rules.mk reaches the sources next to it and what the rules.mk files of the
\* subdirectories reach.
LEMMA ReachedThrough ==
    ASSUME NEW d \in Dir, HasText(d, "rules.mk")
    PROVE  /\ d \in Reached(d) <=> HasSources(d)
           /\ \A e : e # d => (e \in Reached(d) <=> \E c \in Includes(d) : e \in Reached(c))
<1>1. Below(d) \cap Up(d) = {d}
  BY BelowItself, BelowAntisymmetric, UpIsAbove DEF Below
<1>2. d \in Reached(d) <=> HasSources(d)
  BY <1>1, BelowItself DEF Reached
<1>3. Children(d) \subseteq Below(d) /\ Below(d) \subseteq Dir
  BY DEF Children, Below
<1>4. ASSUME NEW e \in Reached(d), e # d
      PROVE  \E c \in Includes(d) : e \in Reached(c)
  <2>1. /\ e \in Below(d) /\ e \in Dir /\ HasSources(e)
        /\ \A x \in Below(d) \cap Up(e) : HasText(x, "rules.mk")
    BY <1>4 DEF Reached, Below
  <2>2. PICK c \in Children(d) : e \in Below(c)
    BY <1>4, <2>1, BelowChild
  <2>3. c \in Dir /\ c \in Below(d) /\ c \in Up(e)
    BY <1>3, <2>1, <2>2, UpIsAbove
  <2>4. HasText(c, "rules.mk")
    BY <2>1, <2>3
  <2>5. c \in Includes(d)
    BY <2>4 DEF Includes, HasText, IsFile
  <2>6. Below(c) \subseteq Below(d)
    BY <2>3, BelowTransitive
  <2>7. e \in Reached(c)
    BY <2>1, <2>2, <2>4, <2>6 DEF Reached
  <2> QED BY <2>5, <2>7
<1>5. ASSUME NEW c \in Includes(d), NEW e \in Reached(c), e # d
      PROVE  e \in Reached(d)
  <2>1. c \in Children(d) /\ c \in Below(d) /\ c \in Dir
    BY <1>3 DEF Includes
  <2>2. /\ e \in Below(c) /\ e \in Dir /\ HasSources(e) /\ HasText(c, "rules.mk")
        /\ \A x \in Below(c) \cap Up(e) : HasText(x, "rules.mk")
    BY <1>5 DEF Reached, Below
  <2>3. e \in Below(d)
    BY <2>1, <2>2, BelowTransitive
  <2>4. ASSUME NEW x \in Below(d) \cap Up(e) PROVE HasText(x, "rules.mk")
    <3>1. x \in Dir /\ e \in Below(x)
      BY <2>2, UpIsAbove DEF Up
    <3>2. CASE x # d
      <4>1. PICK b \in Children(d) : x \in Below(b)
        BY <3>2, BelowChild
      <4>2. b \in Dir /\ e \in Below(b)
        BY <1>3, <3>1, <4>1, BelowTransitive
      <4>3. b = c
        BY <2>1, <2>2, <4>2, ChildrenApart
      <4> QED BY <2>2, <4>1, <4>3
    <3> QED BY <3>2
  <2> QED BY <2>2, <2>3, <2>4 DEF Reached
<1> QED BY <1>2, <1>4, <1>5

\* Nothing is reached but what is below.
LEMMA ReachedBelow == ASSUME NEW d PROVE Reached(d) \subseteq Below(d)
BY DEF Reached

-----------------------------------------------------------------------------
(* Lists of directories none of which is below another.                    *)

LEMMA ApartTail ==
    ASSUME NEW s \in Seq(Dir), s # <<>>, Apart(s)
    PROVE  Apart(Tail(s)) /\ \A x \in ToSet(Tail(s)) : Below(Head(s)) \cap Below(x) = {}
<1> DEFINE n == Len(s)
           r == Tail(s)
<1>1. /\ n \in Nat \ {0} /\ DOMAIN s = 1..n /\ DOMAIN r = 1..(n - 1)
      /\ Head(s) = s[1] /\ \A i \in 1..(n - 1) : r[i] = s[i + 1]
  OBVIOUS
<1> HIDE DEF n, r
<1>2. \A i \in 1..(n - 1) : i + 1 \in 1..n /\ i + 1 # 1 /\ 1 \in 1..n
  BY <1>1
<1>3. \A i, j \in 1..(n - 1) : i # j => i + 1 # j + 1
  BY <1>1
<1>4. Apart(r)
  <2>1. ASSUME NEW i \in 1..(n - 1), NEW j \in 1..(n - 1), i # j
        PROVE  Below(r[i]) \cap Below(r[j]) = {}
    <3>1. r[i] = s[i + 1] /\ r[j] = s[j + 1]
      BY <1>1
    <3>2. i + 1 \in DOMAIN s /\ j + 1 \in DOMAIN s /\ i + 1 # j + 1
      BY <1>1, <1>2, <1>3, <2>1
    <3> QED BY <3>1, <3>2 DEF Apart
  <2> QED BY <1>1, <2>1 DEF Apart
<1>5. \A i \in 1..(n - 1) : Below(Head(s)) \cap Below(r[i]) = {}
  BY <1>1, <1>2 DEF Apart
<1> QED BY <1>1, <1>4, <1>5 DEF r, ToSet

LEMMA ApartConcat ==
    ASSUME NEW s \in Seq(Dir), NEW t \in Seq(Dir), Apart(s), Apart(t),
           \A x \in ToSet(s), y \in ToSet(t) : Below(x) \cap Below(y) = {}
    PROVE  Apart(s \o t)
<1> DEFINE m == Len(s)
           n == Len(t)
           u == s \o t
<1>1. /\ m \in Nat /\ n \in Nat /\ DOMAIN s = 1..m /\ DOMAIN t = 1..n
      /\ DOMAIN u = 1..(m + n)
  OBVIOUS
<1>2. (\A i \in 1..m : u[i] = s[i]) /\ \A i \in 1..n : u[m + i] = t[i]
  OBVIOUS
<1> HIDE DEF m, n, u
<1>3. \A i \in 1..(m + n) : i \in 1..m \/ (i - m \in 1..n /\ i = m + (i - m))
  BY <1>1
<1>4. \A i \in 1..(m + n) :
        \/ i \in 1..m /\ u[i] = s[i] /\ s[i] \in ToSet(s)
        \/ i - m \in 1..n /\ u[i] = t[i - m] /\ t[i - m] \in ToSet(t)
  BY <1>1, <1>2, <1>3 DEF ToSet
<1>5. \A i, j \in 1..(m + n) : i # j => i - m # j - m
  BY <1>1
<1> QED BY <1>1, <1>4, <1>5 DEF Apart, u

-----------------------------------------------------------------------------
(* The steps of make.                                                      *)

\* Make begins with one rules.mk to include, that of its directory.
LEMMA StartKeeps ==
    ASSUME MInv, NEW d \in MakeDir, NEW all \in BOOLEAN, StartMake(d, all)
    PROVE  MInv'
<1> USE DEF MInv
<1>1. /\ makes' \in 0..MaxMakes /\ mdir' = d /\ asksAll' = all /\ include' = <<d>>
      /\ tmp' = NoDir /\ objs' = <<>> /\ goal' = <<>> /\ depBefore' = dep
      /\ mpc' = "reading" /\ UNCHANGED <<src, file, obj, dep>>
  BY MaxMakesAssumption DEF StartMake, treeVars, MakeTypeOK
<1>2. d \in Dir
  BY MakeDirAssumption
<1>3. MakeTypeOK'
  BY <1>1, <1>2 DEF MakeTypeOK
<1>4. Reached(d)' = Reached(d)
  BY <1>1, ReachedStays DEF TreeStays
<1>5. ToSet(include') = {d} /\ ToSet(objs') = {}
  BY <1>1 DEF ToSet
<1>6. IsInjective(objs') /\ Apart(include')
  BY <1>1 DEF IsInjective, Apart
<1>7. Collecting'
  <2>1. Reached(mdir)' = Reached(d)
    BY <1>1, <1>4 DEF Reached, HasText, HasSources
  <2>2. UNION {Reached(x)' : x \in ToSet(include')} = Reached(d)
    BY <1>4, <1>5
  <2> QED BY <1>1, <1>2, <1>5, <1>6, <2>1, <2>2 DEF Collecting
<1>8. Building'
  BY <1>1 DEF Building
<1> QED BY <1>3, <1>7, <1>8 DEF MakeInv

\* A rules.mk is read: its directory is collected, and those of its
\* subdirectories that have one are still to come.
LEMMA ReadRulesKeeps ==
    ASSUME MInv, NEW d \in Dir, ReadRules(d)
    PROVE  MInv'
<1> USE DEF MInv
<1> DEFINE rest == Tail(include)
<1>1. /\ mpc = "reading" /\ mpc' = "reading" /\ include # <<>> /\ d = Head(include)
      /\ HasText(d, "rules.mk") /\ tmp' = d
      /\ objs' = IF HasSources(d) THEN Append(objs, d) ELSE objs
      /\ UNCHANGED <<src, file, mdir, asksAll, goal, makes, obj, dep, depBefore>>
  BY DEF ReadRules, treeVars
<1>2. PICK s \in SetToSeqs(Includes(d)) : include' = s \o rest
  BY DEF ReadRules, Listings
<1>3. include \in Seq(Dir) /\ objs \in Seq(Dir)
  BY DEF MakeTypeOK
<1>4. rest \in Seq(Dir) /\ ToSet(include) = {d} \cup ToSet(rest)
  BY <1>1, <1>3, HeadElements
<1>5. Includes(d) \subseteq Children(d) /\ Children(d) \subseteq Below(d) /\ Below(d) \subseteq Dir
  BY DEF Includes, Children, Below
<1>6. s \in Seq(Includes(d)) /\ ToSet(s) = Includes(d) /\ IsInjective(s)
  <2>1. IsFiniteSet(Includes(d))
    BY <1>5, FS_Subset, DirAssumption
  <2> QED BY <1>2, <2>1, EnumerationElements
<1>7. s \in Seq(Dir)
  BY <1>5, <1>6
<1>8. /\ mdir \in Dir
      /\ ToSet(objs) \cup UNION {Reached(x) : x \in ToSet(include)} = Reached(mdir)
      /\ IsInjective(objs) /\ Apart(include)
      /\ \A x \in ToSet(include) : ToSet(objs) \cap Below(x) = {}
  BY <1>1 DEF MakeInv, Collecting
<1>9. Apart(rest) /\ \A x \in ToSet(rest) : Below(d) \cap Below(x) = {}
  BY <1>1, <1>3, <1>8, ApartTail
<1> HIDE DEF rest
<1>10. include' \in Seq(Dir) /\ ToSet(include') = Includes(d) \cup ToSet(rest)
  BY <1>2, <1>4, <1>6, <1>7, ConcatElements
<1>11. /\ objs' \in Seq(Dir)
       /\ ToSet(objs') = ToSet(objs) \cup (IF HasSources(d) THEN {d} ELSE {})
       /\ IsInjective(objs')
  <2>1. CASE ~HasSources(d)
    BY <1>1, <1>3, <1>8, <2>1
  <2>2. CASE HasSources(d)
    <3>1. d \notin ToSet(objs)
      BY <1>4, <1>8, BelowItself
    <3>2. /\ objs' \in Seq(Dir) /\ Len(objs) \in Nat
          /\ DOMAIN objs = 1..Len(objs) /\ DOMAIN objs' = 1..(Len(objs) + 1)
          /\ \A i \in 1..Len(objs) : objs'[i] = objs[i]
          /\ objs'[Len(objs) + 1] = d
      BY <1>1, <1>3, <2>2, PushFacts
    <3>3. \A i \in 1..(Len(objs) + 1) : i \in 1..Len(objs) \/ i = Len(objs) + 1
      BY <3>2
    <3>4. ToSet(objs') = ToSet(objs) \cup {d}
      <4>1. ToSet(objs') \subseteq ToSet(objs) \cup {d}
        BY <3>2, <3>3 DEF ToSet
      <4>2. ToSet(objs) \subseteq ToSet(objs') /\ d \in ToSet(objs')
        BY <3>2 DEF ToSet
      <4> QED BY <4>1, <4>2
    <3>5. IsInjective(objs')
      BY <1>8, <3>1, <3>2, <3>3 DEF IsInjective, ToSet
    <3> QED BY <2>2, <3>2, <3>4, <3>5
  <2> QED BY <2>1, <2>2
<1>12. MakeTypeOK'
  BY <1>1, <1>10, <1>11 DEF MakeTypeOK
<1>13. \A x : Reached(x)' = Reached(x)
  BY <1>1, ReachedStays DEF TreeStays
<1>14. Apart(include')
  <2>1. Apart(s)
    <3>1. \A i, j \in DOMAIN s : i # j => s[i] # s[j] /\ s[i] \in Children(d) /\ s[j] \in Children(d)
      BY <1>5, <1>6 DEF IsInjective
    <3> QED BY <3>1, ChildrenApart DEF Apart
  <2>2. \A x \in ToSet(s), y \in ToSet(rest) : Below(x) \cap Below(y) = {}
    <3>1. \A x \in ToSet(s) : x \in Below(d) /\ Below(x) \subseteq Below(d)
      BY <1>5, <1>6, BelowTransitive
    <3> QED BY <1>9, <3>1
  <2> QED BY <1>2, <1>4, <1>7, <1>9, <2>1, <2>2, ApartConcat
<1>15. ToSet(objs') \cup UNION {Reached(x) : x \in ToSet(include')} = Reached(mdir)
  <2>1. Reached(d) = (IF HasSources(d) THEN {d} ELSE {})
                       \cup UNION {Reached(c) : c \in Includes(d)}
    <3>1. \A c \in Includes(d) : d \notin Reached(c)
      BY <1>5, NotBelowChild, ReachedBelow
    <3> QED BY <1>1, <3>1, ReachedThrough
  <2> DEFINE All(S) == UNION {Reached(x) : x \in S}
  <2>2. \A A, B : All(A \cup B) = All(A) \cup All(B)
    OBVIOUS
  <2>3. All({d}) = Reached(d)
    OBVIOUS
  <2>4. ToSet(objs) \cup All(ToSet(include)) = Reached(mdir)
    BY <1>8
  <2>5. Reached(d) = (IF HasSources(d) THEN {d} ELSE {}) \cup All(Includes(d))
    BY <2>1
  <2> HIDE DEF All
  <2>6. /\ All(ToSet(include)) = Reached(d) \cup All(ToSet(rest))
        /\ All(ToSet(include')) = All(Includes(d)) \cup All(ToSet(rest))
    BY <1>4, <1>10, <2>2, <2>3
  <2>7. ToSet(objs') \cup All(ToSet(include')) = Reached(mdir)
    BY <1>11, <2>4, <2>5, <2>6
  <2> QED BY <2>7 DEF All
<1>16. \A x \in ToSet(include') : ToSet(objs') \cap Below(x) = {}
  <2>1. ASSUME NEW x \in Includes(d) PROVE ToSet(objs') \cap Below(x) = {}
    <3>1. x \in Children(d) /\ Below(x) \subseteq Below(d)
      BY <1>5, BelowTransitive
    <3>2. d \notin Below(x)
      BY <3>1, NotBelowChild
    <3> QED BY <1>4, <1>8, <1>11, <3>1, <3>2
  <2>2. ASSUME NEW x \in ToSet(rest) PROVE ToSet(objs') \cap Below(x) = {}
    <3>1. d \notin Below(x)
      BY <1>9, BelowItself
    <3> QED BY <1>4, <1>8, <1>11, <3>1
  <2> QED BY <1>10, <2>1, <2>2
<1>17. Collecting'
  <2>1. Reached(mdir)' = Reached(mdir)
    BY <1>1 DEF Reached, HasText, HasSources
  <2> QED BY <1>1, <1>8, <1>11, <1>13, <1>14, <1>15, <1>16, <2>1 DEF Collecting
<1>18. Building'
  BY <1>1 DEF MakeInv, Building
<1> QED BY <1>12, <1>17, <1>18 DEF MakeInv

\* An empty rules.mk, or none, reaches nothing.
LEMMA ReadNothingKeeps ==
    ASSUME MInv, NEW d \in Dir, ReadNothing(d)
    PROVE  MInv'
<1> USE DEF MInv
<1> DEFINE rest == Tail(include)
<1>1. /\ mpc = "reading" /\ mpc' = "reading" /\ include # <<>> /\ d = Head(include)
      /\ ~HasText(d, "rules.mk") /\ include' = rest
      /\ UNCHANGED <<src, file, mdir, asksAll, tmp, objs, goal, makes, obj, dep, depBefore>>
  BY DEF ReadNothing, treeVars
<1>2. include \in Seq(Dir)
  BY DEF MakeTypeOK
<1>3. rest \in Seq(Dir) /\ ToSet(include) = {d} \cup ToSet(rest)
  BY <1>1, <1>2, HeadElements
<1>4. /\ mdir \in Dir
      /\ ToSet(objs) \cup UNION {Reached(x) : x \in ToSet(include)} = Reached(mdir)
      /\ IsInjective(objs) /\ Apart(include)
      /\ \A x \in ToSet(include) : ToSet(objs) \cap Below(x) = {}
  BY <1>1 DEF MakeInv, Collecting
<1>5. Apart(rest)
  BY <1>1, <1>2, <1>4, ApartTail
<1> HIDE DEF rest
<1>6. MakeTypeOK'
  BY <1>1, <1>3 DEF MakeTypeOK
<1>7. ToSet(objs) \cup UNION {Reached(x) : x \in ToSet(rest)} = Reached(mdir)
  <2>1. Reached(d) = {}
    BY <1>1 DEF Reached
  <2>2. UNION {Reached(x) : x \in ToSet(include)} = UNION {Reached(x) : x \in ToSet(rest)}
    BY <1>3, <2>1
  <2> QED BY <1>4, <2>2
<1>8. Collecting'
  <2>1. Reached(mdir)' = Reached(mdir) /\ \A x : Reached(x)' = Reached(x)
    BY <1>1 DEF Reached, HasText, HasSources
  <2> QED BY <1>1, <1>3, <1>4, <1>5, <1>7, <2>1 DEF Collecting
<1>9. Building'
  BY <1>1 DEF MakeInv, Building
<1> QED BY <1>6, <1>8, <1>9 DEF MakeInv

\* The lists stay as they are once all is read.
LEMMA CollectingStays ==
    ASSUME Collecting, mpc # "idle", mpc' # "idle",
           UNCHANGED <<src, file, mdir, include, objs>>
    PROVE  Collecting'
<1>1. Reached(mdir)' = Reached(mdir) /\ \A x : Reached(x)' = Reached(x)
  BY DEF Reached, HasText, HasSources
<1> QED BY <1>1 DEF Collecting

\* Make settles its goal.
LEMMA ReadDepsKeeps == ASSUME MInv, ReadDeps PROVE MInv'
<1> USE DEF MInv
<1>1. /\ mpc = "reading" /\ mpc' = "building" /\ include = <<>>
      /\ IF asksAll \/ Deps = {} THEN goal' = objs
         ELSE \E d \in Dir : FirstOfDeps(d) /\ goal' = <<d>>
      /\ UNCHANGED <<src, file, mdir, asksAll, include, tmp, objs, makes, obj, dep,
                     depBefore>>
  BY DEF ReadDeps, treeVars
<1>2. MakeTypeOK'
  <2>1. objs \in Seq(Dir)
    BY DEF MakeTypeOK
  <2>2. goal' \in Seq(Dir)
    <3>1. goal' = objs \/ \E d \in Dir : goal' = <<d>>
      BY <1>1
    <3>2. \A d \in Dir : <<d>> \in Seq(Dir)
      OBVIOUS
    <3> QED BY <2>1, <3>1, <3>2
  <2> QED BY <1>1, <2>2 DEF MakeTypeOK
<1>3. Collecting'
  BY <1>1, CollectingStays DEF MakeInv
<1>4. Building'
  <2>1. ToSet(objs) \subseteq Reached(mdir) /\ dep = depBefore
    BY <1>1 DEF MakeInv, Collecting, Building
  <2>2. Reached(mdir)' = Reached(mdir)
    BY <1>1 DEF Reached, HasText, HasSources
  <2>3. ASSUME asksAll \/ Reached(mdir) \cap depBefore = {}
        PROVE  goal' = objs
    BY <1>1, <2>1, <2>3 DEF Deps
  <2>4. (asksAll \/ Reached(mdir) \cap depBefore = {})' =>
           \A d \in ToSet(objs') : d \in ToSet(goal')
    BY <1>1, <2>2, <2>3
  <2> QED BY <1>1, <2>4 DEF Building
<1> QED BY <1>2, <1>3, <1>4 DEF MakeInv

\* The next goal is made, or is made already.
LEMMA GoalKeeps ==
    ASSUME MInv, TreeTypeOK, NEW d \in Dir, Compile(d) \/ NothingToDo(d)
    PROVE  MInv'
<1> USE DEF MInv
<1> DEFINE rest == Tail(goal)
<1>1. /\ mpc = "building" /\ mpc' = "building" /\ goal # <<>> /\ d = Head(goal)
      /\ goal' = rest
      /\ UNCHANGED <<src, file, names, mdir, asksAll, include, tmp, objs, makes, depBefore>>
  BY DEF Compile, NothingToDo, treeVars
<1>2. goal \in Seq(Dir) /\ obj \in [Dir -> Object]
  BY DEF MakeTypeOK
<1>3. rest \in Seq(Dir) /\ ToSet(goal) = {d} \cup ToSet(rest)
  BY <1>1, <1>2, HeadElements
<1> HIDE DEF rest
<1>4. /\ obj' \in [Dir -> Object] /\ dep' \in SUBSET Dir
      /\ UpToDate(d)' /\ \A x \in Dir : UpToDate(x) => UpToDate(x)'
  <2>1. CASE Compile(d)
    <3>1. /\ obj' = [obj EXCEPT ![d] = [version |-> src[d], flags |-> FlagsOf(tmp)]]
          /\ dep' \in {dep, dep \cup {d}}
      BY <2>1 DEF Compile
    <3>2. [version |-> src[d], flags |-> FlagsOf(tmp)] \in Object
      BY DEF TreeTypeOK, MakeTypeOK, Object, FlagsOf
    <3>3. obj' \in [Dir -> Object] /\ dep' \in SUBSET Dir
      BY <1>2, <3>1, <3>2 DEF MakeTypeOK
    <3>4. UpToDate(d)' /\ \A x \in Dir : UpToDate(x) => UpToDate(x)'
      BY <1>1, <1>2, <3>1 DEF UpToDate
    <3> QED BY <3>3, <3>4
  <2>2. CASE NothingToDo(d)
    BY <1>1, <2>2 DEF NothingToDo, UpToDate, MakeTypeOK
  <2> QED BY <2>1, <2>2
<1>5. MakeTypeOK'
  BY <1>1, <1>3, <1>4 DEF MakeTypeOK
<1>6. Collecting'
  BY <1>1, CollectingStays DEF MakeInv
<1>7. Building'
  <2>1. ToSet(objs) \subseteq Dir
    BY DEF MakeTypeOK, ToSet
  <2>2. Reached(mdir)' = Reached(mdir)
    BY <1>1 DEF Reached, HasText, HasSources
  <2>3. /\ include = <<>>
        /\ asksAll \/ Reached(mdir) \cap depBefore = {} =>
              \A x \in ToSet(objs) : UpToDate(x) \/ x \in ToSet(goal)
    BY <1>1 DEF MakeInv, Building
  <2>4. \A x \in ToSet(objs) :
          UpToDate(x) \/ x \in ToSet(goal) => UpToDate(x)' \/ x \in ToSet(rest)
    BY <1>3, <1>4, <2>1
  <2>5. (asksAll \/ Reached(mdir) \cap depBefore = {})' =>
           \A x \in ToSet(objs) : UpToDate(x)' \/ x \in ToSet(rest)
    BY <1>1, <2>2, <2>3, <2>4
  <2> QED BY <1>1, <2>3, <2>5 DEF Building
<1> QED BY <1>5, <1>6, <1>7 DEF MakeInv

\* Nothing is claimed of a make that is over.
LEMMA StopKeeps == ASSUME MInv, Stop PROVE MInv'
<1>1. MakeTypeOK'
  <2>1. asksAll' \in BOOLEAN
    BY Zenon DEF Stop
  <2>2. /\ mpc' = "idle" /\ mdir' = NoDir /\ tmp' = NoDir /\ depBefore' = {}
        /\ include' = <<>> /\ objs' = <<>> /\ goal' = <<>>
        /\ UNCHANGED <<makes, obj, dep>>
    BY Zenon DEF Stop
  <2> QED BY <2>1, <2>2 DEF MInv, MakeTypeOK
<1>2. MakeInv'
  BY DEF MakeInv, Collecting, Building, Stop
<1> QED BY <1>1, <1>2 DEF MInv

LEMMA MakeKeeps ==
    ASSUME MInv, TreeTypeOK, MakeRuns \/ MakeFails PROVE MInv'
<1>1. CASE \E d \in Dir : ReadRules(d)
  BY <1>1, ReadRulesKeeps
<1>2. CASE \E d \in Dir : ReadNothing(d)
  BY <1>2, ReadNothingKeeps
<1>3. CASE \E d \in Dir : Compile(d) \/ NothingToDo(d)
  BY <1>3, GoalKeeps
<1>4. CASE ReadDeps
  BY <1>4, ReadDepsKeeps
<1>5. CASE Stop
  BY <1>5, StopKeeps
<1> QED BY <1>1, <1>2, <1>3, <1>4, <1>5 DEF MakeRuns, MakeFails, MakeDone

LEMMA MakeIdleKeeps ==
    ASSUME MInv, mpc = "idle", UNCHANGED makeVars PROVE MInv'
BY DEF MInv, MakeInv, MakeTypeOK, Collecting, Building, makeVars

LEMMA MakeUnchangedKeeps ==
    ASSUME MInv, UNCHANGED <<treeVars, makeVars>> PROVE MInv'
<1>1. UNCHANGED <<src, file, mpc, mdir, asksAll, include, tmp, objs, goal, makes, obj, dep,
                  depBefore>>
  BY DEF treeVars, makeVars
<1>2. Reached(mdir)' = Reached(mdir) /\ \A x : Reached(x)' = Reached(x)
  BY <1>1 DEF Reached, HasText, HasSources
<1>3. \A x : UpToDate(x)' <=> UpToDate(x)
  BY <1>1 DEF UpToDate
<1> QED BY <1>1, <1>2, <1>3 DEF MInv, MakeInv, MakeTypeOK, Collecting, Building

-----------------------------------------------------------------------------
(* The project.                                                            *)

ProjectInv == IInv /\ MInv /\ OneAtATime

-----------------------------------------------------------------------------
(* The invariant is inductive.                                             *)

LEMMA InitInv == Init => ProjectInv
<1> SUFFICES ASSUME Init PROVE ProjectInv
  OBVIOUS
<1>1. PICK t \in Tree :
        src = t.src /\ file = t.file /\ names = t.names /\ MakeInit(t.built)
  BY DEF Init
<1>2. TreeTypeOK
  BY <1>1, TreeAssumption, MaxEditsAssumption DEF Init, TreeTypeOK
<1>3. ZmakeTypeOK /\ ZmakeInv
  <2>1. ZmakeTypeOK
    BY MaxInvocationsAssumption
       DEF Init, ZmakeInit, ZmakeTypeOK, ZmakePC, NoArgs, NoTree, MkFile, Content
  <2>2. ZmakeInv
    BY IdleInv DEF Init, ZmakeInit
  <2> QED BY <2>1, <2>2
<1>4. MakeTypeOK
  <2>1. /\ mpc = "idle" /\ mdir = NoDir /\ include = <<>> /\ tmp = NoDir
        /\ objs = <<>> /\ goal = <<>> /\ makes = 0 /\ depBefore = {}
    BY <1>1 DEF MakeInit
  <2>2. asksAll \in BOOLEAN
    BY <1>1, Zenon DEF MakeInit
  <2>3. /\ obj = [d \in Dir |-> [version |-> IF t.built THEN src[d] ELSE 0, flags |-> NoDir]]
        /\ dep = IF t.built THEN {d \in Dir : HasSources(d)} ELSE {}
    BY <1>1 DEF MakeInit
  <2>4. dep \in SUBSET Dir
    BY <2>3
  <2>5. obj \in [Dir -> Object]
    <3>1. \A d \in Dir : (IF t.built THEN src[d] ELSE 0) \in Nat
      BY <1>2 DEF TreeTypeOK
    <3> QED BY <2>3, <3>1 DEF Object
  <2> QED BY <2>1, <2>2, <2>4, <2>5, MaxMakesAssumption DEF MakeTypeOK
<1>5. MakeInv /\ OneAtATime
  BY <1>1 DEF MakeInit, MakeInv, Collecting, Building, OneAtATime
<1> QED BY <1>2, <1>3, <1>4, <1>5 DEF ProjectInv, IInv, MInv

\* Zmake works only while make does not, and the other way round.
LEMMA ZmakeAtWork == ASSUME ZmakeRuns \/ Interrupt PROVE zpc # "idle"
BY DEF ZmakeRuns, Interrupt, GenBranchNoSources, GenBranch, DeleteRules, WalkTo,
       DeleteRoot, WalkDone, Overwrite, Skip, Ask, AnswerYes, AnswerNo, AnswerQuit, Close

LEMMA MakeAtWork ==
    ASSUME MakeRuns \/ MakeFails PROVE mpc # "idle" /\ UNCHANGED treeVars
<1>1. mpc # "idle"
  BY DEF MakeRuns, MakeFails, ReadRules, ReadNothing, Compile, NothingToDo, ReadDeps,
         MakeDone
<1>2. UNCHANGED treeVars
  BY DEF MakeRuns, MakeFails, ReadRules, ReadNothing, Compile, NothingToDo, ReadDeps,
         MakeDone, Stop
<1> QED BY <1>1, <1>2

LEMMA NextInv == ProjectInv /\ [Next]_vars => ProjectInv'
<1> SUFFICES ASSUME ProjectInv, [Next]_vars PROVE ProjectInv'
  OBVIOUS
<1> USE DEF ProjectInv
<1>1. CASE (ZmakeRuns \/ Interrupt) /\ UNCHANGED makeVars
  <2>1. mpc = "idle" /\ mpc' = "idle"
    BY <1>1, ZmakeAtWork DEF OneAtATime, makeVars
  <2>2. IInv' /\ MInv'
    BY <1>1, <2>1, InvocationKeeps, MakeIdleKeeps
  <2> QED BY <2>1, <2>2 DEF OneAtATime
<1>2. CASE (MakeRuns \/ MakeFails) /\ UNCHANGED zmakeVars
  <2>1. zpc = "idle" /\ zpc' = "idle" /\ UNCHANGED treeVars
    BY <1>2, MakeAtWork DEF OneAtATime, zmakeVars
  <2>2. IInv' /\ MInv'
    BY <1>2, <2>1, UnchangedKeeps, MakeKeeps DEF IInv
  <2> QED BY <2>1, <2>2 DEF OneAtATime
<1>3. CASE Idle /\ Invoke /\ UNCHANGED makeVars
  <2>1. mpc = "idle" /\ mpc' = "idle"
    BY <1>3 DEF Idle, makeVars
  <2>2. IInv' /\ MInv'
    BY <1>3, <2>1, BeginKeeps, MakeIdleKeeps
  <2> QED BY <2>1, <2>2 DEF OneAtATime
<1>4. CASE /\ Idle /\ UNCHANGED zmakeVars
           /\ \E d \in MakeDir, all \in BOOLEAN : StartMake(d, all)
  <2>1. zpc = "idle" /\ zpc' = "idle" /\ UNCHANGED treeVars
    BY <1>4 DEF Idle, zmakeVars, StartMake
  <2>2. IInv' /\ MInv'
    BY <1>4, <2>1, UnchangedKeeps, StartKeeps
  <2> QED BY <2>1, <2>2 DEF OneAtATime
<1>5. CASE Idle /\ UserEdits /\ UNCHANGED <<zmakeVars, makeVars>>
  <2>1. zpc = "idle" /\ zpc' = "idle" /\ mpc = "idle"
    BY <1>5 DEF Idle, zmakeVars
  <2>2. IInv' /\ MInv'
    BY <1>5, <2>1, UserEditsKeeps, MakeIdleKeeps
  <2> QED BY <2>1, <2>2 DEF OneAtATime
<1>6. CASE UNCHANGED vars
  <2>1. UNCHANGED <<treeVars, zmakeVars, makeVars>>
    BY <1>6 DEF vars
  <2>2. IInv' /\ MInv'
    BY <2>1, UnchangedKeeps, MakeUnchangedKeeps
  <2> QED BY <2>1, <2>2 DEF OneAtATime, zmakeVars, makeVars
<1> QED BY <1>1, <1>2, <1>3, <1>4, <1>5, <1>6
        DEF Next, CommandRuns, Interrupted, UserTypes, Finished

LEMMA Invariance == Spec => []ProjectInv
BY InitInv, NextInv, PTL DEF Spec

-----------------------------------------------------------------------------
(* Theorems.                                                               *)

\* The variables of the tree, of zmake and of make have their types.
THEOREM ProjectTyping == Spec => []TypeOK
<1>1. ProjectInv => TypeOK
  BY DEF ProjectInv, IInv, MInv, TypeOK
<1> QED BY <1>1, Invariance, PTL

\* No file that was there is touched without -f or a yes to this very file, and
\* zmake -D touches no Makefile: strfile2(), the dialogue and delete_all().
THEOREM ExistingIsKept == Spec => []KeepsExisting
<1>1. ProjectInv => KeepsExisting
  BY DEF ProjectInv, IInv, ZmakeInv
<1> QED BY <1>1, Invariance, PTL

\* Whenever an invocation is cut short, strfile() leaves at most the file it is
\* about empty.
THEOREM OnlyTargetIsTorn == Spec => []AtMostOneTorn
<1>1. ProjectInv => AtMostOneTorn
  BY DEF ProjectInv, IInv, ZmakeInv, WrittenIsWhole, AtMostOneTorn
<1> QED BY <1>1, Invariance, PTL

\* The walk of zmake -b -R gives every directory with sources its rules.mk, and
\* changes nothing else.
THEOREM WalkServesAll == Spec => []WalkIsComplete
<1>1. ProjectInv => WalkIsComplete
  <2> SUFFICES ASSUME ProjectInv, zpc = "walk", args.op = "recursive", todo = <<>>
               PROVE  WalkIsComplete
    BY DEF WalkIsComplete
  <2>1. \A d : ~Pending(d) /\ ~AtTarget(d)
    BY DEF Pending, AtTarget, ToSet
  <2>2. /\ \A f \in Written : /\ f[1] \in Below(found)
                              /\ HasSources(f[1]) /\ f[2] = "rules.mk"
        /\ \A d \in Below(found) : HasSources(d) => Served(d)
    BY <2>1 DEF ProjectInv, IInv, ZmakeInv, Walking
  <2> QED BY <2>2 DEF WalkIsComplete, Served
<1> QED BY <1>1, Invariance, PTL

\* delete_all() leaves no root.mk and no rules.mk below its directory, and
\* deletes nothing else.
THEOREM AllBelowIsDeleted == Spec => []DeletesAllBelow
<1>1. ProjectInv => DeletesAllBelow
  <2> SUFFICES ASSUME ProjectInv, zpc = "walk", args.op = "delete", todo = <<>>
               PROVE  DeletesAllBelow
    BY DEF DeletesAllBelow
  <2>1. \A d : ~Pending(d) /\ ~AtTarget(d)
    BY DEF Pending, AtTarget, ToSet
  <2>2. /\ \A f \in Written : f[1] \in Below(args.dir) /\ f[2] # "Makefile"
        /\ \A d \in Below(args.dir) : Deleted(d)
    BY <2>1 DEF ProjectInv, IInv, ZmakeInv, Deleting
  <2> QED BY <2>2 DEF DeletesAllBelow, Deleted
<1> QED BY <1>1, Invariance, PTL

\* After zmake -b -R -f a make at the root reaches every directory with sources
\* that no directory without cuts off, whatever was interrupted before.
THEOREM ForcedWalkRepairs == Spec => []ForcedWalkIsReached
<1>1. ProjectInv => ForcedWalkIsReached
  <2> SUFFICES ASSUME ProjectInv, zpc = "walk", args.op = "recursive",
                      args.mode = "force", todo = <<>>,
                      NEW d \in Below(found),
                      \A x \in Below(found) \cap Up(d) : HasSources(x)
               PROVE  d \in Reached(found)
    BY DEF ForcedWalkIsReached
  <2>1. \A x : ~Pending(x) /\ ~AtTarget(x)
    BY DEF Pending, AtTarget, ToSet
  <2>2. \A x \in Below(found) : HasSources(x) => HasText(x, "rules.mk")
    BY <2>1 DEF ProjectInv, IInv, ZmakeInv, Walking, Served, HasText
  <2>3. found \in Dir /\ d \in Dir
    BY DEF ProjectInv, IInv, ZmakeTypeOK, Below
  <2>4. found \in Below(found) \cap Up(d) /\ d \in Below(found) \cap Up(d)
    BY <2>3, BelowItself, UpIsAbove
  <2> QED BY <2>2, <2>4 DEF Reached
<1> QED BY <1>1, Invariance, PTL

\* The recursive inclusion of the rules.mk files collects the objects of the
\* directories make reaches, each once.
THEOREM CollectsTheReached == Spec => []ObjectsAreReached
<1>1. ProjectInv => ObjectsAreReached
  <2> SUFFICES ASSUME ProjectInv, mpc = "building" PROVE ObjectsAreReached
    BY DEF ObjectsAreReached
  <2>1. include = <<>> /\ objs \in Seq(Dir) /\ IsInjective(objs)
    BY DEF ProjectInv, MInv, MakeTypeOK, MakeInv, Collecting, Building
  <2>2. ToSet(include) = {}
    BY <2>1 DEF ToSet
  <2>3. ToSet(objs) = Reached(mdir)
    BY <2>2 DEF ProjectInv, MInv, MakeInv, Collecting
  <2> QED BY <2>1, <2>3, InjectiveLength DEF ObjectsAreReached
<1> QED BY <1>1, Invariance, PTL

\* One make brings all it reaches up to date, if it was asked for "all" or
\* found no .d file: the order of -include $(DEP) and "all" in the Makefile.
THEOREM OnePassSuffices == Spec => []AllIsUpToDate
<1>1. ProjectInv => AllIsUpToDate
  <2> SUFFICES ASSUME ProjectInv, mpc = "building", goal = <<>> PROVE AllIsUpToDate
    BY DEF AllIsUpToDate
  <2>1. include = <<>>
    BY DEF ProjectInv, MInv, MakeInv, Building
  <2>2. ToSet(include) = {} /\ ToSet(goal) = {}
    BY <2>1 DEF ToSet
  <2>3. ToSet(objs) = Reached(mdir)
    BY <2>2 DEF ProjectInv, MInv, MakeInv, Collecting
  <2> QED BY <2>2, <2>3 DEF ProjectInv, MInv, MakeInv, Building, AllIsUpToDate
<1> QED BY <1>1, Invariance, PTL
=============================================================================
