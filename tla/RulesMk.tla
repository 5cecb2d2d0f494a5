------------------------------- MODULE RulesMk -------------------------------
(***************************************************************************)
(* The makefiles bin/zmake generates, at work: make reads the Makefile of  *)
(* a directory, which includes root.mk, the rules.mk of the directory and  *)
(* through it those below, and the .d files of earlier builds; then it     *)
(* compiles what is outdated.  TMP is one variable that each rules.mk      *)
(* sets: targets and lists of files are expanded while it is read, recipes *)
(* when they run.  The sources of a directory stand for one object; the    *)
(* hand-written gtest/rules.mk is left out.                                *)
(***************************************************************************)
EXTENDS SourceTree

CONSTANTS
    MakeDir,     \* the directories make is called in
    MaxMakes     \* how often it is called, at most

ASSUME MakeDirAssumption  == MakeDir \subseteq Dir
ASSUME MaxMakesAssumption == MaxMakes \in Nat

VARIABLES
    mpc,       \* where make is
    mdir,      \* D, the directory it was called in
    asksAll    \* whether it was called as "make all", or just "make",

VARIABLES
    include,   \* the rules.mk files it is about to include, by directory
    tmp,       \* TMP
    objs,      \* OBJ and, file by file, DEP
    goal,      \* the objects it is going to make, in order
    makes,     \* how often it was called (bounds the model)
    obj,       \* the object of a directory: [version, flags] it was made from
    dep,       \* the directories that have a .d file
    depBefore  \* those that had one when make was called (history)

makeVars == <<mpc, mdir, asksAll, include, tmp, objs, goal, makes, obj, dep,
              depBefore>>

\* Flags are told apart by the directory whose rules.mk sets them: NoDir for
\* those of root.mk, which an unedited rules.mk takes over.
Object == [version : Nat, flags : Dir \cup {NoDir}]

MakeTypeOK ==
    /\ mpc \in {"idle", "reading", "building"}
    /\ mdir \in Dir \cup {NoDir}
    /\ asksAll \in BOOLEAN
    /\ include \in Seq(Dir)
    /\ tmp \in Dir \cup {NoDir}
    /\ objs \in Seq(Dir)
    /\ goal \in Seq(Dir)
    /\ makes \in 0..MaxMakes
    /\ obj \in [Dir -> Object]
    /\ dep \in SUBSET Dir
    /\ depBefore \in SUBSET Dir

\* `built` says whether an earlier "make all" has compiled everything.
MakeInit(built) ==
    /\ mpc = "idle"
    /\ mdir = NoDir
    /\ asksAll = FALSE
    /\ include = <<>>
    /\ tmp = NoDir
    /\ objs = <<>>
    /\ goal = <<>>
    /\ makes = 0
    /\ obj = [d \in Dir |-> [version |-> IF built THEN src[d] ELSE 0, flags |-> NoDir]]
    /\ dep = IF built THEN {d \in Dir : HasSources(d)} ELSE {}
    /\ depBefore = {}

FlagsOf(d) == IF d # NoDir /\ file[d]["rules.mk"] = "edited" THEN d ELSE NoDir

UpToDate(d) == obj[d].version = src[d]

-----------------------------------------------------------------------------
\* Make is called where there is a Makefile with rules in it.
StartMake(d, all) ==
    /\ mpc = "idle"
    /\ makes < MaxMakes
    /\ HasText(d, "Makefile")
    /\ makes' = makes + 1
    /\ mdir' = d
    /\ asksAll' = all
    /\ include' = <<d>>
    /\ tmp' = NoDir
    /\ objs' = <<>>
    /\ goal' = <<>>
    /\ depBefore' = dep
    /\ mpc' = "reading"
    /\ UNCHANGED <<treeVars, obj, dep>>

Includes(d) == {e \in Children(d) : IsFile(e, "rules.mk")}

\* Mutant: the recursive inclusion stops at directories without sources.
ReadRulesOfSources(d) ==
    /\ mpc = "reading"
    /\ include # <<>> /\ d = Head(include)
    /\ HasText(d, "rules.mk")
    /\ tmp' = d
    /\ IF HasSources(d)
       THEN /\ objs' = Append(objs, d)
            /\ \E listing \in Listings(Includes(d)) : include' = listing \o Tail(include)
       ELSE objs' = objs /\ include' = Tail(include)
    /\ UNCHANGED <<treeVars, mpc, mdir, asksAll, goal, makes, obj, dep, depBefore>>

\* One rules.mk: it sets TMP, appends the files of its directory to OBJ and
\* DEP and includes the rules.mk files of the subdirectories, each of which is
\* read to its end before the next.
ReadRules(d) ==
    /\ mpc = "reading"
    /\ include # <<>> /\ d = Head(include)
    /\ HasText(d, "rules.mk")
    /\ tmp' = d
    /\ objs' = IF HasSources(d) THEN Append(objs, d) ELSE objs
    /\ \E listing \in Listings(Includes(d)) : include' = listing \o Tail(include)
    /\ UNCHANGED <<treeVars, mpc, mdir, asksAll, goal, makes, obj, dep, depBefore>>

\* -include of no file or of an empty one.
ReadNothing(d) ==
    /\ mpc = "reading"
    /\ include # <<>> /\ d = Head(include)
    /\ ~HasText(d, "rules.mk")
    /\ include' = Tail(include)
    /\ UNCHANGED <<treeVars, mpc, mdir, asksAll, tmp, objs, goal, makes, obj, dep,
                   depBefore>>

Deps == ToSet(objs) \cap dep

FirstOfDeps(d) ==
    \E i \in DOMAIN objs :
        d = objs[i] /\ d \in dep /\ \A j \in 1..(i - 1) : objs[j] \notin dep

\* Mutant: the .d files are read first whatever make was asked for.
ReadDepsIgnoresAll ==
    /\ mpc = "reading"
    /\ include = <<>>
    /\ IF Deps = {} THEN goal' = objs
       ELSE \E d \in Dir : FirstOfDeps(d) /\ goal' = <<d>>
    /\ mpc' = "building"
    /\ UNCHANGED <<treeVars, mdir, asksAll, include, tmp, objs, makes, obj, dep,
                   depBefore>>

\* -include $(DEP) comes before the rule of "all": if any .d file exists, its
\* target, an object, is the first target of the Makefile, which is what make
\* makes when it is called without one.
ReadDeps ==
    /\ mpc = "reading"
    /\ include = <<>>
    /\ IF asksAll \/ Deps = {} THEN goal' = objs
       ELSE \E d \in Dir : FirstOfDeps(d) /\ goal' = <<d>>
    /\ mpc' = "building"
    /\ UNCHANGED <<treeVars, mdir, asksAll, include, tmp, objs, makes, obj, dep,
                   depBefore>>

-----------------------------------------------------------------------------
\* The recipe of a pattern rule.  Its $(TMP) is the one of the rules.mk read
\* last, so the flags are those of that directory; DEPFLAGS, which asks for
\* the .d file, comes from root.mk.
Compile(d) ==
    /\ mpc = "building"
    /\ goal # <<>> /\ d = Head(goal)
    /\ ~UpToDate(d)
    /\ obj' = [obj EXCEPT ![d] = [version |-> src[d], flags |-> FlagsOf(tmp)]]
    /\ dep' = IF HasText(names[mdir], "root.mk") THEN dep \cup {d} ELSE dep
    /\ goal' = Tail(goal)
    /\ UNCHANGED <<treeVars, mpc, mdir, asksAll, include, tmp, objs, makes, depBefore>>

NothingToDo(d) ==
    /\ mpc = "building"
    /\ goal # <<>> /\ d = Head(goal)
    /\ UpToDate(d)
    /\ goal' = Tail(goal)
    /\ UNCHANGED <<treeVars, mpc, mdir, asksAll, include, tmp, objs, makes, obj, dep,
                   depBefore>>

Stop ==
    /\ mpc' = "idle"
    /\ mdir' = NoDir
    /\ asksAll' = FALSE
    /\ include' = <<>>
    /\ tmp' = NoDir
    /\ objs' = <<>>
    /\ goal' = <<>>
    /\ depBefore' = {}
    /\ UNCHANGED <<treeVars, makes, obj, dep>>

\* The compiler finds an error, or make is interrupted.
MakeFails == mpc = "building" /\ goal # <<>> /\ Stop

MakeDone == mpc = "building" /\ goal = <<>> /\ Stop

MakeRuns ==
    \/ \E d \in Dir : ReadRules(d) \/ ReadNothing(d) \/ Compile(d) \/ NothingToDo(d)
    \/ ReadDeps \/ MakeDone

-----------------------------------------------------------------------------
(* Correctness.                                                            *)

\* The directories with sources that make sees from d: each has a rules.mk
\* with text in it, and so has every directory on the way to it.
Reached(d) ==
    IF HasText(d, "rules.mk")
    THEN {e \in Below(d) : /\ HasSources(e)
                           /\ \A x \in Below(d) \cap Up(e) : HasText(x, "rules.mk")}
    ELSE {}

\* The inclusion, one level at a time and each level to its end, collects the
\* objects of exactly these directories, and none twice.
ObjectsAreReached ==
    mpc = "building" =>
        /\ ToSet(objs) = Reached(mdir)
        /\ Len(objs) = Cardinality(Reached(mdir))

\* "Guaranteed one-pass and incremental build", where it holds: if make was
\* asked for "all", or no .d file existed, one pass brings every object of the
\* directories it reaches up to date.
AllIsUpToDate ==
    mpc = "building" /\ goal = <<>> =>
        \A d \in Reached(mdir) :
            asksAll \/ Reached(mdir) \cap depBefore = {} => UpToDate(d)

\* "Guaranteed one-pass and incremental build": a make that ends without an
\* error leaves nothing outdated in the directories it reaches.
MakeIsIncremental ==
    mpc = "building" /\ goal = <<>> => \A d \in Reached(mdir) : UpToDate(d)

\* "the compiling flags of this directory will not tamper with those of other
\* directories": an object is compiled with the flags of its own directory.
FlagsOfOwnDirectory ==
    [][\A d \in Dir : obj'[d] # obj[d] => obj'[d].flags = FlagsOf(d)]_obj

-----------------------------------------------------------------------------
(* What makes ObjectsAreReached and AllIsUpToDate inductive.               *)

\* No directory of the list is below another one.
Apart(list) ==
    \A i, j \in DOMAIN list : i # j => Below(list[i]) \cap Below(list[j]) = {}

\* What make has collected and what it will find in the files it is still to
\* include is what it reaches, and nothing is met twice.
Collecting ==
    mpc # "idle" =>
        /\ mdir \in Dir
        /\ ToSet(objs) \cup UNION {Reached(x) : x \in ToSet(include)} = Reached(mdir)
        /\ IsInjective(objs)
        /\ Apart(include)
        /\ \A x \in ToSet(include) : ToSet(objs) \cap Below(x) = {}

\* What is outdated is still a goal.
Building ==
    /\ mpc = "reading" => dep = depBefore
    /\ mpc = "building" =>
          /\ include = <<>>
          /\ asksAll \/ Reached(mdir) \cap depBefore = {} =>
                \A d \in ToSet(objs) : UpToDate(d) \/ d \in ToSet(goal)

MakeInv == Collecting /\ Building
=============================================================================
