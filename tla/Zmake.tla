-------------------------------- MODULE Zmake --------------------------------
(***************************************************************************)
(* bin/zmake: one invocation after the other, each of which generates or   *)
(* deletes makefiles of a source tree.  Existing files are overwritten     *)
(* (-f), skipped (-s) or asked about.  A file is truncated when it is      *)
(* opened and filled when it is closed, the text being smaller than the    *)
(* buffer; an invocation may be interrupted between any two steps.         *)
(***************************************************************************)
EXTENDS SourceTree

CONSTANTS
    Invocation,      \* the command lines: records [op, dir, mode]
    MaxInvocations   \* how many of them are run, at most

Op   == {"root", "branch", "recursive", "makefile", "delete"}
Mode == {"force", "skip", "ask"}

ASSUME InvocationAssumption ==
    Invocation \subseteq [op : Op, dir : Dir, mode : Mode]
ASSUME MaxInvocationsAssumption == MaxInvocations \in Nat

VARIABLES
    zpc,       \* where zmake is
    args,      \* its command line
    found,     \* what its find_root() returned
    todo,      \* the directories its os.walk() goes to next
    target,    \* the file it is about
    runs,      \* how many invocations there were (bounds the model)
    before,    \* the files when it began (history)
    agreed     \* the files the user let it overwrite (history)

zmakeVars  == <<zpc, args, found, todo, target, runs, before, agreed>>
invocation == <<args, found, runs, before>>

ZmakePC == {"idle", "walk", "strfile2", "asking", "writing", "delroot"}

\* What is left of an invocation when it is over.
NoArgs == [op |-> "none", dir |-> NoDir, mode |-> "none"]
NoFile == <<NoDir, "none">>
NoTree == [d \in Dir |-> [n \in MkFile |-> "absent"]]

ZmakeTypeOK ==
    /\ zpc \in ZmakePC
    /\ args \in Invocation \cup {NoArgs}
    /\ found \in Dir \cup {NoDir}
    /\ args.op \in {"branch", "recursive", "makefile"} => found \in Dir
    /\ todo \in Seq(Dir)
    /\ target \in Dir \X MkFile \cup {NoFile}
    /\ runs \in 0..MaxInvocations
    /\ before \in [Dir -> [MkFile -> Content]]
    /\ agreed \in SUBSET (Dir \X MkFile)

ZmakeInit ==
    /\ zpc = "idle"
    /\ args = NoArgs
    /\ found = NoDir
    /\ todo = <<>>
    /\ target = NoFile
    /\ runs = 0
    /\ before = NoTree
    /\ agreed = {}

-----------------------------------------------------------------------------
\* find_root(): the nearest directory from d upwards that holds a root.mk.
FindRoot(d) ==
    LET roots == {r \in Up(d) : IsFile(r, "root.mk")} IN
    IF roots = {} THEN NoDir
    ELSE CHOOSE r \in roots : \A o \in roots : Len(o) <= Len(r)

Begin(a) ==
    /\ zpc = "idle"
    /\ runs < MaxInvocations
    /\ runs' = runs + 1
    /\ args' = a
    /\ before' = file
    /\ UNCHANGED <<treeVars, agreed>>

\* zmake -r: gen_root().
GenRoot(a) ==
    /\ a.op = "root"
    /\ Begin(a)
    /\ target' = <<a.dir, "root.mk">>
    /\ zpc' = "strfile2"
    /\ UNCHANGED <<found, todo>>

\* Mutant: zmake does not notice that there is no root.
GenOneAnywhere(a, n) ==
    /\ Begin(a)
    /\ found' = FindRoot(a.dir)
    /\ target' = <<a.dir, n>>
    /\ zpc' = "strfile2"
    /\ UNCHANGED todo

\* zmake -b and -m: gen_branch_only() and gen_makefile().
GenOne(a, n) ==
    /\ Begin(a)
    /\ found' = FindRoot(a.dir)
    /\ found' # NoDir
    /\ target' = <<a.dir, n>>
    /\ zpc' = "strfile2"
    /\ UNCHANGED todo

GenBranchOnly(a) == a.op = "branch" /\ GenOne(a, "rules.mk")
GenMakefile(a)   == a.op = "makefile" /\ GenOne(a, "Makefile")

\* zmake -b -R: rwalk() starts at the root, not in the directory it was given.
RWalk(a) ==
    /\ a.op = "recursive"
    /\ Begin(a)
    /\ found' = FindRoot(a.dir)
    /\ found' # NoDir
    /\ todo' = <<found'>>
    /\ zpc' = "walk"
    /\ UNCHANGED target

\* exit(1): "root.mk not found".
RootNotFound(a) ==
    /\ a.op \in {"branch", "recursive", "makefile"}
    /\ zpc = "idle"
    /\ runs < MaxInvocations
    /\ FindRoot(a.dir) = NoDir
    /\ runs' = runs + 1
    /\ UNCHANGED <<treeVars, zpc, args, found, todo, target, before, agreed>>

\* zmake -D: delete_all().
DeleteAll(a) ==
    /\ a.op = "delete"
    /\ Begin(a)
    /\ todo' = <<a.dir>>
    /\ zpc' = "walk"
    /\ UNCHANGED <<found, target>>

\* The process ends; the files stay as they are.
Exit ==
    /\ zpc' = "idle"
    /\ args' = NoArgs
    /\ found' = NoDir
    /\ todo' = <<>>
    /\ target' = NoFile
    /\ before' = NoTree
    /\ agreed' = {}
    /\ UNCHANGED runs

-----------------------------------------------------------------------------
(* os.walk(), top down: a directory, then each of its subdirectories with  *)
(* all that is below it.                                                   *)

WalkTo(d) ==
    /\ zpc = "walk"
    /\ todo # <<>>
    /\ d = Head(todo)
    /\ \E listing \in Listings(Children(d)) : todo' = listing \o Tail(todo)
    /\ UNCHANGED <<src, names, edits, invocation, agreed>>

\* Mutant: the walk stops where there are no sources.
NoSourcesEndsWalk(d) ==
    /\ args.op = "recursive"
    /\ zpc = "walk"
    /\ todo # <<>>
    /\ d = Head(todo)
    /\ ~HasSources(d)
    /\ todo' = Tail(todo)
    /\ UNCHANGED <<treeVars, zpc, target, invocation, agreed>>

\* gen_branch() returns at once where there are no sources.
GenBranchNoSources(d) ==
    /\ args.op = "recursive"
    /\ WalkTo(d)
    /\ ~HasSources(d)
    /\ UNCHANGED <<file, zpc, target>>

GenBranch(d) ==
    /\ args.op = "recursive"
    /\ WalkTo(d)
    /\ HasSources(d)
    /\ target' = <<d, "rules.mk">>
    /\ zpc' = "strfile2"
    /\ UNCHANGED file

\* delete_all() at one directory: rules.mk ...
DeleteRules(d) ==
    /\ args.op = "delete"
    /\ WalkTo(d)
    /\ SetFile(d, "rules.mk", "absent")
    /\ target' = <<d, "root.mk">>
    /\ zpc' = "delroot"

\* Mutant: a root.mk is deleted only next to sources.
DeleteRootNextToSources ==
    /\ zpc = "delroot"
    /\ IF HasSources(target[1]) THEN SetFile(target[1], "root.mk", "absent")
       ELSE UNCHANGED file
    /\ zpc' = "walk"
    /\ UNCHANGED <<src, names, edits, invocation, todo, target, agreed>>

\* ... then root.mk.
DeleteRoot ==
    /\ zpc = "delroot"
    /\ SetFile(target[1], "root.mk", "absent")
    /\ zpc' = "walk"
    /\ UNCHANGED <<src, names, edits, invocation, todo, target, agreed>>

WalkDone ==
    /\ zpc = "walk"
    /\ todo = <<>>
    /\ Exit
    /\ UNCHANGED treeVars

-----------------------------------------------------------------------------
(* strfile2(): write the target unless the user wants to keep it.          *)

TargetExists == IsFile(target[1], target[2])

\* The invocation goes on to its next file, if any.
NextFile ==
    IF args.op = "recursive"
    THEN zpc' = "walk" /\ UNCHANGED <<invocation, todo, target, agreed>>
    ELSE Exit

\* strfile(): open(fname, 'w') truncates.
Open ==
    /\ SetFile(target[1], target[2], "empty")
    /\ zpc' = "writing"
    /\ UNCHANGED <<src, names, edits, invocation, todo, target>>

\* Mutant: -s only asks less.
OverwriteUnasked ==
    /\ zpc = "strfile2"
    /\ args.mode # "ask" \/ ~TargetExists
    /\ Open
    /\ UNCHANGED agreed

\* -f, or there is no such file.
Overwrite ==
    /\ zpc = "strfile2"
    /\ args.mode = "force" \/ ~TargetExists
    /\ Open
    /\ UNCHANGED agreed

Skip ==
    /\ zpc = "strfile2"
    /\ args.mode = "skip" /\ TargetExists
    /\ NextFile
    /\ UNCHANGED treeVars

Ask ==
    /\ zpc = "strfile2"
    /\ args.mode = "ask" /\ TargetExists
    /\ zpc' = "asking"
    /\ UNCHANGED <<treeVars, invocation, todo, target, agreed>>

AnswerYes ==
    /\ zpc = "asking"
    /\ Open
    /\ agreed' = agreed \cup {target}

\* Mutant: a no is asked again.
AnswerNoAsksAgain ==
    /\ zpc = "asking"
    /\ zpc' = "strfile2"
    /\ UNCHANGED <<treeVars, invocation, todo, target, agreed>>

AnswerNo ==
    /\ zpc = "asking"
    /\ NextFile
    /\ UNCHANGED treeVars

\* "q", and whatever is neither y nor n: an empty line too, on which the
\* index of the first letter fails.
AnswerQuit == zpc = "asking" /\ Exit /\ UNCHANGED treeVars

\* Mutant: the text of a file is never flushed.
CloseUnflushed ==
    /\ zpc = "writing"
    /\ NextFile
    /\ UNCHANGED treeVars

\* The text reaches the file.  A Makefile names the root that was found.
Close ==
    /\ zpc = "writing"
    /\ SetFile(target[1], target[2], "generated")
    /\ names' = IF target[2] = "Makefile" THEN [names EXCEPT ![target[1]] = found]
                ELSE names
    /\ NextFile
    /\ UNCHANGED <<src, edits>>

\* A signal, a full disk or the end of the machine.
Interrupt == zpc # "idle" /\ Exit /\ UNCHANGED treeVars

-----------------------------------------------------------------------------
Invoke ==
    \E a \in Invocation :
        \/ GenRoot(a) \/ GenBranchOnly(a) \/ GenMakefile(a) \/ RWalk(a)
        \/ RootNotFound(a) \/ DeleteAll(a)

\* What zmake does by itself, and the answers to its questions.
ZmakeRuns ==
    \/ \E d \in Dir : GenBranchNoSources(d) \/ GenBranch(d) \/ DeleteRules(d)
    \/ DeleteRoot \/ WalkDone
    \/ Overwrite \/ Skip \/ Ask
    \/ AnswerYes \/ AnswerNo \/ AnswerQuit
    \/ Close

-----------------------------------------------------------------------------
(* Correctness.                                                            *)

Written == {f \in Dir \X MkFile : file[f[1]][f[2]] # before[f[1]][f[2]]}

\* The user agreed to a change of f, by an option or an answer.
Permitted(f) ==
    \/ before[f[1]][f[2]] = "absent"
    \/ args.mode = "force" /\ args.op # "delete"
    \/ f \in agreed
    \/ args.op = "delete" /\ f[2] # "Makefile"

\* "skip any existing file", "force overwriting existing files" and the
\* dialogue: in the course of an invocation no file that was there is touched
\* without -f or a yes of the user to this very file.  zmake -D does not ask,
\* and leaves all Makefiles alone.
KeepsExisting == zpc # "idle" => \A f \in Written : Permitted(f)

\* Wherever an invocation is interrupted or quit, at most one file is left
\* empty that was not so before: the one it was about.  All others are as
\* they were, or complete.
AtMostOneTorn ==
    zpc # "idle" =>
        \A f \in Written : file[f[1]][f[2]] = "empty" => f = target /\ zpc = "writing"

\* zmake -b -R that is not interrupted has visited the whole tree under the
\* root: every directory with sources has its rules.mk, a fresh one if there
\* was none, or with -f; nothing else in the tree has changed.
WalkIsComplete ==
    zpc = "walk" /\ args.op = "recursive" /\ todo = <<>> =>
        LET due == {d \in Below(found) : HasSources(d)}
            fresh == {d \in due : before[d]["rules.mk"] = "absent"
                                    \/ args.mode = "force"}
        IN  /\ \A d \in due : IsFile(d, "rules.mk")
            /\ \A d \in fresh : file[d]["rules.mk"] = "generated"
            /\ \A f \in Written : f[1] \in due /\ f[2] = "rules.mk"

\* zmake -D that is not interrupted leaves no root.mk and no rules.mk below
\* its directory, and everything else as it was.
DeletesAllBelow ==
    zpc = "walk" /\ args.op = "delete" /\ todo = <<>> =>
        /\ \A d \in Below(args.dir) : ~IsFile(d, "rules.mk") /\ ~IsFile(d, "root.mk")
        /\ \A f \in Written : f[1] \in Below(args.dir) /\ f[2] # "Makefile"

-----------------------------------------------------------------------------
(* What makes the properties above inductive.                              *)

\* What each place of an invocation knows of its command line and its target.
Places ==
    /\ zpc # "idle" => args \in Invocation
    /\ zpc = "walk" => args.op \in {"recursive", "delete"}
    /\ zpc \in {"strfile2", "asking", "writing"} =>
          target \in Dir \X MkFile /\ args.op # "delete"
    /\ zpc = "asking" => args.mode = "ask" /\ TargetExists
    /\ zpc = "delroot" => /\ args.op = "delete"
                          /\ target \in Dir \X MkFile /\ target[2] = "root.mk"

\* What zmake has written it has written to the end, but for its target.
WrittenIsWhole ==
    zpc # "idle" =>
        \A f \in Written :
            \/ f = target /\ zpc = "writing"
            \/ file[f[1]][f[2]] = IF args.op = "delete" THEN "absent" ELSE "generated"

TargetPermitted == zpc = "writing" => Permitted(target)

\* The walk is still to come to d.
Pending(d) == \E x \in ToSet(todo) : d \in Below(x)

AtTarget(d) == zpc \in {"strfile2", "asking", "writing", "delroot"} /\ d = target[1]

\* zmake -b -R has left d as it should.
Served(d) ==
    /\ IsFile(d, "rules.mk")
    /\ before[d]["rules.mk"] = "absent" \/ args.mode = "force" =>
          file[d]["rules.mk"] = "generated"

Walking ==
    zpc # "idle" /\ args.op = "recursive" =>
        /\ ToSet(todo) \subseteq Below(found)
        /\ zpc # "walk" => /\ target[1] \in Below(found)
                           /\ HasSources(target[1]) /\ target[2] = "rules.mk"
        /\ \A f \in Written : /\ f[1] \in Below(found)
                              /\ HasSources(f[1]) /\ f[2] = "rules.mk"
        /\ \A d \in Below(found) :
              HasSources(d) => Pending(d) \/ AtTarget(d) \/ Served(d)

Deleted(d) == ~IsFile(d, "rules.mk") /\ ~IsFile(d, "root.mk")

Deleting ==
    zpc # "idle" /\ args.op = "delete" =>
        /\ ToSet(todo) \subseteq Below(args.dir)
        /\ zpc = "delroot" => /\ target[1] \in Below(args.dir)
                              /\ ~IsFile(target[1], "rules.mk")
        /\ \A f \in Written : f[1] \in Below(args.dir) /\ f[2] # "Makefile"
        /\ \A d \in Below(args.dir) : Pending(d) \/ AtTarget(d) \/ Deleted(d)

ZmakeInv ==
    Places /\ WrittenIsWhole /\ KeepsExisting /\ TargetPermitted /\ Walking /\ Deleting
=============================================================================
