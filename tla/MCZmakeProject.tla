--------------------------- MODULE MCZmakeProject ---------------------------
(***************************************************************************)
(* Instances of ZmakeProject for TLC: a project /p with two               *)
(* subdirectories, one of which has a subdirectory of its own.             *)
(***************************************************************************)
EXTENDS ZmakeProject

P  == <<"p">>
PA == <<"p", "a">>
PB == <<"p", "b">>
PC == <<"p", "a", "c">>

MCDir     == {<<>>, P, PA, PB, PC}
MCMakeDir == {P, PA}

NoFiles == [n \in MkFile |-> "absent"]
Bare    == [d \in MCDir |-> NoFiles]

With(files, d, n, content) == [files EXCEPT ![d][n] = content]

\* Sources in these directories.
Sources(S) == [d \in MCDir |-> IF d \in S THEN 1 ELSE 0]

\* A root.mk in the project, and a Makefile.
Started == With(With(Bare, P, "root.mk", "generated"), P, "Makefile", "generated")

\* zmake has been everywhere.
Generated ==
    [d \in MCDir |-> IF d = <<>> THEN NoFiles
                     ELSE [Started[d] EXCEPT !["rules.mk"] = "generated"]]

NamesP == [d \in MCDir |-> IF d = P THEN P ELSE NoDir]

Project(sources, files, built) ==
    [src |-> Sources(sources), file |-> files, names |-> NamesP, built |-> built]

\* A new project, one with a directory without sources, and one that was built.
MCTree ==
    {Project({P, PA, PB, PC}, Started, FALSE), Project({P, PB, PC}, Started, FALSE),
     Project({P, PA, PC}, Generated, TRUE)}

Run(op, d, mode) == [op |-> op, dir |-> d, mode |-> mode]

MCInvocation ==
    {Run("recursive", PA, m) : m \in Mode}
        \cup {Run("branch", PA, m) : m \in {"skip", "ask"}}
        \cup {Run("root", d, "ask") : d \in {P, PA}}
        \cup {Run("makefile", PA, "skip"), Run("delete", PA, "ask"),
              Run("delete", P, "ask")}
=============================================================================
