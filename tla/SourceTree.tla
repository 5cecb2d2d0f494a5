----------------------------- MODULE SourceTree -----------------------------
(***************************************************************************)
(* A source tree as bin/zmake and the makefiles it generates see it: the   *)
(* directories, which of them hold C or C++ sources, the three kinds of    *)
(* makefiles, and the user who edits both.  A directory is its path, the   *)
(* sequence of names that leads to it from "/", which is the empty one.    *)
(* All sources of a directory are edited together.                         *)
(***************************************************************************)
EXTENDS Naturals, Sequences, FiniteSets, SequencesExt

CONSTANTS
    Dir,         \* the directories
    NoDir,       \* no directory
    MaxEdits     \* how often the user edits something, at most

ASSUME DirAssumption ==
    /\ IsFiniteSet(Dir) /\ Dir # {} /\ Dir \subseteq Seq(STRING)
    /\ \A d \in Dir : \A n \in 0..Len(d) : SubSeq(d, 1, n) \in Dir
ASSUME NoDirAssumption == NoDir \notin Dir
ASSUME MaxEditsAssumption == MaxEdits \in Nat

MkFile  == {"root.mk", "rules.mk", "Makefile"}
Content == {"absent", "empty", "generated", "edited"}

VARIABLES
    src,     \* the version of the sources in a directory, 0 if it has none
    file,    \* what is in its root.mk, rules.mk and Makefile
    names,   \* the directory its Makefile takes for ROOT
    edits    \* how often the user has edited something (bounds the model)

treeVars == <<src, file, names, edits>>

TreeTypeOK ==
    /\ src \in [Dir -> Nat]
    /\ file \in [Dir -> [MkFile -> Content]]
    /\ names \in [Dir -> Dir \cup {NoDir}]
    /\ edits \in 0..MaxEdits

Up(d)       == {e \in Dir : IsPrefix(e, d)}
Below(d)    == {e \in Dir : IsPrefix(d, e)}
Children(d) == {e \in Below(d) : Len(e) = Len(d) + 1}

\* The order in which a directory is listed is the file system's.
Listings(S) == SetToSeqs(S)

HasSources(d) == src[d] > 0

IsFile(d, n)  == file[d][n] # "absent"
HasText(d, n) == file[d][n] \in {"generated", "edited"}

SetFile(d, n, content) == file' = [file EXCEPT ![d][n] = content]

-----------------------------------------------------------------------------
(* The user.                                                               *)

\* The sources of d are edited, or the first one is added.
EditSources(d) ==
    /\ src' = [src EXCEPT ![d] = @ + 1]
    /\ UNCHANGED file

\* A generated makefile gets directory-specific settings.
EditFile(d, n) ==
    /\ file[d][n] = "generated"
    /\ SetFile(d, n, "edited")
    /\ UNCHANGED src

UserEdits ==
    /\ edits < MaxEdits
    /\ edits' = edits + 1
    /\ \E d \in Dir : EditSources(d) \/ \E n \in MkFile : EditFile(d, n)
    /\ UNCHANGED names
=============================================================================
