---------------------------- MODULE ZmakeProject ----------------------------
(***************************************************************************)
(* A project under zmake: its user edits sources and makefiles, runs       *)
(* bin/zmake and make in turn, one command at a time, and may interrupt    *)
(* any of them.  Zmake writes the files that RulesMk reads.                *)
(***************************************************************************)
EXTENDS Zmake, RulesMk

CONSTANT Tree   \* the projects: records [src, file, names, built]

ASSUME TreeAssumption ==
    Tree \subseteq [src : [Dir -> Nat],
                    file : [Dir -> [MkFile -> Content]],
                    names : [Dir -> Dir \cup {NoDir}],
                    built : BOOLEAN]

vars == <<treeVars, zmakeVars, makeVars>>

TypeOK == TreeTypeOK /\ ZmakeTypeOK /\ MakeTypeOK

Init ==
    /\ \E t \in Tree :
         /\ src = t.src /\ file = t.file /\ names = t.names
         /\ MakeInit(t.built)
    /\ edits = 0
    /\ ZmakeInit

Idle == zpc = "idle" /\ mpc = "idle"

\* A command at work, by itself or by its user's answer.
CommandRuns ==
    \/ ZmakeRuns /\ UNCHANGED makeVars
    \/ MakeRuns /\ UNCHANGED zmakeVars

Interrupted ==
    \/ Interrupt /\ UNCHANGED makeVars
    \/ MakeFails /\ UNCHANGED zmakeVars

UserTypes ==
    /\ Idle
    /\ \/ Invoke /\ UNCHANGED makeVars
       \/ /\ \E d \in MakeDir, all \in BOOLEAN : StartMake(d, all)
          /\ UNCHANGED zmakeVars
       \/ UserEdits /\ UNCHANGED <<zmakeVars, makeVars>>

Finished == Idle /\ UNCHANGED vars

Next == CommandRuns \/ Interrupted \/ UserTypes \/ Finished

Spec == Init /\ [][Next]_vars

\* A command keeps running, and its user answers what it asks.
FairSpec == Spec /\ WF_vars(CommandRuns)

-----------------------------------------------------------------------------
(* Correctness of the two together.                                        *)

\* What zmake -b -R -f is for, whatever was interrupted before: afterwards a
\* make at the root reaches every directory with sources that is not cut off
\* from it by a directory without.
ForcedWalkIsReached ==
    zpc = "walk" /\ args.op = "recursive" /\ args.mode = "force" /\ todo = <<>> =>
        \A d \in Below(found) :
            (\A x \in Below(found) \cap Up(d) : HasSources(x)) => d \in Reached(found)

\* Every command comes to an end.
CommandReturns == ~Idle ~> Idle

-----------------------------------------------------------------------------
\* One command at a time: what makes the invariants of the two compose.
OneAtATime == zpc = "idle" \/ mpc = "idle"
=============================================================================
