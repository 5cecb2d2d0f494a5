\* Every graph of three nodes and two of four, requests that leave nodes out,
\* recipes that fail.
SPECIFICATION Spec
CONSTANTS
    Node = {1, 2, 3, 4}
    Worker = {w1, w2}
    Master = master
    None = none
    Cases <- ThreeAndCrossings
    Recipes <- MixedRecipes
    Garbage <- SomeGarbage
    Start <- MCStart
INVARIANTS
    TypeOK
    ListHasNoDuplicates
    ErasesWhatItQueued
    NoLostWakeup
    AtMostTwice
    OrderUnlessRunTwice
    UpToDateNeverRun
    LeavesAtMostOne
    ReturnsQuiet
PROPERTIES
    ImplementsContract
