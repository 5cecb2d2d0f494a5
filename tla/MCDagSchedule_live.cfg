\* What must eventually happen.
SPECIFICATION FairSpec
CONSTANTS
    Node = {1, 2, 3}
    Worker = {w1, w2}
    Master = master
    None = none
    Cases <- ChainAndJoin
    Recipes <- MixedRecipes
    Garbage <- NoGarbage
    Start <- MCStart
PROPERTIES
    QueuedIsBuilt
    ReadyIsBuilt
    HangsOnlyInJoin
