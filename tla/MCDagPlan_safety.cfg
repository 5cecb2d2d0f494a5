\* Every graph of three nodes, up to two requests.
SPECIFICATION FairSpec
CONSTANTS
    Node = {1, 2, 3}
    None = none
    Instances <- MCInstances
    MaxTime = 2
    MaxCalls = 2
    Garbage = 1
INVARIANTS
    TypeOK
    FalseIffLoop
    FeasibleForOneWorker
    ListsAllAncestors
    PlanIsSound
    KeepsTheOutdated
    ListedAgainAsAsked
PROPERTIES
    RequestReturns
