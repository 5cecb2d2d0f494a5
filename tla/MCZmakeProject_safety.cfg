\* zmake and make in turn, interrupted anywhere.
SPECIFICATION FairSpec
CONSTANTS
    Dir <- MCDir
    NoDir = nodir
    MaxEdits = 1
    Invocation <- MCInvocation
    MaxInvocations = 2
    MakeDir <- MCMakeDir
    MaxMakes = 1
    Tree <- MCTree
INVARIANTS
    TypeOK
    KeepsExisting
    AtMostOneTorn
    WalkIsComplete
    DeletesAllBelow
    ObjectsAreReached
    AllIsUpToDate
    ForcedWalkIsReached
PROPERTIES
    CommandReturns
