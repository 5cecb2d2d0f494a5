\* Every graph of three nodes, and every way to get there.
SPECIFICATION FairSpec
CONSTANTS
    Node = {1, 2, 3}
    Cooked = {1}
    None = none
INVARIANTS
    TypeOK
    ListsAgree
    IsDagIsRight
    WhiteHasWhiteParents
PROPERTIES
    DfsVisitsOnce
    SearchesFromSources
    TraversalReturns
