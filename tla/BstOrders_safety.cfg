\* Five keys and a node for each: every shape a tree of up to five nodes takes.
CONSTANTS
    Key = {1, 2, 3, 4, 5}
    Node = {n1, n2, n3, n4, n5}
    n1 = n1
    n2 = n2
    n3 = n3
    n4 = n4
    n5 = n5
    NULL = NULL
SYMMETRY Symmetry
SPECIFICATION Spec
INVARIANTS
    TypeOK
    LeavesTreeAndOrder
PROPERTY ImplementsSet
