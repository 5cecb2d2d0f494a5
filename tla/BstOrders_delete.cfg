\* Three keys are enough for a delete that ends the process.
CONSTANTS
    Key = {1, 2, 3}
    Node = {n1, n2, n3}
    n1 = n1
    n2 = n2
    n3 = n3
    NULL = NULL
SYMMETRY Symmetry
SPECIFICATION Spec
INVARIANT DeleteNeverCrashes
