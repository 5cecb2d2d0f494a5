\* schedule() may return with a target not built.
SPECIFICATION Spec
CONSTANTS
    Node = {1, 2}
    Worker = {w1, w2}
    Master = master
    None = none
    Cases <- AllOfTwo
    Recipes <- NoRecipes
    Garbage <- NoGarbage
    Start <- MCStart
INVARIANTS
    AllBuilt
