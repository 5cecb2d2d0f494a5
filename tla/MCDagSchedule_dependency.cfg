\* A target may be started before something it is made from is rebuilt.
SPECIFICATION Spec
CONSTANTS
    Node = {1, 2, 3, 4}
    Worker = {w1, w2}
    Master = master
    None = none
    Cases <- CrossingsAsked
    Recipes <- NoRecipes
    Garbage <- NoGarbage
    Start <- MCStart
INVARIANTS
    DependencyOrder
