\* schedule() may never return.
SPECIFICATION FairSpec
CONSTANTS
    Node = {1, 2}
    Worker = {w1}
    Master = master
    None = none
    Cases <- AllOfTwo
    Recipes <- NoRecipes
    Garbage <- NoGarbage
    Start <- MCStart
PROPERTIES
    Termination
