\* After the first build a plain make builds one object only.
SPECIFICATION Spec
CONSTANTS
    Dir <- MCDir
    NoDir = nodir
    MaxEdits = 2
    Invocation <- MCInvocation
    MaxInvocations = 0
    MakeDir <- MCMakeDir
    MaxMakes = 2
    Tree <- MCTree
INVARIANTS
    MakeIsIncremental
