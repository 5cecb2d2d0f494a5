\* Objects are compiled with the flags of the rules.mk that was read last.
SPECIFICATION Spec
CONSTANTS
    Dir <- MCDir
    NoDir = nodir
    MaxEdits = 2
    Invocation <- MCInvocation
    MaxInvocations = 0
    MakeDir <- MCMakeDir
    MaxMakes = 2
    Tree <- MCTree
PROPERTIES
    FlagsOfOwnDirectory
