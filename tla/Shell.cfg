SPECIFICATION Spec
CONSTANTS
    HEADER = 1
    MINSIZE = 4
    PTR = 1
    MAXLOST = 1
    Commands <- MCCommands
INVARIANTS
    BlocksOwned
    HeapBounded
