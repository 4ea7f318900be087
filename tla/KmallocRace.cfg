SPECIFICATION Spec
CONSTANTS
    Slow = {"p1"}
    Locked = "locked"
    PREEMPT = TRUE
    Sizes = {1}
    HEADER = 1
    MINSIZE = 3
    PAGESIZE = 8
    LIMIT = 16
    WORD = 64
    MAXLIVE = 2
INVARIANT FoundIsFree
