SPECIFICATION Spec
CONSTANTS
    Slow = {"p1"}
    Locked = "locked"
    PREEMPT = FALSE
    Sizes = {1, 4, 8, 9}
    HEADER = 1
    MINSIZE = 3
    PAGESIZE = 8
    LIMIT = 24
    WORD = 64
    MAXLIVE = 4
INVARIANT HeapTiled
INVARIANT BlocksExact
