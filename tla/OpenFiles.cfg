SPECIFICATION Spec
CONSTANTS
    Proc = {"p1", "p2"}
    File = {"f1", "f2"}
    JUNK = {0, 1}
    SIZE = 3
    BUFSIZES = {2}
    MAXFD = 2
    MAXBUF = 4
    MAXOPENED = 3
INVARIANT BuffersOwned
INVARIANT OpenedCoversUsers
PROPERTY OthersKeepBuffer
PROPERTY DescriptorStable
CHECK_DEADLOCK FALSE
