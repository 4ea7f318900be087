SPECIFICATION FairSpec
CONSTANTS
    Proc = {"p1", "p2"}
    Chars = {"a"}
    INBUFSIZE = 4
    MAXLINE <- Lines
INVARIANT TypeOK
INVARIANT LineDelivered
PROPERTY LineKept
PROPERTY HolderServed
