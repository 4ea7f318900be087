SPECIFICATION Spec
CONSTANTS
    Proc = {p1, p2}
    PREEMPT = FALSE
    ROOT = 2
    Mode <- MCMode
    Entries <- MCEntries
    Paths <- MCPaths
    MAXBUF = 3
    JUNK = {0}
    MAXOPENED = 2
SYMMETRY Symmetry
INVARIANTS
    CacheMatchesDisk
    LeafUnique
    LookupRight
    DirBufferHeld
    ClosedAgain
    PwdRoundTrip
