SPECIFICATION FairSpec
CONSTANTS
    MAXPID = 4
    Sigs = {17}
    KillSigs = {}
    KillTargets = {}
    TrapSigs = {}
    Images = {"elf"}
    NPROC_CAP = 0
    MAXNEST = 0
PROPERTY
    WaitReturns
