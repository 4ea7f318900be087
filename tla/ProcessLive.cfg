SPECIFICATION FairSpec
CONSTANTS
    MAXPID = 4
    Sigs = {2, 17}
    KillSigs = {2}
    KillTargets = {2}
    TrapSigs = {}
    Images = {"elf"}
    NPROC_CAP = 0
    MAXNEST = 0
INVARIANT
    NProcCounts
PROPERTIES
    FairBetweenExits
    ShellRestarted
    KillTakesEffect
