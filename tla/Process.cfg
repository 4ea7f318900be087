SPECIFICATION Spec
CONSTANTS
    MAXPID = 3
    Sigs = {2, 10, 17}
    KillSigs = {2, 10}
    KillTargets = {0, 1}
    TrapSigs = {17}
    Images = {"elf", "bad"}
    NPROC_CAP = 3
    MAXNEST = 1
INVARIANTS
    TypeOK
    FamilyTree
    CurrentRunnable
    NProcAtLeastLive
    PendingHasDeadChild
PROPERTY
    ReleasedByParent
