SPECIFICATION Spec
CONSTANTS
    Proc = {p1, p2}
    BOOT = p1
    PREEMPT = FALSE
    Disks <- MCDisks
    Unit <- MCUnit
    Inode <- MCInode
    Inums <- MCInums
    SECT = 2
    PARTOFF = 1
    PARTSIZE = 1
    KB = 4
    SBSIZE = 4
    GDSIZE = 1
    PTRSIZE = 1
    NDIRECT = 2
    GROUPS = 3
    NSECT = 5
    INT = 280
INVARIANTS
    ReadExact
    InodeRight
    FileRight
PROPERTY
    ReadEnds
