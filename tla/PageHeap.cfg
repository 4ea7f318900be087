SPECIFICATION HeapSpec
CONSTANTS
    KERNEL = 1
    RAM = 8
    MAXPAGE = 9
    HEAP = 6
    MAXHELD = 5
    MAXUSER = 1
INVARIANT TypeOK
INVARIANT ListExact
INVARIANT PagesBacked
PROPERTY PoolSpec
