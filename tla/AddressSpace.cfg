SPECIFICATION Spec
CONSTANTS
    KERNEL = 1
    RAM = 11
    MAXPAGE = 12
    HEAP = 7
    Proc = {"p1", "p2"}
    UserPage <- Pages
    Images = {"elf", "notelf"}
    Garbage = {0}
    Touched <- Programs
INVARIANT FramesAccounted
INVARIANT FramesNotShared
INVARIANT PagesHeld
INVARIANT OnlyOwnFrames
