----------------------------- MODULE FileCache -----------------------------
(***************************************************************************)
(* The file cache: a tree of struct file that grows while paths are looked *)
(* up, path_to_file() and get_dir_entries() over it, and the calls that    *)
(* use them: open and close of a directory, chdir, pwd, exec and exit.     *)
(*                                                                         *)
(* sys_open() and chdir run with interrupts disabled: while one of them    *)
(* looks a path up no other process does a step. sys_exec() looks its path *)
(* up with interrupts enabled and can lose the processor between any two   *)
(* statements.                                                             *)
(*                                                                         *)
(* Each process has one descriptor; OpenFiles has the list of them. As     *)
(* there, a kfree() of address 0 may stop the machine.                     *)
(***************************************************************************)
EXTENDS Integers, FiniteSetsExt, SequencesExt

CONSTANTS
    Proc,
    PREEMPT,  \* whether the clock interrupt falls inside of sys_exec()
    ROOT,     \* EXT2_INUM_ROOT
    Mode,     \* Mode[i]: the kind of file inode i is
    Entries,  \* Entries[i]: the entries of directory i, in order; none for a file
    Paths,    \* the arguments of the calls: relative or not, and the names in it
    JUNK,     \* values of opened in a new struct: nobody sets it
    MAXBUF,   \* bound of the model: buffers allocated at once
    MAXOPENED \* bound of the model: the sum of the counters

Inode  == DOMAIN Mode
Unused == 0        \* the inode number of an entry that is not used
NoBuf  == 0
NoFile == 0
f_root == 1

ASSUME CacheAssumption ==
    /\ PREEMPT \in BOOLEAN
    /\ ROOT \in Inode /\ Mode[ROOT] = "dir" /\ Unused \notin Inode
    /\ Entries \in [Inode -> Seq([name : STRING, inum : Inode \cup {Unused}])]
    /\ \A i \in Inode : Mode[i] # "dir" => Entries[i] = <<>>
    /\ Paths \subseteq [abs : BOOLEAN, names : Seq(STRING)]
    /\ JUNK \subseteq Int /\ {MAXBUF, MAXOPENED} \subseteq Nat
    /\ IsFiniteSet(Proc)

VARIABLES
    file,  \* the structs, in the order of their allocation; none is ever freed
    bufs,  \* the buffers of directories that are allocated
    pwd,   \* pwd[p]: current->pwd
    fd,    \* fd[p]: a directory that p has open, or NoFile
    look,  \* look[p]: the local variables of path_to_file() and get_dir_entries()
    halted \* the kernel hangs, or runs on with a page directory it has spoilt

vars == <<file, bufs, pwd, fd, look, halted>>

Struct(name, inum, parent, inode, junk) ==
    [name |-> name, inum |-> inum, parent |-> parent, inode |-> inode, mmap |-> NoBuf,
     opened |-> junk, leaf |-> <<>>]

Idle ==
    [op |-> "none", pc |-> "idle", fp |-> f_root, rest |-> <<>>, k |-> 0, base |-> NoBuf,
     toclose |-> FALSE, from |-> ROOT, names |-> <<>>]

Dots == {".", ".."}

\* init_root(): the root, whose leaves the kernel is about to read; it does so
\* before any process runs, here in the place of one of them.
Init ==
    /\ \E junk \in JUNK : file = <<Struct("/", ROOT, f_root, TRUE, junk)>>
    /\ bufs = {}
    /\ pwd = [p \in Proc |-> f_root]
    /\ fd = [p \in Proc |-> NoFile]
    /\ \E p \in Proc : look = [[q \in Proc |-> Idle] EXCEPT ![p].op = "init", ![p].pc = "dir"]
    /\ halted = FALSE

\* The processor is p's: the others are not in a section with interrupts
\* disabled.
Runs(p) ==
    \A q \in Proc \ {p} : look[q].op = "none" \/ (PREEMPT /\ look[q].op = "exec")

\* i_mode & EXT2_S_IFDIR: the bit is also set for block devices and sockets.
is_directory(f) == Mode[file[f].inum] \in {"dir", "blk", "sock"}

\* The leaf of that name, the first one of the list, or NoFile.
is_cached_leaf(dir, name) ==
    LET k == SelectInSeq(file[dir].leaf, LAMBDA g : file[g].name = name)
    IN  IF k = 0 THEN NoFile ELSE file[dir].leaf[k]

-----------------------------------------------------------------------------
\* path_to_file()

Begin(p, op, path) ==
    LET start == IF path.abs THEN f_root ELSE pwd[p]
    IN  /\ Runs(p)
        /\ look[p].op = "none"
        /\ look' = [look EXCEPT ![p] =
                       [Idle EXCEPT !.op = op, !.pc = "word", !.fp = start, !.rest = path.names,
                                    !.from = file[start].inum, !.names = path.names]]
        /\ UNCHANGED <<file, bufs, pwd, fd>>

\* p stands at pc and goes on.
At(p, pc) == Runs(p) /\ look[p].pc = pc

\* The path is used up: path_to_file() returns fp.
Found(p, op) == At(p, "word") /\ look[p].op = op /\ look[p].rest = <<>>

\* Mutant of Advance: ".." is skipped like ".".
AdvanceStays(f, name) == f

\* ".." and "." need no directory entries.
Advance(f, name) == IF name = ".." THEN file[f].parent ELSE f

Word(p) ==
    LET f == look[p].fp
        name == Head(look[p].rest)
    IN  /\ At(p, "word")
        /\ look[p].rest # <<>>
        /\ file' = [file EXCEPT ![f].inode = TRUE]
        /\ \/ /\ ~is_directory(f)
              /\ look' = [look EXCEPT ![p].pc = "fail"]
           \/ /\ is_directory(f) /\ name \in Dots
              /\ look' = [look EXCEPT ![p].fp = Advance(f, name), ![p].rest = Tail(@)]
           \/ /\ is_directory(f) /\ name \notin Dots
              /\ look' = [look EXCEPT ![p].pc = "dir"]
        /\ UNCHANGED <<bufs, pwd, fd>>

\* is_cached_leaf() after get_dir_entries().
Leaf(p) ==
    LET g == is_cached_leaf(look[p].fp, Head(look[p].rest))
    IN  /\ At(p, "leaf") /\ look[p].op # "init"
        /\ \/ g = NoFile /\ look' = [look EXCEPT ![p].pc = "fail"]
           \/ /\ g # NoFile
              /\ look' = [look EXCEPT ![p].pc = "word", ![p].fp = g, ![p].rest = Tail(@)]
        /\ UNCHANGED <<file, bufs, pwd, fd>>

-----------------------------------------------------------------------------
\* get_dir_entries(fp), for a directory

NewBuf == Min(1..(Cardinality(bufs) + 1) \ bufs)

\* Mutant of DirTest: whether the directory is open is not looked at.
DirTestForgotten(p) ==
    /\ At(p, "dir")
    /\ look' = [look EXCEPT ![p].pc = "map", ![p].toclose = FALSE]
    /\ UNCHANGED <<file, bufs, pwd, fd>>

DirTest(p) ==
    /\ At(p, "dir")
    /\ look' = [look EXCEPT ![p].pc = IF file[look[p].fp].mmap = NoBuf THEN "read" ELSE "map",
                            ![p].toclose = FALSE]
    /\ UNCHANGED <<file, bufs, pwd, fd>>

\* Mutant of DirRead: f_toclose is not set.
DirReadKeeps(p) ==
    /\ At(p, "read") /\ NewBuf <= MAXBUF
    /\ bufs' = bufs \cup {NewBuf}
    /\ file' = [file EXCEPT ![look[p].fp].mmap = NewBuf]
    /\ look' = [look EXCEPT ![p].pc = "map"]
    /\ UNCHANGED <<pwd, fd>>

\* dir->mmap = ext2_read_file(); f_toclose = 1
DirRead(p) ==
    /\ At(p, "read") /\ NewBuf <= MAXBUF
    /\ bufs' = bufs \cup {NewBuf}
    /\ file' = [file EXCEPT ![look[p].fp].mmap = NewBuf]
    /\ look' = [look EXCEPT ![p].pc = "map", ![p].toclose = TRUE]
    /\ UNCHANGED <<pwd, fd>>

\* dentry = dir->mmap
DirMap(p) ==
    /\ At(p, "map")
    /\ look' = [look EXCEPT ![p].pc = "entry", ![p].base = file[look[p].fp].mmap, ![p].k = 1]
    /\ UNCHANGED <<file, bufs, pwd, fd>>

\* Mutant of Skipped: the cache is not searched.
SkippedDots(dir, name) == name \in Dots

\* An entry for which nothing is added.
Skipped(dir, name) == name \in Dots \/ is_cached_leaf(dir, name) # NoFile

\* The loop reads the buffer that the directory has.
Held(p) == look[p].base \in bufs /\ look[p].base = file[look[p].fp].mmap

\* What dentry points to. In a buffer that may have been freed since, this is
\* whatever the chunk was used for: here an entry of any directory.
Dentry(p) ==
    LET es == Entries[file[look[p].fp].inum]
    IN  IF Held(p) THEN {es[k] : k \in DOMAIN es \cap {look[p].k}}
        ELSE UNION {Range(Entries[i]) : i \in Inode}

\* One iteration up to the test of the cache. The loop ends at the end of the
\* directory or at the first entry that is not used.
Entry(p) ==
    LET f == look[p].fp
        Used == {e \in Dentry(p) : e.inum # Unused}
    IN  /\ At(p, "entry")
        /\ \/ /\ \E e \in Used : Skipped(f, e.name)
              /\ look' = [look EXCEPT ![p].k = @ + 1]
           \/ /\ \E e \in Used : ~Skipped(f, e.name)
              /\ look' = [look EXCEPT ![p].pc = "add"]
           \/ /\ Used = {} \/ ~Held(p)
              /\ look' = [look EXCEPT ![p].pc = "close"]
        /\ UNCHANGED <<file, bufs, pwd, fd>>

\* The cache with a new leaf e of parent f in front of the list of dir.
WithLeaf(dir, e, f, junk) ==
    Append([file EXCEPT ![dir].leaf = <<Len(file) + 1>> \o @], Struct(e.name, e.inum, f, FALSE, junk))

\* Mutant of Add: the new leaf is put into the list of the root.
AddToRoot(p) ==
    /\ At(p, "add")
    /\ \E e \in Dentry(p), junk \in JUNK :
          e.inum # Unused /\ file' = WithLeaf(f_root, e, look[p].fp, junk)
    /\ look' = [look EXCEPT ![p].pc = "entry", ![p].k = @ + 1]
    /\ UNCHANGED <<bufs, pwd, fd>>

\* The leaf is created, from what dentry points to by now.
Add(p) ==
    /\ At(p, "add")
    /\ \E e \in Dentry(p), junk \in JUNK :
          e.inum # Unused /\ file' = WithLeaf(look[p].fp, e, look[p].fp, junk)
    /\ look' = [look EXCEPT ![p].pc = "entry", ![p].k = @ + 1]
    /\ UNCHANGED <<bufs, pwd, fd>>

\* kfree(dir->mmap) if f_toclose is set ...
DirFree(p) ==
    /\ At(p, "close")
    /\ \/ /\ look[p].toclose
          /\ bufs' = bufs \ {file[look[p].fp].mmap}
          /\ look' = [look EXCEPT ![p].pc = "clear"]
       \/ /\ ~look[p].toclose
          /\ look' = [look EXCEPT ![p].pc = "leaf"]
          /\ UNCHANGED bufs
    /\ UNCHANGED <<file, pwd, fd>>

\* ... and dir->mmap = 0.
DirClear(p) ==
    /\ At(p, "clear")
    /\ file' = [file EXCEPT ![look[p].fp].mmap = NoBuf]
    /\ look' = [look EXCEPT ![p].pc = "leaf"]
    /\ UNCHANGED <<bufs, pwd, fd>>

-----------------------------------------------------------------------------
\* The calls

Return(p) == look' = [look EXCEPT ![p] = Idle]

Fail(p) ==
    /\ At(p, "fail")
    /\ Return(p)
    /\ UNCHANGED <<file, bufs, pwd, fd>>

\* The end of init_root().
init_root(p) ==
    /\ At(p, "leaf") /\ look[p].op = "init"
    /\ Return(p)
    /\ UNCHANGED <<file, bufs, pwd, fd>>

\* Two buffers are left for the lookup and for the file.
OpenEnter(p, path) ==
    /\ fd[p] = NoFile
    /\ Cardinality(bufs) + 2 <= MAXBUF
    /\ MapThenSumSet(LAMBDA f : file[f].opened, 1..Len(file)) < MAXOPENED
    /\ Begin(p, "open", path)

\* The file is read into a new buffer, whether it has one or not.
sys_open(p) ==
    LET f == look[p].fp
    IN  /\ Found(p, "open") /\ NewBuf <= MAXBUF
        /\ bufs' = bufs \cup {NewBuf}
        /\ file' = [file EXCEPT ![f] = [file[f] EXCEPT !.opened = @ + 1, !.inode = TRUE, !.mmap = NewBuf]]
        /\ fd' = [fd EXCEPT ![p] = f]
        /\ Return(p)
        /\ UNCHANGED pwd

\* kfree(b): see MayHalt of OpenFiles.
Free(b) ==
    /\ bufs' = bufs \ {b}
    /\ halted' \in {FALSE, b = NoBuf}

\* The buffer is freed, whoever else has the directory open; opened stays.
sys_close(p) ==
    /\ Runs(p) /\ look[p].op = "none"
    /\ fd[p] # NoFile
    /\ Free(file[fd[p]].mmap)
    /\ file' = [file EXCEPT ![fd[p]].mmap = NoBuf]
    /\ fd' = [fd EXCEPT ![p] = NoFile]
    /\ UNCHANGED <<pwd, look>>

\* The exit of a process that has a directory open: the buffer is freed when
\* the counter comes back to 0, which it never does after a close().
sys_exit(p) ==
    LET f == fd[p]
    IN  /\ Runs(p) /\ look[p].op = "none"
        /\ f # NoFile
        /\ \/ /\ file[f].opened = 1
              /\ Free(file[f].mmap)
              /\ file' = [file EXCEPT ![f] = [file[f] EXCEPT !.opened = 0, !.mmap = NoBuf]]
           \/ /\ file[f].opened # 1
              /\ file' = [file EXCEPT ![f].opened = @ - 1]
              /\ UNCHANGED <<bufs, halted>>
        /\ fd' = [fd EXCEPT ![p] = NoFile]
        /\ UNCHANGED <<pwd, look>>

\* Mutant of sys_chdir: any file will do.
ChdirAnywhere(p) ==
    LET f == look[p].fp
    IN  /\ Found(p, "chdir")
        /\ file' = [file EXCEPT ![f].inode = TRUE]
        /\ pwd' = [pwd EXCEPT ![p] = f]
        /\ Return(p)
        /\ UNCHANGED <<bufs, fd>>

sys_chdir(p) ==
    LET f == look[p].fp
    IN  /\ Found(p, "chdir")
        /\ file' = [file EXCEPT ![f].inode = TRUE]
        /\ pwd' = IF is_directory(f) THEN [pwd EXCEPT ![p] = f] ELSE pwd
        /\ Return(p)
        /\ UNCHANGED <<bufs, fd>>

\* load_task() may refuse the file, or the new process q starts in the
\* directory of p. q's former life is over: its exit left it nothing open.
sys_exec(p) ==
    /\ Found(p, "exec")
    /\ file' = [file EXCEPT ![look[p].fp].inode = TRUE]
    /\ Return(p)
    /\ \/ UNCHANGED pwd
       \/ \E q \in Proc \ {p} :
             /\ look[q].op = "none" /\ fd[q] = NoFile
             /\ pwd' = [pwd EXCEPT ![q] = pwd[p]]
    /\ UNCHANGED <<bufs, fd>>

Lookup(p) ==
    \/ Word(p) \/ Leaf(p) \/ Fail(p)
    \/ DirTest(p) \/ DirRead(p) \/ DirMap(p) \/ Entry(p) \/ Add(p) \/ DirFree(p) \/ DirClear(p)
    \/ init_root(p) \/ sys_open(p) \/ sys_chdir(p) \/ sys_exec(p)

\* Nothing is said of the kernel after this.
Stopped == halted /\ UNCHANGED vars

Next ==
    \/ /\ ~halted
       /\ \E p \in Proc :
             \/ /\ \/ \E path \in Paths :
                         \/ OpenEnter(p, path)
                         \/ Begin(p, "chdir", path)
                         \/ Begin(p, "exec", path)
                   \/ Lookup(p)
                /\ UNCHANGED halted
             \/ sys_close(p)
             \/ sys_exit(p)
    \/ Stopped

Spec == Init /\ [][Next]_vars

-----------------------------------------------------------------------------

File == 1..Len(file)

\* The tree of structs is a part of the tree on the disk: a leaf stands for an
\* entry of its parent's directory, and each struct is in the list of the
\* directory its parent pointer names.
CacheMatchesDisk ==
    \A f \in File :
        /\ \A g \in Range(file[f].leaf) :
              /\ file[g].parent = f
              /\ [name |-> file[g].name, inum |-> file[g].inum] \in Range(Entries[file[f].inum])
        /\ f # f_root => f \in Range(file[file[f].parent].leaf)

\* "a moins qu'elle y soit deja" (file.c:158): get_dir_entries(), called for
\* each component of each path, adds no name twice.
LeafUnique ==
    \A f, g \in File \ {f_root} :
        file[f].parent = file[g].parent /\ file[f].name = file[g].name => f = g

\* What the path means on the disk, "." and ".." being entries there: the names
\* lead from inode i to inode j.
Named(i, name) == {e.inum : e \in {e \in Range(Entries[i]) : e.name = name /\ e.inum # Unused}}
Leads(i, names, j) ==
    \E w \in [0..Len(names) -> Inode] :
        /\ w[0] = i /\ w[Len(names)] = j
        /\ \A k \in 1..Len(names) : w[k] \in Named(w[k - 1], names[k])

\* A disk as mke2fs leaves it and as path_to_file() needs it: no name twice in a
\* directory, used entries first, "." and ".." where they belong, no device or
\* socket, which is_directory() takes for a directory.
TidyDisk ==
    /\ \A i \in Inode : Mode[i] \notin {"blk", "sock"}
    /\ \A i \in Inode : \A j, k \in DOMAIN Entries[i] :
          /\ Entries[i][j].name = Entries[i][k].name /\ Entries[i][k].inum # Unused => j = k
          /\ j < k /\ Entries[i][k].inum # Unused => Entries[i][j].inum # Unused
    /\ \A i \in Inode : Mode[i] = "dir" => Named(i, ".") = {i}
    /\ Named(ROOT, "..") = {ROOT}
    /\ \A i \in Inode : \A e \in Range(Entries[i]) :
          e.inum # Unused /\ e.name \notin Dots /\ Mode[e.inum] = "dir" => Named(e.inum, "..") = {i}

\* path_to_file(): at each word, what is left of the path leads from fp to the
\* file the whole path means on the disk, and the lookup fails only for a path
\* that names nothing, whatever the cache held before and whoever has
\* directories open.
LookupRight ==
    \A p \in Proc :
        LET l == look[p]
        IN  \A j \in Inode :
               /\ l.pc = "word" => (Leads(file[l.fp].inum, l.rest, j) <=> Leads(l.from, l.names, j))
               /\ l.pc = "fail" => ~Leads(l.from, l.names, j)

\* get_dir_entries() reads entries only from the buffer of the directory, which
\* is allocated.
DirBufferHeld == \A p \in Proc : look[p].pc \in {"entry", "add"} => Held(p)

\* Once no lookup is under way, successful or not, no freed buffer is pointed to,
\* and only a directory whose counter has not come back to 0 has a buffer: the
\* lookups have given theirs back.
ClosedAgain ==
    (\A p \in Proc : look[p].op = "none") =>
        \A f \in File : file[f].mmap # NoBuf => file[f].mmap \in bufs /\ file[f].opened > 0

\* sys_pwd: the names from the root to f.
sys_pwd(f) ==
    LET Names[g \in File] == IF g = f_root THEN <<>> ELSE Append(Names[file[g].parent], file[g].name)
    IN  Names[f]

\* The current directory is one, and what pwd writes leads back to it: the
\* shell's mkdir does chdir(x), then chdir() to what pwd() gave it.
PwdRoundTrip ==
    \A p \in Proc : /\ Mode[file[pwd[p]].inum] = "dir"
                    /\ Leads(ROOT, sys_pwd(pwd[p]), file[pwd[p]].inum)

=============================================================================
