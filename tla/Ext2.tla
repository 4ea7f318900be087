-------------------------------- MODULE Ext2 --------------------------------
(***************************************************************************)
(* The ext2 reader: the partition and ext2_get_disk_info() at boot, then   *)
(* ext2_read_inode() and ext2_read_file() by processes, on top of          *)
(* disk_read(). One action per use of what a disk_read() returned.         *)
(***************************************************************************)
EXTENDS Disk

CONSTANTS
    PARTOFF, PARTSIZE,  \* 0x1BE and 16: where the partition table lies, and its first entry
    KB,       \* 1024: the superblock lies there, and it is the smallest block
    SBSIZE,   \* sizeof(struct ext2_super_block)
    GDSIZE,   \* sizeof(struct ext2_group_desc)
    PTRSIZE,  \* 4: bytes of a block number
    NDIRECT,  \* 12
    GROUPS,   \* 2^16: the number of groups is kept in 16 bits
    BOOT,     \* the process that mounts the disk
    Inode(_, _),  \* Inode(d, i): inode i of disk d
    Inums(_)      \* Inums(d): the inode numbers of disk d

ASSUME Ext2Assumption ==
    /\ {PARTSIZE, KB, SBSIZE, GDSIZE, PTRSIZE, NDIRECT, GROUPS} \subseteq Nat \ {0} /\ PARTOFF \in Nat
    /\ GROUPS <= INT /\ BOOT \in Proc

VARIABLES
    hd,   \* struct disk
    job   \* job[p]: what p reads

vars == <<medium, drive, req, hd, job>>

NoInode == [kind |-> "none"]
NoDisk == [lba |-> 0, blocksize |-> 0, groups |-> 0, ipg |-> 0, isize |-> 0, gd |-> <<>>]
NoJob == [pc |-> "idle", inum |-> 0, inode |-> NoInode, lvl |-> 0, ix |-> <<>>, tab |-> <<>>,
          size |-> 0, mmap |-> <<>>]

s_part == hd.lba * SECT

Init ==
    /\ DiskInit
    /\ hd = NoDisk
    /\ job = [p \in Proc |-> IF p = BOOT THEN [NoJob EXCEPT !.pc = "start"] ELSE NoJob]

\* The processor is p's.
Runs(p) == PREEMPT \/ \A q \in Proc \ {p} : job[q].pc = "idle"

\* p continues with what disk_read() returned.
Got(p, pc) == Runs(p) /\ job[p].pc = pc /\ req[p].pc = "done"

\* p calls disk_read(), which takes ints; the registers are untouched so far.
\* Offsets are sums and products of 32-bit numbers, so that it is enough to
\* reduce the result.
Request(p, offset, count) ==
    /\ req' = [req EXCEPT ![p] = disk_read(AsInt(offset), AsInt(count))]
    /\ UNCHANGED <<medium, drive>>

NoRequest(p) ==
    /\ req' = [req EXCEPT ![p] = NoReq]
    /\ UNCHANGED <<medium, drive>>

-----------------------------------------------------------------------------
\* kmain() and ext2_get_disk_info()

ReadPartition(p) ==
    /\ Runs(p) /\ job[p].pc = "start"
    /\ Request(p, PARTOFF, PARTSIZE)
    /\ job' = [job EXCEPT ![p].pc = "part"]
    /\ UNCHANGED hd

ext2_read_sb(p) ==
    LET lba == Result(req[p])[1].lba
    IN  /\ Got(p, "part")
        /\ hd' = [hd EXCEPT !.lba = lba]
        /\ Request(p, lba * SECT + KB, SBSIZE)
        /\ job' = [job EXCEPT ![p].pc = "sb"]

RoundedUp(n, per) == (n \div per) + (IF n % per # 0 THEN 1 ELSE 0)

\* The larger of the two numbers of groups, which are compared as ints.
Groups(sb) ==
    LET i == AsInt(RoundedUp(sb.blocks, sb.bpg))
        j == AsInt(RoundedUp(sb.inodes, sb.ipg))
    IN  IF i > j THEN i ELSE j

\* The superblock gives the geometry; the descriptors follow it in block 1
\* or, when a block is 1024 bytes, in block 2.
ext2_read_gd(p) ==
    LET sb == Result(req[p])[1]
        bs == KB * 2 ^ sb.log
        groups == Groups(sb) % GROUPS
    IN  /\ Got(p, "sb")
        /\ hd' = [hd EXCEPT !.blocksize = bs, !.groups = groups, !.ipg = sb.ipg, !.isize = sb.isize]
        /\ Request(p, s_part + (IF bs = KB THEN 2 * KB ELSE bs), groups * GDSIZE)
        /\ job' = [job EXCEPT ![p].pc = "gd"]

MountEnd(p) ==
    LET r == Result(req[p])
    IN  /\ Got(p, "gd")
        /\ hd' = [hd EXCEPT !.gd = [g \in 1..hd.groups |-> r[(g - 1) * GDSIZE + 1].table]]
        /\ job' = [job EXCEPT ![p] = NoJob]
        /\ NoRequest(p)

-----------------------------------------------------------------------------
\* The format of the disks (ext2.h), which is not the kernel's to choose: the
\* partition, the superblock, block groups with tables of inodes, and trees
\* of blocks. Numbers of blocks count from the partition's begin. Whatever the
\* reader has to read satisfies Fits: the disks are those of which that part
\* lies below 2 GiB.

Lba(d) == Unit(d, PARTOFF).lba
SuperBlock(d) == Unit(d, Lba(d) * SECT + KB)
BlockSize(d) == KB * 2 ^ SuperBlock(d).log
PerBlock(d) == BlockSize(d) \div PTRSIZE

\* The descriptors of the groups follow the superblock.
Descriptors(d) == Lba(d) * SECT + (IF BlockSize(d) = KB THEN 2 * KB ELSE BlockSize(d))

\* Where group g has its inodes.
GroupTable(d, g) == Unit(d, Descriptors(d) + (g - 1) * GDSIZE).table

\* A number of a block, or 0 for none.
BlockNumbers(d) == {0} \cup {t \in Nat : Fits(Lba(d) * SECT + t * BlockSize(d), BlockSize(d))}

\* The numbers in block t.
Entries(d, t) ==
    [k \in 1..PerBlock(d) |-> Unit(d, Lba(d) * SECT + t * BlockSize(d) + (k - 1) * PTRSIZE).ptr]

\* Block t, if there is one, is a table of blocks, of tables, of tables of tables.
IsTable(d, t) == t # 0 => Entries(d, t) \in [1..PerBlock(d) -> BlockNumbers(d)]
IsTable2(d, t) == IsTable(d, t) /\ (t # 0 => \A k \in 1..PerBlock(d) : IsTable(d, Entries(d, t)[k]))
IsTable3(d, t) == IsTable(d, t) /\ (t # 0 => \A k \in 1..PerBlock(d) : IsTable2(d, Entries(d, t)[k]))

\* The blocks of a file have no gap: whatever part of its size lies in a block,
\* that block and the tables above it are there.
IsFile(d, node) ==
    LET w == PerBlock(d)
        At(t, k) == Entries(d, t)[k]
        one == node.block[NDIRECT + 1]
        two == node.block[NDIRECT + 2]
        three == node.block[NDIRECT + 3]
        Has(n) == n * BlockSize(d) < node.size
    IN  /\ node.size \in Nat /\ node.block \in [1..(NDIRECT + 3) -> BlockNumbers(d)]
        /\ ~Has(NDIRECT + w + w * w + w * w * w)
        /\ IsTable(d, one) /\ IsTable2(d, two) /\ IsTable3(d, three)
        /\ \A a \in 1..NDIRECT : Has(a - 1) => node.block[a] # 0
        /\ \A a \in 1..w : Has(NDIRECT + (a - 1)) => one # 0 /\ At(one, a) # 0
        /\ \A a, b \in 1..w :
              Has(NDIRECT + w + (a - 1) * w + (b - 1)) =>
                  two # 0 /\ At(two, a) # 0 /\ At(At(two, a), b) # 0
        /\ \A a, b, c \in 1..w :
              Has(NDIRECT + w + w * w + (a - 1) * (w * w) + (b - 1) * w + (c - 1)) =>
                  /\ three # 0 /\ At(three, a) # 0
                  /\ At(At(three, a), b) # 0 /\ At(At(At(three, a), b), c) # 0

\* Inode i is the k-th one of group g when i = (g - 1) * ipg + k. The numbers
\* of groups fit into 16 bits.
Formatted(d) ==
    LET s == SuperBlock(d)
    IN  /\ {Lba(d), s.blocks, s.inodes} \subseteq Nat
        /\ {s.bpg, s.ipg, s.isize, BlockSize(d), PerBlock(d)} \subseteq Nat \ {0}
        /\ {RoundedUp(s.blocks, s.bpg), RoundedUp(s.inodes, s.ipg)} \subseteq 0..(GROUPS - 1)
        /\ Fits(PARTOFF, PARTSIZE) /\ Fits(Lba(d) * SECT + KB, SBSIZE)
        /\ Fits(Descriptors(d), Groups(s) * GDSIZE)
        /\ \A g \in 1..Groups(s) : GroupTable(d, g) \in Nat
        /\ Inums(d) \subseteq 1..s.inodes
        /\ \A g \in 1..Groups(s), k \in 1..s.ipg :
              (g - 1) * s.ipg + k \in Inums(d) =>
                  LET a == Lba(d) * SECT + GroupTable(d, g) * BlockSize(d) + (k - 1) * s.isize
                  IN  Inode(d, (g - 1) * s.ipg + k) = Unit(d, a) /\ Fits(a, s.isize)
        /\ \A i \in Inums(d) : IsFile(d, Inode(d, i))

ASSUME FormatAssumption == \A d \in Disks : Formatted(d)

-----------------------------------------------------------------------------
\* ext2_read_inode()

\* Mutant of InodeOffset: inode numbers start at 0.
InodeOffsetFrom0(i) ==
    hd.gd[((i \div hd.ipg) % hd.groups) + 1] * hd.blocksize + (i % hd.ipg) * hd.isize

\* Group and index of the inode; the first inode has number 1.
InodeOffset(i) ==
    hd.gd[((i - 1) \div hd.ipg) + 1] * hd.blocksize + ((i - 1) % hd.ipg) * hd.isize

ext2_read_inode(p, i) ==
    /\ Runs(p) /\ job[p].pc = "idle" /\ hd.gd # <<>>
    /\ Request(p, s_part + InodeOffset(i), hd.isize)
    /\ job' = [job EXCEPT ![p] = [NoJob EXCEPT !.pc = "inode", !.inum = i]]
    /\ UNCHANGED hd

-----------------------------------------------------------------------------
\* ext2_read_file(): the direct blocks (lvl 0), then the blocks under one, two
\* and three tables. tab holds the tables p, pp, ppp that are read so far, ix
\* the index of the loop over each.

\* Entries of a table.
Width(l) == IF l = 0 THEN NDIRECT ELSE hd.blocksize \div PTRSIZE

\* The table whose entries are data blocks.
Depth(l) == IF l = 0 THEN 1 ELSE l

BlockOffset(b) == s_part + b * hd.blocksize

\* Level l begins: the loop over i_block[], or the pointer to the first table.
\* A level whose pointer is 0 is left out.
Level(j, l) ==
    [j EXCEPT !.lvl = l, !.ix = IF l = 0 THEN <<1>> ELSE <<>>,
              !.tab = IF l = 0 THEN <<SubSeq(j.inode.block, 1, NDIRECT)>> ELSE <<>>,
              !.pc = IF l > 3 THEN "end" ELSE "scan"]

\* size is an int, but compared as an unsigned number and only made smaller
\* by at most itself: it stands for all of i_size.
ReadFile(p) ==
    LET node == Result(req[p])[1]
    IN  /\ Got(p, "inode")
        /\ job' = [job EXCEPT ![p] = Level([@ EXCEPT !.inode = node, !.size = node.size], 0)]
        /\ NoRequest(p)
        /\ UNCHANGED hd

\* Mutant of Pointer: the last entry of a table is not looked at.
PointerShort(j) ==
    LET d == Len(j.tab)
    IN  IF d = 0 THEN j.inode.block[NDIRECT + j.lvl]
        ELSE IF j.ix[d] < Width(j.lvl) THEN j.tab[d][j.ix[d]] ELSE 0

\* The number the innermost loop is at.
Pointer(j) ==
    LET d == Len(j.tab)
    IN  IF d = 0 THEN j.inode.block[NDIRECT + j.lvl]
        ELSE IF j.ix[d] <= Width(j.lvl) THEN j.tab[d][j.ix[d]] ELSE 0

\* The loop ends at its limit or at the first number that is 0.
LoopEnd(p) ==
    LET j == job[p]
        d == Len(j.tab)
    IN  /\ Runs(p) /\ j.pc = "scan" /\ Pointer(j) = 0
        /\ job' = [job EXCEPT ![p] =
              IF d <= 1 THEN Level(j, j.lvl + 1)
              ELSE [j EXCEPT !.tab = SubSeq(j.tab, 1, d - 1),
                             !.ix = [SubSeq(j.ix, 1, d - 1) EXCEPT ![d - 1] = @ + 1]]]
        /\ UNCHANGED <<medium, drive, req, hd>>

\* The block it names is read: a data block, or a table one level down.
ReadBlock(p) ==
    LET j == job[p]
    IN  /\ Runs(p) /\ j.pc = "scan" /\ Pointer(j) # 0
        /\ Request(p, BlockOffset(Pointer(j)), hd.blocksize)
        /\ job' = [job EXCEPT ![p].pc = IF Len(j.tab) = Depth(j.lvl) THEN "data" ELSE "table"]
        /\ UNCHANGED hd

GetTable(p) ==
    LET j == job[p]
        r == Result(req[p])
        numbers == [k \in 1..Width(j.lvl) |-> r[(k - 1) * PTRSIZE + 1].ptr]
    IN  /\ Got(p, "table")
        /\ job' = [job EXCEPT ![p].tab = Append(@, numbers), ![p].ix = Append(@, 1), ![p].pc = "scan"]
        /\ NoRequest(p)
        /\ UNCHANGED hd

\* n: a block, or what is left of the file.
Copied(j) == IF j.size > hd.blocksize THEN hd.blocksize ELSE j.size

Advanced(ix) == [ix EXCEPT ![Len(ix)] = @ + 1]

\* Mutant of GetData: a block of which nothing is copied is not counted.
GetDataStays(p) ==
    LET n == Copied(job[p])
    IN  /\ Got(p, "data")
        /\ job' = [job EXCEPT ![p].mmap = @ \o SubSeq(Result(req[p]), 1, n), ![p].size = @ - n,
                              ![p].ix = IF n = 0 THEN @ ELSE Advanced(@), ![p].pc = "scan"]
        /\ NoRequest(p)
        /\ UNCHANGED hd

GetData(p) ==
    LET n == Copied(job[p])
    IN  /\ Got(p, "data")
        /\ job' = [job EXCEPT ![p].mmap = @ \o SubSeq(Result(req[p]), 1, n), ![p].size = @ - n,
                              ![p].ix = Advanced(@), ![p].pc = "scan"]
        /\ NoRequest(p)
        /\ UNCHANGED hd

\* mmap_base is returned.
ReadEnd(p) ==
    /\ Runs(p) /\ job[p].pc = "end"
    /\ job' = [job EXCEPT ![p] = NoJob]
    /\ UNCHANGED <<medium, drive, req, hd>>

\* What p does next in the call it is in.
Step(p) ==
    \/ ReadPartition(p) \/ ext2_read_sb(p) \/ ext2_read_gd(p) \/ MountEnd(p)
    \/ ReadFile(p) \/ LoopEnd(p) \/ ReadBlock(p) \/ GetTable(p) \/ GetData(p) \/ ReadEnd(p)
    \/ Runs(p) /\ DiskStep(p) /\ UNCHANGED <<hd, job>>

Next ==
    \E p \in Proc : \/ Step(p)
                    \/ \E i \in Inums(medium) : ext2_read_inode(p, i)

\* A process executes the call it is in; nobody has to read files.
Spec == Init /\ [][Next]_vars /\ \A p \in Proc : WF_vars(Step(p))

-----------------------------------------------------------------------------

\* ext2_read_inode(): from the superblock, the descriptors and the number the
\* inode of that number is found, in every group.
InodeRight ==
    \A p \in Proc : job[p].inode # NoInode => job[p].inode = Inode(medium, job[p].inum)

\* The block of the disk that holds block n of the file, by the layout of ext2
\* (ext2.h, struct ext2_inode).
BlockOf(node, n) ==
    LET w == hd.blocksize \div PTRSIZE
        At(t, k) == Unit(medium, BlockOffset(t) + k * PTRSIZE).ptr
        ind == n - NDIRECT
        bi == ind - w
        tri == bi - w * w
    IN  IF ind < 0 THEN node.block[n + 1]
        ELSE IF bi < 0 THEN At(node.block[NDIRECT + 1], ind)
        ELSE IF tri < 0 THEN At(At(node.block[NDIRECT + 2], bi \div w), bi % w)
        ELSE At(At(At(node.block[NDIRECT + 3], tri \div (w * w)), (tri \div w) % w), tri % w)

\* ext2_read_file(): at any point the buffer holds the beginning of the file,
\* what is left to copy is what is missing, never less than nothing (the
\* buffer has i_size bytes), and at the end nothing is.
FileRight ==
    \A p \in Proc :
        LET j == job[p]
        IN  j.inode # NoInode =>
              /\ Len(j.mmap) + j.size = j.inode.size /\ j.size >= 0
              /\ \A x \in 0..(Len(j.mmap) - 1) :
                    j.mmap[x + 1] =
                        Unit(medium, BlockOffset(BlockOf(j.inode, x \div hd.blocksize)) + (x % hd.blocksize))
              /\ j.pc = "end" => j.size = 0

\* Every read comes to an end: each of the nested loops advances, and no
\* process waits for sectors the controller does not have.
ReadEnds == \A p \in Proc : job[p].pc # "idle" ~> job[p].pc = "idle"

=============================================================================
