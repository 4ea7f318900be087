------------------------------- MODULE MCExt2 -------------------------------
(***************************************************************************)
(* Disks for Ext2. A disk [log, n, size] has blocks of KB * 2^log bytes    *)
(* and four inodes in two groups. Inode 3 is a file of that size with n    *)
(* blocks, in falling order on the disk; the others are short files of     *)
(* their own.                                                              *)
(***************************************************************************)
EXTENDS Ext2

LBA == 1
BS(d) == KB * 2 ^ d.log
W(d) == BS(d) \div PTRSIZE

\* The blocks of the metadata, then those of the file, then its tables.
Table(g) == 3 + g
Short(i) == 5 + i
Data(d, k) == 10 + (d.n - k)
Tab(d, t) == 10 + d.n + t

\* The file's blocks under an entry: its k-th one, or 0 behind the end.
At(d, k) == IF k < d.n THEN Data(d, k) ELSE 0
\* Table t, if the file has a block k.
If(d, k, t) == IF k < d.n THEN Tab(d, t) ELSE 0

BI(d) == NDIRECT + W(d)
TRI(d) == BI(d) + W(d) * W(d)

\* Entry k of table t: 1 is the indirect one, 2 the bi-indirect one with 11,
\* 12, ... under it, 3 the tri-indirect one, 4 and 5 the first ones under it.
Entry(d, t, k) ==
    CASE t = 1 -> At(d, NDIRECT + k)
      [] t = 2 -> If(d, BI(d) + k * W(d), 11 + k)
      [] t = 3 -> IF k = 0 THEN If(d, TRI(d), 4) ELSE 0
      [] t = 4 -> IF k = 0 THEN If(d, TRI(d), 5) ELSE 0
      [] t = 5 -> At(d, TRI(d) + k)
      [] t > 10 -> At(d, BI(d) + (t - 11) * W(d) + k)
      [] OTHER -> 0

MCInode(d, i) ==
    [kind |-> "inode", num |-> i, size |-> IF i = 3 THEN d.size ELSE i,
     block |-> [k \in 1..(NDIRECT + 3) |->
                  IF i # 3 THEN IF k = 1 THEN Short(i) ELSE 0
                  ELSE IF k <= NDIRECT THEN At(d, k - 1)
                  ELSE IF k = NDIRECT + 1 THEN If(d, NDIRECT, 1)
                  ELSE IF k = NDIRECT + 2 THEN If(d, BI(d), 2)
                  ELSE If(d, TRI(d), 3)]]

MCInums(d) == 1..4

Super(d) == [kind |-> "sb", log |-> d.log, blocks |-> 15, bpg |-> 10, inodes |-> 4, ipg |-> 2, isize |-> 1]

\* Group descriptors lie in block 1, or 2 when blocks are KB.
MCUnit(d, a) ==
    LET x == a - LBA * SECT
        b == x \div BS(d)
        o == x % BS(d)
        gd == IF d.log = 0 THEN 2 ELSE 1
        pad == [kind |-> "pad", b |-> b, o |-> o]
    IN  CASE a = PARTOFF -> [kind |-> "part", lba |-> LBA]
          [] x = KB -> Super(d)
          [] x # KB /\ b = gd /\ o < 2 * GDSIZE /\ o % GDSIZE = 0 ->
                [kind |-> "gd", table |-> Table(o \div GDSIZE)]
          [] b \in {Table(0), Table(1)} /\ o < 2 -> MCInode(d, 2 * (b - Table(0)) + o + 1)
          [] b > Tab(d, 0) /\ o % PTRSIZE = 0 ->
                [kind |-> "ptr", ptr |-> Entry(d, b - Tab(d, 0), o \div PTRSIZE)]
          [] OTHER -> pad

\* Empty, full and incomplete last blocks at the limits of each level, and
\* blocks that were allocated behind the end of the file.
Sized(log, ns) ==
    {[log |-> log, n |-> m, size |-> s] : m \in ns, s \in 0..120}

MCDisks ==
    {d \in Sized(0, {0, 1, 2, 3, 6, 7, 11, 12, 22, 23, 25}) :
        d.size \in {d.n * KB, d.n * KB - 1, d.n * KB - KB + 1}}
    \cup {d \in Sized(0, {3, 7}) : d.size = 5}
    \cup {d \in Sized(1, {1, 3, 11}) : d.size \in {d.n * 2 * KB, d.n * 2 * KB - 3}}

=============================================================================
