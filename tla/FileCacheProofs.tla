-------------------------- MODULE FileCacheProofs --------------------------
(***************************************************************************)
(* Proofs about the file cache, for any disk, any paths and any number of  *)
(* processes.                                                              *)
(***************************************************************************)
EXTENDS FileCache, Sequences, FiniteSetTheorems, WellFoundedInduction, TLAPS

\* The minimum of a non-empty set of naturals is one of its elements: what
\* the searches of the kernel for a first one find is there.
LEMMA MinInSet ==
    ASSUME NEW S \in SUBSET Nat, S # {}
    PROVE  Min(S) \in S /\ \A y \in S : Min(S) <= y
<1>1. PICK x \in S : \A y \in S : ~(<<y, x>> \in OpToRel(<, Nat))
  BY NatLessThanWellFounded, WFMin, Zenon
<1>2. ASSUME NEW y \in S
      PROVE  x <= y
  <2>1. x \in Nat /\ y \in Nat
    OBVIOUS
  <2>2. ~(y < x)
    BY <1>1, <2>1 DEF OpToRel
  <2> QED
    BY <2>1, <2>2
<1> QED
  BY <1>2 DEF Min

\* The elements of a concatenation, by position.
LEMMA ConcatFacts ==
    ASSUME NEW S, NEW s \in Seq(S), NEW t \in Seq(S)
    PROVE  /\ Len(s \o t) = Len(s) + Len(t)
           /\ \A i \in 1..Len(s) : (s \o t)[i] = s[i]
           /\ \A i \in 1..Len(t) : (s \o t)[Len(s) + i] = t[i]
<1>1. Len(s) \in Nat /\ Len(t) \in Nat
  OBVIOUS
<1>2. \A i \in 1..Len(t) : /\ Len(s) + i \in 1..(Len(s) + Len(t))
                           /\ Len(s) + i > Len(s)
                           /\ (Len(s) + i) - Len(s) = i
  BY <1>1
<1> QED
  BY <1>1, <1>2

\* A list without its first element.
LEMMA TailFacts ==
    ASSUME NEW S, NEW s \in Seq(S), s # <<>>
    PROVE  /\ Tail(s) \in Seq(S) /\ Len(Tail(s)) = Len(s) - 1 /\ Len(s) \in Nat /\ Len(s) > 0
           /\ \A i \in 1..(Len(s) - 1) : Tail(s)[i] = s[i + 1]
OBVIOUS

-----------------------------------------------------------------------------

\* struct file.
Rec == [name : STRING \cup {"/"}, inum : Inode, parent : Nat, inode : BOOLEAN, mmap : Nat,
        opened : Int, leaf : Seq(Nat)]

\* The statements of get_dir_entries() and what follows it.
Dirs == {"dir", "read", "map", "entry", "add", "close", "clear", "leaf"}

\* The local variables of a lookup.
LookRec ==
    [op : {"none", "init", "open", "chdir", "exec"}, pc : {"idle", "word", "fail"} \cup Dirs,
     fp : Nat, rest : Seq(STRING), k : Nat, base : Nat, toclose : BOOLEAN,
     from : Inode, names : Seq(STRING)]

\* A struct points to structs.
FileOK ==
    /\ file \in Seq(Rec) /\ Len(file) >= 1
    /\ \A f \in File : file[f].parent \in File /\ \A g \in Range(file[f].leaf) : g \in File

\* Where a lookup stands, and what it has there.
LookOK(p) ==
    LET l == look[p]
        es == Entries[file[l.fp].inum]
    IN  /\ l.fp \in File
        /\ l.pc = "idle" <=> l.op = "none"
        /\ l.op = "init" => l.pc \in Dirs
        /\ l.op # "init" /\ l.pc \in Dirs => l.rest # <<>>
        /\ l.pc = "entry" => l.k >= 1
        /\ l.pc = "add" => l.k \in DOMAIN es /\ es[l.k].inum # Unused /\ es[l.k].name \notin Dots

TypeInv ==
    /\ FileOK
    /\ bufs \in SUBSET (1..MAXBUF)
    /\ pwd \in [Proc -> Nat] /\ \A p \in Proc : pwd[p] \in File
    /\ fd \in [Proc -> Nat] /\ \A p \in Proc : fd[p] \in File \cup {NoFile}
    /\ look \in [Proc -> LookRec] /\ \A p \in Proc : LookOK(p)

-----------------------------------------------------------------------------

\* The disk and the paths.
LEMMA Disk ==
    /\ JUNK \subseteq Int /\ IsFiniteSet(Proc)
    /\ PREEMPT \in BOOLEAN /\ MAXBUF \in Nat
    /\ ROOT \in Inode /\ Mode[ROOT] = "dir" /\ Unused \notin Inode
    /\ \A i \in Inode : Entries[i] \in Seq([name : STRING, inum : Inode \cup {Unused}])
    /\ \A i \in Inode : Mode[i] # "dir" => Entries[i] = <<>>
    /\ Paths \subseteq [abs : BOOLEAN, names : Seq(STRING)]
BY CacheAssumption

\* One element of a list is replaced.
LEMMA ExceptFacts ==
    ASSUME NEW S, NEW s \in Seq(S), NEW k \in 1..Len(s), NEW e \in S
    PROVE  /\ [s EXCEPT ![k] = e] \in Seq(S) /\ Len([s EXCEPT ![k] = e]) = Len(s)
           /\ [s EXCEPT ![k] = e][k] = e
           /\ \A i \in 1..Len(s) : i # k => [s EXCEPT ![k] = e][i] = s[i]
OBVIOUS

\* Nothing of the tree changes but inodes and buffers.
TreeKept ==
    /\ Len(file') = Len(file)
    /\ \A f \in File : /\ file'[f].name = file[f].name /\ file'[f].inum = file[f].inum
                       /\ file'[f].parent = file[f].parent /\ file'[f].leaf = file[f].leaf

\* The buffers the structs point to stay, and the counters.
MapsKept == \A f \in File : file'[f].mmap = file[f].mmap /\ file'[f].opened = file[f].opened

\* The buffer of f is b and its counter is changed by n, the others stay.
MapSet(f, b, n) ==
    /\ file'[f].mmap = b /\ file'[f].opened = file[f].opened + n
    /\ \A g \in File : g # f => file'[g].mmap = file[g].mmap /\ file'[g].opened = file[g].opened

\* A struct is changed, but not its place in the tree.
LEMMA RecSet ==
    ASSUME FileOK, NEW f \in File, NEW e \in Rec, file' = [file EXCEPT ![f] = e],
           e.name = file[f].name, e.inum = file[f].inum, e.parent = file[f].parent, e.leaf = file[f].leaf
    PROVE  FileOK' /\ TreeKept /\ file'[f] = e /\ \A g \in File : g # f => file'[g] = file[g]
<1>1. file \in Seq(Rec) /\ f \in 1..Len(file)
  BY DEF FileOK, File
<1>2. /\ file' \in Seq(Rec) /\ Len(file') = Len(file) /\ file'[f] = e
      /\ \A g \in 1..Len(file) : g # f => file'[g] = file[g]
  <2> DEFINE t == [file EXCEPT ![f] = e]
  <2>1. /\ t \in Seq(Rec) /\ Len(t) = Len(file) /\ t[f] = e
        /\ \A g \in 1..Len(file) : g # f => t[g] = file[g]
    BY <1>1, ExceptFacts
  <2>2. file' = t
    OBVIOUS
  <2> HIDE DEF t
  <2> QED
    BY <2>1, <2>2
<1>3. TreeKept
  BY <1>2 DEF TreeKept, File
<1> QED
  BY <1>2, <1>3 DEF FileOK, TreeKept, File

\* An inode is read.
LEMMA InodeRead ==
    ASSUME FileOK, NEW f \in File, file' = [file EXCEPT ![f].inode = TRUE]
    PROVE  FileOK' /\ TreeKept /\ MapsKept
<1>1. file \in Seq(Rec) /\ f \in 1..Len(file) /\ file[f] \in Rec
  BY DEF FileOK, File
<1> DEFINE e == [file[f] EXCEPT !.inode = TRUE]
<1>2. /\ e \in Rec /\ e.name = file[f].name /\ e.inum = file[f].inum /\ e.parent = file[f].parent
      /\ e.leaf = file[f].leaf /\ e.mmap = file[f].mmap /\ e.opened = file[f].opened
  BY <1>1 DEF Rec
<1>3. file' = [file EXCEPT ![f] = e]
  OBVIOUS
<1> HIDE DEF e
<1>4. FileOK' /\ TreeKept /\ file'[f] = e /\ \A g \in File : g # f => file'[g] = file[g]
  BY <1>2, <1>3, RecSet
<1> QED
  BY <1>2, <1>4 DEF MapsKept

\* Fields of a struct are set.
LEMMA SetOpened ==
    ASSUME NEW r \in Rec, NEW v \in Int
    PROVE  LET e == [r EXCEPT !.opened = v]
           IN  /\ e \in Rec /\ e.name = r.name /\ e.inum = r.inum /\ e.parent = r.parent
               /\ e.leaf = r.leaf /\ e.mmap = r.mmap /\ e.opened = v
BY DEF Rec

LEMMA SetInode ==
    ASSUME NEW r \in Rec
    PROVE  LET e == [r EXCEPT !.inode = TRUE]
           IN  /\ e \in Rec /\ e.name = r.name /\ e.inum = r.inum /\ e.parent = r.parent
               /\ e.leaf = r.leaf /\ e.mmap = r.mmap /\ e.opened = r.opened
BY DEF Rec

LEMMA SetMmap ==
    ASSUME NEW r \in Rec, NEW b \in Nat
    PROVE  LET e == [r EXCEPT !.mmap = b]
           IN  /\ e \in Rec /\ e.name = r.name /\ e.inum = r.inum /\ e.parent = r.parent
               /\ e.leaf = r.leaf /\ e.mmap = b /\ e.opened = r.opened
BY DEF Rec

LEMMA SetBoth ==
    ASSUME NEW r \in Rec, NEW v \in Int, NEW b \in Nat
    PROVE  LET e == [r EXCEPT !.opened = v, !.mmap = b]
           IN  /\ e \in Rec /\ e.name = r.name /\ e.inum = r.inum /\ e.parent = r.parent
               /\ e.leaf = r.leaf /\ e.mmap = b /\ e.opened = v
<1> DEFINE e1 == [r EXCEPT !.opened = v]
           e2 == [e1 EXCEPT !.mmap = b]
<1>1. /\ e1 \in Rec /\ e1.name = r.name /\ e1.inum = r.inum /\ e1.parent = r.parent
      /\ e1.leaf = r.leaf /\ e1.mmap = r.mmap /\ e1.opened = v
  BY SetOpened
<1>2. [r EXCEPT !.opened = v, !.mmap = b] = e2
  OBVIOUS
<1> HIDE DEF e1
<1>3. /\ e2 \in Rec /\ e2.name = r.name /\ e2.inum = r.inum /\ e2.parent = r.parent
      /\ e2.leaf = r.leaf /\ e2.mmap = b /\ e2.opened = v
  BY <1>1, SetMmap
<1> HIDE DEF e2
<1> QED
  BY <1>2, <1>3

LEMMA SetAll ==
    ASSUME NEW r \in Rec, NEW v \in Int, NEW b \in Nat
    PROVE  LET e == [r EXCEPT !.opened = v, !.inode = TRUE, !.mmap = b]
           IN  /\ e \in Rec /\ e.name = r.name /\ e.inum = r.inum /\ e.parent = r.parent
               /\ e.leaf = r.leaf /\ e.mmap = b /\ e.opened = v
<1> DEFINE e1 == [r EXCEPT !.opened = v]
           e2 == [e1 EXCEPT !.inode = TRUE]
           e3 == [e2 EXCEPT !.mmap = b]
<1>1. /\ e1 \in Rec /\ e1.name = r.name /\ e1.inum = r.inum /\ e1.parent = r.parent
      /\ e1.leaf = r.leaf /\ e1.mmap = r.mmap /\ e1.opened = v
  BY SetOpened
<1>2. [r EXCEPT !.opened = v, !.inode = TRUE, !.mmap = b] = e3
  OBVIOUS
<1> HIDE DEF e1
<1>3. /\ e2 \in Rec /\ e2.name = r.name /\ e2.inum = r.inum /\ e2.parent = r.parent
      /\ e2.leaf = r.leaf /\ e2.mmap = r.mmap /\ e2.opened = v
  BY <1>1, SetInode
<1> HIDE DEF e2
<1>4. /\ e3 \in Rec /\ e3.name = r.name /\ e3.inum = r.inum /\ e3.parent = r.parent
      /\ e3.leaf = r.leaf /\ e3.mmap = b /\ e3.opened = v
  BY <1>3, SetMmap
<1> HIDE DEF e3
<1> QED
  BY <1>2, <1>4

\* The fields of a struct.
LEMMA RecOf ==
    ASSUME FileOK, NEW f \in File
    PROVE  file[f] \in Rec /\ file[f].mmap \in Nat /\ file[f].opened \in Int
<1>1. file[f] \in Rec
  BY DEF FileOK, File
<1> QED
  BY <1>1 DEF Rec

\* A buffer is set.
LEMMA BufferSet ==
    ASSUME FileOK, NEW f \in File, NEW b \in Nat,
           file' = [file EXCEPT ![f].mmap = b]
    PROVE  FileOK' /\ TreeKept /\ MapSet(f, b, 0)
<1> DEFINE e == [file[f] EXCEPT !.mmap = b]
<1>1. file[f] \in Rec /\ file[f].opened \in Int
  BY RecOf
<1>2. file' = [file EXCEPT ![f] = e]
  OBVIOUS
<1>3. /\ e \in Rec /\ e.name = file[f].name /\ e.inum = file[f].inum /\ e.parent = file[f].parent
      /\ e.leaf = file[f].leaf /\ e.mmap = b /\ e.opened = file[f].opened
  BY <1>1, SetMmap
<1> HIDE DEF e
<1>4. FileOK' /\ TreeKept /\ file'[f] = e /\ \A g \in File : g # f => file'[g] = file[g]
  BY <1>2, <1>3, RecSet
<1> QED
  BY <1>1, <1>3, <1>4 DEF MapSet

\* A struct is opened.
LEMMA OpenedSet ==
    ASSUME FileOK, NEW f \in File, NEW b \in Nat,
           file' = [file EXCEPT ![f] = [file[f] EXCEPT !.opened = @ + 1, !.inode = TRUE, !.mmap = b]]
    PROVE  FileOK' /\ TreeKept /\ MapSet(f, b, 1)
<1> DEFINE v == file[f].opened + 1
           e == [file[f] EXCEPT !.opened = v, !.inode = TRUE, !.mmap = b]
<1>1. file[f] \in Rec /\ file[f].opened \in Int
  BY RecOf
<1>2. v = file[f].opened + 1 /\ v \in Int
  BY <1>1
<1>3. file' = [file EXCEPT ![f] = e]
  OBVIOUS
<1> HIDE DEF v
<1>4. /\ e \in Rec /\ e.name = file[f].name /\ e.inum = file[f].inum /\ e.parent = file[f].parent
      /\ e.leaf = file[f].leaf /\ e.mmap = b /\ e.opened = v
  BY <1>1, <1>2, SetAll
<1> HIDE DEF e
<1>5. FileOK' /\ TreeKept /\ file'[f] = e /\ \A g \in File : g # f => file'[g] = file[g]
  BY <1>3, <1>4, RecSet
<1> QED
  BY <1>2, <1>4, <1>5 DEF MapSet

\* The last one who had it open is gone.
LEMMA LastSet ==
    ASSUME FileOK, NEW f \in File, file[f].opened = 1,
           file' = [file EXCEPT ![f] = [file[f] EXCEPT !.opened = 0, !.mmap = NoBuf]]
    PROVE  FileOK' /\ TreeKept /\ MapSet(f, NoBuf, -1)
<1> DEFINE v == 0
           e == [file[f] EXCEPT !.opened = v, !.mmap = NoBuf]
<1>1. file[f] \in Rec /\ file[f].opened \in Int
  BY RecOf
<1>2. v = file[f].opened + (-1) /\ v \in Int
  BY <1>1
<1>3. file' = [file EXCEPT ![f] = e]
  OBVIOUS
<1> HIDE DEF v
<1>n. NoBuf \in Nat
  BY DEF NoBuf
<1>4. /\ e \in Rec /\ e.name = file[f].name /\ e.inum = file[f].inum /\ e.parent = file[f].parent
      /\ e.leaf = file[f].leaf /\ e.mmap = NoBuf /\ e.opened = v
  BY <1>1, <1>2, <1>n, SetBoth
<1> HIDE DEF e
<1>5. FileOK' /\ TreeKept /\ file'[f] = e /\ \A g \in File : g # f => file'[g] = file[g]
  BY <1>3, <1>4, RecSet
<1> QED
  BY <1>2, <1>4, <1>5 DEF MapSet

\* The counter is decremented.
LEMMA CounterSet ==
    ASSUME FileOK, NEW f \in File, 
           file' = [file EXCEPT ![f].opened = @ - 1]
    PROVE  FileOK' /\ TreeKept /\ MapSet(f, file[f].mmap, -1)
<1> DEFINE v == file[f].opened - 1
           e == [file[f] EXCEPT !.opened = v]
<1>1. file[f] \in Rec /\ file[f].opened \in Int
  BY RecOf
<1>2. v = file[f].opened + (-1) /\ v \in Int
  BY <1>1
<1>3. file' = [file EXCEPT ![f] = e]
  OBVIOUS
<1> HIDE DEF v
<1>4. /\ e \in Rec /\ e.name = file[f].name /\ e.inum = file[f].inum /\ e.parent = file[f].parent
      /\ e.leaf = file[f].leaf /\ e.mmap = file[f].mmap /\ e.opened = v
  BY <1>1, <1>2, SetOpened
<1> HIDE DEF e
<1>5. FileOK' /\ TreeKept /\ file'[f] = e /\ \A g \in File : g # f => file'[g] = file[g]
  BY <1>3, <1>4, RecSet
<1> QED
  BY <1>2, <1>4, <1>5 DEF MapSet

\* The search of a directory's leaves finds one of that name, if there is one.
LEMMA CachedFacts ==
    ASSUME FileOK, NEW f \in File, NEW name
    PROVE  LET g == is_cached_leaf(f, name)
           IN  \/ g = NoFile /\ \A h \in Range(file[f].leaf) : file[h].name # name
               \/ g # NoFile /\ g \in Range(file[f].leaf) /\ g \in File /\ file[g].name = name
<1> DEFINE s == file[f].leaf
           I == {i \in 1..Len(s) : file[s[i]].name = name}
           k == SelectInSeq(s, LAMBDA h : file[h].name = name)
<1>1. file[f] \in Rec
  BY DEF FileOK, File
<1>2. s \in Seq(Nat) /\ DOMAIN s = 1..Len(s) /\ Len(s) \in Nat
  BY <1>1 DEF Rec
<1>3. k = IF I # {} THEN Min(I) ELSE 0
  BY DEF SelectInSeq
<1>k. is_cached_leaf(f, name) = IF k = 0 THEN NoFile ELSE s[k]
  BY DEF is_cached_leaf
<1> HIDE DEF k
<1>4. CASE I = {}
  <2>1. is_cached_leaf(f, name) = NoFile
    BY <1>3, <1>4, <1>k
  <2>2. \A h \in Range(s) : file[h].name # name
    BY <1>2, <1>4 DEF Range
  <2> QED
    BY <2>1, <2>2
<1>5. CASE I # {}
  <2>1. I \in SUBSET Nat
    OBVIOUS
  <2>2. Min(I) \in I
    BY <1>5, <2>1, MinInSet
  <2>3. k \in I
    BY <1>3, <1>5, <2>2
  <2>4. k # 0 /\ s[k] \in Range(s) /\ file[s[k]].name = name
    BY <1>2, <2>3 DEF Range
  <2>5. is_cached_leaf(f, name) = s[k]
    BY <2>4, <1>k
  <2>6. s[k] \in File /\ s[k] # NoFile
    BY <2>4 DEF FileOK, File, NoFile
  <2> QED
    BY <2>4, <2>5, <2>6
<1> QED
  BY <1>4, <1>5

-----------------------------------------------------------------------------
\* What each statement does, field by field.

Others(p) == \A q \in Proc : q # p => look'[q] = look[q]

\* The lookup of p goes on with the same path ...
Keeps(p) ==
    /\ look'[p].op = look[p].op /\ look'[p].from = look[p].from /\ look'[p].names = look[p].names
    /\ Others(p)

\* ... at the same word.
Here(p) == Keeps(p) /\ look'[p].fp = look[p].fp /\ look'[p].rest = look[p].rest

\* The structs that were there keep their inodes.
Grown == Len(file') >= Len(file) /\ \A f \in File : file'[f].inum = file[f].inum

\* One lookup changes.
LEMMA LookSet ==
    ASSUME TypeInv, NEW p \in Proc, NEW l \in LookRec, look' = [look EXCEPT ![p] = l]
    PROVE  look' \in [Proc -> LookRec] /\ look'[p] = l /\ Others(p)
BY DEF TypeInv, Others

\* The types are kept when the structs grow and one lookup changes.
LEMMA TypeFrom ==
    ASSUME TypeInv, FileOK', Grown, bufs' \in SUBSET (1..MAXBUF),
           pwd' \in [Proc -> Nat], \A q \in Proc : pwd'[q] \in File,
           fd' \in [Proc -> Nat], \A q \in Proc : fd'[q] \in File \cup {NoFile},
           look' \in [Proc -> LookRec], NEW p \in Proc, Others(p), LookOK(p)'
    PROVE  TypeInv'
<1>1. File \subseteq File'
  BY DEF Grown, File, TypeInv, FileOK
<1>2. \A q \in Proc : LookOK(q)'
  <2> SUFFICES ASSUME NEW q \in Proc, q # p PROVE LookOK(q)'
    OBVIOUS
  <2>1. LookOK(q) /\ look'[q] = look[q]
    BY DEF TypeInv, Others
  <2>2. look[q].fp \in File /\ file'[look[q].fp].inum = file[look[q].fp].inum
    BY <2>1 DEF LookOK, Grown
  <2> QED
    BY <1>1, <2>1, <2>2 DEF LookOK
<1> QED
  BY <1>1, <1>2 DEF TypeInv

\* The types are kept by a step that leaves the tree alone.
LEMMA TypeKept ==
    ASSUME TypeInv, FileOK', TreeKept, bufs' \in SUBSET (1..MAXBUF), UNCHANGED <<pwd, fd>>,
           look' \in [Proc -> LookRec], NEW p \in Proc, Others(p), LookOK(p)'
    PROVE  TypeInv'
<1>1. Grown
  BY DEF TreeKept, Grown, TypeInv, FileOK
<1> QED
  BY <1>1, TypeFrom DEF TypeInv

\* The structs of an unchanged cache.
LEMMA FileSame == ASSUME TypeInv, file' = file PROVE FileOK' /\ TreeKept /\ MapsKept
BY DEF TypeInv, FileOK, TreeKept, MapsKept, File

\* What is known of a lookup.
LEMMA LookHas ==
    ASSUME TypeInv, NEW p \in Proc
    PROVE  /\ look[p] \in LookRec /\ look[p].fp \in File /\ file[look[p].fp] \in Rec
           /\ look[p].fp \in Nat /\ LookOK(p)
<1>1. look[p] \in LookRec /\ LookOK(p)
  BY DEF TypeInv
<1>2. look[p].fp \in File
  BY <1>1 DEF LookOK
<1>3. look[p].fp \in Nat
  BY <1>1 DEF LookRec
<1>4. file \in Seq(Rec)
  BY DEF TypeInv, FileOK
<1>5. file[look[p].fp] \in Rec
  BY <1>2, <1>4 DEF File
<1> QED
  BY <1>1, <1>2, <1>3, <1>5

\* A lookup that stands still has this state.
LEMMA IdleHas == /\ Idle \in LookRec /\ Idle.op = "none" /\ Idle.pc = "idle" /\ Idle.fp = f_root
BY Disk DEF Idle, LookRec, f_root, NoBuf

\* A call begins: at the root or at the current directory.
LEMMA BeginStep ==
    ASSUME TypeInv, NEW p \in Proc, NEW op \in {"open", "chdir", "exec"}, NEW path \in Paths,
           Begin(p, op, path)
    PROVE  /\ TypeInv' /\ UNCHANGED <<file, bufs, pwd, fd>>
           /\ Runs(p) /\ look[p].op = "none" /\ Others(p)
           /\ look'[p].op = op /\ look'[p].pc = "word" /\ look'[p].fp \in {f_root, pwd[p]}
           /\ look'[p].from = file[look'[p].fp].inum /\ look'[p].rest = look'[p].names
<1> DEFINE start == IF path.abs THEN f_root ELSE pwd[p]
           l == [Idle EXCEPT !.op = op, !.pc = "word", !.fp = start, !.rest = path.names,
                             !.from = file[start].inum, !.names = path.names]
<1>1. start \in File /\ start \in Nat /\ start \in {f_root, pwd[p]}
  BY DEF TypeInv, FileOK, File, f_root
<1>2. file[start] \in Rec
  BY <1>1 DEF TypeInv, FileOK, File
<1>3. path.names \in Seq(STRING) /\ file[start].inum \in Inode
  BY <1>2, Disk DEF Rec
<1> HIDE DEF start
<1>4. /\ l \in LookRec /\ l.op = op /\ l.pc = "word" /\ l.fp = start /\ l.from = file[start].inum
      /\ l.rest = path.names /\ l.names = path.names
  BY <1>1, <1>3 DEF Idle, LookRec, f_root, NoBuf
<1>5. look' = [look EXCEPT ![p] = l] /\ UNCHANGED <<file, bufs, pwd, fd>> /\ Runs(p) /\ look[p].op = "none"
  BY DEF Begin, start
<1> HIDE DEF l
<1>6. look' \in [Proc -> LookRec] /\ look'[p] = l /\ Others(p)
  BY <1>4, <1>5, LookSet
<1>7. LookOK(p)'
  BY <1>1, <1>4, <1>5, <1>6 DEF LookOK, Dirs, File
<1>8. TypeInv'
  BY <1>5, <1>6, <1>7, FileSame, TypeKept DEF TypeInv
<1> QED
  BY <1>1, <1>4, <1>5, <1>6, <1>8

\* A lookup goes on: the types are kept.
LEMMA Move ==
    ASSUME TypeInv, NEW p \in Proc, NEW l \in LookRec, look' = [look EXCEPT ![p] = l],
           FileOK', TreeKept, bufs' \in SUBSET (1..MAXBUF), UNCHANGED <<pwd, fd>>,
           l.fp \in File, l.pc # "idle", l.op # "none", l.op = "init" => l.pc \in Dirs,
           (l.op # "init" /\ l.pc \in Dirs) => l.rest # <<>>,
           l.pc = "entry" => l.k >= 1,
           l.pc = "add" => /\ l.k \in DOMAIN Entries[file[l.fp].inum]
                           /\ Entries[file[l.fp].inum][l.k].inum # Unused
                           /\ Entries[file[l.fp].inum][l.k].name \notin Dots
    PROVE  TypeInv' /\ look'[p] = l /\ Others(p)
<1>1. look' \in [Proc -> LookRec] /\ look'[p] = l /\ Others(p)
  BY LookSet
<1>2. LookOK(p)'
  BY <1>1 DEF LookOK, TreeKept, File
<1> QED
  BY <1>1, <1>2, TypeKept

\* A lookup that is at a statement is under way, with a path if it is not the
\* one of init_root().
LEMMA Busy ==
    ASSUME TypeInv, NEW p \in Proc, look[p].pc # "idle"
    PROVE  /\ look[p] \in LookRec /\ look[p].fp \in File /\ look[p].fp \in Nat /\ FileOK
           /\ file[look[p].fp] \in Rec
           /\ look[p].op # "none" /\ look[p].rest \in Seq(STRING)
           /\ look[p].pc \notin Dirs => look[p].op # "init"
           /\ (look[p].op # "init" /\ look[p].pc \in Dirs) => look[p].rest # <<>>
BY LookHas DEF LookOK, LookRec, TypeInv

\* A word of the path.
LEMMA WordStep ==
    ASSUME TypeInv, NEW p \in Proc, Word(p)
    PROVE  /\ TypeInv' /\ UNCHANGED <<bufs, pwd, fd>> /\ TreeKept /\ MapsKept
           /\ Runs(p) /\ look[p].pc = "word" /\ look[p].rest # <<>> /\ Keeps(p)
           /\ \/ /\ ~is_directory(look[p].fp)
                 /\ look'[p].pc = "fail"
              \/ /\ is_directory(look[p].fp) /\ Head(look[p].rest) \in Dots
                 /\ look'[p].pc = "word" /\ look'[p].rest = Tail(look[p].rest)
                 /\ look'[p].fp = Advance(look[p].fp, Head(look[p].rest))
              \/ /\ is_directory(look[p].fp) /\ Head(look[p].rest) \notin Dots
                 /\ look'[p].pc = "dir" /\ look'[p].fp = look[p].fp /\ look'[p].rest = look[p].rest
<1> DEFINE f == look[p].fp
           name == Head(look[p].rest)
<1>1. /\ Runs(p) /\ look[p].pc = "word" /\ look[p].rest # <<>> /\ UNCHANGED <<bufs, pwd, fd>>
      /\ file' = [file EXCEPT ![f].inode = TRUE]
  BY DEF Word, At
<1>2. /\ look[p] \in LookRec /\ f \in File /\ f \in Nat /\ FileOK /\ look[p].rest \in Seq(STRING)
      /\ look[p].op # "none" /\ look[p].op # "init"
  BY <1>1, Busy DEF Dirs
<1>3. FileOK' /\ TreeKept /\ MapsKept
  BY <1>1, <1>2, InodeRead
<1>4. bufs' \in SUBSET (1..MAXBUF)
  BY <1>1 DEF TypeInv
<1>5. Advance(f, name) \in File /\ Advance(f, name) \in Nat
  BY <1>2 DEF Advance, FileOK, File
<1>6. Tail(look[p].rest) \in Seq(STRING)
  BY <1>1, <1>2, TailFacts, Zenon
<1>7. CASE ~is_directory(f) /\ look' = [look EXCEPT ![p].pc = "fail"]
  <2> DEFINE l == [look[p] EXCEPT !.pc = "fail"]
  <2>1. /\ l \in LookRec /\ l.op = look[p].op /\ l.from = look[p].from /\ l.names = look[p].names
        /\ l.pc = "fail" /\ l.fp = look[p].fp
    BY <1>2 DEF LookRec
  <2>2. look' = [look EXCEPT ![p] = l]
    BY <1>7
  <2> HIDE DEF l, f
  <2>3. TypeInv' /\ look'[p] = l /\ Others(p)
    BY <1>1, <1>2, <1>3, <1>4, <2>1, <2>2, Move DEF Dirs, f
  <2> QED
    BY <1>1, <1>3, <1>7, <2>1, <2>3 DEF Keeps, f
<1>8. CASE /\ is_directory(f) /\ name \in Dots
           /\ look' = [look EXCEPT ![p].fp = Advance(f, name), ![p].rest = Tail(@)]
  <2> DEFINE l == [look[p] EXCEPT !.fp = Advance(f, name), !.rest = Tail(@)]
  <2>1. /\ l \in LookRec /\ l.op = look[p].op /\ l.from = look[p].from /\ l.names = look[p].names
        /\ l.pc = "word" /\ l.fp = Advance(f, name) /\ l.rest = Tail(look[p].rest)
    BY <1>1, <1>2, <1>5, <1>6 DEF LookRec
  <2>2. look' = [look EXCEPT ![p] = l]
    BY <1>8 DEF TypeInv
  <2> HIDE DEF l, f, name
  <2>3. TypeInv' /\ look'[p] = l /\ Others(p)
    BY <1>1, <1>2, <1>3, <1>4, <1>5, <2>1, <2>2, Move DEF Dirs
  <2> QED
    BY <1>1, <1>3, <1>8, <2>1, <2>3 DEF Keeps, f, name
<1>9. CASE is_directory(f) /\ name \notin Dots /\ look' = [look EXCEPT ![p].pc = "dir"]
  <2> DEFINE l == [look[p] EXCEPT !.pc = "dir"]
  <2>1. /\ l \in LookRec /\ l.op = look[p].op /\ l.from = look[p].from /\ l.names = look[p].names
        /\ l.pc = "dir" /\ l.fp = look[p].fp /\ l.rest = look[p].rest
    BY <1>2 DEF LookRec, Dirs
  <2>2. look' = [look EXCEPT ![p] = l]
    BY <1>9
  <2> HIDE DEF l, f, name
  <2>3. TypeInv' /\ look'[p] = l /\ Others(p)
    BY <1>1, <1>2, <1>3, <1>4, <2>1, <2>2, Move DEF f
  <2> QED
    BY <1>1, <1>3, <1>9, <2>1, <2>3 DEF Keeps, f, name
<1> QED
  BY <1>7, <1>8, <1>9 DEF Word

\* The leaf of that name is the next file, or the path names nothing.
LEMMA LeafStep ==
    ASSUME TypeInv, NEW p \in Proc, Leaf(p)
    PROVE  /\ TypeInv' /\ UNCHANGED <<file, bufs, pwd, fd>>
           /\ Runs(p) /\ look[p].pc = "leaf" /\ look[p].op # "init" /\ look[p].rest # <<>> /\ Keeps(p)
           /\ LET g == is_cached_leaf(look[p].fp, Head(look[p].rest))
              IN  \/ g = NoFile /\ look'[p].pc = "fail"
                  \/ /\ g # NoFile /\ look'[p].pc = "word"
                     /\ look'[p].fp = g /\ look'[p].rest = Tail(look[p].rest)
<1> DEFINE g == is_cached_leaf(look[p].fp, Head(look[p].rest))
<1>1. Runs(p) /\ look[p].pc = "leaf" /\ look[p].op # "init" /\ UNCHANGED <<file, bufs, pwd, fd>>
  BY DEF Leaf, At
<1>2. /\ look[p] \in LookRec /\ look[p].fp \in File /\ FileOK /\ look[p].rest \in Seq(STRING)
      /\ look[p].rest # <<>> /\ look[p].op # "none"
  BY <1>1, Busy DEF Dirs
<1>3. FileOK' /\ TreeKept /\ bufs' \in SUBSET (1..MAXBUF)
  BY <1>1, FileSame DEF TypeInv
<1>4. g = NoFile \/ (g # NoFile /\ g \in File)
  BY <1>2, CachedFacts
<1>5. CASE g = NoFile /\ look' = [look EXCEPT ![p].pc = "fail"]
  <2> DEFINE l == [look[p] EXCEPT !.pc = "fail"]
  <2>1. /\ l \in LookRec /\ l.op = look[p].op /\ l.from = look[p].from /\ l.names = look[p].names
        /\ l.pc = "fail" /\ l.fp = look[p].fp
    BY <1>2 DEF LookRec
  <2>2. look' = [look EXCEPT ![p] = l]
    BY <1>5
  <2> HIDE DEF l, g
  <2>3. TypeInv' /\ look'[p] = l /\ Others(p)
    BY <1>1, <1>2, <1>3, <2>1, <2>2, Move DEF Dirs
  <2> QED
    BY <1>1, <1>2, <1>5, <2>1, <2>3 DEF Keeps, g
<1>6. CASE g # NoFile /\ look' = [look EXCEPT ![p].pc = "word", ![p].fp = g, ![p].rest = Tail(@)]
  <2> DEFINE l == [look[p] EXCEPT !.pc = "word", !.fp = g, !.rest = Tail(@)]
  <2>0. g \in File /\ g \in Nat
    BY <1>4, <1>6 DEF File
  <2>a. Tail(look[p].rest) \in Seq(STRING)
    BY <1>2, TailFacts, Zenon
  <2> HIDE DEF g
  <2>1. /\ l \in LookRec /\ l.op = look[p].op /\ l.from = look[p].from /\ l.names = look[p].names
        /\ l.pc = "word" /\ l.fp = g /\ l.rest = Tail(look[p].rest)
    BY <1>2, <2>0, <2>a DEF LookRec
  <2>2. look' = [look EXCEPT ![p] = l]
    BY <1>6 DEF TypeInv
  <2> HIDE DEF l
  <2>3. TypeInv' /\ look'[p] = l /\ Others(p)
    BY <1>1, <1>2, <1>3, <2>0, <2>1, <2>2, Move DEF Dirs
  <2> QED
    BY <1>1, <1>2, <1>6, <2>1, <2>3 DEF Keeps, g
<1> QED
  BY <1>5, <1>6 DEF Leaf

\* kmalloc() returns a buffer that nobody has.
LEMMA NewBufFacts ==
    ASSUME TypeInv
    PROVE  NewBuf \in Nat \ {0} /\ NewBuf \notin bufs
<1> DEFINE n == Cardinality(bufs)
           F == 1..(n + 1) \ bufs
<1>1. IsFiniteSet(bufs)
  <2>1. 1 \in Int /\ MAXBUF \in Int
    BY Disk
  <2>2. IsFiniteSet(1..MAXBUF)
    BY <2>1, FS_Interval
  <2>3. bufs \in SUBSET (1..MAXBUF)
    BY DEF TypeInv
  <2> QED
    BY <2>2, <2>3, FS_Subset
<1>2. n \in Nat
  BY <1>1, FS_CardinalityType
<1> HIDE DEF n
<1>3. F # {}
  <2> SUFFICES ASSUME 1..(n + 1) \in SUBSET bufs PROVE FALSE
    OBVIOUS
  <2>1. Cardinality(1..(n + 1)) = n + 1
    BY <1>2, FS_Interval
  <2>2. Cardinality(1..(n + 1)) <= n
    BY <1>1, FS_Subset DEF n
  <2> QED
    BY <1>2, <2>1, <2>2
<1>4. F \in SUBSET Nat
  BY <1>2
<1>5. Min(F) \in F
  BY <1>3, <1>4, MinInSet
<1> QED
  BY <1>2, <1>5 DEF NewBuf, n

\* Is the directory open?
LEMMA DirTestStep ==
    ASSUME TypeInv, NEW p \in Proc, DirTest(p)
    PROVE  /\ TypeInv' /\ UNCHANGED <<file, bufs, pwd, fd>>
           /\ Runs(p) /\ look[p].pc = "dir" /\ Here(p) /\ look'[p].toclose = FALSE
           /\ look'[p].pc = IF file[look[p].fp].mmap = NoBuf THEN "read" ELSE "map"
<1> DEFINE to == IF file[look[p].fp].mmap = NoBuf THEN "read" ELSE "map"
           l == [look[p] EXCEPT !.pc = to, !.toclose = FALSE]
<1>1. Runs(p) /\ look[p].pc = "dir" /\ UNCHANGED <<file, bufs, pwd, fd>> /\ look' = [look EXCEPT ![p] = l]
  BY DEF DirTest, At, TypeInv
<1>2. /\ look[p] \in LookRec /\ look[p].fp \in File /\ look[p].op # "none"
      /\ look[p].op # "init" => look[p].rest # <<>>
  BY <1>1, Busy DEF Dirs
<1>3. FileOK' /\ TreeKept /\ bufs' \in SUBSET (1..MAXBUF)
  BY <1>1, FileSame DEF TypeInv
<1>4. to \in {"read", "map"}
  OBVIOUS
<1> HIDE DEF to
<1>5. /\ l \in LookRec /\ l.pc = to /\ l.toclose = FALSE /\ l.op = look[p].op /\ l.from = look[p].from
      /\ l.names = look[p].names /\ l.fp = look[p].fp /\ l.rest = look[p].rest
  BY <1>2, <1>4 DEF LookRec, Dirs
<1> HIDE DEF l
<1>6. TypeInv' /\ look'[p] = l /\ Others(p)
  BY <1>1, <1>2, <1>3, <1>4, <1>5, Move DEF Dirs
<1> QED
  BY <1>1, <1>5, <1>6 DEF Here, Keeps, to

\* The directory is read into a new buffer.
LEMMA DirReadStep ==
    ASSUME TypeInv, NEW p \in Proc, DirRead(p)
    PROVE  /\ TypeInv' /\ UNCHANGED <<pwd, fd>> /\ TreeKept
           /\ Runs(p) /\ look[p].pc = "read" /\ Here(p) /\ look'[p].toclose = TRUE /\ look'[p].pc = "map"
           /\ \E b \in Nat \ {0} : b \notin bufs /\ bufs' = bufs \cup {b} /\ MapSet(look[p].fp, b, 0)
<1> DEFINE l == [look[p] EXCEPT !.pc = "map", !.toclose = TRUE]
<1>1. /\ Runs(p) /\ look[p].pc = "read" /\ UNCHANGED <<pwd, fd>> /\ look' = [look EXCEPT ![p] = l]
      /\ NewBuf <= MAXBUF /\ bufs' = bufs \cup {NewBuf}
      /\ file' = [file EXCEPT ![look[p].fp].mmap = NewBuf]
  BY DEF DirRead, At, TypeInv
<1>2. /\ look[p] \in LookRec /\ look[p].fp \in File /\ look[p].op # "none" /\ FileOK
      /\ look[p].op # "init" => look[p].rest # <<>>
  BY <1>1, Busy DEF Dirs
<1>3. NewBuf \in Nat \ {0} /\ NewBuf \notin bufs
  BY NewBufFacts
<1>4. FileOK' /\ TreeKept /\ MapSet(look[p].fp, NewBuf, 0)
  <2> HIDE DEF NewBuf
  <2>1. NewBuf \in Nat
    BY <1>3
  <2> QED
    BY <1>1, <1>2, <2>1, BufferSet
<1>5. bufs' \in SUBSET (1..MAXBUF)
  BY <1>1, <1>3, Disk DEF TypeInv
<1>6. /\ l \in LookRec /\ l.pc = "map" /\ l.toclose = TRUE /\ l.op = look[p].op /\ l.from = look[p].from
      /\ l.names = look[p].names /\ l.fp = look[p].fp /\ l.rest = look[p].rest
  BY <1>2 DEF LookRec, Dirs
<1> HIDE DEF l
<1>7. TypeInv' /\ look'[p] = l /\ Others(p)
  BY <1>1, <1>2, <1>4, <1>5, <1>6, Move DEF Dirs
<1> QED
  BY <1>1, <1>3, <1>4, <1>6, <1>7 DEF Here, Keeps

\* The loop over the entries begins.
LEMMA DirMapStep ==
    ASSUME TypeInv, NEW p \in Proc, DirMap(p)
    PROVE  /\ TypeInv' /\ UNCHANGED <<file, bufs, pwd, fd>>
           /\ Runs(p) /\ look[p].pc = "map" /\ Here(p) /\ look'[p].toclose = look[p].toclose
           /\ look'[p].pc = "entry" /\ look'[p].k = 1 /\ look'[p].base = file[look[p].fp].mmap
<1> DEFINE b == file[look[p].fp].mmap
           l == [look[p] EXCEPT !.pc = "entry", !.base = b, !.k = 1]
<1>1. Runs(p) /\ look[p].pc = "map" /\ UNCHANGED <<file, bufs, pwd, fd>> /\ look' = [look EXCEPT ![p] = l]
  BY DEF DirMap, At, TypeInv
<1>2. /\ look[p] \in LookRec /\ look[p].fp \in File /\ look[p].op # "none" /\ file[look[p].fp] \in Rec
      /\ look[p].op # "init" => look[p].rest # <<>>
  BY <1>1, Busy DEF Dirs
<1>3. FileOK' /\ TreeKept /\ bufs' \in SUBSET (1..MAXBUF)
  BY <1>1, FileSame DEF TypeInv
<1>4. b \in Nat
  BY <1>2 DEF Rec
<1> HIDE DEF b
<1>5. /\ l \in LookRec /\ l.pc = "entry" /\ l.toclose = look[p].toclose /\ l.op = look[p].op
      /\ l.from = look[p].from /\ l.names = look[p].names /\ l.fp = look[p].fp /\ l.rest = look[p].rest
      /\ l.k = 1 /\ l.base = b
  BY <1>2, <1>4 DEF LookRec, Dirs
<1> HIDE DEF l
<1>a. l.k >= 1 /\ l.pc # "add" /\ l.pc # "idle" /\ l.pc \in Dirs
  BY <1>5 DEF Dirs
<1>6. TypeInv' /\ look'[p] = l /\ Others(p)
  <2>1. /\ l \in LookRec /\ l.fp \in File /\ l.op # "none" /\ l.pc # "idle"
        /\ l.op # "init" /\ l.pc \in Dirs => l.rest # <<>>
    BY <1>2, <1>5, <1>a
  <2>2. UNCHANGED <<pwd, fd>> /\ look' = [look EXCEPT ![p] = l]
    BY <1>1
  <2> QED
    BY <1>3, <1>a, <2>1, <2>2, Move
<1> QED
  BY <1>1, <1>5, <1>6 DEF Here, Keeps, b

\* In the directory's own buffer dentry is the k-th entry of the directory.
LEMMA HeldEntry ==
    ASSUME NEW p \in Proc, Held(p)
    PROVE  LET es == Entries[file[look[p].fp].inum]
               k == look[p].k
           IN  \A e : e \in Dentry(p) <=> k \in DOMAIN es /\ e = es[k]
BY DEF Dentry

\* An entry is skipped, is to be added, or ends the loop.
LEMMA EntryStep ==
    ASSUME TypeInv, NEW p \in Proc, Held(p), Entry(p)
    PROVE  LET es == Entries[file[look[p].fp].inum]
               k == look[p].k
               more == k \in DOMAIN es /\ es[k].inum # Unused
           IN  /\ TypeInv' /\ UNCHANGED <<file, bufs, pwd, fd>>
               /\ Runs(p) /\ look[p].pc = "entry" /\ k >= 1
               /\ Here(p) /\ look'[p].toclose = look[p].toclose /\ look'[p].base = look[p].base
               /\ \/ more /\ Skipped(look[p].fp, es[k].name) /\ look'[p].pc = "entry" /\ look'[p].k = k + 1
                  \/ more /\ ~Skipped(look[p].fp, es[k].name) /\ look'[p].pc = "add" /\ look'[p].k = k
                  \/ ~more /\ look'[p].pc = "close" /\ look'[p].k = k
<1> DEFINE es == Entries[file[look[p].fp].inum]
           k == look[p].k
           more == k \in DOMAIN es /\ es[k].inum # Unused
<1>1. Runs(p) /\ look[p].pc = "entry" /\ UNCHANGED <<file, bufs, pwd, fd>>
  BY DEF Entry, At
<1>2. /\ look[p] \in LookRec /\ look[p].fp \in File /\ look[p].op # "none"
      /\ look[p].op # "init" => look[p].rest # <<>>
  BY <1>1, Busy DEF Dirs
<1>3. k \in Nat /\ k >= 1
  BY <1>1, LookHas DEF LookOK, LookRec
<1>4. FileOK' /\ TreeKept /\ bufs' \in SUBSET (1..MAXBUF)
  BY <1>1, FileSame DEF TypeInv
<1>5. CASE more /\ Skipped(look[p].fp, es[k].name) /\ look' = [look EXCEPT ![p].k = k + 1]
  <2> DEFINE l == [look[p] EXCEPT !.k = k + 1]
  <2>1. look' = [look EXCEPT ![p] = l]
    BY <1>5
  <2>2. /\ l \in LookRec /\ l.pc = "entry" /\ l.toclose = look[p].toclose /\ l.op = look[p].op
        /\ l.from = look[p].from /\ l.names = look[p].names /\ l.fp = look[p].fp /\ l.rest = look[p].rest
        /\ l.k = k + 1 /\ l.base = look[p].base
    BY <1>1, <1>2, <1>3 DEF LookRec
  <2> HIDE DEF l
  <2>a. l.k >= 1 /\ l.pc # "add" /\ l.pc # "idle" /\ l.pc \in Dirs
    BY <1>3, <2>2 DEF Dirs
  <2>3. TypeInv' /\ look'[p] = l /\ Others(p)
    BY <1>1, <1>2, <1>4, <2>1, <2>2, <2>a, Move
  <2> QED
    BY <1>1, <1>3, <1>5, <2>2, <2>3 DEF Here, Keeps
<1>6. CASE more /\ ~Skipped(look[p].fp, es[k].name) /\ look' = [look EXCEPT ![p].pc = "add"]
  <2> DEFINE l == [look[p] EXCEPT !.pc = "add"]
  <2>1. look' = [look EXCEPT ![p] = l]
    BY <1>6
  <2>2. /\ l \in LookRec /\ l.pc = "add" /\ l.toclose = look[p].toclose /\ l.op = look[p].op
        /\ l.from = look[p].from /\ l.names = look[p].names /\ l.fp = look[p].fp /\ l.rest = look[p].rest
        /\ l.k = k /\ l.base = look[p].base
    <3>1. l \in LookRec
      BY <1>2 DEF LookRec, Dirs
    <3>2. /\ l.pc = "add" /\ l.toclose = look[p].toclose /\ l.op = look[p].op
          /\ l.from = look[p].from /\ l.names = look[p].names /\ l.fp = look[p].fp
          /\ l.rest = look[p].rest /\ l.k = k /\ l.base = look[p].base
      BY <1>2 DEF LookRec
    <3> QED
      BY <3>1, <3>2
  <2> HIDE DEF l
  <2>3. /\ l.k \in DOMAIN Entries[file[l.fp].inum] /\ Entries[file[l.fp].inum][l.k].inum # Unused
        /\ Entries[file[l.fp].inum][l.k].name \notin Dots
        /\ l.pc # "entry" /\ l.pc # "idle" /\ l.pc \in Dirs
    BY <1>6, <2>2 DEF Skipped, Dirs
  <2>4. TypeInv' /\ look'[p] = l /\ Others(p)
    <3>1. look' \in [Proc -> LookRec] /\ look'[p] = l /\ Others(p)
      BY <2>1, <2>2, LookSet
    <3>2. file' = file
      BY <1>1
    <3> HIDE DEF es, k, more
    <3>3. LookOK(p)'
      BY <1>2, <2>2, <2>3, <3>1, <3>2 DEF LookOK, File
    <3> QED
      BY <1>1, <1>4, <3>1, <3>3, TypeKept
  <2> QED
    BY <1>1, <1>3, <1>6, <2>2, <2>4 DEF Here, Keeps
<1>7. CASE ~more /\ look' = [look EXCEPT ![p].pc = "close"]
  <2> DEFINE l == [look[p] EXCEPT !.pc = "close"]
  <2>1. look' = [look EXCEPT ![p] = l]
    BY <1>7
  <2>2. /\ l \in LookRec /\ l.pc = "close" /\ l.toclose = look[p].toclose /\ l.op = look[p].op
        /\ l.from = look[p].from /\ l.names = look[p].names /\ l.fp = look[p].fp /\ l.rest = look[p].rest
        /\ l.k = k /\ l.base = look[p].base
    <3>1. l \in LookRec
      BY <1>2 DEF LookRec, Dirs
    <3>2. /\ l.pc = "close" /\ l.toclose = look[p].toclose /\ l.op = look[p].op
          /\ l.from = look[p].from /\ l.names = look[p].names /\ l.fp = look[p].fp
          /\ l.rest = look[p].rest /\ l.k = k /\ l.base = look[p].base
      BY <1>2 DEF LookRec
    <3> QED
      BY <3>1, <3>2
  <2> HIDE DEF l
  <2>a. l.pc # "entry" /\ l.pc # "add" /\ l.pc # "idle" /\ l.pc \in Dirs
    BY <2>2 DEF Dirs
  <2>3. TypeInv' /\ look'[p] = l /\ Others(p)
    BY <1>1, <1>2, <1>4, <2>1, <2>2, <2>a, Move
  <2> QED
    BY <1>1, <1>3, <1>7, <2>2, <2>3 DEF Here, Keeps
<1> QED
  <2> DEFINE Used == {e \in Dentry(p) : e.inum # Unused}
  <2>1. \/ /\ \E e \in Used : Skipped(look[p].fp, e.name)
           /\ look' = [look EXCEPT ![p].k = @ + 1]
        \/ /\ \E e \in Used : ~Skipped(look[p].fp, e.name)
           /\ look' = [look EXCEPT ![p].pc = "add"]
        \/ /\ Used = {}
           /\ look' = [look EXCEPT ![p].pc = "close"]
    BY DEF Entry
  <2>2. \A e : e \in Used <=> more /\ e = es[k]
    BY HeldEntry
  <2> HIDE DEF Used, more, es
  <2> QED
    BY <1>5, <1>6, <1>7, <2>1, <2>2

\* The buffer is freed if this lookup allocated it.
LEMMA DirFreeStep ==
    ASSUME TypeInv, NEW p \in Proc, DirFree(p)
    PROVE  /\ TypeInv' /\ UNCHANGED <<file, pwd, fd>>
           /\ Runs(p) /\ look[p].pc = "close" /\ Here(p) /\ look'[p].toclose = look[p].toclose
           /\ \/ /\ look[p].toclose /\ look'[p].pc = "clear"
                 /\ bufs' = bufs \ {file[look[p].fp].mmap}
              \/ ~look[p].toclose /\ look'[p].pc = "leaf" /\ bufs' = bufs
<1> DEFINE to == IF look[p].toclose THEN "clear" ELSE "leaf"
           l == [look[p] EXCEPT !.pc = to]
<1>1. /\ Runs(p) /\ look[p].pc = "close" /\ UNCHANGED <<file, pwd, fd>> /\ look' = [look EXCEPT ![p] = l]
      /\ \/ look[p].toclose /\ to = "clear" /\ bufs' = bufs \ {file[look[p].fp].mmap}
         \/ ~look[p].toclose /\ to = "leaf" /\ bufs' = bufs
  BY DEF DirFree, At
<1>2. /\ look[p] \in LookRec /\ look[p].fp \in File /\ look[p].op # "none"
      /\ look[p].op # "init" => look[p].rest # <<>>
  BY <1>1, Busy DEF Dirs
<1> HIDE DEF to
<1>3. FileOK' /\ TreeKept /\ bufs' \in SUBSET (1..MAXBUF)
  BY <1>1, FileSame DEF TypeInv
<1>4. /\ l \in LookRec /\ l.pc = to /\ l.toclose = look[p].toclose /\ l.op = look[p].op
      /\ l.from = look[p].from /\ l.names = look[p].names /\ l.fp = look[p].fp /\ l.rest = look[p].rest
  BY <1>1, <1>2 DEF LookRec, Dirs
<1> HIDE DEF l
<1>5. TypeInv' /\ look'[p] = l /\ Others(p)
  BY <1>1, <1>2, <1>3, <1>4, Move DEF Dirs
<1> QED
  BY <1>1, <1>4, <1>5 DEF Here, Keeps

\* The directory is closed again.
LEMMA DirClearStep ==
    ASSUME TypeInv, NEW p \in Proc, DirClear(p)
    PROVE  /\ TypeInv' /\ UNCHANGED <<bufs, pwd, fd>> /\ TreeKept /\ MapSet(look[p].fp, NoBuf, 0)
           /\ Runs(p) /\ look[p].pc = "clear" /\ Here(p) /\ look'[p].pc = "leaf"
<1> DEFINE l == [look[p] EXCEPT !.pc = "leaf"]
<1>1. /\ Runs(p) /\ look[p].pc = "clear" /\ UNCHANGED <<bufs, pwd, fd>> /\ look' = [look EXCEPT ![p] = l]
      /\ file' = [file EXCEPT ![look[p].fp].mmap = NoBuf]
  BY DEF DirClear, At
<1>2. /\ look[p] \in LookRec /\ look[p].fp \in File /\ look[p].op # "none" /\ FileOK
      /\ look[p].op # "init" => look[p].rest # <<>>
  BY <1>1, Busy DEF Dirs
<1>3. FileOK' /\ TreeKept /\ MapSet(look[p].fp, NoBuf, 0)
  BY <1>1, <1>2, BufferSet DEF NoBuf
<1>4. bufs' \in SUBSET (1..MAXBUF)
  BY <1>1 DEF TypeInv
<1>5. /\ l \in LookRec /\ l.pc = "leaf" /\ l.op = look[p].op
      /\ l.from = look[p].from /\ l.names = look[p].names /\ l.fp = look[p].fp /\ l.rest = look[p].rest
  BY <1>1, <1>2 DEF LookRec, Dirs
<1> HIDE DEF l
<1>6. TypeInv' /\ look'[p] = l /\ Others(p)
  BY <1>1, <1>2, <1>3, <1>4, <1>5, Move DEF Dirs
<1> QED
  BY <1>1, <1>3, <1>5, <1>6 DEF Here, Keeps

\* A struct for an entry of directory f is added to the cache.
NewLeaf(f, e) ==
    LET new == Len(file) + 1
    IN  /\ Len(file') = Len(file) + 1
        /\ \A g \in File : /\ file'[g].name = file[g].name /\ file'[g].inum = file[g].inum
                           /\ file'[g].parent = file[g].parent /\ file'[g].mmap = file[g].mmap
                           /\ file'[g].opened = file[g].opened
                           /\ g # f => file'[g].leaf = file[g].leaf
        /\ Range(file'[f].leaf) = Range(file[f].leaf) \cup {new}
        /\ file'[new].name = e.name /\ file'[new].inum = e.inum /\ file'[new].parent = f
        /\ file'[new].mmap = NoBuf /\ file'[new].opened \in JUNK /\ Range(file'[new].leaf) = {}

\* The range of a list with a new first element.
LEMMA ConsRange ==
    ASSUME NEW S, NEW s \in Seq(S), NEW e \in S
    PROVE  /\ <<e>> \o s \in Seq(S)
           /\ Range(<<e>> \o s) = Range(s) \cup {e}
<1> DEFINE t == <<e>> \o s
<1>1. /\ t \in Seq(S) /\ Len(t) = Len(s) + 1 /\ Len(s) \in Nat /\ t[1] = e
      /\ \A i \in 1..Len(s) : t[i + 1] = s[i]
  <2>1. <<e>> \in Seq(S) /\ Len(<<e>>) = 1 /\ <<e>>[1] = e
    OBVIOUS
  <2>2. /\ Len(t) = Len(<<e>>) + Len(s)
        /\ \A i \in 1..Len(<<e>>) : t[i] = <<e>>[i]
        /\ \A i \in 1..Len(s) : t[Len(<<e>>) + i] = s[i]
    BY <2>1, ConcatFacts
  <2>3. t \in Seq(S) /\ Len(s) \in Nat
    OBVIOUS
  <2> HIDE DEF t
  <2> QED
    BY <2>1, <2>2, <2>3
<1>2. DOMAIN t = 1..(Len(s) + 1) /\ DOMAIN s = 1..Len(s)
  BY <1>1
<1> HIDE DEF t
<1>3. ASSUME NEW i \in 1..(Len(s) + 1) PROVE t[i] = e \/ \E j \in 1..Len(s) : t[i] = s[j]
  <2>1. CASE i = 1
    BY <1>1, <2>1
  <2>2. CASE i # 1
    <3>1. i - 1 \in 1..Len(s) /\ (i - 1) + 1 = i
      BY <1>1, <2>2
    <3> QED
      BY <1>1, <3>1
  <2> QED
    BY <2>1, <2>2
<1>4. \A i \in 1..Len(s) : i + 1 \in 1..(Len(s) + 1) /\ 1 \in 1..(Len(s) + 1)
  BY <1>1
<1>5. Range(t) = Range(s) \cup {e}
  <2>1. \A x \in Range(t) : x \in Range(s) \cup {e}
    BY <1>2, <1>3 DEF Range
  <2>2. \A x \in Range(s) : x \in Range(t)
    BY <1>1, <1>2, <1>4 DEF Range
  <2>3. e \in Range(t)
    <3>1. 1 \in 1..(Len(s) + 1)
      BY <1>1
    <3> QED
      BY <1>1, <1>2, <3>1 DEF Range
  <2> QED
    BY <2>1, <2>2, <2>3
<1> QED
  BY <1>1, <1>5 DEF t

\* The entry is added to the cache.
LEMMA AddStep ==
    ASSUME TypeInv, NEW p \in Proc, Held(p), Add(p)
    PROVE  LET e == Entries[file[look[p].fp].inum][look[p].k]
           IN  /\ TypeInv' /\ UNCHANGED <<bufs, pwd, fd>>
               /\ Runs(p) /\ look[p].pc = "add" /\ NewLeaf(look[p].fp, e)
               /\ e \in Range(Entries[file[look[p].fp].inum]) /\ e.inum \in Inode /\ e.name \notin Dots
               /\ e = [name |-> e.name, inum |-> e.inum]
               /\ Here(p) /\ look'[p].toclose = look[p].toclose /\ look'[p].base = look[p].base
               /\ look'[p].pc = "entry" /\ look'[p].k = look[p].k + 1
<1> DEFINE f == look[p].fp
           es == Entries[file[f].inum]
           k == look[p].k
           e == es[k]
           new == Len(file) + 1
           r == [file[f] EXCEPT !.leaf = <<new>> \o @]
           l == [look[p] EXCEPT !.pc = "entry", !.k = @ + 1]
<1>0. PICK junk \in JUNK : file' = WithLeaf(f, e, f, junk)
  BY HeldEntry DEF Add
<1> DEFINE n == Struct(e.name, e.inum, f, FALSE, junk)
<1>1. /\ Runs(p) /\ look[p].pc = "add" /\ UNCHANGED <<bufs, pwd, fd>>
      /\ file' = Append([file EXCEPT ![f] = r], n)
      /\ look' = [look EXCEPT ![p] = l]
  BY <1>0 DEF Add, At, TypeInv, WithLeaf
<1>2. /\ look[p] \in LookRec /\ f \in File /\ f \in Nat /\ FileOK /\ file[f] \in Rec /\ look[p].op # "none"
      /\ look[p].op # "init" => look[p].rest # <<>>
  BY <1>1, Busy DEF Dirs
<1>3. /\ k \in DOMAIN es /\ e.inum # Unused /\ e.name \notin Dots /\ k \in Nat
  BY <1>1, LookHas DEF LookOK, LookRec
<1>4. es \in Seq([name : STRING, inum : Inode \cup {Unused}])
  BY <1>2, Disk DEF Rec
<1>5. e \in [name : STRING, inum : Inode \cup {Unused}]
  <2>1. k \in 1..Len(es)
    BY <1>3, <1>4
  <2> DEFINE R == [name : STRING, inum : Inode \cup {Unused}]
  <2>2. es \in Seq(R)
    BY <1>4
  <2> HIDE DEF es, R, k
  <2>3. es[k] \in R
    BY <2>1, <2>2
  <2> QED
    BY <2>3 DEF R
<1>6. e \in Range(es) /\ e.inum \in Inode /\ e.name \in STRING /\ e = [name |-> e.name, inum |-> e.inum]
  <2>1. e \in Range(es)
    BY <1>3 DEF Range
  <2> HIDE DEF e
  <2> QED
    BY <1>3, <1>5, <2>1
<1> HIDE DEF e
<1>7. Len(file) \in Nat /\ new \in Nat /\ file \in Seq(Rec) /\ f \in 1..Len(file) /\ new \notin 1..Len(file)
  BY <1>2 DEF FileOK, File
<1> HIDE DEF new, f
<1>8. /\ r \in Rec /\ r.name = file[f].name /\ r.inum = file[f].inum /\ r.parent = file[f].parent
      /\ r.mmap = file[f].mmap /\ r.opened = file[f].opened /\ Range(r.leaf) = Range(file[f].leaf) \cup {new}
  <2>1. file[f].leaf \in Seq(Nat)
    BY <1>2 DEF Rec
  <2>2. <<new>> \o file[f].leaf \in Seq(Nat) /\ Range(<<new>> \o file[f].leaf) = Range(file[f].leaf) \cup {new}
    BY <1>7, <2>1, ConsRange
  <2> DEFINE v == <<new>> \o file[f].leaf
  <2>3. r = [file[f] EXCEPT !.leaf = v]
    OBVIOUS
  <2> HIDE DEF v, r
  <2>4. v \in Seq(Nat) /\ Range(v) = Range(file[f].leaf) \cup {new}
    BY <2>2 DEF v
  <2> QED
    BY <1>2, <2>3, <2>4 DEF Rec
<1>9. /\ n \in Rec /\ n.name = e.name /\ n.inum = e.inum /\ n.parent = f /\ n.mmap = NoBuf
      /\ n.leaf = <<>> /\ n.opened \in JUNK
  BY <1>2, <1>6, Disk DEF Struct, Rec, NoBuf
<1>10. Range(n.leaf) = {}
  <2> HIDE DEF n
  <2>1. DOMAIN n.leaf = {}
    BY <1>9
  <2> QED
    BY <2>1, Zenon DEF Range
<1> DEFINE t == [file EXCEPT ![f] = r]
<1> HIDE DEF r, n
<1>11. /\ t \in Seq(Rec) /\ Len(t) = Len(file) /\ t[f] = r
       /\ \A g \in 1..Len(file) : g # f => t[g] = file[g]
  BY <1>7, <1>8, ExceptFacts
<1>12. /\ file' \in Seq(Rec) /\ Len(file') = Len(file) + 1 /\ file'[Len(file) + 1] = n
       /\ \A g \in 1..Len(file) : file'[g] = t[g]
  <2>1. file' = Append(t, n)
    BY <1>1 DEF f
  <2> HIDE DEF t
  <2>2. t \in Seq(Rec) /\ n \in Rec /\ Len(t) = Len(file) /\ Len(file) \in Nat
    BY <1>7, <1>9, <1>11
  <2>3. /\ Append(t, n) \in Seq(Rec) /\ Len(Append(t, n)) = Len(t) + 1 /\ Append(t, n)[Len(t) + 1] = n
        /\ \A g \in 1..Len(t) : Append(t, n)[g] = t[g]
    BY <2>2
  <2> QED
    BY <2>1, <2>2, <2>3
<1> HIDE DEF t
<1>13. NewLeaf(f, e)
  <2>1. \A g \in File : /\ file'[g].name = file[g].name /\ file'[g].inum = file[g].inum
                        /\ file'[g].parent = file[g].parent /\ file'[g].mmap = file[g].mmap
                        /\ file'[g].opened = file[g].opened
                        /\ g # f => file'[g].leaf = file[g].leaf
    BY <1>8, <1>11, <1>12 DEF File
  <2>2. Range(file'[f].leaf) = Range(file[f].leaf) \cup {Len(file) + 1}
    BY <1>7, <1>8, <1>11, <1>12 DEF new
  <2> QED
    BY <1>9, <1>10, <1>12, <2>1, <2>2 DEF NewLeaf
<1>14. FileOK'
  <2>1. File' = 1..(Len(file) + 1) /\ File = 1..Len(file)
    BY <1>12 DEF File
  <2>2. ASSUME NEW g \in File' PROVE file'[g].parent \in File' /\ \A h \in Range(file'[g].leaf) : h \in File'
    <3>1. CASE g = Len(file) + 1
      BY <1>7, <1>13, <2>1, <3>1 DEF NewLeaf
    <3>2. CASE g # Len(file) + 1
      <4>1. g \in File
        BY <1>7, <2>1, <3>2
      <4>2. file[g].parent \in File /\ \A h \in Range(file[g].leaf) : h \in File
        BY <1>2, <4>1 DEF FileOK
      <4>3. \A h \in File : h \in File'
        BY <1>7, <2>1
      <4>4. Len(file) + 1 \in File'
        BY <1>7, <2>1
      <4> QED
        BY <1>13, <4>1, <4>2, <4>3, <4>4 DEF NewLeaf
    <3> QED
      BY <3>1, <3>2
  <2> QED
    BY <1>7, <1>12, <2>2 DEF FileOK
<1>15. /\ l \in LookRec /\ l.pc = "entry" /\ l.toclose = look[p].toclose /\ l.op = look[p].op
       /\ l.from = look[p].from /\ l.names = look[p].names /\ l.fp = look[p].fp /\ l.rest = look[p].rest
       /\ l.k = k + 1 /\ l.base = look[p].base
  <2>1. k + 1 \in Nat
    BY <1>3
  <2>2. l = [look[p] EXCEPT !.pc = "entry", !.k = k + 1]
    OBVIOUS
  <2> HIDE DEF k
  <2> QED
    BY <1>2, <2>1, <2>2 DEF LookRec, Dirs
<1> HIDE DEF l
<1>16. look' \in [Proc -> LookRec] /\ look'[p] = l /\ Others(p)
  BY <1>1, <1>15, LookSet
<1>17. Grown /\ f \in File'
  BY <1>7, <1>13 DEF Grown, NewLeaf, File
<1>18. LookOK(p)'
  <2>1. l.k >= 1
    BY <1>3, <1>15
  <2> QED
    BY <1>2, <1>15, <1>16, <1>17, <2>1 DEF LookOK, Dirs, f
<1>19. TypeInv'
  BY <1>1, <1>14, <1>16, <1>17, <1>18, TypeFrom DEF TypeInv
<1> QED
  BY <1>1, <1>3, <1>6, <1>13, <1>15, <1>16, <1>19 DEF Here, Keeps, f, e

\* A call ends: the types are kept.
LEMMA ReturnType ==
    ASSUME TypeInv, NEW p \in Proc, Return(p), FileOK', TreeKept, bufs' \in SUBSET (1..MAXBUF),
           pwd' \in [Proc -> Nat], \A q \in Proc : pwd'[q] \in File,
           fd' \in [Proc -> Nat], \A q \in Proc : fd'[q] \in File \cup {NoFile}
    PROVE  TypeInv' /\ look'[p] = Idle /\ Others(p)
<1>1. look' \in [Proc -> LookRec] /\ look'[p] = Idle /\ Others(p)
  BY IdleHas, LookSet DEF Return
<1>2. Grown /\ f_root \in File'
  BY DEF TreeKept, Grown, TypeInv, FileOK, File, f_root
<1>3. LookOK(p)'
  BY <1>1, <1>2, IdleHas DEF LookOK, Dirs
<1> QED
  BY <1>1, <1>2, <1>3, TypeFrom

\* A call that fails, and the end of init_root().
LEMMA FailStep ==
    ASSUME TypeInv, NEW p \in Proc, Fail(p) \/ init_root(p)
    PROVE  /\ TypeInv' /\ UNCHANGED <<file, bufs, pwd, fd>>
           /\ Runs(p) /\ look[p].pc \in {"fail", "leaf"} /\ look'[p] = Idle /\ Others(p)
<1>1. /\ Runs(p) /\ look[p].pc \in {"fail", "leaf"} /\ UNCHANGED <<file, bufs, pwd, fd>> /\ Return(p)
  BY DEF Fail, init_root, At
<1>2. FileOK' /\ TreeKept
  BY <1>1, FileSame
<1>3. TypeInv' /\ look'[p] = Idle /\ Others(p)
  BY <1>1, <1>2, ReturnType DEF TypeInv
<1> QED
  BY <1>1, <1>3

\* chdir and exec return: the directories of the processes are directories.
LEMMA ChdirStep ==
    ASSUME TypeInv, NEW p \in Proc, sys_chdir(p) \/ sys_exec(p)
    PROVE  /\ TypeInv' /\ UNCHANGED <<bufs, fd>> /\ TreeKept /\ MapsKept
           /\ Runs(p) /\ look[p].pc = "word" /\ look'[p] = Idle /\ Others(p)
<1>1. /\ Runs(p) /\ look[p].pc = "word" /\ UNCHANGED <<bufs, fd>> /\ Return(p)
      /\ file' = [file EXCEPT ![look[p].fp].inode = TRUE]
  BY DEF sys_chdir, sys_exec, Found, At
<1>2. look[p].fp \in File /\ look[p].fp \in Nat /\ FileOK
  BY <1>1, Busy
<1>3. FileOK' /\ TreeKept /\ MapsKept
  BY <1>1, <1>2, InodeRead
<1>4. pwd' \in [Proc -> Nat] /\ \A q \in Proc : pwd'[q] \in File
  <2>1. pwd \in [Proc -> Nat] /\ \A q \in Proc : pwd[q] \in File
    BY DEF TypeInv
  <2>2. \/ pwd' = pwd
        \/ pwd' = [pwd EXCEPT ![p] = look[p].fp]
        \/ \E q \in Proc : pwd' = [pwd EXCEPT ![q] = pwd[p]]
    BY DEF sys_chdir, sys_exec
  <2> QED
    BY <1>2, <2>1, <2>2
<1>5. TypeInv' /\ look'[p] = Idle /\ Others(p)
  BY <1>1, <1>3, <1>4, ReturnType DEF TypeInv
<1> QED
  BY <1>1, <1>3, <1>5

\* open returns: the file has a new buffer and p has it open.
LEMMA OpenStep ==
    ASSUME TypeInv, NEW p \in Proc, sys_open(p)
    PROVE  /\ TypeInv' /\ pwd' = pwd /\ fd' = [fd EXCEPT ![p] = look[p].fp] /\ TreeKept
           /\ Runs(p) /\ look[p].pc = "word" /\ look'[p] = Idle /\ Others(p)
           /\ \E b \in Nat \ {0} : b \notin bufs /\ bufs' = bufs \cup {b} /\ MapSet(look[p].fp, b, 1)
<1>1. /\ Runs(p) /\ look[p].pc = "word" /\ pwd' = pwd /\ fd' = [fd EXCEPT ![p] = look[p].fp] /\ Return(p)
      /\ NewBuf <= MAXBUF /\ bufs' = bufs \cup {NewBuf}
      /\ file' = [file EXCEPT ![look[p].fp] =
                       [file[look[p].fp] EXCEPT !.opened = @ + 1, !.inode = TRUE, !.mmap = NewBuf]]
  BY DEF sys_open, Found, At
<1>2. look[p].fp \in File /\ look[p].fp \in Nat /\ FileOK
  BY <1>1, Busy
<1>3. NewBuf \in Nat \ {0} /\ NewBuf \notin bufs
  BY NewBufFacts
<1>4. FileOK' /\ TreeKept /\ MapSet(look[p].fp, NewBuf, 1)
  <2> HIDE DEF NewBuf
  <2>1. NewBuf \in Nat
    BY <1>3
  <2> QED
    BY <1>1, <1>2, <2>1, OpenedSet
<1>5. bufs' \in SUBSET (1..MAXBUF)
  BY <1>1, <1>3, Disk DEF TypeInv
<1>6. fd' \in [Proc -> Nat] /\ \A q \in Proc : fd'[q] \in File \cup {NoFile}
  BY <1>1, <1>2 DEF TypeInv
<1>7. TypeInv' /\ look'[p] = Idle /\ Others(p)
  BY <1>1, <1>4, <1>5, <1>6, ReturnType DEF TypeInv
<1> QED
  BY <1>1, <1>3, <1>4, <1>7

\* close and exit: the process has nothing open any more.
LEMMA ClosedType ==
    ASSUME TypeInv, NEW p \in Proc, fd[p] # NoFile, FileOK', TreeKept, bufs' \in SUBSET (1..MAXBUF),
           UNCHANGED <<pwd, look>>, fd' = [fd EXCEPT ![p] = NoFile]
    PROVE  TypeInv' /\ fd[p] \in File
<1>1. fd' \in [Proc -> Nat] /\ \A q \in Proc : fd'[q] \in File \cup {NoFile}
  <2>1. fd \in [Proc -> Nat] /\ (\A q \in Proc : fd[q] \in File \cup {NoFile}) /\ NoFile \in Nat
    BY DEF TypeInv, NoFile
  <2>2. \A q \in Proc : fd'[q] = IF q = p THEN NoFile ELSE fd[q]
    BY <2>1
  <2> QED
    BY <2>1, <2>2
<1>2. look' \in [Proc -> LookRec] /\ Others(p)
  BY DEF TypeInv, Others
<1>3. Grown /\ LookOK(p)'
  <2>1. Grown
    BY DEF TreeKept, Grown, FileOK, TypeInv
  <2>2. LookOK(p) /\ look'[p] = look[p] /\ look[p].fp \in File
    BY LookHas
  <2>3. file'[look[p].fp].inum = file[look[p].fp].inum /\ File' = File
    BY <2>2 DEF TreeKept, File
  <2> QED
    BY <2>1, <2>2, <2>3 DEF LookOK
<1> QED
  BY <1>1, <1>2, <1>3, TypeFrom DEF TypeInv

\* close frees the buffer of the file, whoever else has it open.
LEMMA CloseStep ==
    ASSUME TypeInv, NEW p \in Proc, sys_close(p)
    PROVE  /\ TypeInv' /\ UNCHANGED <<pwd, look>> /\ fd' = [fd EXCEPT ![p] = NoFile] /\ TreeKept
           /\ Runs(p) /\ look[p].op = "none" /\ fd[p] \in File
           /\ bufs' = bufs \ {file[fd[p]].mmap} /\ MapSet(fd[p], NoBuf, 0)
<1>1. /\ Runs(p) /\ look[p].op = "none" /\ UNCHANGED <<pwd, look>> /\ fd' = [fd EXCEPT ![p] = NoFile]
      /\ fd[p] # NoFile /\ bufs' = bufs \ {file[fd[p]].mmap}
      /\ file' = [file EXCEPT ![fd[p]].mmap = NoBuf]
  BY DEF sys_close, Free
<1>2. fd[p] \in File /\ FileOK
  BY <1>1 DEF TypeInv
<1>3. FileOK' /\ TreeKept /\ MapSet(fd[p], NoBuf, 0)
  BY <1>1, <1>2, BufferSet DEF NoBuf
<1>4. bufs' \in SUBSET (1..MAXBUF)
  BY <1>1 DEF TypeInv
<1> QED
  BY <1>1, <1>2, <1>3, <1>4, ClosedType

\* exit takes one from the counter of the file, and its buffer if this was the
\* last one.
LEMMA ExitStep ==
    ASSUME TypeInv, NEW p \in Proc, sys_exit(p)
    PROVE  /\ TypeInv' /\ UNCHANGED <<pwd, look>> /\ fd' = [fd EXCEPT ![p] = NoFile] /\ TreeKept
           /\ Runs(p) /\ look[p].op = "none" /\ fd[p] \in File
           /\ \/ /\ file[fd[p]].opened = 1
                 /\ bufs' = bufs \ {file[fd[p]].mmap} /\ MapSet(fd[p], NoBuf, -1)
              \/ /\ file[fd[p]].opened # 1
                 /\ bufs' = bufs /\ MapSet(fd[p], file[fd[p]].mmap, -1)
<1>1. /\ Runs(p) /\ look[p].op = "none" /\ UNCHANGED <<pwd, look>> /\ fd' = [fd EXCEPT ![p] = NoFile]
      /\ fd[p] # NoFile
  BY DEF sys_exit
<1>2. fd[p] \in File /\ FileOK
  BY <1>1 DEF TypeInv
<1>3. CASE /\ file[fd[p]].opened = 1 /\ bufs' = bufs \ {file[fd[p]].mmap}
           /\ file' = [file EXCEPT ![fd[p]] = [file[fd[p]] EXCEPT !.opened = 0, !.mmap = NoBuf]]
  <2>1. FileOK' /\ TreeKept /\ MapSet(fd[p], NoBuf, -1)
    BY <1>2, <1>3, LastSet
  <2>2. bufs' \in SUBSET (1..MAXBUF)
    BY <1>3 DEF TypeInv
  <2> QED
    BY <1>1, <1>2, <1>3, <2>1, <2>2, ClosedType
<1>4. CASE /\ file[fd[p]].opened # 1 /\ bufs' = bufs
           /\ file' = [file EXCEPT ![fd[p]].opened = @ - 1]
  <2>1. FileOK' /\ TreeKept /\ MapSet(fd[p], file[fd[p]].mmap, -1)
    BY <1>2, <1>4, CounterSet
  <2>2. bufs' \in SUBSET (1..MAXBUF)
    BY <1>4 DEF TypeInv
  <2> QED
    BY <1>1, <1>2, <1>4, <2>1, <2>2, ClosedType
<1> QED
  BY <1>3, <1>4 DEF sys_exit, Free

\* The statements and calls, one process each.
LEMMA Steps ==
    ASSUME [Next]_vars
    PROVE  \/ UNCHANGED vars
           \/ \E p \in Proc :
                 \/ \E op \in {"open", "chdir", "exec"}, path \in Paths :
                       Begin(p, op, path) /\ (op = "open" => fd[p] = NoFile)
                 \/ Word(p) \/ Leaf(p) \/ Fail(p) \/ init_root(p)
                 \/ DirTest(p) \/ DirRead(p) \/ DirMap(p) \/ Entry(p) \/ Add(p) \/ DirFree(p) \/ DirClear(p)
                 \/ sys_open(p) \/ sys_chdir(p) \/ sys_exec(p) \/ sys_close(p) \/ sys_exit(p)
BY DEF Next, Stopped, Lookup, OpenEnter

-----------------------------------------------------------------------------
\* The tree, as long as a lookup reads the buffer its directory has.

\* Every step keeps the types, and only one statement changes the tree.
LEMMA TypeStep ==
    ASSUME TypeInv, DirBufferHeld, [Next]_vars
    PROVE  TypeInv' /\ (TreeKept \/ \E p \in Proc : Add(p))
<1>0. FileOK
  BY DEF TypeInv
<1>1. CASE UNCHANGED vars
  <2>1. FileOK' /\ TreeKept
    BY <1>1, FileSame DEF vars
  <2> QED
    BY <1>1, <2>1 DEF vars, TypeInv, LookOK, File
<1>2. ASSUME NEW p \in Proc, NEW op \in {"open", "chdir", "exec"}, NEW path \in Paths, Begin(p, op, path)
      PROVE  TypeInv' /\ TreeKept
  BY <1>2, BeginStep, FileSame
<1>3. ASSUME NEW p \in Proc, Word(p) PROVE TypeInv' /\ TreeKept
  BY <1>3, WordStep
<1>4. ASSUME NEW p \in Proc, Leaf(p) PROVE TypeInv' /\ TreeKept
  BY <1>4, LeafStep, FileSame
<1>5. ASSUME NEW p \in Proc, Fail(p) \/ init_root(p) PROVE TypeInv' /\ TreeKept
  BY <1>5, FailStep, FileSame
<1>6. ASSUME NEW p \in Proc, DirTest(p) PROVE TypeInv' /\ TreeKept
  BY <1>6, DirTestStep, FileSame
<1>7. ASSUME NEW p \in Proc, DirRead(p) PROVE TypeInv' /\ TreeKept
  BY <1>7, DirReadStep
<1>8. ASSUME NEW p \in Proc, DirMap(p) PROVE TypeInv' /\ TreeKept
  BY <1>8, DirMapStep, FileSame
<1>9. ASSUME NEW p \in Proc, Entry(p) PROVE TypeInv' /\ TreeKept
  <2>1. Held(p)
    BY <1>9 DEF DirBufferHeld, Entry, At
  <2> QED
    BY <1>9, <2>1, EntryStep, FileSame
<1>10. ASSUME NEW p \in Proc, Add(p) PROVE TypeInv'
  <2>1. Held(p)
    BY <1>10 DEF DirBufferHeld, Add, At
  <2> QED
    BY <1>10, <2>1, AddStep
<1>11. ASSUME NEW p \in Proc, DirFree(p) PROVE TypeInv' /\ TreeKept
  BY <1>11, DirFreeStep, FileSame
<1>12. ASSUME NEW p \in Proc, DirClear(p) PROVE TypeInv' /\ TreeKept
  BY <1>12, DirClearStep
<1>13. ASSUME NEW p \in Proc, sys_open(p) PROVE TypeInv' /\ TreeKept
  BY <1>13, OpenStep
<1>14. ASSUME NEW p \in Proc, sys_chdir(p) \/ sys_exec(p) PROVE TypeInv' /\ TreeKept
  BY <1>14, ChdirStep
<1>15. ASSUME NEW p \in Proc, sys_close(p) PROVE TypeInv' /\ TreeKept
  BY <1>15, CloseStep
<1>16. ASSUME NEW p \in Proc, sys_exit(p) PROVE TypeInv' /\ TreeKept
  BY <1>16, ExitStep
<1> QED
  BY <1>1, <1>2, <1>3, <1>4, <1>5, <1>6, <1>7, <1>8, <1>9, <1>10, <1>11, <1>12, <1>13, <1>14, <1>15,
     <1>16, Steps

\* At the start the cache is the root, and the kernel reads its leaves.
LEMMA TypeInit == Init => TypeInv /\ CacheMatchesDisk
<1> SUFFICES ASSUME Init PROVE TypeInv /\ CacheMatchesDisk
  OBVIOUS
<1>0. PICK junk \in JUNK : file = <<Struct("/", ROOT, f_root, TRUE, junk)>>
  BY DEF Init
<1> DEFINE r == Struct("/", ROOT, f_root, TRUE, junk)
<1>1. r \in Rec /\ r.leaf = <<>> /\ r.parent = f_root /\ r.inum = ROOT
  <2>1. ROOT \in Inode /\ junk \in Int
    BY Disk
  <2> QED
    BY <2>1 DEF Struct, Rec, f_root, NoBuf
<1>2. file = <<r>> /\ Len(file) = 1 /\ file[1] = r /\ File = {1}
  BY <1>0 DEF File
<1> HIDE DEF r
<1>3. Range(r.leaf) = {}
  <2>1. DOMAIN r.leaf = {}
    BY <1>1
  <2> QED
    BY <2>1, Zenon DEF Range
<1>4. FileOK
  BY <1>1, <1>2, <1>3 DEF FileOK, f_root
<1>5. PICK p \in Proc : look = [[q \in Proc |-> Idle] EXCEPT ![p].op = "init", ![p].pc = "dir"]
  BY DEF Init
<1> DEFINE l == [Idle EXCEPT !.op = "init", !.pc = "dir"]
<1>6. /\ l \in LookRec /\ l.op = "init" /\ l.pc = "dir" /\ l.fp = f_root
  BY IdleHas DEF LookRec, Dirs
<1>7. look \in [Proc -> LookRec] /\ look[p] = l /\ \A q \in Proc : q # p => look[q] = Idle
  BY <1>5, <1>6, IdleHas
<1> HIDE DEF l
<1>8. \A q \in Proc : LookOK(q)
  <2>1. LookOK(p)
    BY <1>2, <1>6, <1>7 DEF LookOK, Dirs, f_root
  <2>2. ASSUME NEW q \in Proc, q # p PROVE LookOK(q)
    BY <1>2, <1>7, <2>2, IdleHas DEF LookOK, Dirs, f_root
  <2> QED
    BY <2>1, <2>2
<1>9. /\ bufs \in SUBSET (1..MAXBUF)
      /\ pwd \in [Proc -> Nat] /\ \A q \in Proc : pwd[q] \in File
      /\ fd \in [Proc -> Nat] /\ \A q \in Proc : fd[q] \in File \cup {NoFile}
  BY <1>2 DEF Init, f_root, NoFile
<1>10. CacheMatchesDisk
  BY <1>2, <1>3 DEF CacheMatchesDisk, f_root
<1> QED
  BY <1>4, <1>7, <1>8, <1>9, <1>10 DEF TypeInv

\* A new struct stands for an entry of the directory in whose list it is.
LEMMA TreeStep ==
    ASSUME TypeInv, DirBufferHeld, CacheMatchesDisk, [Next]_vars
    PROVE  CacheMatchesDisk'
<1>0. FileOK
  BY DEF TypeInv
<1>1. CASE TreeKept
  <2>1. File' = File
    BY <1>1 DEF TreeKept, File
  <2>2. ASSUME NEW f \in File
        PROVE  /\ file'[f].inum = file[f].inum /\ file'[f].parent = file[f].parent
               /\ file'[f].leaf = file[f].leaf /\ file'[f].name = file[f].name
    BY <1>1 DEF TreeKept
  <2>3. ASSUME NEW f \in File
        PROVE  file[f].parent \in File /\ \A g \in Range(file[f].leaf) : g \in File
    BY <1>0 DEF FileOK
  <2>4. ASSUME NEW f \in File, NEW g \in Range(file'[f].leaf)
        PROVE  /\ file'[g].parent = f
               /\ [name |-> file'[g].name, inum |-> file'[g].inum] \in Range(Entries[file'[f].inum])
    <3>1. g \in Range(file[f].leaf) /\ g \in File
      BY <2>2, <2>3, <2>4
    <3>2. file[g].parent = f /\ [name |-> file[g].name, inum |-> file[g].inum] \in Range(Entries[file[f].inum])
      BY <3>1 DEF CacheMatchesDisk
    <3> QED
      BY <2>2, <3>1, <3>2
  <2>5. ASSUME NEW f \in File, f # f_root PROVE f \in Range(file'[file'[f].parent].leaf)
    BY <2>2, <2>3, <2>5 DEF CacheMatchesDisk
  <2> QED
    BY <2>1, <2>4, <2>5 DEF CacheMatchesDisk
<1>2. ASSUME NEW p \in Proc, Add(p) PROVE CacheMatchesDisk'
  <2> DEFINE d == look[p].fp
             e == Entries[file[d].inum][look[p].k]
             new == Len(file) + 1
  <2>0. Held(p)
    BY <1>2 DEF DirBufferHeld, Add, At
  <2>1. NewLeaf(d, e) /\ e \in Range(Entries[file[d].inum]) /\ e = [name |-> e.name, inum |-> e.inum]
    BY <1>2, <2>0, AddStep
  <2>2. d \in File /\ Len(file) \in Nat /\ new \notin File /\ f_root \in File
    BY <1>0, LookHas DEF FileOK, File, f_root
  <2> HIDE DEF d, e, new
  <2>3. /\ \A g \in File : /\ file'[g].name = file[g].name /\ file'[g].inum = file[g].inum
                           /\ file'[g].parent = file[g].parent
                           /\ g # d => file'[g].leaf = file[g].leaf
        /\ Range(file'[d].leaf) = Range(file[d].leaf) \cup {new}
        /\ file'[new].name = e.name /\ file'[new].inum = e.inum /\ file'[new].parent = d
        /\ Range(file'[new].leaf) = {}
    BY <2>1 DEF NewLeaf, new
  <2>4. File' = File \cup {new}
    BY <2>1, <2>2 DEF File, NewLeaf, new
  <2>5. ASSUME NEW f \in File
        PROVE  /\ \A g \in Range(file[f].leaf) :
                     /\ g \in File /\ file[g].parent = f
                     /\ [name |-> file[g].name, inum |-> file[g].inum] \in Range(Entries[file[f].inum])
               /\ f # f_root => file[f].parent \in File /\ f \in Range(file[file[f].parent].leaf)
    <3>1. file[f].parent \in File /\ \A g \in Range(file[f].leaf) : g \in File
      BY <1>0 DEF FileOK
    <3>2. /\ \A g \in Range(file[f].leaf) :
                /\ file[g].parent = f
                /\ [name |-> file[g].name, inum |-> file[g].inum] \in Range(Entries[file[f].inum])
          /\ f # f_root => f \in Range(file[file[f].parent].leaf)
      BY DEF CacheMatchesDisk
    <3> QED
      BY <3>1, <3>2, Zenon
  <2>6. ASSUME NEW f \in File', NEW g \in Range(file'[f].leaf)
        PROVE  /\ file'[g].parent = f
               /\ [name |-> file'[g].name, inum |-> file'[g].inum] \in Range(Entries[file'[f].inum])
    <3>1. f # new
      BY <2>3, <2>6
    <3>2. f \in File
      BY <2>4, <3>1
    <3>3. CASE g \in Range(file[f].leaf)
      <4>1. /\ g \in File /\ file[g].parent = f
            /\ [name |-> file[g].name, inum |-> file[g].inum] \in Range(Entries[file[f].inum])
        BY <2>5, <3>2, <3>3
      <4>2. /\ file'[g].parent = file[g].parent /\ file'[g].name = file[g].name
            /\ file'[g].inum = file[g].inum /\ file'[f].inum = file[f].inum
        BY <2>3, <3>2, <4>1
      <4> QED
        BY <4>1, <4>2
    <3>4. CASE g \notin Range(file[f].leaf)
      <4>1. f = d /\ g = new
        BY <2>3, <2>6, <3>2, <3>4
      <4> QED
        BY <2>1, <2>2, <2>3, <4>1
    <3> QED
      BY <3>3, <3>4
  <2>7. ASSUME NEW f \in File', f # f_root PROVE f \in Range(file'[file'[f].parent].leaf)
    <3>1. CASE f = new
      BY <2>2, <2>3, <3>1
    <3>2. CASE f \in File
      BY <2>3, <2>5, <2>7, <3>2
    <3> QED
      BY <2>4, <3>1, <3>2
  <2> QED
    BY <2>6, <2>7 DEF CacheMatchesDisk
<1> QED
  BY <1>1, <1>2, TypeStep

-----------------------------------------------------------------------------
\* No preemption: one process at a time looks a path up. What holds while p is
\* the one that may run says everything, p's lookup being the only one.

\* Statements of get_dir_entries() at which the directory has a buffer.
Using == {"map", "entry", "add", "close"}

\* A buffer that is pointed to is allocated, but for a lookup that is about to
\* clear the pointer, and pointed to once.
BufAt(p) ==
    LET l == look[p]
    IN  /\ \A f \in File : file[f].mmap # NoBuf =>
              /\ file[f].mmap \in bufs \/ (l.pc = "clear" /\ l.fp = f)
              /\ \A g \in File : g # f => file[g].mmap # file[f].mmap
        /\ l.pc = "read" => file[l.fp].mmap = NoBuf
        /\ l.pc \in Using => file[l.fp].mmap # NoBuf
        /\ l.pc \in {"entry", "add"} => l.base = file[l.fp].mmap

\* The entry that is about to be added.
This(p) == Entries[file[look[p].fp].inum][look[p].k]

\* No name twice, the one about to be added included.
UniqueAt(p) ==
    /\ LeafUnique
    /\ look[p].pc = "add" =>
          \A f \in File \ {f_root} : file[f].parent = look[p].fp => file[f].name # This(p).name

\* The used entry e of directory f is ".", ".." or in the cache.
Read(f, e) == e.inum # Unused => e.name \in Dots \/ \E g \in Range(file[f].leaf) : file[g].name = e.name

\* The structs: the root, and entries other than "." and "..".
Rooted ==
    /\ file[f_root].parent = f_root /\ file[f_root].inum = ROOT
    /\ \A f \in File \ {f_root} : file[f].name \notin Dots

\* The entries before the k-th are in the cache, then all of them.
Scan(p) ==
    LET l == look[p]
        es == Entries[file[l.fp].inum]
    IN  /\ l.pc \in {"entry", "add"} => \A n \in DOMAIN es : n < l.k => Read(l.fp, es[n])
        /\ l.pc \in {"close", "clear", "leaf"} => \A n \in DOMAIN es : Read(l.fp, es[n])

\* What is left of the path means from fp what the path means.
Sense(p) ==
    LET l == look[p]
    IN  /\ l.op # "init" /\ l.pc \in Dirs => Head(l.rest) \notin Dots
        /\ l.op # "init" /\ l.pc \in Dirs \cup {"word"} =>
              \A j \in Inode : Leads(file[l.fp].inum, l.rest, j) <=> Leads(l.from, l.names, j)
        /\ l.pc = "fail" => \A j \in Inode : ~Leads(l.from, l.names, j)

PathAt(p) == Rooted /\ Scan(p) /\ Sense(p)

\* The inductive invariants.
Lone == \E p \in Proc : Runs(p)
BufInv == Lone /\ \A p \in Proc : Runs(p) => BufAt(p)
UniqueInv == \A p \in Proc : Runs(p) => UniqueAt(p)
PathInv == \A p \in Proc : Runs(p) => PathAt(p)

\* The step of p leaves p the one that may run; another one may if no lookup is
\* under way.
LEMMA Alone ==
    ASSUME PREEMPT = FALSE, TypeInv, TypeInv', NEW p \in Proc, Runs(p), Others(p)
    PROVE  /\ Runs(p)'
           /\ \A q \in Proc : q # p /\ Runs(q)' => look'[p].pc = "idle" /\ look'[q].pc = "idle"
<1>1. \A q \in Proc : q # p => look[q].op = "none" /\ look'[q] = look[q]
  BY DEF Runs, Others
<1>2. Runs(p)'
  BY <1>1 DEF Runs
<1>3. ASSUME NEW q \in Proc, q # p, Runs(q)' PROVE look'[p].op = "none" /\ look'[q].op = "none"
  BY <1>1, <1>3 DEF Runs
<1>4. \A q \in Proc : look'[q].op = "none" => look'[q].pc = "idle"
  <2>1. \A q \in Proc : LookOK(q)'
    BY DEF TypeInv
  <2> QED
    BY <2>1 DEF LookOK
<1> QED
  BY <1>2, <1>3, <1>4

\* The one that may run is the one whose lookup is under way.
LEMMA Runner ==
    ASSUME PREEMPT = FALSE, Lone, TypeInv, NEW p \in Proc, look[p].pc # "idle"
    PROVE  Runs(p)
<1>1. look[p].op # "none"
  BY Busy
<1> QED
  BY <1>1 DEF Lone, Runs

\* The loop of the one that may run reads the buffer of its directory.
LEMMA HeldNow == ASSUME PREEMPT = FALSE, TypeInv, BufInv PROVE DirBufferHeld
<1> SUFFICES ASSUME NEW p \in Proc, look[p].pc \in {"entry", "add"}
             PROVE  look[p].base \in bufs /\ look[p].base = file[look[p].fp].mmap
  BY DEF DirBufferHeld, Held
<1>1. BufAt(p) /\ look[p].fp \in File
  BY Runner, LookHas DEF BufInv
<1> QED
  BY <1>1 DEF BufAt, Using

\* An entry is read or added from such a buffer.
LEMMA HeldAt == ASSUME DirBufferHeld, NEW p \in Proc, Entry(p) \/ Add(p) PROVE Held(p)
BY DEF DirBufferHeld, Entry, Add, At

\* It suffices to look at the process that did the step.
LEMMA BufFrom ==
    ASSUME PREEMPT = FALSE, TypeInv, TypeInv', NEW p \in Proc, Runs(p), Others(p), BufAt(p)'
    PROVE  BufInv'
<1>1. ASSUME NEW q \in Proc, q # p, Runs(q)' PROVE BufAt(q)'
  <2>1. look'[p].pc = "idle" /\ look'[q].pc = "idle"
    BY <1>1, Alone
  <2> QED
    BY <2>1 DEF BufAt, Using
<1>2. Runs(p)'
  BY Alone
<1> QED
  BY <1>1, <1>2 DEF BufInv, Lone

\* Statements that do not touch buffers.
LEMMA BufQuiet ==
    ASSUME TypeInv, TypeInv', NEW p \in Proc, BufAt(p), TreeKept, MapsKept, UNCHANGED bufs,
           look[p].pc # "clear",
           look'[p].pc = "read" => file[look'[p].fp].mmap = NoBuf,
           look'[p].pc \in Using => file[look'[p].fp].mmap # NoBuf,
           look'[p].pc \in {"entry", "add"} => look'[p].base = file[look'[p].fp].mmap
    PROVE  BufAt(p)'
<1>1. File' = File
  BY DEF TreeKept, File
<1>2. look'[p].fp \in File
  <2>1. LookOK(p)'
    BY DEF TypeInv
  <2> QED
    BY <1>1, <2>1 DEF LookOK
<1>3. ASSUME NEW f \in File, file[f].mmap # NoBuf
      PROVE  /\ file[f].mmap \in bufs
             /\ \A g \in File : g # f => file[g].mmap # file[f].mmap
  BY <1>3 DEF BufAt
<1> QED
  BY <1>1, <1>2, <1>3 DEF BufAt, MapsKept

\* A file gets a new buffer.
LEMMA BufNew ==
    ASSUME TypeInv, TypeInv', NEW p \in Proc, BufAt(p), TreeKept,
           look[p].pc # "clear", NEW f \in File, NEW b \in Nat \ {0}, b \notin bufs,
           bufs' = bufs \cup {b}, NEW n \in Int, MapSet(f, b, n),
           look'[p].pc \in {"idle", "map"}, look'[p].pc = "map" => look'[p].fp = f
    PROVE  BufAt(p)'
<1>1. File' = File /\ b # NoBuf
  BY DEF TreeKept, File, NoBuf
<1>2. ASSUME NEW g \in File, file[g].mmap # NoBuf
      PROVE  /\ file[g].mmap \in bufs /\ file[g].mmap # b
             /\ \A h \in File : h # g => file[h].mmap # file[g].mmap
  BY <1>2 DEF BufAt
<1>3. file'[f].mmap = b /\ \A g \in File : g # f => file'[g].mmap = file[g].mmap
  BY DEF MapSet
<1>4. ASSUME NEW g \in File, file'[g].mmap # NoBuf
      PROVE  /\ file'[g].mmap \in bufs'
             /\ \A h \in File : h # g => file'[h].mmap # file'[g].mmap
  <2>1. CASE g = f
    BY <1>1, <1>2, <1>3, <2>1
  <2>2. CASE g # f
    BY <1>1, <1>2, <1>3, <1>4, <2>2
  <2> QED
    BY <2>1, <2>2
<1>5. ASSUME NEW g \in File', file'[g].mmap # NoBuf
      PROVE  /\ file'[g].mmap \in bufs'
             /\ \A h \in File' : h # g => file'[h].mmap # file'[g].mmap
  BY <1>1, <1>4, <1>5
<1>6. look'[p].pc \in Using => file'[look'[p].fp].mmap # NoBuf
  BY <1>1, <1>3 DEF Using
<1> QED
  BY <1>5, <1>6 DEF BufAt

\* The buffer of a file is given back and the pointer cleared.
LEMMA BufCleared ==
    ASSUME TypeInv, TypeInv', NEW p \in Proc, BufAt(p), TreeKept, NEW f \in File, NEW n \in Int,
           MapSet(f, NoBuf, n),
           bufs' = bufs \ {file[f].mmap} \/ (bufs' = bufs /\ look[p].fp = f),
           look[p].pc = "idle" \/ (look[p].pc = "clear" /\ look[p].fp = f),
           look'[p].pc \in {"idle", "leaf"}
    PROVE  BufAt(p)'
<1>1. File' = File
  BY DEF TreeKept, File
<1>2. ASSUME NEW g \in File, file[g].mmap # NoBuf, g # f
      PROVE  /\ file[g].mmap \in bufs'
             /\ \A h \in File : h # g => file[h].mmap # file[g].mmap
  BY <1>2 DEF BufAt, Using
<1>3. file'[f].mmap = NoBuf /\ \A g \in File : g # f => file'[g].mmap = file[g].mmap
  BY DEF MapSet
<1>4. ASSUME NEW g \in File', file'[g].mmap # NoBuf
      PROVE  /\ file'[g].mmap \in bufs'
             /\ \A h \in File' : h # g => file'[h].mmap # file'[g].mmap
  BY <1>1, <1>2, <1>3, <1>4
<1> QED
  BY <1>4 DEF BufAt, Using

\* A process that opens a file has none open.
OpensOne == \A p \in Proc : look[p].op = "open" => fd[p] = NoFile

\* Every step keeps it so.
LEMMA OpensStep ==
    ASSUME TypeInv, DirBufferHeld, OpensOne, [Next]_vars
    PROVE  OpensOne'
<1>1. CASE UNCHANGED vars
  BY <1>1 DEF vars, OpensOne
<1>2. ASSUME NEW p \in Proc, Others(p), fd' = fd,
             look'[p].op = look[p].op \/ (look'[p].op = "open" => fd[p] = NoFile)
      PROVE  OpensOne'
  BY <1>2 DEF Others, OpensOne
<1>3. ASSUME NEW p \in Proc, NEW op \in {"open", "chdir", "exec"}, NEW path \in Paths, Begin(p, op, path),
             op = "open" => fd[p] = NoFile
      PROVE  OpensOne'
  BY <1>2, <1>3, BeginStep
<1>4. ASSUME NEW p \in Proc,
             \/ Word(p) \/ Leaf(p) \/ DirTest(p) \/ DirRead(p) \/ DirMap(p) \/ Entry(p) \/ Add(p)
             \/ DirFree(p) \/ DirClear(p)
      PROVE  OpensOne'
  <2>1. Keeps(p) /\ fd' = fd
    BY <1>4, HeldAt, WordStep, LeafStep, DirTestStep, DirReadStep, DirMapStep, EntryStep, AddStep,
       DirFreeStep, DirClearStep DEF Here
  <2> QED
    BY <1>2, <2>1 DEF Keeps
<1>5. ASSUME NEW p \in Proc, Fail(p) \/ init_root(p) \/ sys_chdir(p) \/ sys_exec(p) PROVE OpensOne'
  <2>1. look'[p] = Idle /\ Others(p) /\ fd' = fd
    BY <1>5, FailStep, ChdirStep
  <2> QED
    BY <1>2, <2>1, IdleHas
<1>6. ASSUME NEW p \in Proc, sys_open(p) PROVE OpensOne'
  <2>1. look'[p] = Idle /\ Others(p) /\ \A q \in Proc : q # p => fd'[q] = fd[q]
    BY <1>6, OpenStep DEF TypeInv
  <2> QED
    BY <2>1, IdleHas DEF Others, OpensOne
<1>7. ASSUME NEW p \in Proc, sys_close(p) \/ sys_exit(p) PROVE OpensOne'
  <2>1. look' = look /\ fd' = [fd EXCEPT ![p] = NoFile]
    BY <1>7, CloseStep, ExitStep
  <2> QED
    BY <2>1 DEF OpensOne, TypeInv
<1> QED
  BY <1>1, <1>3, <1>4, <1>5, <1>6, <1>7, Steps

\* Every step keeps the buffers in order.
LEMMA BufStep ==
    ASSUME PREEMPT = FALSE, TypeInv, BufInv, [Next]_vars
    PROVE  BufInv'
<1>0. TypeInv' /\ FileOK /\ DirBufferHeld
  BY HeldNow, TypeStep DEF TypeInv
<1>a. \A p \in Proc : Runs(p) => BufAt(p)
  BY DEF BufInv
<1>1. CASE UNCHANGED vars
  BY <1>1 DEF vars, BufInv, Lone, Runs, BufAt, File
<1>2. ASSUME NEW p \in Proc, NEW op \in {"open", "chdir", "exec"}, NEW path \in Paths, Begin(p, op, path)
      PROVE  BufInv'
  <2>1. /\ UNCHANGED <<file, bufs, pwd, fd>> /\ Runs(p) /\ look[p].op = "none" /\ Others(p)
        /\ look'[p].pc = "word"
    BY <1>2, BeginStep
  <2>2. TreeKept /\ MapsKept /\ look[p].pc = "idle"
    BY <2>1, FileSame, LookHas DEF LookOK
  <2>3. BufAt(p)'
    BY <1>0, <1>a, <2>1, <2>2, BufQuiet DEF Using
  <2> QED
    BY <1>0, <2>1, <2>3, BufFrom
<1>3. ASSUME NEW p \in Proc, Word(p) PROVE BufInv'
  <2>1. /\ UNCHANGED <<bufs, pwd, fd>> /\ TreeKept /\ MapsKept /\ Runs(p) /\ Others(p)
        /\ look[p].pc = "word" /\ look'[p].pc \in {"fail", "word", "dir"}
    BY <1>3, WordStep DEF Keeps
  <2>2. BufAt(p)'
    BY <1>0, <1>a, <2>1, BufQuiet DEF Using
  <2> QED
    BY <1>0, <2>1, <2>2, BufFrom
<1>4. ASSUME NEW p \in Proc, Leaf(p) PROVE BufInv'
  <2>1. /\ UNCHANGED <<file, bufs, pwd, fd>> /\ Runs(p) /\ Others(p)
        /\ look[p].pc = "leaf" /\ look'[p].pc \in {"fail", "word"}
    BY <1>4, LeafStep DEF Keeps
  <2>2. BufAt(p)'
    BY <1>0, <1>a, <2>1, FileSame, BufQuiet DEF Using
  <2> QED
    BY <1>0, <2>1, <2>2, BufFrom
<1>5. ASSUME NEW p \in Proc, Fail(p) \/ init_root(p) PROVE BufInv'
  <2>1. /\ UNCHANGED <<file, bufs, pwd, fd>> /\ Runs(p) /\ Others(p)
        /\ look[p].pc \in {"fail", "leaf"} /\ look'[p].pc = "idle"
    BY <1>5, FailStep, IdleHas
  <2>2. BufAt(p)'
    BY <1>0, <1>a, <2>1, FileSame, BufQuiet DEF Using
  <2> QED
    BY <1>0, <2>1, <2>2, BufFrom
<1>6. ASSUME NEW p \in Proc, DirTest(p) PROVE BufInv'
  <2>1. /\ UNCHANGED <<file, bufs, pwd, fd>> /\ Runs(p) /\ Others(p)
        /\ look[p].pc = "dir" /\ look'[p].fp = look[p].fp
        /\ look'[p].pc = IF file[look[p].fp].mmap = NoBuf THEN "read" ELSE "map"
    BY <1>6, DirTestStep DEF Here, Keeps
  <2>2. BufAt(p)'
    BY <1>0, <1>a, <2>1, FileSame, BufQuiet DEF Using
  <2> QED
    BY <1>0, <2>1, <2>2, BufFrom
<1>7. ASSUME NEW p \in Proc, DirRead(p) PROVE BufInv'
  <2>1. /\ UNCHANGED <<pwd, fd>> /\ TreeKept /\ Runs(p) /\ Others(p) /\ look[p].pc = "read"
        /\ look'[p].pc = "map" /\ look'[p].toclose = TRUE /\ look'[p].fp = look[p].fp
    BY <1>7, DirReadStep DEF Here, Keeps
  <2>2. PICK b \in Nat \ {0} : b \notin bufs /\ bufs' = bufs \cup {b} /\ MapSet(look[p].fp, b, 0)
    BY <1>7, DirReadStep
  <2>3. look[p].fp \in File
    BY LookHas
  <2>4. BufAt(p)'
    BY <1>0, <1>a, <2>1, <2>2, <2>3, BufNew DEF Using
  <2> QED
    BY <1>0, <2>1, <2>4, BufFrom
<1>8. ASSUME NEW p \in Proc, DirMap(p) PROVE BufInv'
  <2>1. /\ UNCHANGED <<file, bufs, pwd, fd>> /\ Runs(p) /\ Others(p)
        /\ look[p].pc = "map" /\ look'[p].fp = look[p].fp /\ look'[p].pc = "entry"
        /\ look'[p].base = file[look[p].fp].mmap /\ look'[p].toclose = look[p].toclose
    BY <1>8, DirMapStep DEF Here, Keeps
  <2>2. file[look[p].fp].mmap # NoBuf
    BY <1>a, <2>1 DEF BufAt, Using
  <2>3. BufAt(p)'
    BY <1>0, <1>a, <2>1, <2>2, FileSame, BufQuiet DEF Using
  <2> QED
    BY <1>0, <2>1, <2>3, BufFrom
<1>9. ASSUME NEW p \in Proc, Entry(p) PROVE BufInv'
  <2>1. /\ UNCHANGED <<file, bufs, pwd, fd>> /\ Runs(p) /\ Others(p)
        /\ look[p].pc = "entry" /\ look'[p].fp = look[p].fp /\ look'[p].pc \in {"entry", "add", "close"}
        /\ look'[p].base = look[p].base /\ look'[p].toclose = look[p].toclose
    BY <1>0, <1>9, HeldAt, EntryStep DEF Here, Keeps
  <2>2. file[look[p].fp].mmap # NoBuf /\ look[p].base = file[look[p].fp].mmap
    BY <1>a, <2>1 DEF BufAt, Using
  <2>3. BufAt(p)'
    BY <1>0, <1>a, <2>1, <2>2, FileSame, BufQuiet DEF Using
  <2> QED
    BY <1>0, <2>1, <2>3, BufFrom
<1>10. ASSUME NEW p \in Proc, Add(p) PROVE BufInv'
  <2>1. /\ UNCHANGED <<bufs, pwd, fd>> /\ Runs(p) /\ Others(p)
        /\ look[p].pc = "add" /\ look'[p].fp = look[p].fp /\ look'[p].pc = "entry"
        /\ look'[p].base = look[p].base /\ look'[p].toclose = look[p].toclose
        /\ NewLeaf(look[p].fp, This(p))
    BY <1>0, <1>10, HeldAt, AddStep DEF Here, Keeps, This
  <2>2. look[p].fp \in File
    BY LookHas
  <2>3. /\ \A g \in File : file'[g].mmap = file[g].mmap
        /\ file'[Len(file) + 1].mmap = NoBuf
        /\ File' = File \cup {Len(file) + 1}
    BY <1>0, <2>1 DEF NewLeaf, File, FileOK
  <2>4. BufAt(p)
    BY <1>a, <2>1
  <2>5. BufAt(p)'
    BY <2>1, <2>2, <2>3, <2>4 DEF BufAt, Using
  <2> QED
    BY <1>0, <2>1, <2>5, BufFrom
<1>11. ASSUME NEW p \in Proc, DirFree(p) PROVE BufInv'
  <2>1. /\ UNCHANGED <<file, pwd, fd>> /\ Runs(p) /\ Others(p) /\ look[p].pc = "close"
        /\ look'[p].fp = look[p].fp /\ look'[p].toclose = look[p].toclose
        /\ \/ look[p].toclose /\ look'[p].pc = "clear" /\ bufs' = bufs \ {file[look[p].fp].mmap}
           \/ ~look[p].toclose /\ look'[p].pc = "leaf" /\ bufs' = bufs
    BY <1>11, DirFreeStep DEF Here, Keeps
  <2>2. look[p].fp \in File /\ BufAt(p) /\ File' = File
    BY <1>a, <2>1, LookHas DEF File
  <2>3. ASSUME NEW f \in File, file[f].mmap # NoBuf
        PROVE  /\ file[f].mmap \in bufs' \/ (look'[p].pc = "clear" /\ look'[p].fp = f)
               /\ \A g \in File : g # f => file[g].mmap # file[f].mmap
    BY <2>1, <2>2, <2>3 DEF BufAt, Using
  <2>4. BufAt(p)'
    BY <2>1, <2>2, <2>3 DEF BufAt, Using
  <2> QED
    BY <1>0, <2>1, <2>4, BufFrom
<1>12. ASSUME NEW p \in Proc, DirClear(p) PROVE BufInv'
  <2>1. /\ UNCHANGED <<bufs, pwd, fd>> /\ TreeKept /\ MapSet(look[p].fp, NoBuf, 0) /\ Runs(p) /\ Others(p)
        /\ look[p].pc = "clear" /\ look'[p].pc = "leaf"
    BY <1>12, DirClearStep DEF Here, Keeps
  <2>2. look[p].fp \in File
    BY LookHas
  <2>3. BufAt(p)'
    BY <1>0, <1>a, <2>1, <2>2, BufCleared
  <2> QED
    BY <1>0, <2>1, <2>3, BufFrom
<1>13. ASSUME NEW p \in Proc, sys_open(p) PROVE BufInv'
  <2>1. /\ TreeKept /\ Runs(p) /\ Others(p)
        /\ look[p].pc = "word" /\ look'[p].pc = "idle"
    BY <1>13, OpenStep, IdleHas
  <2>2. PICK b \in Nat \ {0} : b \notin bufs /\ bufs' = bufs \cup {b} /\ MapSet(look[p].fp, b, 1)
    BY <1>13, OpenStep
  <2>3. look[p].fp \in File
    BY LookHas
  <2>4. BufAt(p)'
    BY <1>0, <1>a, <2>1, <2>2, <2>3, BufNew
  <2> QED
    BY <1>0, <2>1, <2>4, BufFrom
<1>14. ASSUME NEW p \in Proc, sys_chdir(p) \/ sys_exec(p) PROVE BufInv'
  <2>1. /\ UNCHANGED <<bufs, fd>> /\ TreeKept /\ MapsKept /\ Runs(p) /\ Others(p)
        /\ look[p].pc = "word" /\ look'[p].pc = "idle"
    BY <1>14, ChdirStep, IdleHas
  <2>2. BufAt(p)'
    BY <1>0, <1>a, <2>1, BufQuiet DEF Using
  <2> QED
    BY <1>0, <2>1, <2>2, BufFrom
<1>15. ASSUME NEW p \in Proc, sys_close(p) \/ sys_exit(p) PROVE BufInv'
  <2>1. /\ UNCHANGED look /\ TreeKept /\ Runs(p) /\ look[p].op = "none" /\ fd[p] \in File
        /\ \/ \E n \in {0, -1} : bufs' = bufs \ {file[fd[p]].mmap} /\ MapSet(fd[p], NoBuf, n)
           \/ bufs' = bufs /\ MapSet(fd[p], file[fd[p]].mmap, -1)
    BY <1>15, CloseStep, ExitStep
  <2>2. look[p].pc = "idle" /\ Others(p) /\ BufAt(p)
    BY <1>a, <2>1, LookHas DEF LookOK, Others
  <2>3. CASE \E n \in {0, -1} : bufs' = bufs \ {file[fd[p]].mmap} /\ MapSet(fd[p], NoBuf, n)
    <3>1. PICK n \in Int : bufs' = bufs \ {file[fd[p]].mmap} /\ MapSet(fd[p], NoBuf, n)
      BY <2>3
    <3>2. BufAt(p)'
      BY <1>0, <2>1, <2>2, <3>1, BufCleared
    <3> QED
      BY <1>0, <2>1, <2>2, <3>2, BufFrom
  <2>4. CASE bufs' = bufs /\ MapSet(fd[p], file[fd[p]].mmap, -1)
    <3>1. File' = File /\ \A f \in File : file'[f].mmap = file[f].mmap
      BY <2>1, <2>4 DEF MapSet, TreeKept, File
    <3>2. BufAt(p)'
      BY <2>1, <2>2, <2>4, <3>1 DEF BufAt, Using
    <3> QED
      BY <1>0, <2>1, <2>2, <3>2, BufFrom
  <2> QED
    BY <2>1, <2>3, <2>4
<1> QED
  BY <1>1, <1>2, <1>3, <1>4, <1>5, <1>6, <1>7, <1>8, <1>9, <1>10, <1>11, <1>12, <1>13, <1>14, <1>15, Steps

\* At the start init_root() is the only lookup, and the root the only struct.
LEMMA InitHas ==
    ASSUME Init
    PROVE  /\ File = {f_root} /\ file[f_root].mmap = NoBuf /\ file[f_root].parent = f_root
           /\ file[f_root].inum = ROOT
           /\ Lone /\ \A p \in Proc : look[p].op \in {"none", "init"} /\ look[p].pc \in {"idle", "dir"}
<1>1. PICK p \in Proc : look = [[q \in Proc |-> Idle] EXCEPT ![p].op = "init", ![p].pc = "dir"]
  BY DEF Init
<1>2. Idle \in LookRec /\ Idle.op = "none" /\ Idle.pc = "idle"
  BY IdleHas
<1>3. look[p].op = "init" /\ look[p].pc = "dir" /\ \A q \in Proc : q # p => look[q] = Idle
  BY <1>1, <1>2 DEF LookRec
<1>4. PICK junk \in JUNK : file = <<Struct("/", ROOT, f_root, TRUE, junk)>>
  BY DEF Init
<1>5. File = {f_root} /\ file[f_root] = Struct("/", ROOT, f_root, TRUE, junk)
  BY <1>4 DEF File, f_root
<1> QED
  BY <1>2, <1>3, <1>5 DEF Struct, Lone, Runs

\* A directory's entries are read from its own, allocated buffer, unless an exec
\* is preempted, and every pointer to a buffer is to an allocated one once no
\* lookup is under way.
LEMMA Buffers == ASSUME PREEMPT = FALSE PROVE Spec => [](TypeInv /\ OpensOne /\ BufInv)
<1>1. Init => TypeInv /\ OpensOne /\ BufInv
  <2> SUFFICES ASSUME Init PROVE TypeInv /\ OpensOne /\ BufInv
    OBVIOUS
  <2>1. \A p \in Proc : BufAt(p)
    BY InitHas DEF BufAt, Using
  <2> QED
    BY <2>1, InitHas, TypeInit DEF OpensOne, BufInv
<1>2. TypeInv /\ OpensOne /\ BufInv /\ [Next]_vars => (TypeInv /\ OpensOne /\ BufInv)'
  BY HeldNow, TypeStep, OpensStep, BufStep
<1> QED
  BY <1>1, <1>2, PTL DEF Spec

\* DirBufferHeld: while one lookup is under way at a time, get_dir_entries()
\* reads entries only from the buffer of the directory, and it is allocated.
THEOREM BufferHeld == ASSUME PREEMPT = FALSE PROVE Spec => []DirBufferHeld
BY HeldNow, Buffers, PTL

\* CacheMatchesDisk: every struct of the cache is an entry of the directory its
\* parent pointer names and in that directory's list, whatever the disk and the
\* paths, unless an exec is preempted.
THEOREM TreeCorrect == ASSUME PREEMPT = FALSE PROVE Spec => []CacheMatchesDisk
<1>1. Init => CacheMatchesDisk
  BY TypeInit
<1>2. TypeInv /\ BufInv /\ CacheMatchesDisk /\ [Next]_vars => CacheMatchesDisk'
  BY HeldNow, TreeStep
<1> QED
  BY <1>1, <1>2, Buffers, PTL DEF Spec

-----------------------------------------------------------------------------
\* The counters.

\* The processes that have f open.
Openers(f) == {p \in Proc : fd[p] = f}

\* A counter covers them, if the counter of a new struct is not negative.
Counted == \A f \in File : file[f].opened >= Cardinality(Openers(f))

\* A buffer is of a file with a positive counter, or of a lookup, which gives it
\* back.
Own(p, f) == look[p].pc \in Using \cup {"clear"} /\ look[p].toclose /\ look[p].fp = f
Owned == \A f \in File : file[f].mmap # NoBuf => file[f].opened > 0 \/ \E p \in Proc : Own(p, f)

\* Openers are a finite set.
LEMMA OpenersFinite == \A f : IsFiniteSet(Openers(f)) /\ Cardinality(Openers(f)) \in Nat
<1>1. \A f : Openers(f) \subseteq Proc
  BY DEF Openers
<1> QED
  BY <1>1, Disk, FS_Subset, FS_CardinalityType

\* Who has which file open does not change.
LEMMA CountKept ==
    ASSUME Counted, TreeKept, fd' = fd,
           \A f \in File : file'[f].opened = file[f].opened
    PROVE  Counted'
<1>1. File' = File /\ \A f : Openers(f)' = Openers(f)
  BY DEF TreeKept, File, Openers
<1> QED
  BY <1>1 DEF Counted

\* p opens f, the counter with it.
LEMMA CountOpened ==
    ASSUME TypeInv, Counted, TreeKept, NEW p \in Proc, NEW f \in File, fd[p] = NoFile,
           fd' = [fd EXCEPT ![p] = f], NEW b, MapSet(f, b, 1)
    PROVE  Counted'
<1>1. File' = File /\ fd \in [Proc -> Nat] /\ f # NoFile
  BY DEF TreeKept, File, TypeInv, NoFile
<1>2. Openers(f)' = Openers(f) \cup {p} /\ p \notin Openers(f)
  BY <1>1 DEF Openers
<1>3. \A g \in File : g # f => Openers(g)' = Openers(g)
  <2>1. \A g \in File : g # NoFile
    BY DEF File, NoFile
  <2> QED
    BY <1>1, <2>1 DEF Openers
<1>4. Cardinality(Openers(f)') = Cardinality(Openers(f)) + 1
  BY <1>2, OpenersFinite, FS_AddElement
<1>5. file[f].opened \in Int /\ Cardinality(Openers(f)) \in Nat
  BY OpenersFinite, RecOf DEF TypeInv
<1> QED
  BY <1>1, <1>3, <1>4, <1>5 DEF Counted, MapSet

\* p has nothing open any more, and the counter is decremented or not.
LEMMA CountClosed ==
    ASSUME TypeInv, Counted, TreeKept, NEW p \in Proc, NEW f \in File, f = fd[p],
           fd' = [fd EXCEPT ![p] = NoFile], NEW b, NEW n \in {0, -1}, MapSet(f, b, n)
    PROVE  Counted' /\ file[f].opened >= 1
<1>1. File' = File /\ fd \in [Proc -> Nat] /\ f # NoFile /\ \A g \in File : g # NoFile
  BY DEF TreeKept, File, TypeInv, NoFile
<1>2. Openers(f)' = Openers(f) \ {p} /\ p \in Openers(f)
  BY <1>1 DEF Openers
<1>3. \A g \in File : g # f => Openers(g)' = Openers(g)
  BY <1>1 DEF Openers
<1>4. Cardinality(Openers(f)') = Cardinality(Openers(f)) - 1
  BY <1>2, OpenersFinite, FS_RemoveElement
<1>5. Cardinality(Openers(f)') \in Nat
  <2>1. Openers(f)' \subseteq Openers(f)
    BY <1>2
  <2> QED
    BY <2>1, OpenersFinite, FS_Subset, FS_CardinalityType
<1>6. file[f].opened \in Int /\ Cardinality(Openers(f)) \in Nat /\ f \in File
  BY OpenersFinite, RecOf DEF TypeInv
<1>7. file'[f].opened = file[f].opened + n /\ \A g \in File : g # f => file'[g].opened = file[g].opened
  BY DEF MapSet
<1>8. file[f].opened >= Cardinality(Openers(f))
  BY <1>6 DEF Counted
<1>9. Counted'
  <2> SUFFICES ASSUME NEW g \in File PROVE file'[g].opened >= Cardinality(Openers(g)')
    BY <1>1 DEF Counted
  <2>1. CASE g = f
    BY <1>4, <1>6, <1>7, <1>8, <2>1
  <2>2. CASE g # f
    BY <1>3, <1>7, <2>2 DEF Counted
  <2> QED
    BY <2>1, <2>2
<1>10. file[f].opened >= 1
  BY <1>4, <1>5, <1>6, <1>8
<1> QED
  BY <1>9, <1>10

\* Every step keeps the counters and the buffers together.
LEMMA CountStep ==
    ASSUME JUNK \subseteq Nat, TypeInv, DirBufferHeld, OpensOne, Counted, Owned, [Next]_vars
    PROVE  Counted' /\ Owned'
<1>0. FileOK /\ \A f \in File : file[f].opened \in Int
  BY RecOf DEF TypeInv
<1>1. CASE UNCHANGED vars
  BY <1>1 DEF vars, Counted, Owned, Own, Openers, File
<1>2. ASSUME NEW p \in Proc, TreeKept, MapsKept, fd' = fd, Others(p),
             \A f \in File : Own(p, f) => file[f].mmap = NoBuf \/ file[f].opened > 0 \/ Own(p, f)'
      PROVE  Counted' /\ Owned'
  <2>1. Counted'
    BY <1>2, CountKept DEF MapsKept
  <2>2. File' = File
    BY <1>2 DEF TreeKept, File
  <2>3. \A q \in Proc, f \in File : q # p /\ Own(q, f) => Own(q, f)'
    BY <1>2 DEF Others, Own
  <2>4. Owned'
    BY <1>2, <2>2, <2>3 DEF Owned, MapsKept
  <2> QED
    BY <2>1, <2>4
<1>3. ASSUME NEW p \in Proc, NEW op \in {"open", "chdir", "exec"}, NEW path \in Paths, Begin(p, op, path)
      PROVE  Counted' /\ Owned'
  <2>1. UNCHANGED <<file, fd>> /\ Others(p) /\ look[p].op = "none"
    BY <1>3, BeginStep
  <2>2. look[p].pc = "idle" /\ TreeKept /\ MapsKept
    BY <2>1, LookHas, FileSame DEF LookOK
  <2> QED
    BY <1>2, <2>1, <2>2 DEF Own, Using
<1>4. ASSUME NEW p \in Proc, Word(p) \/ Leaf(p) \/ DirTest(p) PROVE Counted' /\ Owned'
  <2>1. /\ TreeKept /\ MapsKept /\ fd' = fd /\ Others(p)
        /\ look[p].pc \in {"word", "leaf", "dir"}
    BY <1>4, WordStep, LeafStep, DirTestStep, FileSame DEF Here, Keeps
  <2> QED
    BY <1>2, <2>1 DEF Own, Using
<1>5. ASSUME NEW p \in Proc, Fail(p) \/ init_root(p) \/ sys_chdir(p) \/ sys_exec(p) PROVE Counted' /\ Owned'
  <2>1. /\ TreeKept /\ MapsKept /\ fd' = fd /\ Others(p)
        /\ look[p].pc \in {"fail", "leaf", "word"}
    BY <1>5, FailStep, ChdirStep, FileSame
  <2> QED
    BY <1>2, <2>1 DEF Own, Using
<1>6. ASSUME NEW p \in Proc, DirMap(p) \/ Entry(p) PROVE Counted' /\ Owned'
  <2>1. /\ TreeKept /\ MapsKept /\ fd' = fd /\ Others(p) /\ look'[p].fp = look[p].fp
        /\ look'[p].toclose = look[p].toclose /\ look'[p].pc \in {"entry", "add", "close"}
    <3>1. CASE DirMap(p)
      BY <3>1, DirMapStep, FileSame DEF Here, Keeps
    <3>2. CASE Entry(p)
      <4>1. Held(p)
        BY <3>2, HeldAt
      <4> QED
        BY <3>2, <4>1, EntryStep, FileSame DEF Here, Keeps
    <3> QED
      BY <1>6, <3>1, <3>2
  <2> QED
    BY <1>2, <2>1 DEF Own, Using
<1>7. ASSUME NEW p \in Proc, DirFree(p) PROVE Counted' /\ Owned'
  <2>1. /\ TreeKept /\ MapsKept /\ fd' = fd /\ Others(p) /\ look'[p].fp = look[p].fp
        /\ look'[p].toclose = look[p].toclose
        /\ look[p].toclose => look'[p].pc = "clear"
    BY <1>7, DirFreeStep, FileSame DEF Here, Keeps
  <2> QED
    BY <1>2, <2>1 DEF Own, Using
<1>8. ASSUME NEW p \in Proc, DirRead(p) PROVE Counted' /\ Owned'
  <2>1. /\ TreeKept /\ fd' = fd /\ Others(p) /\ look[p].pc = "read" /\ look'[p].pc = "map"
        /\ look'[p].toclose = TRUE /\ look'[p].fp = look[p].fp
    BY <1>8, DirReadStep DEF Here, Keeps
  <2>2. PICK b : MapSet(look[p].fp, b, 0)
    BY <1>8, DirReadStep
  <2>3. look[p].fp \in File /\ File' = File
    BY <2>1, LookHas DEF TreeKept, File
  <2>4. \A f \in File : file'[f].opened = file[f].opened
    BY <1>0, <2>2, <2>3 DEF MapSet
  <2>5. Counted'
    BY <2>1, <2>4, CountKept
  <2>6. \A f \in File : f = look[p].fp => Own(p, f)'
    BY <2>1 DEF Own, Using
  <2>7. \A q \in Proc, f \in File : Own(q, f) => Own(q, f)'
    BY <2>1 DEF Others, Own, Using
  <2>8. ASSUME NEW f \in File, file'[f].mmap # NoBuf
        PROVE  file'[f].opened > 0 \/ \E q \in Proc : Own(q, f)'
    <3>1. CASE f = look[p].fp
      BY <2>6, <3>1
    <3>2. CASE f # look[p].fp
      <4>1. file'[f].mmap = file[f].mmap
        BY <2>2, <3>2 DEF MapSet
      <4> QED
        BY <2>4, <2>7, <2>8, <4>1 DEF Owned
    <3> QED
      BY <3>1, <3>2
  <2> QED
    BY <2>3, <2>5, <2>8 DEF Owned
<1>9. ASSUME NEW p \in Proc, DirClear(p) PROVE Counted' /\ Owned'
  <2>1. /\ TreeKept /\ fd' = fd /\ Others(p) /\ MapSet(look[p].fp, NoBuf, 0)
    BY <1>9, DirClearStep DEF Here, Keeps
  <2>2. look[p].fp \in File /\ File' = File
    BY <2>1, LookHas DEF TreeKept, File
  <2>3. \A f \in File : file'[f].opened = file[f].opened
    BY <1>0, <2>1, <2>2 DEF MapSet
  <2>4. Counted'
    BY <2>1, <2>3, CountKept
  <2>5. \A q \in Proc, f \in File : f # look[p].fp /\ Own(q, f) => Own(q, f)'
    BY <2>1 DEF Others, Own
  <2>6. Owned'
    BY <2>1, <2>2, <2>3, <2>5 DEF Owned, MapSet
  <2> QED
    BY <2>4, <2>6
<1>10. ASSUME NEW p \in Proc, Add(p) PROVE Counted' /\ Owned'
  <2>0. PICK new \in Nat : new = Len(file) + 1 /\ new \notin File /\ new # NoFile
    <3>1. Len(file) \in Nat
      BY <1>0 DEF FileOK
    <3>2. Len(file) + 1 \in Nat /\ Len(file) + 1 \notin File /\ Len(file) + 1 # NoFile
      BY <3>1 DEF File, NoFile
    <3> QED
      BY <3>2
  <2>1. /\ fd' = fd /\ Others(p) /\ NewLeaf(look[p].fp, This(p)) /\ look[p].pc = "add"
        /\ look'[p].pc = "entry" /\ look'[p].fp = look[p].fp /\ look'[p].toclose = look[p].toclose
    BY <1>10, HeldAt, AddStep DEF Here, Keeps, This
  <2>2. /\ \A g \in File : file'[g].mmap = file[g].mmap /\ file'[g].opened = file[g].opened
        /\ file'[new].mmap = NoBuf /\ file'[new].opened \in Nat
        /\ File' = File \cup {new}
    <3>1. Len(file) \in Nat /\ Len(file') = Len(file) + 1
      BY <1>0, <2>1 DEF NewLeaf, FileOK
    <3>2. File' = File \cup {new}
      BY <2>0, <3>1 DEF File
    <3> QED
      BY <2>0, <2>1, <3>2 DEF NewLeaf
  <2>3. Openers(new) = {} /\ Cardinality(Openers(new)) = 0 /\ \A f : Openers(f)' = Openers(f)
    <3>1. Openers(new) = {}
      BY <2>0 DEF Openers, TypeInv
    <3> QED
      BY <2>1, <3>1, FS_EmptySet DEF Openers
  <2>4. Counted'
    <3> SUFFICES ASSUME NEW f \in File' PROVE file'[f].opened >= Cardinality(Openers(f)')
      BY DEF Counted
    <3>1. CASE f = new
      BY <2>2, <2>3, <3>1
    <3>2. CASE f \in File
      BY <2>2, <2>3, <3>2 DEF Counted
    <3> QED
      BY <2>2, <3>1, <3>2
  <2>5. \A q \in Proc, f \in File : Own(q, f) => Own(q, f)'
    BY <2>1 DEF Others, Own, Using
  <2>6. Owned'
    BY <2>2, <2>5 DEF Owned
  <2> QED
    BY <2>4, <2>6
<1>11. ASSUME NEW p \in Proc, sys_open(p) PROVE Counted' /\ Owned'
  <2>1. /\ TreeKept /\ fd' = [fd EXCEPT ![p] = look[p].fp] /\ Others(p) /\ look[p].pc = "word"
    BY <1>11, OpenStep
  <2>2. PICK b : MapSet(look[p].fp, b, 1)
    BY <1>11, OpenStep
  <2>3. look[p].fp \in File /\ File' = File /\ fd[p] = NoFile
    BY <1>11, <2>1, LookHas DEF TreeKept, File, sys_open, Found, OpensOne
  <2>4. Counted'
    BY <2>1, <2>2, <2>3, CountOpened
  <2>5. file'[look[p].fp].opened > 0
    <3>1. file[look[p].fp].opened >= 0
      BY <1>0, <2>3, OpenersFinite DEF Counted
    <3> QED
      BY <1>0, <2>2, <2>3, <3>1 DEF MapSet
  <2>6. \A q \in Proc, f \in File : Own(q, f) => Own(q, f)'
    BY <2>1 DEF Others, Own, Using
  <2>7. Owned'
    BY <2>2, <2>3, <2>5, <2>6 DEF Owned, MapSet
  <2> QED
    BY <2>4, <2>7
<1>12. ASSUME NEW p \in Proc, sys_close(p) \/ sys_exit(p) PROVE Counted' /\ Owned'
  <2>0. /\ TreeKept /\ look' = look /\ fd' = [fd EXCEPT ![p] = NoFile] /\ fd[p] \in File
        /\ \/ MapSet(fd[p], NoBuf, 0) \/ MapSet(fd[p], NoBuf, -1)
           \/ file[fd[p]].opened # 1 /\ MapSet(fd[p], file[fd[p]].mmap, -1)
    BY <1>12, CloseStep, ExitStep
  <2>1. PICK f \in File : f = fd[p]
    BY <2>0
  <2>2. PICK n \in {0, -1} : \E b : MapSet(f, b, n) /\ (b = NoBuf \/ (file[f].opened # 1 /\ n = -1))
    BY <2>0, <2>1
  <2>b. PICK b : MapSet(f, b, n) /\ (b = NoBuf \/ (file[f].opened # 1 /\ n = -1))
    BY <2>2
  <2>3. Counted' /\ file[f].opened >= 1 /\ file[f].opened \in Int
    BY <1>0, <2>0, <2>1, <2>b, CountClosed
  <2>4. File' = File /\ \A q \in Proc, g \in File : Own(q, g) => Own(q, g)'
    BY <2>0 DEF TreeKept, File, Own
  <2>5. b = NoBuf \/ file'[f].opened > 0
    BY <2>b, <2>3 DEF MapSet
  <2>6. Owned'
    BY <2>b, <2>4, <2>5 DEF Owned, MapSet
  <2> QED
    BY <2>3, <2>6
<1> QED
  BY <1>1, <1>3, <1>4, <1>5, <1>6, <1>7, <1>8, <1>9, <1>10, <1>11, <1>12, Steps

\* ClosedAgain: the lookups give back the buffers they took, whether the path
\* is found or not, and neither close nor exit leaves a pointer to a freed
\* buffer; a buffer is left only where the counter has not come back to 0,
\* provided that kmalloc() hands out structs without a negative one.
THEOREM BuffersClosed == ASSUME PREEMPT = FALSE, JUNK \subseteq Nat PROVE Spec => []ClosedAgain
<1>1. Init => Counted /\ Owned
  <2> SUFFICES ASSUME Init PROVE Counted /\ Owned
    OBVIOUS
  <2>1. File = {f_root} /\ file[f_root].mmap = NoBuf
    BY InitHas
  <2>2. file[f_root].opened \in Nat
    BY DEF Init, Struct, f_root
  <2>3. Openers(f_root) = {}
    BY DEF Openers, Init, f_root, NoFile
  <2>4. Cardinality(Openers(f_root)) = 0
    BY <2>3, FS_EmptySet
  <2> QED
    BY <2>1, <2>2, <2>4 DEF Counted, Owned
<1>2. TypeInv /\ OpensOne /\ BufInv /\ Counted /\ Owned /\ [Next]_vars => (Counted /\ Owned)'
  BY HeldNow, CountStep
<1>3. TypeInv /\ BufInv /\ Owned => ClosedAgain
  <2> SUFFICES ASSUME TypeInv, BufInv, Owned, \A p \in Proc : look[p].op = "none",
                      NEW f \in File, file[f].mmap # NoBuf
               PROVE  file[f].mmap \in bufs /\ file[f].opened > 0
    BY DEF ClosedAgain
  <2>1. PICK p \in Proc : Runs(p)
    BY DEF BufInv, Lone
  <2>2. \A q \in Proc : look[q].pc = "idle"
    BY LookHas DEF LookOK
  <2>3. BufAt(p) /\ \A q \in Proc : ~Own(q, f)
    BY <2>1, <2>2 DEF BufInv, Own, Using
  <2> QED
    BY <2>2, <2>3 DEF BufAt, Using, Owned
<1> QED
  BY <1>1, <1>2, <1>3, Buffers, PTL DEF Spec

-----------------------------------------------------------------------------

\* The step of p adds no name twice if it is kept so while p runs.
LEMMA UniqueFrom ==
    ASSUME PREEMPT = FALSE, TypeInv, TypeInv', NEW p \in Proc, Runs(p), Others(p), UniqueAt(p)'
    PROVE  UniqueInv'
<1>1. ASSUME NEW q \in Proc, q # p, Runs(q)' PROVE UniqueAt(q)'
  <2>1. look'[q].pc = "idle"
    BY <1>1, Alone
  <2> QED
    BY <2>1 DEF UniqueAt
<1> QED
  BY <1>1 DEF UniqueInv

\* The names stay while the tree does.
LEMMA UniqueKept ==
    ASSUME PREEMPT = FALSE, TypeInv, TypeInv', UniqueInv, TreeKept, NEW p \in Proc, Runs(p), Others(p),
           look'[p].pc # "add"
    PROVE  UniqueInv'
<1>1. LeafUnique'
  BY DEF UniqueInv, UniqueAt, LeafUnique, TreeKept, File
<1>2. UniqueAt(p)'
  BY <1>1 DEF UniqueAt
<1> QED
  BY <1>2, UniqueFrom

\* Every step keeps the names unique: the cache is searched before an entry is
\* added, and nobody adds one in between.
LEMMA UniqueStep ==
    ASSUME PREEMPT = FALSE, TypeInv, DirBufferHeld, CacheMatchesDisk, UniqueInv, [Next]_vars
    PROVE  UniqueInv'
<1>0. TypeInv' /\ FileOK
  BY TypeStep DEF TypeInv
<1>1. CASE UNCHANGED vars
  BY <1>1 DEF vars, UniqueInv, Runs, UniqueAt, LeafUnique, This, File
<1>2. ASSUME NEW p \in Proc, NEW op \in {"open", "chdir", "exec"}, NEW path \in Paths, Begin(p, op, path)
      PROVE  UniqueInv'
  BY <1>0, <1>2, BeginStep, FileSame, UniqueKept
<1>3. ASSUME NEW p \in Proc,
             \/ Word(p) \/ Leaf(p) \/ DirTest(p) \/ DirRead(p) \/ DirMap(p) \/ DirFree(p) \/ DirClear(p)
      PROVE  UniqueInv'
  <2>1. TreeKept /\ Runs(p) /\ Others(p) /\ look'[p].pc # "add"
    <3>1. CASE Word(p)
      BY <3>1, WordStep DEF Keeps
    <3>2. CASE Leaf(p)
      BY <3>2, LeafStep, FileSame DEF Keeps
    <3>3. CASE DirTest(p)
      BY <3>3, DirTestStep, FileSame DEF Here, Keeps
    <3>4. CASE DirRead(p)
      BY <3>4, DirReadStep DEF Here, Keeps
    <3>5. CASE DirMap(p)
      BY <3>5, DirMapStep, FileSame DEF Here, Keeps
    <3>6. CASE DirFree(p)
      BY <3>6, DirFreeStep, FileSame DEF Here, Keeps
    <3>7. CASE DirClear(p)
      BY <3>7, DirClearStep DEF Here, Keeps
    <3> QED
      BY <1>3, <3>1, <3>2, <3>3, <3>4, <3>5, <3>6, <3>7
  <2> QED
    BY <1>0, <2>1, UniqueKept
<1>4. ASSUME NEW p \in Proc, Fail(p) \/ init_root(p) \/ sys_open(p) \/ sys_chdir(p) \/ sys_exec(p)
      PROVE  UniqueInv'
  <2>1. TreeKept /\ Runs(p) /\ Others(p) /\ look'[p] = Idle
    BY <1>4, FailStep, FileSame, OpenStep, ChdirStep
  <2> QED
    BY <1>0, <2>1, IdleHas, UniqueKept
<1>5. ASSUME NEW p \in Proc, sys_close(p) \/ sys_exit(p) PROVE UniqueInv'
  <2>1. TreeKept /\ Runs(p) /\ look' = look /\ look[p].op = "none" /\ Others(p)
    BY <1>5, CloseStep, ExitStep DEF Others
  <2>2. look'[p].pc = "idle"
    BY <2>1, LookHas DEF LookOK
  <2> QED
    BY <1>0, <2>1, <2>2, UniqueKept
<1>6. ASSUME NEW p \in Proc, Entry(p) PROVE UniqueInv'
  <2>1. /\ UNCHANGED file /\ TreeKept /\ Runs(p) /\ Others(p) /\ look'[p].fp = look[p].fp
        /\ look'[p].pc = "add" =>
              look'[p].k = look[p].k /\ ~Skipped(look[p].fp, Entries[file[look[p].fp].inum][look[p].k].name)
    BY <1>6, HeldAt, EntryStep, FileSame DEF Here, Keeps
  <2>2. CASE look'[p].pc # "add"
    BY <1>0, <2>1, <2>2, UniqueKept
  <2>3. CASE look'[p].pc = "add"
    <3> DEFINE d == look[p].fp
               name == Entries[file[d].inum][look[p].k].name
    <3>1. d \in File /\ is_cached_leaf(d, name) = NoFile
      BY <2>1, <2>3, LookHas DEF Skipped
    <3>2. \A h \in Range(file[d].leaf) : file[h].name # name
      BY <1>0, <3>1, CachedFacts
    <3>3. \A f \in File \ {f_root} : f \in Range(file[file[f].parent].leaf)
      BY DEF CacheMatchesDisk
    <3>4. This(p)'.name = name
      BY <2>1, <2>3 DEF This
    <3>5. LeafUnique'
      BY <2>1 DEF UniqueInv, UniqueAt, LeafUnique, File
    <3> HIDE DEF name
    <3>6. UniqueAt(p)'
      BY <2>1, <3>2, <3>3, <3>4, <3>5 DEF UniqueAt, File
    <3> QED
      BY <1>0, <2>1, <3>6, UniqueFrom
  <2> QED
    BY <2>2, <2>3
<1>7. ASSUME NEW p \in Proc, Add(p) PROVE UniqueInv'
  <2> DEFINE d == look[p].fp
             new == Len(file) + 1
  <2>1. /\ Runs(p) /\ Others(p) /\ look[p].pc = "add" /\ look'[p].pc = "entry"
        /\ NewLeaf(d, This(p))
    BY <1>7, HeldAt, AddStep DEF Here, Keeps, This
  <2>2. /\ LeafUnique
        /\ \A f \in File \ {f_root} : file[f].parent = d => file[f].name # This(p).name
    BY <2>1 DEF UniqueInv, UniqueAt
  <2>3. /\ File' = File \cup {new} /\ new \notin File /\ f_root \in File
        /\ \A g \in File : file'[g].name = file[g].name /\ file'[g].parent = file[g].parent
        /\ file'[new].name = This(p).name /\ file'[new].parent = d
    BY <1>0, <2>1 DEF NewLeaf, File, FileOK, f_root
  <2> HIDE DEF new, d
  <2>4. LeafUnique'
    <3> SUFFICES ASSUME NEW f \in File' \ {f_root}, NEW g \in File' \ {f_root},
                        file'[f].parent = file'[g].parent, file'[f].name = file'[g].name
                 PROVE  f = g
      BY DEF LeafUnique
    <3>1. CASE f \in File /\ g \in File
      BY <2>2, <2>3, <3>1 DEF LeafUnique
    <3>2. CASE f = new /\ g \in File
      BY <2>2, <2>3, <3>2
    <3>3. CASE g = new /\ f \in File
      BY <2>2, <2>3, <3>3
    <3> QED
      BY <2>3, <3>1, <3>2, <3>3
  <2>5. UniqueAt(p)'
    BY <2>1, <2>4 DEF UniqueAt
  <2> QED
    BY <1>0, <2>1, <2>5, UniqueFrom
<1> QED
  BY <1>1, <1>2, <1>3, <1>4, <1>5, <1>6, <1>7, Steps

\* LeafUnique: no directory has two structs of one name, whatever names its
\* entries have and however often it is read, unless an exec is preempted.
THEOREM LeavesUnique == ASSUME PREEMPT = FALSE PROVE Spec => []LeafUnique
<1>1. Init => TypeInv /\ CacheMatchesDisk /\ UniqueInv
  BY TypeInit, InitHas DEF UniqueInv, UniqueAt, LeafUnique
<1>2. TypeInv /\ BufInv /\ CacheMatchesDisk /\ UniqueInv /\ [Next]_vars => (CacheMatchesDisk /\ UniqueInv)'
  BY HeldNow, TreeStep, UniqueStep
<1>3. BufInv /\ UniqueInv => LeafUnique
  BY DEF BufInv, Lone, UniqueInv, UniqueAt
<1> QED
  BY <1>1, <1>2, <1>3, Buffers, PTL DEF Spec

-----------------------------------------------------------------------------
\* What a path means on the disk.

\* A path leads on from the inode its first name leads to.
LEMMA LeadsStep ==
    ASSUME NEW i \in Inode, NEW j \in Inode, NEW s \in Seq(STRING), s # <<>>
    PROVE  Leads(i, s, j) <=> \E m \in Named(i, Head(s)) : m \in Inode /\ Leads(m, Tail(s), j)
<1> DEFINE n == Len(s)
           t == Tail(s)
<1>1. /\ n \in Nat /\ n > 0 /\ Len(t) = n - 1 /\ Head(s) = s[1]
      /\ \A k \in 1..(n - 1) : t[k] = s[k + 1]
  BY TailFacts
<1> HIDE DEF n, t
<1>2. ASSUME Leads(i, s, j) PROVE \E m \in Named(i, Head(s)) : m \in Inode /\ Leads(m, t, j)
  <2>1. PICK w \in [0..n -> Inode] :
            /\ w[0] = i /\ w[n] = j /\ \A k \in 1..n : w[k] \in Named(w[k - 1], s[k])
    BY <1>2 DEF Leads, n
  <2>2. w[1] \in Named(i, Head(s)) /\ w[1] \in Inode
    <3>1. 1 \in 1..n /\ 1 \in 0..n /\ 1 - 1 = 0
      BY <1>1
    <3> QED
      BY <1>1, <2>1, <3>1
  <2> DEFINE v == [k \in 0..(n - 1) |-> w[k + 1]]
  <2>3. v \in [0..(n - 1) -> Inode] /\ \A k \in 0..(n - 1) : v[k] = w[k + 1]
    BY <1>1, <2>1
  <2> HIDE DEF v
  <2>4. v[0] = w[1] /\ v[n - 1] = j
    BY <1>1, <2>1, <2>3
  <2>5. ASSUME NEW k \in 1..(n - 1) PROVE v[k] \in Named(v[k - 1], t[k])
    <3>1. k + 1 \in 1..n /\ k - 1 \in 0..(n - 1) /\ k \in 0..(n - 1) /\ (k + 1) - 1 = k /\ (k - 1) + 1 = k
      BY <1>1
    <3>2. w[k + 1] \in Named(w[k], s[k + 1])
      BY <2>1, <3>1
    <3> QED
      BY <1>1, <2>3, <3>1, <3>2
  <2>6. Leads(w[1], t, j)
    BY <1>1, <2>3, <2>4, <2>5 DEF Leads
  <2> QED
    BY <2>2, <2>6
<1>3. ASSUME NEW m \in Named(i, Head(s)), m \in Inode, Leads(m, t, j) PROVE Leads(i, s, j)
  <2>1. PICK v \in [0..(n - 1) -> Inode] :
            /\ v[0] = m /\ v[n - 1] = j /\ \A k \in 1..(n - 1) : v[k] \in Named(v[k - 1], t[k])
    BY <1>1, <1>3 DEF Leads
  <2> DEFINE w == [k \in 0..n |-> IF k = 0 THEN i ELSE v[k - 1]]
  <2>2. w \in [0..n -> Inode] /\ w[0] = i /\ \A k \in 1..n : w[k] = v[k - 1]
    BY <1>1, <2>1
  <2> HIDE DEF w
  <2>3. w[n] = j
    BY <1>1, <2>1, <2>2
  <2>4. ASSUME NEW k \in 1..n PROVE w[k] \in Named(w[k - 1], s[k])
    <3>1. CASE k = 1
      BY <1>1, <1>3, <2>1, <2>2, <3>1
    <3>2. CASE k # 1
      <4>1. k - 1 \in 1..(n - 1) /\ k - 1 \in 1..n /\ (k - 1) + 1 = k
        BY <1>1, <3>2
      <4>2. v[k - 1] \in Named(v[(k - 1) - 1], t[k - 1])
        BY <2>1, <4>1
      <4> QED
        BY <1>1, <2>2, <4>1, <4>2
    <3> QED
      BY <3>1, <3>2
  <2> QED
    BY <2>2, <2>3, <2>4 DEF Leads, n
<1> QED
  BY <1>2, <1>3 DEF t

\* The entry of a name is the only one, and it is used.
LEMMA NamedIs ==
    ASSUME TidyDisk, NEW i \in Inode, NEW e \in Range(Entries[i]), e.inum # Unused
    PROVE  Named(i, e.name) = {e.inum} /\ e.inum \in Inode
<1>1. Entries[i] \in Seq([name : STRING, inum : Inode \cup {Unused}])
  BY Disk
<1>2. e.inum \in Inode
  <2>1. PICK k \in DOMAIN Entries[i] : Entries[i][k] = e
    BY DEF Range
  <2> DEFINE R == [name : STRING, inum : Inode \cup {Unused}]
  <2>2. ASSUME NEW s \in Seq(R), k \in DOMAIN s PROVE s[k] \in R
    <3> HIDE DEF R
    <3> QED
      BY <2>2
  <2>3. e \in R
    BY <1>1, <2>1, <2>2
  <2> QED
    BY <2>3
<1>3. ASSUME NEW x \in Range(Entries[i]), x.name = e.name, x.inum # Unused PROVE x = e
  <2>1. PICK j \in DOMAIN Entries[i] : Entries[i][j] = x
    BY DEF Range
  <2>2. PICK k \in DOMAIN Entries[i] : Entries[i][k] = e
    BY DEF Range
  <2>3. j = k
    BY <1>3, <2>1, <2>2 DEF TidyDisk
  <2> QED
    BY <2>1, <2>2, <2>3
<1>4. {x \in Range(Entries[i]) : x.name = e.name /\ x.inum # Unused} = {e}
  BY <1>3
<1> QED
  BY <1>2, <1>4, Zenon DEF Named

\* A name that leads to one inode leaves the rest of the path from there.
LEMMA LeadsOn ==
    ASSUME NEW i \in Inode, NEW j \in Inode, NEW s \in Seq(STRING), s # <<>>,
           NEW m \in Inode, Named(i, Head(s)) = {m}
    PROVE  Leads(i, s, j) <=> Leads(m, Tail(s), j)
BY LeadsStep

\* A name that is no entry leads nowhere.
LEMMA LeadsNowhere ==
    ASSUME NEW i \in Inode, NEW j \in Inode, NEW s \in Seq(STRING), s # <<>>, Named(i, Head(s)) = {}
    PROVE  ~Leads(i, s, j)
BY LeadsStep

-----------------------------------------------------------------------------
\* The lookup, step by step.

\* A struct has an inode.
LEMMA InodeHas == ASSUME TypeInv, NEW f \in File PROVE file[f].inum \in Inode
<1>1. file[f] \in Rec
  BY DEF TypeInv, FileOK, File
<1> QED
  BY <1>1 DEF Rec

\* It suffices to look at the process that did the step.
LEMMA PathFrom ==
    ASSUME PREEMPT = FALSE, TypeInv, TypeInv', NEW p \in Proc, Runs(p), Others(p),
           Rooted', Scan(p)', Sense(p)'
    PROVE  PathInv'
<1>1. ASSUME NEW q \in Proc, q # p, Runs(q)' PROVE Scan(q)' /\ Sense(q)'
  <2>1. look'[q].pc = "idle"
    BY <1>1, Alone
  <2> QED
    BY <2>1 DEF Scan, Sense, Dirs
<1> QED
  BY <1>1 DEF PathInv, PathAt

\* The structs, and what is in the cache, stay while the tree does.
LEMMA ReadKept ==
    ASSUME TypeInv, TreeKept
    PROVE  /\ Rooted => Rooted'
           /\ \A f \in File : file'[f].inum = file[f].inum
           /\ \A f \in File : \A e : Read(f, e)' <=> Read(f, e)
<1>1. FileOK /\ File' = File /\ f_root \in File
  BY DEF TypeInv, TreeKept, FileOK, File, f_root
<1>2. \A f \in File : \A g \in Range(file[f].leaf) : g \in File
  BY <1>1 DEF FileOK
<1> QED
  BY <1>1, <1>2 DEF TreeKept, Rooted, Read

\* The path means the same as long as the lookup stays at its word.
LEMMA SenseHere ==
    ASSUME NEW p \in Proc, Sense(p), Here(p), look[p].pc \in Dirs, look'[p].pc \in Dirs,
           file'[look[p].fp].inum = file[look[p].fp].inum
    PROVE  Sense(p)'
BY DEF Sense, Here, Keeps, Dirs

\* ".." leads to the directory that the parent pointer names.
LEMMA DotsRight ==
    ASSUME TypeInv, TidyDisk, CacheMatchesDisk, Rooted, NEW f \in File, is_directory(f), NEW name \in Dots
    PROVE  Named(file[f].inum, name) = {file[Advance(f, name)].inum} /\ file[Advance(f, name)].inum \in Inode
<1>1. FileOK /\ file[f].parent \in File
  BY DEF TypeInv, FileOK
<1>2. \A g \in File : file[g].inum \in Inode
  BY InodeHas
<1>3. Mode[file[f].inum] = "dir"
  BY <1>2 DEF is_directory, TidyDisk
<1>4. CASE name = "."
  BY <1>2, <1>3, <1>4 DEF Advance, TidyDisk
<1>5. CASE name = ".." /\ f = f_root
  BY <1>2, <1>5 DEF Advance, TidyDisk, Rooted
<1>6. CASE name = ".." /\ f # f_root
  <2> DEFINE e == [name |-> file[f].name, inum |-> file[f].inum]
             i == file[file[f].parent].inum
  <2>1. e \in Range(Entries[i]) /\ i \in Inode
    BY <1>1, <1>2, <1>6 DEF CacheMatchesDisk
  <2>2. e.name \notin Dots /\ e.inum = file[f].inum /\ e.inum # Unused
    BY <1>2, <1>6, Disk DEF Rooted
  <2> HIDE DEF e
  <2>3. Named(file[f].inum, "..") = {i}
    BY <1>3, <2>1, <2>2 DEF TidyDisk
  <2> QED
    BY <1>6, <2>1, <2>3 DEF Advance
<1> QED
  BY <1>4, <1>5, <1>6 DEF Dots

\* Once the directory is read, its cached leaf of a name is the file of that
\* name, and a name that is not cached is no entry.
LEMMA LeafRight ==
    ASSUME TypeInv, TidyDisk, CacheMatchesDisk, NEW f \in File, NEW name, name \notin Dots,
           \A n \in DOMAIN Entries[file[f].inum] : Read(f, Entries[file[f].inum][n])
    PROVE  LET g == is_cached_leaf(f, name)
           IN  \/ g = NoFile /\ Named(file[f].inum, name) = {}
               \/ g # NoFile /\ g \in File /\ Named(file[f].inum, name) = {file[g].inum} /\ file[g].inum \in Inode
<1> DEFINE g == is_cached_leaf(f, name)
           i == file[f].inum
<1>1. FileOK
  BY DEF TypeInv
<1>2. \A h \in File : file[h].inum \in Inode
  BY InodeHas
<1>3. \/ g = NoFile /\ \A h \in Range(file[f].leaf) : file[h].name # name
      \/ g # NoFile /\ g \in Range(file[f].leaf) /\ g \in File /\ file[g].name = name
  BY <1>1, CachedFacts
<1> HIDE DEF g
<1>4. CASE g = NoFile /\ \A h \in Range(file[f].leaf) : file[h].name # name
  <2>1. ASSUME NEW e \in Range(Entries[i]), e.name = name PROVE e.inum = Unused
    <3>1. PICK n \in DOMAIN Entries[i] : Entries[i][n] = e
      BY DEF Range
    <3>2. Read(f, e)
      BY <3>1
    <3> QED
      BY <1>4, <2>1, <3>2 DEF Read
  <2>2. {e \in Range(Entries[i]) : e.name = name /\ e.inum # Unused} = {}
    BY <2>1
  <2>3. Named(i, name) = {}
    BY <2>2, Zenon DEF Named
  <2> QED
    BY <1>4, <2>3 DEF g
<1>5. CASE g # NoFile /\ g \in Range(file[f].leaf) /\ g \in File /\ file[g].name = name
  <2> DEFINE e == [name |-> file[g].name, inum |-> file[g].inum]
  <2>1. e \in Range(Entries[i]) /\ i \in Inode /\ file[g].inum \in Inode
    BY <1>2, <1>5 DEF CacheMatchesDisk
  <2>2. e.inum # Unused /\ e.name = name /\ e.inum = file[g].inum
    BY <1>5, <2>1, Disk
  <2> HIDE DEF e, i
  <2>3. Named(i, name) = {file[g].inum}
    BY <2>1, <2>2, NamedIs
  <2> QED
    BY <1>5, <2>1, <2>3 DEF g, i
<1> QED
  BY <1>3, <1>4, <1>5

\* A call begins with the whole path.
LEMMA PathBegin ==
    ASSUME PREEMPT = FALSE, TypeInv, PathInv, NEW p \in Proc,
           NEW op \in {"open", "chdir", "exec"}, NEW path \in Paths, Begin(p, op, path)
    PROVE  PathInv'
<1>1. /\ TypeInv' /\ UNCHANGED <<file, bufs, pwd, fd>> /\ Runs(p) /\ Others(p)
      /\ look'[p].op = op /\ look'[p].pc = "word"
      /\ look'[p].from = file[look'[p].fp].inum /\ look'[p].rest = look'[p].names
  BY BeginStep
<1>2. Rooted'
  BY <1>1, FileSame, ReadKept DEF PathInv, PathAt
<1>3. Scan(p)' /\ Sense(p)'
  BY <1>1 DEF Scan, Sense, Dirs
<1> QED
  BY <1>1, <1>2, <1>3, PathFrom

\* A call ends.
LEMMA PathReturn ==
    ASSUME PREEMPT = FALSE, TypeInv, TypeInv', PathInv, NEW p \in Proc, TreeKept, Runs(p), Others(p),
           look'[p].pc = "idle"
    PROVE  PathInv'
<1>1. Rooted'
  BY ReadKept DEF PathInv, PathAt
<1>2. Scan(p)' /\ Sense(p)'
  BY DEF Scan, Sense, Dirs
<1> QED
  BY <1>1, <1>2, PathFrom

\* A word: "." and ".." lead where the disk says, and a file that is no
\* directory has no entries.
LEMMA PathWord ==
    ASSUME PREEMPT = FALSE, TypeInv, TidyDisk, CacheMatchesDisk, PathInv, NEW p \in Proc, Word(p)
    PROVE  PathInv'
<1>1. /\ TypeInv' /\ TreeKept /\ Runs(p) /\ look[p].pc = "word" /\ look[p].rest # <<>> /\ Keeps(p) /\ Others(p)
      /\ \/ /\ ~is_directory(look[p].fp)
            /\ look'[p].pc = "fail"
         \/ /\ is_directory(look[p].fp) /\ Head(look[p].rest) \in Dots
            /\ look'[p].pc = "word" /\ look'[p].rest = Tail(look[p].rest)
            /\ look'[p].fp = Advance(look[p].fp, Head(look[p].rest))
         \/ /\ is_directory(look[p].fp) /\ Head(look[p].rest) \notin Dots
            /\ look'[p].pc = "dir" /\ look'[p].fp = look[p].fp /\ look'[p].rest = look[p].rest
  BY WordStep DEF Keeps
<1>2. /\ look[p].fp \in File /\ look[p].rest \in Seq(STRING) /\ look[p].op # "init" /\ Rooted /\ Sense(p)
  BY <1>1, Busy DEF Dirs, PathInv, PathAt
<1> DEFINE s == look[p].rest
           i == file[look[p].fp].inum
<1>3. \A j \in Inode : Leads(i, s, j) <=> Leads(look[p].from, look[p].names, j)
  BY <1>1, <1>2 DEF Sense
<1>4. Rooted' /\ i \in Inode /\ \A f \in File : file'[f].inum = file[f].inum
  BY <1>1, <1>2, ReadKept, InodeHas
<1>5. Scan(p)'
  BY <1>1 DEF Scan
<1>6. /\ look'[p].op = look[p].op /\ look'[p].from = look[p].from /\ look'[p].names = look[p].names
  BY <1>1 DEF Keeps
<1>7. CASE ~is_directory(look[p].fp) /\ look'[p].pc = "fail"
  <2>1. Entries[i] = <<>>
    BY <1>4, <1>7, Disk DEF is_directory
  <2>2. Range(Entries[i]) = {}
    <3>1. DOMAIN Entries[i] = {}
      BY <2>1
    <3> QED
      BY <3>1, Zenon DEF Range
  <2>3. {e \in Range(Entries[i]) : e.name = Head(s) /\ e.inum # Unused} = {}
    BY <2>2
  <2>4. Named(i, Head(s)) = {}
    BY <2>3, Zenon DEF Named
  <2> HIDE DEF s, i
  <2>5. \A j \in Inode : ~Leads(i, s, j)
    BY <1>1, <1>2, <1>4, <2>4, LeadsNowhere DEF s
  <2>6. Sense(p)'
    BY <1>3, <1>6, <1>7, <2>5 DEF Sense, Dirs
  <2> QED
    BY <1>1, <1>4, <1>5, <2>6, PathFrom
<1>8. CASE /\ is_directory(look[p].fp) /\ Head(look[p].rest) \in Dots
           /\ look'[p].pc = "word" /\ look'[p].rest = Tail(look[p].rest)
           /\ look'[p].fp = Advance(look[p].fp, Head(look[p].rest))
  <2> DEFINE g == Advance(look[p].fp, Head(s))
             m == file[g].inum
  <2>1. Named(i, Head(s)) = {m} /\ m \in Inode
    BY <1>2, <1>8, DotsRight
  <2>2. g \in File
    BY <1>2 DEF Advance, TypeInv, FileOK
  <2>3. file'[look'[p].fp].inum = m /\ look'[p].rest = Tail(s)
    BY <1>4, <1>8, <2>2
  <2> HIDE DEF s, i, m
  <2>4. \A j \in Inode : Leads(i, s, j) <=> Leads(m, Tail(s), j)
    BY <1>1, <1>2, <1>4, <2>1, LeadsOn DEF s
  <2>5. Sense(p)'
    BY <1>3, <1>6, <1>8, <2>3, <2>4 DEF Sense, Dirs
  <2> QED
    BY <1>1, <1>4, <1>5, <2>5, PathFrom
<1>9. CASE /\ is_directory(look[p].fp) /\ Head(look[p].rest) \notin Dots
           /\ look'[p].pc = "dir" /\ look'[p].fp = look[p].fp /\ look'[p].rest = look[p].rest
  <2>1. file'[look'[p].fp].inum = i
    BY <1>2, <1>4, <1>9
  <2>2. Sense(p)'
    BY <1>3, <1>6, <1>9, <2>1 DEF Sense, Dirs
  <2> QED
    BY <1>1, <1>4, <1>5, <2>2, PathFrom
<1> QED
  BY <1>1, <1>7, <1>8, <1>9

\* A name: the cached leaf is the file of that name, or there is none.
LEMMA PathLeaf ==
    ASSUME PREEMPT = FALSE, TypeInv, TidyDisk, CacheMatchesDisk, PathInv, NEW p \in Proc, Leaf(p)
    PROVE  PathInv'
<1> DEFINE s == look[p].rest
           d == look[p].fp
           i == file[d].inum
           g == is_cached_leaf(d, Head(s))
<1>1. /\ TypeInv' /\ UNCHANGED <<file, bufs, pwd, fd>> /\ Runs(p) /\ look[p].pc = "leaf" /\ look[p].op # "init"
      /\ s # <<>> /\ Keeps(p) /\ Others(p)
      /\ \/ g = NoFile /\ look'[p].pc = "fail"
         \/ g # NoFile /\ look'[p].pc = "word" /\ look'[p].fp = g /\ look'[p].rest = Tail(s)
  BY LeafStep DEF Keeps
<1>2. d \in File /\ s \in Seq(STRING) /\ Rooted /\ Sense(p) /\ Scan(p)
  BY <1>1, Busy DEF PathInv, PathAt
<1>3. /\ Head(s) \notin Dots
      /\ \A j \in Inode : Leads(i, s, j) <=> Leads(look[p].from, look[p].names, j)
      /\ \A n \in DOMAIN Entries[i] : Read(d, Entries[i][n])
  BY <1>1, <1>2 DEF Sense, Scan, Dirs
<1>4. i \in Inode /\ Rooted'
  BY <1>1, <1>2, InodeHas, FileSame, ReadKept
<1>5. \/ g = NoFile /\ Named(i, Head(s)) = {}
      \/ g # NoFile /\ g \in File /\ Named(i, Head(s)) = {file[g].inum} /\ file[g].inum \in Inode
  BY <1>2, <1>3, LeafRight
<1>6. Scan(p)'
  BY <1>1 DEF Scan
<1>7. /\ look'[p].op = look[p].op /\ look'[p].from = look[p].from /\ look'[p].names = look[p].names
  BY <1>1 DEF Keeps
<1> HIDE DEF s, d, i, g
<1>8. CASE g = NoFile
  <2>1. \A j \in Inode : ~Leads(i, s, j)
    BY <1>1, <1>2, <1>4, <1>5, <1>8, LeadsNowhere
  <2>2. Sense(p)'
    BY <1>1, <1>3, <1>7, <1>8, <2>1 DEF Sense, Dirs
  <2> QED
    BY <1>1, <1>4, <1>6, <2>2, PathFrom
<1>9. CASE g # NoFile
  <2> DEFINE m == file[g].inum
  <2>1. m \in Inode /\ Named(i, Head(s)) = {m}
    BY <1>5, <1>9
  <2>2. file'[look'[p].fp].inum = m /\ look'[p].rest = Tail(s) /\ look'[p].pc = "word"
    BY <1>1, <1>9
  <2> HIDE DEF m
  <2>3. \A j \in Inode : Leads(i, s, j) <=> Leads(m, Tail(s), j)
    BY <1>1, <1>2, <1>4, <2>1, LeadsOn
  <2>4. Sense(p)'
    BY <1>1, <1>3, <1>7, <2>2, <2>3 DEF Sense, Dirs
  <2> QED
    BY <1>1, <1>4, <1>6, <2>4, PathFrom
<1> QED
  BY <1>8, <1>9

\* A statement of get_dir_entries() that leaves the tree alone: what is read of
\* the directory is all that matters.
LEMMA PathHere ==
    ASSUME PREEMPT = FALSE, TypeInv, TypeInv', PathInv, NEW p \in Proc, TreeKept, Runs(p), Here(p), Others(p),
           look[p].pc \in Dirs, look'[p].pc \in Dirs,
           LET es == Entries[file[look[p].fp].inum]
           IN  /\ look'[p].pc \in {"entry", "add"} =>
                     \A n \in DOMAIN es : n < look'[p].k => Read(look[p].fp, es[n])
               /\ look'[p].pc \in {"close", "clear", "leaf"} => \A n \in DOMAIN es : Read(look[p].fp, es[n])
    PROVE  PathInv'
<1>1. PICK d \in File : d = look[p].fp /\ look'[p].fp = d
  BY LookHas DEF Here
<1>2. Rooted' /\ file'[d].inum = file[d].inum /\ \A e : Read(d, e) => Read(d, e)'
  BY <1>1, ReadKept DEF PathInv, PathAt
<1> DEFINE es == Entries[file[d].inum]
<1>3. /\ look'[p].pc \in {"entry", "add"} => \A n \in DOMAIN es : n < look'[p].k => Read(d, es[n])
      /\ look'[p].pc \in {"close", "clear", "leaf"} => \A n \in DOMAIN es : Read(d, es[n])
  BY <1>1
<1>4. PICK E : E = es
  OBVIOUS
<1>5. /\ look'[p].pc \in {"entry", "add"} => \A n \in DOMAIN E : n < look'[p].k => Read(d, E[n])'
      /\ look'[p].pc \in {"close", "clear", "leaf"} => \A n \in DOMAIN E : Read(d, E[n])'
  BY <1>2, <1>3, <1>4
<1>6. Entries[file'[look'[p].fp].inum] = E
  BY <1>1, <1>2, <1>4
<1>7. Scan(p)'
  BY <1>1, <1>5, <1>6 DEF Scan
<1>8. Sense(p)'
  BY <1>1, <1>2, SenseHere DEF PathInv, PathAt
<1> QED
  BY <1>2, <1>7, <1>8, PathFrom

\* An entry: it is skipped because it is in the cache, and the loop ends at the
\* first that is not used, after which none is.
LEMMA PathEntry ==
    ASSUME PREEMPT = FALSE, TypeInv, TidyDisk, DirBufferHeld, PathInv, NEW p \in Proc, Entry(p)
    PROVE  PathInv'
<1> DEFINE d == look[p].fp
           es == Entries[file[d].inum]
           k == look[p].k
           more == k \in DOMAIN es /\ es[k].inum # Unused
<1>1. /\ TypeInv' /\ UNCHANGED <<file, bufs, pwd, fd>> /\ Runs(p) /\ look[p].pc = "entry" /\ k >= 1
      /\ Here(p) /\ Others(p)
      /\ \/ more /\ Skipped(d, es[k].name) /\ look'[p].pc = "entry" /\ look'[p].k = k + 1
         \/ more /\ ~Skipped(d, es[k].name) /\ look'[p].pc = "add" /\ look'[p].k = k
         \/ ~more /\ look'[p].pc = "close" /\ look'[p].k = k
  BY HeldAt, EntryStep DEF Here, Keeps
<1>2. d \in File /\ k \in Nat /\ FileOK /\ TreeKept
  BY <1>1, LookHas, FileSame DEF LookRec, TypeInv
<1>4. \A n \in DOMAIN es : n < k => Read(d, es[n])
  BY <1>1 DEF PathInv, PathAt, Scan
<1>5. file[d].inum \in Inode
  BY <1>2, InodeHas
<1>6. es \in Seq([name : STRING, inum : Inode \cup {Unused}])
  BY <1>5, Disk
<1>7. DOMAIN es \subseteq Nat
  BY <1>6
<1> HIDE DEF es
<1>8. CASE more /\ Skipped(d, es[k].name) /\ look'[p].pc = "entry" /\ look'[p].k = k + 1
  <2>1. \/ is_cached_leaf(d, es[k].name) = NoFile
        \/ \E h \in Range(file[d].leaf) : file[h].name = es[k].name
    BY <1>2, CachedFacts
  <2>2. Read(d, es[k])
    BY <1>8, <2>1 DEF Read, Skipped
  <2>3. \A n \in DOMAIN es : n < k + 1 => Read(d, es[n])
    BY <1>2, <1>4, <1>7, <2>2
  <2> QED
    BY <1>1, <1>2, <1>8, <2>3, PathHere DEF Dirs, es
<1>9. CASE more /\ ~Skipped(d, es[k].name) /\ look'[p].pc = "add" /\ look'[p].k = k
  BY <1>1, <1>2, <1>4, <1>9, PathHere DEF Dirs, es
<1>10. CASE ~more /\ look'[p].pc = "close"
  <2>1. ASSUME NEW n \in DOMAIN es, n >= k PROVE es[n].inum = Unused
    <3>1. CASE n = k
      BY <1>10, <3>1
    <3>2. CASE n # k
      <4>1. k \in DOMAIN es /\ k < n
        BY <1>1, <1>2, <1>6, <2>1, <3>2
      <4>2. es[k].inum = Unused
        BY <1>10, <4>1
      <4> QED
        BY <1>5, <4>1, <4>2 DEF TidyDisk, es
    <3> QED
      BY <3>1, <3>2
  <2>2. \A n \in DOMAIN es : Read(d, es[n])
    BY <1>2, <1>4, <1>7, <2>1 DEF Read
  <2> QED
    BY <1>1, <1>2, <1>10, <2>2, PathHere DEF Dirs, es
<1> QED
  BY <1>1, <1>8, <1>9, <1>10

\* The entry is added: it is in the cache from then on.
LEMMA PathAdd ==
    ASSUME PREEMPT = FALSE, TypeInv, DirBufferHeld, PathInv, NEW p \in Proc, Add(p)
    PROVE  PathInv'
<1>1. /\ TypeInv' /\ Runs(p) /\ look[p].pc = "add" /\ NewLeaf(look[p].fp, This(p)) /\ This(p).name \notin Dots
      /\ Here(p) /\ Others(p) /\ look'[p].pc = "entry" /\ look'[p].k = look[p].k + 1
  BY HeldAt, AddStep DEF This, Here, Keeps
<1>2. PICK d \in File, k \in Nat : d = look[p].fp /\ look'[p].fp = d /\ k = look[p].k
  BY <1>1, LookHas DEF Here, LookRec
<1>3. PICK es : es = Entries[file[d].inum]
  OBVIOUS
<1>4. This(p) = es[k]
  BY <1>2, <1>3 DEF This
<1>5. FileOK /\ f_root \in File /\ \A g \in Range(file[d].leaf) : g \in File
  BY DEF TypeInv, FileOK, File, f_root
<1>6. /\ File' = File \cup {Len(file) + 1}
      /\ \A g \in File : /\ file'[g].name = file[g].name /\ file'[g].inum = file[g].inum
                         /\ file'[g].parent = file[g].parent
      /\ Range(file'[d].leaf) = Range(file[d].leaf) \cup {Len(file) + 1}
      /\ file'[Len(file) + 1].name = es[k].name
  BY <1>1, <1>2, <1>4, <1>5 DEF NewLeaf, File, FileOK
<1>7. Rooted /\ Sense(p) /\ \A n \in DOMAIN es : n < k => Read(d, es[n])
  BY <1>1, <1>2, <1>3 DEF PathInv, PathAt, Scan
<1>8. Rooted'
  BY <1>1, <1>4, <1>5, <1>6, <1>7 DEF Rooted
<1>9. Sense(p)'
  BY <1>1, <1>2, <1>6, <1>7, SenseHere DEF Dirs
<1>10. DOMAIN es \subseteq Nat
  <2>1. file[d].inum \in Inode
    BY InodeHas
  <2>2. es \in Seq([name : STRING, inum : Inode \cup {Unused}])
    BY <1>3, <2>1, Disk
  <2> QED
    BY <2>2
<1>11. ASSUME NEW n \in DOMAIN es, n < k + 1 PROVE Read(d, es[n])'
  <2>1. CASE n = k
    BY <1>6, <2>1 DEF Read
  <2>2. CASE n < k
    BY <1>5, <1>6, <1>7, <2>2 DEF Read
  <2> QED
    BY <1>2, <1>10, <1>11, <2>1, <2>2
<1>12. Entries[file'[look'[p].fp].inum] = es /\ look'[p].k = k + 1
  BY <1>1, <1>2, <1>3, <1>6
<1>13. Scan(p)'
  BY <1>1, <1>2, <1>11, <1>12 DEF Scan
<1> QED
  BY <1>1, <1>8, <1>9, <1>13, PathFrom

\* The other statements of get_dir_entries().
LEMMA PathDir ==
    ASSUME PREEMPT = FALSE, TypeInv, PathInv, NEW p \in Proc,
           DirTest(p) \/ DirRead(p) \/ DirMap(p) \/ DirFree(p) \/ DirClear(p)
    PROVE  PathInv'
<1> DEFINE es == Entries[file[look[p].fp].inum]
<1>1. /\ TypeInv' /\ TreeKept /\ Runs(p) /\ Here(p)
      /\ \/ look[p].pc \in {"dir", "read"} /\ look'[p].pc \in {"read", "map"}
         \/ look[p].pc = "map" /\ look'[p].pc = "entry" /\ look'[p].k = 1
         \/ look[p].pc \in {"close", "clear"} /\ look'[p].pc \in {"clear", "leaf"}
  <2>1. CASE DirTest(p)
    BY <2>1, DirTestStep, FileSame
  <2>2. CASE DirRead(p)
    BY <2>2, DirReadStep
  <2>3. CASE DirMap(p)
    BY <2>3, DirMapStep, FileSame
  <2>4. CASE DirFree(p)
    BY <2>4, DirFreeStep, FileSame
  <2>5. CASE DirClear(p)
    BY <2>5, DirClearStep
  <2> QED
    BY <2>1, <2>2, <2>3, <2>4, <2>5
<1>2. Others(p) /\ look[p].pc \in Dirs /\ look'[p].pc \in Dirs
  BY <1>1 DEF Here, Keeps, Dirs
<1>3. look'[p].pc = "entry" => \A n \in DOMAIN es : ~(n < look'[p].k)
  <2>1. es \in Seq([name : STRING, inum : Inode \cup {Unused}])
    BY LookHas, InodeHas, Disk
  <2>2. \A n \in DOMAIN es : n >= 1
    BY <2>1
  <2> QED
    BY <1>1, <2>1, <2>2
<1>4. look'[p].pc \in {"close", "clear", "leaf"} => \A n \in DOMAIN es : Read(look[p].fp, es[n])
  BY <1>1 DEF PathInv, PathAt, Scan
<1> QED
  BY <1>1, <1>2, <1>3, <1>4, PathHere

\* Every step keeps the lookup right.
LEMMA PathStep ==
    ASSUME PREEMPT = FALSE, TypeInv, TidyDisk, DirBufferHeld, CacheMatchesDisk, PathInv, [Next]_vars
    PROVE  PathInv'
<1>0. TypeInv'
  BY TypeStep
<1>1. CASE UNCHANGED vars
  <2>1. file' = file /\ look' = look
    BY <1>1 DEF vars
  <2>2. ASSUME NEW p \in Proc, Runs(p)' PROVE PathAt(p)'
    <3>1. Runs(p)
      BY <2>1, <2>2 DEF Runs
    <3>2. Rooted /\ Scan(p) /\ Sense(p)
      BY <3>1 DEF PathInv, PathAt
    <3>3. Rooted'
      BY <2>1, <3>2 DEF Rooted, File
    <3>4. Scan(p)'
      BY <2>1, <3>2 DEF Scan, Read
    <3>5. Sense(p)'
      BY <2>1, <3>2 DEF Sense
    <3> QED
      BY <3>3, <3>4, <3>5 DEF PathAt
  <2> QED
    BY <2>2 DEF PathInv
<1>2. ASSUME NEW p \in Proc, Fail(p) \/ init_root(p) \/ sys_open(p) \/ sys_chdir(p) \/ sys_exec(p)
      PROVE  PathInv'
  <2>1. TreeKept /\ Runs(p) /\ Others(p) /\ look'[p] = Idle
    BY <1>2, FailStep, FileSame, OpenStep, ChdirStep
  <2> QED
    BY <1>0, <2>1, IdleHas, PathReturn
<1>3. ASSUME NEW p \in Proc, sys_close(p) \/ sys_exit(p) PROVE PathInv'
  <2>1. TreeKept /\ Runs(p) /\ look' = look /\ look[p].op = "none" /\ Others(p)
    BY <1>3, CloseStep, ExitStep DEF Others
  <2>2. look'[p].pc = "idle"
    BY <2>1, LookHas DEF LookOK
  <2> QED
    BY <1>0, <2>1, <2>2, PathReturn
<1> QED
  BY <1>1, <1>2, <1>3, Steps, PathBegin, PathWord, PathLeaf, PathDir, PathEntry, PathAdd

\* LookupRight: on a well-formed disk path_to_file() finds the file that the
\* path names and fails only for a path that names none, whatever is cached
\* already and whichever directories are open, unless an exec is preempted.
THEOREM LookupCorrect == ASSUME PREEMPT = FALSE, TidyDisk PROVE Spec => []LookupRight
<1>1. Init => TypeInv /\ CacheMatchesDisk /\ PathInv
  <2> SUFFICES ASSUME Init PROVE PathInv
    BY TypeInit
  <2>1. \A p \in Proc : Scan(p) /\ Sense(p)
    <3> SUFFICES ASSUME NEW p \in Proc PROVE Scan(p) /\ Sense(p)
      OBVIOUS
    <3>1. look[p].op \in {"none", "init"} /\ look[p].pc \in {"idle", "dir"}
      BY InitHas
    <3>2. look[p].pc = "idle" <=> look[p].op = "none"
      BY TypeInit DEF TypeInv, LookOK
    <3> QED
      BY <3>1, <3>2 DEF Scan, Sense, Dirs
  <2>2. Rooted
    BY InitHas DEF Rooted
  <2> QED
    BY <2>1, <2>2 DEF PathInv, PathAt
<1>2. TypeInv /\ BufInv /\ CacheMatchesDisk /\ PathInv /\ [Next]_vars => (CacheMatchesDisk /\ PathInv)'
  BY HeldNow, TreeStep, PathStep
<1>3. TypeInv /\ BufInv /\ PathInv => LookupRight
  <2> SUFFICES ASSUME TypeInv, BufInv, PathInv, NEW p \in Proc, NEW j \in Inode
               PROVE  LET l == look[p]
                      IN  /\ l.pc = "word" => (Leads(file[l.fp].inum, l.rest, j) <=> Leads(l.from, l.names, j))
                          /\ l.pc = "fail" => ~Leads(l.from, l.names, j)
    BY DEF LookupRight
  <2>1. CASE look[p].pc \in {"word", "fail"}
    <3>1. Runs(p) /\ look[p].op # "init"
      BY <2>1, Runner, Busy DEF BufInv, Dirs
    <3> QED
      BY <2>1, <3>1 DEF PathInv, PathAt, Sense
  <2> QED
    BY <2>1
<1> QED
  BY <1>1, <1>2, <1>3, Buffers, PTL DEF Spec

=============================================================================
