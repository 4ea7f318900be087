-------------------------- MODULE OpenFilesProofs --------------------------
(***************************************************************************)
(* Proofs about open files, for any number of processes, files, buffers    *)
(* and descriptors: buffers are not shared, descriptors keep their file,   *)
(* and the counters of the files cover the descriptors that name them.     *)
(***************************************************************************)
EXTENDS OpenFiles, FiniteSetTheorems, FunctionTheorems, WellFoundedInduction, TLAPS

\* The minimum of a non-empty set of naturals is one of its elements: what
\* the searches of the kernel for a first one find is there.
LEMMA MinInSet ==
    ASSUME NEW S \in SUBSET Nat, S # {}
    PROVE  Min(S) \in S /\ \A y \in S : Min(S) <= y
<1>1. PICK x \in S : \A y \in S : ~(<<y, x>> \in OpToRel(<, Nat))
  BY NatLessThanWellFounded, WFMin, Zenon
<1>2. ASSUME NEW y \in S
      PROVE  x <= y
  <2>1. x \in Nat /\ y \in Nat
    OBVIOUS
  <2>2. ~(y < x)
    BY <1>1, <2>1 DEF OpToRel
  <2> QED
    BY <2>1, <2>2
<1> QED
  BY <1>2 DEF Min

-----------------------------------------------------------------------------

\* An entry of current->fd.
Desc == [file : File \cup {NoFile}, ptr : 0..SIZE]

TypeInv ==
    /\ opened \in [File -> Int]
    /\ mmap \in [File -> Nat]
    /\ bufs \subseteq 1..MAXBUF
    /\ fds \in [Proc -> Seq(Desc)]
    /\ \A p \in Proc : Len(fds[p]) <= MAXFD

\* The inductive invariant of the buffers.
BufInv == TypeInv /\ BuffersOwned

\* The inductive invariant of the counters.
CountInv == TypeInv /\ OpenedCoversUsers

-----------------------------------------------------------------------------

\* The bounds are numbers.
LEMMA Bounds ==
    /\ SIZE \in Nat /\ MAXFD \in Nat /\ MAXBUF \in Nat /\ MAXOPENED \in Nat
    /\ NoFile \notin File /\ IsFiniteSet(Proc)
    /\ \A n \in BUFSIZES : n \in Nat
    /\ JUNK \subseteq Int
BY FilesAssumption

\* A new descriptor takes a closed place of the list or a new one at its end.
LEMMA WithDescriptorFacts ==
    ASSUME NEW s \in Seq(Desc), NEW f \in File
    PROVE  LET t == WithDescriptor(s, f)
           IN  /\ t \in Seq(Desc)
               /\ \E j \in 1..Len(t) :
                     /\ t[j] = Open(f)
                     /\ j \in 1..Len(s) => s[j].file = NoFile
                     /\ \A i \in 1..Len(t) : i # j => i \in 1..Len(s) /\ t[i] = s[i]
                     /\ \A i \in 1..Len(s) : i \in 1..Len(t)
<1> DEFINE k == SelectInSeq(s, LAMBDA d : d.file = NoFile)
           I == {i \in 1..Len(s) : s[i].file = NoFile}
           t == WithDescriptor(s, f)
<1>1. k = IF I # {} THEN Min(I) ELSE 0
  BY DEF SelectInSeq
<1>2. Open(f) \in Desc
  BY Bounds DEF Open, Desc
<1>3. CASE I # {}
  <2>1. Min(I) \in I
    <3>1. I \in SUBSET Nat
      OBVIOUS
    <3> QED
      BY <1>3, <3>1, MinInSet
  <2>2. k \in 1..Len(s) /\ s[k].file = NoFile /\ k > 0
    BY <1>1, <1>3, <2>1
  <2>3. t = [s EXCEPT ![k] = Open(f)]
    BY <2>2 DEF WithDescriptor
  <2> HIDE DEF k
  <2>4. t \in Seq(Desc) /\ Len(t) = Len(s) /\ t[k] = Open(f) /\ \A i \in 1..Len(s) : i # k => t[i] = s[i]
    BY <1>2, <2>2, <2>3
  <2> QED
    BY <2>2, <2>4
<1>4. CASE I = {}
  <2>0. k = 0
    BY <1>1, <1>4
  <2>1. t = Append(s, Open(f))
    BY <2>0 DEF WithDescriptor
  <2>2. /\ t \in Seq(Desc) /\ Len(t) = Len(s) + 1 /\ t[Len(s) + 1] = Open(f) /\ Len(s) \in Nat
        /\ \A i \in 1..Len(s) : t[i] = s[i]
    BY <1>2, <2>1
  <2>3. /\ Len(s) + 1 \in 1..Len(t) /\ Len(s) + 1 \notin 1..Len(s)
        /\ \A i \in 1..Len(t) : i # Len(s) + 1 => i \in 1..Len(s)
        /\ \A i \in 1..Len(s) : i \in 1..Len(t)
    BY <2>2
  <2> QED
    BY <2>2, <2>3
<1> QED
  BY <1>3, <1>4

\* read() moves a descriptor forward and not past the end of the file.
LEMMA BytesReadFacts ==
    ASSUME NEW ptr \in 0..SIZE, NEW n \in BUFSIZES
    PROVE  ptr + BytesRead(ptr, n) \in ptr..SIZE
BY Bounds DEF BytesRead

\* kmalloc() returns a buffer that nobody has.
LEMMA NewBufferFacts ==
    ASSUME NEW B \in SUBSET (1..MAXBUF)
    PROVE  Min(1..(MAXBUF + 1) \ B) \notin B /\ Min(1..(MAXBUF + 1) \ B) \in Nat \ {0}
<1> DEFINE F == 1..(MAXBUF + 1) \ B
<1>1. F \in SUBSET Nat /\ MAXBUF + 1 \in F
  BY Bounds
<1>2. Min(F) \in F
  BY <1>1, MinInSet
<1> QED
  BY <1>2, Bounds

\* What open() does: one process gets one more descriptor of f.
LEMMA OpenStep ==
    ASSUME TypeInv, NEW p \in Proc, NEW f \in File, sys_open(p, f)
    PROVE  /\ TypeInv'
           /\ \E b \in Nat \ {0} : /\ b \notin bufs /\ bufs' = bufs \cup {b}
                                   /\ mmap' = [mmap EXCEPT ![f] = b]
           /\ opened' = [opened EXCEPT ![f] = @ + 1]
           /\ \A q \in Proc : q # p => fds'[q] = fds[q]
           /\ \E j \in 1..MAXFD :
                 /\ j \in DOMAIN fds'[p] /\ fds'[p][j].file = f /\ ~IsOpen(p, j)
                 /\ \A i \in 1..MAXFD : i # j =>
                       /\ i \in DOMAIN fds'[p] <=> i \in DOMAIN fds[p]
                       /\ i \in DOMAIN fds[p] => fds'[p][i] = fds[p][i]
<1> DEFINE s == fds[p]
           t == WithDescriptor(fds[p], f)
<1>1. s \in Seq(Desc) /\ Len(s) <= MAXFD /\ DOMAIN s = 1..Len(s) /\ Len(s) \in Nat
  BY DEF TypeInv
<1>2. PICK j \in 1..Len(t) :
         /\ t \in Seq(Desc) /\ t[j] = Open(f)
         /\ j \in 1..Len(s) => s[j].file = NoFile
         /\ \A i \in 1..Len(t) : i # j => i \in 1..Len(s) /\ t[i] = s[i]
         /\ \A i \in 1..Len(s) : i \in 1..Len(t)
  BY <1>1, WithDescriptorFacts
<1>3. /\ Len(t) <= MAXFD /\ fds' = [fds EXCEPT ![p] = t]
      /\ opened' = [opened EXCEPT ![f] = @ + 1]
  BY DEF sys_open
<1>4. PICK b \in 1..MAXBUF : /\ b = Min(1..(MAXBUF + 1) \ bufs)
                             /\ bufs' = bufs \cup {b}
                             /\ mmap' = [mmap EXCEPT ![f] = b]
  BY DEF sys_open
<1>5. b \notin bufs /\ b \in Nat \ {0}
  BY <1>4, NewBufferFacts DEF TypeInv
<1> HIDE DEF t
<1>6. DOMAIN t = 1..Len(t) /\ Len(t) \in Nat
  BY <1>2
<1>7. fds'[p] = t /\ \A q \in Proc : q # p => fds'[q] = fds[q]
  BY <1>3 DEF TypeInv
<1>8. TypeInv'
  <2>1. opened' \in [File -> Int] /\ mmap' \in [File -> Nat] /\ bufs' \subseteq 1..MAXBUF
    <3>1. opened[f] \in Int
      BY DEF TypeInv
    <3>2. opened[f] + 1 \in Int
      BY <3>1
    <3>3. opened' \in [File -> Int]
      BY <1>3, <3>2 DEF TypeInv
    <3>4. mmap' \in [File -> Nat] /\ bufs' \subseteq 1..MAXBUF
      BY <1>4, <1>5 DEF TypeInv
    <3> QED
      BY <3>3, <3>4
  <2>2. fds' \in [Proc -> Seq(Desc)]
    BY <1>2, <1>3 DEF TypeInv
  <2>3. \A q \in Proc : Len(fds'[q]) <= MAXFD
    BY <1>3, <1>7 DEF TypeInv
  <2> QED
    BY <2>1, <2>2, <2>3 DEF TypeInv
<1>9. j \in 1..MAXFD /\ j \in DOMAIN fds'[p] /\ fds'[p][j].file = f
  BY <1>2, <1>3, <1>6, <1>7, Bounds DEF Open
<1>10. ~IsOpen(p, j)
  BY <1>1, <1>2 DEF IsOpen
<1>11. ASSUME NEW i \in 1..MAXFD, i # j
       PROVE  /\ i \in DOMAIN fds'[p] <=> i \in DOMAIN fds[p]
              /\ i \in DOMAIN fds[p] => fds'[p][i] = fds[p][i]
  BY <1>1, <1>2, <1>6, <1>7, <1>11
<1> QED
  BY <1>3, <1>4, <1>5, <1>7, <1>8, <1>9, <1>10, <1>11

\* What read() does: one descriptor moves forward.
LEMMA ReadStep ==
    ASSUME TypeInv, NEW p \in Proc, NEW k \in 1..MAXFD, NEW n \in BUFSIZES, sys_read(p, k, n)
    PROVE  /\ TypeInv' /\ UNCHANGED <<opened, mmap, bufs>>
           /\ \A q \in Proc : q # p => fds'[q] = fds[q]
           /\ DOMAIN fds'[p] = DOMAIN fds[p]
           /\ \A i \in DOMAIN fds[p] : fds'[p][i].file = fds[p][i].file
           /\ \A i \in DOMAIN fds[p] : i # k => fds'[p][i] = fds[p][i]
           /\ fds'[p][k].ptr \in fds[p][k].ptr..SIZE
<1> DEFINE s == fds[p]
           e == [s[k] EXCEPT !.ptr = @ + BytesRead(@, n)]
<1>1. s \in Seq(Desc) /\ k \in 1..Len(s) /\ Len(s) <= MAXFD /\ DOMAIN s = 1..Len(s)
  BY DEF TypeInv, sys_read, IsOpen
<1>2. s[k] \in Desc
  BY <1>1
<1>3. s[k].ptr \in 0..SIZE /\ s[k].ptr + BytesRead(s[k].ptr, n) \in s[k].ptr..SIZE
  BY <1>2, BytesReadFacts DEF Desc
<1>4. s[k].ptr + BytesRead(s[k].ptr, n) \in 0..SIZE
  BY <1>3, Bounds
<1>5. e \in Desc /\ e.file = s[k].file /\ e.ptr = s[k].ptr + BytesRead(s[k].ptr, n)
  BY <1>2, <1>4 DEF Desc
<1>6. fds' = [fds EXCEPT ![p] = [s EXCEPT ![k] = e]] /\ UNCHANGED <<opened, mmap, bufs>>
  BY DEF sys_read
<1> HIDE DEF e, s
<1>7. /\ [s EXCEPT ![k] = e] \in Seq(Desc) /\ Len([s EXCEPT ![k] = e]) = Len(s)
      /\ DOMAIN [s EXCEPT ![k] = e] = DOMAIN s
      /\ [s EXCEPT ![k] = e][k] = e
      /\ \A i \in DOMAIN s : i # k => [s EXCEPT ![k] = e][i] = s[i]
  BY <1>1, <1>5
<1>8. fds'[p] = [s EXCEPT ![k] = e] /\ \A q \in Proc : q # p => fds'[q] = fds[q]
  BY <1>6 DEF TypeInv
<1>9. TypeInv'
  <2>1. fds' \in [Proc -> Seq(Desc)]
    BY <1>6, <1>7 DEF TypeInv
  <2>2. \A q \in Proc : Len(fds'[q]) <= MAXFD
    BY <1>1, <1>7, <1>8 DEF TypeInv
  <2> QED
    BY <1>6, <2>1, <2>2 DEF TypeInv
<1> QED
  BY <1>3, <1>5, <1>6, <1>7, <1>8, <1>9 DEF s

\* What close() does: nothing, or one descriptor is closed and its file loses
\* its buffer.
LEMMA CloseStep ==
    ASSUME TypeInv, NEW p \in Proc, NEW k \in 1..MAXFD, sys_close(p, k)
    PROVE  /\ TypeInv' /\ opened' = opened
           /\ \A q \in Proc : q # p => fds'[q] = fds[q]
           /\ DOMAIN fds'[p] = DOMAIN fds[p]
           /\ \A i \in DOMAIN fds[p] : i # k => fds'[p][i] = fds[p][i]
           /\ \/ UNCHANGED <<opened, mmap, bufs, fds>>
              \/ /\ IsOpen(p, k) /\ fds[p][k].file \in File /\ fds'[p][k].file = NoFile
                 /\ bufs' = bufs \ {mmap[fds[p][k].file]}
                 /\ mmap' = [mmap EXCEPT ![fds[p][k].file] = NoBuf]
<1>1. CASE UNCHANGED <<opened, mmap, bufs, fds>>
  BY <1>1 DEF TypeInv
<1>2. CASE /\ IsOpen(p, k)
           /\ bufs' = bufs \ {mmap[fds[p][k].file]}
           /\ mmap' = [mmap EXCEPT ![fds[p][k].file] = NoBuf]
           /\ fds' = [fds EXCEPT ![p][k] = [file |-> NoFile, ptr |-> 0]]
           /\ opened' = opened
  <2> DEFINE s == fds[p]
             e == [file |-> NoFile, ptr |-> 0]
  <2>1. s \in Seq(Desc) /\ k \in 1..Len(s) /\ Len(s) <= MAXFD /\ DOMAIN s = 1..Len(s)
    BY <1>2 DEF TypeInv, IsOpen
  <2>2. s[k].file \in File
    <3>1. s[k] \in Desc
      BY <2>1
    <3> QED
      BY <1>2, <3>1 DEF Desc, IsOpen
  <2>3. e \in Desc /\ e.file = NoFile
    BY Bounds DEF Desc
  <2>4. fds' = [fds EXCEPT ![p] = [s EXCEPT ![k] = e]]
    BY <1>2
  <2> HIDE DEF e, s
  <2>5. /\ [s EXCEPT ![k] = e] \in Seq(Desc) /\ Len([s EXCEPT ![k] = e]) = Len(s)
        /\ DOMAIN [s EXCEPT ![k] = e] = DOMAIN s
        /\ [s EXCEPT ![k] = e][k] = e
        /\ \A i \in DOMAIN s : i # k => [s EXCEPT ![k] = e][i] = s[i]
    BY <2>1, <2>3
  <2>6. fds'[p] = [s EXCEPT ![k] = e] /\ \A q \in Proc : q # p => fds'[q] = fds[q]
    BY <2>4 DEF TypeInv
  <2>7. TypeInv'
    <3>1. fds' \in [Proc -> Seq(Desc)]
      BY <2>4, <2>5 DEF TypeInv
    <3>2. \A q \in Proc : Len(fds'[q]) <= MAXFD
      BY <2>1, <2>5, <2>6 DEF TypeInv
    <3>3. mmap' \in [File -> Nat] /\ bufs' \subseteq 1..MAXBUF
      BY <1>2, <2>2 DEF TypeInv, NoBuf, s
    <3> QED
      BY <1>2, <3>1, <3>2, <3>3 DEF TypeInv
  <2> QED
    BY <1>2, <2>2, <2>3, <2>5, <2>6, <2>7 DEF s
<1> QED
  BY <1>1, <1>2 DEF sys_close

\* The descriptors of a list that name f are finitely many.
LEMMA UsesType ==
    ASSUME NEW s \in Seq(Desc), NEW f
    PROVE  /\ IsFiniteSet({k \in DOMAIN s : s[k].file = f})
           /\ Uses(s, f) \in Nat
<1>1. DOMAIN s = 1..Len(s) /\ Len(s) \in Nat
  OBVIOUS
<1>2. IsFiniteSet(1..Len(s))
  BY <1>1, FS_Interval
<1>3. IsFiniteSet({k \in DOMAIN s : s[k].file = f})
  BY <1>1, <1>2, FS_Subset
<1> QED
  BY <1>3, FS_CardinalityType DEF Uses

\* What the exit of a process does to the files.
LEMMA ExitStep ==
    ASSUME TypeInv, NEW p \in Proc, sys_exit(p)
    PROVE  /\ TypeInv'
           /\ fds'[p] = <<>> /\ \A q \in Proc : q # p => fds'[q] = fds[q]
           /\ \A f \in File : /\ opened'[f] = opened[f] - Uses(fds[p], f)
                              /\ \/ mmap'[f] = mmap[f]
                                 \/ mmap'[f] = NoBuf /\ LastUser(f, Uses(fds[p], f))
           /\ \E Left \in SUBSET File :
                 /\ bufs' = bufs \ {mmap[f] : f \in Left}
                 /\ \A f \in File : mmap'[f] = IF f \in Left THEN NoBuf ELSE mmap[f]
<1> DEFINE Left == {f \in File : LastUser(f, Uses(fds[p], f))}
<1>1. /\ opened' = [f \in File |-> opened[f] - Uses(fds[p], f)]
      /\ bufs' = bufs \ {mmap[f] : f \in Left}
      /\ mmap' = [f \in File |-> IF f \in Left THEN NoBuf ELSE mmap[f]]
      /\ fds' = [fds EXCEPT ![p] = <<>>]
  BY DEF sys_exit
<1>2. fds'[p] = <<>> /\ \A q \in Proc : q # p => fds'[q] = fds[q]
  BY <1>1 DEF TypeInv
<1>3. TypeInv'
  <2>1. \A f \in File : Uses(fds[p], f) \in Nat
    BY UsesType DEF TypeInv
  <2>2. \A f \in File : opened[f] - Uses(fds[p], f) \in Int
    BY <2>1 DEF TypeInv
  <2>3. opened' \in [File -> Int]
    BY <1>1, <2>2
  <2>4. mmap' \in [File -> Nat] /\ bufs' \subseteq 1..MAXBUF
    BY <1>1 DEF TypeInv, NoBuf
  <2>5. fds' \in [Proc -> Seq(Desc)]
    BY <1>1 DEF TypeInv
  <2>6. \A q \in Proc : Len(fds'[q]) <= MAXFD
    BY <1>2, Bounds DEF TypeInv
  <2> QED
    BY <2>3, <2>4, <2>5, <2>6 DEF TypeInv
<1> QED
  BY <1>1, <1>2, <1>3

\* Nothing is open at the start.
LEMMA TypeInit == Init => TypeInv
<1> SUFFICES ASSUME Init PROVE TypeInv
  OBVIOUS
<1>1. opened \in [File -> Int] /\ mmap \in [File -> Nat] /\ bufs \subseteq 1..MAXBUF
  BY Bounds DEF Init, NoBuf
<1>2. fds \in [Proc -> Seq(Desc)] /\ \A p \in Proc : Len(fds[p]) <= MAXFD
  BY Bounds DEF Init
<1> QED
  BY <1>1, <1>2 DEF TypeInv

\* The operations, one process each.
LEMMA Steps ==
    ASSUME [Next]_vars
    PROVE  \/ UNCHANGED vars
           \/ \E p \in Proc, f \in File : sys_open(p, f)
           \/ \E p \in Proc, k \in 1..MAXFD, n \in BUFSIZES : sys_read(p, k, n)
           \/ \E p \in Proc, k \in 1..MAXFD : sys_close(p, k)
           \/ \E p \in Proc : sys_exit(p)
BY DEF Next, sys_close_any

\* No operation gives a buffer to two files, or frees the buffer of another.
LEMMA BufStep == BufInv /\ [Next]_vars => BufInv'
<1> SUFFICES ASSUME BufInv, [Next]_vars PROVE BufInv'
  OBVIOUS
<1>0. /\ TypeInv /\ mmap \in [File -> Nat]
      /\ \A f \in File : mmap[f] \in bufs \cup {NoBuf}
      /\ \A f, g \in File : mmap[f] = mmap[g] /\ mmap[f] # NoBuf => f = g
  BY DEF BufInv, BuffersOwned, TypeInv
<1>1. CASE UNCHANGED vars
  BY <1>0, <1>1 DEF vars, BufInv, BuffersOwned, TypeInv
<1>2. ASSUME NEW p \in Proc, NEW f \in File, sys_open(p, f) PROVE BufInv'
  <2>1. PICK b \in Nat \ {0} : /\ b \notin bufs /\ bufs' = bufs \cup {b}
                               /\ mmap' = [mmap EXCEPT ![f] = b]
    BY <1>0, <1>2, OpenStep
  <2>2. TypeInv'
    BY <1>0, <1>2, OpenStep
  <2> QED
    BY <1>0, <2>1, <2>2 DEF BufInv, BuffersOwned, NoBuf
<1>3. ASSUME NEW p \in Proc, NEW k \in 1..MAXFD, NEW n \in BUFSIZES, sys_read(p, k, n)
      PROVE  BufInv'
  BY <1>0, <1>3, ReadStep DEF BufInv, BuffersOwned
<1>4. ASSUME NEW p \in Proc, NEW k \in 1..MAXFD, sys_close(p, k) PROVE BufInv'
  <2>1. TypeInv'
    BY <1>0, <1>4, CloseStep
  <2>2. \/ UNCHANGED <<opened, mmap, bufs, fds>>
        \/ /\ fds[p][k].file \in File
           /\ bufs' = bufs \ {mmap[fds[p][k].file]}
           /\ mmap' = [mmap EXCEPT ![fds[p][k].file] = NoBuf]
    BY <1>0, <1>4, CloseStep
  <2> QED
    BY <1>0, <2>1, <2>2 DEF BufInv, BuffersOwned
<1>5. ASSUME NEW p \in Proc, sys_exit(p) PROVE BufInv'
  <2>1. TypeInv'
    BY <1>0, <1>5, ExitStep
  <2>2. PICK Left \in SUBSET File :
           /\ bufs' = bufs \ {mmap[f] : f \in Left}
           /\ \A f \in File : mmap'[f] = IF f \in Left THEN NoBuf ELSE mmap[f]
    BY <1>0, <1>5, ExitStep
  <2>3. \A f \in File : mmap'[f] \in bufs' \cup {NoBuf}
    BY <1>0, <2>2
  <2>4. \A f, g \in File : mmap'[f] = mmap'[g] /\ mmap'[f] # NoBuf => f = g
    BY <1>0, <2>2
  <2> QED
    BY <2>1, <2>3, <2>4 DEF BufInv, BuffersOwned
<1> QED
  BY <1>1, <1>2, <1>3, <1>4, <1>5, Steps

\* Whatever processes open, read, close and exit, a buffer that a file points
\* to is allocated and belongs to that file alone: until a kfree() of address 0,
\* which a second close() of one file does, stops the machine.
THEOREM BuffersCorrect == Spec => []BuffersOwned
<1>1. Init => BufInv
  BY TypeInit DEF Init, BufInv, BuffersOwned
<1>2. BufInv => BuffersOwned
  BY DEF BufInv
<1> QED
  BY <1>1, <1>2, BufStep, PTL DEF Spec

\* A descriptor keeps its file and does not move back.
THEOREM DescriptorsCorrect == Spec => DescriptorStable
<1> DEFINE A == \A p \in Proc, k \in 1..MAXFD :
                  IsOpen(p, k) =>
                    \/ fds'[p] = <<>>
                    \/ /\ k \in DOMAIN fds'[p]
                       /\ fds'[p][k].file \in {fds[p][k].file, NoFile}
                       /\ fds'[p][k].file # NoFile => fds'[p][k].ptr \in fds[p][k].ptr..SIZE
<1>1. BufInv /\ [Next]_vars => A
  <2> SUFFICES ASSUME BufInv, [Next]_vars, NEW p \in Proc, NEW k \in 1..MAXFD, IsOpen(p, k)
               PROVE  \/ fds'[p] = <<>>
                      \/ /\ k \in DOMAIN fds'[p]
                         /\ fds'[p][k].file \in {fds[p][k].file, NoFile}
                         /\ fds'[p][k].file # NoFile => fds'[p][k].ptr \in fds[p][k].ptr..SIZE
    OBVIOUS
  <2>0. TypeInv
    BY DEF BufInv
  <2>1. k \in DOMAIN fds[p] /\ fds[p][k].ptr \in fds[p][k].ptr..SIZE
    <3>1. k \in DOMAIN fds[p] /\ fds[p] \in Seq(Desc)
      BY <2>0 DEF IsOpen, TypeInv
    <3>2. fds[p][k] \in Desc
      BY <3>1
    <3> QED
      BY <3>1, <3>2, Bounds DEF Desc
  <2>2. CASE fds'[p] = fds[p]
    BY <2>1, <2>2
  <2>3. CASE UNCHANGED vars
    BY <2>2, <2>3 DEF vars
  <2>4. ASSUME NEW q \in Proc, NEW f \in File, sys_open(q, f)
        PROVE  k \in DOMAIN fds'[p] /\ fds'[p][k] = fds[p][k]
    <3>1. CASE q # p
      BY <2>0, <2>1, <2>4, <3>1, OpenStep
    <3>2. CASE q = p
      <4>1. PICK j \in 1..MAXFD :
               /\ ~IsOpen(p, j)
               /\ \A i \in 1..MAXFD : i # j =>
                     /\ i \in DOMAIN fds'[p] <=> i \in DOMAIN fds[p]
                     /\ i \in DOMAIN fds[p] => fds'[p][i] = fds[p][i]
        BY <2>0, <2>4, <3>2, OpenStep
      <4> QED
        BY <2>1, <4>1
    <3> QED
      BY <3>1, <3>2
  <2>5. ASSUME NEW q \in Proc, NEW j \in 1..MAXFD, NEW n \in BUFSIZES, sys_read(q, j, n)
        PROVE  /\ k \in DOMAIN fds'[p] /\ fds'[p][k].file = fds[p][k].file
               /\ fds'[p][k].ptr \in fds[p][k].ptr..SIZE
    <3>1. /\ \A x \in Proc : x # q => fds'[x] = fds[x]
          /\ DOMAIN fds'[q] = DOMAIN fds[q]
          /\ \A i \in DOMAIN fds[q] : fds'[q][i].file = fds[q][i].file
          /\ \A i \in DOMAIN fds[q] : i # j => fds'[q][i] = fds[q][i]
          /\ fds'[q][j].ptr \in fds[q][j].ptr..SIZE
      BY <2>0, <2>5, ReadStep
    <3> QED
      BY <2>1, <3>1
  <2>6. ASSUME NEW q \in Proc, NEW j \in 1..MAXFD, sys_close(q, j)
        PROVE  k \in DOMAIN fds'[p] /\ (fds'[p][k] = fds[p][k] \/ fds'[p][k].file = NoFile)
    <3>1. /\ \A x \in Proc : x # q => fds'[x] = fds[x]
          /\ DOMAIN fds'[q] = DOMAIN fds[q]
          /\ \A i \in DOMAIN fds[q] : i # j => fds'[q][i] = fds[q][i]
          /\ fds' = fds \/ fds'[q][j].file = NoFile
      BY <2>0, <2>6, CloseStep
    <3> QED
      BY <2>1, <3>1
  <2>7. ASSUME NEW q \in Proc, sys_exit(q)
        PROVE  fds'[p] = <<>> \/ fds'[p] = fds[p]
    BY <2>0, <2>7, ExitStep
  <2> QED
    BY <2>1, <2>2, <2>3, <2>4, <2>5, <2>6, <2>7, Steps
<1>2. BufInv /\ [Next]_vars => [A]_vars
  BY <1>1
<1>3. Init => BufInv
  BY TypeInit DEF Init, BufInv, BuffersOwned
<1> HIDE DEF A
<1>4. Spec => [][A]_vars
  BY <1>2, <1>3, BufStep, PTL DEF Spec
<1> QED
  BY <1>4 DEF DescriptorStable, A

-----------------------------------------------------------------------------

\* The descriptors that name a file are finitely many.
LEMMA DescriptorsFinite ==
    /\ \A f : IsFiniteSet(Descriptors(f)) /\ Users(f) \in Nat
    /\ \A f : IsFiniteSet(Descriptors(f)') /\ Users(f)' \in Nat
<1>1. IsFiniteSet(Proc \X (1..MAXFD))
  <2>1. IsFiniteSet(Proc) /\ IsFiniteSet(1..MAXFD)
    BY Bounds, FS_Interval
  <2> QED
    BY <2>1, FS_Product, Zenon
<1>2. \A f : IsFiniteSet(Descriptors(f))
  <2> TAKE f
  <2>1. Descriptors(f) \in SUBSET (Proc \X (1..MAXFD))
    BY DEF Descriptors
  <2> QED
    BY <1>1, <2>1, FS_Subset
<1>3. \A f : IsFiniteSet(Descriptors(f)')
  <2> TAKE f
  <2>1. Descriptors(f)' \in SUBSET (Proc \X (1..MAXFD))
    BY DEF Descriptors
  <2> QED
    BY <1>1, <2>1, FS_Subset
<1> QED
  BY <1>2, <1>3, FS_CardinalityType DEF Users

\* A pair is a descriptor of f when it is an entry of a list that names f.
LEMMA DescriptorsMember ==
    ASSUME NEW f, NEW p \in Proc, NEW k \in 1..MAXFD
    PROVE  /\ <<p, k>> \in Descriptors(f) <=> (k \in DOMAIN fds[p] /\ fds[p][k].file = f)
           /\ <<p, k>> \in Descriptors(f)' <=> (k \in DOMAIN fds'[p] /\ fds'[p][k].file = f)
BY DEF Descriptors

\* The members of two sets of descriptors are compared place by place.
LEMMA DescriptorsSubset ==
    ASSUME NEW f,
           \A p \in Proc, k \in 1..MAXFD :
              (k \in DOMAIN fds'[p] /\ fds'[p][k].file = f) => (k \in DOMAIN fds[p] /\ fds[p][k].file = f)
    PROVE  Users(f)' <= Users(f)
<1>1. Descriptors(f)' \in SUBSET Descriptors(f)
  BY DEF Descriptors
<1> QED
  BY <1>1, DescriptorsFinite, FS_Subset DEF Users

\* open() makes at most one more descriptor of the file, and none of another.
LEMMA OpenUsers ==
    ASSUME TypeInv, NEW p \in Proc, NEW f \in File, sys_open(p, f), NEW g \in File
    PROVE  Users(g)' <= IF g = f THEN Users(g) + 1 ELSE Users(g)
<1>1. PICK j \in 1..MAXFD :
         /\ j \in DOMAIN fds'[p] /\ fds'[p][j].file = f /\ ~IsOpen(p, j)
         /\ \A i \in 1..MAXFD : i # j =>
               /\ i \in DOMAIN fds'[p] <=> i \in DOMAIN fds[p]
               /\ i \in DOMAIN fds[p] => fds'[p][i] = fds[p][i]
  BY OpenStep
<1>2. \A q \in Proc : q # p => fds'[q] = fds[q]
  BY OpenStep
<1>3. CASE g # f
  <2>1. \A q \in Proc, k \in 1..MAXFD :
           (k \in DOMAIN fds'[q] /\ fds'[q][k].file = g) => (k \in DOMAIN fds[q] /\ fds[q][k].file = g)
    BY <1>1, <1>2, <1>3
  <2> QED
    BY <1>3, <2>1, DescriptorsSubset
<1>4. CASE g = f
  <2>1. Descriptors(g)' \in SUBSET (Descriptors(g) \cup {<<p, j>>})
    BY <1>1, <1>2 DEF Descriptors
  <2>2. /\ IsFiniteSet(Descriptors(g) \cup {<<p, j>>})
        /\ Cardinality(Descriptors(g) \cup {<<p, j>>}) \in {Users(g), Users(g) + 1}
    BY DescriptorsFinite, FS_AddElement DEF Users
  <2>3. Users(g)' <= Cardinality(Descriptors(g) \cup {<<p, j>>})
    BY <2>1, <2>2, FS_Subset DEF Users
  <2>4. Users(g) \in Nat /\ Users(g)' \in Nat
    BY DescriptorsFinite
  <2> QED
    BY <1>4, <2>2, <2>3, <2>4
<1> QED
  BY <1>3, <1>4

\* The exit of a process takes as many descriptors of a file from the system
\* as it takes from its counter.
LEMMA ExitUsers ==
    ASSUME TypeInv, NEW p \in Proc, sys_exit(p), NEW g \in File
    PROVE  Users(g)' = Users(g) - Uses(fds[p], g)
<1> DEFINE Own == {k \in DOMAIN fds[p] : fds[p][k].file = g}
           Pairs == Descriptors(g) \cap ({p} \X Own)
           F == [k \in Own |-> <<p, k>>]
<1>1. fds[p] \in Seq(Desc) /\ Len(fds[p]) <= MAXFD /\ DOMAIN fds[p] = 1..Len(fds[p]) /\ Len(fds[p]) \in Nat
  BY DEF TypeInv
<1>2. IsFiniteSet(Own) /\ Cardinality(Own) = Uses(fds[p], g) /\ Uses(fds[p], g) \in Nat
  BY <1>1, UsesType DEF Uses
<1>3. \A k \in Own : k \in 1..MAXFD
  BY <1>1, Bounds
<1>4. \A k \in Own : <<p, k>> \in Pairs
  BY <1>3 DEF Descriptors
<1>5. F \in [Own -> Pairs] /\ \A a, b \in Own : F[a] = F[b] => a = b
  <2> HIDE DEF Own, Pairs
  <2> QED BY <1>4
<1>6. \A t \in Pairs : \E k \in Own : F[k] = t
  <2>1. \A t \in Pairs : \E k \in Own : t = <<p, k>>
    OBVIOUS
  <2> HIDE DEF Own, Pairs
  <2> QED BY <2>1
<1>7. F \in Bijection(Own, Pairs)
  <2> HIDE DEF Own, Pairs, F
  <2> QED BY <1>5, <1>6, Fun_IsBij
<1>8. Cardinality(Pairs) = Cardinality(Own)
  <2> HIDE DEF Own, Pairs, F
  <2>1. ExistsBijection(Own, Pairs)
    BY <1>7 DEF ExistsBijection
  <2> QED BY <1>2, <2>1, FS_Bijection
<1>9. fds'[p] = <<>> /\ \A q \in Proc : q # p => fds'[q] = fds[q]
  BY ExitStep
<1>10. Descriptors(g)' = Descriptors(g) \ Pairs
  <2>1. ASSUME NEW q \in Proc, NEW k \in 1..MAXFD
        PROVE  <<q, k>> \in Descriptors(g)' <=> <<q, k>> \in Descriptors(g) \ Pairs
    <3>1. CASE q = p
      BY <1>9, <3>1, DescriptorsMember
    <3>2. CASE q # p
      BY <1>9, <3>2, DescriptorsMember
    <3> QED BY <3>1, <3>2
  <2>2. Descriptors(g)' \subseteq Proc \X (1..MAXFD) /\ Descriptors(g) \subseteq Proc \X (1..MAXFD)
    BY DEF Descriptors
  <2> HIDE DEF Pairs
  <2> QED BY <2>1, <2>2
<1>11. Cardinality(Descriptors(g) \ Pairs) = Cardinality(Descriptors(g)) - Cardinality(Descriptors(g) \cap Pairs)
  BY DescriptorsFinite, FS_Difference
<1>12. Descriptors(g) \cap Pairs = Pairs
  OBVIOUS
<1> HIDE DEF Pairs, Own
<1> QED
  BY <1>2, <1>8, <1>10, <1>11, <1>12 DEF Users

\* close() leaves a file with one descriptor less, and no other with more.
LEMMA CloseUsers ==
    ASSUME TypeInv, NEW p \in Proc, NEW k \in 1..MAXFD, sys_close(p, k), NEW g \in File
    PROVE  /\ Users(g)' <= Users(g)
           /\ \/ UNCHANGED <<opened, mmap, bufs, fds>>
              \/ mmap'[g] = mmap[g]
              \/ Users(g)' = Users(g) - 1
<1>1. /\ \A q \in Proc : q # p => fds'[q] = fds[q]
      /\ DOMAIN fds'[p] = DOMAIN fds[p]
      /\ \A i \in DOMAIN fds[p] : i # k => fds'[p][i] = fds[p][i]
      /\ \/ UNCHANGED <<opened, mmap, bufs, fds>>
         \/ /\ IsOpen(p, k) /\ fds[p][k].file \in File /\ fds'[p][k].file = NoFile
            /\ mmap' = [mmap EXCEPT ![fds[p][k].file] = NoBuf]
  BY CloseStep
<1>2. Users(g)' <= Users(g)
  <2>1. \A q \in Proc, j \in 1..MAXFD :
           (j \in DOMAIN fds'[q] /\ fds'[q][j].file = g) => (j \in DOMAIN fds[q] /\ fds[q][j].file = g)
    BY <1>1, Bounds
  <2> QED
    BY <2>1, DescriptorsSubset
<1>3. CASE UNCHANGED <<opened, mmap, bufs, fds>>
  BY <1>2, <1>3
<1>4. CASE /\ IsOpen(p, k) /\ fds'[p][k].file = NoFile /\ fds[p][k].file # g
           /\ mmap' = [mmap EXCEPT ![fds[p][k].file] = NoBuf]
  BY <1>2, <1>4 DEF TypeInv
<1>5. CASE /\ IsOpen(p, k) /\ fds'[p][k].file = NoFile /\ fds[p][k].file = g
  <2>1. <<p, k>> \in Descriptors(g)
    BY <1>5, DescriptorsMember DEF IsOpen
  <2>2. Descriptors(g)' = Descriptors(g) \ {<<p, k>>}
    <3>1. ASSUME NEW q \in Proc, NEW j \in 1..MAXFD
          PROVE  <<q, j>> \in Descriptors(g)' <=> <<q, j>> \in Descriptors(g) \ {<<p, k>>}
      <4>1. CASE q = p /\ j = k
        BY <1>5, <4>1, Bounds, DescriptorsMember
      <4>2. CASE ~(q = p /\ j = k)
        BY <1>1, <4>2, DescriptorsMember
      <4> QED BY <4>1, <4>2
    <3>2. Descriptors(g)' \subseteq Proc \X (1..MAXFD) /\ Descriptors(g) \subseteq Proc \X (1..MAXFD)
      BY DEF Descriptors
    <3> QED BY <3>1, <3>2
  <2>3. Users(g)' = Users(g) - 1
    BY <2>1, <2>2, DescriptorsFinite, FS_RemoveElement DEF Users
  <2> QED
    BY <1>2, <2>3
<1> QED
  BY <1>1, <1>3, <1>4, <1>5

\* The counter of g covers its descriptors.
Covers(g) ==
    /\ opened[g] >= Users(g)
    /\ mmap[g] = NoBuf /\ Users(g) > 0 => opened[g] > Users(g)

\* Every step keeps the counters above the numbers of descriptors.
LEMMA CountStep == CountInv /\ [Next]_vars => CountInv'
<1> SUFFICES ASSUME CountInv, [Next]_vars PROVE CountInv'
  OBVIOUS
<1>0. TypeInv /\ opened \in [File -> Int] /\ mmap \in [File -> Nat] /\ \A g \in File : Covers(g)
  BY DEF CountInv, OpenedCoversUsers, TypeInv, Covers
<1>a. \A g : Users(g) \in Nat /\ Users(g)' \in Nat
  BY DescriptorsFinite
<1>s. SUFFICES TypeInv' /\ \A g \in File : Covers(g)'
  BY DEF CountInv, OpenedCoversUsers, Covers
<1>1. ASSUME UNCHANGED vars PROVE TypeInv' /\ \A g \in File : Covers(g)'
  BY <1>0, <1>1 DEF vars, Covers, TypeInv, Users, Descriptors
<1>2. ASSUME NEW p \in Proc, NEW f \in File, sys_open(p, f) PROVE TypeInv' /\ \A g \in File : Covers(g)'
  <2>1. TypeInv' /\ opened' = [opened EXCEPT ![f] = @ + 1]
    BY <1>0, <1>2, OpenStep
  <2>m. PICK b \in Nat \ {0} : mmap' = [mmap EXCEPT ![f] = b]
    BY <1>0, <1>2, OpenStep
  <2>2. ASSUME NEW g \in File PROVE Covers(g)'
    <3>1. Users(g)' <= IF g = f THEN Users(g) + 1 ELSE Users(g)
      BY <1>0, <1>2, OpenUsers
    <3>2. Covers(g)
      BY <1>0
    <3>3. CASE g = f
      <4>1. opened'[g] = opened[g] + 1 /\ mmap'[g] # NoBuf
        BY <1>0, <2>1, <2>m, <3>3 DEF NoBuf
      <4> QED BY <1>0, <1>a, <3>1, <3>2, <3>3, <4>1 DEF Covers
    <3>4. CASE g # f
      <4>1. opened'[g] = opened[g] /\ mmap'[g] = mmap[g]
        BY <1>0, <2>1, <2>m, <3>4
      <4> QED BY <1>0, <1>a, <3>1, <3>2, <3>4, <4>1 DEF Covers
    <3> QED BY <3>3, <3>4
  <2> QED
    BY <2>1, <2>2
<1>3. ASSUME NEW p \in Proc, NEW k \in 1..MAXFD, NEW n \in BUFSIZES, sys_read(p, k, n)
      PROVE  TypeInv' /\ \A g \in File : Covers(g)'
  <2>1. /\ TypeInv' /\ opened' = opened /\ mmap' = mmap
        /\ \A q \in Proc : q # p => fds'[q] = fds[q]
        /\ DOMAIN fds'[p] = DOMAIN fds[p]
        /\ \A i \in DOMAIN fds[p] : fds'[p][i].file = fds[p][i].file
    BY <1>0, <1>3, ReadStep
  <2>2. ASSUME NEW g \in File PROVE Covers(g)'
    <3>1. Users(g)' <= Users(g)
      <4>1. \A q \in Proc, j \in 1..MAXFD :
              (j \in DOMAIN fds'[q] /\ fds'[q][j].file = g) => (j \in DOMAIN fds[q] /\ fds[q][j].file = g)
        BY <2>1
      <4> QED BY <4>1, DescriptorsSubset
    <3> QED BY <1>0, <1>a, <2>1, <3>1 DEF Covers
  <2> QED
    BY <2>1, <2>2
<1>4. ASSUME NEW p \in Proc, NEW k \in 1..MAXFD, sys_close(p, k) PROVE TypeInv' /\ \A g \in File : Covers(g)'
  <2>1. TypeInv' /\ opened' = opened
    BY <1>0, <1>4, CloseStep
  <2>2. ASSUME NEW g \in File PROVE Covers(g)'
    <3>1. /\ Users(g)' <= Users(g)
          /\ \/ UNCHANGED <<opened, mmap, bufs, fds>>
             \/ mmap'[g] = mmap[g]
             \/ Users(g)' = Users(g) - 1
      BY <1>0, <1>4, CloseUsers
    <3>2. Covers(g)
      BY <1>0
    <3> QED BY <1>0, <1>a, <2>1, <3>1, <3>2 DEF Covers
  <2> QED
    BY <2>1, <2>2
<1>5. ASSUME NEW p \in Proc, sys_exit(p) PROVE TypeInv' /\ \A g \in File : Covers(g)'
  <2>1. /\ TypeInv'
        /\ \A g \in File : /\ opened'[g] = opened[g] - Uses(fds[p], g)
                            /\ \/ mmap'[g] = mmap[g]
                               \/ mmap'[g] = NoBuf /\ LastUser(g, Uses(fds[p], g))
    BY <1>0, <1>5, ExitStep
  <2>2. ASSUME NEW g \in File PROVE Covers(g)'
    <3>1. Users(g)' = Users(g) - Uses(fds[p], g)
      BY <1>0, <1>5, ExitUsers
    <3>2. Uses(fds[p], g) \in Nat
      BY UsesType, <1>0 DEF TypeInv
    <3>3. Covers(g)
      BY <1>0
    <3> QED BY <1>0, <1>a, <2>1, <3>1, <3>2, <3>3 DEF Covers, LastUser
  <2> QED
    BY <2>1, <2>2
<1> QED
  BY <1>1, <1>2, <1>3, <1>4, <1>5, Steps

\* At the start the counters are above the numbers of descriptors, which are 0:
\* when the memory of the counters is not negative.
LEMMA CountInit == ASSUME JUNK \subseteq Nat PROVE Init => CountInv
<1> SUFFICES ASSUME Init PROVE CountInv
  OBVIOUS
<1>1. ASSUME NEW f \in File PROVE opened[f] >= Users(f) /\ ~(Users(f) > 0)
  <2>1. Descriptors(f) = {}
    BY DEF Init, Descriptors
  <2>2. Users(f) = 0
    BY <2>1, FS_EmptySet DEF Users
  <2>3. opened[f] \in Nat
    BY DEF Init
  <2> QED BY <2>2, <2>3
<1> QED
  BY <1>1, TypeInit DEF CountInv, OpenedCoversUsers

\* The counter of a file is never below the number of descriptors that name it,
\* and above it once the buffer is gone, whatever its memory held at the start,
\* as long as that was not negative.
THEOREM CountersCorrect == ASSUME JUNK \subseteq Nat PROVE Spec => []OpenedCoversUsers
<1>1. CountInv => OpenedCoversUsers
  BY DEF CountInv
<1> QED
  BY <1>1, CountInit, CountStep, PTL DEF Spec

\* The exit of a process does not take the buffer of a file that another process
\* has open: the counter it brings to 0 would be below that descriptor.
THEOREM ExitLeavesOthers == ASSUME JUNK \subseteq Nat PROVE Spec => OthersKeepBuffer
<1> DEFINE A == \A p \in Proc, k \in 1..MAXFD :
                  (IsOpen(p, k) /\ mmap[fds[p][k].file] # NoBuf)
                      => (\/ mmap'[fds[p][k].file] # NoBuf
                          \/ fds'[p] = <<>>
                          \/ \E q \in Proc : sys_close_any(q))
<1>1. CountInv /\ CountInv' /\ [Next]_vars => A
  <2> SUFFICES ASSUME CountInv, CountInv', [Next]_vars, NEW p \in Proc, NEW k \in 1..MAXFD,
                      IsOpen(p, k), mmap[fds[p][k].file] # NoBuf
               PROVE  (\/ mmap'[fds[p][k].file] # NoBuf
                       \/ fds'[p] = <<>>
                       \/ \E q \in Proc : sys_close_any(q))
    OBVIOUS
  <2>0. TypeInv /\ mmap \in [File -> Nat] /\ fds[p][k].file \in File
    <3>1. TypeInv /\ k \in DOMAIN fds[p] /\ fds[p] \in Seq(Desc)
      BY DEF IsOpen, TypeInv, CountInv
    <3>2. fds[p][k] \in Desc
      BY <3>1
    <3> QED
      BY <3>1, <3>2 DEF Desc, IsOpen, TypeInv
  <2>f. PICK f \in File : f = fds[p][k].file
    BY <2>0
  <2>1. ASSUME UNCHANGED vars PROVE mmap'[f] # NoBuf
    BY <2>1, <2>f DEF vars
  <2>2. ASSUME NEW q \in Proc, NEW g \in File, sys_open(q, g) PROVE mmap'[f] # NoBuf
    <3>1. PICK b \in Nat \ {0} : mmap' = [mmap EXCEPT ![g] = b]
      BY <2>0, <2>2, OpenStep
    <3> QED BY <2>0, <2>f, <3>1 DEF NoBuf
  <2>3. ASSUME NEW q \in Proc, NEW j \in 1..MAXFD, NEW n \in BUFSIZES, sys_read(q, j, n)
        PROVE  mmap'[f] # NoBuf
    BY <2>0, <2>3, <2>f, ReadStep
  <2>4. ASSUME NEW q \in Proc, NEW j \in 1..MAXFD, sys_close(q, j)
        PROVE  \E r \in Proc : sys_close_any(r)
    BY <2>4 DEF sys_close_any
  <2>5. ASSUME NEW q \in Proc, sys_exit(q), fds'[p] # <<>> PROVE mmap'[f] # NoBuf
    <3>1. q # p /\ fds'[p] = fds[p]
      BY <2>0, <2>5, ExitStep
    <3>2. <<p, k>> \in Descriptors(f)'
      BY <2>f, <3>1, DescriptorsMember DEF IsOpen
    <3>3. IsFiniteSet(Descriptors(f)') /\ Users(f)' \in Nat
      BY DescriptorsFinite
    <3>4. Users(f)' # 0
      BY <3>2, <3>3, FS_EmptySet DEF Users
    <3>5. opened'[f] >= Users(f)' /\ opened' \in [File -> Int]
      BY <2>0 DEF CountInv, OpenedCoversUsers, TypeInv
    <3>6. /\ opened'[f] = opened[f] - Uses(fds[q], f)
          /\ mmap'[f] = mmap[f] \/ LastUser(f, Uses(fds[q], f))
      BY <2>0, <2>5, ExitStep
    <3>7. Uses(fds[q], f) \in Nat /\ opened[f] \in Int
      BY <2>0, UsesType DEF TypeInv
    <3>8. ~LastUser(f, Uses(fds[q], f))
      BY <3>3, <3>4, <3>5, <3>6, <3>7 DEF LastUser
    <3> QED BY <2>f, <3>6, <3>8
  <2> QED
    BY <2>f, <2>1, <2>2, <2>3, <2>4, <2>5, Steps
<1>2. CountInv /\ CountInv' /\ [Next]_vars => [A]_vars
  BY <1>1
<1> HIDE DEF A
<1>3. Spec => [][A]_vars
  BY <1>2, CountInit, CountStep, PTL DEF Spec
<1> QED
  BY <1>3 DEF OthersKeepBuffer, A

=============================================================================
