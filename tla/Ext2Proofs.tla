---------------------------- MODULE Ext2Proofs ----------------------------
(***************************************************************************)
(* Theorems about the ext2 reader on top of disk_read(), for every disk of *)
(* the format (FormatAssumption: what is read lies below 2 GiB, no range   *)
(* has more than 256 sectors, there are fewer than 2^16 groups, and files  *)
(* have no holes), every size of a sector, a block and a table and every   *)
(* file of it, when no read is preempted.                                  *)
(***************************************************************************)
EXTENDS Ext2, SequenceTheorems, TLAPS

\* What the disk holds from sector b on, n sectors long.
Bytes(b, n) == [x \in 1..(n * SECT) |-> Unit(medium, b * SECT + x - 1)]

\* Sectors b, b + 1, ..., n of them.
Sectors(b, n) == [k \in 1..n |-> b + k - 1]

\* A request of n sectors from b on: the registers hold what was written to
\* them so far, the controller the sectors that are still to come, and the
\* buffer those that came.
Place(r, b, n) ==
    /\ r.pc \in {"count", "lba", "command", "wait"} => r.left = n /\ r.buf = <<>>
    /\ r.pc \in {"lba", "command"} => drive.count = n
    /\ r.pc = "command" => drive.lba = b
    /\ r.pc = "wait" => drive.data = Sectors(b, n)
    /\ r.pc = "in" =>
          /\ r.left \in 1..n
          /\ drive.data = Sectors(b + (n - r.left), r.left)
          /\ r.buf = Bytes(b, n - r.left)
    /\ r.pc = "done" => r.buf = Bytes(b, n)

\* The first sector of a request and how many there are.
First(r) == Quot(r.offset)
Number(r) == Blocks(r.offset, r.count)

\* The offset and the count are numbers that ints hold, and the range does not
\* have too many sectors.
Numbers(r) == r.offset \in Nat /\ r.count \in Nat /\ Fits(r.offset, r.count)

\* The fields of the records.
IsReq(r) == r = [pc |-> r.pc, offset |-> r.offset, count |-> r.count, buf |-> r.buf, left |-> r.left]
IsDrive(d) == d = [count |-> d.count, lba |-> d.lba, data |-> d.data]
IsJob(j) == "pc" \in DOMAIN j

\* A process that is not inside of disk_read() has no request, and a request
\* is where Place says.
Underway(p) ==
    /\ IsReq(req[p]) /\ IsJob(job[p])
    /\ Numbers(req[p]) => Place(req[p], First(req[p]), Number(req[p]))
    /\ job[p].pc \in {"idle", "start", "scan", "end"} => req[p].pc = "idle"

DiskInv ==
    /\ IsDrive(drive)
    /\ DOMAIN req = Proc /\ req = [p \in Proc |-> req[p]]
    /\ DOMAIN job = Proc /\ job = [p \in Proc |-> job[p]]
    /\ \A p \in Proc : Underway(p)

-----------------------------------------------------------------------------
\* Quotient and remainder.
LEMMA DivFacts ==
    ASSUME NEW m \in Nat \ {0}, NEW x \in Nat
    PROVE  /\ x \div m \in Nat /\ x % m \in 0..(m - 1)
           /\ x = m * (x \div m) + (x % m)
OBVIOUS

\* There is at least one sector, and the sectors cover the range.
LEMMA BlocksFacts ==
    ASSUME NEW r, Numbers(r)
    PROVE  /\ SECT \in Nat \ {0} /\ First(r) \in Nat /\ Number(r) \in Nat /\ Number(r) >= 1
           /\ r.offset % SECT \in Nat
           /\ First(r) * SECT + (r.offset % SECT) = r.offset
           /\ (r.offset % SECT) + r.count <= Number(r) * SECT
           /\ NSECT \in Nat \ {0} /\ Number(r) <= NSECT
<1> DEFINE m == SECT
           o == r.offset
           c == r.count
           b == o \div m
           e == (o + c) \div m
           s == o % m
           t == (o + c) % m
<1>1. m \in Nat \ {0} /\ o \in Nat /\ c \in Nat /\ o + c \in Nat
  BY DiskAssumption DEF Numbers
<1>2. b \in Nat /\ s \in 0..(m - 1) /\ o = m * b + s
  BY <1>1, DivFacts
<1>3. e \in Nat /\ t \in 0..(m - 1) /\ o + c = m * e + t
  BY <1>1, DivFacts
<1>4. First(r) = b /\ Number(r) = e - b + 1
  BY <1>1 DEF First, Number, Blocks, Quot
<1>9. NSECT \in Nat \ {0} /\ Number(r) <= NSECT
  BY DiskAssumption DEF Numbers, Fits, Number
<1> HIDE DEF m, o, c, b, e, s, t
<1>5. e >= b
  <2>1. CASE e <= b - 1
    <3>1. m * e <= m * (b - 1)
      BY <1>1, <1>2, <1>3, <2>1
    <3>2. m * (b - 1) = m * b - m
      BY <1>1, <1>2
    <3> QED
      BY <1>1, <1>2, <1>3, <3>1, <3>2
  <2> QED
    BY <1>2, <1>3, <2>1
<1>6. e - b + 1 \in Nat /\ e - b + 1 >= 1
  BY <1>2, <1>3, <1>5
<1>7. s + c <= (e - b + 1) * m
  <2>1. (e - b + 1) * m = m * e - m * b + m
    BY <1>1, <1>2, <1>3
  <2>2. m * e \in Nat /\ m * b \in Nat
    BY <1>1, <1>2, <1>3
  <2> QED
    BY <1>1, <1>2, <1>3, <2>1, <2>2
<1>8. b * m + s = o
  BY <1>1, <1>2
<1> QED
  BY <1>1, <1>2, <1>4, <1>6, <1>7, <1>8, <1>9 DEF m, o, c, s
\* What a disk holds, and that a range of it is a sequence.
Units(d) == {Unit(d, a) : a \in Nat}

\* The length of what n sectors hold, and its values.
LEMMA BytesFacts ==
    ASSUME NEW b \in Nat, NEW n \in Nat
    PROVE  /\ Bytes(b, n) \in Seq(Units(medium)) /\ Len(Bytes(b, n)) = n * SECT /\ n * SECT \in Nat
           /\ \A x \in 1..(n * SECT) : Bytes(b, n)[x] = Unit(medium, b * SECT + x - 1)
<1>1. SECT \in Nat /\ n * SECT \in Nat /\ b * SECT \in Nat
  BY DiskAssumption
<1>2. ASSUME NEW x \in 1..(n * SECT)
      PROVE  Unit(medium, b * SECT + x - 1) \in Units(medium)
  BY <1>1 DEF Units
<1> QED
  BY <1>1, <1>2 DEF Bytes

\* A sector is a range of its own.
LEMMA SectorFacts ==
    ASSUME NEW b \in Nat
    PROVE  Sector(b) = Bytes(b, 1)
<1>1. 1 * SECT = SECT
  BY DiskAssumption
<1> QED
  BY <1>1 DEF Sector, Bytes

\* Two sequences put together.
LEMMA ConcatIs ==
    ASSUME NEW S, NEW s \in Seq(S), NEW t \in Seq(S), NEW u \in Seq(S),
           Len(u) = Len(s) + Len(t),
           \A i \in 1..Len(s) : u[i] = s[i],
           \A i \in 1..Len(t) : u[Len(s) + i] = t[i]
    PROVE  s \o t = u
<1>1. /\ s \o t \in Seq(S) /\ Len(s \o t) = Len(u)
      /\ \A i \in 1..Len(s) + Len(t) : (s \o t)[i] = IF i <= Len(s) THEN s[i] ELSE t[i - Len(s)]
  BY ConcatProperties
<1>2. ASSUME NEW i \in 1..Len(s \o t)
      PROVE  (s \o t)[i] = u[i]
  <2>1. CASE i <= Len(s)
    BY <1>1, <2>1
  <2>2. CASE ~(i <= Len(s))
    <3>1. i - Len(s) \in 1..Len(t) /\ Len(s) + (i - Len(s)) = i
      BY <1>1, <2>2
    <3>2. u[i] = t[i - Len(s)]
      BY <3>1
    <3> QED
      BY <1>1, <2>2, <3>2
  <2> QED
    BY <2>1, <2>2
<1> QED
  BY <1>1, <1>2, SeqEqual

\* The next sector continues the range.
LEMMA NextSector ==
    ASSUME NEW b \in Nat, NEW n \in Nat
    PROVE  Bytes(b, n) \o Sector(b + n) = Bytes(b, n + 1)
<1> DEFINE s == Bytes(b, n)
           t == Bytes(b + n, 1)
           u == Bytes(b, n + 1)
<1>1. SECT \in Nat /\ n + 1 \in Nat /\ b + n \in Nat /\ 1 \in Nat /\ 1 * SECT = SECT
  BY DiskAssumption
<1>2. (n + 1) * SECT = n * SECT + SECT /\ (b + n) * SECT = b * SECT + n * SECT
  BY <1>1
<1>3. n * SECT \in Nat /\ b * SECT \in Nat
  BY <1>1
<1>4. /\ s \in Seq(Units(medium)) /\ Len(s) = n * SECT
      /\ \A x \in 1..(n * SECT) : s[x] = Unit(medium, b * SECT + x - 1)
  BY BytesFacts
<1>5. /\ t \in Seq(Units(medium)) /\ Len(t) = SECT
      /\ \A x \in 1..SECT : t[x] = Unit(medium, (b + n) * SECT + x - 1)
  <2>1. /\ t \in Seq(Units(medium)) /\ Len(t) = 1 * SECT
        /\ \A x \in 1..(1 * SECT) : t[x] = Unit(medium, (b + n) * SECT + x - 1)
    BY <1>1, BytesFacts
  <2> QED
    BY <1>1, <2>1
<1>6. /\ u \in Seq(Units(medium)) /\ Len(u) = n * SECT + SECT
      /\ \A x \in 1..(n * SECT + SECT) : u[x] = Unit(medium, b * SECT + x - 1)
  <2>1. /\ u \in Seq(Units(medium)) /\ Len(u) = (n + 1) * SECT
        /\ \A x \in 1..((n + 1) * SECT) : u[x] = Unit(medium, b * SECT + x - 1)
    BY <1>1, BytesFacts
  <2> QED
    BY <1>2, <2>1
<1> HIDE DEF s, t, u
<1>7. ASSUME NEW x \in 1..Len(s)
      PROVE  u[x] = s[x]
  <2>1. x \in 1..(n * SECT) /\ x \in 1..(n * SECT + SECT)
    BY <1>1, <1>3, <1>4
  <2> QED
    BY <1>4, <1>6, <2>1
<1>8. ASSUME NEW x \in 1..Len(t)
      PROVE  u[Len(s) + x] = t[x]
  <2>1. n * SECT + x \in 1..(n * SECT + SECT) /\ x \in 1..SECT
    BY <1>1, <1>3, <1>5
  <2>2. b * SECT + (n * SECT + x) - 1 = (b + n) * SECT + x - 1
    BY <1>1, <1>2, <1>3, <2>1
  <2>3. u[n * SECT + x] = Unit(medium, b * SECT + (n * SECT + x) - 1)
    BY <1>6, <2>1
  <2> QED
    BY <1>4, <1>5, <2>1, <2>2, <2>3
<1>9. s \o t = u
  BY <1>4, <1>5, <1>6, <1>7, <1>8, ConcatIs
<1> QED
  BY <1>1, <1>9, SectorFacts DEF s, t, u

\* The sectors that are still to come.
LEMMA SectorsFacts ==
    ASSUME NEW b \in Nat, NEW n \in Nat, n >= 1
    PROVE  /\ Sectors(b, n) # <<>> /\ Head(Sectors(b, n)) = b
           /\ Tail(Sectors(b, n)) = Sectors(b + 1, n - 1)
<1>1. /\ Sectors(b, n) \in Seq(Nat) /\ Len(Sectors(b, n)) = n
      /\ \A k \in 1..n : Sectors(b, n)[k] = b + k - 1
  BY DEF Sectors
<1>2. /\ Sectors(b + 1, n - 1) \in Seq(Nat) /\ Len(Sectors(b + 1, n - 1)) = n - 1
      /\ \A k \in 1..(n - 1) : Sectors(b + 1, n - 1)[k] = (b + 1) + k - 1
  BY DEF Sectors
<1>3. Sectors(b, n) # <<>>
  BY <1>1
<1>4. /\ Tail(Sectors(b, n)) \in Seq(Nat) /\ Len(Tail(Sectors(b, n))) = n - 1
      /\ \A k \in 1..(n - 1) : Tail(Sectors(b, n))[k] = Sectors(b, n)[k + 1]
  BY <1>1, <1>3, HeadTailProperties
<1>5. Head(Sectors(b, n)) = Sectors(b, n)[1]
  BY <1>1, <1>3
<1>6. ASSUME NEW k \in 1..(n - 1)
      PROVE  Tail(Sectors(b, n))[k] = Sectors(b + 1, n - 1)[k]
  <2>1. k + 1 \in 1..n /\ b + (k + 1) - 1 = (b + 1) + k - 1
    OBVIOUS
  <2> QED
    BY <1>1, <1>2, <1>4, <2>1
<1>7. Tail(Sectors(b, n)) = Sectors(b + 1, n - 1)
  BY <1>2, <1>4, <1>6, SeqEqual
<1> QED
  BY <1>1, <1>3, <1>5, <1>7

\* A buffer with all sectors gives the caller the bytes it asked for.
LEMMA ResultRight ==
    ASSUME NEW r, Numbers(r), r.buf = Bytes(First(r), Number(r))
    PROVE  Result(r) = [k \in 1..r.count |-> Unit(medium, r.offset + k - 1)]
<1> DEFINE s == r.offset % SECT
           c == r.count
           b == First(r)
           n == Number(r)
           u == [k \in 1..c |-> Unit(medium, r.offset + k - 1)]
           t == SubSeq(r.buf, s + 1, s + c)
<1>0. r.buf = Bytes(b, n) /\ c = r.count
  OBVIOUS
<1>1. /\ SECT \in Nat /\ b \in Nat /\ n \in Nat /\ s \in Nat /\ c \in Nat /\ r.offset \in Nat
      /\ b * SECT + s = r.offset /\ s + c <= n * SECT /\ n * SECT \in Nat
  BY BlocksFacts, BytesFacts DEF Numbers
<1>4. Result(r) = t
  <2>1. ~(r.offset < 0)
    BY <1>1
  <2> QED
    BY <2>1, Zenon DEF Result
<1> HIDE DEF s, c, b, n
<1>2. \A x \in 1..(n * SECT) : r.buf[x] = Unit(medium, b * SECT + x - 1)
  <2>1. \A x \in 1..(n * SECT) : Bytes(b, n)[x] = Unit(medium, b * SECT + x - 1)
    BY <1>1, BytesFacts
  <2> QED
    BY <1>0, <2>1
<1>3. u \in Seq(Units(medium)) /\ Len(u) = c /\ \A k \in 1..c : u[k] = Unit(medium, r.offset + k - 1)
  <2>1. ASSUME NEW k \in 1..c
        PROVE  Unit(medium, r.offset + k - 1) \in Units(medium)
    BY <1>1 DEF Units
  <2> QED
    BY <1>1, <2>1
<1>10. b * SECT \in Nat
  BY <1>1
<1>5. ASSUME NEW x \in (s + 1)..(s + c)
      PROVE  x \in 1..(n * SECT) /\ r.buf[x] = Unit(medium, b * SECT + x - 1) /\ r.buf[x] \in Units(medium)
  <2>1. x \in 1..(n * SECT)
    BY <1>1
  <2>2. b * SECT + x - 1 \in Nat
    BY <1>10, <2>1, <1>1
  <2> QED
    BY <1>2, <2>1, <2>2 DEF Units
<1>6. s + 1 \in Int /\ s + c \in Int /\ (s + c) - (s + 1) + 1 = c
      /\ (IF s + 1 <= s + c THEN (s + c) - (s + 1) + 1 ELSE 0) = c
  BY <1>1
<1>7. /\ t \in Seq(Units(medium)) /\ Len(t) = c
      /\ \A k \in 1..c : t[k] = r.buf[(s + 1) + k - 1]
  <2>1. /\ t \in Seq(Units(medium)) /\ Len(t) = (IF s + 1 <= s + c THEN (s + c) - (s + 1) + 1 ELSE 0)
        /\ \A k \in 1..((s + c) - (s + 1) + 1) : t[k] = r.buf[(s + 1) + k - 1]
    BY <1>5, <1>6, SubSeqProperties
  <2> QED
    BY <1>6, <2>1
<1>8. ASSUME NEW k \in 1..c
      PROVE  t[k] = u[k]
  <2>1. (s + 1) + k - 1 \in (s + 1)..(s + c)
    BY <1>1
  <2>2. b * SECT + ((s + 1) + k - 1) - 1 = r.offset + k - 1
    BY <1>1, <1>10
  <2>3. t[k] = Unit(medium, b * SECT + ((s + 1) + k - 1) - 1)
    BY <1>5, <1>7, <2>1
  <2> QED
    BY <1>3, <2>2, <2>3
<1> HIDE DEF t, u
<1>9. t = u
  BY <1>3, <1>7, <1>8, SeqEqual
<1> QED
  BY <1>4, <1>9 DEF u, c
-----------------------------------------------------------------------------
\* Only p's job changes, to j.
JobIs(p, j) ==
    /\ DOMAIN job' = Proc /\ job' = [q \in Proc |-> job'[q]]
    /\ job'[p] = j /\ \A q \in Proc \ {p} : job'[q] = job[q]

\* A job that is replaced, and one of which fields are.
LEMMA JobStep ==
    ASSUME DiskInv, NEW p \in Proc, NEW j, job' = [job EXCEPT ![p] = j]
    PROVE  JobIs(p, j)
BY DEF DiskInv, JobIs

\* Only p's request changes, to r.
ReqIs(p, r) ==
    /\ DOMAIN req' = Proc /\ req' = [q \in Proc |-> req'[q]]
    /\ req'[p] = r /\ \A q \in Proc \ {p} : req'[q] = req[q]

\* A request that is replaced.
LEMMA ReqStep ==
    ASSUME DiskInv, NEW p \in Proc, NEW r, req' = [req EXCEPT ![p] = r]
    PROVE  ReqIs(p, r)
BY DEF DiskInv, ReqIs

\* While p runs nobody else is inside of disk_read().
LEMMA Alone ==
    ASSUME DiskInv, ~PREEMPT, NEW p \in Proc, Runs(p), NEW q \in Proc \ {p}
    PROVE  job[q].pc = "idle" /\ req[q].pc = "idle"
BY DEF DiskInv, Underway, Runs

\* An idle request is in no place.
LEMMA IdlePlace ==
    ASSUME NEW r, r.pc = "idle", NEW b, NEW n
    PROVE  Place(r, b, n)
BY DEF Place

\* So the others are where they were, whatever p does to the controller.
LEMMA OthersStay ==
    ASSUME DiskInv, ~PREEMPT, NEW p \in Proc, Runs(p), NEW r, NEW j, ReqIs(p, r), JobIs(p, j),
           NEW q \in Proc \ {p}
    PROVE  Underway(q)'
<1>1. req'[q] = req[q] /\ job'[q] = job[q]
  BY DEF ReqIs, JobIs
<1>2. job[q].pc = "idle" /\ req[q].pc = "idle"
  BY Alone
<1>3. IsReq(req[q]) /\ IsJob(job[q])
  BY DEF DiskInv, Underway
<1>4. IsReq(req'[q]) /\ IsJob(job'[q]) /\ req'[q].pc = "idle"
  BY <1>1, <1>2, <1>3
<1>5. Place(req[q], First(req[q]), Number(req[q]))'
  BY <1>4 DEF Place
<1> QED
  BY <1>4, <1>5 DEF Underway, IsReq, IsJob

\* A step of p keeps the invariant if it does for p.
LEMMA InvStep ==
    ASSUME DiskInv, ~PREEMPT, NEW p \in Proc, Runs(p), NEW r, NEW j, ReqIs(p, r), JobIs(p, j),
           IsDrive(drive'), Underway(p)'
    PROVE  DiskInv'
<1>1. \A q \in Proc : Underway(q)'
  BY OthersStay
<1> QED
  BY <1>1 DEF DiskInv, ReqIs, JobIs, IsDrive

\* p calls disk_read(): no register is written yet.
LEMMA AskStep ==
    ASSUME DiskInv, ~PREEMPT, NEW p \in Proc, Runs(p), NEW o, NEW c, NEW j,
           Request(p, o, c), JobIs(p, j), IsJob(j), j.pc \notin {"idle", "start", "scan", "end"}
    PROVE  DiskInv'
<1> DEFINE r == disk_read(AsInt(o), AsInt(c))
<1>1. ReqIs(p, r) /\ drive' = drive
  BY ReqStep DEF Request
<1>2. IsReq(r) /\ r.pc = "count" /\ r.left = Number(r) /\ r.buf = <<>>
  BY DEF disk_read, IsReq, Number
<1> HIDE DEF r
<1>3. req'[p] = r /\ job'[p] = j
  BY <1>1 DEF ReqIs, JobIs
<1>4. Place(req[p], First(req[p]), Number(req[p]))'
  BY <1>2, <1>3 DEF Place, First, Number, Blocks, Quot
<1>5. IsReq(req[p])' /\ IsJob(job[p])'
  BY <1>2, <1>3 DEF IsReq, IsJob
<1>6. Underway(p)'
  BY <1>3, <1>4, <1>5 DEF Underway
<1>7. IsDrive(drive')
  BY <1>1 DEF DiskInv
<1> QED
  BY <1>1, <1>6, <1>7, InvStep

\* p is done with what disk_read() returned.
LEMMA DoneStep ==
    ASSUME DiskInv, ~PREEMPT, NEW p \in Proc, Runs(p), NEW j,
           NoRequest(p), JobIs(p, j), IsJob(j)
    PROVE  DiskInv'
<1>1. ReqIs(p, NoReq) /\ drive' = drive
  BY ReqStep DEF NoRequest
<1>2. IsReq(NoReq) /\ NoReq.pc = "idle"
  BY DEF NoReq, IsReq
<1>3. req'[p] = NoReq /\ job'[p] = j
  BY <1>1 DEF ReqIs, JobIs
<1>4. Place(req[p], First(req[p]), Number(req[p]))'
  BY <1>2, <1>3 DEF Place
<1>5. IsReq(req[p])' /\ IsJob(job[p])'
  BY <1>2, <1>3 DEF IsReq, IsJob
<1>6. Underway(p)'
  BY <1>2, <1>3, <1>4, <1>5 DEF Underway
<1>7. IsDrive(drive')
  BY <1>1 DEF DiskInv
<1> QED
  BY <1>1, <1>6, <1>7, InvStep

\* p goes on without the disk.
LEMMA SameStep ==
    ASSUME DiskInv, ~PREEMPT, NEW p \in Proc, Runs(p), NEW j, job[p].pc \in {"idle", "start", "scan", "end"},
           UNCHANGED <<medium, drive, req>>, JobIs(p, j), IsJob(j)
    PROVE  DiskInv'
<1>1. ReqIs(p, req[p]) /\ drive' = drive
  BY DEF ReqIs, DiskInv
<1>2. IsReq(req[p]) /\ req[p].pc = "idle"
  BY DEF DiskInv, Underway
<1>3. req'[p] = req[p] /\ job'[p] = j
  BY <1>1 DEF ReqIs, JobIs
<1>4. Place(req[p], First(req[p]), Number(req[p]))'
  BY <1>2, <1>3 DEF Place
<1>5. IsReq(req[p])' /\ IsJob(job[p])'
  BY <1>2, <1>3 DEF IsReq, IsJob
<1>6. Underway(p)'
  BY <1>2, <1>3, <1>4, <1>5 DEF Underway
<1>7. IsDrive(drive')
  BY <1>1 DEF DiskInv
<1> QED
  BY <1>1, <1>6, <1>7, InvStep
-----------------------------------------------------------------------------
\* The steps of disk_read()

\* A step of disk_read(): of p's request, the place, the buffer and the
\* sectors that are left may change.
LEMMA RequestStep ==
    ASSUME DiskInv, ~PREEMPT, NEW p \in Proc, Runs(p), req[p].pc # "idle", UNCHANGED job,
           NEW r, req' = [req EXCEPT ![p] = r], IsReq(r), IsDrive(drive'),
           Numbers(r) => Place(r, First(r), Number(r))'
    PROVE  DiskInv'
<1>1. ReqIs(p, r)
  BY ReqStep
<1>2. JobIs(p, job[p])
  BY DEF DiskInv, JobIs
<1>3. req'[p] = r /\ job'[p] = job[p]
  BY <1>1, <1>2 DEF ReqIs, JobIs
<1>4. IsJob(job[p]) /\ job[p].pc \notin {"idle", "start", "scan", "end"}
  BY DEF DiskInv, Underway
<1>5. IsReq(req[p])' /\ IsJob(job[p])'
  BY <1>3, <1>4 DEF IsReq, IsJob
<1>6. (Numbers(req[p]) => Place(req[p], First(req[p]), Number(req[p])))'
  BY <1>3 DEF Numbers, First, Number, Blocks, Quot
<1>7. Underway(p)'
  BY <1>3, <1>4, <1>5, <1>6 DEF Underway
<1> QED
  BY <1>1, <1>2, <1>7, InvStep

\* What is known of p's request.
LEMMA AtPlace ==
    ASSUME DiskInv, NEW p \in Proc
    PROVE  /\ IsReq(req[p]) /\ IsDrive(drive)
           /\ req = [q \in Proc |-> req[q]] /\ p \in DOMAIN req
           /\ Numbers(req[p]) => Place(req[p], First(req[p]), Number(req[p]))
BY DEF DiskInv, Underway

\* The sector count goes to its port.
LEMMA OutCountStep ==
    ASSUME DiskInv, ~PREEMPT, NEW p \in Proc, Runs(p), OutCount(p), UNCHANGED <<medium, job>>
    PROVE  DiskInv'
<1>0. PICK r : r = [req[p] EXCEPT !.pc = "lba"]
  OBVIOUS
<1>1. IsReq(req[p]) /\ IsDrive(drive) /\ req = [q \in Proc |-> req[q]]
  BY AtPlace
<1>2. req' = [req EXCEPT ![p] = r] /\ req[p].pc = "count"
  BY <1>0 DEF OutCount
<1>3. /\ IsReq(r) /\ r.pc = "lba" /\ r.offset = req[p].offset /\ r.count = req[p].count
      /\ r.buf = req[p].buf /\ r.left = req[p].left
  BY <1>0, <1>1 DEF IsReq
<1>4. /\ IsDrive(drive')
      /\ drive'.count = IF req[p].left % NSECT = 0 THEN NSECT ELSE req[p].left % NSECT
  BY <1>1 DEF IsDrive, OutCount
<1>5. ASSUME Numbers(r)
      PROVE  Place(r, First(r), Number(r))'
  <2>1. Numbers(req[p]) /\ First(req[p]) = First(r) /\ Number(req[p]) = Number(r)
    BY <1>3, <1>5 DEF Numbers, First, Number
  <2>2. r.left = Number(r) /\ r.buf = <<>>
    BY <1>2, <1>3, <2>1, AtPlace DEF Place
  <2>3. drive'.count = Number(r)
    <3> DEFINE n == Number(r)
    <3>1. n \in Nat /\ n >= 1 /\ NSECT \in Nat \ {0} /\ n <= NSECT
      BY <1>5, BlocksFacts
    <3> HIDE DEF n
    <3>2. (IF n % NSECT = 0 THEN NSECT ELSE n % NSECT) = n
      <4>1. CASE n = NSECT
        BY <3>1, <4>1
      <4>2. CASE n < NSECT
        BY <3>1, <4>2
      <4> QED
        BY <3>1, <4>1, <4>2
    <3> QED
      BY <1>3, <1>4, <2>2, <3>2 DEF n
  <2> QED
    BY <1>3, <2>2, <2>3 DEF Place, First, Number, Blocks, Quot
<1> QED
  BY <1>2, <1>3, <1>4, <1>5, RequestStep

\* The address goes to its ports.
LEMMA OutAddressStep ==
    ASSUME DiskInv, ~PREEMPT, NEW p \in Proc, Runs(p), OutAddress(p), UNCHANGED <<medium, job>>
    PROVE  DiskInv'
<1>0. PICK r : r = [req[p] EXCEPT !.pc = "command"]
  OBVIOUS
<1>1. IsReq(req[p]) /\ IsDrive(drive) /\ req = [q \in Proc |-> req[q]]
  BY AtPlace
<1>2. req' = [req EXCEPT ![p] = r] /\ req[p].pc = "lba"
  BY <1>0 DEF OutAddress
<1>3. /\ IsReq(r) /\ r.pc = "command" /\ r.offset = req[p].offset /\ r.count = req[p].count
      /\ r.buf = req[p].buf /\ r.left = req[p].left
  BY <1>0, <1>1 DEF IsReq
<1>4. IsDrive(drive') /\ drive'.count = drive.count /\ drive'.lba = First(req[p])
  BY <1>1 DEF IsDrive, OutAddress, First
<1>5. ASSUME Numbers(r)
      PROVE  Place(r, First(r), Number(r))'
  <2>1. Numbers(req[p]) /\ First(req[p]) = First(r) /\ Number(req[p]) = Number(r)
    BY <1>3, <1>5 DEF Numbers, First, Number
  <2>2. r.left = Number(r) /\ r.buf = <<>> /\ drive.count = Number(r)
    BY <1>2, <1>3, <2>1, AtPlace DEF Place
  <2> QED
    BY <1>3, <1>4, <2>1, <2>2 DEF Place, First, Number, Blocks, Quot
<1> QED
  BY <1>2, <1>3, <1>4, <1>5, RequestStep

\* The controller gets the command, and has the sectors.
LEMMA OutCommandStep ==
    ASSUME DiskInv, ~PREEMPT, NEW p \in Proc, Runs(p), OutCommand(p), UNCHANGED <<medium, job>>
    PROVE  DiskInv'
<1>0. PICK r : r = [req[p] EXCEPT !.pc = "wait"]
  OBVIOUS
<1>1. IsReq(req[p]) /\ IsDrive(drive) /\ req = [q \in Proc |-> req[q]]
  BY AtPlace
<1>2. req' = [req EXCEPT ![p] = r] /\ req[p].pc = "command"
  BY <1>0 DEF OutCommand
<1>3. /\ IsReq(r) /\ r.pc = "wait" /\ r.offset = req[p].offset /\ r.count = req[p].count
      /\ r.buf = req[p].buf /\ r.left = req[p].left
  BY <1>0, <1>1 DEF IsReq
<1>4. IsDrive(drive') /\ (~(drive.lba < 0) => drive'.data = Sectors(drive.lba, drive.count))
  BY <1>1 DEF IsDrive, OutCommand, Sectors
<1>5. ASSUME Numbers(r)
      PROVE  Place(r, First(r), Number(r))'
  <2>1. Numbers(req[p]) /\ First(req[p]) = First(r) /\ Number(req[p]) = Number(r)
    BY <1>3, <1>5 DEF Numbers, First, Number
  <2>2. r.left = Number(r) /\ r.buf = <<>> /\ drive.count = Number(r) /\ drive.lba = First(r)
    BY <1>2, <1>3, <2>1, AtPlace DEF Place
  <2>3. drive'.data = Sectors(First(r), Number(r))
    <3>1. ~(drive.lba < 0)
      BY <1>5, <2>2, BlocksFacts
    <3> QED
      BY <1>4, <2>2, <3>1
  <2> QED
    BY <1>3, <2>2, <2>3 DEF Place, First, Number, Blocks, Quot, Sectors
<1> QED
  BY <1>2, <1>3, <1>4, <1>5, RequestStep

\* Nothing of the range is read when the sectors are ready.
LEMMA NoBytes == ASSUME NEW b \in Nat PROVE Bytes(b, 0) = <<>>
<1>1. SECT \in Nat /\ 0 * SECT = 0
  BY DiskAssumption
<1>2. Bytes(b, 0) \in Seq(Units(medium)) /\ Len(Bytes(b, 0)) = 0
  BY <1>1, BytesFacts
<1> QED
  BY <1>2

\* The loop on the status port ends.
LEMMA WaitReadyStep ==
    ASSUME DiskInv, ~PREEMPT, NEW p \in Proc, Runs(p), WaitReady(p), UNCHANGED <<medium, job>>
    PROVE  DiskInv'
<1>0. PICK r : r = [req[p] EXCEPT !.pc = "in"]
  OBVIOUS
<1>1. IsReq(req[p]) /\ IsDrive(drive) /\ req = [q \in Proc |-> req[q]]
  BY AtPlace
<1>2. req' = [req EXCEPT ![p] = r] /\ req[p].pc = "wait"
  BY <1>0 DEF WaitReady
<1>3. /\ IsReq(r) /\ r.pc = "in" /\ r.offset = req[p].offset /\ r.count = req[p].count
      /\ r.buf = req[p].buf /\ r.left = req[p].left
  BY <1>0, <1>1 DEF IsReq
<1>4. IsDrive(drive') /\ drive'.data = drive.data
  BY <1>1 DEF WaitReady
<1>5. ASSUME Numbers(r)
      PROVE  Place(r, First(r), Number(r))'
  <2> DEFINE b == First(r)
             n == Number(r)
  <2>1. Numbers(req[p]) /\ First(req[p]) = First(r) /\ Number(req[p]) = Number(r)
    BY <1>3, <1>5 DEF Numbers, First, Number
  <2>2. r.left = n /\ r.buf = <<>> /\ drive.data = Sectors(b, n)
    BY <1>2, <1>3, <2>1, AtPlace DEF Place
  <2>3. b \in Nat /\ n \in Nat /\ n >= 1
    BY <1>5, BlocksFacts
  <2> HIDE DEF b, n
  <2>4. /\ r.left \in 1..n /\ n - r.left = 0 /\ b + (n - r.left) = b
    BY <2>2, <2>3
  <2>5. r.buf = Bytes(b, n - r.left) /\ drive'.data = Sectors(b + (n - r.left), r.left)
    BY <1>4, <2>2, <2>3, <2>4, NoBytes
  <2>6. Bytes(b, n - r.left)' = Bytes(b, n - r.left) /\ First(r)' = b /\ Number(r)' = n
    BY DEF Bytes, b, n, First, Number, Blocks, Quot
  <2> QED
    BY <1>3, <2>4, <2>5, <2>6 DEF Place, b, n, Sectors
<1> QED
  BY <1>2, <1>3, <1>4, <1>5, RequestStep

\* A sector is taken from the port.
LEMMA InSectorStep ==
    ASSUME DiskInv, ~PREEMPT, NEW p \in Proc, Runs(p), InSector(p), UNCHANGED <<medium, job>>
    PROVE  DiskInv'
<1>0. PICK r : r = [req[p] EXCEPT !.buf = req[p].buf \o Port, !.left = req[p].left - 1,
                                  !.pc = IF req[p].left = 1 THEN "done" ELSE "in"]
  OBVIOUS
<1>1. IsReq(req[p]) /\ IsDrive(drive) /\ req = [q \in Proc |-> req[q]] /\ p \in DOMAIN req
  BY AtPlace
<1>2. req' = [req EXCEPT ![p] = r] /\ req[p].pc = "in"
  BY <1>0, <1>1 DEF InSector
<1>3. /\ IsReq(r) /\ r.pc = (IF req[p].left = 1 THEN "done" ELSE "in")
      /\ r.offset = req[p].offset /\ r.count = req[p].count
      /\ r.buf = req[p].buf \o Port /\ r.left = req[p].left - 1
  BY <1>0, <1>1 DEF IsReq
<1>4. IsDrive(drive') /\ drive'.data = IF drive.data = <<>> THEN drive.data ELSE Tail(drive.data)
  BY <1>1 DEF InSector, IsDrive
<1>5. ASSUME Numbers(r)
      PROVE  Place(r, First(r), Number(r))'
  <2> DEFINE b == First(r)
             n == Number(r)
             l == req[p].left
             m == n - l
  <2>1. Numbers(req[p]) /\ First(req[p]) = b /\ Number(req[p]) = n
    BY <1>3, <1>5 DEF Numbers, First, Number
  <2>2. l \in 1..n /\ drive.data = Sectors(b + m, l) /\ req[p].buf = Bytes(b, m)
    BY <1>2, <2>1, AtPlace DEF Place
  <2>3. b \in Nat /\ n \in Nat
    BY <1>5, BlocksFacts
  <2>4. r.left = l - 1 /\ r.buf = req[p].buf \o Port /\ r.pc = IF l = 1 THEN "done" ELSE "in"
    BY <1>3
  <2>5. First(r)' = b /\ Number(r)' = n
    BY DEF First, Number, Blocks, Quot
  <2>6. \A x, y : Bytes(x, y)' = Bytes(x, y)
    BY DEF Bytes
  <2> HIDE DEF b, n, l
  <2>7. l \in Nat /\ l >= 1 /\ m \in Nat /\ b + m \in Nat
    BY <2>2, <2>3
  <2>8. /\ drive.data # <<>> /\ Head(drive.data) = b + m
        /\ Tail(drive.data) = Sectors(b + m + 1, l - 1)
    BY <2>2, <2>7, SectorsFacts
  <2>9. Port = Sector(b + m) /\ drive'.data = Sectors(b + m + 1, l - 1)
    BY <1>4, <2>8 DEF Port
  <2>10. r.buf = Bytes(b, m + 1)
    BY <2>2, <2>3, <2>4, <2>7, <2>9, NextSector
  <2>11. CASE l = 1
    <3>1. m + 1 = n
      BY <2>2, <2>3, <2>11
    <3>2. r.buf = Bytes(b, n) /\ r.pc = "done"
      BY <2>4, <2>10, <2>11, <3>1
    <3> QED
      BY <2>5, <2>6, <3>2 DEF Place
  <2>12. CASE l # 1
    <3>1. r.left \in 1..n /\ m + 1 = n - r.left /\ b + m + 1 = b + (n - r.left)
      BY <2>2, <2>3, <2>4, <2>12
    <3>2. /\ r.buf = Bytes(b, n - r.left) /\ r.pc = "in"
          /\ drive'.data = Sectors(b + (n - r.left), r.left)
      BY <2>4, <2>9, <2>10, <2>12, <3>1
    <3>3. \A x, y : Sectors(x, y)' = Sectors(x, y)
      BY DEF Sectors
    <3> QED
      BY <2>5, <2>6, <3>1, <3>2, <3>3 DEF Place
  <2> QED
    BY <2>11, <2>12
<1> QED
  BY <1>2, <1>3, <1>4, <1>5, RequestStep

-----------------------------------------------------------------------------
\* The ext2 reader

\* Nothing is asked for yet.
LEMMA Init_DiskInv == Init => DiskInv
<1> SUFFICES ASSUME Init PROVE DiskInv
  OBVIOUS
<1>1. IsDrive(drive) /\ req = [p \in Proc |-> NoReq]
  BY DEF Init, DiskInit, IsDrive
<1>2. IsReq(NoReq) /\ NoReq.pc = "idle"
  BY DEF IsReq, NoReq
<1>3. job = [p \in Proc |-> IF p = BOOT THEN [NoJob EXCEPT !.pc = "start"] ELSE NoJob]
  BY DEF Init
<1>4. IsJob(NoJob) /\ IsJob([NoJob EXCEPT !.pc = "start"])
  BY DEF IsJob, NoJob
<1>5. ASSUME NEW p \in Proc
      PROVE  Underway(p)
  <2>1. req[p] = NoReq /\ IsJob(job[p])
    BY <1>1, <1>3, <1>4
  <2> QED
    BY <1>2, <2>1 DEF Underway, Place
<1> QED
  BY <1>1, <1>3, <1>5 DEF DiskInv

\* A step inside of disk_read().
LEMMA InDiskStep ==
    ASSUME DiskInv, ~PREEMPT, NEW p \in Proc, Runs(p), DiskStep(p), UNCHANGED <<hd, job>>
    PROVE  DiskInv'
BY OutCountStep, OutAddressStep, OutCommandStep, WaitReadyStep, InSectorStep DEF DiskStep

\* The steps that call disk_read().
LEMMA AskSteps ==
    ASSUME DiskInv, ~PREEMPT, NEW p \in Proc,
           \/ ReadPartition(p) \/ ext2_read_sb(p) \/ ext2_read_gd(p) \/ ReadBlock(p)
           \/ \E i \in Inums(medium) : ext2_read_inode(p, i)
    PROVE  DiskInv'
<1>0. IsJob(job[p]) /\ job = [q \in Proc |-> job[q]] /\ p \in DOMAIN job
  BY DEF DiskInv, Underway
<1>1. CASE ReadPartition(p)
  <2> DEFINE j == [job[p] EXCEPT !.pc = "part"]
  <2>1. job' = [job EXCEPT ![p] = j] /\ IsJob(j) /\ j.pc = "part"
    BY <1>0, <1>1 DEF ReadPartition, IsJob
  <2>2. Runs(p) /\ Request(p, PARTOFF, PARTSIZE)
    BY <1>1 DEF ReadPartition
  <2> HIDE DEF j
  <2> QED
    BY <2>1, <2>2, JobStep, AskStep
<1>2. CASE ext2_read_sb(p)
  <2> DEFINE j == [job[p] EXCEPT !.pc = "sb"]
  <2>1. job' = [job EXCEPT ![p] = j] /\ IsJob(j) /\ j.pc = "sb"
    BY <1>0, <1>2 DEF ext2_read_sb, IsJob
  <2>2. Runs(p) /\ Request(p, Result(req[p])[1].lba * SECT + KB, SBSIZE)
    BY <1>2 DEF ext2_read_sb, Got
  <2> HIDE DEF j
  <2> QED
    BY <2>1, <2>2, JobStep, AskStep
<1>3. CASE ext2_read_gd(p)
  <2> DEFINE j == [job[p] EXCEPT !.pc = "gd"]
  <2>1. job' = [job EXCEPT ![p] = j] /\ IsJob(j) /\ j.pc = "gd"
    BY <1>0, <1>3 DEF ext2_read_gd, IsJob
  <2>2. Runs(p) /\ \E o, c : Request(p, o, c)
    BY <1>3 DEF ext2_read_gd, Got
  <2> HIDE DEF j
  <2> QED
    BY <2>1, <2>2, JobStep, AskStep
<1>4. CASE ReadBlock(p)
  <2> DEFINE pc == IF Len(job[p].tab) = Depth(job[p].lvl) THEN "data" ELSE "table"
             j == [job[p] EXCEPT !.pc = pc]
  <2>1. job' = [job EXCEPT ![p] = j] /\ IsJob(j) /\ j.pc \in {"data", "table"}
    BY <1>0, <1>4 DEF ReadBlock, IsJob
  <2>2. Runs(p) /\ \E o, c : Request(p, o, c)
    BY <1>4 DEF ReadBlock
  <2> HIDE DEF j
  <2> QED
    BY <2>1, <2>2, JobStep, AskStep
<1>5. ASSUME NEW i \in Inums(medium), ext2_read_inode(p, i)
      PROVE  DiskInv'
  <2> DEFINE j == [NoJob EXCEPT !.pc = "inode", !.inum = i]
  <2>1. job' = [job EXCEPT ![p] = j] /\ IsJob(j) /\ j.pc = "inode"
    BY <1>0, <1>5 DEF ext2_read_inode, IsJob, NoJob
  <2>2. Runs(p) /\ \E o, c : Request(p, o, c)
    BY <1>5 DEF ext2_read_inode
  <2> HIDE DEF j
  <2> QED
    BY <2>1, <2>2, JobStep, AskStep
<1> QED
  BY <1>1, <1>2, <1>3, <1>4, <1>5

\* A level that begins is scanned, or the file is at its end.
LEMMA LevelFacts ==
    ASSUME NEW j, IsJob(j), NEW l
    PROVE  IsJob(Level(j, l))
BY DEF IsJob, Level

\* The steps that use what disk_read() returned.
LEMMA DoneSteps ==
    ASSUME DiskInv, ~PREEMPT, NEW p \in Proc,
           MountEnd(p) \/ ReadFile(p) \/ GetTable(p) \/ GetData(p)
    PROVE  DiskInv'
<1>0. IsJob(job[p]) /\ job = [q \in Proc |-> job[q]] /\ p \in DOMAIN job
  BY DEF DiskInv, Underway
<1>1. Runs(p) /\ NoRequest(p)
  BY DEF MountEnd, ReadFile, GetTable, GetData, Got
<1>2. ASSUME NEW j, job' = [job EXCEPT ![p] = j], IsJob(j)
      PROVE  DiskInv'
  BY <1>1, <1>2, JobStep, DoneStep
<1>3. CASE MountEnd(p)
  <2>1. job' = [job EXCEPT ![p] = NoJob] /\ IsJob(NoJob)
    BY <1>3 DEF MountEnd, IsJob, NoJob
  <2> QED
    BY <1>2, <2>1
<1>4. CASE ReadFile(p)
  <2> DEFINE node == Result(req[p])[1]
             k == [job[p] EXCEPT !.inode = node, !.size = node.size]
  <2>1. job' = [job EXCEPT ![p] = Level(k, 0)]
    BY <1>0, <1>4 DEF ReadFile
  <2>2. IsJob(k)
    BY <1>0 DEF IsJob
  <2>3. IsJob(Level(k, 0))
    BY <2>2, LevelFacts
  <2> QED
    BY <1>2, <2>1, <2>3
<1>5. CASE GetTable(p)
  <2> DEFINE r == Result(req[p])
             numbers == [k \in 1..Width(job[p].lvl) |-> r[(k - 1) * PTRSIZE + 1].ptr]
             j == [job[p] EXCEPT !.tab = Append(@, numbers), !.ix = Append(@, 1), !.pc = "scan"]
  <2>1. job' = [job EXCEPT ![p] = j]
    BY <1>0, <1>5 DEF GetTable
  <2>2. IsJob(j)
    BY <1>0 DEF IsJob
  <2> QED
    BY <1>2, <2>1, <2>2
<1>6. CASE GetData(p)
  <2> DEFINE n == Copied(job[p])
             j == [job[p] EXCEPT !.mmap = @ \o SubSeq(Result(req[p]), 1, n), !.size = @ - n,
                                 !.ix = Advanced(@), !.pc = "scan"]
  <2>1. job' = [job EXCEPT ![p] = j]
    BY <1>0, <1>6 DEF GetData
  <2>2. IsJob(j)
    BY <1>0 DEF IsJob
  <2> QED
    BY <1>2, <2>1, <2>2
<1> QED
  BY <1>3, <1>4, <1>5, <1>6

\* The steps that do not look at the disk.
LEMMA SameSteps ==
    ASSUME DiskInv, ~PREEMPT, NEW p \in Proc, LoopEnd(p) \/ ReadEnd(p)
    PROVE  DiskInv'
<1>0. IsJob(job[p]) /\ job = [q \in Proc |-> job[q]] /\ p \in DOMAIN job
  BY DEF DiskInv, Underway
<1>1. Runs(p) /\ UNCHANGED <<medium, drive, req>> /\ job[p].pc \in {"idle", "start", "scan", "end"}
  BY DEF LoopEnd, ReadEnd
<1>2. ASSUME NEW j, job' = [job EXCEPT ![p] = j], IsJob(j)
      PROVE  DiskInv'
  <2>1. JobIs(p, j)
    BY <1>2, JobStep
  <2> QED
    BY <1>1, <1>2, <2>1, SameStep
<1>3. CASE LoopEnd(p)
  <2> DEFINE d == Len(job[p].tab)
             k == [job[p] EXCEPT !.tab = SubSeq(job[p].tab, 1, d - 1),
                                 !.ix = [SubSeq(job[p].ix, 1, d - 1) EXCEPT ![d - 1] = @ + 1]]
             j == IF d <= 1 THEN Level(job[p], job[p].lvl + 1) ELSE k
  <2>1. job' = [job EXCEPT ![p] = j]
    BY <1>3 DEF LoopEnd
  <2>2. IsJob(Level(job[p], job[p].lvl + 1)) /\ IsJob(k)
    BY <1>0, LevelFacts DEF IsJob
  <2> HIDE DEF k
  <2>3. IsJob(j)
    BY <2>2
  <2> QED
    BY <1>2, <2>1, <2>3
<1>4. CASE ReadEnd(p)
  <2>1. job' = [job EXCEPT ![p] = NoJob] /\ IsJob(NoJob)
    BY <1>4 DEF ReadEnd, IsJob, NoJob
  <2> QED
    BY <1>2, <2>1
<1> QED
  BY <1>3, <1>4

\* Nothing happens.
LEMMA Stutter_DiskInv == DiskInv /\ UNCHANGED vars => DiskInv'
<1> SUFFICES ASSUME DiskInv, UNCHANGED vars PROVE DiskInv'
  OBVIOUS
<1>1. medium' = medium /\ drive' = drive /\ req' = req /\ job' = job
  BY DEF vars
<1>2. \A p \in Proc : Underway(p)'
  <2> SUFFICES ASSUME NEW p \in Proc PROVE Underway(p)'
    OBVIOUS
  <2>1. Underway(p)
    BY DEF DiskInv
  <2>2. Numbers(req[p])' <=> Numbers(req[p])
    BY <1>1 DEF Numbers, Fits, Blocks, Quot
  <2>3. First(req[p])' = First(req[p]) /\ Number(req[p])' = Number(req[p])
    BY <1>1 DEF First, Number, Blocks, Quot
  <2>4. Place(req[p], First(req[p]), Number(req[p]))' <=> Place(req[p], First(req[p]), Number(req[p]))
    BY <1>1, <2>3 DEF Place, Sectors, Bytes
  <2> QED
    BY <1>1, <2>1, <2>2, <2>4 DEF Underway, IsReq, IsJob
<1> QED
  BY <1>1, <1>2 DEF DiskInv, IsDrive

\* Every step keeps the place of the request.
LEMMA Next_DiskInv ==
    ASSUME ~PREEMPT, DiskInv, [Next]_vars
    PROVE  DiskInv'
<1>1. CASE Next
  <2>1. PICK p \in Proc : Step(p) \/ \E i \in Inums(medium) : ext2_read_inode(p, i)
    BY <1>1 DEF Next
  <2>2. CASE Runs(p) /\ DiskStep(p) /\ UNCHANGED <<hd, job>>
    BY <2>2, InDiskStep
  <2>3. CASE \/ ReadPartition(p) \/ ext2_read_sb(p) \/ ext2_read_gd(p) \/ ReadBlock(p)
             \/ \E i \in Inums(medium) : ext2_read_inode(p, i)
    BY <2>3, AskSteps
  <2>4. CASE MountEnd(p) \/ ReadFile(p) \/ GetTable(p) \/ GetData(p)
    BY <2>4, DoneSteps
  <2>5. CASE LoopEnd(p) \/ ReadEnd(p)
    BY <2>5, SameSteps
  <2> QED
    BY <2>1, <2>2, <2>3, <2>4, <2>5 DEF Step
<1>2. CASE UNCHANGED vars
  BY <1>2, Stutter_DiskInv
<1> QED
  BY <1>1, <1>2

\* Every request is for a range of addresses.
NumbersAll == \A p \in Proc : Numbers(req[p])

\* Requests that are where they should be return what lies there.
LEMMA DiskInv_ReadExact == DiskInv /\ NumbersAll => ReadExact
<1> SUFFICES ASSUME DiskInv, NumbersAll, NEW p \in Proc, req[p].pc = "done"
             PROVE  Result(req[p]) = [k \in 1..req[p].count |-> Unit(medium, req[p].offset + k - 1)]
  BY DEF ReadExact
<1>1. Numbers(req[p]) /\ Place(req[p], First(req[p]), Number(req[p]))
  BY AtPlace DEF NumbersAll
<1>2. req[p].buf = Bytes(First(req[p]), Number(req[p]))
  BY <1>1 DEF Place
<1> QED
  BY <1>1, <1>2, ResultRight

\* disk_read(): the wait for the controller ends, and every sector that is
\* taken from the port is there (disk.c, bl_common() and disk_read()).
SectorsThere == \A p \in Proc : req[p].pc \in {"wait", "in"} => drive.data # <<>>

\* A request that waits or reads has a sector left.
LEMMA DiskInv_SectorsThere == DiskInv /\ NumbersAll => SectorsThere
<1> SUFFICES ASSUME DiskInv, NumbersAll, NEW p \in Proc, req[p].pc \in {"wait", "in"}
             PROVE  drive.data # <<>>
  BY DEF SectorsThere
<1> DEFINE b == First(req[p])
           n == Number(req[p])
           l == req[p].left
<1>1. Numbers(req[p]) /\ Place(req[p], b, n)
  BY AtPlace DEF NumbersAll
<1>2. b \in Nat /\ n \in Nat /\ n >= 1
  BY <1>1, BlocksFacts
<1>3. CASE req[p].pc = "wait"
  <2>1. drive.data = Sectors(b, n)
    BY <1>1, <1>3 DEF Place
  <2> HIDE DEF b, n
  <2> QED
    BY <1>2, <2>1, SectorsFacts
<1>4. CASE req[p].pc = "in"
  <2>1. l \in 1..n /\ drive.data = Sectors(b + (n - l), l)
    BY <1>1, <1>4 DEF Place
  <2> HIDE DEF b, n, l
  <2>2. l \in Nat /\ l >= 1 /\ b + (n - l) \in Nat
    BY <1>2, <2>1
  <2> QED
    BY <2>1, <2>2, SectorsFacts
<1> QED
  BY <1>3, <1>4
-----------------------------------------------------------------------------
\* What ext2_get_disk_info() has to find on disk d.
Info(d) ==
    LET s == SuperBlock(d)
    IN  [lba |-> Lba(d), blocksize |-> BlockSize(d), groups |-> Groups(s), ipg |-> s.ipg,
         isize |-> s.isize, gd |-> [g \in 1..Groups(s) |-> GroupTable(d, g)]]

\* The addresses of the requests: inode i, block b.
InodeAt(d, i) ==
    LET s == SuperBlock(d)
    IN  Lba(d) * SECT + (GroupTable(d, ((i - 1) \div s.ipg) + 1) * BlockSize(d) + ((i - 1) % s.ipg) * s.isize)
BlockAt(d, b) == Lba(d) * SECT + b * BlockSize(d)

\* BlockOf() and Pointer() of a disk that is mounted.
BlockIn(d, node, n) ==
    LET w == PerBlock(d)
        At(t, k) == Unit(d, BlockAt(d, t) + k * PTRSIZE).ptr
        ind == n - NDIRECT
        bi == ind - w
        tri == bi - w * w
    IN  IF ind < 0 THEN node.block[n + 1]
        ELSE IF bi < 0 THEN At(node.block[NDIRECT + 1], ind)
        ELSE IF tri < 0 THEN At(At(node.block[NDIRECT + 2], bi \div w), bi % w)
        ELSE At(At(At(node.block[NDIRECT + 3], tri \div (w * w)), (tri \div w) % w), tri % w)

Wide(d, l) == IF l = 0 THEN NDIRECT ELSE PerBlock(d)

PointerIn(d, j) ==
    LET n == Len(j.tab)
    IN  IF n = 0 THEN j.inode.block[NDIRECT + j.lvl]
        ELSE IF j.ix[n] <= Wide(d, j.lvl) THEN j.tab[n][j.ix[n]] ELSE 0

\* The blocks under one entry when l tables are below it, and the number of the
\* first block of level l.
Span(d, l) == IF l <= 0 THEN 1 ELSE IF l = 1 THEN PerBlock(d) ELSE PerBlock(d) * PerBlock(d)
Start(d, l) ==
    LET w == PerBlock(d)
    IN  IF l = 0 THEN 0 ELSE IF l = 1 THEN NDIRECT ELSE IF l = 2 THEN NDIRECT + w
        ELSE IF l = 3 THEN NDIRECT + w + w * w ELSE NDIRECT + w + w * w + w * w * w

\* The number of the block the loops are at.
Term(d, j, k) == IF k <= Len(j.ix) THEN (j.ix[k] - 1) * Span(d, j.lvl - k) ELSE 0
BlockNumber(d, j) == Start(d, j.lvl) + Term(d, j, 1) + Term(d, j, 2) + Term(d, j, 3)

IsJobRec(j) ==
    j = [pc |-> j.pc, inum |-> j.inum, inode |-> j.inode, lvl |-> j.lvl, ix |-> j.ix, tab |-> j.tab,
         size |-> j.size, mmap |-> j.mmap]

\* The nested loops: every table is the one its predecessor names.
Loops(d, j) ==
    LET w == Wide(d, j.lvl)
        n == Len(j.tab)
    IN  /\ j.lvl \in 0..3
        /\ j.tab \in Seq([1..w -> BlockNumbers(d)]) /\ j.ix \in Seq(Nat) /\ Len(j.ix) = n /\ n <= Depth(j.lvl)
        /\ \A k \in 1..n : j.ix[k] \in 1..(IF k = n THEN w + 1 ELSE w)
        /\ j.lvl = 0 => n = 1 /\ \A k \in 1..NDIRECT : j.tab[1][k] = j.inode.block[k]
        /\ j.lvl > 0 /\ n > 0 =>
              j.inode.block[NDIRECT + j.lvl] # 0 /\ j.tab[1] = Entries(d, j.inode.block[NDIRECT + j.lvl])
        /\ \A k \in 1..(n - 1) :
              j.tab[k][j.ix[k]] # 0 /\ j.tab[k + 1] = Entries(d, j.tab[k][j.ix[k]])

\* The copy: what is in the buffer is the beginning of the file, and as long as
\* something is missing it ends where the loops are.
Begun(d, j) ==
    \A x \in 0..(Len(j.mmap) - 1) :
        j.mmap[x + 1] =
            Unit(d, BlockAt(d, BlockIn(d, j.inode, x \div BlockSize(d))) + (x % BlockSize(d)))

Copy(d, j) ==
    /\ j.mmap \in Seq(Units(d)) /\ j.size \in Nat /\ Len(j.mmap) + j.size = j.inode.size
    /\ Begun(d, j)
    /\ j.size > 0 => j.pc # "end" /\ Len(j.mmap) = BlockNumber(d, j) * BlockSize(d)

\* A process between two steps of its call: its job j, what it asked the disk d
\* for, and struct disk h.
JobOk(j, o, c, d, h) ==
    /\ IsJobRec(j)
    /\ j.pc \in {"idle", "start", "part", "sb", "gd", "inode", "scan", "table", "data", "end"}
    /\ j.pc \in {"idle", "start", "scan", "end"} => o = 0 /\ c = 0
    /\ j.pc \in {"idle", "start", "part", "sb", "gd", "inode"} => j.inode = NoInode /\ j.mmap = <<>>
    /\ j.pc = "part" => o = PARTOFF /\ c = PARTSIZE
    /\ j.pc = "sb" => h.lba = Lba(d) /\ o = Lba(d) * SECT + KB /\ c = SBSIZE
    /\ j.pc = "gd" => /\ h = [Info(d) EXCEPT !.gd = h.gd]
                      /\ o = Descriptors(d) /\ c = Groups(SuperBlock(d)) * GDSIZE
    /\ j.pc \in {"inode", "scan", "table", "data", "end"} => h = Info(d) /\ j.inum \in Inums(d)
    /\ j.pc = "inode" => o = InodeAt(d, j.inum) /\ c = SuperBlock(d).isize
    /\ j.pc \in {"scan", "table", "data", "end"} => j.inode = Inode(d, j.inum) /\ Copy(d, j)
    /\ j.pc \in {"scan", "table", "data"} => Loops(d, j)
    /\ j.pc \in {"table", "data"} =>
          /\ PointerIn(d, j) \in BlockNumbers(d) \ {0}
          /\ o = BlockAt(d, PointerIn(d, j)) /\ c = BlockSize(d)
          /\ j.pc = "data" <=> Len(j.tab) = Depth(j.lvl)

JobInv(p) == JobOk(job[p], req[p].offset, req[p].count, medium, hd)

IsHd(h) ==
    h = [lba |-> h.lba, blocksize |-> h.blocksize, groups |-> h.groups, ipg |-> h.ipg,
         isize |-> h.isize, gd |-> h.gd]

FileInv ==
    /\ medium \in Disks
    /\ IsHd(hd) /\ (hd.gd # <<>> => hd = Info(medium))
    /\ \A p \in Proc : JobInv(p)

-----------------------------------------------------------------------------
\* The numbers of the format.
LEMMA FormatFacts ==
    ASSUME NEW d \in Disks
    PROVE  LET s == SuperBlock(d)
           IN  /\ Lba(d) \in Nat /\ s.blocks \in Nat /\ s.inodes \in Nat
               /\ s.bpg \in Nat \ {0} /\ s.ipg \in Nat \ {0} /\ s.isize \in Nat \ {0}
               /\ BlockSize(d) \in Nat \ {0} /\ PerBlock(d) \in Nat \ {0}
               /\ Lba(d) * SECT \in Nat
<1>1. Formatted(d)
  BY FormatAssumption
<1>2. SECT \in Nat
  BY DiskAssumption
<1> QED
  BY <1>1, <1>2 DEF Formatted

\* A number below the limit is the same as an int.
LEMMA AsIntSame ==
    ASSUME NEW x \in Nat, x < INT
    PROVE  AsInt(x) = x
<1>1. INT \in Nat \ {0}
  BY DiskAssumption
<1>2. (x + INT) % (2 * INT) = x + INT
  BY <1>1
<1> QED
  BY <1>1, <1>2 DEF AsInt

\* The numbers of blocks are numbers, and a block can be read.
LEMMA BlockNumbersFacts ==
    ASSUME NEW d, NEW t \in BlockNumbers(d)
    PROVE  t \in Nat /\ (t # 0 => Fits(BlockAt(d, t), BlockSize(d)))
BY DEF BlockNumbers, BlockAt

\* Nothing fits always.
LEMMA NothingFits == Fits(0, 0)
<1>1. SECT \in Nat \ {0} /\ NSECT \in Nat \ {0} /\ INT \in Nat \ {0}
  BY DiskAssumption
<1>2. Quot(0) = 0
  BY <1>1 DEF Quot
<1> QED
  BY <1>1, <1>2 DEF Fits, Blocks

\* The number of groups is the same in 16 bits, and enough for the inodes.
LEMMA GroupsFacts ==
    ASSUME NEW d \in Disks
    PROVE  LET s == SuperBlock(d)
               G == Groups(s)
           IN  G \in Nat /\ G % GROUPS = G /\ RoundedUp(s.inodes, s.ipg) <= G
<1> DEFINE s == SuperBlock(d)
           a == RoundedUp(s.blocks, s.bpg)
           b == RoundedUp(s.inodes, s.ipg)
<1>1. {a, b} \subseteq 0..(GROUPS - 1)
  BY FormatAssumption DEF Formatted
<1>2. GROUPS \in Nat \ {0} /\ INT \in Nat \ {0} /\ GROUPS <= INT
  BY DiskAssumption, Ext2Assumption
<1>3. Groups(s) = IF AsInt(a) > AsInt(b) THEN AsInt(a) ELSE AsInt(b)
  BY DEF Groups
<1> HIDE DEF a, b
<1>4. a \in Nat /\ a < GROUPS /\ a < INT /\ b \in Nat /\ b < GROUPS /\ b < INT
  BY <1>1, <1>2
<1>5. AsInt(a) = a /\ AsInt(b) = b
  BY <1>4, AsIntSame
<1> DEFINE G == Groups(s)
<1>6. G \in Nat /\ G < GROUPS /\ b <= G
  BY <1>3, <1>4, <1>5
<1> HIDE DEF G
<1>7. G % GROUPS = G
  BY <1>2, <1>6
<1> QED
  BY <1>6, <1>7 DEF G, b

\* Rounding up leaves nothing over.
LEMMA RoundedFacts ==
    ASSUME NEW n \in Nat, NEW per \in Nat \ {0}
    PROVE  /\ RoundedUp(n, per) \in Nat
           /\ \A x \in Nat : x < n => x \div per < RoundedUp(n, per)
<1> DEFINE q == n \div per
           r == n % per
<1>1. q \in Nat /\ r \in 0..(per - 1) /\ n = per * q + r
  BY DivFacts
<1>2. RoundedUp(n, per) = q + (IF r # 0 THEN 1 ELSE 0)
  BY DEF RoundedUp
<1> HIDE DEF q, r
<1>3. ASSUME NEW x \in Nat, x < n
      PROVE  x \div per < RoundedUp(n, per)
  <2> DEFINE a == x \div per
             b == x % per
  <2>1. a \in Nat /\ b \in 0..(per - 1) /\ x = per * a + b
    BY DivFacts
  <2> HIDE DEF a, b
  <2>2. a <= q
    <3>1. CASE a >= q + 1
      <4>1. per * a >= per * (q + 1)
        BY <1>1, <2>1, <3>1
      <4>2. per * (q + 1) = per * q + per
        BY <1>1
      <4> QED
        BY <1>1, <1>3, <2>1, <4>1, <4>2
    <3> QED
      BY <1>1, <2>1, <3>1
  <2>3. CASE r # 0
    BY <1>1, <1>2, <2>1, <2>2, <2>3 DEF a
  <2>4. CASE r = 0
    <3>1. a # q
      BY <1>1, <1>3, <2>1, <2>4
    <3> QED
      BY <1>1, <1>2, <2>1, <2>2, <2>4, <3>1 DEF a
  <2> QED
    BY <2>3, <2>4
<1>4. RoundedUp(n, per) \in Nat
  BY <1>1, <1>2
<1> QED
  BY <1>3, <1>4

\* There is a group for every inode, and the inode is where InodeAt() says.
LEMMA InodeFacts ==
    ASSUME NEW d \in Disks
    PROVE  /\ Groups(SuperBlock(d)) \in Nat
           /\ \A i \in Inums(d) :
                 /\ ((i - 1) \div SuperBlock(d).ipg) + 1 \in 1..Groups(SuperBlock(d))
                 /\ InodeAt(d, i) \in Nat /\ Unit(d, InodeAt(d, i)) = Inode(d, i)
                 /\ Fits(InodeAt(d, i), SuperBlock(d).isize)
<1> DEFINE s == SuperBlock(d)
           G == Groups(s)
           per == s.ipg
           L == Lba(d) * SECT
<1>1. /\ s.blocks \in Nat /\ s.inodes \in Nat /\ s.bpg \in Nat \ {0} /\ per \in Nat \ {0}
      /\ s.isize \in Nat \ {0} /\ BlockSize(d) \in Nat \ {0} /\ L \in Nat
  BY FormatFacts
<1>2. RoundedUp(s.blocks, s.bpg) \in Nat /\ RoundedUp(s.inodes, per) \in Nat
  BY <1>1, RoundedFacts
<1>3. G \in Nat /\ G >= RoundedUp(s.inodes, per)
  BY <1>2, GroupsFacts
<1>4. Formatted(d)
  BY FormatAssumption
<1>5. /\ Inums(d) \subseteq 1..s.inodes
      /\ \A g \in 1..G : GroupTable(d, g) \in Nat
      /\ \A g \in 1..G, k \in 1..per :
              (g - 1) * per + k \in Inums(d) =>
                  /\ Inode(d, (g - 1) * per + k) =
                        Unit(d, L + GroupTable(d, g) * BlockSize(d) + (k - 1) * s.isize)
                  /\ Fits(L + GroupTable(d, g) * BlockSize(d) + (k - 1) * s.isize, s.isize)
  BY <1>4 DEF Formatted
<1>6. ASSUME NEW i \in Inums(d)
      PROVE  /\ ((i - 1) \div per) + 1 \in 1..G
             /\ InodeAt(d, i) \in Nat /\ Unit(d, InodeAt(d, i)) = Inode(d, i)
             /\ Fits(InodeAt(d, i), s.isize)
  <2> DEFINE a == (i - 1) \div per
             b == (i - 1) % per
             T == GroupTable(d, a + 1)
  <2>0. i \in 1..s.inodes
    BY <1>5
  <2>1. i - 1 \in Nat /\ i - 1 < s.inodes
    BY <1>1, <2>0
  <2>2. a \in Nat /\ b \in 0..(per - 1) /\ i - 1 = per * a + b
    BY <1>1, <2>1, DivFacts
  <2>3. a < RoundedUp(s.inodes, per)
    BY <1>1, <2>1, RoundedFacts
  <2>4. InodeAt(d, i) = L + (T * BlockSize(d) + b * s.isize)
    BY DEF InodeAt
  <2>11. a + 1 = ((i - 1) \div per) + 1
    OBVIOUS
  <2> HIDE DEF a, b
  <2>5. a + 1 \in 1..G
    BY <1>2, <1>3, <2>2, <2>3
  <2>6. b + 1 \in 1..per /\ ((a + 1) - 1) * per + (b + 1) = i /\ (b + 1) - 1 = b
    BY <1>1, <2>2, <2>0
  <2>7. T \in Nat
    BY <1>5, <2>5
  <2>8. /\ Inode(d, i) = Unit(d, L + T * BlockSize(d) + b * s.isize)
        /\ Fits(L + T * BlockSize(d) + b * s.isize, s.isize)
    <3>1. ((a + 1) - 1) * per + (b + 1) \in Inums(d)
      BY <2>6
    <3>2. /\ Inode(d, ((a + 1) - 1) * per + (b + 1)) =
                Unit(d, L + GroupTable(d, a + 1) * BlockSize(d) + ((b + 1) - 1) * s.isize)
          /\ Fits(L + GroupTable(d, a + 1) * BlockSize(d) + ((b + 1) - 1) * s.isize, s.isize)
      BY <1>5, <2>5, <2>6, <3>1
    <3> QED
      BY <2>6, <3>2
  <2> HIDE DEF T, L, s, per, G
  <2>9. T * BlockSize(d) \in Nat /\ b * s.isize \in Nat
    BY <1>1, <2>2, <2>7
  <2>10. /\ L + (T * BlockSize(d) + b * s.isize) = L + T * BlockSize(d) + b * s.isize
         /\ L + (T * BlockSize(d) + b * s.isize) \in Nat
    BY <1>1, <2>9
  <2> QED
    BY <2>4, <2>5, <2>8, <2>10, <2>11
<1> QED
  BY <1>3, <1>6
-----------------------------------------------------------------------------
\* The trees of blocks

\* Quotient and remainder of q * m + r.
LEMMA DivUnique ==
    ASSUME NEW m \in Nat \ {0}, NEW q \in Nat, NEW r \in 0..(m - 1)
    PROVE  (q * m + r) \div m = q /\ (q * m + r) % m = r
<1> DEFINE x == q * m + r
           a == x \div m
           b == x % m
<1>1. x \in Nat
  <2>1. q * m \in Nat
    OBVIOUS
  <2> QED
    BY <2>1
<1>2. a \in Nat /\ b \in 0..(m - 1) /\ x = m * a + b
  BY <1>1, DivFacts
<1>3. x = q * m + r
  OBVIOUS
<1> HIDE DEF x, a, b
<1>4. a = q
  <2>1. CASE a >= q + 1
    <3>1. m * a >= m * (q + 1)
      BY <1>2, <2>1
    <3>2. m * (q + 1) = q * m + m
      OBVIOUS
    <3> QED
      BY <1>2, <1>3, <3>1, <3>2
  <2>2. CASE a <= q - 1
    <3>1. m * a <= m * (q - 1)
      BY <1>2, <2>2
    <3>2. m * (q - 1) = q * m - m
      OBVIOUS
    <3>3. q * m \in Nat
      OBVIOUS
    <3> QED
      BY <1>2, <1>3, <3>1, <3>2, <3>3
  <2> QED
    BY <1>2, <2>1, <2>2
<1>5. b = r
  <2>1. m * a = q * m
    BY <1>4
  <2>2. q * m \in Nat
    OBVIOUS
  <2> QED
    BY <1>2, <1>3, <2>1, <2>2
<1> QED
  BY <1>4, <1>5 DEF a, b, x

\* An entry of a table.
LEMMA EntryFacts ==
    ASSUME NEW d \in Disks, NEW t, NEW k \in 1..PerBlock(d)
    PROVE  Entries(d, t)[k] = Unit(d, BlockAt(d, t) + (k - 1) * PTRSIZE).ptr
BY DEF Entries, BlockAt

\* Products of the entries of a table stay inside of it.
LEMMA Inside ==
    ASSUME NEW w \in Nat \ {0}, NEW m \in Nat \ {0}, NEW x \in 0..(w - 1), NEW y \in 0..(m - 1)
    PROVE  x * m + y \in 0..(w * m - 1) /\ x * m \in Nat /\ w * m \in Nat
<1>1. x * m \in Nat /\ w * m \in Nat
  OBVIOUS
<1>2. (w - 1) * m = w * m - m
  OBVIOUS
<1>3. x * m <= (w - 1) * m
  OBVIOUS
<1> QED
  BY <1>1, <1>2, <1>3

\* Which entries lead to a block of the file.
LEMMA BlockInFacts ==
    ASSUME NEW d \in Disks, NEW node
    PROVE  LET w == PerBlock(d)
               At(t, k) == Entries(d, t)[k]
           IN  /\ \A a \in 1..NDIRECT : BlockIn(d, node, a - 1) = node.block[a]
               /\ \A a \in 1..w : BlockIn(d, node, NDIRECT + (a - 1)) = At(node.block[NDIRECT + 1], a)
               /\ \A a, b \in 1..w :
                     BlockIn(d, node, NDIRECT + w + (a - 1) * w + (b - 1)) = At(At(node.block[NDIRECT + 2], a), b)
               /\ \A a, b, c \in 1..w :
                     BlockIn(d, node, NDIRECT + w + w * w + (a - 1) * (w * w) + (b - 1) * w + (c - 1))
                         = At(At(At(node.block[NDIRECT + 3], a), b), c)
<1> DEFINE w == PerBlock(d)
           N == NDIRECT
           P(t, k) == Unit(d, BlockAt(d, t) + k * PTRSIZE).ptr
<1>1. w \in Nat \ {0} /\ N \in Nat \ {0}
  BY FormatFacts, Ext2Assumption
<1>2. \A t : \A k \in 1..w : Entries(d, t)[k] = P(t, k - 1)
  BY EntryFacts
<1>3. \A n : BlockIn(d, node, n) =
          IF n - N < 0 THEN node.block[n + 1]
          ELSE IF n - N - w < 0 THEN P(node.block[N + 1], n - N)
          ELSE IF n - N - w - w * w < 0 THEN P(P(node.block[N + 2], (n - N - w) \div w), (n - N - w) % w)
          ELSE P(P(P(node.block[N + 3], (n - N - w - w * w) \div (w * w)),
                   ((n - N - w - w * w) \div w) % w), (n - N - w - w * w) % w)
  BY DEF BlockIn
<1> HIDE DEF w, N, P
<1>4. ASSUME NEW a \in 1..N
      PROVE  BlockIn(d, node, a - 1) = node.block[a]
  <2>1. (a - 1) - N < 0 /\ (a - 1) + 1 = a
    BY <1>1
  <2> QED
    BY <1>3, <2>1
<1>5. ASSUME NEW a \in 1..w
      PROVE  BlockIn(d, node, N + (a - 1)) = Entries(d, node.block[N + 1])[a]
  <2>1. (N + (a - 1)) - N = a - 1 /\ ~(a - 1 < 0) /\ a - 1 - w < 0
    BY <1>1
  <2> QED
    BY <1>2, <1>3, <2>1
<1>6. ASSUME NEW a \in 1..w, NEW b \in 1..w
      PROVE  BlockIn(d, node, N + w + (a - 1) * w + (b - 1)) = Entries(d, Entries(d, node.block[N + 2])[a])[b]
  <2> DEFINE x == (a - 1) * w + (b - 1)
             n == N + w + (a - 1) * w + (b - 1)
  <2>1. a - 1 \in 0..(w - 1) /\ b - 1 \in 0..(w - 1) /\ a - 1 \in Nat
    BY <1>1
  <2>2. x \in 0..(w * w - 1) /\ (a - 1) * w \in Nat /\ w * w \in Nat
    BY <1>1, <2>1, Inside
  <2>3. x \div w = a - 1 /\ x % w = b - 1
    BY <1>1, <2>1, DivUnique
  <2>4. n - N - w = x
    BY <1>1, <2>1, <2>2
  <2>5. n - N = w + x
    BY <1>1, <2>1, <2>2
  <2> HIDE DEF x, n
  <2>6. ~(n - N < 0) /\ ~(n - N - w < 0) /\ n - N - w - w * w < 0
    BY <1>1, <2>2, <2>4, <2>5
  <2>7. BlockIn(d, node, n) = P(P(node.block[N + 2], a - 1), b - 1)
    BY <1>3, <2>3, <2>4, <2>6
  <2> QED
    BY <1>2, <2>7 DEF n
<1>7. ASSUME NEW a \in 1..w, NEW b \in 1..w, NEW c \in 1..w
      PROVE  BlockIn(d, node, N + w + w * w + (a - 1) * (w * w) + (b - 1) * w + (c - 1))
                 = Entries(d, Entries(d, Entries(d, node.block[N + 3])[a])[b])[c]
  <2> DEFINE ww == w * w
             y == (b - 1) * w + (c - 1)
             z == (a - 1) * w + (b - 1)
             x == (a - 1) * ww + y
             n == N + w + ww + (a - 1) * ww + (b - 1) * w + (c - 1)
  <2>1. a - 1 \in 0..(w - 1) /\ b - 1 \in 0..(w - 1) /\ c - 1 \in 0..(w - 1) /\ {a - 1, b - 1, c - 1} \subseteq Nat
    BY <1>1
  <2>2. y \in 0..(ww - 1) /\ (b - 1) * w \in Nat /\ ww \in Nat \ {0}
    <3>1. y \in 0..(w * w - 1) /\ (b - 1) * w \in Nat /\ w * w \in Nat
      BY <1>1, <2>1, Inside
    <3> QED
      BY <3>1
  <2>3. z \in Nat /\ z \div w = a - 1 /\ z % w = b - 1
    <3>1. z \in 0..(w * w - 1) /\ w * w \in Nat
      BY <1>1, <2>1, Inside
    <3>2. z \div w = a - 1 /\ z % w = b - 1
      BY <1>1, <2>1, DivUnique
    <3> QED
      BY <3>1, <3>2
  <2>4. x = z * w + (c - 1)
    <3>1. (a - 1) * (w * w) = ((a - 1) * w) * w
      BY <1>1, <2>1
    <3>2. z * w = ((a - 1) * w) * w + (b - 1) * w
      BY <1>1, <2>1
    <3>3. (a - 1) * (w * w) \in Nat
      BY <1>1, <2>1, <3>1
    <3> QED
      BY <1>1, <2>1, <2>2, <3>1, <3>2, <3>3
  <2>13. n = N + w + ww + x /\ (a - 1) * ww \in Nat
    <3>1. (a - 1) * ww \in Nat
      BY <2>1, <2>2
    <3> QED
      BY <1>1, <2>1, <2>2, <3>1
  <2> HIDE DEF z
  <2>5. (z * w + (c - 1)) \div w = z /\ (z * w + (c - 1)) % w = c - 1
    BY <1>1, <2>1, <2>3, DivUnique
  <2> HIDE DEF ww, y
  <2>6. x \div ww = a - 1
    BY <2>1, <2>2, DivUnique
  <2>7. x \in Nat
    BY <2>2, <2>13
  <2> HIDE DEF x, n
  <2>8. n - N = w + ww + x /\ n - N - w = ww + x /\ n - N - w - ww = x
    BY <1>1, <2>2, <2>13, <2>7
  <2>9. ~(n - N < 0) /\ ~(n - N - w < 0) /\ ~(n - N - w - ww < 0)
    BY <1>1, <2>2, <2>7, <2>8
  <2>10. BlockIn(d, node, n) = P(P(P(node.block[N + 3], x \div ww), (x \div w) % w), x % w)
    BY <1>3, <2>8, <2>9 DEF ww
  <2>11. x \div w = z /\ x % w = c - 1
    BY <2>4, <2>5
  <2>12. BlockIn(d, node, n) = P(P(P(node.block[N + 3], a - 1), b - 1), c - 1)
    BY <2>3, <2>6, <2>10, <2>11
  <2> QED
    BY <1>2, <2>12 DEF n, ww
<1> QED
  BY <1>4, <1>5, <1>6, <1>7 DEF w, N

\* The loops stand at one of ten places: in the direct blocks, before the first
\* table of a level, or inside of one, two or three tables.
LEMMA Places ==
    ASSUME NEW d, NEW j, Loops(d, j)
    PROVE  /\ Len(j.tab) \in Nat /\ Len(j.ix) = Len(j.tab) /\ j.lvl \in 0..3
           /\ \/ j.lvl = 0 /\ Len(j.tab) = 1
              \/ j.lvl \in 1..3 /\ Len(j.tab) = 0
              \/ j.lvl \in 1..3 /\ Len(j.tab) = 1
              \/ j.lvl \in 2..3 /\ Len(j.tab) = 2
              \/ j.lvl = 3 /\ Len(j.tab) = 3
<1>1. /\ j.lvl \in 0..3 /\ Len(j.tab) \in Nat /\ Len(j.ix) = Len(j.tab)
      /\ Len(j.tab) <= Depth(j.lvl) /\ (j.lvl = 0 => Len(j.tab) = 1)
  BY DEF Loops
<1> DEFINE l == j.lvl
           n == Len(j.tab)
<1>2. l \in 0..3 /\ n \in Nat /\ n <= (IF l = 0 THEN 1 ELSE l) /\ (l = 0 => n = 1)
  BY <1>1 DEF Depth
<1> HIDE DEF l, n
<1>3. \/ l = 0 /\ n = 1
      \/ l \in 1..3 /\ n = 0
      \/ l \in 1..3 /\ n = 1
      \/ l \in 2..3 /\ n = 2
      \/ l = 3 /\ n = 3
  <2>1. l = 0 \/ l = 1 \/ l = 2 \/ l = 3
    BY <1>2
  <2> QED
    BY <1>2, <2>1
<1> QED
  BY <1>1, <1>3 DEF l, n

\* The block numbers of a table are numbers.
LEMMA PointerFacts ==
    ASSUME NEW d \in Disks, NEW j, Loops(d, j), IsFile(d, j.inode)
    PROVE  /\ PointerIn(d, j) \in BlockNumbers(d) /\ PointerIn(d, j) \in Nat
           /\ j.lvl > 0 /\ Len(j.tab) = 0 => PointerIn(d, j) = j.inode.block[NDIRECT + j.lvl]
           /\ Len(j.tab) > 0 =>
                 PointerIn(d, j) = IF j.ix[Len(j.tab)] <= Wide(d, j.lvl)
                                   THEN j.tab[Len(j.tab)][j.ix[Len(j.tab)]] ELSE 0
<1> DEFINE n == Len(j.tab)
           w == Wide(d, j.lvl)
<1>1. n \in Nat /\ Len(j.ix) = n /\ j.lvl \in 0..3 /\ (n = 0 => j.lvl \in 1..3)
  <2>1. \/ j.lvl = 0 /\ n = 1
        \/ j.lvl \in 1..3 /\ n = 0
        \/ n = 1
        \/ n = 2
        \/ n = 3
    BY Places
  <2>2. n \in Nat /\ Len(j.ix) = n /\ j.lvl \in 0..3
    BY Places
  <2> HIDE DEF n
  <2>3. n = 0 => j.lvl \in 1..3
    BY <2>1
  <2> QED
    BY <2>2, <2>3
<1>2. w \in Nat /\ NDIRECT \in Nat
  BY FormatFacts, Ext2Assumption DEF Wide
<1>3. PointerIn(d, j) = IF n = 0 THEN j.inode.block[NDIRECT + j.lvl]
                        ELSE IF j.ix[n] <= w THEN j.tab[n][j.ix[n]] ELSE 0
  BY DEF PointerIn
<1>4. CASE n = 0
  <2>1. NDIRECT + j.lvl \in 1..(NDIRECT + 3)
    BY <1>1, <1>2, <1>4
  <2>2. j.inode.block \in [1..(NDIRECT + 3) -> BlockNumbers(d)]
    BY DEF IsFile
  <2>3. j.inode.block[NDIRECT + j.lvl] \in BlockNumbers(d)
    BY <2>1, <2>2
  <2>4. PointerIn(d, j) = j.inode.block[NDIRECT + j.lvl]
    BY <1>3, <1>4
  <2> QED
    BY <1>4, <2>3, <2>4, BlockNumbersFacts
<1>5. CASE n > 0
  <2>1. j.tab \in Seq([1..w -> BlockNumbers(d)]) /\ j.ix[n] \in 1..(w + 1) /\ n \in 1..n
    BY <1>1, <1>5 DEF Loops
  <2>2. j.tab[n] \in [1..w -> BlockNumbers(d)]
    BY <1>1, <2>1
  <2>3. j.ix[n] <= w => j.tab[n][j.ix[n]] \in BlockNumbers(d)
    BY <1>2, <2>1, <2>2
  <2>4. 0 \in BlockNumbers(d)
    BY DEF BlockNumbers
  <2> QED
    BY <1>1, <1>3, <1>5, <2>3, <2>4, BlockNumbersFacts
<1> QED
  BY <1>1, <1>4, <1>5

\* What a table names is a table, until the data blocks are reached.
LEMMA TableFacts ==
    ASSUME NEW d \in Disks, NEW j, Loops(d, j), IsFile(d, j.inode),
           Len(j.tab) < Depth(j.lvl), PointerIn(d, j) # 0
    PROVE  Entries(d, PointerIn(d, j)) \in [1..PerBlock(d) -> BlockNumbers(d)]
<1> DEFINE n == Len(j.tab)
           w == PerBlock(d)
           t == j.inode.block[NDIRECT + j.lvl]
<1>1. /\ n \in Nat /\ Len(j.ix) = n /\ j.lvl \in 0..3
      /\ \/ j.lvl \in 1..3 /\ n = 0
         \/ j.lvl \in 2..3 /\ n = 1
         \/ j.lvl = 3 /\ n = 2
  <2> DEFINE l == j.lvl
             D == Depth(l)
  <2>1. /\ n \in Nat /\ Len(j.ix) = n /\ l \in 0..3
        /\ \/ l = 0 /\ n = 1
           \/ l \in 1..3 /\ n = 0
           \/ l \in 1..3 /\ n = 1
           \/ l \in 2..3 /\ n = 2
           \/ l = 3 /\ n = 3
    BY Places
  <2>2. n < D /\ D = IF l = 0 THEN 1 ELSE l
    BY DEF Depth
  <2> HIDE DEF n, l, D
  <2> QED
    BY <2>1, <2>2 DEF l
<1>2. j.lvl > 0 /\ Wide(d, j.lvl) = w
  BY <1>1 DEF Wide
<1>3. w \in Nat /\ NDIRECT \in Nat
  BY FormatFacts, Ext2Assumption
<1>4. /\ IsTable(d, j.inode.block[NDIRECT + 1]) /\ IsTable2(d, j.inode.block[NDIRECT + 2])
      /\ IsTable3(d, j.inode.block[NDIRECT + 3])
  BY DEF IsFile
<1>5. /\ IsTable(d, t) /\ (j.lvl >= 2 /\ t # 0 => \A k \in 1..w : IsTable(d, Entries(d, t)[k]))
      /\ (j.lvl = 3 /\ t # 0 => \A k \in 1..w : IsTable2(d, Entries(d, t)[k]))
  <2>1. CASE j.lvl = 1
    BY <1>4, <2>1
  <2>2. CASE j.lvl = 2
    BY <1>4, <2>2 DEF IsTable2
  <2>3. CASE j.lvl = 3
    BY <1>4, <2>3 DEF IsTable2, IsTable3
  <2> QED
    BY <1>1, <2>1, <2>2, <2>3
<1>6. CASE n = 0
  BY <1>2, <1>5, <1>6, PointerFacts DEF IsTable
<1>7. n > 0 => /\ t # 0 /\ j.tab[1] = Entries(d, t)
               /\ j.ix[n] \in 1..(w + 1) /\ PointerIn(d, j) = j.tab[n][j.ix[n]] /\ j.ix[n] \in 1..w
  <2> HAVE n > 0
  <2>1. t # 0 /\ j.tab[1] = Entries(d, t)
    BY <1>2 DEF Loops
  <2>2. j.ix[n] \in 1..(w + 1)
    BY <1>1, <1>2 DEF Loops
  <2>3. j.ix[n] <= w /\ PointerIn(d, j) = j.tab[n][j.ix[n]]
    BY <1>2, PointerFacts
  <2> QED
    BY <1>3, <2>1, <2>2, <2>3
<1>8. CASE n = 1
  BY <1>1, <1>5, <1>7, <1>8 DEF IsTable
<1>9. CASE n = 2
  <2>1. j.tab[1][j.ix[1]] # 0 /\ j.tab[2] = Entries(d, j.tab[1][j.ix[1]]) /\ j.ix[1] \in 1..w
    <3>1. 1 \in 1..(n - 1) /\ 1 \in 1..n /\ 1 # n /\ 1 + 1 = 2
      BY <1>9
    <3> QED
      BY <1>2, <3>1 DEF Loops
  <2>2. IsTable2(d, j.tab[1][j.ix[1]])
    BY <1>1, <1>5, <1>7, <1>9, <2>1
  <2>3. IsTable(d, j.tab[2][j.ix[2]])
    BY <1>7, <1>9, <2>1, <2>2 DEF IsTable2
  <2> QED
    BY <1>7, <1>9, <2>3 DEF IsTable
<1> QED
  BY <1>1, <1>6, <1>8, <1>9

\* The number of the block, place by place.
LEMMA NumberFacts ==
    ASSUME NEW d \in Disks, NEW j, Loops(d, j)
    PROVE  LET w == PerBlock(d)
               n == Len(j.tab)
               N == BlockNumber(d, j)
               a == j.ix[1] - 1
               b == j.ix[2] - 1
               c == j.ix[3] - 1
           IN  /\ j.lvl = 0 /\ n = 1 => N = a
               /\ j.lvl = 1 /\ n = 0 => N = NDIRECT
               /\ j.lvl = 2 /\ n = 0 => N = NDIRECT + w
               /\ j.lvl = 3 /\ n = 0 => N = NDIRECT + w + w * w
               /\ j.lvl = 1 /\ n = 1 => N = NDIRECT + a
               /\ j.lvl = 2 /\ n = 1 => N = NDIRECT + w + a * w
               /\ j.lvl = 3 /\ n = 1 => N = NDIRECT + w + w * w + a * (w * w)
               /\ j.lvl = 2 /\ n = 2 => N = NDIRECT + w + a * w + b
               /\ j.lvl = 3 /\ n = 2 => N = NDIRECT + w + w * w + a * (w * w) + b * w
               /\ j.lvl = 3 /\ n = 3 => N = NDIRECT + w + w * w + a * (w * w) + b * w + c
<1> DEFINE w == PerBlock(d)
           n == Len(j.tab)
           N == BlockNumber(d, j)
           a == j.ix[1] - 1
           b == j.ix[2] - 1
           c == j.ix[3] - 1
<1>1. w \in Nat /\ NDIRECT \in Nat /\ w * w \in Nat
  BY FormatFacts, Ext2Assumption
<1>2. /\ n \in Nat /\ Len(j.ix) = n /\ j.ix \in Seq(Nat)
      /\ (n >= 1 => a \in Int) /\ (n >= 2 => b \in Int) /\ (n >= 3 => c \in Int)
  <2>1. n \in Nat /\ Len(j.ix) = n /\ j.ix \in Seq(Nat)
    BY Places DEF Loops
  <2>2. \A k \in 1..n : j.ix[k] \in Nat
    BY <2>1
  <2> QED
    BY <2>1, <2>2
<1>3. /\ N = Start(d, j.lvl) + Term(d, j, 1) + Term(d, j, 2) + Term(d, j, 3)
      /\ Term(d, j, 1) = IF 1 <= n THEN a * Span(d, j.lvl - 1) ELSE 0
      /\ Term(d, j, 2) = IF 2 <= n THEN b * Span(d, j.lvl - 2) ELSE 0
      /\ Term(d, j, 3) = IF 3 <= n THEN c * Span(d, j.lvl - 3) ELSE 0
  BY <1>2 DEF BlockNumber, Term
<1>4. Span(d, 0 - 1) = 1 /\ Span(d, 1 - 1) = 1 /\ Span(d, 2 - 1) = w /\ Span(d, 2 - 2) = 1
      /\ Span(d, 3 - 1) = w * w /\ Span(d, 3 - 2) = w /\ Span(d, 3 - 3) = 1
  BY DEF Span
<1>5. /\ Start(d, 0) = 0 /\ Start(d, 1) = NDIRECT /\ Start(d, 2) = NDIRECT + w
      /\ Start(d, 3) = NDIRECT + w + w * w
  BY DEF Start
<1> HIDE DEF w, n, N, a, b, c
<1>6. n >= 1 => a * 1 = a /\ a * w \in Int /\ a * (w * w) \in Int
  BY <1>1, <1>2
<1>7. n >= 2 => b * 1 = b /\ b * w \in Int
  BY <1>1, <1>2
<1>8. n >= 3 => c * 1 = c
  BY <1>1, <1>2
<1>9. ASSUME j.lvl = 0, n = 1 PROVE N = a
  BY <1>2, <1>3, <1>4, <1>5, <1>6, <1>9
<1>10. n = 0 => N = Start(d, j.lvl) + 0 + 0 + 0
  BY <1>3
<1>11. n = 1 => N = Start(d, j.lvl) + a * Span(d, j.lvl - 1) + 0 + 0
  BY <1>3
<1>12. n = 2 => N = Start(d, j.lvl) + a * Span(d, j.lvl - 1) + b * Span(d, j.lvl - 2) + 0
  BY <1>3
<1>13. n = 3 => N = Start(d, j.lvl) + a * Span(d, j.lvl - 1) + b * Span(d, j.lvl - 2) + c * Span(d, j.lvl - 3)
  BY <1>3
<1>14. /\ j.lvl = 1 /\ n = 0 => N = NDIRECT
       /\ j.lvl = 2 /\ n = 0 => N = NDIRECT + w
       /\ j.lvl = 3 /\ n = 0 => N = NDIRECT + w + w * w
  BY <1>1, <1>5, <1>10
<1>15. /\ j.lvl = 1 /\ n = 1 => N = NDIRECT + a
       /\ j.lvl = 2 /\ n = 1 => N = NDIRECT + w + a * w
       /\ j.lvl = 3 /\ n = 1 => N = NDIRECT + w + w * w + a * (w * w)
  <2>1. ASSUME j.lvl = 1, n = 1 PROVE N = NDIRECT + a
    <3>1. N = NDIRECT + a * 1 + 0 + 0
      BY <1>4, <1>5, <1>11, <2>1
    <3> QED
      BY <1>1, <1>2, <1>6, <2>1, <3>1
  <2>2. ASSUME j.lvl = 2, n = 1 PROVE N = NDIRECT + w + a * w
    <3>1. N = NDIRECT + w + a * w + 0 + 0
      BY <1>4, <1>5, <1>11, <2>2
    <3> QED
      BY <1>1, <1>2, <1>6, <2>2, <3>1
  <2>3. ASSUME j.lvl = 3, n = 1 PROVE N = NDIRECT + w + w * w + a * (w * w)
    <3>1. N = NDIRECT + w + w * w + a * (w * w) + 0 + 0
      BY <1>4, <1>5, <1>11, <2>3
    <3> QED
      BY <1>1, <1>2, <1>6, <2>3, <3>1
  <2> QED
    BY <2>1, <2>2, <2>3
<1>16. /\ j.lvl = 2 /\ n = 2 => N = NDIRECT + w + a * w + b
       /\ j.lvl = 3 /\ n = 2 => N = NDIRECT + w + w * w + a * (w * w) + b * w
  <2>1. ASSUME j.lvl = 2, n = 2 PROVE N = NDIRECT + w + a * w + b
    <3>1. N = NDIRECT + w + a * w + b * 1 + 0
      BY <1>4, <1>5, <1>12, <2>1
    <3> QED
      BY <1>1, <1>2, <1>6, <1>7, <2>1, <3>1
  <2>2. ASSUME j.lvl = 3, n = 2 PROVE N = NDIRECT + w + w * w + a * (w * w) + b * w
    <3>1. N = NDIRECT + w + w * w + a * (w * w) + b * w + 0
      BY <1>4, <1>5, <1>12, <2>2
    <3> QED
      BY <1>1, <1>2, <1>6, <1>7, <2>2, <3>1
  <2> QED
    BY <2>1, <2>2
<1>17. j.lvl = 3 /\ n = 3 => N = NDIRECT + w + w * w + a * (w * w) + b * w + c
  BY <1>1, <1>2, <1>4, <1>5, <1>6, <1>7, <1>8, <1>13
<1> QED
  BY <1>9, <1>14, <1>15, <1>16, <1>17 DEF w, n, N, a, b, c

\* As long as something of the file is missing, the pointer the loops are at
\* is there, and in the innermost table it is the block that is missing.
LEMMA OnPath ==
    ASSUME NEW d \in Disks, NEW j, Loops(d, j), IsFile(d, j.inode),
           BlockNumber(d, j) * BlockSize(d) < j.inode.size,
           Len(j.tab) = 0 \/ j.ix[Len(j.tab)] <= Wide(d, j.lvl)
    PROVE  /\ PointerIn(d, j) # 0
           /\ Len(j.tab) = Depth(j.lvl) => BlockIn(d, j.inode, BlockNumber(d, j)) = PointerIn(d, j)
<1> DEFINE w == PerBlock(d)
           n == Len(j.tab)
           N == BlockNumber(d, j)
           node == j.inode
           one == node.block[NDIRECT + 1]
           two == node.block[NDIRECT + 2]
           three == node.block[NDIRECT + 3]
           At(t, k) == Entries(d, t)[k]
           Has(x) == x * BlockSize(d) < node.size
           a == j.ix[1]
           b == j.ix[2]
           c == j.ix[3]
<1>1. w \in Nat \ {0} /\ NDIRECT \in Nat \ {0} /\ w * w \in Nat
  BY FormatFacts, Ext2Assumption
<1>2. /\ n \in Nat /\ j.lvl \in 0..3
      /\ \/ j.lvl = 0 /\ n = 1
         \/ j.lvl \in 1..3 /\ n = 0
         \/ j.lvl \in 1..3 /\ n = 1
         \/ j.lvl \in 2..3 /\ n = 2
         \/ j.lvl = 3 /\ n = 3
  BY Places
<1>3. Has(N)
  OBVIOUS
<1>4. /\ \A x \in 1..NDIRECT : Has(x - 1) => node.block[x] # 0
      /\ \A x \in 1..w : Has(NDIRECT + (x - 1)) => one # 0 /\ At(one, x) # 0
      /\ \A x, y \in 1..w :
              Has(NDIRECT + w + (x - 1) * w + (y - 1)) =>
                  two # 0 /\ At(two, x) # 0 /\ At(At(two, x), y) # 0
      /\ \A x, y, z \in 1..w :
              Has(NDIRECT + w + w * w + (x - 1) * (w * w) + (y - 1) * w + (z - 1)) =>
                  /\ three # 0 /\ At(three, x) # 0
                  /\ At(At(three, x), y) # 0 /\ At(At(At(three, x), y), z) # 0
  BY DEF IsFile
<1>5. /\ \A x \in 1..NDIRECT : BlockIn(d, node, x - 1) = node.block[x]
      /\ \A x \in 1..w : BlockIn(d, node, NDIRECT + (x - 1)) = At(one, x)
      /\ \A x, y \in 1..w : BlockIn(d, node, NDIRECT + w + (x - 1) * w + (y - 1)) = At(At(two, x), y)
      /\ \A x, y, z \in 1..w :
             BlockIn(d, node, NDIRECT + w + w * w + (x - 1) * (w * w) + (y - 1) * w + (z - 1))
                 = At(At(At(three, x), y), z)
  <2> HIDE DEF node, w
  <2> QED
    BY BlockInFacts DEF w
<1>6. /\ j.lvl = 0 => Wide(d, j.lvl) = NDIRECT
      /\ j.lvl > 0 => Wide(d, j.lvl) = w
      /\ Depth(j.lvl) = IF j.lvl = 0 THEN 1 ELSE j.lvl
  BY <1>2 DEF Wide, Depth
<1>7. /\ j.lvl > 0 /\ n = 0 => PointerIn(d, j) = node.block[NDIRECT + j.lvl]
      /\ n > 0 => PointerIn(d, j) = j.tab[n][j.ix[n]]
  BY PointerFacts
<1>8. /\ j.lvl > 0 /\ n >= 1 => a \in 1..w /\ j.tab[1] = Entries(d, node.block[NDIRECT + j.lvl])
      /\ j.lvl > 0 /\ n >= 2 => b \in 1..w /\ j.tab[2] = Entries(d, j.tab[1][a])
      /\ j.lvl > 0 /\ n >= 3 => c \in 1..w /\ j.tab[3] = Entries(d, j.tab[2][b])
      /\ j.lvl = 0 => a \in 1..NDIRECT /\ j.tab[1][a] = node.block[a]
  <2>1. \A k \in 1..n : j.ix[k] \in 1..(IF k = n THEN Wide(d, j.lvl) + 1 ELSE Wide(d, j.lvl))
    BY DEF Loops
  <2>2. \A k \in 1..n : j.ix[k] \in 1..Wide(d, j.lvl)
    <3> SUFFICES ASSUME NEW k \in 1..n PROVE j.ix[k] \in 1..Wide(d, j.lvl)
      OBVIOUS
    <3>1. Wide(d, j.lvl) \in Nat /\ n # 0
      BY <1>1, <1>2 DEF Wide
    <3>2. CASE k = n
      BY <2>1, <3>1, <3>2
    <3>3. CASE k # n
      BY <2>1, <3>3
    <3> QED
      BY <3>2, <3>3
  <2>3. \A k \in 1..(n - 1) : j.tab[k + 1] = Entries(d, j.tab[k][j.ix[k]])
    BY DEF Loops
  <2>4. ASSUME j.lvl > 0, n >= 1
        PROVE  a \in 1..w /\ j.tab[1] = Entries(d, node.block[NDIRECT + j.lvl])
    <3>1. 1 \in 1..n
      BY <1>2, <2>4
    <3>2. j.tab[1] = Entries(d, node.block[NDIRECT + j.lvl])
      BY <1>2, <2>4 DEF Loops
    <3> QED
      BY <1>6, <2>2, <2>4, <3>1, <3>2
  <2>5. ASSUME j.lvl > 0, n >= 2
        PROVE  b \in 1..w /\ j.tab[2] = Entries(d, j.tab[1][a])
    <3>1. 2 \in 1..n /\ 1 \in 1..(n - 1) /\ 1 + 1 = 2
      BY <1>2, <2>5
    <3> QED
      BY <1>6, <2>2, <2>3, <2>5, <3>1
  <2>6. ASSUME j.lvl > 0, n >= 3
        PROVE  c \in 1..w /\ j.tab[3] = Entries(d, j.tab[2][b])
    <3>1. 3 \in 1..n /\ 2 \in 1..(n - 1) /\ 2 + 1 = 3
      BY <1>2, <2>6
    <3> QED
      BY <1>6, <2>2, <2>3, <2>6, <3>1
  <2>7. ASSUME j.lvl = 0
        PROVE  a \in 1..NDIRECT /\ j.tab[1][a] = node.block[a]
    <3>1. n = 1 /\ 1 \in 1..n
      BY <1>2, <2>7
    <3>2. a \in 1..NDIRECT
      BY <1>6, <2>2, <2>7, <3>1
    <3> QED
      BY <2>7, <3>2 DEF Loops
  <2> QED
    BY <2>4, <2>5, <2>6, <2>7
<1>9. /\ j.lvl = 0 /\ n = 1 => N = a - 1
      /\ j.lvl = 1 /\ n = 0 => N = NDIRECT
      /\ j.lvl = 2 /\ n = 0 => N = NDIRECT + w
      /\ j.lvl = 3 /\ n = 0 => N = NDIRECT + w + w * w
      /\ j.lvl = 1 /\ n = 1 => N = NDIRECT + (a - 1)
      /\ j.lvl = 2 /\ n = 1 => N = NDIRECT + w + (a - 1) * w
      /\ j.lvl = 3 /\ n = 1 => N = NDIRECT + w + w * w + (a - 1) * (w * w)
      /\ j.lvl = 2 /\ n = 2 => N = NDIRECT + w + (a - 1) * w + (b - 1)
      /\ j.lvl = 3 /\ n = 2 => N = NDIRECT + w + w * w + (a - 1) * (w * w) + (b - 1) * w
      /\ j.lvl = 3 /\ n = 3 => N = NDIRECT + w + w * w + (a - 1) * (w * w) + (b - 1) * w + (c - 1)
  BY NumberFacts
<1>11. /\ n = 1 => PointerIn(d, j) = j.tab[1][a]
       /\ n = 2 => PointerIn(d, j) = j.tab[2][b]
       /\ n = 3 => PointerIn(d, j) = j.tab[3][c]
  BY <1>7
<1> HIDE DEF w, n, N, node, a, b, c, At, Has
<1>10. 1 \in 1..w /\ 1 - 1 = 0 /\ 0 * w = 0 /\ 0 * (w * w) = 0
  BY <1>1
<1> DEFINE Goal == /\ PointerIn(d, j) # 0
                   /\ n = Depth(j.lvl) => BlockIn(d, node, N) = PointerIn(d, j)
<1>20. ASSUME j.lvl = 0 PROVE Goal
  BY <1>2, <1>3, <1>4, <1>5, <1>7, <1>11, <1>8, <1>9, <1>20
<1>21. ASSUME j.lvl = 1 /\ n = 0 PROVE Goal
  <2>1. NDIRECT + (1 - 1) = NDIRECT
    BY <1>1
  <2>2. one # 0
    BY <1>3, <1>4, <1>9, <1>10, <1>21, <2>1
  <2> QED
    BY <1>6, <1>7, <1>11, <1>21, <2>2
<1>22. ASSUME j.lvl = 1 /\ n = 1 PROVE Goal
  BY <1>3, <1>4, <1>5, <1>7, <1>11, <1>8, <1>9, <1>22 DEF At
<1>23. ASSUME j.lvl = 2 /\ n = 0 PROVE Goal
  <2>1. NDIRECT + w + (1 - 1) * w + (1 - 1) = NDIRECT + w
    BY <1>1, <1>10
  <2>2. two # 0
    BY <1>3, <1>4, <1>9, <1>10, <1>23, <2>1
  <2> QED
    BY <1>6, <1>7, <1>11, <1>23, <2>2
<1>24. ASSUME j.lvl = 2 /\ n = 1 PROVE Goal
  <2>1. NDIRECT + w + (a - 1) * w + (1 - 1) = NDIRECT + w + (a - 1) * w
    <3>1. a \in 1..w /\ (a - 1) * w \in Int
      BY <1>1, <1>8, <1>24
    <3> QED
      BY <1>1, <3>1
  <2>2. At(two, a) # 0
    BY <1>3, <1>4, <1>8, <1>9, <1>10, <1>24, <2>1
  <2> QED
    BY <1>6, <1>7, <1>11, <1>8, <1>24, <2>2 DEF At
<1>25. ASSUME j.lvl = 2 /\ n = 2 PROVE Goal
  BY <1>3, <1>4, <1>5, <1>7, <1>11, <1>8, <1>9, <1>25 DEF At
<1>26. ASSUME j.lvl = 3 /\ n = 0 PROVE Goal
  <2>1. NDIRECT + w + w * w + (1 - 1) * (w * w) + (1 - 1) * w + (1 - 1) = NDIRECT + w + w * w
    BY <1>1, <1>10
  <2>2. three # 0
    BY <1>3, <1>4, <1>9, <1>10, <1>26, <2>1
  <2> QED
    BY <1>6, <1>7, <1>11, <1>26, <2>2
<1>27. ASSUME j.lvl = 3 /\ n = 1 PROVE Goal
  <2>1. NDIRECT + w + w * w + (a - 1) * (w * w) + (1 - 1) * w + (1 - 1) = NDIRECT + w + w * w + (a - 1) * (w * w)
    <3>1. a \in 1..w /\ (a - 1) * (w * w) \in Int
      BY <1>1, <1>8, <1>27
    <3> QED
      BY <1>1, <1>10, <3>1
  <2>2. At(three, a) # 0
    BY <1>3, <1>4, <1>8, <1>9, <1>10, <1>27, <2>1
  <2> QED
    BY <1>6, <1>7, <1>11, <1>8, <1>27, <2>2 DEF At
<1>28. ASSUME j.lvl = 3 /\ n = 2 PROVE Goal
  <2>1. NDIRECT + w + w * w + (a - 1) * (w * w) + (b - 1) * w + (1 - 1)
            = NDIRECT + w + w * w + (a - 1) * (w * w) + (b - 1) * w
    <3>1. a \in 1..w /\ (a - 1) * (w * w) \in Int /\ b \in 1..w /\ (b - 1) * w \in Int
      BY <1>1, <1>8, <1>28
    <3> QED
      BY <1>1, <3>1
  <2>2. At(At(three, a), b) # 0
    BY <1>3, <1>4, <1>8, <1>9, <1>10, <1>28, <2>1
  <2> QED
    BY <1>6, <1>7, <1>11, <1>8, <1>28, <2>2 DEF At
<1>29. ASSUME j.lvl = 3 /\ n = 3 PROVE Goal
  BY <1>3, <1>4, <1>5, <1>7, <1>11, <1>8, <1>9, <1>29 DEF At
<1>30. Goal
  BY <1>2, <1>20, <1>21, <1>22, <1>23, <1>24, <1>25, <1>26, <1>27, <1>28, <1>29
<1> QED
  BY <1>30 DEF n, N, node
-----------------------------------------------------------------------------
\* The loops of ext2_read_file(): j before a step, k after it

\* A level begins.
LEMMA EnterLoops ==
    ASSUME NEW d \in Disks, NEW k, k.lvl \in 1..3, k.ix = <<>>, k.tab = <<>>
    PROVE  Loops(d, k) /\ BlockNumber(d, k) = Start(d, k.lvl)
<1>1. Loops(d, k)
  <2>1. Len(k.tab) = 0 /\ Len(k.ix) = 0
    OBVIOUS
  <2>2. k.tab \in Seq([1..Wide(d, k.lvl) -> BlockNumbers(d)]) /\ k.ix \in Seq(Nat)
    OBVIOUS
  <2>3. k.lvl \in 0..3 /\ k.lvl # 0 /\ 0 <= Depth(k.lvl)
    BY DEF Depth
  <2> QED
    BY <2>1, <2>2, <2>3 DEF Loops
<1>2. /\ k.lvl = 1 => BlockNumber(d, k) = NDIRECT
      /\ k.lvl = 2 => BlockNumber(d, k) = NDIRECT + PerBlock(d)
      /\ k.lvl = 3 => BlockNumber(d, k) = NDIRECT + PerBlock(d) + PerBlock(d) * PerBlock(d)
  <2>1. Len(k.tab) = 0
    OBVIOUS
  <2> QED
    BY <1>1, <2>1, NumberFacts
<1>3. k.lvl = 1 \/ k.lvl = 2 \/ k.lvl = 3
  OBVIOUS
<1> QED
  BY <1>1, <1>2, <1>3 DEF Start

\* The beginning of a list.
LEMMA PrefixFacts ==
    ASSUME NEW S, NEW s \in Seq(S), NEW m \in 0..Len(s)
    PROVE  /\ SubSeq(s, 1, m) \in Seq(S) /\ Len(SubSeq(s, 1, m)) = m
           /\ \A x \in 1..m : SubSeq(s, 1, m)[x] = s[x]
OBVIOUS

\* Indices s that differ from t in the m-th one, which is one more; and that are
\* t with a first index behind it.
Bumped(s, t, m) == \A x \in 1..m : s[x] = IF x = m THEN t[x] + 1 ELSE t[x]
Pushed(s, t, m) == s[m + 1] = 1 /\ \A x \in 1..m : s[x] = t[x]

\* The indices of the loops around the innermost one, which advance.
Popped(s, m) == [SubSeq(s, 1, m) EXCEPT ![m] = @ + 1]

\* An index list without its last entry, the one before it advanced.
LEMMA PoppedFacts ==
    ASSUME NEW s \in Seq(Nat), NEW m \in 1..Len(s)
    PROVE  /\ Popped(s, m) \in Seq(Nat) /\ Len(Popped(s, m)) = m
           /\ \A x \in 1..m : Popped(s, m)[x] = IF x = m THEN s[x] + 1 ELSE s[x]
<1> DEFINE u == SubSeq(s, 1, m)
           v == u[m] + 1
<1>1. u \in Seq(Nat) /\ Len(u) = m /\ \A x \in 1..m : u[x] = s[x]
  BY PrefixFacts
<1>2. Popped(s, m) = [u EXCEPT ![m] = v]
  BY DEF Popped
<1> HIDE DEF u
<1>3. m \in 1..Len(u) /\ v \in Nat /\ v = s[m] + 1
  BY <1>1
<1> HIDE DEF v
<1>4. /\ Popped(s, m) \in Seq(Nat) /\ Len(Popped(s, m)) = Len(u)
      /\ \A x \in 1..Len(u) : Popped(s, m)[x] = IF x = m THEN v ELSE u[x]
  BY <1>1, <1>2, <1>3, ExceptSeq
<1> QED
  BY <1>1, <1>3, <1>4

\* A loop over a table ends, and the loop around it advances.
LEMMA PopLoops ==
    ASSUME NEW d \in Disks, NEW j, Loops(d, j), NEW k, Len(j.tab) >= 2,
           k.lvl = j.lvl, k.inode = j.inode,
           k.tab = SubSeq(j.tab, 1, Len(j.tab) - 1), k.ix = Popped(j.ix, Len(j.tab) - 1)
    PROVE  Loops(d, k) /\ Len(k.tab) = Len(j.tab) - 1 /\ Bumped(k.ix, j.ix, Len(j.tab) - 1)
<1> DEFINE n == Len(j.tab)
           m == n - 1
           w == Wide(d, j.lvl)
           S == [1..w -> BlockNumbers(d)]
<1>1. /\ j.lvl \in 0..3 /\ j.tab \in Seq(S) /\ j.ix \in Seq(Nat) /\ Len(j.ix) = n /\ n <= Depth(j.lvl)
      /\ \A x \in 1..n : j.ix[x] \in 1..(IF x = n THEN w + 1 ELSE w)
      /\ j.lvl = 0 => n = 1
      /\ j.lvl > 0 /\ n > 0 =>
              j.inode.block[NDIRECT + j.lvl] # 0 /\ j.tab[1] = Entries(d, j.inode.block[NDIRECT + j.lvl])
      /\ \A x \in 1..(n - 1) :
              j.tab[x][j.ix[x]] # 0 /\ j.tab[x + 1] = Entries(d, j.tab[x][j.ix[x]])
  BY DEF Loops
<1>2. n \in Nat /\ m \in Nat /\ m >= 1 /\ m < n /\ w \in Nat /\ Depth(j.lvl) \in Nat
  <2>1. w \in Nat
    BY <1>1, FormatFacts, Ext2Assumption DEF Wide
  <2>2. Depth(j.lvl) \in Nat
    BY <1>1 DEF Depth
  <2>3. n \in Nat /\ n >= 2
    BY <1>1
  <2> HIDE DEF n
  <2> QED
    BY <2>1, <2>2, <2>3
<1>5. k.ix = Popped(j.ix, m) /\ k.tab = SubSeq(j.tab, 1, m) /\ n = Len(j.tab)
  OBVIOUS
<1> HIDE DEF n, w, S
<1>6. m \in 0..n /\ m \in 1..n
  BY <1>2
<1>3. k.tab \in Seq(S) /\ Len(k.tab) = m /\ \A x \in 1..m : k.tab[x] = j.tab[x]
  BY <1>1, <1>5, <1>6, PrefixFacts
<1> HIDE DEF m
<1>7. /\ k.ix \in Seq(Nat) /\ Len(k.ix) = m
      /\ \A x \in 1..m : k.ix[x] = IF x = m THEN j.ix[x] + 1 ELSE j.ix[x]
  <2>1. j.ix \in Seq(Nat) /\ m \in 1..Len(j.ix) /\ k.ix = Popped(j.ix, m)
    BY <1>1, <1>5, <1>6
  <2>2. /\ Popped(j.ix, m) \in Seq(Nat) /\ Len(Popped(j.ix, m)) = m
        /\ \A x \in 1..m : Popped(j.ix, m)[x] = IF x = m THEN j.ix[x] + 1 ELSE j.ix[x]
    BY <2>1, PoppedFacts
  <2> QED
    BY <2>1, <2>2, Zenon
<1>9. ASSUME NEW x \in 1..m
      PROVE  k.ix[x] \in 1..(IF x = m THEN w + 1 ELSE w)
  <2>1. x \in 1..n /\ x # n
    BY <1>2 DEF m
  <2>2. j.ix[x] \in 1..w
    BY <1>1, <2>1
  <2>3. CASE x = m
    <3> DEFINE y == j.ix[x]
    <3>1. k.ix[x] = y + 1 /\ y \in 1..w
      BY <1>7, <2>2, <2>3
    <3> HIDE DEF y
    <3>2. k.ix[x] \in 1..(w + 1)
      BY <1>2, <3>1
    <3> QED
      BY <2>3, <3>2
  <2>4. CASE x # m
    BY <1>7, <2>2, <2>4
  <2> QED
    BY <2>3, <2>4
<1>10. ASSUME NEW x \in 1..(m - 1)
       PROVE  k.tab[x][k.ix[x]] # 0 /\ k.tab[x + 1] = Entries(d, k.tab[x][k.ix[x]])
  <2>1. x \in 1..m /\ x # m /\ x + 1 \in 1..m /\ x \in 1..(n - 1)
    BY <1>2 DEF m
  <2>2. k.ix[x] = j.ix[x] /\ k.tab[x] = j.tab[x] /\ k.tab[x + 1] = j.tab[x + 1]
    BY <1>3, <1>7, <2>1
  <2> QED
    BY <1>1, <2>1, <2>2
<1>11. j.lvl # 0 /\ k.tab[1] = j.tab[1] /\ m <= Depth(j.lvl)
  BY <1>1, <1>2, <1>3
<1>12. k.lvl \in 0..3 /\ Wide(d, k.lvl) = w /\ k.lvl # 0
  BY <1>1, <1>11 DEF w
<1>13. k.lvl > 0 /\ m > 0 =>
           k.inode.block[NDIRECT + k.lvl] # 0 /\ k.tab[1] = Entries(d, k.inode.block[NDIRECT + k.lvl])
  BY <1>1, <1>2, <1>11
<1>14. Loops(d, k)
  BY <1>3, <1>7, <1>9, <1>10, <1>11, <1>12, <1>13 DEF Loops, S
<1>15. Bumped(k.ix, j.ix, m)
  BY <1>7 DEF Bumped
<1> QED
  BY <1>3, <1>14, <1>15 DEF m, n

\* A table is read, and the loop over it begins.
LEMMA PushLoops ==
    ASSUME NEW d \in Disks, NEW j, Loops(d, j), IsFile(d, j.inode), NEW k,
           Len(j.tab) < Depth(j.lvl), PointerIn(d, j) # 0,
           k.lvl = j.lvl, k.inode = j.inode,
           k.tab = Append(j.tab, Entries(d, PointerIn(d, j))), k.ix = Append(j.ix, 1)
    PROVE  Loops(d, k) /\ Len(k.tab) = Len(j.tab) + 1 /\ Pushed(k.ix, j.ix, Len(j.tab))
<1> DEFINE n == Len(j.tab)
           w == Wide(d, j.lvl)
           S == [1..w -> BlockNumbers(d)]
           e == Entries(d, PointerIn(d, j))
<1>1. /\ j.lvl \in 0..3 /\ j.tab \in Seq(S) /\ j.ix \in Seq(Nat) /\ Len(j.ix) = n /\ n <= Depth(j.lvl)
      /\ \A x \in 1..n : j.ix[x] \in 1..(IF x = n THEN w + 1 ELSE w)
      /\ j.lvl = 0 => n = 1
      /\ j.lvl > 0 /\ n > 0 =>
              j.inode.block[NDIRECT + j.lvl] # 0 /\ j.tab[1] = Entries(d, j.inode.block[NDIRECT + j.lvl])
      /\ \A x \in 1..(n - 1) :
              j.tab[x][j.ix[x]] # 0 /\ j.tab[x + 1] = Entries(d, j.tab[x][j.ix[x]])
  BY DEF Loops
<1>2. n \in Nat /\ j.lvl # 0 /\ j.lvl > 0 /\ w = PerBlock(d) /\ w \in Nat \ {0} /\ Depth(j.lvl) \in Nat
  <2>1. n \in Nat /\ j.lvl # 0
    BY <1>1 DEF Depth
  <2>2. w = PerBlock(d)
    BY <2>1 DEF Wide
  <2> QED
    BY <1>1, <2>1, <2>2, FormatFacts DEF Depth
<1>3. e \in S
  BY <1>2, TableFacts
<1>4. /\ n = 0 => PointerIn(d, j) = j.inode.block[NDIRECT + j.lvl]
      /\ n > 0 => j.ix[n] <= w /\ PointerIn(d, j) = j.tab[n][j.ix[n]]
  BY <1>2, PointerFacts
<1>5. n + 1 <= Depth(j.lvl)
  BY <1>2
<1>6. k.tab = Append(j.tab, e) /\ Wide(d, k.lvl) = w
  OBVIOUS
<1> HIDE DEF n, w, S, e
<1>7. k.tab \in Seq(S) /\ Len(k.tab) = n + 1 /\ k.tab[n + 1] = e /\ \A x \in 1..n : k.tab[x] = j.tab[x]
  BY <1>1, <1>2, <1>3, <1>6 DEF n
<1>8. k.ix \in Seq(Nat) /\ Len(k.ix) = n + 1 /\ k.ix[n + 1] = 1 /\ \A x \in 1..n : k.ix[x] = j.ix[x]
  BY <1>1, <1>2
<1>9. ASSUME NEW x \in 1..(n + 1)
      PROVE  k.ix[x] \in 1..(IF x = n + 1 THEN w + 1 ELSE w)
  <2>1. CASE x = n + 1
    BY <1>2, <1>8, <2>1
  <2>2. CASE x # n + 1
    <3>1. x \in 1..n
      BY <1>2, <2>2
    <3>2. j.ix[x] \in 1..w
      <4>1. CASE x = n
        <5>1. j.ix[n] \in 1..(w + 1) /\ n > 0
          BY <1>1, <1>2, <3>1, <4>1
        <5> QED
          BY <1>2, <1>4, <4>1, <5>1
      <4>2. CASE x # n
        BY <1>1, <3>1, <4>2
      <4> QED
        BY <4>1, <4>2
    <3> QED
      BY <1>8, <2>2, <3>1, <3>2
  <2> QED
    BY <2>1, <2>2
<1>10. ASSUME NEW x \in 1..((n + 1) - 1)
       PROVE  k.tab[x][k.ix[x]] # 0 /\ k.tab[x + 1] = Entries(d, k.tab[x][k.ix[x]])
  <2>1. x \in 1..n
    BY <1>2
  <2>2. CASE x = n
    <3>1. k.tab[n] = j.tab[n] /\ k.ix[n] = j.ix[n] /\ k.tab[n + 1] = e
      BY <1>7, <1>8, <2>1, <2>2
    <3>2. PointerIn(d, j) = j.tab[n][j.ix[n]] /\ PointerIn(d, j) # 0 /\ e = Entries(d, PointerIn(d, j))
      BY <1>2, <1>4, <2>1, <2>2 DEF e
    <3> QED
      BY <2>2, <3>1, <3>2
  <2>3. CASE x # n
    <3>1. x \in 1..(n - 1) /\ x + 1 \in 1..n
      BY <1>2, <2>1, <2>3
    <3> QED
      BY <1>1, <1>7, <1>8, <2>1, <3>1
  <2> QED
    BY <2>2, <2>3
<1>11. k.inode.block[NDIRECT + k.lvl] # 0 /\ k.tab[1] = Entries(d, k.inode.block[NDIRECT + k.lvl])
  <2>1. CASE n = 0
    BY <1>4, <1>7, <2>1 DEF e
  <2>2. CASE n # 0
    <3>1. 1 \in 1..n /\ n > 0
      BY <1>2, <2>2
    <3> QED
      BY <1>1, <1>2, <1>7, <3>1
  <2> QED
    BY <2>1, <2>2
<1>12. k.lvl \in 0..3 /\ k.lvl # 0 /\ n + 1 <= Depth(k.lvl)
  BY <1>1, <1>2, <1>5
<1>13. Loops(d, k)
  BY <1>6, <1>7, <1>8, <1>9, <1>10, <1>11, <1>12 DEF Loops, S
<1> QED
  BY <1>7, <1>8, <1>13 DEF n, Pushed

\* A data block is read, and the innermost loop advances.
LEMMA AdvanceLoops ==
    ASSUME NEW d \in Disks, NEW j, Loops(d, j), IsFile(d, j.inode), NEW k,
           Len(j.tab) = Depth(j.lvl), PointerIn(d, j) # 0,
           k.lvl = j.lvl, k.inode = j.inode, k.tab = j.tab, k.ix = Advanced(j.ix)
    PROVE  Loops(d, k) /\ Len(j.tab) > 0 /\ Bumped(k.ix, j.ix, Len(j.tab))
<1> DEFINE n == Len(j.tab)
           w == Wide(d, j.lvl)
           S == [1..w -> BlockNumbers(d)]
<1>1. /\ j.lvl \in 0..3 /\ j.tab \in Seq(S) /\ j.ix \in Seq(Nat) /\ Len(j.ix) = n /\ n <= Depth(j.lvl)
      /\ \A x \in 1..n : j.ix[x] \in 1..(IF x = n THEN w + 1 ELSE w)
      /\ j.lvl = 0 => n = 1 /\ \A x \in 1..NDIRECT : j.tab[1][x] = j.inode.block[x]
      /\ j.lvl > 0 /\ n > 0 =>
              j.inode.block[NDIRECT + j.lvl] # 0 /\ j.tab[1] = Entries(d, j.inode.block[NDIRECT + j.lvl])
      /\ \A x \in 1..(n - 1) :
              j.tab[x][j.ix[x]] # 0 /\ j.tab[x + 1] = Entries(d, j.tab[x][j.ix[x]])
  BY DEF Loops
<1>2. n \in Nat /\ n > 0 /\ w \in Nat
  <2>1. w \in Nat
    BY <1>1, FormatFacts, Ext2Assumption DEF Wide
  <2>2. n \in Nat /\ n > 0
    BY <1>1 DEF Depth
  <2> QED
    BY <2>1, <2>2
<1>3. j.ix[n] <= w
  BY <1>2, PointerFacts
<1>4. k.ix = [j.ix EXCEPT ![n] = j.ix[n] + 1]
  BY <1>1 DEF Advanced
<1> HIDE DEF n, w, S
<1>5. n \in 1..Len(j.ix) /\ j.ix[n] \in Nat /\ j.ix[n] + 1 \in Nat
  <2>1. n \in 1..Len(j.ix)
    BY <1>1, <1>2
  <2> QED
    BY <1>1, <2>1
<1>6. /\ k.ix \in Seq(Nat) /\ Len(k.ix) = n
      /\ \A x \in 1..n : k.ix[x] = IF x = n THEN j.ix[n] + 1 ELSE j.ix[x]
  BY <1>1, <1>4, <1>5, ExceptSeq
<1>7. ASSUME NEW x \in 1..n
      PROVE  k.ix[x] \in 1..(IF x = n THEN w + 1 ELSE w)
  BY <1>1, <1>2, <1>3, <1>5, <1>6
<1>8. ASSUME NEW x \in 1..(n - 1)
      PROVE  k.tab[x][k.ix[x]] # 0 /\ k.tab[x + 1] = Entries(d, k.tab[x][k.ix[x]])
  <2>1. x \in 1..n /\ x # n
    BY <1>2
  <2> QED
    BY <1>1, <1>6, <2>1
<1>9. Len(k.tab) = n /\ Wide(d, k.lvl) = w
  BY DEF n, w
<1>10. Loops(d, k)
  BY <1>1, <1>6, <1>7, <1>8, <1>9 DEF Loops, S
<1> QED
  BY <1>2, <1>6, <1>10 DEF n, Bumped

\* Where a table of tables is read.
LEMMA TablePlaces ==
    ASSUME NEW d, NEW j, Loops(d, j), Len(j.tab) < Depth(j.lvl)
    PROVE  /\ Len(j.tab) \in Nat /\ j.lvl \in 0..3
           /\ \/ j.lvl \in 1..3 /\ Len(j.tab) = 0
              \/ j.lvl \in 2..3 /\ Len(j.tab) = 1
              \/ j.lvl = 3 /\ Len(j.tab) = 2
<1> DEFINE l == j.lvl
           n == Len(j.tab)
<1>1. /\ n \in Nat /\ l \in 0..3 /\ n < (IF l = 0 THEN 1 ELSE l)
      /\ (l = 0 /\ n = 1) \/ (l \in 1..3 /\ n = 0) \/ n = 1 \/ n = 2 \/ n = 3
  BY Places DEF Depth
<1> HIDE DEF l, n
<1>2. l = 0 \/ l = 1 \/ l = 2 \/ l = 3
  BY <1>1
<1>3. n \in Nat /\ l \in 0..3 /\ ((l \in 1..3 /\ n = 0) \/ (l \in 2..3 /\ n = 1) \/ (l = 3 /\ n = 2))
  BY <1>1, <1>2
<1> QED
  BY <1>3 DEF l, n

\* The number of the block through these steps. The loop over a table that was
\* just read is where the loop around it is.
LEMMA PushNumber ==
    ASSUME NEW d \in Disks, NEW j, NEW k, Loops(d, j), Loops(d, k), k.lvl = j.lvl,
           Len(j.tab) < Depth(j.lvl), Len(k.tab) = Len(j.tab) + 1, Pushed(k.ix, j.ix, Len(j.tab))
    PROVE  BlockNumber(d, k) = BlockNumber(d, j)
<1> DEFINE w == PerBlock(d)
           n == Len(j.tab)
           l == j.lvl
           a == j.ix[1] - 1
           b == j.ix[2] - 1
           N == BlockNumber(d, j)
           M == BlockNumber(d, k)
<1>1. /\ n \in Nat /\ l \in 0..3
      /\ \/ l \in 1..3 /\ n = 0
         \/ l \in 2..3 /\ n = 1
         \/ l = 3 /\ n = 2
  BY TablePlaces
<1>2. w \in Nat /\ NDIRECT \in Nat /\ w * w \in Nat
  BY FormatFacts, Ext2Assumption
<1>3. /\ n = 0 => k.ix[1] - 1 = 0
      /\ n >= 1 => k.ix[1] - 1 = a /\ a \in Int
      /\ n = 1 => k.ix[2] - 1 = 0
      /\ n >= 2 => k.ix[2] - 1 = b /\ b \in Int
      /\ n = 2 => k.ix[3] - 1 = 0
  <2>1. \A x \in 1..n : j.ix[x] \in Nat
    BY Places DEF Loops
  <2>2. (n >= 1 => 1 \in 1..n) /\ (n >= 2 => 2 \in 1..n)
    BY <1>1
  <2>3. k.ix[n + 1] = 1 /\ \A x \in 1..n : k.ix[x] = j.ix[x]
    BY DEF Pushed
  <2> HIDE DEF n
  <2>4. n >= 1 => k.ix[1] = j.ix[1] /\ j.ix[1] \in Nat
    BY <2>1, <2>2, <2>3
  <2>5. n >= 2 => k.ix[2] = j.ix[2] /\ j.ix[2] \in Nat
    BY <2>1, <2>2, <2>3
  <2>6. (n = 0 => k.ix[1] = 1) /\ (n = 1 => k.ix[2] = 1) /\ (n = 2 => k.ix[3] = 1)
    BY <2>3
  <2> QED
    BY <2>4, <2>5, <2>6
<1>4. /\ l = 1 /\ n = 0 => N = NDIRECT
      /\ l = 2 /\ n = 0 => N = NDIRECT + w
      /\ l = 3 /\ n = 0 => N = NDIRECT + w + w * w
      /\ l = 2 /\ n = 1 => N = NDIRECT + w + a * w
      /\ l = 3 /\ n = 1 => N = NDIRECT + w + w * w + a * (w * w)
      /\ l = 3 /\ n = 2 => N = NDIRECT + w + w * w + a * (w * w) + b * w
  BY NumberFacts
<1>5. /\ l = 1 /\ n = 0 => M = NDIRECT + (k.ix[1] - 1)
      /\ l = 2 /\ n = 0 => M = NDIRECT + w + (k.ix[1] - 1) * w
      /\ l = 3 /\ n = 0 => M = NDIRECT + w + w * w + (k.ix[1] - 1) * (w * w)
      /\ l = 2 /\ n = 1 => M = NDIRECT + w + (k.ix[1] - 1) * w + (k.ix[2] - 1)
      /\ l = 3 /\ n = 1 => M = NDIRECT + w + w * w + (k.ix[1] - 1) * (w * w) + (k.ix[2] - 1) * w
      /\ l = 3 /\ n = 2 => M = NDIRECT + w + w * w + (k.ix[1] - 1) * (w * w) + (k.ix[2] - 1) * w + (k.ix[3] - 1)
  <2>1. Len(k.tab) = n + 1 /\ k.lvl = l
    OBVIOUS
  <2> HIDE DEF n, l
  <2>2. /\ n = 0 => Len(k.tab) = 1
        /\ n = 1 => Len(k.tab) = 2
        /\ n = 2 => Len(k.tab) = 3
    BY <1>1, <2>1
  <2> QED
    BY <2>1, <2>2, NumberFacts
<1>6. 0 * w = 0 /\ 0 * (w * w) = 0 /\ (n >= 1 => a * w \in Int /\ a * (w * w) \in Int) /\ (n >= 2 => b * w \in Int)
  BY <1>2, <1>3
<1> HIDE DEF w, n, l, a, b, N, M
<1>7. CASE n = 0
  <2>1. l = 1 \/ l = 2 \/ l = 3
    BY <1>1, <1>7
  <2> QED
    BY <1>2, <1>3, <1>4, <1>5, <1>6, <1>7, <2>1 DEF N, M
<1>8. CASE n = 1
  <2>1. l = 2 \/ l = 3
    BY <1>1, <1>8
  <2>2. k.ix[1] - 1 = a /\ a \in Int /\ k.ix[2] - 1 = 0 /\ a * w \in Int /\ a * (w * w) \in Int
    BY <1>3, <1>6, <1>8
  <2>3. CASE l = 2
    <3>1. M = NDIRECT + w + a * w + 0 /\ N = NDIRECT + w + a * w
      BY <1>4, <1>5, <1>8, <2>2, <2>3
    <3> QED
      BY <1>2, <2>2, <3>1 DEF N, M
  <2>4. CASE l = 3
    <3>1. M = NDIRECT + w + w * w + a * (w * w) + 0 /\ N = NDIRECT + w + w * w + a * (w * w)
      BY <1>4, <1>5, <1>6, <1>8, <2>2, <2>4
    <3> QED
      BY <1>2, <2>2, <3>1 DEF N, M
  <2> QED
    BY <2>1, <2>3, <2>4
<1>9. CASE n = 2
  <2>1. l = 3 /\ k.ix[1] - 1 = a /\ a * (w * w) \in Int /\ k.ix[2] - 1 = b /\ b * w \in Int /\ k.ix[3] - 1 = 0
    BY <1>1, <1>3, <1>6, <1>9
  <2>2. /\ M = NDIRECT + w + w * w + a * (w * w) + b * w + 0
        /\ N = NDIRECT + w + w * w + a * (w * w) + b * w
    BY <1>4, <1>5, <1>9, <2>1
  <2> QED
    BY <1>2, <2>1, <2>2 DEF N, M
<1> QED
  BY <1>1, <1>7, <1>8, <1>9

\* A table that is at its end is one entry of the table around it.
LEMMA PopNumber ==
    ASSUME NEW d \in Disks, NEW j, NEW k, Loops(d, j), Loops(d, k), k.lvl = j.lvl,
           Len(j.tab) >= 2, Len(k.tab) = Len(j.tab) - 1, j.ix[Len(j.tab)] = Wide(d, j.lvl) + 1,
           Bumped(k.ix, j.ix, Len(j.tab) - 1)
    PROVE  BlockNumber(d, k) = BlockNumber(d, j)
<1> DEFINE w == PerBlock(d)
           n == Len(j.tab)
           l == j.lvl
           a == j.ix[1] - 1
           b == j.ix[2] - 1
           c == j.ix[3] - 1
           N == BlockNumber(d, j)
           M == BlockNumber(d, k)
<1>1. n \in Nat /\ ((l \in 2..3 /\ n = 2) \/ (l = 3 /\ n = 3))
  BY Places
<1>2. w \in Nat /\ NDIRECT \in Nat /\ w * w \in Nat /\ Wide(d, l) = w
  <2>1. l # 0
    BY <1>1
  <2> QED
    BY <2>1, FormatFacts, Ext2Assumption DEF Wide
<1>3. \A x \in 1..n : j.ix[x] \in Nat
  <2>1. j.ix \in Seq(Nat) /\ Len(j.ix) = n
    BY DEF Loops
  <2> QED
    BY <2>1
<1>4. /\ l = 2 /\ n = 2 => N = NDIRECT + w + a * w + b
      /\ l = 3 /\ n = 2 => N = NDIRECT + w + w * w + a * (w * w) + b * w
      /\ l = 3 /\ n = 3 => N = NDIRECT + w + w * w + a * (w * w) + b * w + c
  BY NumberFacts
<1>5. /\ l = 2 /\ n = 2 => M = NDIRECT + w + (k.ix[1] - 1) * w
      /\ l = 3 /\ n = 2 => M = NDIRECT + w + w * w + (k.ix[1] - 1) * (w * w)
      /\ l = 3 /\ n = 3 => M = NDIRECT + w + w * w + (k.ix[1] - 1) * (w * w) + (k.ix[2] - 1) * w
  <2>1. Len(k.tab) = n - 1 /\ k.lvl = l
    OBVIOUS
  <2>2. (n = 2 => Len(k.tab) = 1) /\ (n = 3 => Len(k.tab) = 2)
    BY <1>1, <2>1
  <2> HIDE DEF n, l
  <2> QED
    BY <2>1, <2>2, NumberFacts
<1>6. /\ n = 2 => a \in Int /\ k.ix[1] - 1 = a + 1 /\ b = w
      /\ n = 3 => a \in Int /\ k.ix[1] - 1 = a /\ b \in Int /\ k.ix[2] - 1 = b + 1 /\ c = w
  <2>1. j.ix[n] = w + 1
    BY <1>2
  <2>2. ASSUME n = 2
        PROVE  a \in Int /\ k.ix[1] - 1 = a + 1 /\ b = w
    <3>0. 1 \in 1..(n - 1) /\ 1 = n - 1 /\ 1 \in 1..n
      BY <2>2
    <3>1. k.ix[1] = j.ix[1] + 1 /\ j.ix[1] \in Nat /\ j.ix[2] = w + 1
      BY <1>3, <2>1, <2>2, <3>0 DEF Bumped
    <3> HIDE DEF w
    <3> QED
      BY <1>2, <3>1
  <2>3. ASSUME n = 3
        PROVE  a \in Int /\ k.ix[1] - 1 = a /\ b \in Int /\ k.ix[2] - 1 = b + 1 /\ c = w
    <3>0. /\ 1 \in 1..(n - 1) /\ 1 # n - 1 /\ 1 \in 1..n
          /\ 2 \in 1..(n - 1) /\ 2 = n - 1 /\ 2 \in 1..n
      BY <2>3
    <3>1. k.ix[1] = j.ix[1] /\ k.ix[2] = j.ix[2] + 1 /\ j.ix[1] \in Nat /\ j.ix[2] \in Nat /\ j.ix[3] = w + 1
      BY <1>3, <2>1, <2>3, <3>0 DEF Bumped
    <3> HIDE DEF w
    <3> QED
      BY <1>2, <3>1
  <2> QED
    BY <2>2, <2>3
<1> HIDE DEF w, n, l, a, b, c, N, M
<1>7. CASE l = 2 /\ n = 2
  <2>1. N = NDIRECT + w + a * w + w /\ M = NDIRECT + w + (a + 1) * w /\ a \in Int
    BY <1>4, <1>5, <1>6, <1>7
  <2>2. (a + 1) * w = a * w + w /\ a * w \in Int
    BY <1>2, <2>1
  <2> QED
    BY <1>2, <2>1, <2>2 DEF N, M
<1>8. CASE l = 3 /\ n = 2
  <2>1. N = NDIRECT + w + w * w + a * (w * w) + w * w /\ M = NDIRECT + w + w * w + (a + 1) * (w * w) /\ a \in Int
    BY <1>4, <1>5, <1>6, <1>8
  <2>2. (a + 1) * (w * w) = a * (w * w) + w * w /\ a * (w * w) \in Int
    <3> DEFINE q == w * w
    <3>1. q \in Nat
      BY <1>2
    <3> HIDE DEF q
    <3>2. (a + 1) * q = a * q + q /\ a * q \in Int
      BY <2>1, <3>1
    <3> QED
      BY <3>2 DEF q
  <2> QED
    BY <1>2, <2>1, <2>2 DEF N, M
<1>9. CASE l = 3 /\ n = 3
  <2>1. /\ N = NDIRECT + w + w * w + a * (w * w) + b * w + w
        /\ M = NDIRECT + w + w * w + a * (w * w) + (b + 1) * w /\ a \in Int /\ b \in Int
    BY <1>4, <1>5, <1>6, <1>9
  <2>2. (b + 1) * w = b * w + w /\ b * w \in Int
    BY <1>2, <2>1
  <2>3. a * (w * w) \in Int
    BY <1>2, <2>1
  <2> DEFINE v == w * w
             q == a * (w * w)
             e == b * w
  <2>4. N = NDIRECT + w + v + q + e + w /\ M = NDIRECT + w + v + q + (e + w)
    BY <2>1, <2>2
  <2>5. v \in Int /\ q \in Int /\ e \in Int
    BY <1>2, <2>2, <2>3
  <2> HIDE DEF v, q, e
  <2>6. N = M
    BY <1>2, <2>4, <2>5
  <2> QED
    BY <2>6 DEF N, M
<1>10. l = 2 \/ l = 3
  BY <1>1
<1> QED
  BY <1>1, <1>7, <1>8, <1>9, <1>10

\* A level that is at its end is followed by the next one.
LEMMA LeaveNumber ==
    ASSUME NEW d \in Disks, NEW j, Loops(d, j), Len(j.tab) = 1, j.ix[1] = Wide(d, j.lvl) + 1
    PROVE  BlockNumber(d, j) = Start(d, j.lvl + 1)
<1> DEFINE w == PerBlock(d)
           l == j.lvl
           N == BlockNumber(d, j)
<1>1. w \in Nat /\ NDIRECT \in Nat /\ w * w \in Nat /\ w * w * w \in Nat
  <2>1. w \in Nat /\ NDIRECT \in Nat
    BY FormatFacts, Ext2Assumption
  <2>2. w * w \in Nat
    BY <2>1
  <2> QED
    BY <2>1, <2>2
<1>2. l \in 0..3
  BY Places
<1>3. j.ix[1] - 1 = Wide(d, l)
  BY <1>1 DEF Wide
<1>4. /\ l = 0 => N = j.ix[1] - 1
      /\ l = 1 => N = NDIRECT + (j.ix[1] - 1)
      /\ l = 2 => N = NDIRECT + w + (j.ix[1] - 1) * w
      /\ l = 3 => N = NDIRECT + w + w * w + (j.ix[1] - 1) * (w * w)
  BY NumberFacts
<1>5. w * (w * w) = w * w * w
  BY <1>1
<1>6. l = 0 \/ l = 1 \/ l = 2 \/ l = 3
  BY <1>2
<1> HIDE DEF l, N
<1>7. CASE l = 0
  BY <1>1, <1>3, <1>4, <1>7 DEF Start, Wide, l, N
<1>8. CASE l = 1
  BY <1>1, <1>3, <1>4, <1>8 DEF Start, Wide, l, N
<1>9. CASE l = 2
  BY <1>1, <1>3, <1>4, <1>9 DEF Start, Wide, l, N
<1>10. CASE l = 3
  BY <1>1, <1>3, <1>4, <1>5, <1>10 DEF Start, Wide, l, N
<1> QED
  BY <1>6, <1>7, <1>8, <1>9, <1>10

\* One data block further.
LEMMA AdvanceNumber ==
    ASSUME NEW d \in Disks, NEW j, NEW k, Loops(d, j), Loops(d, k), k.lvl = j.lvl, k.tab = j.tab,
           Len(j.tab) = Depth(j.lvl), Bumped(k.ix, j.ix, Len(j.tab))
    PROVE  BlockNumber(d, k) = BlockNumber(d, j) + 1 /\ BlockNumber(d, j) \in Nat
<1> DEFINE w == PerBlock(d)
           n == Len(j.tab)
           l == j.lvl
           a == j.ix[1] - 1
           b == j.ix[2] - 1
           c == j.ix[3] - 1
           N == BlockNumber(d, j)
           M == BlockNumber(d, k)
<1>1. l \in 0..3 /\ n = (IF l = 0 THEN 1 ELSE l)
  BY Places DEF Depth
<1>2. w \in Nat /\ NDIRECT \in Nat /\ w * w \in Nat
  BY FormatFacts, Ext2Assumption
<1>3. \A x \in 1..n : j.ix[x] \in Nat /\ j.ix[x] >= 1
  <2>1. Wide(d, l) \in Nat
    BY <1>2 DEF Wide
  <2>2. \A x \in 1..n : j.ix[x] \in 1..(IF x = n THEN Wide(d, l) + 1 ELSE Wide(d, l))
    BY DEF Loops
  <2> QED
    BY <2>1, <2>2
<1>4. /\ l = 0 => N = a
      /\ l = 1 => N = NDIRECT + a
      /\ l = 2 => N = NDIRECT + w + a * w + b
      /\ l = 3 => N = NDIRECT + w + w * w + a * (w * w) + b * w + c
  <2>1. (l = 0 => n = 1) /\ (l = 1 => n = 1) /\ (l = 2 => n = 2) /\ (l = 3 => n = 3)
    BY <1>1
  <2> QED
    BY <2>1, NumberFacts
<1>5. /\ l = 0 => M = k.ix[1] - 1
      /\ l = 1 => M = NDIRECT + (k.ix[1] - 1)
      /\ l = 2 => M = NDIRECT + w + (k.ix[1] - 1) * w + (k.ix[2] - 1)
      /\ l = 3 => M = NDIRECT + w + w * w + (k.ix[1] - 1) * (w * w) + (k.ix[2] - 1) * w + (k.ix[3] - 1)
  <2>1. /\ l = 0 => Len(k.tab) = 1
        /\ l = 1 => Len(k.tab) = 1
        /\ l = 2 => Len(k.tab) = 2
        /\ l = 3 => Len(k.tab) = 3
    BY <1>1
  <2>2. k.lvl = l
    OBVIOUS
  <2> HIDE DEF l
  <2> QED
    BY <2>1, <2>2, NumberFacts
<1>6. /\ n >= 1 => a \in Nat
      /\ n >= 2 => b \in Nat
      /\ n >= 3 => c \in Nat
      /\ n = 1 => k.ix[1] - 1 = a + 1
      /\ n = 2 => k.ix[1] - 1 = a /\ k.ix[2] - 1 = b + 1
      /\ n = 3 => k.ix[1] - 1 = a /\ k.ix[2] - 1 = b /\ k.ix[3] - 1 = c + 1
  <2>1. n \in Nat
    BY <1>1
  <2>2. (n >= 1 => 1 \in 1..n) /\ (n >= 2 => 2 \in 1..n) /\ (n >= 3 => 3 \in 1..n)
    BY <2>1
  <2>3. (n >= 1 => a \in Nat) /\ (n >= 2 => b \in Nat) /\ (n >= 3 => c \in Nat)
    BY <1>3, <2>2
  <2>7. \A x \in 1..n : k.ix[x] = IF x = n THEN j.ix[x] + 1 ELSE j.ix[x]
    BY DEF Bumped
  <2> HIDE DEF n
  <2>4. n = 1 => k.ix[1] - 1 = a + 1
    BY <1>3, <2>2, <2>7
  <2>5. n = 2 => k.ix[1] - 1 = a /\ k.ix[2] - 1 = b + 1
    BY <1>3, <2>1, <2>2, <2>7
  <2>6. n = 3 => k.ix[1] - 1 = a /\ k.ix[2] - 1 = b /\ k.ix[3] - 1 = c + 1
    BY <1>3, <2>1, <2>2, <2>7
  <2> QED
    BY <2>3, <2>4, <2>5, <2>6
<1>7. l = 0 \/ l = 1 \/ l = 2 \/ l = 3
  BY <1>1
<1> HIDE DEF w, n, l, a, b, c, N, M
<1>8. CASE l = 0
  BY <1>1, <1>4, <1>5, <1>6, <1>8 DEF N, M
<1>9. CASE l = 1
  BY <1>1, <1>2, <1>4, <1>5, <1>6, <1>9 DEF N, M
<1>10. CASE l = 2
  <2>1. n = 2 /\ a \in Nat /\ b \in Nat /\ k.ix[1] - 1 = a /\ k.ix[2] - 1 = b + 1
    BY <1>1, <1>6, <1>10
  <2>2. a * w \in Nat
    BY <1>2, <2>1
  <2> DEFINE q == a * w
  <2>3. N = NDIRECT + w + q + b /\ M = NDIRECT + w + q + (b + 1) /\ q \in Nat
    BY <1>4, <1>5, <1>10, <2>1, <2>2
  <2> HIDE DEF q
  <2>4. M = N + 1 /\ N \in Nat
    BY <1>2, <2>1, <2>3
  <2> QED
    BY <2>4 DEF N, M
<1>11. CASE l = 3
  <2>1. /\ n = 3 /\ a \in Nat /\ b \in Nat /\ c \in Nat
        /\ k.ix[1] - 1 = a /\ k.ix[2] - 1 = b /\ k.ix[3] - 1 = c + 1
    BY <1>1, <1>6, <1>11
  <2>2. a * (w * w) \in Nat /\ b * w \in Nat
    BY <1>2, <2>1
  <2>3. /\ N = NDIRECT + w + w * w + a * (w * w) + b * w + c
        /\ M = NDIRECT + w + w * w + a * (w * w) + b * w + (c + 1)
    BY <1>4, <1>5, <1>11, <2>1
  <2> DEFINE q == NDIRECT + w + w * w + a * (w * w) + b * w
  <2>4. q \in Nat /\ N = q + c /\ M = q + (c + 1)
    BY <1>2, <2>2, <2>3
  <2> HIDE DEF q
  <2>5. M = N + 1 /\ N \in Nat
    BY <2>1, <2>4
  <2> QED
    BY <2>5 DEF N, M
<1> QED
  BY <1>7, <1>8, <1>9, <1>10, <1>11
-----------------------------------------------------------------------------
\* The copy of ext2_read_file()

\* Nothing is copied, and the loops go on at the same block.
LEMMA CopySame ==
    ASSUME NEW d, NEW j, NEW k, Copy(d, j), k.inode = j.inode, k.mmap = j.mmap, k.size = j.size,
           j.size > 0 => k.pc # "end" /\ BlockNumber(d, k) = BlockNumber(d, j)
    PROVE  Copy(d, k)
BY DEF Copy, Begun

\* What is missing begins at the block the loops are at.
LEMMA Missing ==
    ASSUME NEW d \in Disks, NEW j, Copy(d, j), j.size > 0, IsFile(d, j.inode)
    PROVE  BlockNumber(d, j) * BlockSize(d) < j.inode.size
<1> DEFINE e == Len(j.mmap)
           s == j.size
           t == j.inode.size
<1>1. e = BlockNumber(d, j) * BlockSize(d) /\ e \in Nat /\ s \in Nat /\ e + s = t /\ s > 0
  BY DEF Copy
<1> HIDE DEF e, s, t
<1>2. e < t
  BY <1>1
<1> QED
  BY <1>1, <1>2 DEF t

\* A loop ends before the file does only at its limit.
LEMMA AtLimit ==
    ASSUME NEW d \in Disks, NEW j, Loops(d, j), IsFile(d, j.inode), Copy(d, j), j.size > 0,
           PointerIn(d, j) = 0
    PROVE  Len(j.tab) > 0 /\ j.ix[Len(j.tab)] = Wide(d, j.lvl) + 1
<1> DEFINE n == Len(j.tab)
           w == Wide(d, j.lvl)
           y == j.ix[n]
<1>1. n # 0 /\ ~(y <= w)
  BY Missing, OnPath
<1>2. n \in Nat /\ w \in Nat
  BY Places, FormatFacts, Ext2Assumption DEF Wide
<1>3. n > 0 /\ n \in 1..n
  BY <1>1, <1>2
<1>4. y \in 1..(w + 1)
  BY <1>3 DEF Loops
<1> HIDE DEF y, w, n
<1>5. y = w + 1
  BY <1>1, <1>2, <1>4
<1> QED
  BY <1>3, <1>5 DEF y, w, n

\* The fields of a level that begins.
LEMMA LevelFields ==
    ASSUME NEW j, IsJobRec(j), NEW l \in 0..4, NEW k, k = Level(j, l)
    PROVE  /\ IsJobRec(k) /\ k.inum = j.inum /\ k.inode = j.inode /\ k.lvl = l
           /\ k.mmap = j.mmap /\ k.size = j.size
           /\ k.ix = (IF l = 0 THEN <<1>> ELSE <<>>)
           /\ k.tab = (IF l = 0 THEN <<SubSeq(j.inode.block, 1, NDIRECT)>> ELSE <<>>)
           /\ k.pc = (IF l > 3 THEN "end" ELSE "scan")
BY DEF IsJobRec, Level

\* LoopEnd(): the level or the table is left.
LEMMA LoopEndOk ==
    ASSUME NEW d \in Disks, NEW j, IsJobRec(j), j.pc = "scan", Loops(d, j), IsFile(d, j.inode),
           Copy(d, j), PointerIn(d, j) = 0, NEW k,
           \/ Len(j.tab) <= 1 /\ k = Level(j, j.lvl + 1)
           \/ ~(Len(j.tab) <= 1) /\ k = [j EXCEPT !.tab = SubSeq(j.tab, 1, Len(j.tab) - 1),
                                                  !.ix = Popped(j.ix, Len(j.tab) - 1)]
    PROVE  /\ IsJobRec(k) /\ k.pc \in {"scan", "end"} /\ k.inum = j.inum /\ k.inode = j.inode
           /\ Copy(d, k) /\ (k.pc = "scan" => Loops(d, k))
<1> DEFINE n == Len(j.tab)
           l == j.lvl
<1>1. n \in Nat /\ l \in 0..3
  BY Places
<1>2. CASE n <= 1
  <2>1. k = Level(j, l + 1) /\ l + 1 \in 0..4 /\ l + 1 # 0
    BY <1>1, <1>2
  <2>2. /\ IsJobRec(k) /\ k.inum = j.inum /\ k.inode = j.inode /\ k.lvl = l + 1
        /\ k.mmap = j.mmap /\ k.size = j.size /\ k.ix = <<>> /\ k.tab = <<>>
        /\ k.pc = IF l + 1 > 3 THEN "end" ELSE "scan"
    <3> HIDE DEF l
    <3> QED
      BY <2>1, LevelFields
  <2>3. k.pc = "scan" => Loops(d, k) /\ BlockNumber(d, k) = Start(d, k.lvl)
    <3> HAVE k.pc = "scan"
    <3>1. k.lvl \in 1..3
      BY <1>1, <2>2
    <3> QED
      BY <2>2, <3>1, EnterLoops
  <2>4. ASSUME j.size > 0
        PROVE  k.pc # "end" /\ BlockNumber(d, k) = BlockNumber(d, j)
    <3>1. n > 0 /\ j.ix[n] = Wide(d, l) + 1
      BY <2>4, AtLimit
    <3>2. n = 1
      <4> HIDE DEF n
      <4> QED
        BY <1>1, <1>2, <3>1
    <3>3. BlockNumber(d, j) = Start(d, l + 1)
      BY <3>1, <3>2, LeaveNumber
    <3>4. l # 3
      <4> SUFFICES ASSUME l = 3 PROVE FALSE
        OBVIOUS
      <4> DEFINE w == PerBlock(d)
      <4>1. Start(d, l + 1) = NDIRECT + w + w * w + w * w * w
        BY DEF Start
      <4>2. ~((NDIRECT + w + w * w + w * w * w) * BlockSize(d) < j.inode.size)
        BY DEF IsFile
      <4>3. BlockNumber(d, j) * BlockSize(d) < j.inode.size
        BY <2>4, Missing
      <4> QED
        BY <3>3, <4>1, <4>2, <4>3
    <3>5. k.pc = "scan"
      BY <1>1, <2>2, <3>4
    <3> QED
      BY <2>2, <2>3, <3>3, <3>5
  <2>5. Copy(d, k)
    BY <2>2, <2>4, CopySame
  <2> QED
    BY <2>2, <2>3, <2>5
<1>3. CASE ~(n <= 1)
  <2>1. k = [j EXCEPT !.tab = SubSeq(j.tab, 1, n - 1), !.ix = Popped(j.ix, n - 1)]
    BY <1>3
  <2>2. /\ IsJobRec(k) /\ k.inum = j.inum /\ k.inode = j.inode /\ k.lvl = l /\ k.pc = "scan"
        /\ k.mmap = j.mmap /\ k.size = j.size
        /\ k.ix = Popped(j.ix, n - 1) /\ k.tab = SubSeq(j.tab, 1, n - 1)
    BY <2>1 DEF IsJobRec
  <2>3. n >= 2
    BY <1>1, <1>3
  <2>4. Loops(d, k) /\ Len(k.tab) = n - 1 /\ Bumped(k.ix, j.ix, n - 1)
    BY <2>2, <2>3, PopLoops
  <2>5. ASSUME j.size > 0
        PROVE  BlockNumber(d, k) = BlockNumber(d, j)
    <3>1. j.ix[n] = Wide(d, l) + 1
      BY <2>5, AtLimit
    <3> QED
      BY <2>2, <2>3, <2>4, <3>1, PopNumber
  <2>6. Copy(d, k)
    BY <2>2, <2>5, CopySame
  <2> QED
    BY <2>2, <2>4, <2>6
<1> QED
  BY <1>2, <1>3

\* GetTable(): the table t below is entered.
Enters(k, j, t) == k = [j EXCEPT !.tab = Append(j.tab, t), !.ix = Append(j.ix, 1), !.pc = "scan"]
\* The fields of a job that enters a table.
LEMMA TableFields ==
    ASSUME NEW j, IsJobRec(j), NEW t, NEW k, Enters(k, j, t)
    PROVE  /\ IsJobRec(k) /\ k.inum = j.inum /\ k.inode = j.inode /\ k.lvl = j.lvl /\ k.pc = "scan"
           /\ k.mmap = j.mmap /\ k.size = j.size /\ k.ix = Append(j.ix, 1) /\ k.tab = Append(j.tab, t)
BY DEF IsJobRec, Enters

\* The loops and the copy are as they should be in the table below.
LEMMA TableOk ==
    ASSUME NEW d \in Disks, NEW j, IsJobRec(j), Loops(d, j), IsFile(d, j.inode), Copy(d, j),
           Len(j.tab) # Depth(j.lvl), PointerIn(d, j) # 0, NEW k,
           Enters(k, j, Entries(d, PointerIn(d, j)))
    PROVE  /\ IsJobRec(k) /\ k.pc = "scan" /\ k.inum = j.inum /\ k.inode = j.inode
           /\ Copy(d, k) /\ Loops(d, k)
<1>1. /\ IsJobRec(k) /\ k.inum = j.inum /\ k.inode = j.inode /\ k.lvl = j.lvl /\ k.pc = "scan"
      /\ k.mmap = j.mmap /\ k.size = j.size
      /\ k.ix = Append(j.ix, 1) /\ k.tab = Append(j.tab, Entries(d, PointerIn(d, j)))
  BY TableFields
<1>2. Len(j.tab) < Depth(j.lvl)
  <2>1. Len(j.tab) \in Nat /\ Len(j.tab) <= Depth(j.lvl) /\ j.lvl \in 0..3
    BY DEF Loops
  <2>2. Depth(j.lvl) \in Nat
    BY <2>1 DEF Depth
  <2> QED
    BY <2>1, <2>2
<1>3. Loops(d, k) /\ Len(k.tab) = Len(j.tab) + 1 /\ Pushed(k.ix, j.ix, Len(j.tab))
  BY <1>1, <1>2, PushLoops
<1>4. BlockNumber(d, k) = BlockNumber(d, j)
  BY <1>1, <1>2, <1>3, PushNumber
<1>5. Copy(d, k)
  BY <1>1, <1>4, CopySame
<1> QED
  BY <1>1, <1>3, <1>5

\* The beginning of r is put behind m.
LEMMA CopyOn ==
    ASSUME NEW S, NEW m \in Seq(S), NEW n \in Nat, NEW r, \A x \in 1..n : r[x] \in S
    PROVE  /\ m \o SubSeq(r, 1, n) \in Seq(S) /\ Len(m \o SubSeq(r, 1, n)) = Len(m) + n
           /\ \A x \in 1..(Len(m) + n) :
                 (m \o SubSeq(r, 1, n))[x] = IF x <= Len(m) THEN m[x] ELSE r[x - Len(m)]
<1> DEFINE t == SubSeq(r, 1, n)
           e == Len(m)
<1>1. /\ t \in Seq(S) /\ Len(t) = (IF 1 <= n THEN n - 1 + 1 ELSE 0)
      /\ \A x \in 1..(n - 1 + 1) : t[x] = r[1 + x - 1]
  <2>1. 1 \in Int /\ n \in Int
    OBVIOUS
  <2> QED
    BY <2>1, SubSeqProperties
<1>2. n - 1 + 1 = n /\ (IF 1 <= n THEN n - 1 + 1 ELSE 0) = n /\ \A x \in 1..n : 1 + x - 1 = x
  OBVIOUS
<1>3. Len(t) = n /\ \A x \in 1..n : t[x] = r[x]
  BY <1>1, <1>2
<1>4. e \in Nat
  OBVIOUS
<1>5. /\ m \o t \in Seq(S) /\ Len(m \o t) = e + Len(t)
      /\ \A x \in 1..(e + Len(t)) : (m \o t)[x] = IF x <= e THEN m[x] ELSE t[x - e]
  BY <1>1, ConcatProperties
<1> HIDE DEF t, e
<1>6. ASSUME NEW x \in 1..(e + n)
      PROVE  (m \o t)[x] = IF x <= e THEN m[x] ELSE r[x - e]
  <2>1. (m \o t)[x] = IF x <= e THEN m[x] ELSE t[x - e]
    BY <1>3, <1>5
  <2>2. ~(x <= e) => x - e \in 1..n
    BY <1>4
  <2> QED
    BY <1>3, <2>1, <2>2
<1> QED
  BY <1>3, <1>5, <1>6 DEF t, e

\* What disk_read() returned is the block the loops are at.
IsBlock(d, j, r) == \A x \in 1..BlockSize(d) : r[x] = Unit(d, BlockAt(d, PointerIn(d, j)) + x - 1)

\* How much of it is copied.
Taken(d, j) == IF j.size > BlockSize(d) THEN BlockSize(d) ELSE j.size

\* The loops of k are one block further than those of j.
Further(k, j) == /\ k.inode = j.inode /\ k.lvl = j.lvl /\ k.tab = j.tab /\ k.ix = Advanced(j.ix)

\* A block at most, and no more than is left.
LEMMA TakenFacts ==
    ASSUME NEW d \in Disks, NEW j, j.size \in Nat
    PROVE  /\ Taken(d, j) \in Nat /\ Taken(d, j) <= BlockSize(d) /\ j.size - Taken(d, j) \in Nat
           /\ (j.size - Taken(d, j) > 0 => Taken(d, j) = BlockSize(d) /\ j.size > 0)
           /\ (Taken(d, j) > 0 => j.size > 0)
<1> DEFINE B == BlockSize(d)
           s == j.size
           n == Taken(d, j)
<1>1. B \in Nat \ {0} /\ s \in Nat /\ n = IF s > B THEN B ELSE s
  BY FormatFacts DEF Taken
<1> HIDE DEF B, s, n
<1>2. n \in Nat /\ n <= B /\ s - n \in Nat /\ (s - n > 0 => n = B /\ s > 0) /\ (n > 0 => s > 0)
  BY <1>1
<1> QED
  BY <1>2 DEF B, s, n

\* The bytes of the block are bytes of the disk.
LEMMA BlockBytes ==
    ASSUME NEW d \in Disks, NEW j, NEW r, IsBlock(d, j, r), PointerIn(d, j) \in Nat
    PROVE  \A y \in 0..(BlockSize(d) - 1) :
              r[y + 1] = Unit(d, BlockAt(d, PointerIn(d, j)) + y) /\ r[y + 1] \in Units(d)
<1> DEFINE B == BlockSize(d)
           P == PointerIn(d, j)
           A == BlockAt(d, P)
           L == Lba(d) * SECT
<1>1. B \in Nat \ {0} /\ L \in Nat /\ P \in Nat /\ A = L + P * B
  BY FormatFacts DEF BlockAt
<1>2. \A x \in 1..B : r[x] = Unit(d, A + x - 1)
  BY DEF IsBlock
<1> HIDE DEF B, P, L, A
<1>3. A \in Nat
  <2>1. P * B \in Nat
    BY <1>1
  <2> QED
    BY <1>1, <2>1
<1>4. ASSUME NEW y \in 0..(B - 1)
      PROVE  r[y + 1] = Unit(d, A + y) /\ r[y + 1] \in Units(d)
  <2>1. y + 1 \in 1..B /\ A + (y + 1) - 1 = A + y /\ A + y \in Nat
    BY <1>1, <1>3
  <2> QED
    BY <1>2, <2>1 DEF Units
<1> QED
  BY <1>4 DEF B, P, A

\* The loops advance, and what is missing begins where the block does.
LEMMA DataLoops ==
    ASSUME NEW d \in Disks, NEW j, Loops(d, j), IsFile(d, j.inode), Copy(d, j),
           Len(j.tab) = Depth(j.lvl), PointerIn(d, j) # 0, NEW k, Further(k, j)
    PROVE  /\ Loops(d, k) /\ BlockNumber(d, k) = BlockNumber(d, j) + 1 /\ BlockNumber(d, j) \in Nat
           /\ j.size > 0 => /\ Len(j.mmap) = BlockNumber(d, j) * BlockSize(d)
                            /\ BlockIn(d, j.inode, BlockNumber(d, j)) = PointerIn(d, j)
<1>0. k.inode = j.inode /\ k.lvl = j.lvl /\ k.tab = j.tab /\ k.ix = Advanced(j.ix)
  BY DEF Further
<1>1. Loops(d, k) /\ Bumped(k.ix, j.ix, Len(j.tab)) /\ Len(j.tab) > 0
  BY <1>0, AdvanceLoops
<1>2. BlockNumber(d, k) = BlockNumber(d, j) + 1 /\ BlockNumber(d, j) \in Nat
  BY <1>0, <1>1, AdvanceNumber
<1>3. ASSUME j.size > 0
      PROVE  /\ Len(j.mmap) = BlockNumber(d, j) * BlockSize(d)
             /\ BlockIn(d, j.inode, BlockNumber(d, j)) = PointerIn(d, j)
  <2>1. Len(j.mmap) = BlockNumber(d, j) * BlockSize(d)
    BY <1>3 DEF Copy
  <2>2. BlockNumber(d, j) * BlockSize(d) < j.inode.size
    BY <1>3, Missing
  <2>3. j.ix[Len(j.tab)] <= Wide(d, j.lvl)
    BY <1>1, PointerFacts
  <2> QED
    BY <2>1, <2>2, <2>3, OnPath
<1> QED
  BY <1>1, <1>2, <1>3

\* GetData(): a block, or what is left of the file, is copied.
LEMMA DataOk ==
    ASSUME NEW d \in Disks, NEW j, Loops(d, j), IsFile(d, j.inode), Copy(d, j),
           Len(j.tab) = Depth(j.lvl), PointerIn(d, j) \in Nat \ {0},
           NEW r, IsBlock(d, j, r), NEW k, Further(k, j),
           k.mmap = j.mmap \o SubSeq(r, 1, Taken(d, j)), k.size = j.size - Taken(d, j), k.pc = "scan"
    PROVE  Loops(d, k) /\ Copy(d, k)
<1> DEFINE B == BlockSize(d)
           P == PointerIn(d, j)
           N == BlockNumber(d, j)
           s == j.size
           m == j.mmap
           e == Len(m)
           n == Taken(d, j)
           z == j.inode.size
           q == k.mmap
           C(x) == Unit(d, BlockAt(d, BlockIn(d, j.inode, x \div B)) + (x % B))
<1>1. /\ Loops(d, k) /\ BlockNumber(d, k) = N + 1 /\ N \in Nat
      /\ s > 0 => e = N * B /\ BlockIn(d, j.inode, N) = P
  BY DataLoops
<1>2. B \in Nat \ {0}
  BY FormatFacts
<1>3. /\ m \in Seq(Units(d)) /\ s \in Nat /\ e + s = z /\ e \in Nat
      /\ \A x \in 0..(e - 1) : m[x + 1] = C(x)
  <2>1. m \in Seq(Units(d)) /\ s \in Nat /\ e + s = z /\ Begun(d, j)
    BY DEF Copy
  <2>2. e \in Nat
    BY <2>1
  <2>3. \A x \in 0..(e - 1) : m[x + 1] = C(x)
    BY <2>1 DEF Begun
  <2> QED
    BY <2>1, <2>2, <2>3
<1>4. n \in Nat /\ n <= B /\ s - n \in Nat /\ (s - n > 0 => n = B /\ s > 0) /\ (n > 0 => s > 0)
  BY <1>3, TakenFacts
<1>5. \A y \in 0..(B - 1) : r[y + 1] = Unit(d, BlockAt(d, P) + y) /\ r[y + 1] \in Units(d)
  BY BlockBytes
<1>6. q = m \o SubSeq(r, 1, n) /\ k.size = s - n
  OBVIOUS
<1>20. k.inode = j.inode
  BY DEF Further
<1> HIDE DEF B, P, N, s, m, e, n, z, q, C
<1>7. \A x \in 1..n : r[x] \in Units(d)
  <2> SUFFICES ASSUME NEW x \in 1..n PROVE r[x] \in Units(d)
    OBVIOUS
  <2>1. x - 1 \in 0..(B - 1) /\ (x - 1) + 1 = x
    BY <1>2, <1>4
  <2> QED
    BY <1>5, <2>1
<1>8. /\ q \in Seq(Units(d)) /\ Len(q) = e + n
      /\ \A x \in 1..(e + n) : q[x] = IF x <= e THEN m[x] ELSE r[x - e]
  BY <1>3, <1>4, <1>6, <1>7, CopyOn DEF e
<1>9. ASSUME NEW x \in 0..((e + n) - 1)
      PROVE  q[x + 1] = C(x)
  <2>1. x + 1 \in 1..(e + n)
    BY <1>3, <1>4
  <2>2. q[x + 1] = IF x + 1 <= e THEN m[x + 1] ELSE r[(x + 1) - e]
    BY <1>8, <2>1
  <2>3. ASSUME x < e PROVE q[x + 1] = C(x)
    <3>1. x \in 0..(e - 1) /\ x + 1 <= e
      BY <1>3, <2>3
    <3> QED
      BY <1>3, <2>2, <3>1
  <2>4. ASSUME ~(x < e) PROVE q[x + 1] = C(x)
    <3>1. ~(x + 1 <= e) /\ n > 0
      BY <1>3, <1>4, <2>4
    <3>2. e = N * B /\ BlockIn(d, j.inode, N) = P
      BY <1>1, <1>4, <3>1
    <3> DEFINE y == x - e
    <3>3. y \in 0..(B - 1) /\ (x + 1) - e = y + 1 /\ x = e + y
      BY <1>2, <1>3, <1>4, <2>4
    <3> HIDE DEF y
    <3>4. x = N * B + y
      BY <3>2, <3>3
    <3>5. x \div B = N /\ x % B = y
      <4>1. N \in Nat /\ B \in Nat \ {0} /\ y \in 0..(B - 1)
        BY <1>1, <1>2, <3>3
      <4>2. (N * B + y) \div B = N /\ (N * B + y) % B = y
        BY <4>1, DivUnique
      <4> QED
        BY <3>4, <4>2
    <3>6. q[x + 1] = Unit(d, BlockAt(d, P) + y)
      BY <1>5, <2>2, <3>1, <3>3
    <3> QED
      BY <3>2, <3>5, <3>6 DEF C
  <2> QED
    BY <2>3, <2>4
<1>10. k.size \in Nat /\ Len(q) + k.size = z
  BY <1>3, <1>4, <1>6, <1>8
<1>11. k.size > 0 => Len(q) = BlockNumber(d, k) * B
  <2> SUFFICES ASSUME k.size > 0 PROVE Len(q) = BlockNumber(d, k) * B
    OBVIOUS
  <2>1. n = B /\ s > 0
    BY <1>4, <1>6
  <2>2. e = N * B
    BY <1>1, <2>1
  <2>3. (N + 1) * B = N * B + B
    BY <1>1, <1>2
  <2> QED
    BY <1>1, <1>8, <2>1, <2>2, <2>3
<1>12. Begun(d, k)
  <2>1. \A x \in 0..(Len(q) - 1) : q[x + 1] = C(x)
    BY <1>8, <1>9
  <2>2. \A x \in 0..(Len(k.mmap) - 1) :
           k.mmap[x + 1] = Unit(d, BlockAt(d, BlockIn(d, j.inode, x \div BlockSize(d))) + (x % BlockSize(d)))
    BY <2>1 DEF C, B, q
  <2> QED
    BY <1>20, <2>2 DEF Begun
<1>13. Copy(d, k)
  BY <1>8, <1>10, <1>11, <1>12, <1>20 DEF Copy, B, z, q
<1> QED
  BY <1>1, <1>13

\* ReadFile(): the loop over the direct blocks begins.
LEMMA BeginOk ==
    ASSUME NEW d \in Disks, NEW j, IsJobRec(j), IsFile(d, j.inode), j.mmap = <<>>, j.size = j.inode.size,
           NEW k, k = Level(j, 0)
    PROVE  IsJobRec(k) /\ k.pc = "scan" /\ k.inum = j.inum /\ k.inode = j.inode /\ Loops(d, k) /\ Copy(d, k)
<1> DEFINE u == SubSeq(j.inode.block, 1, NDIRECT)
<1>1. /\ IsJobRec(k) /\ k.inum = j.inum /\ k.inode = j.inode /\ k.lvl = 0
      /\ k.mmap = <<>> /\ k.size = j.inode.size /\ k.ix = <<1>> /\ k.tab = <<u>> /\ k.pc = "scan"
  <2>1. 0 \in 0..4
    OBVIOUS
  <2> QED
    BY <2>1, LevelFields
<1>2. NDIRECT \in Nat \ {0} /\ j.inode.size \in Nat /\ j.inode.block \in [1..(NDIRECT + 3) -> BlockNumbers(d)]
  BY Ext2Assumption DEF IsFile
<1>3. u \in Seq(BlockNumbers(d)) /\ Len(u) = NDIRECT /\ \A x \in 1..NDIRECT : u[x] = j.inode.block[x]
  <2>1. \A x \in 1..NDIRECT : j.inode.block[x] \in BlockNumbers(d)
    BY <1>2
  <2>2. /\ u \in Seq(BlockNumbers(d)) /\ Len(u) = (IF 1 <= NDIRECT THEN NDIRECT - 1 + 1 ELSE 0)
        /\ \A x \in 1..(NDIRECT - 1 + 1) : u[x] = j.inode.block[1 + x - 1]
    BY <1>2, <2>1, SubSeqProperties
  <2>3. /\ (IF 1 <= NDIRECT THEN NDIRECT - 1 + 1 ELSE 0) = NDIRECT /\ NDIRECT - 1 + 1 = NDIRECT
        /\ \A x \in 1..NDIRECT : 1 + x - 1 = x
    BY <1>2
  <2> QED
    BY <2>2, <2>3
<1> HIDE DEF u
<1>4. u \in [1..NDIRECT -> BlockNumbers(d)]
  BY <1>2, <1>3
<1>5. Wide(d, k.lvl) = NDIRECT /\ Depth(k.lvl) = 1
  BY <1>1 DEF Wide, Depth
<1>6. /\ k.tab \in Seq([1..NDIRECT -> BlockNumbers(d)]) /\ Len(k.tab) = 1 /\ k.tab[1] = u
      /\ k.ix \in Seq(Nat) /\ Len(k.ix) = 1 /\ k.ix[1] = 1
  <2> DEFINE S == [1..NDIRECT -> BlockNumbers(d)]
  <2>0. u \in S
    BY <1>4
  <2> HIDE DEF S
  <2>1. <<u>> \in Seq(S) /\ Len(<<u>>) = 1 /\ <<u>>[1] = u
    BY <2>0
  <2>2. <<1>> \in Seq(Nat) /\ Len(<<1>>) = 1 /\ <<1>>[1] = 1
    OBVIOUS
  <2> QED
    BY <1>1, <2>1, <2>2 DEF S
<1>7. Loops(d, k)
  <2>1. \A x \in 1..1 : k.ix[x] \in 1..(IF x = 1 THEN NDIRECT + 1 ELSE NDIRECT)
    BY <1>2, <1>6
  <2>2. k.lvl = 0 /\ k.lvl \in 0..3 /\ 1..(1 - 1) = {}
    BY <1>1
  <2>3. \A x \in 1..NDIRECT : k.tab[1][x] = k.inode.block[x]
    BY <1>1, <1>3, <1>6
  <2> DEFINE S == [1..NDIRECT -> BlockNumbers(d)]
             lv == k.lvl
             ix == k.ix
             tab == k.tab
             node == k.inode
  <2>4. /\ tab \in Seq(S) /\ Len(tab) = 1 /\ ix \in Seq(Nat) /\ Len(ix) = 1 /\ lv = 0
        /\ Wide(d, lv) = NDIRECT /\ Depth(lv) = 1
        /\ \A x \in 1..1 : ix[x] \in 1..(IF x = 1 THEN NDIRECT + 1 ELSE NDIRECT)
        /\ \A x \in 1..NDIRECT : tab[1][x] = node.block[x]
    BY <1>5, <1>6, <2>1, <2>2, <2>3
  <2> HIDE DEF S, lv, ix, tab, node
  <2>5. /\ lv \in 0..3 /\ Len(ix) = Len(tab) /\ Len(tab) <= Depth(lv)
        /\ \A x \in 1..Len(tab) : ix[x] \in 1..(IF x = Len(tab) THEN Wide(d, lv) + 1 ELSE Wide(d, lv))
        /\ (lv = 0 => Len(tab) = 1 /\ \A x \in 1..NDIRECT : tab[1][x] = node.block[x])
        /\ ~(lv > 0) /\ 1..(Len(tab) - 1) = {}
    BY <2>4
  <2>6. tab \in Seq([1..Wide(d, lv) -> BlockNumbers(d)]) /\ ix \in Seq(Nat)
    BY <2>4 DEF S
  <2> QED
    BY <2>5, <2>6 DEF Loops, lv, ix, tab, node
<1>8. BlockNumber(d, k) = 0
  <2>1. k.lvl = 0 /\ Len(k.tab) = 1 => BlockNumber(d, k) = k.ix[1] - 1
    BY <1>7, NumberFacts
  <2> QED
    BY <1>1, <1>6, <2>1
<1>9. Len(k.mmap) = 0 /\ k.mmap \in Seq(Units(d)) /\ 0 * BlockSize(d) = 0
  <2>1. BlockSize(d) \in Nat
    BY FormatFacts
  <2>2. 0 * BlockSize(d) = 0
    BY <2>1
  <2> DEFINE S == Units(d)
  <2> HIDE DEF S
  <2>3. << >> \in Seq(S) /\ Len(<< >>) = 0
    OBVIOUS
  <2> QED
    BY <1>1, <2>2, <2>3 DEF S
<1>10. Copy(d, k)
  <2>1. Begun(d, k)
    <3>1. 0..(Len(k.mmap) - 1) = {}
      BY <1>9
    <3> QED
      BY <3>1 DEF Begun
  <2>2. k.size \in Nat /\ Len(k.mmap) + k.size = k.inode.size
    <3> DEFINE l == Len(k.mmap)
               z == j.inode.size
    <3>1. l = 0
      BY <1>9
    <3>2. z \in Nat
      BY <1>2
    <3>3. k.size = z /\ k.inode.size = z
      BY <1>1
    <3> HIDE DEF l, z
    <3>4. l + z = z
      BY <3>1, <3>2
    <3>5. l + k.size = k.inode.size /\ k.size \in Nat
      BY <3>2, <3>3, <3>4
    <3> QED
      BY <3>5 DEF l
  <2>3. k.pc # "end" /\ Len(k.mmap) = BlockNumber(d, k) * BlockSize(d)
    BY <1>1, <1>8, <1>9
  <2> QED
    BY <1>9, <2>1, <2>2, <2>3 DEF Copy
<1> QED
  BY <1>1, <1>7, <1>10

\* What the reader asks for is a range that disk_read() can read.

\* An inode of the disk is a file.
LEMMA InodeIsFile ==
    ASSUME NEW d \in Disks, NEW i \in Inums(d)
    PROVE  IsFile(d, Inode(d, i))
BY FormatAssumption DEF Formatted

\* A block begins at an address.
LEMMA BlockAtNat ==
    ASSUME NEW d \in Disks, NEW b \in Nat
    PROVE  BlockAt(d, b) \in Nat
<1> DEFINE L == Lba(d) * SECT
           B == BlockSize(d)
<1>1. L \in Nat /\ B \in Nat /\ BlockAt(d, b) = L + b * B
  BY FormatFacts DEF BlockAt
<1> HIDE DEF L, B
<1>2. b * B \in Nat
  BY <1>1
<1> QED
  BY <1>1, <1>2

\* So do the descriptors, and they have a length.
LEMMA DescriptorsNat ==
    ASSUME NEW d \in Disks
    PROVE  /\ Descriptors(d) \in Nat /\ Groups(SuperBlock(d)) * GDSIZE \in Nat
           /\ Fits(Descriptors(d), Groups(SuperBlock(d)) * GDSIZE)
<1> DEFINE L == Lba(d) * SECT
           B == BlockSize(d)
           G == Groups(SuperBlock(d))
<1>1. L \in Nat /\ B \in Nat /\ Descriptors(d) = L + (IF B = KB THEN 2 * KB ELSE B)
  BY FormatFacts DEF Descriptors
<1>2. G \in Nat
  BY InodeFacts
<1>3. KB \in Nat /\ GDSIZE \in Nat
  BY Ext2Assumption
<1> HIDE DEF L, B, G
<1>4. G * GDSIZE \in Nat
  BY <1>2, <1>3
<1>5. Descriptors(d) \in Nat
  BY <1>1, <1>3
<1>6. Fits(Descriptors(d), Groups(SuperBlock(d)) * GDSIZE)
  BY FormatAssumption DEF Formatted
<1> QED
  BY <1>4, <1>5, <1>6 DEF G

\* What a job asks for is a range of addresses that disk_read() can read.
LEMMA JobNumbers ==
    ASSUME NEW d \in Disks, NEW j, NEW o, NEW c, NEW h, JobOk(j, o, c, d, h)
    PROVE  o \in Nat /\ c \in Nat /\ Fits(o, c)
<1>1. CASE j.pc \in {"idle", "start", "scan", "end"}
  BY <1>1, NothingFits DEF JobOk
<1>2. CASE j.pc = "part"
  <2>1. o = PARTOFF /\ c = PARTSIZE
    BY <1>2 DEF JobOk
  <2>2. Fits(PARTOFF, PARTSIZE)
    BY FormatAssumption DEF Formatted
  <2> QED
    BY <2>1, <2>2, Ext2Assumption
<1>3. CASE j.pc = "sb"
  <2>1. o = Lba(d) * SECT + KB /\ c = SBSIZE
    BY <1>3 DEF JobOk
  <2>2. Lba(d) * SECT \in Nat /\ KB \in Nat /\ SBSIZE \in Nat
    BY FormatFacts, Ext2Assumption
  <2> DEFINE L == Lba(d) * SECT
  <2> HIDE DEF L
  <2>3. L + KB \in Nat
    BY <2>2 DEF L
  <2>4. Fits(Lba(d) * SECT + KB, SBSIZE)
    BY FormatAssumption DEF Formatted
  <2> QED
    BY <2>1, <2>2, <2>3, <2>4 DEF L
<1>4. CASE j.pc = "gd"
  BY <1>4, DescriptorsNat DEF JobOk
<1>5. CASE j.pc = "inode"
  <2>1. o = InodeAt(d, j.inum) /\ c = SuperBlock(d).isize /\ j.inum \in Inums(d)
    BY <1>5 DEF JobOk
  <2>2. InodeAt(d, j.inum) \in Nat /\ Fits(InodeAt(d, j.inum), SuperBlock(d).isize)
    BY <2>1, InodeFacts
  <2>3. SuperBlock(d).isize \in Nat
    BY FormatFacts
  <2> QED
    BY <2>1, <2>2, <2>3
<1>6. CASE j.pc \in {"table", "data"}
  <2>1. /\ PointerIn(d, j) \in BlockNumbers(d) \ {0}
        /\ o = BlockAt(d, PointerIn(d, j)) /\ c = BlockSize(d)
    BY <1>6 DEF JobOk
  <2>2. PointerIn(d, j) \in Nat /\ Fits(o, c)
    BY <2>1, BlockNumbersFacts
  <2> QED
    BY <2>1, <2>2, BlockAtNat, FormatFacts
<1>7. j.pc \in {"idle", "start", "part", "sb", "gd", "inode", "scan", "table", "data", "end"}
  BY DEF JobOk
<1> QED
  BY <1>1, <1>2, <1>3, <1>4, <1>5, <1>6, <1>7

-----------------------------------------------------------------------------
\* From the jobs to the steps

\* A process that reads nothing does not care for struct disk.
LEMMA IdleOk ==
    ASSUME NEW j, j.pc = "idle", NEW o, NEW c, NEW d, NEW h, NEW g, JobOk(j, o, c, d, h)
    PROVE  JobOk(j, o, c, d, g)
BY DEF JobOk

\* A step of p keeps the invariant if it does for p.
LEMMA FileStep ==
    ASSUME FileInv, DiskInv, ~PREEMPT, NEW p \in Proc, Runs(p), NEW r, NEW j,
           ReqIs(p, r), JobIs(p, j), medium' = medium,
           IsHd(hd'), hd'.gd # <<>> => hd' = Info(medium), JobOk(j, r.offset, r.count, medium, hd')
    PROVE  FileInv'
<1>1. ASSUME NEW q \in Proc
      PROVE  JobOk(job'[q], req'[q].offset, req'[q].count, medium', hd')
  <2>1. CASE q = p
    BY <2>1 DEF ReqIs, JobIs
  <2>2. CASE q # p
    <3>1. req'[q] = req[q] /\ job'[q] = job[q]
      BY <2>2 DEF ReqIs, JobIs
    <3>2. job[q].pc = "idle"
      BY <2>2, Alone
    <3>3. JobOk(job[q], req[q].offset, req[q].count, medium, hd)
      BY DEF FileInv, JobInv
    <3>4. JobOk(job[q], req[q].offset, req[q].count, medium, hd')
      BY <3>2, <3>3, IdleOk
    <3> QED
      BY <3>1, <3>4
  <2> QED
    BY <2>1, <2>2
<1>2. medium' \in Disks /\ IsHd(hd') /\ (hd'.gd # <<>> => hd' = Info(medium'))
  BY DEF FileInv
<1> QED
  BY <1>1, <1>2 DEF FileInv, JobInv

\* p calls disk_read().
LEMMA AskFile ==
    ASSUME FileInv, DiskInv, ~PREEMPT, NEW p \in Proc, Runs(p), NEW o, NEW c, NEW j,
           Request(p, o, c), job' = [job EXCEPT ![p] = j],
           IsHd(hd'), hd'.gd # <<>> => hd' = Info(medium), JobOk(j, o, c, medium, hd')
    PROVE  FileInv'
<1> DEFINE r == disk_read(AsInt(o), AsInt(c))
<1>1. ReqIs(p, r) /\ JobIs(p, j) /\ medium' = medium
  BY ReqStep, JobStep DEF Request
<1>2. r.offset = o /\ r.count = c
  <2>1. o \in Nat /\ c \in Nat /\ o + c < INT /\ INT \in Nat
    BY JobNumbers, DiskAssumption DEF FileInv, Fits
  <2>2. AsInt(o) = o /\ AsInt(c) = c
    BY <2>1, AsIntSame
  <2> QED
    BY <2>2 DEF disk_read
<1> HIDE DEF r
<1>3. JobOk(j, r.offset, r.count, medium, hd')
  BY <1>2
<1> QED
  BY <1>1, <1>3, FileStep

\* p is done with what disk_read() returned.
LEMMA DoneFile ==
    ASSUME FileInv, DiskInv, ~PREEMPT, NEW p \in Proc, Runs(p), NEW j,
           NoRequest(p), job' = [job EXCEPT ![p] = j],
           IsHd(hd'), hd'.gd # <<>> => hd' = Info(medium), JobOk(j, 0, 0, medium, hd')
    PROVE  FileInv'
<1>1. ReqIs(p, NoReq) /\ JobIs(p, j) /\ medium' = medium
  BY ReqStep, JobStep DEF NoRequest
<1>2. NoReq.offset = 0 /\ NoReq.count = 0
  BY DEF NoReq
<1>3. JobOk(j, NoReq.offset, NoReq.count, medium, hd')
  BY <1>2
<1> QED
  BY <1>1, <1>3, FileStep

\* p goes on without the disk.
LEMMA SameFile ==
    ASSUME FileInv, DiskInv, ~PREEMPT, NEW p \in Proc, Runs(p), NEW j,
           UNCHANGED <<medium, drive, req, hd>>, job' = [job EXCEPT ![p] = j],
           JobOk(j, req[p].offset, req[p].count, medium, hd)
    PROVE  FileInv'
<1>1. ReqIs(p, req[p]) /\ JobIs(p, j)
  BY JobStep DEF ReqIs, DiskInv
<1>2. medium' = medium /\ hd' = hd
  OBVIOUS
<1>3. IsHd(hd) /\ (hd.gd # <<>> => hd = Info(medium))
  BY DEF FileInv
<1>4. IsHd(hd') /\ (hd'.gd # <<>> => hd' = Info(medium)) /\ JobOk(j, req[p].offset, req[p].count, medium, hd')
  BY <1>2, <1>3
<1> QED
  BY <1>1, <1>2, <1>4, FileStep

\* A step of disk_read() leaves the range alone.
LEMMA RangeSame ==
    ASSUME DiskInv, NEW p \in Proc, DiskStep(p)
    PROVE  \E r : req' = [req EXCEPT ![p] = r] /\ r.offset = req[p].offset /\ r.count = req[p].count
<1>1. req = [q \in Proc |-> req[q]] /\ p \in DOMAIN req /\ IsReq(req[p])
  BY AtPlace
<1>2. CASE OutCount(p) \/ OutAddress(p) \/ OutCommand(p) \/ WaitReady(p)
  <2>1. \E v : req' = [req EXCEPT ![p].pc = v]
    BY <1>2 DEF OutCount, OutAddress, OutCommand, WaitReady
  <2>2. PICK v : req' = [req EXCEPT ![p].pc = v]
    BY <2>1
  <2> DEFINE r == [req[p] EXCEPT !.pc = v]
  <2>3. req' = [req EXCEPT ![p] = r]
    BY <1>1, <2>2
  <2>4. r.offset = req[p].offset /\ r.count = req[p].count
    BY <1>1 DEF IsReq
  <2> QED
    BY <2>3, <2>4
<1>3. CASE InSector(p)
  <2> DEFINE v == IF req[p].left = 1 THEN "done" ELSE "in"
             r == [req[p] EXCEPT !.buf = @ \o Port, !.left = @ - 1, !.pc = v]
  <2>1. req' = [req EXCEPT ![p] = r]
    BY <1>1, <1>3 DEF InSector
  <2>2. r.offset = req[p].offset /\ r.count = req[p].count
    BY <1>1 DEF IsReq
  <2> QED
    BY <2>1, <2>2
<1> QED
  BY <1>2, <1>3 DEF DiskStep

\* A step of disk_read() changes nothing for the reader.
LEMMA DiskFile ==
    ASSUME FileInv, DiskInv, ~PREEMPT, NEW p \in Proc, Runs(p), DiskStep(p), UNCHANGED <<hd, job>>
    PROVE  FileInv'
<1>1. PICK r : req' = [req EXCEPT ![p] = r] /\ r.offset = req[p].offset /\ r.count = req[p].count
  BY RangeSame
<1>2. ReqIs(p, r) /\ medium' = medium
  BY <1>1, ReqStep DEF DiskStep
<1>3. JobIs(p, job[p])
  BY DEF DiskInv, JobIs
<1>4. /\ IsHd(hd) /\ (hd.gd # <<>> => hd = Info(medium))
      /\ JobOk(job[p], req[p].offset, req[p].count, medium, hd)
  BY DEF FileInv, JobInv
<1>5. /\ IsHd(hd') /\ (hd'.gd # <<>> => hd' = Info(medium))
      /\ JobOk(job[p], r.offset, r.count, medium, hd')
  BY <1>1, <1>4
<1> QED
  BY <1>2, <1>3, <1>5, FileStep
-----------------------------------------------------------------------------
\* The ranges are numbers, so disk_read() returns what lies there.

\* Every request asks for a range of addresses.
LEMMA FileInv_NumbersAll == FileInv => NumbersAll
BY JobNumbers DEF FileInv, JobInv, NumbersAll, Numbers

\* What p got, value by value.
LEMMA ResultIs ==
    ASSUME FileInv, DiskInv, NEW p \in Proc, req[p].pc = "done"
    PROVE  /\ req[p].offset \in Nat /\ req[p].count \in Nat
           /\ \A k \in 1..req[p].count : Result(req[p])[k] = Unit(medium, req[p].offset + (k - 1))
<1>1. req[p].offset \in Nat /\ req[p].count \in Nat
  BY FileInv_NumbersAll DEF NumbersAll, Numbers
<1>2. Result(req[p]) = [k \in 1..req[p].count |-> Unit(medium, req[p].offset + k - 1)]
  BY FileInv_NumbersAll, DiskInv_ReadExact DEF ReadExact
<1> DEFINE o == req[p].offset
           c == req[p].count
           f == Result(req[p])
<1> HIDE DEF o, c, f
<1>3. ASSUME NEW k \in 1..c PROVE f[k] = Unit(medium, o + (k - 1))
  <2>1. o + k - 1 = o + (k - 1)
    BY <1>1 DEF o, c
  <2>2. f = [x \in 1..c |-> Unit(medium, o + x - 1)]
    BY <1>2 DEF f, o, c
  <2>3. f[k] = Unit(medium, o + k - 1)
    BY <2>2
  <2> QED
    BY <2>1, <2>3
<1> QED
  BY <1>1, <1>3 DEF o, c, f

\* The first of them.
LEMMA FirstIs ==
    ASSUME FileInv, DiskInv, NEW p \in Proc, req[p].pc = "done", req[p].count # 0
    PROVE  Result(req[p])[1] = Unit(medium, req[p].offset)
<1> DEFINE o == req[p].offset
           c == req[p].count
           f == Result(req[p])
<1>1. o \in Nat /\ c \in Nat /\ c # 0 /\ \A k \in 1..c : f[k] = Unit(medium, o + (k - 1))
  BY ResultIs
<1> HIDE DEF o, c, f
<1>2. 1 \in 1..c /\ o + (1 - 1) = o
  BY <1>1
<1>3. f[1] = Unit(medium, o)
  BY <1>1, <1>2
<1> QED
  BY <1>3 DEF f, o

\* The helpers of the code on a disk that is mounted.
LEMMA MountedFacts ==
    ASSUME medium \in Disks, hd = Info(medium)
    PROVE  /\ hd.blocksize = BlockSize(medium) /\ hd.isize = SuperBlock(medium).isize
           /\ hd.lba = Lba(medium) /\ hd.ipg = SuperBlock(medium).ipg
           /\ hd.groups = Groups(SuperBlock(medium))
           /\ hd.gd = [g \in 1..Groups(SuperBlock(medium)) |-> GroupTable(medium, g)]
           /\ s_part = Lba(medium) * SECT
           /\ \A b : BlockOffset(b) = BlockAt(medium, b)
           /\ \A l : Width(l) = Wide(medium, l)
           /\ \A j : Pointer(j) = PointerIn(medium, j)
           /\ \A j : Copied(j) = Taken(medium, j)
<1>1. /\ hd.blocksize = BlockSize(medium) /\ hd.isize = SuperBlock(medium).isize
      /\ hd.lba = Lba(medium) /\ hd.ipg = SuperBlock(medium).ipg
      /\ hd.groups = Groups(SuperBlock(medium))
      /\ hd.gd = [g \in 1..Groups(SuperBlock(medium)) |-> GroupTable(medium, g)]
  BY DEF Info
<1>2. s_part = Lba(medium) * SECT
  BY <1>1 DEF s_part
<1>3. \A b : BlockOffset(b) = BlockAt(medium, b)
  BY <1>1, <1>2 DEF BlockOffset, BlockAt
<1>4. \A l : Width(l) = Wide(medium, l)
  BY <1>1 DEF Width, Wide, PerBlock
<1>5. \A j : Pointer(j) = PointerIn(medium, j)
  BY <1>4 DEF Pointer, PointerIn
<1>6. \A j : Copied(j) = Taken(medium, j)
  BY <1>1 DEF Copied, Taken
<1> QED
  BY <1>1, <1>2, <1>3, <1>4, <1>5, <1>6

\* Inode i is asked for where it lies.
LEMMA InodeOffsetIs ==
    ASSUME medium \in Disks, hd = Info(medium), NEW i \in Inums(medium)
    PROVE  s_part + InodeOffset(i) = InodeAt(medium, i)
<1> DEFINE s == SuperBlock(medium)
           a == ((i - 1) \div s.ipg) + 1
<1>1. a \in 1..Groups(s)
  BY InodeFacts
<1>2. hd.gd[a] = GroupTable(medium, a)
  BY <1>1, MountedFacts
<1>3. InodeOffset(i) = GroupTable(medium, a) * BlockSize(medium) + ((i - 1) % s.ipg) * s.isize
  BY <1>2, MountedFacts DEF InodeOffset
<1>4. s_part = Lba(medium) * SECT
  BY MountedFacts
<1> QED
  BY <1>3, <1>4 DEF InodeAt
-----------------------------------------------------------------------------
\* Mounting

\* Only the place in the code changes.
LEMMA PcFields ==
    ASSUME NEW j, IsJobRec(j), NEW v
    PROVE  LET k == [j EXCEPT !.pc = v]
           IN  /\ IsJobRec(k) /\ k.pc = v /\ k.inum = j.inum /\ k.inode = j.inode /\ k.lvl = j.lvl
               /\ k.ix = j.ix /\ k.tab = j.tab /\ k.size = j.size /\ k.mmap = j.mmap
BY DEF IsJobRec

\* A process that reads nothing is as it should be.
LEMMA NoJobOk ==
    ASSUME NEW d, NEW h
    PROVE  JobOk(NoJob, 0, 0, d, h)
BY DEF NoJob, JobOk, IsJobRec

\* What is known of p's job.
LEMMA AtJob ==
    ASSUME FileInv, DiskInv, NEW p \in Proc
    PROVE  /\ medium \in Disks /\ IsHd(hd) /\ (hd.gd # <<>> => hd = Info(medium))
           /\ job = [q \in Proc |-> job[q]] /\ p \in DOMAIN job
           /\ IsJobRec(job[p]) /\ JobOk(job[p], req[p].offset, req[p].count, medium, hd)
BY DEF FileInv, DiskInv, JobInv, JobOk

\* kmain() reads the partition table.
LEMMA ReadPartitionFile ==
    ASSUME FileInv, DiskInv, ~PREEMPT, NEW p \in Proc, ReadPartition(p)
    PROVE  FileInv'
<1> DEFINE j == [job[p] EXCEPT !.pc = "part"]
<1>1. job' = [job EXCEPT ![p] = j]
  BY AtJob DEF ReadPartition
<1>2. Runs(p) /\ Request(p, PARTOFF, PARTSIZE) /\ hd' = hd /\ job[p].pc = "start"
  BY DEF ReadPartition
<1>3. IsJobRec(j) /\ j.pc = "part" /\ j.inode = NoInode /\ j.mmap = <<>>
  <2>1. job[p].inode = NoInode /\ job[p].mmap = <<>>
    BY <1>2, AtJob DEF JobOk
  <2> QED
    BY <2>1, AtJob, PcFields
<1> HIDE DEF j
<1>4. JobOk(j, PARTOFF, PARTSIZE, medium, hd')
  BY <1>3 DEF JobOk
<1>5. IsHd(hd') /\ (hd'.gd # <<>> => hd' = Info(medium))
  BY <1>2, AtJob
<1> QED
  BY <1>1, <1>2, <1>4, <1>5, AskFile

\* The first partition begins where the format says.
LEMMA SuperBlockFile ==
    ASSUME FileInv, DiskInv, ~PREEMPT, NEW p \in Proc, ext2_read_sb(p)
    PROVE  FileInv'
<1> DEFINE j == [job[p] EXCEPT !.pc = "sb"]
           lba == Result(req[p])[1].lba
<1>1. job' = [job EXCEPT ![p] = j]
  BY AtJob DEF ext2_read_sb
<1>2. /\ Runs(p) /\ Request(p, lba * SECT + KB, SBSIZE) /\ hd' = [hd EXCEPT !.lba = lba]
      /\ job[p].pc = "part" /\ req[p].pc = "done"
  BY DEF ext2_read_sb, Got
<1>3. lba = Lba(medium)
  <2>1. req[p].offset = PARTOFF /\ req[p].count = PARTSIZE /\ PARTSIZE # 0
    BY <1>2, AtJob, Ext2Assumption DEF JobOk
  <2>2. Result(req[p])[1] = Unit(medium, PARTOFF)
    BY <1>2, <2>1, FirstIs
  <2> QED
    BY <2>2 DEF Lba
<1>4. IsJobRec(j) /\ j.pc = "sb" /\ j.inode = NoInode /\ j.mmap = <<>>
  <2>1. job[p].inode = NoInode /\ job[p].mmap = <<>>
    BY <1>2, AtJob DEF JobOk
  <2> QED
    BY <2>1, AtJob, PcFields
<1> HIDE DEF j, lba
<1>5. IsHd(hd') /\ hd'.lba = Lba(medium) /\ (hd'.gd # <<>> => hd' = Info(medium))
  <2>1. IsHd(hd) /\ (hd.gd # <<>> => hd = Info(medium))
    BY AtJob
  <2>2. IsHd(hd') /\ hd'.lba = Lba(medium) /\ hd'.gd = hd.gd
    BY <1>2, <1>3, <2>1 DEF IsHd
  <2>3. hd = Info(medium) => hd' = Info(medium)
    BY <1>2, <1>3 DEF Info
  <2> QED
    BY <2>1, <2>2, <2>3
<1>6. JobOk(j, lba * SECT + KB, SBSIZE, medium, hd')
  BY <1>3, <1>4, <1>5 DEF JobOk
<1> QED
  BY <1>1, <1>2, <1>5, <1>6, AskFile

\* The geometry is the one of the superblock.
LEMMA DescriptorsFile ==
    ASSUME FileInv, DiskInv, ~PREEMPT, NEW p \in Proc, ext2_read_gd(p)
    PROVE  FileInv'
<1> DEFINE j == [job[p] EXCEPT !.pc = "gd"]
           sb == Result(req[p])[1]
           bs == KB * 2 ^ sb.log
           o == s_part + (IF bs = KB THEN 2 * KB ELSE bs)
           c == (Groups(sb) % GROUPS) * GDSIZE
<1>1. job' = [job EXCEPT ![p] = j]
  BY AtJob DEF ext2_read_gd
<1>2. /\ Runs(p) /\ Request(p, o, c)
      /\ hd' = [hd EXCEPT !.blocksize = bs, !.groups = Groups(sb) % GROUPS, !.ipg = sb.ipg,
                          !.isize = sb.isize]
      /\ job[p].pc = "sb" /\ req[p].pc = "done"
  BY DEF ext2_read_gd, Got
<1>3. sb = SuperBlock(medium) /\ hd.lba = Lba(medium)
  <2>1. /\ req[p].offset = Lba(medium) * SECT + KB /\ req[p].count = SBSIZE /\ SBSIZE # 0
        /\ hd.lba = Lba(medium)
    BY <1>2, AtJob, Ext2Assumption DEF JobOk
  <2>2. Result(req[p])[1] = Unit(medium, Lba(medium) * SECT + KB)
    BY <1>2, <2>1, FirstIs
  <2> QED
    BY <2>1, <2>2 DEF SuperBlock
<1>4. bs = BlockSize(medium) /\ s_part = Lba(medium) * SECT
  BY <1>3 DEF BlockSize, s_part
<1>11. Groups(sb) % GROUPS = Groups(SuperBlock(medium))
  BY <1>3, AtJob, GroupsFacts
<1>5. o = Descriptors(medium) /\ c = Groups(SuperBlock(medium)) * GDSIZE
  BY <1>3, <1>4, <1>11 DEF Descriptors
<1>6. IsJobRec(j) /\ j.pc = "gd" /\ j.inode = NoInode /\ j.mmap = <<>>
  <2>1. job[p].inode = NoInode /\ job[p].mmap = <<>>
    BY <1>2, AtJob DEF JobOk
  <2> QED
    BY <2>1, AtJob, PcFields
<1> HIDE DEF j, sb, bs, o, c
<1>7. /\ IsHd(hd') /\ hd'.gd = hd.gd /\ hd'.lba = Lba(medium) /\ hd'.blocksize = BlockSize(medium)
      /\ hd'.groups = Groups(SuperBlock(medium)) /\ hd'.ipg = SuperBlock(medium).ipg
      /\ hd'.isize = SuperBlock(medium).isize
  <2>1. IsHd(hd)
    BY AtJob
  <2> QED
    BY <1>2, <1>3, <1>4, <1>11, <2>1 DEF IsHd
<1>8. hd' = [Info(medium) EXCEPT !.gd = hd'.gd]
  BY <1>7 DEF IsHd, Info
<1>9. hd'.gd # <<>> => hd' = Info(medium)
  <2>1. hd.gd # <<>> => hd.gd = Info(medium).gd
    BY AtJob
  <2>2. [Info(medium) EXCEPT !.gd = Info(medium).gd] = Info(medium)
    BY DEF Info
  <2> QED
    BY <1>7, <1>8, <2>1, <2>2
<1>10. JobOk(j, o, c, medium, hd')
  BY <1>5, <1>6, <1>8 DEF JobOk
<1> QED
  BY <1>1, <1>2, <1>7, <1>9, <1>10, AskFile

\* Every group has its table of inodes.
LEMMA MountEndFile ==
    ASSUME FileInv, DiskInv, ~PREEMPT, NEW p \in Proc, MountEnd(p)
    PROVE  FileInv'
<1> DEFINE r == Result(req[p])
           G == Groups(SuperBlock(medium))
           o == Descriptors(medium)
           t == [g \in 1..hd.groups |-> r[(g - 1) * GDSIZE + 1].table]
<1>1. /\ Runs(p) /\ NoRequest(p) /\ hd' = [hd EXCEPT !.gd = t] /\ job' = [job EXCEPT ![p] = NoJob]
      /\ job[p].pc = "gd" /\ req[p].pc = "done"
  BY DEF MountEnd, Got
<1>2. hd = [Info(medium) EXCEPT !.gd = hd.gd] /\ req[p].offset = o /\ req[p].count = G * GDSIZE
  BY <1>1, AtJob DEF JobOk
<1>3. hd.groups = G
  BY <1>2 DEF Info
<1>4. G \in Nat /\ GDSIZE \in Nat \ {0} /\ o \in Nat
  BY AtJob, InodeFacts, DescriptorsNat, Ext2Assumption
<1>5. \A k \in 1..(G * GDSIZE) : r[k] = Unit(medium, o + (k - 1))
  BY <1>1, <1>2, ResultIs
<1>6. \A g : GroupTable(medium, g) = Unit(medium, o + (g - 1) * GDSIZE).table
  BY DEF GroupTable
<1> HIDE DEF r, G, o
<1>7. ASSUME NEW g \in 1..G
      PROVE  r[(g - 1) * GDSIZE + 1].table = GroupTable(medium, g)
  <2> DEFINE x == (g - 1) * GDSIZE
  <2>1. x \in Nat /\ x + GDSIZE <= G * GDSIZE
    <3>1. x + GDSIZE = g * GDSIZE /\ x \in Nat
      BY <1>4
    <3>2. g * GDSIZE <= G * GDSIZE
      BY <1>4
    <3> QED
      BY <3>1, <3>2
  <2>2. G * GDSIZE \in Nat
    BY <1>4
  <2> DEFINE m == G * GDSIZE
  <2> HIDE DEF x
  <2>3. x + 1 \in 1..(G * GDSIZE) /\ (x + 1) - 1 = x
    <3> HIDE DEF m
    <3>1. x \in Nat /\ x + GDSIZE <= m /\ m \in Nat
      BY <2>1, <2>2 DEF m
    <3>2. x + 1 \in 1..m /\ (x + 1) - 1 = x
      BY <1>4, <3>1
    <3> QED
      BY <3>2 DEF m
  <2>4. r[x + 1] = Unit(medium, o + x)
    BY <1>5, <2>3
  <2> QED
    BY <1>6, <2>4 DEF x
<1>8. t = [g \in 1..G |-> GroupTable(medium, g)]
  BY <1>3, <1>7
<1>9. t = Info(medium).gd
  BY <1>8 DEF Info, G
<1> HIDE DEF t
<1>10. hd' = Info(medium)
  <2>1. hd' = [Info(medium) EXCEPT !.gd = t]
    BY <1>1, <1>2 DEF Info
  <2> QED
    BY <1>9, <2>1 DEF Info
<1>11. IsHd(hd')
  BY <1>10 DEF IsHd, Info
<1> QED
  BY <1>1, <1>10, <1>11, NoJobOk, DoneFile
-----------------------------------------------------------------------------
\* Reading a file

\* struct disk is complete while a file is read.
LEMMA ReadingFacts ==
    ASSUME FileInv, DiskInv, NEW p \in Proc, job[p].pc \in {"inode", "scan", "table", "data", "end"}
    PROVE  /\ hd = Info(medium) /\ job[p].inum \in Inums(medium) /\ IsHd(hd)
           /\ job[p].pc # "inode" =>
                 /\ job[p].inode = Inode(medium, job[p].inum)
                 /\ IsFile(medium, job[p].inode) /\ Copy(medium, job[p])
           /\ job[p].pc \in {"scan", "table", "data"} => Loops(medium, job[p])
BY AtJob, InodeIsFile DEF JobOk

\* The job of a process that goes through the blocks.
LEMMA ScanOk ==
    ASSUME NEW d, NEW k, IsJobRec(k), k.pc \in {"scan", "end"}, k.inum \in Inums(d),
           k.inode = Inode(d, k.inum), Copy(d, k), k.pc = "scan" => Loops(d, k)
    PROVE  JobOk(k, 0, 0, d, Info(d))
BY DEF JobOk

\* The job k of a read of inode i that begins, and with its inode.
Starts(k, i) == k = [NoJob EXCEPT !.pc = "inode", !.inum = i]
WithNode(k, j, node) == k = [j EXCEPT !.inode = node, !.size = node.size]

\* The fields of a read that begins.
LEMMA StartFields ==
    ASSUME NEW i, NEW k, Starts(k, i)
    PROVE  IsJobRec(k) /\ k.pc = "inode" /\ k.inum = i /\ k.inode = NoInode /\ k.mmap = <<>>
<1>1. k = [pc |-> "inode", inum |-> i, inode |-> NoInode, lvl |-> 0, ix |-> <<>>, tab |-> <<>>,
           size |-> 0, mmap |-> <<>>]
  BY DEF NoJob, Starts
<1>2. k.pc = "inode" /\ k.inum = i /\ k.inode = NoInode /\ k.mmap = <<>>
  BY <1>1
<1> QED
  BY <1>1, <1>2 DEF IsJobRec

\* The fields of a read that got its inode.
LEMMA NodeFields ==
    ASSUME NEW j, IsJobRec(j), NEW node, NEW k, WithNode(k, j, node)
    PROVE  IsJobRec(k) /\ k.inum = j.inum /\ k.inode = node /\ k.size = node.size /\ k.mmap = j.mmap
<1>1. k = [pc |-> j.pc, inum |-> j.inum, inode |-> node, lvl |-> j.lvl, ix |-> j.ix, tab |-> j.tab,
           size |-> node.size, mmap |-> j.mmap]
  BY DEF IsJobRec, WithNode
<1> QED
  BY <1>1 DEF IsJobRec

\* ext2_read_inode() asks for the inode where it lies.
LEMMA ReadInodeFile ==
    ASSUME FileInv, DiskInv, ~PREEMPT, NEW p \in Proc, NEW i \in Inums(medium), ext2_read_inode(p, i)
    PROVE  FileInv'
<1> DEFINE j == [NoJob EXCEPT !.pc = "inode", !.inum = i]
           o == s_part + InodeOffset(i)
           c == hd.isize
<1>1. job' = [job EXCEPT ![p] = j] /\ Runs(p) /\ Request(p, o, c) /\ hd' = hd /\ hd.gd # <<>>
  BY DEF ext2_read_inode
<1>2. hd = Info(medium) /\ IsHd(hd) /\ medium \in Disks
  BY <1>1, AtJob
<1>3. o = InodeAt(medium, i) /\ c = SuperBlock(medium).isize
  BY <1>2, InodeOffsetIs, MountedFacts
<1>4. IsJobRec(j) /\ j.pc = "inode" /\ j.inum = i /\ j.inode = NoInode /\ j.mmap = <<>>
  <2>1. Starts(j, i)
    BY DEF Starts
  <2> HIDE DEF j
  <2> QED
    BY <2>1, StartFields
<1> HIDE DEF j, o, c
<1>5. JobOk(j, o, c, medium, hd')
  BY <1>1, <1>2, <1>3, <1>4 DEF JobOk
<1>6. IsHd(hd') /\ (hd'.gd # <<>> => hd' = Info(medium))
  BY <1>1, <1>2
<1> QED
  BY <1>1, <1>5, <1>6, AskFile

\* The inode is the one of the number, and its blocks are gone through.
LEMMA ReadFileFile ==
    ASSUME FileInv, DiskInv, ~PREEMPT, NEW p \in Proc, ReadFile(p)
    PROVE  FileInv'
<1> DEFINE i == job[p].inum
           node == Result(req[p])[1]
           k == [job[p] EXCEPT !.inode = node, !.size = node.size]
           l == Level(k, 0)
<1>1. Runs(p) /\ NoRequest(p) /\ hd' = hd /\ job[p].pc = "inode" /\ req[p].pc = "done"
  BY DEF ReadFile, Got
<1>2. job' = [job EXCEPT ![p] = l]
  BY AtJob DEF ReadFile
<1>3. hd = Info(medium) /\ i \in Inums(medium) /\ IsHd(hd) /\ medium \in Disks
  BY <1>1, ReadingFacts, AtJob
<1>4. node = Inode(medium, i)
  <2>1. req[p].offset = InodeAt(medium, i) /\ req[p].count = SuperBlock(medium).isize
    BY <1>1, AtJob DEF JobOk
  <2>2. req[p].count # 0
    BY <1>3, <2>1, FormatFacts
  <2>3. node = Unit(medium, InodeAt(medium, i))
    BY <1>1, <2>1, <2>2, FirstIs
  <2> QED
    BY <1>3, <2>3, InodeFacts
<1>5. IsFile(medium, node)
  BY <1>3, <1>4, InodeIsFile
<1> HIDE DEF node
<1>6. IsJobRec(k) /\ k.inum = i /\ k.inode = node /\ k.size = node.size /\ k.mmap = <<>>
  <2>1. IsJobRec(job[p]) /\ job[p].mmap = <<>>
    BY <1>1, AtJob DEF JobOk
  <2>2. WithNode(k, job[p], node)
    BY DEF WithNode
  <2> HIDE DEF k
  <2> QED
    BY <2>1, <2>2, NodeFields
<1> HIDE DEF k, i
<1>7. IsJobRec(l) /\ l.pc = "scan" /\ l.inum = i /\ l.inode = node /\ Loops(medium, l) /\ Copy(medium, l)
  <2>1. IsFile(medium, k.inode) /\ k.size = k.inode.size
    BY <1>5, <1>6
  <2>2. l = Level(k, 0)
    OBVIOUS
  <2> HIDE DEF l
  <2>3. IsJobRec(l) /\ l.pc = "scan" /\ l.inum = k.inum /\ l.inode = k.inode /\ Loops(medium, l) /\ Copy(medium, l)
    BY <1>3, <1>6, <2>1, <2>2, BeginOk
  <2> QED
    BY <1>6, <2>3
<1> HIDE DEF l
<1>8. JobOk(l, 0, 0, medium, Info(medium))
  BY <1>3, <1>4, <1>7, ScanOk
<1>9. JobOk(l, 0, 0, medium, hd') /\ IsHd(hd') /\ (hd'.gd # <<>> => hd' = Info(medium))
  BY <1>1, <1>3, <1>8
<1> QED
  BY <1>1, <1>2, <1>9, DoneFile

\* A loop that ends leaves no block out.
LEMMA LoopEndFile ==
    ASSUME FileInv, DiskInv, ~PREEMPT, NEW p \in Proc, LoopEnd(p)
    PROVE  FileInv'
<1> DEFINE j == job[p]
           n == Len(j.tab)
           u == [j EXCEPT !.tab = SubSeq(j.tab, 1, n - 1), !.ix = Popped(j.ix, n - 1)]
           k == IF n <= 1 THEN Level(j, j.lvl + 1) ELSE u
<1>1. /\ Runs(p) /\ UNCHANGED <<medium, drive, req, hd>> /\ j.pc = "scan" /\ Pointer(j) = 0
      /\ job' = [job EXCEPT ![p] = k]
  BY DEF LoopEnd, Popped
<1>2. /\ hd = Info(medium) /\ medium \in Disks /\ IsJobRec(j) /\ j.inum \in Inums(medium)
      /\ j.inode = Inode(medium, j.inum) /\ IsFile(medium, j.inode) /\ Copy(medium, j) /\ Loops(medium, j)
  BY <1>1, ReadingFacts, AtJob
<1>3. PointerIn(medium, j) = 0
  BY <1>1, <1>2, MountedFacts
<1>4. \/ n <= 1 /\ k = Level(j, j.lvl + 1)
      \/ ~(n <= 1) /\ k = u
  OBVIOUS
<1>5. req[p].offset = 0 /\ req[p].count = 0
  BY <1>1, AtJob DEF JobOk
<1> HIDE DEF k
<1>6. /\ IsJobRec(k) /\ k.pc \in {"scan", "end"} /\ k.inum = j.inum /\ k.inode = j.inode
      /\ Copy(medium, k) /\ (k.pc = "scan" => Loops(medium, k))
  <2>1. \/ Len(j.tab) <= 1 /\ k = Level(j, j.lvl + 1)
        \/ ~(Len(j.tab) <= 1) /\ k = [j EXCEPT !.tab = SubSeq(j.tab, 1, Len(j.tab) - 1),
                                               !.ix = Popped(j.ix, Len(j.tab) - 1)]
    BY <1>4
  <2>2. j.pc = "scan"
    BY <1>1
  <2> HIDE DEF j, u, n
  <2> QED
    BY <1>2, <1>3, <2>1, <2>2, LoopEndOk
<1> HIDE DEF u, n, j
<1>7. JobOk(k, 0, 0, medium, Info(medium))
  BY <1>2, <1>6, ScanOk
<1>8. JobOk(k, req[p].offset, req[p].count, medium, hd)
  BY <1>2, <1>5, <1>7
<1> QED
  BY <1>1, <1>8, SameFile

\* The file is returned.
LEMMA ReadEndFile ==
    ASSUME FileInv, DiskInv, ~PREEMPT, NEW p \in Proc, ReadEnd(p)
    PROVE  FileInv'
<1>1. /\ Runs(p) /\ UNCHANGED <<medium, drive, req, hd>> /\ job[p].pc = "end"
      /\ job' = [job EXCEPT ![p] = NoJob]
  BY DEF ReadEnd
<1>2. req[p].offset = 0 /\ req[p].count = 0
  BY <1>1, AtJob DEF JobOk
<1>3. JobOk(NoJob, req[p].offset, req[p].count, medium, hd)
  BY <1>2, NoJobOk
<1> QED
  BY <1>1, <1>3, SameFile

\* The loops are where they were.
LEMMA LoopsSame ==
    ASSUME NEW d, NEW j, NEW k, k.lvl = j.lvl, k.ix = j.ix, k.tab = j.tab, k.inode = j.inode
    PROVE  /\ Loops(d, j) => Loops(d, k)
           /\ PointerIn(d, k) = PointerIn(d, j) /\ BlockNumber(d, k) = BlockNumber(d, j)
<1>1. Loops(d, j) => Loops(d, k)
  BY DEF Loops
<1>2. PointerIn(d, k) = PointerIn(d, j)
  BY DEF PointerIn
<1>3. \A x : Term(d, k, x) = Term(d, j, x)
  BY DEF Term
<1>4. BlockNumber(d, k) = BlockNumber(d, j)
  BY <1>3 DEF BlockNumber
<1> QED
  BY <1>1, <1>2, <1>4

\* The block the loops are at is asked for.
LEMMA ReadBlockFile ==
    ASSUME FileInv, DiskInv, ~PREEMPT, NEW p \in Proc, ReadBlock(p)
    PROVE  FileInv'
<1> DEFINE j == job[p]
           v == IF Len(j.tab) = Depth(j.lvl) THEN "data" ELSE "table"
           k == [j EXCEPT !.pc = v]
           o == BlockOffset(Pointer(j))
<1>1. /\ Runs(p) /\ Request(p, o, hd.blocksize) /\ hd' = hd /\ j.pc = "scan" /\ Pointer(j) # 0
      /\ job' = [job EXCEPT ![p] = k]
  BY AtJob DEF ReadBlock
<1>2. /\ hd = Info(medium) /\ medium \in Disks /\ IsJobRec(j) /\ j.inum \in Inums(medium) /\ IsHd(hd)
      /\ j.inode = Inode(medium, j.inum) /\ IsFile(medium, j.inode) /\ Copy(medium, j) /\ Loops(medium, j)
  BY <1>1, ReadingFacts, AtJob
<1>3. /\ Pointer(j) = PointerIn(medium, j) /\ hd.blocksize = BlockSize(medium)
      /\ o = BlockAt(medium, PointerIn(medium, j))
  BY <1>2, MountedFacts
<1>4. PointerIn(medium, j) \in BlockNumbers(medium) \ {0}
  BY <1>1, <1>2, <1>3, PointerFacts
<1>9. (v = "data" <=> Len(j.tab) = Depth(j.lvl)) /\ v \in {"data", "table"}
  OBVIOUS
<1> HIDE DEF j, v, o
<1>5. /\ IsJobRec(k) /\ k.pc = v /\ k.inum = j.inum /\ k.inode = j.inode /\ k.lvl = j.lvl
      /\ k.ix = j.ix /\ k.tab = j.tab /\ k.size = j.size /\ k.mmap = j.mmap
  BY <1>2, PcFields
<1> HIDE DEF k
<1>6. Loops(medium, k) /\ PointerIn(medium, k) = PointerIn(medium, j)
      /\ BlockNumber(medium, k) = BlockNumber(medium, j)
  BY <1>2, <1>5, LoopsSame
<1>7. Copy(medium, k)
  BY <1>2, <1>5, <1>6, <1>9, CopySame
<1>8. JobOk(k, o, hd.blocksize, medium, hd')
  <2>1. k.pc \in {"data", "table"}
    BY <1>5, <1>9
  <2>2. k.pc = "data" <=> Len(k.tab) = Depth(k.lvl)
    BY <1>5, <1>9
  <2>3. k.inode = Inode(medium, k.inum) /\ k.inum \in Inums(medium) /\ hd' = Info(medium)
    BY <1>1, <1>2, <1>5
  <2>4. PointerIn(medium, k) \in BlockNumbers(medium) \ {0} /\ o = BlockAt(medium, PointerIn(medium, k))
    BY <1>3, <1>4, <1>6
  <2> QED
    BY <1>3, <1>5, <1>6, <1>7, <2>1, <2>2, <2>3, <2>4 DEF JobOk
<1> QED
  BY <1>1, <1>2, <1>8, AskFile

\* The numbers of a table are taken from the block.
LEMMA NumbersAre ==
    ASSUME NEW d \in Disks, NEW j, NEW r, IsBlock(d, j, r), PointerIn(d, j) \in Nat
    PROVE  [k \in 1..PerBlock(d) |-> r[(k - 1) * PTRSIZE + 1].ptr] = Entries(d, PointerIn(d, j))
<1> DEFINE B == BlockSize(d)
           w == PerBlock(d)
           t == PointerIn(d, j)
<1>1. B \in Nat /\ w \in Nat /\ PTRSIZE \in Nat \ {0} /\ w = B \div PTRSIZE
  BY FormatFacts, Ext2Assumption DEF PerBlock
<1>2. \A y \in 0..(B - 1) : r[y + 1] = Unit(d, BlockAt(d, t) + y)
  BY BlockBytes
<1>3. \A k : BlockAt(d, t) + (k - 1) * PTRSIZE = Lba(d) * SECT + t * B + (k - 1) * PTRSIZE
  BY DEF BlockAt
<1>4. Entries(d, t) = [k \in 1..w |-> Unit(d, BlockAt(d, t) + (k - 1) * PTRSIZE).ptr]
  BY <1>3 DEF Entries
<1> HIDE DEF B, w, t
<1>5. ASSUME NEW k \in 1..w
      PROVE  r[(k - 1) * PTRSIZE + 1] = Unit(d, BlockAt(d, t) + (k - 1) * PTRSIZE)
  <2> DEFINE y == (k - 1) * PTRSIZE
  <2>1. PTRSIZE * w <= B
    <3> DEFINE m == B % PTRSIZE
    <3>1. m \in 0..(PTRSIZE - 1) /\ B = PTRSIZE * w + m
      BY <1>1, DivFacts
    <3>2. PTRSIZE * w \in Nat
      BY <1>1
    <3> HIDE DEF m
    <3> QED
      BY <1>1, <3>1, <3>2
  <2>2. PTRSIZE * k <= PTRSIZE * w /\ y + PTRSIZE = PTRSIZE * k /\ y \in Nat /\ PTRSIZE * w \in Nat
    BY <1>1
  <2> HIDE DEF y
  <2>3. y \in 0..(B - 1)
    <3> DEFINE a == PTRSIZE * w
               b == PTRSIZE * k
    <3>1. a <= B /\ b <= a /\ y + PTRSIZE = b /\ y \in Nat /\ a \in Nat
      BY <2>1, <2>2
    <3> HIDE DEF a, b
    <3> QED
      BY <1>1, <3>1
  <2> QED
    BY <1>2, <2>3 DEF y
<1> QED
  BY <1>4, <1>5 DEF w, t

\* What is known when the block that was asked for is there.
LEMMA BlockThere ==
    ASSUME FileInv, DiskInv, NEW p \in Proc, job[p].pc \in {"table", "data"}, req[p].pc = "done"
    PROVE  /\ IsBlock(medium, job[p], Result(req[p])) /\ PointerIn(medium, job[p]) \in Nat \ {0}
           /\ job[p].pc = "data" <=> Len(job[p].tab) = Depth(job[p].lvl)
<1> DEFINE P == PointerIn(medium, job[p])
           A == BlockAt(medium, P)
           f == Result(req[p])
           c == BlockSize(medium)
<1>1. /\ P \in Nat \ {0} /\ req[p].offset = A /\ req[p].count = c
      /\ job[p].pc = "data" <=> Len(job[p].tab) = Depth(job[p].lvl)
  BY AtJob, BlockNumbersFacts DEF JobOk
<1>2. \A k \in 1..c : f[k] = Unit(medium, A + (k - 1))
  BY <1>1, ResultIs
<1>3. A \in Nat /\ c \in Nat
  BY <1>1, AtJob, BlockAtNat, FormatFacts
<1>4. IsBlock(medium, job[p], f)
  <2> HIDE DEF f, A, c
  <2>1. \A k \in 1..c : f[k] = Unit(medium, A + k - 1)
    <3> SUFFICES ASSUME NEW k \in 1..c PROVE f[k] = Unit(medium, A + k - 1)
      OBVIOUS
    <3>1. A + k - 1 = A + (k - 1)
      BY <1>3
    <3> QED
      BY <1>2, <3>1
  <2> QED
    BY <2>1 DEF IsBlock, A, c
<1> QED
  BY <1>1, <1>4

\* What was read is the table below, and the loop over it begins.
LEMMA GetTableFile ==
    ASSUME FileInv, DiskInv, ~PREEMPT, NEW p \in Proc, GetTable(p)
    PROVE  FileInv'
<1> DEFINE j == job[p]
           r == Result(req[p])
           numbers == [x \in 1..Width(j.lvl) |-> r[(x - 1) * PTRSIZE + 1].ptr]
           k == [j EXCEPT !.tab = Append(j.tab, numbers), !.ix = Append(j.ix, 1), !.pc = "scan"]
           P == PointerIn(medium, j)
<1>1. /\ Runs(p) /\ NoRequest(p) /\ hd' = hd /\ j.pc = "table" /\ req[p].pc = "done"
      /\ job' = [job EXCEPT ![p] = k]
  BY AtJob DEF GetTable, Got
<1>2. /\ hd = Info(medium) /\ medium \in Disks /\ IsJobRec(j) /\ j.inum \in Inums(medium) /\ IsHd(hd)
      /\ j.inode = Inode(medium, j.inum) /\ IsFile(medium, j.inode) /\ Copy(medium, j) /\ Loops(medium, j)
  BY <1>1, ReadingFacts, AtJob
<1>3. IsBlock(medium, j, r) /\ P \in Nat \ {0} /\ Len(j.tab) # Depth(j.lvl)
  BY <1>1, BlockThere
<1>4. Width(j.lvl) = PerBlock(medium)
  <2>1. j.lvl # 0
    <3>1. j.lvl = 0 => Len(j.tab) = 1
      BY <1>2 DEF Loops
    <3> QED
      BY <1>3, <3>1 DEF Depth
  <2> QED
    BY <1>2, <2>1, MountedFacts DEF Wide
<1>10. Enters(k, j, numbers)
  BY DEF Enters
<1>5. numbers = Entries(medium, P)
  <2>1. numbers = [x \in 1..PerBlock(medium) |-> r[(x - 1) * PTRSIZE + 1].ptr]
    BY <1>4
  <2> HIDE DEF j, r, numbers
  <2> QED
    BY <1>2, <1>3, <2>1, NumbersAre
<1> HIDE DEF numbers, k, j, r
<1>6. Enters(k, j, Entries(medium, PointerIn(medium, j)))
  BY <1>5, <1>10
<1>7. /\ IsJobRec(k) /\ k.pc = "scan" /\ k.inum = j.inum /\ k.inode = j.inode
      /\ Copy(medium, k) /\ Loops(medium, k)
  BY <1>2, <1>3, <1>6, TableOk
<1>8. JobOk(k, 0, 0, medium, Info(medium))
  BY <1>2, <1>7, ScanOk
<1>9. JobOk(k, 0, 0, medium, hd') /\ IsHd(hd') /\ (hd'.gd # <<>> => hd' = Info(medium))
  BY <1>1, <1>2, <1>8
<1> QED
  BY <1>1, <1>9, DoneFile

\* The job k after the copy of n bytes of the block r.
Copies(k, j, r, n) ==
    k = [j EXCEPT !.mmap = j.mmap \o SubSeq(r, 1, n), !.size = j.size - n, !.ix = Advanced(j.ix), !.pc = "scan"]

\* Its buffer and what is left of the file.
Holds(k, j, r, n) == k.mmap = j.mmap \o SubSeq(r, 1, n) /\ k.size = j.size - n

\* The fields of a job that copies.
LEMMA CopiesFields ==
    ASSUME NEW j, IsJobRec(j), NEW r, NEW n, NEW k, Copies(k, j, r, n)
    PROVE  /\ IsJobRec(k) /\ k.pc = "scan" /\ k.inum = j.inum /\ Further(k, j)
           /\ Holds(k, j, r, n)
<1>1. k = [pc |-> "scan", inum |-> j.inum, inode |-> j.inode, lvl |-> j.lvl, ix |-> Advanced(j.ix),
           tab |-> j.tab, size |-> j.size - n, mmap |-> j.mmap \o SubSeq(r, 1, n)]
  BY DEF IsJobRec, Copies
<1>2. /\ k.pc = "scan" /\ k.inum = j.inum /\ k.inode = j.inode /\ k.lvl = j.lvl /\ k.ix = Advanced(j.ix)
      /\ k.tab = j.tab /\ k.mmap = j.mmap \o SubSeq(r, 1, n) /\ k.size = j.size - n
  BY <1>1
<1> QED
  BY <1>1, <1>2 DEF IsJobRec, Further, Holds

\* What was read is the block, and it is copied.
LEMMA GetDataFile ==
    ASSUME FileInv, DiskInv, ~PREEMPT, NEW p \in Proc, GetData(p)
    PROVE  FileInv'
<1> DEFINE j == job[p]
           r == Result(req[p])
           n == Copied(j)
           k == [j EXCEPT !.mmap = j.mmap \o SubSeq(r, 1, n), !.size = j.size - n,
                          !.ix = Advanced(j.ix), !.pc = "scan"]
<1>1. /\ Runs(p) /\ NoRequest(p) /\ hd' = hd /\ j.pc = "data" /\ req[p].pc = "done"
      /\ job' = [job EXCEPT ![p] = k]
  BY AtJob DEF GetData, Got
<1>2. /\ hd = Info(medium) /\ medium \in Disks /\ IsJobRec(j) /\ j.inum \in Inums(medium) /\ IsHd(hd)
      /\ j.inode = Inode(medium, j.inum) /\ IsFile(medium, j.inode) /\ Copy(medium, j) /\ Loops(medium, j)
  BY <1>1, ReadingFacts, AtJob
<1>3. IsBlock(medium, j, r) /\ PointerIn(medium, j) \in Nat \ {0} /\ Len(j.tab) = Depth(j.lvl)
  BY <1>1, BlockThere
<1>4. n = Taken(medium, j)
  BY <1>2, MountedFacts
<1>5. Copies(k, j, r, n)
  BY DEF Copies
<1> HIDE DEF j, r, n, k
<1>6. /\ IsJobRec(k) /\ k.pc = "scan" /\ k.inum = j.inum /\ Further(k, j) /\ k.inode = j.inode
      /\ k.mmap = j.mmap \o SubSeq(r, 1, Taken(medium, j)) /\ k.size = j.size - Taken(medium, j)
  <2>1. /\ IsJobRec(k) /\ k.pc = "scan" /\ k.inum = j.inum /\ Further(k, j)
        /\ Holds(k, j, r, n)
    <3>1. IsJobRec(j) /\ Copies(k, j, r, n)
      BY <1>2, <1>5
    <3> QED
      BY <3>1, CopiesFields
  <2>2. k.inode = j.inode
    BY <2>1 DEF Further
  <2> QED
    BY <1>4, <2>1, <2>2 DEF Holds
<1>7. Loops(medium, k) /\ Copy(medium, k)
  BY <1>2, <1>3, <1>6, DataOk
<1>8. JobOk(k, 0, 0, medium, Info(medium))
  BY <1>2, <1>6, <1>7, ScanOk
<1>9. JobOk(k, 0, 0, medium, hd') /\ IsHd(hd') /\ (hd'.gd # <<>> => hd' = Info(medium))
  BY <1>1, <1>2, <1>8
<1> QED
  BY <1>1, <1>9, DoneFile

-----------------------------------------------------------------------------
\* The theorems

\* The job k of the process that mounts the disk.
Boots(k) == k = [NoJob EXCEPT !.pc = "start"]

\* The fields of the job that mounts.
LEMMA BootFields ==
    ASSUME NEW k, Boots(k)
    PROVE  IsJobRec(k) /\ k.pc = "start" /\ k.inode = NoInode /\ k.mmap = <<>>
<1>1. k = [pc |-> "start", inum |-> 0, inode |-> NoInode, lvl |-> 0, ix |-> <<>>, tab |-> <<>>,
           size |-> 0, mmap |-> <<>>]
  BY DEF NoJob, Boots
<1>2. k.pc = "start" /\ k.inode = NoInode /\ k.mmap = <<>>
  BY <1>1
<1> QED
  BY <1>1, <1>2 DEF IsJobRec

\* Before the disk is mounted nobody reads files.
LEMMA Init_FileInv == Init => FileInv
<1> SUFFICES ASSUME Init PROVE FileInv
  OBVIOUS
<1>1. medium \in Disks /\ hd = NoDisk /\ req = [p \in Proc |-> NoReq]
  BY DEF Init, DiskInit
<1>2. IsHd(hd) /\ hd.gd = <<>>
  BY <1>1 DEF IsHd, NoDisk
<1>3. ASSUME NEW p \in Proc
      PROVE  JobInv(p)
  <2>1. req[p].offset = 0 /\ req[p].count = 0
    BY <1>1 DEF NoReq
  <2>2. job[p] = NoJob \/ job[p] = [NoJob EXCEPT !.pc = "start"]
    BY DEF Init
  <2>3. CASE job[p] = NoJob
    BY <2>1, <2>3, NoJobOk DEF JobInv
  <2>4. CASE job[p] = [NoJob EXCEPT !.pc = "start"]
    <3>2. IsJobRec(job[p]) /\ job[p].pc = "start" /\ job[p].inode = NoInode /\ job[p].mmap = <<>>
      BY <2>4, BootFields DEF Boots
    <3>3. JobOk(job[p], 0, 0, medium, hd)
      BY <3>2 DEF JobOk
    <3> QED
      BY <2>1, <3>3 DEF JobInv
  <2> QED
    BY <2>2, <2>3, <2>4
<1> QED
  BY <1>1, <1>2, <1>3 DEF FileInv

\* Every step keeps the jobs as they should be.
LEMMA Next_FileInv ==
    ASSUME ~PREEMPT, FileInv, DiskInv, [Next]_vars
    PROVE  FileInv'
<1>1. CASE Next
  <2>1. PICK p \in Proc : Step(p) \/ \E i \in Inums(medium) : ext2_read_inode(p, i)
    BY <1>1 DEF Next
  <2>2. CASE Runs(p) /\ DiskStep(p) /\ UNCHANGED <<hd, job>>
    BY <2>2, DiskFile
  <2>3. CASE \/ ReadPartition(p) \/ ext2_read_sb(p) \/ ext2_read_gd(p) \/ MountEnd(p)
    BY <2>3, ReadPartitionFile, SuperBlockFile, DescriptorsFile, MountEndFile
  <2>4. CASE ReadFile(p) \/ LoopEnd(p) \/ ReadBlock(p)
    BY <2>4, ReadFileFile, LoopEndFile, ReadBlockFile
  <2>5. CASE GetTable(p) \/ GetData(p) \/ ReadEnd(p)
    BY <2>5, GetTableFile, GetDataFile, ReadEndFile
  <2>6. CASE \E i \in Inums(medium) : ext2_read_inode(p, i)
    BY <2>6, ReadInodeFile
  <2> QED
    BY <2>1, <2>2, <2>3, <2>4, <2>5, <2>6 DEF Step
<1>2. CASE UNCHANGED vars
  <2>1. medium' = medium /\ req' = req /\ hd' = hd /\ job' = job
    BY <1>2 DEF vars
  <2>2. \A p \in Proc : JobOk(job'[p], req'[p].offset, req'[p].count, medium', hd')
    BY <2>1 DEF FileInv, JobInv
  <2>3. medium' \in Disks /\ IsHd(hd') /\ (hd'.gd # <<>> => hd' = Info(medium'))
    BY <2>1 DEF FileInv
  <2> QED
    BY <2>2, <2>3 DEF FileInv, JobInv
<1> QED
  BY <1>1, <1>2

\* An inode in a job: the job goes through the blocks.
LEMMA InodeThere ==
    ASSUME FileInv, DiskInv, NEW p \in Proc, job[p].inode # NoInode
    PROVE  job[p].pc \in {"scan", "table", "data", "end"}
BY AtJob DEF JobOk

\* The inode of a job is the one of its number.
LEMMA FileInv_InodeRight == FileInv /\ DiskInv => InodeRight
<1> SUFFICES ASSUME FileInv, DiskInv, NEW p \in Proc, job[p].inode # NoInode
             PROVE  job[p].inode = Inode(medium, job[p].inum)
  BY DEF InodeRight
<1> QED
  BY InodeThere, ReadingFacts

\* The block of the layout is the block of the format.
LEMMA BlockOfIs ==
    ASSUME medium \in Disks, hd = Info(medium), NEW node, NEW n
    PROVE  BlockOf(node, n) = BlockIn(medium, node, n)
<1>1. hd.blocksize \div PTRSIZE = PerBlock(medium) /\ \A b : BlockOffset(b) = BlockAt(medium, b)
  BY MountedFacts DEF PerBlock
<1> QED
  BY <1>1 DEF BlockOf, BlockIn

\* The buffer of a job is the beginning of its file.
LEMMA FileInv_FileRight == FileInv /\ DiskInv => FileRight
<1> SUFFICES ASSUME FileInv, DiskInv, NEW p \in Proc, job[p].inode # NoInode
             PROVE  LET j == job[p]
                    IN  /\ Len(j.mmap) + j.size = j.inode.size /\ j.size >= 0
                        /\ \A x \in 0..(Len(j.mmap) - 1) :
                              j.mmap[x + 1] =
                                  Unit(medium, BlockOffset(BlockOf(j.inode, x \div hd.blocksize))
                                               + (x % hd.blocksize))
                        /\ j.pc = "end" => j.size = 0
  BY DEF FileRight
<1> DEFINE j == job[p]
<1>1. hd = Info(medium) /\ medium \in Disks /\ Copy(medium, j)
  BY InodeThere, ReadingFacts, AtJob
<1>2. hd.blocksize = BlockSize(medium) /\ \A b : BlockOffset(b) = BlockAt(medium, b)
  BY <1>1, MountedFacts
<1>3. \A n : BlockOf(j.inode, n) = BlockIn(medium, j.inode, n)
  BY <1>1, BlockOfIs
<1> HIDE DEF j
<1>4. Len(j.mmap) + j.size = j.inode.size /\ j.size >= 0 /\ (j.pc = "end" => j.size = 0)
  <2>1. j.size \in Nat /\ Len(j.mmap) + j.size = j.inode.size /\ (j.size > 0 => j.pc # "end")
    BY <1>1 DEF Copy
  <2> QED
    BY <2>1
<1>5. \A x \in 0..(Len(j.mmap) - 1) :
          j.mmap[x + 1] = Unit(medium, BlockOffset(BlockOf(j.inode, x \div hd.blocksize)) + (x % hd.blocksize))
  BY <1>1, <1>2, <1>3 DEF Copy, Begun
<1> QED
  BY <1>4, <1>5 DEF j

\* What holds throughout when nobody preempts the reader: every request is for
\* what the call needs next, on every disk of which the part that is read lies
\* below 2 GiB, so that the ints of disk_read() are the numbers they were
\* computed from, with fewer than 2^16 groups (FormatAssumption; disk.c,
\* disk_read(), and ext2.c).
THEOREM ReaderCorrect ==
    ASSUME ~PREEMPT
    PROVE  Spec => [](DiskInv /\ FileInv)
<1>1. Init => DiskInv /\ FileInv
  BY Init_DiskInv, Init_FileInv
<1>2. DiskInv /\ FileInv /\ [Next]_vars => DiskInv' /\ FileInv'
  BY Next_DiskInv, Next_FileInv
<1> QED
  BY <1>1, <1>2, PTL DEF Spec

\* disk_read() gives its caller exactly the bytes of the range it asked for,
\* for every range of a disk of the format, which ends below 2 GiB and has at
\* most 256 sectors, and every size of a sector (ReadExact: disk.c,
\* disk_read() with bl_common()).
THEOREM ReadCorrect ==
    ASSUME ~PREEMPT
    PROVE  Spec => []ReadExact
<1>1. DiskInv /\ FileInv => ReadExact
  BY FileInv_NumbersAll, DiskInv_ReadExact
<1> QED
  BY <1>1, ReaderCorrect, PTL

\* The loop on the status port ends, and no sector is taken from an empty
\* port: the count written to the controller is the count of the loop.
THEOREM PortCorrect ==
    ASSUME ~PREEMPT
    PROVE  Spec => []SectorsThere
<1>1. DiskInv /\ FileInv => SectorsThere
  BY FileInv_NumbersAll, DiskInv_SectorsThere
<1> QED
  BY <1>1, ReaderCorrect, PTL

\* ext2_read_inode() finds the inode of the number it is given, in every group
\* of fewer than 2^16 ones whose inodes lie below 2 GiB (InodeRight: ext2.c,
\* ext2_get_disk_info() and ext2_read_inode()).
THEOREM InodeCorrect ==
    ASSUME ~PREEMPT
    PROVE  Spec => []InodeRight
<1>1. DiskInv /\ FileInv => InodeRight
  BY FileInv_InodeRight
<1> QED
  BY <1>1, ReaderCorrect, PTL

\* ext2_read_file() copies the file block by block, direct or below one, two
\* or three tables, and has all of it at the end, when the file has no holes
\* and its blocks and tables lie below 2 GiB (FileRight: ext2.c,
\* ext2_read_file()).
THEOREM FileCorrect ==
    ASSUME ~PREEMPT
    PROVE  Spec => []FileRight
<1>1. DiskInv /\ FileInv => FileRight
  BY FileInv_FileRight
<1> QED
  BY <1>1, ReaderCorrect, PTL

=============================================================================
