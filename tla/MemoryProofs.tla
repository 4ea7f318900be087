---------------------------- MODULE MemoryProofs ----------------------------
(***************************************************************************)
(* Theorems about the memory, for every size of it:                        *)
(*                                                                         *)
(*   what the operators of PageAlloc do to a memory whose list of free     *)
(*   pages is exact;                                                       *)
(*                                                                         *)
(*   PageHeap: the list of free pages stays exact, the heap implements a   *)
(*   pool of pages, and, as long as there is a frame for everybody, every  *)
(*   page that is held has a frame of its own;                             *)
(*                                                                         *)
(*   AddressSpace: for any number of processes, any programs and a memory  *)
(*   that is enough for them, no frame is lost, shared, or mapped by a     *)
(*   process it does not belong to.                                        *)
(***************************************************************************)
EXTENDS PageHeap, AddressSpace, FiniteSetTheorems, WellFoundedInduction, TLAPS

(* Minima and lists.                                                       *)

\* The minimum of a non-empty set of naturals is one of its elements: what
\* the searches of the kernel for a first one find is there.
LEMMA MinInSet ==
    ASSUME NEW S \in SUBSET Nat, S # {}
    PROVE  Min(S) \in S /\ \A y \in S : Min(S) <= y
<1>1. PICK x \in S : \A y \in S : ~(<<y, x>> \in OpToRel(<, Nat))
  BY NatLessThanWellFounded, WFMin, Zenon
<1>2. ASSUME NEW y \in S
      PROVE  x <= y
  <2>1. x \in Nat /\ y \in Nat
    OBVIOUS
  <2>2. ~(y < x)
    BY <1>1, <2>1 DEF OpToRel
  <2> QED
    BY <2>1, <2>2
<1> QED
  BY <1>2 DEF Min

\* The elements of a concatenation, by position.
LEMMA ConcatFacts ==
    ASSUME NEW S, NEW s \in Seq(S), NEW t \in Seq(S)
    PROVE  /\ Len(s \o t) = Len(s) + Len(t)
           /\ \A i \in 1..Len(s) : (s \o t)[i] = s[i]
           /\ \A i \in 1..Len(t) : (s \o t)[Len(s) + i] = t[i]
<1>1. Len(s) \in Nat /\ Len(t) \in Nat
  OBVIOUS
<1>2. \A i \in 1..Len(t) : /\ Len(s) + i \in 1..(Len(s) + Len(t))
                           /\ Len(s) + i > Len(s)
                           /\ (Len(s) + i) - Len(s) = i
  BY <1>1
<1> QED
  BY <1>1, <1>2

\* A list without its first element.
LEMMA TailFacts ==
    ASSUME NEW S, NEW s \in Seq(S), s # <<>>
    PROVE  /\ Tail(s) \in Seq(S) /\ Len(Tail(s)) = Len(s) - 1 /\ Len(s) \in Nat /\ Len(s) > 0
           /\ \A i \in 1..(Len(s) - 1) : Tail(s)[i] = s[i + 1]
OBVIOUS

\* A list with another first element.
LEMMA ConsTailFacts ==
    ASSUME NEW S, NEW s \in Seq(S), s # <<>>, NEW e \in S
    PROVE  LET t == <<e>> \o Tail(s)
           IN  /\ t \in Seq(S) /\ Len(t) = Len(s)
               /\ t[1] = e
               /\ \A i \in 2..Len(s) : t[i] = s[i]
<1>1. Tail(s) \in Seq(S) /\ <<e>> \in Seq(S)
  BY TailFacts
<1> DEFINE t == <<e>> \o Tail(s)
<1>2. t \in Seq(S) /\ Len(t) = 1 + Len(Tail(s)) 
  BY <1>1
<1>3. t[1] = e /\ \A i \in 2..Len(s) : t[i] = Tail(s)[i - 1]
  BY <1>1, TailFacts
<1> QED
  BY <1>2, <1>3, TailFacts

\* A list without element k.
LEMMA RemoveAtFacts ==
    ASSUME NEW S, NEW s \in Seq(S), NEW k \in 1..Len(s)
    PROVE  /\ RemoveAt(s, k) \in Seq(S)
           /\ Len(RemoveAt(s, k)) = Len(s) - 1
           /\ \A i \in 1..(Len(s) - 1) : RemoveAt(s, k)[i] = IF i < k THEN s[i] ELSE s[i + 1]
<1> DEFINE u == SubSeq(s, 1, k - 1)
           w == SubSeq(s, k + 1, Len(s))
<1>1. u \in Seq(S) /\ Len(u) = k - 1 /\ \A i \in 1..(k - 1) : u[i] = s[i]
  OBVIOUS
<1>2. w \in Seq(S) /\ Len(w) = Len(s) - k /\ \A i \in 1..(Len(s) - k) : w[i] = s[k + i]
  OBVIOUS
<1>3. RemoveAt(s, k) = u \o w
  BY DEF RemoveAt
<1> HIDE DEF u, w
<1>4. Len(u \o w) = Len(s) - 1 /\ u \o w \in Seq(S)
  BY <1>1, <1>2
<1>5. ASSUME NEW i \in 1..(Len(s) - 1)
      PROVE  (u \o w)[i] = IF i < k THEN s[i] ELSE s[i + 1]
  BY <1>1, <1>2
<1> QED
  BY <1>3, <1>4, <1>5

\* A list with a new element before element k.
LEMMA InsertAtFacts ==
    ASSUME NEW S, NEW s \in Seq(S), NEW k \in 1..Len(s), NEW e \in S
    PROVE  /\ InsertAt(s, k, e) \in Seq(S)
           /\ Len(InsertAt(s, k, e)) = Len(s) + 1
           /\ \A i \in 1..(Len(s) + 1) :
                InsertAt(s, k, e)[i] = IF i < k THEN s[i] ELSE IF i = k THEN e ELSE s[i - 1]
<1> DEFINE u == SubSeq(s, 1, k - 1)
           w == SubSeq(s, k, Len(s))
<1>1. u \in Seq(S) /\ Len(u) = k - 1 /\ \A i \in 1..(k - 1) : u[i] = s[i]
  OBVIOUS
<1>2. w \in Seq(S) /\ Len(w) = Len(s) - k + 1 /\ \A i \in 1..(Len(s) - k + 1) : w[i] = s[k + i - 1]
  OBVIOUS
<1>3. InsertAt(s, k, e) = (u \o <<e>>) \o w
  BY DEF InsertAt
<1> HIDE DEF u, w
<1> DEFINE ue == u \o <<e>>
<1>4. /\ ue \in Seq(S) /\ Len(ue) = k /\ ue[k] = e
      /\ \A i \in 1..(k - 1) : ue[i] = s[i]
  BY <1>1
<1> HIDE DEF ue
<1>5. ue \o w \in Seq(S) /\ Len(ue \o w) = Len(s) + 1
  <2>1. ue \in Seq(S) /\ w \in Seq(S)
    BY <1>2, <1>4
  <2>2. ue \o w \in Seq(S)
    BY <2>1
  <2>3. Len(ue \o w) = Len(ue) + Len(w)
    BY <2>1
  <2> QED
    BY <1>2, <1>4, <2>2, <2>3
<1>6. ASSUME NEW i \in 1..(Len(s) + 1)
      PROVE  (ue \o w)[i] = IF i < k THEN s[i] ELSE IF i = k THEN e ELSE s[i - 1]
  BY <1>2, <1>4
<1> QED
  BY <1>3, <1>5, <1>6 DEF ue

-----------------------------------------------------------------------------
(* The operators of PageAlloc.                                             *)

\* The areas of kern_free_vm are not empty, in order and apart: pairwise, where
\* HeapListExact compares neighbours only.
Apart(a) ==
    /\ \A i \in 1..Len(a) : a[i].vm_start < a[i].vm_end
    /\ \A i, j \in 1..Len(a) : i < j => a[i].vm_end < a[j].vm_start

\* Page x is in one of the areas.
Has(a, x) == \E i \in 1..Len(a) : a[i].vm_start <= x /\ x < a[i].vm_end

-----------------------------------------------------------------------------

\* The pages of the heap that are mapped.
Mapped(m) == {v \in Page : m.kpte[v] # NoFrame}

\* The list of free pages is exact. The last page of the heap is never handed
\* out: get_page_from_heap() takes the lowest free page and the callers hold
\* fewer pages than the heap has, so that every page that is held has an area
\* above it, the one release_page_from_heap() looks for.
Sound(m) ==
    /\ m \in Memory
    /\ Apart(m.areas)
    /\ \A x \in Page : Has(m.areas, x) <=> m.kpte[x] = NoFrame
    /\ m.kpte[HEAP - 1] = NoFrame
    /\ ~m.halted

\* The frames of the machine that the kernel does not have itself.
Spare == (KERNEL + 1)..(RAM - 1)

\* The frames of the pages that are mapped.
Backing(m) == {m.kpte[v] : v \in Mapped(m)}

\* A frame is used because the kernel, nobody (it does not exist), a holder of
\* the frames F or a page of the heap has it, and only one of them has it.
Backed(m, F) ==
    /\ Sound(m)
    /\ m.kheap = {KERNEL}
    /\ F \subseteq Spare
    /\ m.used = 0..KERNEL \cup RAM..(MAXPAGE - 1) \cup F \cup Backing(m)
    /\ \A v \in Mapped(m) : m.kpte[v] \in Spare \ F
    /\ \A v, w \in Mapped(m) : m.kpte[v] = m.kpte[w] => v = w

-----------------------------------------------------------------------------

\* The sizes are positive numbers.
LEMMA Sizes ==
    /\ KERNEL \in Nat /\ KERNEL > 0 /\ RAM \in Nat /\ MAXPAGE \in Nat /\ HEAP \in Nat /\ HEAP > 0
    /\ KERNEL < RAM /\ RAM < MAXPAGE
BY PageAssumption

\* The search of release_page_from_heap(): every area before the one it stops at
\* starts at or below v, and that one starts above v.
LEMMA NextAreaFacts ==
    ASSUME NEW a \in Seq(Area), NEW v \in Nat
    PROVE  LET k == NextArea(a, v)
           IN  \/ k = 0 /\ \A i \in 1..Len(a) : ~(a[i].vm_start > v)
               \/ /\ k \in 1..Len(a) /\ a[k].vm_start > v
                  /\ \A i \in 1..Len(a) : i < k => ~(a[i].vm_start > v)
<1> DEFINE I == {i \in 1..Len(a) : a[i].vm_start > v}
<1>1. NextArea(a, v) = IF I # {} THEN Min(I) ELSE 0
  BY DEF NextArea, SelectInSeq
<1>2. I \in SUBSET Nat
  OBVIOUS
<1>3. CASE I = {}
  BY <1>1, <1>3
<1>4. CASE I # {}
  <2>1. Min(I) \in I /\ \A y \in I : Min(I) <= y
    BY <1>2, <1>4, MinInSet
  <2>2. NextArea(a, v) = Min(I)
    BY <1>1, <1>4
  <2>3. ASSUME NEW i \in 1..Len(a), i < Min(I) PROVE ~(a[i].vm_start > v)
    <3>1. Min(I) \in Nat /\ ~(Min(I) <= i)
      BY <1>2, <2>1, <2>3
    <3>2. i \notin I
      BY <2>1, <3>1
    <3> QED
      BY <3>2
  <2>4. Min(I) \in 1..Len(a) /\ a[Min(I)].vm_start > v
    BY <2>1
  <2> HIDE DEF I
  <2> QED
    BY <2>2, <2>3, <2>4
<1> QED
  BY <1>3, <1>4

\* The elements of a list of areas are areas.
LEMMA AreaFields ==
    ASSUME NEW a \in Seq(Area), NEW i \in 1..Len(a)
    PROVE  /\ a[i] \in Area /\ Len(a) \in Nat
           /\ a[i].vm_start \in 0..HEAP /\ a[i].vm_end \in 0..HEAP
           /\ a[i].vm_start \in Int /\ a[i].vm_end \in Int
<1>1. a[i] \in Area /\ Len(a) \in Nat
  OBVIOUS
<1> QED
  BY <1>1, Sizes DEF Area

\* get_page_from_heap() takes the lowest free page and leaves the others.
LEMMA FirstPageTakenFacts ==
    ASSUME NEW a \in Seq(Area), a # <<>>, Apart(a)
    PROVE  LET b == FirstPageTaken(a)
               v == a[1].vm_start
           IN  /\ v \in Page /\ Has(a, v)
               /\ \A x \in Page : Has(a, x) => v <= x
               /\ b \in Seq(Area) /\ Apart(b)
               /\ \A x \in Page : Has(b, x) <=> Has(a, x) /\ x # v
<1> DEFINE v == a[1].vm_start
           area == [a[1] EXCEPT !.vm_start = @ + 1]
           b == FirstPageTaken(a)
<1>1. 1 \in 1..Len(a) /\ Len(a) \in Nat
  OBVIOUS
<1>2. a[1] \in Area /\ a[1].vm_start < a[1].vm_end
  BY <1>1, AreaFields DEF Apart
<1>3. /\ area \in Area /\ area.vm_start = v + 1 /\ area.vm_end = a[1].vm_end
      /\ v \in Page /\ v \in Nat /\ a[1].vm_end \in Nat
  <2>1. v \in 0..HEAP /\ a[1].vm_end \in 0..HEAP
    BY <1>2 DEF Area
  <2>2. v + 1 \in 0..HEAP /\ v \in Page /\ v \in Nat /\ a[1].vm_end \in Nat
    BY <1>2, <2>1, Sizes DEF Page
  <2>3. area.vm_start = v + 1 /\ area.vm_end = a[1].vm_end /\ area \in Area
    BY <1>2, <2>2 DEF Area
  <2> QED
    BY <2>2, <2>3
<1>4. Has(a, v)
  BY <1>1, <1>2, <1>3 DEF Has
<1>5. \A i \in 1..Len(a) : i # 1 => a[1].vm_end < a[i].vm_start
  BY <1>1 DEF Apart
<1>6. \A x \in Page : Has(a, x) => v <= x
  <2> SUFFICES ASSUME NEW x \in Page, NEW i \in 1..Len(a), a[i].vm_start <= x
               PROVE  v <= x
    BY DEF Has
  <2>1. a[i].vm_start \in Int /\ x \in Int
    BY AreaFields, Sizes DEF Page
  <2>2. CASE i = 1
    BY <2>2
  <2>3. CASE i # 1
    BY <1>2, <1>3, <1>5, <2>1, <2>3
  <2> QED
    BY <2>2, <2>3
<1> HIDE DEF area, v
<1>7. CASE area.vm_start = area.vm_end
  <2>1. b = Tail(a)
    BY <1>7 DEF FirstPageTaken, area
  <2>2. b \in Seq(Area) /\ Len(b) = Len(a) - 1 /\ \A i \in 1..Len(b) : b[i] = a[i + 1]
    BY <2>1, TailFacts
  <2> HIDE DEF b
  <2>3. Apart(b)
    <3>1. \A i \in 1..Len(b) : i + 1 \in 1..Len(a) /\ b[i] = a[i + 1]
      BY <1>1, <2>2
    <3>2. \A i, j \in 1..Len(b) : i < j => i + 1 < j + 1
      OBVIOUS
    <3> QED
      BY <3>1, <3>2 DEF Apart
  <2>4. ASSUME NEW x \in Page
        PROVE  Has(b, x) <=> Has(a, x) /\ x # v
    <3>1. ASSUME Has(b, x) PROVE Has(a, x) /\ x # v
      <4>1. PICK i \in 1..Len(b) : b[i].vm_start <= x /\ x < b[i].vm_end
        BY <3>1 DEF Has
      <4>2. i + 1 \in 1..Len(a) /\ i + 1 # 1 /\ b[i] = a[i + 1]
        BY <1>1, <2>2
      <4>3. a[1].vm_end < a[i + 1].vm_start
        BY <1>5, <4>2
      <4>4. a[i + 1].vm_start \in Int
        BY <4>2, AreaFields
      <4> QED
        BY <1>2, <1>3, <4>1, <4>2, <4>3, <4>4 DEF Has, v, Page
    <3>2. ASSUME Has(a, x), x # v PROVE Has(b, x)
      <4>1. PICK i \in 1..Len(a) : a[i].vm_start <= x /\ x < a[i].vm_end
        BY <3>2 DEF Has
      <4>2. i # 1
        BY <1>2, <1>3, <1>7, <3>2, <4>1 DEF v, Page
      <4>3. i - 1 \in 1..Len(b) /\ b[i - 1] = a[i]
        BY <1>1, <2>2, <4>2
      <4> QED
        BY <4>1, <4>3 DEF Has
    <3> QED
      BY <3>1, <3>2
  <2> QED
    BY <1>3, <1>4, <1>6, <2>2, <2>3, <2>4 DEF b, v
<1>8. CASE area.vm_start # area.vm_end
  <2>1. b = <<area>> \o Tail(a)
    BY <1>8 DEF FirstPageTaken, area
  <2>2. b \in Seq(Area) /\ Len(b) = Len(a) /\ b[1] = area /\ \A i \in 2..Len(b) : b[i] = a[i]
    BY <1>3, <2>1, ConsTailFacts
  <2> HIDE DEF b
  <2>3. Apart(b)
    <3>1. \A i \in 1..Len(b) : b[i].vm_end = a[i].vm_end
      BY <1>3, <2>2
    <3>2. \A i \in 1..Len(b) : i # 1 => b[i] = a[i]
      BY <1>1, <2>2
    <3>3. b[1].vm_start < b[1].vm_end
      BY <1>2, <1>3, <1>8, <2>2 DEF v
    <3> QED
      BY <1>1, <2>2, <3>1, <3>2, <3>3 DEF Apart
  <2>4. ASSUME NEW x \in Page
        PROVE  Has(b, x) <=> Has(a, x) /\ x # v
    <3>0. \A i \in 1..Len(b) : i # 1 => b[i] = a[i]
      BY <1>1, <2>2
    <3>1. ASSUME Has(b, x) PROVE Has(a, x) /\ x # v
      <4>1. PICK i \in 1..Len(b) : b[i].vm_start <= x /\ x < b[i].vm_end
        BY <3>1 DEF Has
      <4>2. CASE i = 1
        BY <1>1, <1>2, <1>3, <2>2, <4>1, <4>2 DEF Has, v, Page
      <4>3. CASE i # 1
        <5>1. b[i] = a[i] /\ i \in 1..Len(a) /\ a[1].vm_end < a[i].vm_start /\ a[i].vm_start \in Int
          BY <1>5, <2>2, <3>0, <4>3, AreaFields
        <5> QED
          BY <1>2, <1>3, <4>1, <5>1 DEF Has, v, Page
      <4> QED
        BY <4>2, <4>3
    <3>2. ASSUME Has(a, x), x # v PROVE Has(b, x)
      <4>1. PICK i \in 1..Len(a) : a[i].vm_start <= x /\ x < a[i].vm_end
        BY <3>2 DEF Has
      <4>2. CASE i = 1
        BY <1>1, <1>2, <1>3, <2>2, <3>2, <4>1, <4>2 DEF Has, v, Page
      <4>3. CASE i # 1
        BY <2>2, <3>0, <4>1, <4>3 DEF Has
      <4> QED
        BY <4>2, <4>3
    <3> QED
      BY <3>1, <3>2
  <2> QED
    BY <1>3, <1>4, <1>6, <2>2, <2>3, <2>4 DEF b, v
<1> QED
  BY <1>7, <1>8

\* The cases of release_page_from_heap() leave a list of areas with page v. The
\* areas before k end at or below v, the others start above it.
LEMMA PageReturnedFacts ==
    ASSUME NEW a \in Seq(Area), Apart(a), NEW v \in Page, ~Has(a, v), NextArea(a, v) # 0
    PROVE  LET b == PageReturned(a, v)
           IN  /\ b \in Seq(Area) /\ Apart(b)
               /\ \A x \in Page : Has(b, x) <=> Has(a, x) \/ x = v
<1> DEFINE k == NextArea(a, v)
           b == PageReturned(a, v)
<1>1. v \in Nat /\ v < HEAP /\ HEAP \in Nat /\ Len(a) \in Nat
  BY Sizes DEF Page
<1>2. /\ k \in 1..Len(a) /\ a[k].vm_start > v
      /\ \A i \in 1..Len(a) : i < k => ~(a[i].vm_start > v)
  BY <1>1, NextAreaFacts
<1> HIDE DEF k
<1>3. \A i \in 1..Len(a) : /\ a[i].vm_start \in 0..HEAP /\ a[i].vm_end \in 0..HEAP
                           /\ a[i].vm_start < a[i].vm_end /\ a[i] \in Area
  BY AreaFields DEF Apart
<1>4. \A i \in 1..Len(a) : i < k => a[i].vm_end <= v
  BY <1>1, <1>2, <1>3 DEF Has
<1>5. \A i \in 1..Len(a) : i >= k => a[i].vm_start > v
  <2> SUFFICES ASSUME NEW i \in 1..Len(a), i > k PROVE a[i].vm_start > v
    BY <1>2
  <2>1. a[k].vm_end < a[i].vm_start
    BY <1>2 DEF Apart
  <2> QED
    BY <1>1, <1>2, <1>3, <2>1
<1>6. CASE k > 1 /\ a[k - 1].vm_end = v /\ a[k].vm_start = v + 1
  <2> DEFINE c == [a EXCEPT ![k - 1].vm_end = a[k].vm_end]
  <2>1. b = RemoveAt(c, k)
    BY <1>6 DEF PageReturned, k
  <2>2. k - 1 \in 1..Len(a)
    BY <1>2, <1>6
  <2>3. /\ c \in Seq(Area) /\ Len(c) = Len(a)
        /\ c[k - 1].vm_start = a[k - 1].vm_start /\ c[k - 1].vm_end = a[k].vm_end
        /\ \A i \in 1..Len(a) : i # k - 1 => c[i] = a[i]
    <3>1. [a[k - 1] EXCEPT !.vm_end = a[k].vm_end] \in Area
      BY <1>2, <1>3, <2>2 DEF Area
    <3> QED
      BY <1>1, <1>2, <1>3, <2>2, <3>1 DEF Area
  <2> HIDE DEF c
  <2>4. /\ b \in Seq(Area) /\ Len(b) = Len(a) - 1
        /\ \A i \in 1..(Len(a) - 1) : b[i] = IF i < k THEN c[i] ELSE c[i + 1]
    BY <1>2, <2>1, <2>3, RemoveAtFacts
  <2> HIDE DEF b
  <2>5. /\ \A i \in 1..Len(b) : i < k - 1 => b[i] = a[i]
        /\ b[k - 1].vm_start = a[k - 1].vm_start /\ b[k - 1].vm_end = a[k].vm_end
        /\ \A i \in 1..Len(b) : i > k - 1 => b[i] = a[i + 1]
    <3>1. ASSUME NEW i \in 1..Len(b), i < k - 1 PROVE b[i] = a[i]
      <4>1. i \in 1..Len(a) /\ i \in 1..(Len(a) - 1) /\ i < k /\ i # k - 1
        BY <1>1, <1>2, <2>4, <3>1
      <4> QED
        BY <2>3, <2>4, <4>1
    <3>2. b[k - 1] = c[k - 1]
      <4>1. k - 1 \in 1..(Len(a) - 1) /\ k - 1 < k
        BY <1>1, <1>2, <2>2
      <4> QED
        BY <2>4, <4>1
    <3>3. ASSUME NEW i \in 1..Len(b), i > k - 1 PROVE b[i] = a[i + 1]
      <4>1. i \in 1..(Len(a) - 1) /\ ~(i < k) /\ i + 1 \in 1..Len(a) /\ i + 1 # k - 1
        BY <1>1, <1>2, <2>4, <3>3
      <4> QED
        BY <2>3, <2>4, <4>1
    <3> QED
      BY <2>3, <3>1, <3>2, <3>3
  <2>6. /\ a[k - 1].vm_start \in Nat /\ a[k].vm_end \in Nat
        /\ a[k - 1].vm_start < v /\ v + 1 < a[k].vm_end
    BY <1>1, <1>2, <1>3, <1>6, <2>2
  <2>7. Apart(b)
    <3>1. ASSUME NEW i \in 1..Len(b) PROVE b[i].vm_start < b[i].vm_end
      <4>1. CASE i < k - 1
        BY <1>1, <1>3, <2>4, <2>5, <4>1
      <4>2. CASE i = k - 1
        BY <1>1, <2>5, <2>6, <4>2
      <4>3. CASE i > k - 1
        <5>1. i + 1 \in 1..Len(a)
          BY <1>1, <2>4
        <5> QED
          BY <1>3, <2>5, <4>3, <5>1
      <4> QED
        BY <2>2, <4>1, <4>2, <4>3
    <3>2. ASSUME NEW i \in 1..Len(b), NEW j \in 1..Len(b), i < j
          PROVE  b[i].vm_end < b[j].vm_start
      <4> DEFINE p == IF i < k - 1 THEN i ELSE i + 1
                 q == IF j <= k - 1 THEN j ELSE j + 1
      <4>1. b[i].vm_end = a[p].vm_end
        <5>1. CASE i = k - 1
          BY <1>2, <2>5, <5>1
        <5>2. CASE i # k - 1
          BY <1>2, <2>5, <5>2
        <5> QED
          BY <5>1, <5>2
      <4>2. b[j].vm_start = a[q].vm_start
        <5>1. CASE j < k - 1
          BY <1>2, <2>2, <2>5, <5>1
        <5>2. CASE j = k - 1
          BY <1>2, <2>2, <2>5, <5>2
        <5>3. CASE j > k - 1
          BY <1>2, <2>2, <2>5, <5>3
        <5> QED
          BY <1>2, <2>2, <5>1, <5>2, <5>3
      <4>3. p \in 1..Len(a) /\ q \in 1..Len(a) /\ p < q
        BY <1>1, <1>2, <2>2, <2>4, <3>2
      <4> HIDE DEF p, q
      <4> QED
        BY <4>1, <4>2, <4>3 DEF Apart
    <3> QED
      BY <3>1, <3>2 DEF Apart
  <2>8. ASSUME NEW x \in Page
        PROVE  Has(b, x) <=> Has(a, x) \/ x = v
    <3>0. x \in Nat
      BY DEF Page
    <3>1. ASSUME Has(b, x) PROVE Has(a, x) \/ x = v
      <4>1. PICK i \in 1..Len(b) : b[i].vm_start <= x /\ x < b[i].vm_end
        BY <3>1 DEF Has
      <4>2. CASE i < k - 1
        BY <1>1, <2>4, <2>5, <4>1, <4>2 DEF Has
      <4>3. CASE i > k - 1
        <5>1. i + 1 \in 1..Len(a) /\ b[i] = a[i + 1]
          BY <1>1, <2>4, <2>5, <4>3
        <5> QED
          BY <4>1, <5>1 DEF Has
      <4>4. CASE i = k - 1
        <5>1. a[k - 1].vm_start <= x /\ x < a[k].vm_end
          BY <2>5, <4>1, <4>4
        <5>2. x = v \/ x < a[k - 1].vm_end \/ a[k].vm_start <= x
          BY <1>1, <1>6, <3>0
        <5> QED
          BY <1>2, <2>2, <5>1, <5>2 DEF Has
      <4> QED
        BY <1>2, <4>2, <4>3, <4>4
    <3>2. ASSUME Has(a, x) \/ x = v PROVE Has(b, x)
      <4>0. k - 1 \in 1..Len(b)
        BY <1>1, <1>2, <2>2, <2>4
      <4>1. CASE x = v
        <5>1. b[k - 1].vm_start <= x /\ x < b[k - 1].vm_end
          BY <1>1, <2>5, <2>6, <4>1
        <5> QED
          BY <4>0, <5>1 DEF Has
      <4>2. CASE Has(a, x)
        <5>1. PICK i \in 1..Len(a) : a[i].vm_start <= x /\ x < a[i].vm_end
          BY <4>2 DEF Has
        <5>2. CASE i < k - 1
          BY <1>1, <1>2, <2>4, <2>5, <5>1, <5>2 DEF Has
        <5>3. CASE i > k
          <6>1. i - 1 \in 1..Len(b) /\ b[i - 1] = a[i]
            BY <1>1, <1>2, <2>4, <2>5, <5>3
          <6> QED
            BY <5>1, <6>1 DEF Has
        <5>4. CASE i = k - 1 \/ i = k
          <6>1. b[k - 1].vm_start <= x /\ x < b[k - 1].vm_end
            BY <1>1, <1>2, <1>3, <1>4, <1>6, <2>2, <2>5, <3>0, <5>1, <5>4
          <6> QED
            BY <4>0, <6>1 DEF Has
        <5> QED
          BY <1>2, <5>2, <5>3, <5>4
      <4> QED
        BY <3>2, <4>1, <4>2
    <3> QED
      BY <3>1, <3>2
  <2> QED
    BY <2>4, <2>7, <2>8 DEF b
\* One of the two areas next to v grows.
<1>7. ASSUME NEW m \in 1..Len(a), NEW e \in Area, b = [a EXCEPT ![m] = e],
             e.vm_start < e.vm_end,
             \A i \in 1..Len(a) : i < m => a[i].vm_end < e.vm_start,
             \A i \in 1..Len(a) : i > m => e.vm_end < a[i].vm_start,
             \A x \in Page : e.vm_start <= x /\ x < e.vm_end
                              <=> (a[m].vm_start <= x /\ x < a[m].vm_end) \/ x = v
      PROVE  b \in Seq(Area) /\ Apart(b) /\ \A x \in Page : Has(b, x) <=> Has(a, x) \/ x = v
  <2>1. b \in Seq(Area) /\ Len(b) = Len(a) /\ b[m] = e /\ \A i \in 1..Len(a) : i # m => b[i] = a[i]
    BY <1>7
  <2> HIDE DEF b
  <2>2. Apart(b)
    BY <1>1, <1>7, <2>1 DEF Apart
  <2>3. \A x \in Page : Has(b, x) <=> Has(a, x) \/ x = v
    BY <1>7, <2>1 DEF Has
  <2> QED
    BY <2>1, <2>2, <2>3
<1>8. CASE k > 1 /\ a[k - 1].vm_end = v /\ a[k].vm_start # v + 1
  <2> DEFINE m == k - 1
             e == [a[m] EXCEPT !.vm_end = v + 1]
  <2>1. b = [a EXCEPT ![m] = e]
    BY <1>8 DEF PageReturned, k
  <2>2. m \in 1..Len(a)
    BY <1>2, <1>8
  <2>3. /\ e \in Area /\ e.vm_start = a[m].vm_start /\ e.vm_end = v + 1
        /\ a[m].vm_start \in Int /\ a[m].vm_start < v /\ a[m].vm_end = v
    <3>1. a[m] \in Area /\ a[m].vm_end = v /\ a[m].vm_start < v /\ a[m].vm_start \in 0..HEAP
      BY <1>3, <1>8, <2>2
    <3>2. v + 1 \in 0..HEAP
      BY <1>1
    <3> HIDE DEF m
    <3>3. e \in Area /\ e.vm_start = a[m].vm_start /\ e.vm_end = v + 1
      BY <3>1, <3>2 DEF Area
    <3> QED
      BY <1>1, <3>1, <3>3
  <2>4. ASSUME NEW i \in 1..Len(a), i > m PROVE e.vm_end < a[i].vm_start
    <3>1. a[k].vm_start > v + 1 /\ a[k].vm_start \in Int
      BY <1>1, <1>2, <1>3, <1>8
    <3>2. CASE i = k
      BY <1>1, <2>3, <3>1, <3>2
    <3>3. CASE i > k
      <4>1. a[k].vm_end < a[i].vm_start /\ a[k].vm_start < a[k].vm_end
        BY <1>2, <3>3 DEF Apart
      <4> QED
        BY <1>1, <1>2, <1>3, <2>3, <3>1, <4>1
    <3> QED
      BY <1>2, <2>4, <3>2, <3>3
  <2>5. ASSUME NEW i \in 1..Len(a), i < m PROVE a[i].vm_end < e.vm_start
    BY <2>2, <2>3, <2>5 DEF Apart
  <2>6. ASSUME NEW x \in Page
        PROVE  e.vm_start <= x /\ x < e.vm_end
                 <=> (a[m].vm_start <= x /\ x < a[m].vm_end) \/ x = v
    <3>1. x \in Int
      BY DEF Page
    <3> HIDE DEF e, m
    <3> QED
      BY <1>1, <2>3, <3>1
  <2>7. e.vm_start < e.vm_end
    BY <1>1, <2>3
  <2> HIDE DEF e, m, b
  <2> QED
    BY <1>7, <2>1, <2>2, <2>3, <2>4, <2>5, <2>6, <2>7 DEF b
<1>9. CASE ~(k > 1 /\ a[k - 1].vm_end = v) /\ a[k].vm_start = v + 1
  <2> DEFINE e == [a[k] EXCEPT !.vm_start = v]
  <2>1. b = [a EXCEPT ![k] = e]
    BY <1>9 DEF PageReturned, k
  <2>2. /\ e \in Area /\ e.vm_start = v /\ e.vm_end = a[k].vm_end
        /\ a[k].vm_end \in Int /\ v + 1 < a[k].vm_end
    <3>1. a[k] \in Area /\ a[k].vm_end \in 0..HEAP /\ a[k].vm_start < a[k].vm_end
      BY <1>2, <1>3
    <3>2. e \in Area /\ e.vm_start = v /\ e.vm_end = a[k].vm_end
      BY <1>1, <3>1 DEF Area
    <3> QED
      BY <1>1, <1>9, <3>1, <3>2
  <2>3. ASSUME NEW i \in 1..Len(a), i > k PROVE e.vm_end < a[i].vm_start
    BY <1>2, <2>2, <2>3 DEF Apart
  <2>4. ASSUME NEW i \in 1..Len(a), i < k PROVE a[i].vm_end < e.vm_start
    <3>1. k - 1 \in 1..Len(a) /\ a[k - 1].vm_end < v
      BY <1>1, <1>2, <1>3, <1>4, <1>9, <2>4
    <3>2. i = k - 1 \/ (i < k - 1 /\ a[i].vm_end < a[k - 1].vm_start)
      BY <1>2, <2>4, <3>1 DEF Apart
    <3> QED
      BY <1>1, <1>3, <2>2, <3>1, <3>2
  <2>5. ASSUME NEW x \in Page
        PROVE  e.vm_start <= x /\ x < e.vm_end
                 <=> (a[k].vm_start <= x /\ x < a[k].vm_end) \/ x = v
    <3>1. x \in Int
      BY DEF Page
    <3> HIDE DEF e
    <3> QED
      BY <1>1, <1>9, <2>2, <3>1
  <2>6. e.vm_start < e.vm_end
    BY <1>1, <2>2
  <2> HIDE DEF e, b
  <2> QED
    BY <1>2, <1>7, <2>1, <2>2, <2>3, <2>4, <2>5, <2>6 DEF b
<1>10. CASE ~(k > 1 /\ a[k - 1].vm_end = v) /\ a[k].vm_start # v + 1
  <2> DEFINE e == [vm_start |-> v, vm_end |-> v + 1]
  <2>1. b = InsertAt(a, k, e)
    BY <1>10 DEF PageReturned, k
  <2>2. e \in Area /\ e.vm_start = v /\ e.vm_end = v + 1
    BY <1>1 DEF Area
  <2> HIDE DEF e
  <2>3. /\ b \in Seq(Area) /\ Len(b) = Len(a) + 1
        /\ \A i \in 1..(Len(a) + 1) : b[i] = IF i < k THEN a[i] ELSE IF i = k THEN e ELSE a[i - 1]
    BY <1>2, <2>1, <2>2, InsertAtFacts
  <2> HIDE DEF b
  <2>4. ASSUME NEW i \in 1..Len(a), i >= k PROVE v + 1 < a[i].vm_start
    <3>1. a[k].vm_start > v + 1 /\ a[k].vm_start \in Int
      BY <1>1, <1>2, <1>3, <1>10
    <3>2. CASE i > k
      <4>1. a[k].vm_end < a[i].vm_start /\ a[k].vm_start < a[k].vm_end
        BY <1>2, <3>2 DEF Apart
      <4> QED
        BY <1>1, <1>2, <1>3, <3>1, <4>1
    <3> QED
      BY <1>1, <1>2, <2>4, <3>1, <3>2
  <2>5. ASSUME NEW i \in 1..Len(a), i < k PROVE a[i].vm_end < v
    <3>1. k - 1 \in 1..Len(a) /\ a[k - 1].vm_end < v
      BY <1>1, <1>2, <1>3, <1>4, <1>10, <2>5
    <3>2. i = k - 1 \/ (i < k - 1 /\ a[i].vm_end < a[k - 1].vm_start)
      BY <1>2, <2>5, <3>1 DEF Apart
    <3> QED
      BY <1>1, <1>3, <3>1, <3>2
  <2>6. /\ \A i \in 1..Len(b) : i < k => i \in 1..Len(a) /\ b[i] = a[i]
        /\ k \in 1..Len(b) /\ b[k] = e
        /\ \A i \in 1..Len(b) : i > k => i - 1 \in 1..Len(a) /\ i - 1 >= k /\ b[i] = a[i - 1]
    BY <1>1, <1>2, <2>3
  <2>7. Apart(b)
    <3>1. ASSUME NEW i \in 1..Len(b) PROVE b[i].vm_start < b[i].vm_end
      <4>1. CASE i < k
        BY <1>3, <2>6, <4>1
      <4>2. CASE i = k
        BY <1>1, <2>2, <2>6, <4>2
      <4>3. CASE i > k
        BY <1>3, <2>6, <4>3
      <4> QED
        BY <1>2, <4>1, <4>2, <4>3
    <3>2. ASSUME NEW i \in 1..Len(b), NEW j \in 1..Len(b), i < j
          PROVE  b[i].vm_end < b[j].vm_start
      <4>1. CASE j < k
        <5>1. i < k
          BY <1>2, <3>2, <4>1
        <5>2. i \in 1..Len(a) /\ b[i] = a[i] /\ j \in 1..Len(a) /\ b[j] = a[j]
          BY <2>6, <4>1, <5>1
        <5> QED
          BY <3>2, <5>2 DEF Apart
      <4>2. CASE j = k
        <5>1. i \in 1..Len(a) /\ b[i] = a[i] /\ i < k
          BY <2>6, <3>2, <4>2
        <5>2. b[j].vm_start = v
          BY <2>2, <2>6, <4>2
        <5> QED
          BY <2>5, <5>1, <5>2
      <4>3. CASE j > k /\ i < k
        <5>1. i < j - 1
          BY <1>2, <4>3
        <5>2. i \in 1..Len(a) /\ b[i] = a[i] /\ j - 1 \in 1..Len(a) /\ b[j] = a[j - 1]
          BY <2>6, <4>3
        <5> QED
          BY <5>1, <5>2 DEF Apart
      <4>4. CASE j > k /\ i = k
        BY <2>2, <2>4, <2>6, <4>4
      <4>5. CASE j > k /\ i > k
        <5>1. i - 1 < j - 1
          BY <3>2
        <5>2. /\ i - 1 \in 1..Len(a) /\ b[i] = a[i - 1]
              /\ j - 1 \in 1..Len(a) /\ b[j] = a[j - 1]
          BY <2>6, <4>5
        <5> QED
          BY <5>1, <5>2 DEF Apart
      <4> QED
        BY <1>2, <4>1, <4>2, <4>3, <4>4, <4>5
    <3> QED
      BY <3>1, <3>2 DEF Apart
  <2>8. ASSUME NEW x \in Page
        PROVE  Has(b, x) <=> Has(a, x) \/ x = v
    <3>0. x \in Int
      BY DEF Page
    <3>1. ASSUME Has(b, x) PROVE Has(a, x) \/ x = v
      <4>1. PICK i \in 1..Len(b) : b[i].vm_start <= x /\ x < b[i].vm_end
        BY <3>1 DEF Has
      <4>2. CASE i = k
        BY <1>1, <2>2, <2>6, <3>0, <4>1, <4>2
      <4>3. CASE i # k
        <5>1. i < k \/ i > k
          BY <1>2, <4>3
        <5> QED
          BY <2>6, <4>1, <5>1 DEF Has
      <4> QED
        BY <4>2, <4>3
    <3>2. ASSUME NEW i \in 1..Len(a), a[i].vm_start <= x /\ x < a[i].vm_end PROVE Has(b, x)
      <4>1. CASE i < k
        <5>1. i \in 1..Len(b) /\ b[i] = a[i]
          BY <1>1, <2>3, <2>6, <4>1
        <5> QED
          BY <3>2, <5>1 DEF Has
      <4>2. CASE i >= k
        <5>1. i + 1 \in 1..Len(b) /\ b[i + 1] = a[i]
          BY <1>1, <1>2, <2>3, <4>2
        <5> QED
          BY <3>2, <5>1 DEF Has
      <4> QED
        BY <1>2, <4>1, <4>2
    <3>3. ASSUME x = v PROVE Has(b, x)
      BY <1>1, <2>2, <2>6, <3>3 DEF Has
    <3> QED
      BY <3>1, <3>2, <3>3 DEF Has
  <2> QED
    BY <2>3, <2>7, <2>8 DEF b
<1> QED
  BY <1>6, <1>8, <1>9, <1>10

-----------------------------------------------------------------------------

\* The pages that are held are finitely many.
LEMMA PagesFinite ==
    ASSUME NEW S \in SUBSET Page
    PROVE  IsFiniteSet(S) /\ Cardinality(S) \in Nat
<1>1. IsFiniteSet(Page)
  BY Sizes, FS_Interval DEF Page
<1> QED
  BY <1>1, FS_Subset, FS_CardinalityType

\* get_page_frame() returns a frame, and one that is not used if there is one.
LEMMA FrameFacts ==
    ASSUME NEW m \in Memory
    PROVE  /\ get_page_frame(m) \in Frame
           /\ Frame \ m.used # {} => get_page_frame(m) \notin m.used
<1>1. Frame \ m.used \in SUBSET Nat
  BY Sizes DEF Frame
<1>2. MAXPAGE - 1 \in Frame
  BY Sizes DEF Frame
<1>3. CASE Frame \ m.used = {}
  BY <1>2, <1>3 DEF get_page_frame
<1>4. CASE Frame \ m.used # {}
  <2>1. Min(Frame \ m.used) \in Frame \ m.used
    BY <1>1, <1>4, MinInSet
  <2> QED
    BY <1>4, <2>1 DEF get_page_frame
<1> QED
  BY <1>3, <1>4

\* What get_page_from_heap() changes when there is a free page.
LEMMA GetFields ==
    ASSUME NEW m \in Memory, m.areas # <<>>, FirstPageTaken(m.areas) \in Seq(Area),
           FirstPage(m) \in Page
    PROVE  LET g == get_page_from_heap(m)
               f == get_page_frame(m)
           IN  /\ g \in Memory
               /\ g.used = m.used \cup {f}
               /\ g.areas = FirstPageTaken(m.areas)
               /\ g.kpte = [m.kpte EXCEPT ![FirstPage(m)] = f]
               /\ g.kheap = m.kheap /\ g.halted = m.halted
<1>1. get_page_frame(m) \in Frame
  BY FrameFacts
<1> QED
  BY <1>1 DEF get_page_from_heap, pd0_add_page, set_page_frame_used, Memory

\* What release_page_from_heap() changes when the page is mapped and there is an
\* area above it.
LEMMA ReleaseFields ==
    ASSUME NEW m \in Memory, NEW v \in Page, m.kpte[v] # NoFrame, NextArea(m.areas, v) # 0,
           PageReturned(m.areas, v) \in Seq(Area)
    PROVE  LET g == release_page_from_heap(m, v)
           IN  /\ g \in Memory
               /\ g.used = m.used \ {m.kpte[v]}
               /\ g.areas = PageReturned(m.areas, v)
               /\ g.kpte = [m.kpte EXCEPT ![v] = NoFrame]
               /\ g.kheap = m.kheap /\ g.halted = m.halted
BY DEF release_page_from_heap, release_page_frame, pd_remove_page, get_p_addr, Memory

\* A get takes a free page, the lowest, and leaves the list exact, as long as a
\* page remains: the last one.
LEMMA GetSound ==
    ASSUME NEW m, Sound(m), Cardinality(Mapped(m)) + 1 < HEAP
    PROVE  LET g == get_page_from_heap(m)
               v == FirstPage(m)
               f == get_page_frame(m)
           IN  /\ v \in Page \ Mapped(m) /\ f \in Frame
               /\ Sound(g) /\ Mapped(g) = Mapped(m) \cup {v}
               /\ g.used = m.used \cup {f}
               /\ g.kpte = [m.kpte EXCEPT ![v] = f]
               /\ g.kheap = m.kheap
<1> DEFINE v == FirstPage(m)
           f == get_page_frame(m)
           g == get_page_from_heap(m)
<1>1. /\ m \in Memory /\ m.areas \in Seq(Area) /\ Apart(m.areas)
      /\ m.kpte \in [Page -> Frame \cup {NoFrame}]
  BY DEF Sound, Memory
<1>2. HEAP - 1 \in Page
  BY Sizes DEF Page
<1>3. m.areas # <<>>
  <2>1. Has(m.areas, HEAP - 1)
    BY <1>2 DEF Sound
  <2> QED
    BY <2>1 DEF Has
<1>4. /\ v \in Page /\ Has(m.areas, v)
      /\ \A x \in Page : Has(m.areas, x) => v <= x
      /\ FirstPageTaken(m.areas) \in Seq(Area) /\ Apart(FirstPageTaken(m.areas))
      /\ \A x \in Page : Has(FirstPageTaken(m.areas), x) <=> Has(m.areas, x) /\ x # v
  BY <1>1, <1>3, FirstPageTakenFacts DEF FirstPage
<1>5. v \notin Mapped(m)
  BY <1>4 DEF Sound, Mapped
<1>6. ASSUME v = HEAP - 1 PROVE FALSE
  <2>1. ASSUME NEW x \in 0..(HEAP - 2) PROVE x \in Mapped(m)
    <3>1. x \in Page /\ ~(v <= x)
      BY <1>6, Sizes DEF Page
    <3> QED
      BY <1>4, <3>1 DEF Sound, Mapped
  <2>2. 0..(HEAP - 2) \in SUBSET Mapped(m)
    BY <2>1
  <2>3. IsFiniteSet(Mapped(m)) /\ Cardinality(Mapped(m)) \in Nat
    <3>1. Mapped(m) \in SUBSET Page
      BY DEF Mapped
    <3> QED
      BY <3>1, PagesFinite
  <2>4. Cardinality(0..(HEAP - 2)) <= Cardinality(Mapped(m))
    BY <2>2, <2>3, FS_Subset
  <2>5. Cardinality(0..(HEAP - 2)) = HEAP - 1
    <3>1. 0 \in Int /\ HEAP - 2 \in Int
      BY Sizes
    <3>2. Cardinality(0..(HEAP - 2)) = IF 0 > HEAP - 2 THEN 0 ELSE (HEAP - 2) - 0 + 1
      BY <3>1, FS_Interval
    <3> QED
      BY <3>2, Sizes
  <2> QED
    BY <2>3, <2>4, <2>5, Sizes
<1>7. f \in Frame /\ f # NoFrame
  BY <1>1, FrameFacts, Sizes DEF Frame, NoFrame
<1>8. /\ g \in Memory /\ g.used = m.used \cup {f} /\ g.areas = FirstPageTaken(m.areas)
      /\ g.kpte = [m.kpte EXCEPT ![v] = f] /\ g.kheap = m.kheap /\ g.halted = m.halted
  BY <1>1, <1>3, <1>4, GetFields
<1> HIDE DEF v, f, g
<1>9. \A x \in Page : g.kpte[x] = IF x = v THEN f ELSE m.kpte[x]
  BY <1>1, <1>8
<1>10. Mapped(g) = Mapped(m) \cup {v}
  BY <1>4, <1>7, <1>9 DEF Mapped
<1>11. Sound(g)
  <2>1. \A x \in Page : Has(g.areas, x) <=> g.kpte[x] = NoFrame
    BY <1>4, <1>7, <1>8, <1>9 DEF Sound
  <2>2. g.kpte[HEAP - 1] = NoFrame
    BY <1>2, <1>6, <1>9 DEF Sound
  <2> QED
    BY <1>4, <1>8, <2>1, <2>2 DEF Sound
<1> QED
  BY <1>4, <1>5, <1>7, <1>8, <1>10, <1>11 DEF v, f, g

\* A release gives the page back and leaves the list exact.
LEMMA ReleaseSound ==
    ASSUME NEW m, Sound(m), NEW v \in Mapped(m)
    PROVE  LET g == release_page_from_heap(m, v)
           IN  /\ Sound(g) /\ Mapped(g) = Mapped(m) \ {v}
               /\ g.used = m.used \ {m.kpte[v]}
               /\ g.kpte = [m.kpte EXCEPT ![v] = NoFrame]
               /\ g.kheap = m.kheap
<1> DEFINE g == release_page_from_heap(m, v)
<1>1. /\ m \in Memory /\ m.areas \in Seq(Area) /\ Apart(m.areas)
      /\ m.kpte \in [Page -> Frame \cup {NoFrame}]
  BY DEF Sound, Memory
<1>2. v \in Page /\ m.kpte[v] # NoFrame /\ ~Has(m.areas, v) /\ v # HEAP - 1
  BY DEF Sound, Mapped
<1>3. NextArea(m.areas, v) # 0
  <2>1. HEAP - 1 \in Page /\ v \in Nat /\ v < HEAP - 1
    BY <1>2, Sizes DEF Page
  <2>2. Has(m.areas, HEAP - 1)
    BY <2>1 DEF Sound
  <2>3. PICK i \in 1..Len(m.areas) : m.areas[i].vm_start <= HEAP - 1 /\ HEAP - 1 < m.areas[i].vm_end
    BY <2>2 DEF Has
  <2>4. m.areas[i].vm_start \in Int /\ m.areas[i].vm_end \in Int
    BY <1>1, AreaFields
  <2>5. ~(m.areas[i].vm_start <= v /\ v < m.areas[i].vm_end)
    BY <1>2 DEF Has
  <2>6. m.areas[i].vm_start > v
    BY <2>1, <2>3, <2>4, <2>5, Sizes
  <2> QED
    BY <1>1, <2>1, <2>6, NextAreaFacts
<1>4. /\ PageReturned(m.areas, v) \in Seq(Area) /\ Apart(PageReturned(m.areas, v))
      /\ \A x \in Page : Has(PageReturned(m.areas, v), x) <=> Has(m.areas, x) \/ x = v
  BY <1>1, <1>2, <1>3, PageReturnedFacts
<1>5. /\ g \in Memory /\ g.used = m.used \ {m.kpte[v]} /\ g.areas = PageReturned(m.areas, v)
      /\ g.kpte = [m.kpte EXCEPT ![v] = NoFrame] /\ g.kheap = m.kheap /\ g.halted = m.halted
  BY <1>1, <1>2, <1>3, <1>4, ReleaseFields
<1> HIDE DEF g
<1>6. \A x \in Page : g.kpte[x] = IF x = v THEN NoFrame ELSE m.kpte[x]
  BY <1>1, <1>5
<1>7. Mapped(g) = Mapped(m) \ {v}
  BY <1>6 DEF Mapped
<1>8. Sound(g)
  <2>1. \A x \in Page : Has(g.areas, x) <=> g.kpte[x] = NoFrame
    BY <1>4, <1>5, <1>6 DEF Sound
  <2>2. HEAP - 1 \in Page
    BY Sizes DEF Page
  <2>3. g.kpte[HEAP - 1] = NoFrame
    BY <1>6, <2>2 DEF Sound
  <2> QED
    BY <1>4, <1>5, <2>1, <2>3 DEF Sound
<1> QED
  BY <1>5, <1>7, <1>8 DEF g

\* Marking frames used or free leaves the page heap alone.
LEMMA UsedSound ==
    ASSUME NEW m, Sound(m), NEW S \in SUBSET Frame
    PROVE  LET g == [m EXCEPT !.used = S]
           IN  /\ Sound(g) /\ Mapped(g) = Mapped(m)
               /\ g.used = S /\ g.kpte = m.kpte /\ g.kheap = m.kheap
<1> DEFINE g == [m EXCEPT !.used = S]
<1>1. m \in Memory
  BY DEF Sound
<1>2. /\ g \in Memory /\ g.used = S /\ g.areas = m.areas /\ g.kpte = m.kpte
      /\ g.kheap = m.kheap /\ g.halted = m.halted
  BY <1>1 DEF Memory
<1> HIDE DEF g
<1>3. Sound(g) /\ Mapped(g) = Mapped(m)
  BY <1>2 DEF Sound, Mapped
<1> QED
  BY <1>2, <1>3 DEF g

\* The list is exact when init_mm() returns: one area with all pages.
LEMMA InitSound == Sound(init_mm) /\ Mapped(init_mm) = {}
<1> DEFINE whole == [vm_start |-> 0, vm_end |-> HEAP]
           m == init_mm
<1>1. whole \in Area
  BY Sizes DEF Area
<1>2. /\ m.used = 0..KERNEL \cup RAM..(MAXPAGE - 1)
      /\ m.areas = <<whole>> /\ m.kpte = [v \in Page |-> NoFrame]
      /\ m.kheap = {KERNEL} /\ m.halted = FALSE
  BY DEF init_mm
<1>3. m \in Memory
  <2>1. 0..KERNEL \cup RAM..(MAXPAGE - 1) \subseteq Frame /\ {KERNEL} \subseteq Frame
    BY Sizes DEF Frame
  <2>2. <<whole>> \in Seq(Area)
    BY <1>1
  <2> QED
    BY <2>1, <2>2 DEF init_mm, Memory
<1> HIDE DEF m
<1>4. Apart(m.areas) /\ \A x \in Page : Has(m.areas, x)
  BY <1>2, Sizes DEF Apart, Has, Page
<1>5. HEAP - 1 \in Page
  BY Sizes DEF Page
<1>6. Sound(m) /\ Mapped(m) = {}
  BY <1>2, <1>3, <1>4, <1>5 DEF Sound, Mapped
<1> QED
  BY <1>6 DEF m

\* A sound memory has the list HeapListExact describes.
LEMMA SoundExact ==
    ASSUME NEW m, Sound(m)
    PROVE  HeapListExact(m)
<1>1. m.areas \in Seq(Area) /\ Apart(m.areas)
  BY DEF Sound, Memory
<1>2. DOMAIN m.areas = 1..Len(m.areas) /\ Len(m.areas) \in Nat
  BY <1>1
<1>3. \A i \in 1..(Len(m.areas) - 1) : m.areas[i].vm_end < m.areas[i + 1].vm_start
  <2>1. \A i \in 1..(Len(m.areas) - 1) :
          i \in 1..Len(m.areas) /\ i + 1 \in 1..Len(m.areas) /\ i < i + 1
    BY <1>2
  <2> QED
    BY <1>1, <2>1 DEF Apart
<1>4. ASSUME NEW x PROVE x \in FreePages(m.areas) <=> x \in Page /\ Has(m.areas, x)
  <2>1. ASSUME x \in FreePages(m.areas) PROVE x \in Page /\ Has(m.areas, x)
    <3>1. PICK i \in DOMAIN m.areas : x \in m.areas[i].vm_start .. (m.areas[i].vm_end - 1)
      BY <2>1 DEF FreePages
    <3>2. m.areas[i].vm_start \in 0..HEAP /\ m.areas[i].vm_end \in 0..HEAP
      BY <1>1, <1>2, AreaFields
    <3>3. x \in Page /\ m.areas[i].vm_start <= x /\ x < m.areas[i].vm_end
      BY <3>1, <3>2, Sizes DEF Page
    <3> QED
      BY <1>2, <3>3 DEF Has
  <2>2. ASSUME x \in Page, Has(m.areas, x) PROVE x \in FreePages(m.areas)
    <3>1. PICK i \in 1..Len(m.areas) : m.areas[i].vm_start <= x /\ x < m.areas[i].vm_end
      BY <2>2 DEF Has
    <3>2. m.areas[i].vm_start \in Int /\ m.areas[i].vm_end \in Int
      BY <1>1, AreaFields
    <3>3. x \in m.areas[i].vm_start .. (m.areas[i].vm_end - 1)
      BY <2>2, <3>1, <3>2 DEF Page
    <3> QED
      BY <1>2, <3>3 DEF FreePages
  <2> QED
    BY <2>1, <2>2
<1>5. FreePages(m.areas) = {v \in Page : m.kpte[v] = NoFrame}
  BY <1>4 DEF Sound
<1> QED
  BY <1>1, <1>2, <1>3, <1>5 DEF HeapListExact, Apart

-----------------------------------------------------------------------------

\* While fewer frames are taken than the machine has, get_page_frame() finds one.
LEMMA FrameLeft ==
    ASSUME NEW m, NEW F, Backed(m, F),
           KERNEL + 1 + Cardinality(Mapped(m)) + Cardinality(F) < RAM
    PROVE  get_page_frame(m) \in Spare \ m.used
<1>1. m \in Memory /\ Mapped(m) \in SUBSET Page /\ F \in SUBSET Spare
  BY DEF Backed, Sound, Mapped
<1>2. IsFiniteSet(Spare) /\ Cardinality(Spare) = RAM - KERNEL - 1
  <2>1. KERNEL + 1 \in Int /\ RAM - 1 \in Int
    BY Sizes
  <2>2. /\ IsFiniteSet((KERNEL + 1)..(RAM - 1))
        /\ Cardinality((KERNEL + 1)..(RAM - 1)) =
             IF KERNEL + 1 > RAM - 1 THEN 0 ELSE (RAM - 1) - (KERNEL + 1) + 1
    BY <2>1, FS_Interval
  <2> QED
    BY <2>2, Sizes DEF Spare
<1>3. IsFiniteSet(Mapped(m)) /\ Cardinality(Mapped(m)) \in Nat
  BY <1>1, PagesFinite
<1>4. IsFiniteSet(Backing(m)) /\ Cardinality(Backing(m)) <= Cardinality(Mapped(m))
  <2> DEFINE S == Mapped(m)
             f == [v \in S |-> m.kpte[v]]
  <2>1. f \in Surjection(S, Backing(m))
    BY DEF Surjection, Backing
  <2> HIDE DEF f, S
  <2>2. IsFiniteSet(S)
    BY <1>3 DEF S
  <2>3. IsFiniteSet(Backing(m)) /\ Cardinality(Backing(m)) <= Cardinality(S)
    BY <2>1, <2>2, FS_Surjection
  <2> QED
    BY <2>3 DEF S
<1>5. IsFiniteSet(F) /\ Cardinality(F) \in Nat /\ Cardinality(Backing(m)) \in Nat
  BY <1>1, <1>2, <1>4, FS_Subset, FS_CardinalityType
<1>6. IsFiniteSet(F \cup Backing(m)) /\ Cardinality(F \cup Backing(m)) < Cardinality(Spare)
  <2>1. /\ IsFiniteSet(F \cup Backing(m))
        /\ Cardinality(F \cup Backing(m)) =
             Cardinality(F) + Cardinality(Backing(m)) - Cardinality(F \cap Backing(m))
    BY <1>4, <1>5, FS_Union
  <2>2. Cardinality(F \cap Backing(m)) \in Nat
    BY <1>4, <1>5, FS_Intersection, FS_CardinalityType
  <2>3. Cardinality(F \cup Backing(m)) <= Cardinality(F) + Cardinality(Mapped(m))
    BY <1>3, <1>4, <1>5, <2>1, <2>2
  <2> QED
    BY <1>2, <1>3, <1>4, <1>5, <2>1, <2>2, <2>3, Sizes
<1>7. PICK f \in Spare : f \notin F \cup Backing(m)
  <2> SUFFICES ASSUME Spare \in SUBSET (F \cup Backing(m)) PROVE FALSE
    OBVIOUS
  <2>1. Cardinality(Spare) <= Cardinality(F \cup Backing(m))
    BY <1>6, FS_Subset
  <2>2. Cardinality(Spare) \in Nat /\ Cardinality(F \cup Backing(m)) \in Nat
    BY <1>2, <1>6, FS_CardinalityType
  <2> QED
    BY <1>6, <2>1, <2>2
<1>8. m.used = 0..KERNEL \cup RAM..(MAXPAGE - 1) \cup F \cup Backing(m)
  BY DEF Backed
<1>9. f \in Frame /\ f \notin m.used
  BY <1>7, <1>8, Sizes DEF Spare, Frame
<1>10. get_page_frame(m) \in Frame /\ get_page_frame(m) \notin m.used
  BY <1>1, <1>9, FrameFacts
<1> QED
  BY <1>8, <1>10, Sizes DEF Spare, Frame

\* A frame of the machine is a frame.
LEMMA SpareFrames ==
    /\ Spare \subseteq Frame /\ NoFrame \notin Spare /\ KERNEL \notin Spare
    /\ Spare \cap (0..KERNEL \cup RAM..(MAXPAGE - 1)) = {}
BY Sizes DEF Spare, Frame, NoFrame

\* A get gives a page a frame that nobody has.
LEMMA GetBacked ==
    ASSUME NEW m, NEW F, Backed(m, F), Cardinality(Mapped(m)) + 1 < HEAP,
           KERNEL + 1 + Cardinality(Mapped(m)) + Cardinality(F) < RAM
    PROVE  Backed(get_page_from_heap(m), F)
<1> DEFINE g == get_page_from_heap(m)
           v == FirstPage(m)
           f == get_page_frame(m)
<1>1. f \in Spare \ m.used
  BY FrameLeft
<1>2. /\ v \in Page \ Mapped(m) /\ Sound(g) /\ Mapped(g) = Mapped(m) \cup {v}
      /\ g.used = m.used \cup {f} /\ g.kpte = [m.kpte EXCEPT ![v] = f] /\ g.kheap = m.kheap
  BY GetSound DEF Backed
<1>3. m.kpte \in [Page -> Frame \cup {NoFrame}]
  BY DEF Backed, Sound, Memory
<1> HIDE DEF g, v, f
<1>4. \A x \in Page : g.kpte[x] = IF x = v THEN f ELSE m.kpte[x]
  BY <1>2, <1>3
<1>5. Mapped(m) \subseteq Page
  BY DEF Mapped
<1>6. Backing(g) = Backing(m) \cup {f}
  BY <1>2, <1>4, <1>5 DEF Backing
<1>7. \A x \in Mapped(m) : m.kpte[x] \in m.used /\ m.kpte[x] \in Spare \ F
  BY DEF Backed, Backing
<1>8. F \subseteq m.used
  BY DEF Backed
<1>9. \A x \in Mapped(g) : g.kpte[x] \in Spare \ F
  BY <1>1, <1>2, <1>4, <1>5, <1>7, <1>8
<1>10. \A x, w \in Mapped(g) : g.kpte[x] = g.kpte[w] => x = w
  BY <1>1, <1>2, <1>4, <1>5, <1>7 DEF Backed
<1>11. g.used = 0..KERNEL \cup RAM..(MAXPAGE - 1) \cup F \cup Backing(g)
  BY <1>2, <1>6 DEF Backed
<1>12. Backed(g, F)
  BY <1>2, <1>9, <1>10, <1>11 DEF Backed
<1> QED
  BY <1>12 DEF g

\* A release frees the frame of the page and no other.
LEMMA ReleaseBacked ==
    ASSUME NEW m, NEW F, Backed(m, F), NEW v \in Mapped(m)
    PROVE  Backed(release_page_from_heap(m, v), F)
<1> DEFINE g == release_page_from_heap(m, v)
<1>1. /\ Sound(g) /\ Mapped(g) = Mapped(m) \ {v} /\ g.used = m.used \ {m.kpte[v]}
      /\ g.kpte = [m.kpte EXCEPT ![v] = NoFrame] /\ g.kheap = m.kheap
  BY ReleaseSound DEF Backed
<1>2. m.kpte \in [Page -> Frame \cup {NoFrame}] /\ Mapped(m) \subseteq Page
  BY DEF Backed, Sound, Memory, Mapped
<1> HIDE DEF g
<1>3. \A x \in Mapped(g) : g.kpte[x] = m.kpte[x]
  BY <1>1, <1>2
<1>4. Backing(g) = Backing(m) \ {m.kpte[v]}
  BY <1>1, <1>3 DEF Backing, Backed
<1>5. m.kpte[v] \in Spare \ F
  BY DEF Backed
<1>6. m.kpte[v] \notin 0..KERNEL \cup RAM..(MAXPAGE - 1) \cup F
  BY <1>5, SpareFrames
<1>7. g.used = 0..KERNEL \cup RAM..(MAXPAGE - 1) \cup F \cup Backing(g)
  BY <1>1, <1>4, <1>6 DEF Backed
<1>8. Backed(g, F)
  BY <1>1, <1>3, <1>7 DEF Backed
<1> QED
  BY <1>8 DEF g

\* A frame taken for somebody else than the page heap was nobody's.
LEMMA TakeBacked ==
    ASSUME NEW m, NEW F, Backed(m, F),
           KERNEL + 1 + Cardinality(Mapped(m)) + Cardinality(F) < RAM
    PROVE  LET f == get_page_frame(m)
               g == set_page_frame_used(m, f)
           IN  f \in Spare \ F /\ Backed(g, F \cup {f}) /\ Mapped(g) = Mapped(m)
<1> DEFINE f == get_page_frame(m)
           g == set_page_frame_used(m, f)
<1>1. f \in Spare \ m.used
  BY FrameLeft
<1>2. m \in Memory /\ m.used \subseteq Frame
  BY DEF Backed, Sound, Memory
<1>3. g = [m EXCEPT !.used = m.used \cup {f}]
  BY DEF set_page_frame_used
<1> HIDE DEF f
<1>4. m.used \cup {f} \in SUBSET Frame
  BY <1>1, <1>2, SpareFrames
<1> HIDE DEF g
<1>5. /\ Sound(g) /\ Mapped(g) = Mapped(m)
      /\ g.used = m.used \cup {f} /\ g.kpte = m.kpte /\ g.kheap = m.kheap
  BY <1>3, <1>4, UsedSound DEF Backed
<1>6. Backing(g) = Backing(m)
  BY <1>5 DEF Backing
<1>7. \A x \in Mapped(m) : m.kpte[x] \in m.used
  BY DEF Backed, Backing
<1>8. f \notin F
  BY <1>1 DEF Backed
<1>9. Backed(g, F \cup {f})
  BY <1>1, <1>5, <1>6, <1>7 DEF Backed
<1> QED
  BY <1>1, <1>5, <1>8, <1>9 DEF f, g

\* Frames that somebody gives back are free afterwards, and no others.
LEMMA DropBacked ==
    ASSUME NEW m, NEW F, Backed(m, F), NEW D \in SUBSET F
    PROVE  LET g == [m EXCEPT !.used = @ \ D]
           IN  Backed(g, F \ D) /\ Mapped(g) = Mapped(m)
<1> DEFINE g == [m EXCEPT !.used = @ \ D]
<1>1. m \in Memory /\ m.used \subseteq Frame
  BY DEF Backed, Sound, Memory
<1>2. g = [m EXCEPT !.used = m.used \ D] /\ m.used \ D \in SUBSET Frame
  BY <1>1
<1> HIDE DEF g
<1>3. /\ Sound(g) /\ Mapped(g) = Mapped(m)
      /\ g.used = m.used \ D /\ g.kpte = m.kpte /\ g.kheap = m.kheap
  BY <1>2, UsedSound DEF Backed
<1>4. Backing(g) = Backing(m)
  BY <1>3 DEF Backing
<1>5. F \subseteq Spare /\ D \cap Backing(m) = {}
  BY DEF Backed, Backing
<1>6. D \cap (0..KERNEL \cup RAM..(MAXPAGE - 1)) = {}
  BY <1>5, SpareFrames
<1>7. g.used = 0..KERNEL \cup RAM..(MAXPAGE - 1) \cup (F \ D) \cup Backing(g)
  BY <1>3, <1>4, <1>5, <1>6 DEF Backed
<1>8. Backed(g, F \ D)
  BY <1>3, <1>5, <1>7 DEF Backed
<1> QED
  BY <1>3, <1>8 DEF g

\* When init_mm() returns only the kernel has frames.
LEMMA InitBacked == Backed(init_mm, {})
<1>1. Sound(init_mm) /\ Mapped(init_mm) = {}
  BY InitSound
<1>2. Backing(init_mm) = {}
  BY <1>1 DEF Backing
<1>3. init_mm.used = 0..KERNEL \cup RAM..(MAXPAGE - 1) /\ init_mm.kheap = {KERNEL}
  BY DEF init_mm
<1> QED
  BY <1>1, <1>2, <1>3 DEF Backed

-----------------------------------------------------------------------------
(* The page heap.                                                          *)

\* The inductive invariant of the list: it is exact, and the callers hold the
\* pages that are mapped.
HeapInv ==
    /\ TypeOK
    /\ Sound(mem)
    /\ pages = Mapped(mem)
    /\ npages = Cardinality(pages)

\* The inductive invariant of the frames: one holder each.
FrameInv ==
    /\ HeapInv
    /\ Backed(mem, others)
    /\ Cardinality(others) <= MAXUSER

-----------------------------------------------------------------------------

\* The bounds on what is held are numbers.
LEMMA HeldSizes == MAXHELD \in Nat /\ MAXHELD < HEAP /\ MAXUSER \in Nat
BY HeldAssumption

\* How many pages are held.
LEMMA HeldFacts ==
    ASSUME HeapInv
    PROVE  /\ pages \subseteq Page /\ IsFiniteSet(pages)
           /\ npages = Cardinality(pages) /\ npages = Cardinality(Mapped(mem)) /\ npages \in 0..MAXHELD /\ npages \in Nat
<1>1. pages \in SUBSET Page /\ npages \in 0..MAXHELD /\ npages = Cardinality(pages) /\ pages = Mapped(mem)
  BY DEF HeapInv, TypeOK
<1> QED
  BY <1>1, PagesFinite, HeldSizes

\* What Get does in a state of the invariant.
LEMMA GetStep ==
    ASSUME HeapInv, Get
    PROVE  LET v == FirstPage(mem)
               f == get_page_frame(mem)
           IN  /\ v \in Page \ pages /\ Sound(mem')
               /\ pages' = pages \cup {v} /\ npages' = npages + 1 /\ others' = others
               /\ Mapped(mem') = Mapped(mem) \cup {v}
<1>1. Sound(mem) /\ pages = Mapped(mem)
  BY DEF HeapInv
<1>2. /\ mem' = get_page_from_heap(mem) /\ pages' = pages \cup {FirstPage(mem)}
      /\ npages' = npages + 1 /\ others' = others /\ npages < MAXHELD
  BY DEF Get
<1>3. Cardinality(Mapped(mem)) + 1 < HEAP
  BY <1>2, HeldFacts, HeldSizes, Sizes
<1>4. /\ FirstPage(mem) \in Page \ Mapped(mem) /\ Sound(get_page_from_heap(mem))
      /\ Mapped(get_page_from_heap(mem)) = Mapped(mem) \cup {FirstPage(mem)}
  BY <1>1, <1>3, GetSound
<1> QED
  BY <1>1, <1>2, <1>4

\* What Release(v) does in a state of the invariant.
LEMMA ReleaseStep ==
    ASSUME HeapInv, NEW v, Release(v)
    PROVE  /\ v \in pages /\ v \in Mapped(mem) /\ Sound(mem')
           /\ pages' = pages \ {v} /\ npages' = npages - 1 /\ others' = others
           /\ Mapped(mem') = Mapped(mem) \ {v}
<1>1. Sound(mem) /\ pages = Mapped(mem)
  BY DEF HeapInv
<1>2. /\ mem' = release_page_from_heap(mem, v) /\ pages' = pages \ {v}
      /\ npages' = npages - 1 /\ others' = others /\ v \in pages
  BY DEF Release
<1>3. /\ Sound(release_page_from_heap(mem, v))
      /\ Mapped(release_page_from_heap(mem, v)) = Mapped(mem) \ {v}
  BY <1>1, <1>2, ReleaseSound
<1> QED
  BY <1>1, <1>2, <1>3

\* What TakeFrame and DropFrame do: they leave the page heap alone.
LEMMA FrameStep ==
    ASSUME HeapInv, TakeFrame \/ (\E f \in others : DropFrame(f))
    PROVE  /\ Sound(mem') /\ Mapped(mem') = Mapped(mem) /\ others' \subseteq Frame
           /\ pages' = pages /\ npages' = npages
<1>1. /\ Sound(mem) /\ mem \in Memory /\ mem.used \subseteq Frame
      /\ get_page_frame(mem) \in Frame /\ others \subseteq Frame
  <2>1. mem \in Memory
    BY DEF HeapInv, TypeOK
  <2> QED
    BY <2>1, FrameFacts DEF HeapInv, TypeOK, Memory
<1>2. CASE TakeFrame
  <2>1. mem' = [mem EXCEPT !.used = mem.used \cup {get_page_frame(mem)}]
    BY <1>2 DEF TakeFrame, set_page_frame_used
  <2>2. mem.used \cup {get_page_frame(mem)} \in SUBSET Frame
    BY <1>1
  <2> QED
    BY <1>1, <1>2, <2>1, <2>2, UsedSound DEF TakeFrame
<1>3. ASSUME NEW f \in others, DropFrame(f)
      PROVE  /\ Sound(mem') /\ Mapped(mem') = Mapped(mem) /\ others' \subseteq Frame
             /\ pages' = pages /\ npages' = npages
  <2>1. mem' = [mem EXCEPT !.used = mem.used \ {f}]
    BY <1>3 DEF DropFrame, release_page_frame
  <2>2. mem.used \ {f} \in SUBSET Frame
    BY <1>1
  <2> QED
    BY <1>1, <1>3, <2>1, <2>2, UsedSound DEF DropFrame
<1> QED
  BY <1>2, <1>3

\* The list is exact when init_mm() returns, and nothing is held.
LEMMA HeapInvInit == HeapInit => HeapInv
<1> SUFFICES ASSUME HeapInit PROVE HeapInv
  OBVIOUS
<1>1. mem = init_mm /\ others = {} /\ pages = {} /\ npages = 0
  BY DEF HeapInit
<1>2. Sound(mem) /\ Mapped(mem) = {}
  BY <1>1, InitSound
<1>3. npages = Cardinality(pages)
  BY <1>1, FS_EmptySet
<1>4. TypeOK
  BY <1>1, <1>2, HeldSizes DEF TypeOK, Sound
<1> QED
  BY <1>1, <1>2, <1>3, <1>4 DEF HeapInv

\* Every call keeps the list exact.
LEMMA HeapInvNext == HeapInv /\ [HeapNext]_heapVars => HeapInv'
<1> SUFFICES ASSUME HeapInv, [HeapNext]_heapVars PROVE HeapInv'
  OBVIOUS
<1>0. /\ pages = Mapped(mem) /\ pages \subseteq Page /\ others \subseteq Frame
      /\ IsFiniteSet(pages) /\ npages = Cardinality(pages) /\ npages \in 0..MAXHELD /\ npages \in Nat
  BY HeldFacts DEF HeapInv, TypeOK
<1>1. CASE Get
  <2>1. PICK v \in Page \ pages : /\ pages' = pages \cup {v} /\ npages' = npages + 1 /\ others' = others
                                 /\ Sound(mem') /\ Mapped(mem') = Mapped(mem) \cup {v}
    BY <1>1, GetStep
  <2>2. npages' = Cardinality(pages')
    BY <1>0, <2>1, FS_AddElement
  <2>3. npages' \in 0..MAXHELD
    BY <1>0, <1>1, HeldSizes DEF Get
  <2>4. TypeOK'
    BY <1>0, <2>1, <2>3 DEF TypeOK, Sound
  <2> QED
    BY <1>0, <2>1, <2>2, <2>4 DEF HeapInv
<1>2. ASSUME NEW v \in pages, Release(v) PROVE HeapInv'
  <2>1. /\ pages' = pages \ {v} /\ npages' = npages - 1 /\ others' = others
        /\ Sound(mem') /\ Mapped(mem') = Mapped(mem) \ {v}
    BY <1>2, ReleaseStep
  <2>2. npages' = Cardinality(pages')
    BY <1>0, <2>1, FS_RemoveElement
  <2>3. npages' \in Nat
    <3>1. pages' \in SUBSET Page
      BY <1>0, <2>1
    <3> QED
      BY <2>2, <3>1, PagesFinite
  <2>4. npages' \in 0..MAXHELD
    BY <1>0, <2>1, <2>3, HeldSizes
  <2>5. TypeOK'
    BY <1>0, <2>1, <2>4 DEF TypeOK, Sound
  <2> QED
    BY <1>0, <2>1, <2>2, <2>5 DEF HeapInv
<1>3. CASE TakeFrame \/ (\E f \in others : DropFrame(f))
  <2>1. /\ Sound(mem') /\ Mapped(mem') = Mapped(mem) /\ others' \subseteq Frame
        /\ pages' = pages /\ npages' = npages
    BY <1>3, FrameStep
  <2>2. TypeOK'
    BY <1>0, <2>1 DEF TypeOK, Sound
  <2> QED
    BY <1>0, <2>1, <2>2 DEF HeapInv
<1>4. CASE UNCHANGED heapVars
  BY <1>4 DEF heapVars, HeapInv, TypeOK
<1> QED
  BY <1>1, <1>2, <1>3, <1>4 DEF HeapNext

\* The list of the page heap is exact after every sequence of calls.
THEOREM HeapCorrect == HeapSpec => []HeapInv
BY HeapInvInit, HeapInvNext, PTL DEF HeapSpec

\* mem_bitmap, kern_free_vm and the page tables keep their types, and the
\* callers never hold more pages than they may.
THEOREM TypeCorrect == HeapSpec => []TypeOK
<1>1. HeapInv => TypeOK
  BY DEF HeapInv
<1> QED
  BY <1>1, HeapCorrect, PTL

\* get_page_from_heap() and release_page_from_heap() keep kern_free_vm in order,
\* joined and with exactly the unmapped pages, and reach no PANIC, for every
\* size of the heap.
THEOREM ListCorrect == HeapSpec => []ListExact
<1>1. HeapInv => ListExact
  <2> SUFFICES ASSUME HeapInv PROVE ListExact
    OBVIOUS
  <2>1. Sound(mem) /\ ~mem.halted
    BY DEF HeapInv, Sound
  <2> QED
    BY <2>1, SoundExact DEF ListExact
<1> QED
  BY <1>1, HeapCorrect, PTL

\* The page heap implements the pool: a page that is handed out was free, and a
\* release makes exactly that page free.
THEOREM ImplementsPool == HeapSpec => PoolSpec
<1>1. HeapInit => Pool!Init
  <2> SUFFICES ASSUME HeapInit PROVE Pool!Init
    OBVIOUS
  <2>1. {v \in Page : mem.kpte[v] # NoFrame} = {} /\ npages = 0
    BY HeapInvInit DEF HeapInit, HeapInv, Mapped
  <2> QED
    BY <2>1 DEF Pool!Init
<1>2. HeapInv /\ [HeapNext]_heapVars => [Pool!Next]_<<{v \in Page : mem.kpte[v] # NoFrame}, npages>>
  <2> SUFFICES ASSUME HeapInv, [HeapNext]_heapVars
               PROVE  [Pool!Next]_<<{v \in Page : mem.kpte[v] # NoFrame}, npages>>
    OBVIOUS
  <2>1. /\ pages = {v \in Page : mem.kpte[v] # NoFrame}
        /\ pages' = {v \in Page : mem'.kpte[v] # NoFrame}
    BY HeapInvNext DEF HeapInv, Mapped
  <2>2. CASE Get
    <3>1. PICK v \in Page : v \notin pages /\ pages' = pages \cup {v} /\ npages' = npages + 1
      BY <2>2, GetStep
    <3>2. Pool!Get(v)
      BY <2>1, <3>1 DEF Pool!Get
    <3> QED
      BY <3>1, <3>2 DEF Pool!Next
  <2>3. ASSUME NEW v \in pages, Release(v)
        PROVE  Pool!Next
    <3>1. v \in Page /\ v \in pages /\ pages' = pages \ {v} /\ npages' = npages - 1
      BY <2>1, <2>3, ReleaseStep
    <3>2. Pool!Release(v)
      BY <2>1, <3>1 DEF Pool!Release
    <3> QED
      BY <3>1, <3>2 DEF Pool!Next
  <2>4. CASE TakeFrame \/ (\E f \in others : DropFrame(f))
    <3>1. pages' = pages /\ npages' = npages
      BY <2>4, FrameStep
    <3> QED
      BY <2>1, <3>1
  <2>5. CASE UNCHANGED heapVars
    BY <2>5 DEF heapVars
  <2> QED
    BY <2>2, <2>3, <2>4, <2>5 DEF HeapNext
<1> QED
  BY <1>1, <1>2, HeapCorrect, PTL DEF HeapSpec, PoolSpec, Pool!Spec

-----------------------------------------------------------------------------

\* No call gives a frame to two holders or takes one from its holder.
LEMMA FrameNext ==
    ASSUME KERNEL + 1 + MAXHELD + MAXUSER <= RAM
    PROVE  FrameInv /\ [HeapNext]_heapVars => FrameInv'
<1> SUFFICES ASSUME FrameInv, [HeapNext]_heapVars PROVE FrameInv'
  OBVIOUS
<1>0. /\ HeapInv /\ HeapInv' /\ Backed(mem, others) /\ pages = Mapped(mem)
      /\ Cardinality(others) <= MAXUSER
  BY HeapInvNext DEF FrameInv, HeapInv
<1>1. npages = Cardinality(Mapped(mem)) /\ npages \in 0..MAXHELD /\ npages \in Nat
  BY <1>0, HeldFacts
<1>2. IsFiniteSet(others) /\ Cardinality(others) \in Nat
  <2>1. IsFiniteSet(Spare)
    BY FS_Interval, Sizes DEF Spare
  <2>2. others \in SUBSET Spare
    BY <1>0 DEF Backed
  <2> QED
    BY <2>1, <2>2, FS_Subset, FS_CardinalityType
<1>3. CASE Get
  <2>1. mem' = get_page_from_heap(mem) /\ others' = others /\ npages < MAXHELD
    BY <1>3 DEF Get
  <2>2. /\ Cardinality(Mapped(mem)) + 1 < HEAP
        /\ KERNEL + 1 + Cardinality(Mapped(mem)) + Cardinality(others) < RAM
    BY <1>0, <1>1, <1>2, <2>1, HeldSizes, Sizes
  <2>3. Backed(get_page_from_heap(mem), others)
    BY <1>0, <2>2, GetBacked
  <2> QED
    BY <1>0, <2>1, <2>3 DEF FrameInv
<1>4. ASSUME NEW v \in pages, Release(v) PROVE FrameInv'
  <2>1. mem' = release_page_from_heap(mem, v) /\ others' = others
    BY <1>4 DEF Release
  <2>2. Backed(release_page_from_heap(mem, v), others)
    BY <1>0, ReleaseBacked
  <2> QED
    BY <1>0, <2>1, <2>2 DEF FrameInv
<1>5. CASE TakeFrame
  <2> DEFINE f == get_page_frame(mem)
  <2>1. /\ mem' = set_page_frame_used(mem, f) /\ others' = others \cup {f}
        /\ Cardinality(others) < MAXUSER
    BY <1>5 DEF TakeFrame
  <2>2. KERNEL + 1 + Cardinality(Mapped(mem)) + Cardinality(others) < RAM
    BY <1>1, <1>2, <2>1, HeldSizes, Sizes
  <2>3. Backed(set_page_frame_used(mem, f), others \cup {f}) /\ f \notin others
    BY <1>0, <2>2, TakeBacked
  <2> HIDE DEF f
  <2>4. Cardinality(others \cup {f}) = Cardinality(others) + 1
    BY <1>2, <2>3, FS_AddElement
  <2>5. Cardinality(others \cup {f}) <= MAXUSER
    BY <1>2, <2>1, <2>4, HeldSizes
  <2> QED
    BY <1>0, <2>1, <2>3, <2>5 DEF FrameInv
<1>6. ASSUME NEW f \in others, DropFrame(f) PROVE FrameInv'
  <2>1. mem' = [mem EXCEPT !.used = @ \ {f}] /\ others' = others \ {f}
    BY <1>6 DEF DropFrame, release_page_frame
  <2>2. Backed([mem EXCEPT !.used = @ \ {f}], others \ {f})
    BY <1>0, DropBacked
  <2>3. Cardinality(others \ {f}) = Cardinality(others) - 1
    BY <1>2, FS_RemoveElement
  <2>4. Cardinality(others \ {f}) <= MAXUSER
    BY <1>0, <1>2, <2>3, HeldSizes
  <2> QED
    BY <1>0, <2>1, <2>2, <2>4 DEF FrameInv
<1>7. CASE UNCHANGED heapVars
  BY <1>0, <1>7 DEF heapVars, FrameInv
<1> QED
  BY <1>3, <1>4, <1>5, <1>6, <1>7 DEF HeapNext

\* With a frame for the kernel, for every page that may be held and for every
\* frame others may take, each page that is held has a frame of its own,
\* marked used and held by nobody else. The hypothesis is what the code
\* relies on: get_page_frame() has no error its callers would see.
THEOREM BackingCorrect ==
    ASSUME KERNEL + 1 + MAXHELD + MAXUSER <= RAM
    PROVE  HeapSpec => []PagesBacked
<1>1. HeapInit => FrameInv
  <2> SUFFICES ASSUME HeapInit PROVE FrameInv
    OBVIOUS
  <2>1. HeapInv /\ mem = init_mm /\ others = {}
    BY HeapInvInit DEF HeapInit
  <2>2. Cardinality(others) <= MAXUSER
    BY <2>1, FS_EmptySet, HeldSizes
  <2> QED
    BY <2>1, <2>2, InitBacked DEF FrameInv
<1>2. FrameInv /\ [HeapNext]_heapVars => FrameInv'
  BY FrameNext
<1>3. FrameInv => PagesBacked
  <2> SUFFICES ASSUME FrameInv PROVE PagesBacked
    OBVIOUS
  <2>1. Backed(mem, others) /\ pages = Mapped(mem)
    BY DEF FrameInv, HeapInv
  <2>2. ASSUME NEW v \in pages PROVE mem.kpte[v] \in mem.used \ (others \cup mem.kheap)
    <3>1. mem.kpte[v] \in mem.used /\ mem.kpte[v] \in Spare \ others /\ mem.kheap = {KERNEL}
      BY <2>1 DEF Backed, Backing
    <3> QED
      BY <3>1, SpareFrames
  <2> QED
    BY <2>1, <2>2 DEF Backed, PagesBacked
<1> QED
  BY <1>1, <1>2, <1>3, PTL DEF HeapSpec

-----------------------------------------------------------------------------
(* The memory of the processes.                                            *)

\* What a process has.
Table == [dir : Nat, page : Page]

Space ==
    [live   : BOOLEAN,
     base   : SUBSET Page,
     kstack : SUBSET Page,
     pt     : Seq(Table),
     upte   : [UserPage -> Frame \cup {NoFrame}],
     pglist : SUBSET Frame]

\* Page v is the directory (k = 0), the kernel stack (k = 1) or the table of
\* directory entry k - 2 of a process.
Holds(s, k, v) ==
    \/ k = 0 /\ v \in s.base
    \/ k = 1 /\ v \in s.kstack
    \/ \E i \in 1..Len(s.pt) : k = s.pt[i].dir + 2 /\ v = s.pt[i].page

\* Every page of M has one use in one process.
OwnInv(sp, M) ==
    /\ \A p, q \in Proc, j, k \in Nat, v \in Page :
          Holds(sp[p], j, v) /\ Holds(sp[q], k, v) => p = q /\ j = k
    /\ \A v \in Page : v \in M <=> \E p \in Proc, k \in Nat : Holds(sp[p], k, v)

\* The frames of the user pages, and that no two processes have the same.
Frames(sp) == UNION {sp[p].pglist : p \in Proc}

Disjoint(sp) == \A p, q \in Proc : p # q => sp[p].pglist \cap sp[q].pglist = {}

\* The memory of p by itself: one table for each directory entry, only where
\* its programs use a page; each frame of pglist in the entry of a page that
\* has a table; no other entry but the first of a table.
Local(p, s) ==
    /\ s \in Space
    /\ \A i, j \in 1..Len(s.pt) : s.pt[i].dir = s.pt[j].dir => i = j
    /\ \A i \in 1..Len(s.pt) : \E u \in Touched[p] : s.pt[i].dir = u[1]
    /\ \A f \in s.pglist : \E u \in Touched[p] : s.upte[u] = f /\ HasTable(s, u[1])
    /\ \A u \in UserPage : u[2] # 0 => s.upte[u] \in s.pglist \cup {NoFrame}

\* What p has while it runs, while it is loaded (l, from file i), while it is
\* destroyed (d), and otherwise.
Phase(p, s, l, d, i) ==
    /\ s.live => p # l /\ p # d /\ \E v \in Page : s.kstack = {v}
    /\ ~s.live => s.kstack = {}
    /\ s.live \/ p = l \/ p = d => \E v \in Page : s.base = {v}
    /\ ~s.live /\ p # l /\ p # d => s = NoSpace
    /\ p = d \/ (p = l /\ i = "notelf") => s.pglist = {}

\* The inductive invariant of the address spaces.
SpaceInv ==
    /\ loading \in Proc \cup {Nobody} /\ dying \in Proc \cup {Nobody}
    /\ loading = Nobody \/ dying = Nobody
    /\ image \in {"elf", "notelf"}
    /\ space \in [Proc -> Space]
    /\ \A p \in Proc : Local(p, space[p]) /\ Phase(p, space[p], loading, dying, image)
    /\ OwnInv(space, Mapped(mem))
    /\ Disjoint(space)
    /\ Backed(mem, Frames(space))
-----------------------------------------------------------------------------

\* The constants.
LEMMA Programs ==
    /\ IsFiniteSet(Proc) /\ Nobody \notin Proc
    /\ UserPage \subseteq Nat \X Nat /\ IsFiniteSet(UserPage)
    /\ \A p \in Proc : Touched[p] \subseteq UserPage
    /\ \A u \in UserPage : u[1] \in Nat /\ u[2] \in Nat
    /\ Garbage \subseteq Frame
<1>1. /\ IsFiniteSet(Proc) /\ Nobody \notin Proc
      /\ UserPage \subseteq Nat \X Nat /\ IsFiniteSet(UserPage)
      /\ Touched \in [Proc -> SUBSET UserPage] /\ Garbage \subseteq Frame
  BY SpaceAssumption
<1>2. \A u \in UserPage : u[1] \in Nat /\ u[2] \in Nat
  BY <1>1
<1>3. \A p \in Proc : Touched[p] \subseteq UserPage
  BY <1>1
<1> QED
  BY <1>1, <1>2, <1>3

\* The needs are finite.
LEMMA NeedsFinite ==
    /\ IsFiniteSet(PageNeed) /\ Cardinality(PageNeed) \in Nat
    /\ IsFiniteSet(UserNeed) /\ Cardinality(UserNeed) \in Nat
<1>1. IsFiniteSet(UserNeed)
  <2>1. IsFiniteSet(Proc \X UserPage)
    BY Programs, FS_Product
  <2>2. UserNeed \in SUBSET (Proc \X UserPage)
    <3>1. ASSUME NEW x \in UserNeed PROVE x \in Proc \X UserPage
      <4>1. PICK p \in Proc : x \in {<<p, u>> : u \in Touched[p]}
        BY DEF UserNeed
      <4>2. PICK u \in Touched[p] : x = <<p, u>>
        BY <4>1
      <4> QED
        BY <4>2, Programs
    <3> QED
      BY <3>1
  <2> QED
    BY <2>1, <2>2, FS_Subset
<1>2. IsFiniteSet(PageNeed)
  <2> DEFINE D == {u[1] + 2 : u \in UserPage}
             g == [u \in UserPage |-> u[1] + 2]
  <2>1. g \in Surjection(UserPage, D)
    BY DEF Surjection
  <2>2. IsFiniteSet(UserPage)
    BY Programs
  <2> HIDE DEF D, g
  <2>3. IsFiniteSet(D)
    BY <2>1, <2>2, FS_Surjection
  <2>4. IsFiniteSet({0, 1})
    <3>0. 0 \in Int /\ 1 \in Int
      OBVIOUS
    <3>1. IsFiniteSet(0..1)
      BY <3>0, FS_Interval
    <3>2. 0..1 = {0, 1}
      OBVIOUS
    <3> QED
      BY <3>1, <3>2
  <2>5. IsFiniteSet({0, 1} \cup D)
    BY <2>3, <2>4, FS_Union, Zenon
  <2>6. IsFiniteSet(Proc \X ({0, 1} \cup D))
    BY <2>5, Programs, FS_Product
  <2>7. PageNeed \in SUBSET (Proc \X ({0, 1} \cup D))
    <3>1. {<<p, k>> : p \in Proc, k \in {0, 1}} \in SUBSET (Proc \X ({0, 1} \cup D))
      OBVIOUS
    <3>2. UNION {{<<p, u[1] + 2>> : u \in Touched[p]} : p \in Proc} \in SUBSET (Proc \X ({0, 1} \cup D))
      BY Programs DEF D
    <3> QED
      BY <3>1, <3>2 DEF PageNeed
  <2> QED
    BY <2>6, <2>7, FS_Subset
<1> QED
  BY <1>1, <1>2, FS_CardinalityType

\* A relation that gives every element of S one in T of its own, and x none.
LEMMA Counting ==
    ASSUME NEW S, NEW T, IsFiniteSet(T), NEW R,
           \A a \in S : \E t \in T : <<a, t>> \in R,
           \A a, b \in S, t \in T : <<a, t>> \in R /\ <<b, t>> \in R => a = b
    PROVE  IsFiniteSet(S) /\ Cardinality(S) <= Cardinality(T)
<1> DEFINE g == [a \in S |-> CHOOSE t \in T : <<a, t>> \in R]
<1>1. \A a \in S : g[a] \in T /\ <<a, g[a]>> \in R
  OBVIOUS
<1>2. g \in [S -> T] /\ DOMAIN g = S
  BY <1>1
<1> HIDE DEF g
<1>3. \A a, b \in DOMAIN g : g[a] = g[b] => a = b
  BY <1>1, <1>2
<1>4. g \in Injection(S, T)
  BY <1>2, <1>3 DEF Injection, IsInjective
<1> QED
  BY <1>4, FS_Injection

\* The elements of a list of tables.
LEMMA TableFields ==
    ASSUME NEW t \in Seq(Table)
    PROVE  \A i \in 1..Len(t) : t[i].dir \in Nat /\ t[i].page \in Page
<1> SUFFICES ASSUME NEW i \in 1..Len(t) PROVE t[i].dir \in Nat /\ t[i].page \in Page
  OBVIOUS
<1>1. t[i] \in Table
  OBVIOUS
<1> QED
  BY <1>1 DEF Table

\* A use of a page is one of PageNeed and has one page.
LEMMA HoldsFacts ==
    ASSUME NEW p \in Proc, NEW s, Local(p, s),
           NEW l, NEW d, NEW i, Phase(p, s, l, d, i)
    PROVE  /\ \A k, v : Holds(s, k, v) => v \in Page /\ k \in Nat /\ <<p, k>> \in PageNeed
           /\ \A k, v, w : Holds(s, k, v) /\ Holds(s, k, w) => v = w
<1>1. /\ s \in Space /\ s.base \subseteq Page /\ s.kstack \subseteq Page
      /\ s.pt \in Seq(Table)
  BY DEF Local, Space
<1>2. \A m \in 1..Len(s.pt) : s.pt[m].dir \in Nat /\ s.pt[m].page \in Page
  BY <1>1, TableFields
<1>3. ASSUME NEW k, NEW v, Holds(s, k, v)
      PROVE  v \in Page /\ k \in Nat /\ <<p, k>> \in PageNeed
  <2>1. CASE k = 0 /\ v \in s.base
    BY <1>1, <2>1 DEF PageNeed
  <2>2. CASE k = 1 /\ v \in s.kstack
    BY <1>1, <2>2 DEF PageNeed
  <2>3. ASSUME NEW m \in 1..Len(s.pt), k = s.pt[m].dir + 2 /\ v = s.pt[m].page
        PROVE  v \in Page /\ k \in Nat /\ <<p, k>> \in PageNeed
    <3>1. PICK u \in Touched[p] : s.pt[m].dir = u[1]
      BY DEF Local
    <3>2. <<p, k>> \in {<<p, w[1] + 2>> : w \in Touched[p]}
      BY <2>3, <3>1
    <3>3. <<p, k>> \in PageNeed
      BY <3>2 DEF PageNeed
    <3> QED
      BY <1>2, <2>3, <3>3
  <2> QED
    BY <1>3, <2>1, <2>2, <2>3 DEF Holds
<1>4. ASSUME NEW k, NEW v, NEW w, Holds(s, k, v), Holds(s, k, w)
      PROVE  v = w
  <2>1. CASE k = 0
    <3>1. v \in s.base /\ w \in s.base
      BY <1>2, <1>4, <2>1 DEF Holds
    <3>2. s = NoSpace \/ \E x \in Page : s.base = {x}
      BY DEF Phase
    <3> QED
      BY <3>1, <3>2 DEF NoSpace
  <2>2. CASE k = 1
    <3>1. v \in s.kstack /\ w \in s.kstack
      BY <1>2, <1>4, <2>2 DEF Holds
    <3>2. s.kstack = {} \/ \E x \in Page : s.kstack = {x}
      BY DEF Phase
    <3> QED
      BY <3>1, <3>2
  <2>3. CASE k # 0 /\ k # 1
    <3>1. PICK m \in 1..Len(s.pt) : k = s.pt[m].dir + 2 /\ v = s.pt[m].page
      BY <1>4, <2>3 DEF Holds
    <3>2. PICK j \in 1..Len(s.pt) : k = s.pt[j].dir + 2 /\ w = s.pt[j].page
      BY <1>4, <2>3 DEF Holds
    <3>3. s.pt[m].dir = s.pt[j].dir
      BY <1>2, <3>1, <3>2
    <3>4. m = j
      BY <3>3 DEF Local
    <3> QED
      BY <3>1, <3>2, <3>4
  <2> QED
    BY <2>1, <2>2, <2>3
<1> QED
  BY <1>3, <1>4

\* There are never more pages mapped than the processes need, and fewer as long
\* as a use has no page.
LEMMA PagesLeft ==
    ASSUME SpaceInv
    PROVE  /\ Cardinality(Mapped(mem)) \in Nat
           /\ Cardinality(Mapped(mem)) <= Cardinality(PageNeed)
           /\ \A p \in Proc, k \in Nat :
                 <<p, k>> \in PageNeed /\ (\A v \in Page : ~Holds(space[p], k, v)) =>
                     Cardinality(Mapped(mem)) < Cardinality(PageNeed)
<1> DEFINE R == {x \in Page \X PageNeed : Holds(space[x[2][1]], x[2][2], x[1])}
<1>1. Mapped(mem) \in SUBSET Page
  BY DEF Mapped
<1>2. ASSUME NEW v \in Mapped(mem)
      PROVE  \E t \in PageNeed : <<v, t>> \in R /\ t[1] \in Proc /\ Holds(space[t[1]], t[2], v)
  <2>1. PICK p \in Proc, k \in Nat : Holds(space[p], k, v)
    BY <1>1 DEF SpaceInv, OwnInv
  <2>2. <<p, k>> \in PageNeed
    <3>1. Local(p, space[p]) /\ Phase(p, space[p], loading, dying, image)
      BY DEF SpaceInv
    <3> QED
      BY <2>1, <3>1, HoldsFacts
  <2> QED
    BY <1>1, <2>1, <2>2
<1>3. \A t \in PageNeed : t[1] \in Proc
  BY DEF PageNeed
<1>4. ASSUME NEW v \in Mapped(mem), NEW w \in Mapped(mem), NEW t \in PageNeed,
             <<v, t>> \in R, <<w, t>> \in R
      PROVE  v = w
  <2>1. Holds(space[t[1]], t[2], v) /\ Holds(space[t[1]], t[2], w) /\ t[1] \in Proc
    BY <1>3, <1>4
  <2>2. Local(t[1], space[t[1]]) /\ Phase(t[1], space[t[1]], loading, dying, image)
    BY <2>1 DEF SpaceInv
  <2> QED
    BY <2>1, <2>2, HoldsFacts
<1> HIDE DEF R
<1>5. Cardinality(Mapped(mem)) \in Nat
  BY <1>1, PagesFinite
<1>6. Cardinality(Mapped(mem)) <= Cardinality(PageNeed)
  BY <1>2, <1>4, NeedsFinite, Counting
<1>7. ASSUME NEW p \in Proc, NEW k \in Nat, <<p, k>> \in PageNeed,
             \A v \in Page : ~Holds(space[p], k, v)
      PROVE  Cardinality(Mapped(mem)) < Cardinality(PageNeed)
  <2> DEFINE T == PageNeed \ {<<p, k>>}
  <2>1. IsFiniteSet(T) /\ Cardinality(T) = Cardinality(PageNeed) - 1
    BY <1>7, NeedsFinite, FS_RemoveElement
  <2>2. \A v \in Mapped(mem) : \E t \in T : <<v, t>> \in R
    BY <1>1, <1>2, <1>7
  <2>3. \A v, w \in Mapped(mem), t \in T : <<v, t>> \in R /\ <<w, t>> \in R => v = w
    BY <1>4
  <2> HIDE DEF T
  <2>4. Cardinality(Mapped(mem)) <= Cardinality(T)
    BY <2>1, <2>2, <2>3, Counting
  <2> QED
    BY <1>5, <2>1, <2>4, NeedsFinite
<1> QED
  BY <1>5, <1>6, <1>7

\* There are never more frames in the page lists than the programs need, and
\* fewer as long as a page has none.
LEMMA FramesLeft ==
    ASSUME SpaceInv
    PROVE  /\ IsFiniteSet(Frames(space)) /\ Cardinality(Frames(space)) \in Nat
           /\ Cardinality(Frames(space)) <= Cardinality(UserNeed)
           /\ \A p \in Proc : \A u \in Touched[p] :
                 space[p].upte[u] = NoFrame =>
                     Cardinality(Frames(space)) < Cardinality(UserNeed)
<1> DEFINE F == Frames(space)
           R == {x \in F \X UserNeed : space[x[2][1]].upte[x[2][2]] = x[1]}
<1>1. F \subseteq Spare
  BY DEF SpaceInv, Backed
<1>2. ASSUME NEW f \in F
      PROVE  \E t \in UserNeed : <<f, t>> \in R /\ space[t[1]].upte[t[2]] = f
  <2>1. PICK p \in Proc : f \in space[p].pglist
    BY DEF Frames
  <2>2. PICK u \in Touched[p] : space[p].upte[u] = f
    BY <2>1 DEF SpaceInv, Local
  <2>3. <<p, u>> \in UserNeed
    BY DEF UserNeed
  <2> QED
    BY <2>1, <2>2, <2>3
<1>3. ASSUME NEW f \in F, NEW g \in F, NEW t \in UserNeed, <<f, t>> \in R, <<g, t>> \in R
      PROVE  f = g
  BY <1>3
<1> HIDE DEF R
<1>4. IsFiniteSet(F) /\ Cardinality(F) <= Cardinality(UserNeed)
  BY <1>2, <1>3, NeedsFinite, Counting
<1>5. Cardinality(F) \in Nat
  BY <1>4, FS_CardinalityType
<1>6. ASSUME NEW p \in Proc, NEW u \in Touched[p], space[p].upte[u] = NoFrame
      PROVE  Cardinality(F) < Cardinality(UserNeed)
  <2> DEFINE T == UserNeed \ {<<p, u>>}
  <2>0. <<p, u>> \in UserNeed
    BY DEF UserNeed
  <2>1. IsFiniteSet(T) /\ Cardinality(T) = Cardinality(UserNeed) - 1
    BY <2>0, NeedsFinite, FS_RemoveElement
  <2>2. \A f \in F : f # NoFrame
    BY <1>1, SpareFrames
  <2>3. \A f \in F : \E t \in T : <<f, t>> \in R
    BY <1>2, <1>6, <2>2
  <2>4. \A f, g \in F, t \in T : <<f, t>> \in R /\ <<g, t>> \in R => f = g
    BY <1>3
  <2> HIDE DEF T, F
  <2>5. Cardinality(F) <= Cardinality(T)
    BY <2>1, <2>3, <2>4, Counting
  <2> QED
    BY <1>5, <2>1, <2>5, NeedsFinite
<1> QED
  BY <1>4, <1>5, <1>6
-----------------------------------------------------------------------------

\* A page that nobody has becomes a page of p.
LEMMA OwnAdd ==
    ASSUME NEW sp, DOMAIN sp = Proc, NEW M, OwnInv(sp, M), NEW p \in Proc, NEW s,
           NEW k \in Nat, NEW v \in Page, v \notin M,
           \A j, w : Holds(s, j, w) <=> Holds(sp[p], j, w) \/ (j = k /\ w = v)
    PROVE  OwnInv([sp EXCEPT ![p] = s], M \cup {v})
<1> DEFINE t == [sp EXCEPT ![p] = s]
<1>1. \A q \in Proc : t[q] = IF q = p THEN s ELSE sp[q]
  OBVIOUS
<1> HIDE DEF t
<1>2. \A q \in Proc, j \in Nat, w \in Page :
         Holds(t[q], j, w) <=> Holds(sp[q], j, w) \/ (q = p /\ j = k /\ w = v)
  BY <1>1
<1>3. \A q \in Proc, j \in Nat : ~Holds(sp[q], j, v)
  BY DEF OwnInv
<1>4. \A q, r \in Proc, i, j \in Nat, w \in Page :
         Holds(t[q], i, w) /\ Holds(t[r], j, w) => q = r /\ i = j
  <2> SUFFICES ASSUME NEW q \in Proc, NEW r \in Proc, NEW i \in Nat, NEW j \in Nat, NEW w \in Page,
                      Holds(t[q], i, w), Holds(t[r], j, w)
               PROVE  q = r /\ i = j
    OBVIOUS
  <2>1. CASE w = v
    BY <1>2, <1>3, <2>1
  <2>2. CASE w # v
    BY <1>2, <2>2 DEF OwnInv
  <2> QED
    BY <2>1, <2>2
<1>5. ASSUME NEW w \in Page
      PROVE  w \in M \cup {v} <=> \E q \in Proc, j \in Nat : Holds(t[q], j, w)
  <2>1. CASE w = v
    BY <1>2, <2>1
  <2>2. CASE w # v
    BY <1>2, <2>2 DEF OwnInv
  <2> QED
    BY <2>1, <2>2
<1>6. OwnInv(t, M \cup {v})
  <2> DEFINE N == M \cup {v}
  <2>2. \A w \in Page : w \in N <=> \E q \in Proc, j \in Nat : Holds(t[q], j, w)
    BY <1>5
  <2> HIDE DEF N
  <2>3. OwnInv(t, N)
    BY <1>4, <2>2, Zenon DEF OwnInv
  <2> QED
    BY <2>3 DEF N
<1> QED
  BY <1>6 DEF t

\* A page of p becomes nobody's.
LEMMA OwnRemove ==
    ASSUME NEW sp, DOMAIN sp = Proc, NEW M, OwnInv(sp, M), NEW p \in Proc, NEW s,
           NEW k \in Nat, NEW v \in Page, Holds(sp[p], k, v),
           \A j, w : Holds(s, j, w) <=> Holds(sp[p], j, w) /\ j # k
    PROVE  OwnInv([sp EXCEPT ![p] = s], M \ {v}) \/ \E w \in Page : w # v /\ Holds(sp[p], k, w)
<1> SUFFICES ASSUME \A w \in Page : Holds(sp[p], k, w) => w = v
             PROVE  OwnInv([sp EXCEPT ![p] = s], M \ {v})
  OBVIOUS
<1> DEFINE t == [sp EXCEPT ![p] = s]
<1>1. \A q \in Proc : t[q] = IF q = p THEN s ELSE sp[q]
  OBVIOUS
<1> HIDE DEF t
<1>2. \A q \in Proc, j \in Nat, w \in Page : Holds(t[q], j, w) => Holds(sp[q], j, w) /\ w # v
  <2> SUFFICES ASSUME NEW q \in Proc, NEW j \in Nat, NEW w \in Page, Holds(t[q], j, w)
               PROVE  Holds(sp[q], j, w) /\ w # v
    OBVIOUS
  <2>1. Holds(sp[q], j, w) /\ (q = p => j # k)
    BY <1>1
  <2>2. w # v
    BY <2>1 DEF OwnInv
  <2> QED
    BY <2>1, <2>2
<1>3. \A q \in Proc, j \in Nat, w \in Page : Holds(sp[q], j, w) /\ w # v => Holds(t[q], j, w)
  BY <1>1
<1>4. OwnInv(t, M \ {v})
  <2>1. \A q, r \in Proc, i, j \in Nat, w \in Page :
           Holds(t[q], i, w) /\ Holds(t[r], j, w) => q = r /\ i = j
    <3> SUFFICES ASSUME NEW q \in Proc, NEW r \in Proc, NEW i \in Nat, NEW j \in Nat, NEW w \in Page,
                        Holds(t[q], i, w), Holds(t[r], j, w)
                 PROVE  q = r /\ i = j
      OBVIOUS
    <3> QED
      BY <1>2 DEF OwnInv
  <2>2. ASSUME NEW w \in Page
        PROVE  w \in M \ {v} <=> \E q \in Proc, j \in Nat : Holds(t[q], j, w)
    <3>1. w \in M <=> \E q \in Proc, j \in Nat : Holds(sp[q], j, w)
      BY Zenon DEF OwnInv
    <3>2. ASSUME w \in M, w # v
          PROVE  \E q \in Proc, j \in Nat : Holds(t[q], j, w)
      <4>1. PICK q \in Proc, j \in Nat : Holds(sp[q], j, w)
        BY <3>1, <3>2
      <4> QED
        BY <1>3, <3>2, <4>1
    <3>3. ASSUME NEW q \in Proc, NEW j \in Nat, Holds(t[q], j, w)
          PROVE  w \in M /\ w # v
      BY <1>2, <3>1, <3>3
    <3> QED
      BY <3>2, <3>3
  <2> DEFINE N == M \ {v}
  <2>3. \A w \in Page : w \in N <=> \E q \in Proc, j \in Nat : Holds(t[q], j, w)
    BY <2>2
  <2> HIDE DEF N
  <2>4. OwnInv(t, N)
    BY <2>1, <2>3, Zenon DEF OwnInv
  <2> QED
    BY <2>4 DEF N
<1> QED
  BY <1>4 DEF t

\* The pages of p stay what they are.
LEMMA OwnSame ==
    ASSUME NEW sp, DOMAIN sp = Proc, NEW M, OwnInv(sp, M), NEW p \in Proc, NEW s,
           \A j, w : Holds(s, j, w) <=> Holds(sp[p], j, w)
    PROVE  OwnInv([sp EXCEPT ![p] = s], M)
<1> DEFINE t == [sp EXCEPT ![p] = s]
<1>1. \A q \in Proc : t[q] = IF q = p THEN s ELSE sp[q]
  OBVIOUS
<1> HIDE DEF t
<1>2. \A q \in Proc, j \in Nat, w \in Page : Holds(t[q], j, w) <=> Holds(sp[q], j, w)
  BY <1>1
<1>3. OwnInv(t, M)
  BY <1>2 DEF OwnInv
<1> QED
  BY <1>3 DEF t

\* The frames of all processes when those of p change.
LEMMA FramesChange ==
    ASSUME NEW sp, DOMAIN sp = Proc, Disjoint(sp), NEW p \in Proc, NEW s
    PROVE  LET t == [sp EXCEPT ![p] = s]
           IN  /\ s.pglist = sp[p].pglist => Disjoint(t) /\ Frames(t) = Frames(sp)
               /\ s.pglist = {} =>
                     /\ Disjoint(t) /\ Frames(t) = Frames(sp) \ sp[p].pglist
                     /\ sp[p].pglist \subseteq Frames(sp)
<1> DEFINE t == [sp EXCEPT ![p] = s]
<1>1. \A q \in Proc : t[q] = IF q = p THEN s ELSE sp[q]
  OBVIOUS
<1> HIDE DEF t
<1>2. \A x : x \in Frames(sp) <=> \E q \in Proc : x \in sp[q].pglist
  BY DEF Frames
<1>3. \A x : x \in Frames(t) <=> x \in s.pglist \/ \E q \in Proc \ {p} : x \in sp[q].pglist
  BY <1>1 DEF Frames
<1>4. ASSUME s.pglist = sp[p].pglist PROVE Disjoint(t) /\ Frames(t) = Frames(sp)
  <2>1. Disjoint(t)
    BY <1>1, <1>4 DEF Disjoint
  <2>2. \A x : x \in Frames(t) <=> x \in Frames(sp)
    BY <1>2, <1>3, <1>4
  <2> QED
    BY <2>1, <2>2
<1>5. ASSUME s.pglist = {}
      PROVE  Disjoint(t) /\ Frames(t) = Frames(sp) \ sp[p].pglist
  <2>1. Disjoint(t)
    BY <1>1, <1>5 DEF Disjoint
  <2>2. \A x : x \in Frames(t) <=> x \in Frames(sp) \ sp[p].pglist
    BY <1>2, <1>3, <1>5 DEF Disjoint
  <2> QED
    BY <2>1, <2>2
<1>6. sp[p].pglist \subseteq Frames(sp)
  BY <1>2
<1> QED
  BY <1>4, <1>5, <1>6 DEF t

\* The memory s of p has frame f, which nobody had.
Gains(sp, p, s, f) ==
    /\ DOMAIN sp = Proc /\ Disjoint(sp)
    /\ s.pglist = sp[p].pglist \cup {f}
    /\ f \notin Frames(sp)

\* The frames of all processes when p gets one that nobody has.
LEMMA FramesAdd ==
    ASSUME NEW sp, NEW p \in Proc, NEW s, NEW f, Gains(sp, p, s, f)
    PROVE  LET t == [sp EXCEPT ![p] = s]
           IN  Disjoint(t) /\ Frames(t) = Frames(sp) \cup {f}
<1> DEFINE t == [sp EXCEPT ![p] = s]
<1>0. /\ DOMAIN sp = Proc /\ Disjoint(sp) /\ f \notin Frames(sp)
      /\ s.pglist = sp[p].pglist \cup {f}
  BY DEF Gains
<1>1. \A q \in Proc : t[q] = IF q = p THEN s ELSE sp[q]
  BY <1>0
<1> HIDE DEF t
<1>2. \A x : x \in Frames(sp) <=> \E q \in Proc : x \in sp[q].pglist
  BY DEF Frames
<1>3. \A x : x \in Frames(t) <=> x \in s.pglist \/ \E q \in Proc \ {p} : x \in sp[q].pglist
  BY <1>1 DEF Frames
<1>4. Disjoint(t)
  BY <1>0, <1>1, <1>2 DEF Disjoint
<1>5. \A x : x \in Frames(t) <=> x \in Frames(sp) \cup {f}
  BY <1>0, <1>2, <1>3
<1>6. Frames(t) = Frames(sp) \cup {f}
  BY <1>5
<1> QED
  BY <1>4, <1>6 DEF t
-----------------------------------------------------------------------------

\* The invariant after a step that changes the memory of p only.
LEMMA SpaceStep ==
    ASSUME SpaceInv, NEW p \in Proc, NEW s, space' = [space EXCEPT ![p] = s],
           Local(p, s), Phase(p, s, loading', dying', image'),
           loading' \in Proc \cup {Nobody}, dying' \in Proc \cup {Nobody},
           loading' = Nobody \/ dying' = Nobody,
           image' \in {"elf", "notelf"},
           \/ loading' = loading /\ dying' = dying /\ image' = image
           \/ \A q \in Proc \ {p} : q \notin {loading, dying, loading', dying'},
           OwnInv(space', Mapped(mem')), Disjoint(space'), Backed(mem', Frames(space'))
    PROVE  SpaceInv'
<1>1. /\ space \in [Proc -> Space]
      /\ \A q \in Proc : Local(q, space[q]) /\ Phase(q, space[q], loading, dying, image)
  BY DEF SpaceInv
<1>2. s \in Space
  BY DEF Local
<1>3. space' \in [Proc -> Space]
  BY <1>1, <1>2
<1>4. \A q \in Proc : space'[q] = IF q = p THEN s ELSE space[q]
  BY <1>1
<1>5. \A q \in Proc : Local(q, space'[q])
  BY <1>1, <1>4
<1>6. \A q \in Proc : Phase(q, space'[q], loading', dying', image')
  <2> SUFFICES ASSUME NEW q \in Proc, q # p
               PROVE  Phase(q, space[q], loading', dying', image')
    BY <1>4
  <2>1. Phase(q, space[q], loading, dying, image)
    BY <1>1
  <2>2. CASE loading' = loading /\ dying' = dying /\ image' = image
    BY <2>1, <2>2
  <2>3. CASE \A r \in Proc \ {p} : r \notin {loading, dying, loading', dying'}
    <3>1. q # loading /\ q # dying /\ q # loading' /\ q # dying'
      BY <2>3
    <3> QED
      BY <2>1, <3>1 DEF Phase
  <2> QED
    BY <2>2, <2>3
<1>7. \A q \in Proc : Local(q, space[q])' /\ Phase(q, space[q], loading, dying, image)'
  BY <1>5, <1>6 DEF Local, HasTable, Phase
<1>8. OwnInv(space, Mapped(mem))' /\ Disjoint(space)' /\ Backed(mem, Frames(space))'
  BY DEF OwnInv, Holds, Mapped, Disjoint, Backed, Sound, Backing, Frames, Apart, Has
<1> QED
  BY <1>3, <1>7, <1>8 DEF SpaceInv

\* The memory of nobody.
LEMMA NoSpaceFacts ==
    ASSUME NEW p \in Proc
    PROVE  Local(p, NoSpace) /\ \A k, v : ~Holds(NoSpace, k, v)
<1>1. NoSpace \in Space
  BY DEF NoSpace, Space
<1>2. Len(NoSpace.pt) = 0 /\ 1..0 = {}
  BY DEF NoSpace
<1>3. \A u \in UserPage : NoSpace.upte[u] = NoFrame
  BY DEF NoSpace
<1>4. NoSpace.pglist = {} /\ NoSpace.base = {} /\ NoSpace.kstack = {}
  BY DEF NoSpace
<1> QED
  BY <1>1, <1>2, <1>3, <1>4 DEF Local, Holds

\* A directory, and nothing else.
LEMMA NewSpaceFacts ==
    ASSUME NEW p \in Proc, NEW v \in Page
    PROVE  LET s == [NoSpace EXCEPT !.base = {v}]
           IN  /\ Local(p, s) /\ \A k, w : Holds(s, k, w) <=> k = 0 /\ w = v
               /\ s.base = {v} /\ ~s.live /\ s.kstack = {} /\ s.pglist = {}
<1> DEFINE s == [NoSpace EXCEPT !.base = {v}]
<1>0. {v} \in SUBSET Page /\ NoSpace \in Space
  BY NoSpaceFacts DEF Local
<1>1. s \in Space
  BY <1>0 DEF Space
<1>2. Len(s.pt) = 0 /\ 1..0 = {}
  BY DEF NoSpace
<1>3. \A u \in UserPage : s.upte[u] = NoFrame
  BY DEF NoSpace
<1>4. s.pglist = {} /\ s.base = {v} /\ s.kstack = {} /\ ~s.live
  BY DEF NoSpace
<1> HIDE DEF s
<1>5. Local(p, s) /\ \A k, w : Holds(s, k, w) <=> k = 0 /\ w = v
  BY <1>1, <1>2, <1>3, <1>4 DEF Local, Holds
<1> QED
  BY <1>4, <1>5 DEF s

\* What is left of the memory of p when pd_destroy() starts.
LEMMA UnloadedFacts ==
    ASSUME NEW p \in Proc, NEW s, Local(p, s)
    PROVE  /\ Local(p, Unloaded(s))
           /\ \A k, w : Holds(Unloaded(s), k, w) <=> Holds(s, k, w) /\ ~(k = 1 /\ w \in s.kstack)
           /\ \A k, w : Holds(Unloaded(s), k, w) => k # 1
           /\ Unloaded(s).base = s.base /\ ~Unloaded(s).live
           /\ Unloaded(s).kstack = {} /\ Unloaded(s).pglist = {}
<1> DEFINE t == Unloaded(s)
<1>1. s.base \in SUBSET Page /\ s.pt \in Seq(Table)
  BY DEF Local, Space
<1>2. /\ t \in Space /\ t.pt = s.pt /\ t.base = s.base /\ t.kstack = {} /\ t.pglist = {} /\ ~t.live
      /\ \A u \in UserPage : t.upte[u] = NoFrame
  BY <1>1 DEF Unloaded, NoSpace, Space
<1>3. \A i \in 1..Len(s.pt) : s.pt[i].dir \in Nat
  BY <1>1, TableFields
<1> HIDE DEF t
<1>4. Local(p, t)
  BY <1>2 DEF Local
<1>5. \A k, w : Holds(t, k, w) => k # 1
  BY <1>2, <1>3 DEF Holds
<1>6. \A k, w : Holds(t, k, w) <=> Holds(s, k, w) /\ ~(k = 1 /\ w \in s.kstack)
  BY <1>2, <1>3 DEF Holds
<1> QED
  BY <1>2, <1>4, <1>5, <1>6 DEF t

\* The parts of the invariant.
LEMMA SpaceFacts ==
    ASSUME SpaceInv
    PROVE  /\ loading \in Proc \cup {Nobody} /\ dying \in Proc \cup {Nobody}
           /\ loading = Nobody \/ dying = Nobody
           /\ image \in {"elf", "notelf"}
           /\ space \in [Proc -> Space] /\ DOMAIN space = Proc
           /\ OwnInv(space, Mapped(mem)) /\ Disjoint(space) /\ Backed(mem, Frames(space))
           /\ \A p \in Proc : /\ Local(p, space[p]) /\ Phase(p, space[p], loading, dying, image)
                              /\ space[p] \in Space /\ p # Nobody
<1>1. Nobody \notin Proc
  BY Programs
<1>2. space \in [Proc -> Space]
  BY DEF SpaceInv
<1> QED
  BY <1>1, <1>2 DEF SpaceInv

\* There is a page, and a frame for it, for a use that has none.
LEMMA Room ==
    ASSUME SpaceInv, EnoughMemory, NEW p \in Proc, NEW k \in Nat, <<p, k>> \in PageNeed,
           \A v \in Page : ~Holds(space[p], k, v)
    PROVE  /\ Cardinality(Mapped(mem)) \in Nat /\ Cardinality(Mapped(mem)) + 1 < HEAP
           /\ Cardinality(Frames(space)) \in Nat
           /\ KERNEL + 1 + Cardinality(Mapped(mem)) + Cardinality(Frames(space)) < RAM
<1>1. Cardinality(Mapped(mem)) \in Nat /\ Cardinality(Mapped(mem)) < Cardinality(PageNeed)
  BY PagesLeft
<1>2. Cardinality(Frames(space)) \in Nat /\ Cardinality(Frames(space)) <= Cardinality(UserNeed)
  BY FramesLeft
<1>3. Cardinality(PageNeed) \in Nat /\ Cardinality(UserNeed) \in Nat
  BY NeedsFinite
<1> QED
  BY <1>1, <1>2, <1>3, Sizes DEF EnoughMemory

\* load_task() takes a page for the directory.
LEMMA LoadBeginInv ==
    ASSUME SpaceInv, EnoughMemory, NEW p \in Proc, NEW i \in Images, i # "badsegment",
           LoadBegin(p, i)
    PROVE  SpaceInv'
<1> DEFINE v == FirstPage(mem)
           s == [NoSpace EXCEPT !.base = {v}]
<1>1. /\ loading = Nobody /\ dying = Nobody /\ loading' = p /\ dying' = dying /\ image' = i
      /\ ~space[p].live /\ mem' = get_page_from_heap(mem) /\ space' = [space EXCEPT ![p] = s]
  BY DEF LoadBegin, Idle, pd_create
<1>2. space[p] = NoSpace /\ p # Nobody
  BY <1>1, SpaceFacts DEF Phase
<1>3. \A k, w : ~Holds(space[p], k, w)
  BY <1>2, NoSpaceFacts
<1>4. <<p, 0>> \in PageNeed
  BY DEF PageNeed
<1>5. /\ Cardinality(Mapped(mem)) + 1 < HEAP
      /\ KERNEL + 1 + Cardinality(Mapped(mem)) + Cardinality(Frames(space)) < RAM
  BY <1>3, <1>4, Room
<1>6. Sound(mem)
  BY SpaceFacts DEF Backed
<1>7. v \in Page \ Mapped(mem) /\ Mapped(mem') = Mapped(mem) \cup {v}
  BY <1>1, <1>5, <1>6, GetSound
<1>8. Backed(mem', Frames(space))
  BY <1>1, <1>5, SpaceFacts, GetBacked
<1>9. /\ Local(p, s) /\ \A k, w : Holds(s, k, w) <=> k = 0 /\ w = v
      /\ s.base = {v} /\ ~s.live /\ s.kstack = {} /\ s.pglist = {}
  BY <1>7, NewSpaceFacts
<1> HIDE DEF s, v
<1>10. OwnInv(space', Mapped(mem'))
  <2>1. 0 \in Nat /\ \A k, w : Holds(s, k, w) <=> Holds(space[p], k, w) \/ (k = 0 /\ w = v)
    BY <1>3, <1>9
  <2>2. DOMAIN space = Proc /\ OwnInv(space, Mapped(mem))
    BY SpaceFacts
  <2>3. OwnInv([space EXCEPT ![p] = s], Mapped(mem) \cup {v})
    BY <1>7, <2>1, <2>2, OwnAdd
  <2> QED
    BY <1>1, <1>7, <2>3
<1>11. space[p].pglist = {}
  BY <1>2 DEF NoSpace
<1>12. Disjoint(space') /\ Frames(space') = Frames(space)
  <2>1. DOMAIN space = Proc /\ Disjoint(space) /\ s.pglist = space[p].pglist
    BY <1>9, <1>11, SpaceFacts
  <2> QED
    BY <1>1, <2>1, FramesChange
<1>13. Phase(p, s, loading', dying', image')
  BY <1>1, <1>2, <1>7, <1>9 DEF Phase
<1>14. image' \in {"elf", "notelf"}
  BY <1>1, SpaceAssumption
<1>15. /\ loading' \in Proc \cup {Nobody} /\ dying' \in Proc \cup {Nobody}
       /\ loading' = Nobody \/ dying' = Nobody
       /\ \A q \in Proc \ {p} : q \notin {loading, dying, loading', dying'}
  BY <1>1, SpaceFacts
<1> QED
  BY <1>1, <1>8, <1>9, <1>10, <1>12, <1>13, <1>14, <1>15, SpaceStep

\* load_task() takes a page for the kernel stack.
LEMMA LoadEndInv ==
    ASSUME SpaceInv, EnoughMemory, NEW p \in Proc, LoadEnd(p)
    PROVE  SpaceInv'
<1> DEFINE v == FirstPage(mem)
           s == [space[p] EXCEPT !.live = TRUE, !.kstack = {v}]
<1>1. /\ loading = p /\ dying' = dying /\ loading' = Nobody /\ image = "elf" /\ image' = image
      /\ mem' = get_page_from_heap(mem)
      /\ space' = [space EXCEPT ![p].live = TRUE, ![p].kstack = {v}]
  BY DEF LoadEnd, load_elf
<1>2. space' = [space EXCEPT ![p] = s]
  BY <1>1, SpaceFacts
<1>3. /\ p # Nobody /\ dying = Nobody /\ space[p] \in Space /\ Local(p, space[p])
      /\ ~space[p].live /\ space[p].kstack = {} /\ \E w \in Page : space[p].base = {w}
  BY <1>1, SpaceFacts DEF Phase
<1>4. \A i \in 1..Len(space[p].pt) : space[p].pt[i].dir \in Nat
  <2>1. space[p].pt \in Seq(Table)
    BY <1>3 DEF Space
  <2> QED
    BY <2>1, TableFields
<1>5. \A w : ~Holds(space[p], 1, w)
  BY <1>3, <1>4 DEF Holds
<1>6. <<p, 1>> \in PageNeed
  BY DEF PageNeed
<1>7. /\ Cardinality(Mapped(mem)) + 1 < HEAP
      /\ KERNEL + 1 + Cardinality(Mapped(mem)) + Cardinality(Frames(space)) < RAM
  BY <1>5, <1>6, Room
<1>8. Sound(mem)
  BY SpaceFacts DEF Backed
<1>9. v \in Page \ Mapped(mem) /\ Mapped(mem') = Mapped(mem) \cup {v}
  BY <1>1, <1>7, <1>8, GetSound
<1>10. Backed(mem', Frames(space))
  BY <1>1, <1>7, SpaceFacts, GetBacked
<1>11. /\ s \in Space /\ s.live /\ s.kstack = {v} /\ s.base = space[p].base /\ s.pt = space[p].pt
       /\ s.upte = space[p].upte /\ s.pglist = space[p].pglist
  BY <1>3, <1>9 DEF Space
<1> HIDE DEF s, v
<1>12. Local(p, s)
  BY <1>3, <1>11 DEF Local, HasTable
<1>13. \A k, w : Holds(s, k, w) <=> Holds(space[p], k, w) \/ (k = 1 /\ w = v)
  BY <1>3, <1>11 DEF Holds
<1>14. OwnInv(space', Mapped(mem'))
  <2>1. 1 \in Nat /\ DOMAIN space = Proc /\ OwnInv(space, Mapped(mem))
    BY SpaceFacts
  <2>2. OwnInv([space EXCEPT ![p] = s], Mapped(mem) \cup {v})
    BY <1>9, <1>13, <2>1, OwnAdd
  <2> QED
    BY <1>2, <1>9, <2>2
<1>15. Disjoint(space') /\ Frames(space') = Frames(space)
  <2>1. DOMAIN space = Proc /\ Disjoint(space) /\ s.pglist = space[p].pglist
    BY <1>11, SpaceFacts
  <2> QED
    BY <1>2, <2>1, FramesChange
<1>16. Phase(p, s, loading', dying', image')
  BY <1>1, <1>3, <1>9, <1>11 DEF Phase
<1>17. /\ loading' \in Proc \cup {Nobody} /\ dying' \in Proc \cup {Nobody}
       /\ loading' = Nobody \/ dying' = Nobody
       /\ image' \in {"elf", "notelf"}
       /\ \A q \in Proc \ {p} : q \notin {loading, dying, loading', dying'}
  BY <1>1, <1>3, SpaceFacts
<1> QED
  BY <1>1, <1>2, <1>10, <1>12, <1>14, <1>15, <1>16, <1>17, SpaceStep

\* A file that is refused before anything is copied leaves no frame behind.
LEMMA LoadFailInv ==
    ASSUME SpaceInv, NEW p \in Proc, LoadFail(p)
    PROVE  SpaceInv'
<1> DEFINE s == Unloaded(space[p])
<1>1. /\ loading = p /\ dying' = p /\ loading' = Nobody /\ image # "elf" /\ image' = "elf"
      /\ mem' = mem /\ space' = [space EXCEPT ![p] = s]
  BY DEF LoadFail, load_elf
<1>2. /\ p # Nobody /\ dying = Nobody /\ image = "notelf" /\ Local(p, space[p])
      /\ ~space[p].live /\ space[p].kstack = {} /\ \E w \in Page : space[p].base = {w}
      /\ space[p].pglist = {}
  BY <1>1, SpaceFacts DEF Phase
<1>3. /\ Local(p, s) /\ \A k, w : Holds(s, k, w) <=> Holds(space[p], k, w)
      /\ s.base = space[p].base /\ ~s.live /\ s.kstack = {} /\ s.pglist = {}
  BY <1>2, UnloadedFacts
<1> HIDE DEF s
<1>4. OwnInv(space', Mapped(mem'))
  <2>1. DOMAIN space = Proc /\ OwnInv(space, Mapped(mem))
    BY SpaceFacts
  <2>2. OwnInv([space EXCEPT ![p] = s], Mapped(mem))
    BY <1>3, <2>1, OwnSame
  <2> QED
    BY <1>1, <2>2
<1>5. Disjoint(space') /\ Frames(space') = Frames(space)
  <2>1. DOMAIN space = Proc /\ Disjoint(space) /\ s.pglist = space[p].pglist
    BY <1>2, <1>3, SpaceFacts
  <2> QED
    BY <1>1, <2>1, FramesChange
<1>6. Phase(p, s, loading', dying', image')
  BY <1>1, <1>2, <1>3 DEF Phase
<1>7. /\ loading' \in Proc \cup {Nobody} /\ dying' \in Proc \cup {Nobody}
      /\ loading' = Nobody \/ dying' = Nobody
      /\ image' \in {"elf", "notelf"}
      /\ \A q \in Proc \ {p} : q \notin {loading, dying, loading', dying'}
  BY <1>1, <1>2, SpaceFacts
<1> QED
  BY <1>1, <1>3, <1>4, <1>5, <1>6, <1>7, SpaceFacts, SpaceStep

\* sys_exit() releases the frames of p and the page of its kernel stack.
LEMMA ExitInv ==
    ASSUME SpaceInv, NEW p \in Proc, sys_exit(p)
    PROVE  SpaceInv'
<1> DEFINE s == Unloaded(space[p])
           m == release_page_frames(mem, space[p].pglist)
<1>1. /\ loading = Nobody /\ dying = Nobody /\ dying' = p /\ loading' = loading /\ image' = image
      /\ space[p].live /\ space' = [space EXCEPT ![p] = s]
  BY DEF sys_exit, Idle
<1>2. PICK v \in space[p].kstack : mem' = release_page_from_heap(m, v)
  BY DEF sys_exit
<1>3. /\ p # Nobody /\ Local(p, space[p]) /\ space[p].kstack = {v} /\ v \in Page
      /\ \E w \in Page : space[p].base = {w}
  BY <1>1, SpaceFacts DEF Phase
<1>4. /\ Local(p, s) /\ \A k, w : Holds(s, k, w) <=> Holds(space[p], k, w) /\ k # 1
      /\ s.base = space[p].base /\ ~s.live /\ s.kstack = {} /\ s.pglist = {}
  <2>1. /\ Local(p, s)
        /\ \A k, w : Holds(s, k, w) <=> Holds(space[p], k, w) /\ ~(k = 1 /\ w \in space[p].kstack)
        /\ \A k, w : Holds(s, k, w) => k # 1
        /\ s.base = space[p].base /\ ~s.live /\ s.kstack = {} /\ s.pglist = {}
    BY <1>3, UnloadedFacts
  <2> HIDE DEF s
  <2> QED
    BY <2>1
<1>5. Holds(space[p], 1, v)
  BY <1>3 DEF Holds
<1> HIDE DEF s
<1>6. /\ DOMAIN space = Proc /\ Disjoint(space) /\ OwnInv(space, Mapped(mem))
      /\ Backed(mem, Frames(space)) /\ Phase(p, space[p], loading, dying, image)
  BY SpaceFacts
<1>7. Disjoint(space') /\ Frames(space') = Frames(space) \ space[p].pglist
      /\ space[p].pglist \subseteq Frames(space)
  <2>1. DOMAIN space = Proc /\ Disjoint(space) /\ s.pglist = {}
    BY <1>4, <1>6
  <2>2. LET e == [space EXCEPT ![p] = s]
        IN  /\ Disjoint(e) /\ Frames(e) = Frames(space) \ space[p].pglist
            /\ space[p].pglist \subseteq Frames(space)
    BY <2>1, FramesChange
  <2> QED
    BY <1>1, <2>2
<1>8. Backed(m, Frames(space')) /\ Mapped(m) = Mapped(mem)
  BY <1>6, <1>7, DropBacked DEF release_page_frames
<1> HIDE DEF m
<1>9. v \in Mapped(m) /\ 1 \in Nat
  BY <1>3, <1>5, <1>6, <1>8 DEF OwnInv
<1>10. Backed(mem', Frames(space'))
  BY <1>2, <1>8, <1>9, ReleaseBacked
<1>11. Mapped(mem') = Mapped(mem) \ {v}
  <2>1. Sound(m)
    BY <1>8 DEF Backed
  <2> QED
    <3>1. Mapped(release_page_from_heap(m, v)) = Mapped(m) \ {v}
      BY <1>9, <2>1, ReleaseSound
    <3> QED
      BY <1>2, <1>8, <3>1
<1>12. OwnInv(space', Mapped(mem'))
  <2>1. \A w : Holds(space[p], 1, w) => w = v
    BY <1>3, <1>5, <1>6, HoldsFacts
  <2>2. OwnInv([space EXCEPT ![p] = s], Mapped(mem) \ {v})
    <3>1. \/ OwnInv([space EXCEPT ![p] = s], Mapped(mem) \ {v})
          \/ \E w \in Page : w # v /\ Holds(space[p], 1, w)
      BY <1>3, <1>4, <1>5, <1>6, <1>9, OwnRemove
    <3> QED
      BY <2>1, <3>1
  <2> QED
    BY <1>1, <1>11, <2>2
<1>13. Phase(p, s, loading', dying', image')
  BY <1>1, <1>3, <1>4 DEF Phase
<1>14. /\ loading' \in Proc \cup {Nobody} /\ dying' \in Proc \cup {Nobody}
       /\ loading' = Nobody \/ dying' = Nobody
       /\ image' \in {"elf", "notelf"}
       /\ \A q \in Proc \ {p} : q \notin {loading, dying, loading', dying'}
  BY <1>1, SpaceFacts
<1> QED
  BY <1>1, <1>4, <1>7, <1>10, <1>12, <1>13, <1>14, SpaceStep

\* pd_destroy() releases the page of a table.
LEMMA DestroyTableInv ==
    ASSUME SpaceInv, NEW p \in Proc, pd_destroy_table(p)
    PROVE  SpaceInv'
<1> DEFINE t == space[p].pt
           s == [space[p] EXCEPT !.pt = Tail(t)]
           v == Head(t).page
<1>1. /\ dying = p /\ dying' = dying /\ loading' = loading /\ image' = image /\ t # <<>>
      /\ mem' = release_page_from_heap(mem, v) /\ space' = [space EXCEPT ![p].pt = Tail(@)]
  BY DEF pd_destroy_table
<1>2. space' = [space EXCEPT ![p] = s]
  BY <1>1, SpaceFacts
<1>3. /\ Local(p, space[p]) /\ space[p] \in Space /\ Phase(p, space[p], loading, dying, image)
      /\ p # Nobody /\ loading = Nobody
      /\ DOMAIN space = Proc /\ Disjoint(space) /\ OwnInv(space, Mapped(mem))
      /\ Backed(mem, Frames(space))
  BY <1>1, SpaceFacts
<1>4. t \in Seq(Table)
  BY <1>3 DEF Space
<1>5. /\ Tail(t) \in Seq(Table) /\ Len(Tail(t)) = Len(t) - 1 /\ Len(t) \in Nat /\ Len(t) > 0
      /\ \A i \in 1..(Len(t) - 1) : Tail(t)[i] = t[i + 1]
      /\ Head(t) = t[1]
  BY <1>1, <1>4, TailFacts
<1>6. \A i \in 1..Len(t) : t[i].dir \in Nat /\ t[i].page \in Page
  BY <1>4, TableFields
<1>7. /\ s \in Space /\ s.live = space[p].live /\ s.kstack = space[p].kstack
      /\ s.base = space[p].base /\ s.pt = Tail(t) /\ s.upte = space[p].upte
      /\ s.pglist = space[p].pglist
  BY <1>3, <1>5 DEF Space
<1>8. s.pglist = {} /\ ~space[p].live
  BY <1>1, <1>3, <1>7 DEF Phase
<1> HIDE DEF s, t
<1>9. \A i \in 1..Len(s.pt) : i + 1 \in 1..Len(t) /\ s.pt[i] = t[i + 1]
  BY <1>5, <1>7
<1>10. /\ \A i, j \in 1..Len(t) : t[i].dir = t[j].dir => i = j
       /\ \A i \in 1..Len(t) : \E u \in Touched[p] : t[i].dir = u[1]
       /\ \A u \in UserPage : u[2] # 0 => s.upte[u] \in s.pglist \cup {NoFrame}
  BY <1>3, <1>7 DEF Local, t
<1>11. Local(p, s)
  <2>1. ASSUME NEW i \in 1..Len(s.pt), NEW j \in 1..Len(s.pt), s.pt[i].dir = s.pt[j].dir
        PROVE  i = j
    <3>1. i + 1 = j + 1
      BY <1>9, <1>10, <2>1
    <3> QED
      BY <1>5, <1>7, <3>1
  <2>2. \A i \in 1..Len(s.pt) : \E u \in Touched[p] : s.pt[i].dir = u[1]
    BY <1>9, <1>10
  <2> QED
    BY <1>7, <1>8, <1>10, <2>1, <2>2 DEF Local
<1> DEFINE d == t[1].dir + 2
<1>12. v = t[1].page /\ v \in Page /\ d \in Nat /\ 1 \in 1..Len(t)
  BY <1>5, <1>6
<1>13. Holds(space[p], d, v)
  BY <1>12 DEF Holds, t
<1>14. \A k, w : Holds(s, k, w) <=> Holds(space[p], k, w) /\ k # d
  <2>1. ASSUME NEW k, NEW w, Holds(s, k, w) PROVE Holds(space[p], k, w) /\ k # d
    <3>1. CASE k \in {0, 1}
      BY <1>6, <1>7, <1>9, <1>12, <2>1, <3>1 DEF Holds
    <3>2. CASE k \notin {0, 1}
      <4>1. PICK i \in 1..Len(s.pt) : k = s.pt[i].dir + 2 /\ w = s.pt[i].page
        BY <2>1, <3>2 DEF Holds
      <4>2. i + 1 \in 1..Len(t) /\ s.pt[i] = t[i + 1] /\ i + 1 # 1
        BY <1>5, <1>9
      <4>3. t[i + 1].dir # t[1].dir
        BY <1>10, <1>12, <4>2
      <4> QED
        <5>1. k = t[i + 1].dir + 2 /\ w = t[i + 1].page
          BY <4>1, <4>2
        <5>2. Holds(space[p], k, w)
          BY <4>2, <5>1 DEF Holds, t
        <5>3. k # d
          BY <1>6, <1>12, <4>2, <4>3, <5>1
        <5> QED
          BY <5>2, <5>3
    <3> QED
      BY <3>1, <3>2
  <2>2. ASSUME NEW k, NEW w, Holds(space[p], k, w), k # d PROVE Holds(s, k, w)
    <3>1. CASE (k = 0 /\ w \in space[p].base) \/ (k = 1 /\ w \in space[p].kstack)
      BY <1>7, <3>1 DEF Holds
    <3>2. ASSUME NEW i \in 1..Len(t), k = t[i].dir + 2 /\ w = t[i].page
          PROVE  Holds(s, k, w)
      <4>1. i # 1
        BY <2>2, <3>2
      <4>2. i - 1 \in 1..Len(s.pt) /\ s.pt[i - 1] = t[i]
        BY <1>5, <1>7, <4>1
      <4> QED
        BY <3>2, <4>2 DEF Holds
    <3> QED
      BY <2>2, <3>1, <3>2 DEF Holds, t
  <2> QED
    BY <2>1, <2>2
<1> HIDE DEF d, v
<1>15. v \in Mapped(mem)
  BY <1>3, <1>12, <1>13 DEF OwnInv
<1>16. Disjoint(space') /\ Frames(space') = Frames(space)
  BY <1>2, <1>3, <1>7, FramesChange
<1>17. Backed(mem', Frames(space'))
  BY <1>1, <1>3, <1>15, <1>16, ReleaseBacked
<1>18. Mapped(mem') = Mapped(mem) \ {v}
  <2>1. Sound(mem)
    BY <1>3 DEF Backed
  <2> QED
    BY <1>1, <1>15, <2>1, ReleaseSound
<1>19. OwnInv(space', Mapped(mem'))
  <2>1. \A w : Holds(space[p], d, w) => w = v
    BY <1>3, <1>13, HoldsFacts
  <2>2. OwnInv([space EXCEPT ![p] = s], Mapped(mem) \ {v})
    <3>1. \/ OwnInv([space EXCEPT ![p] = s], Mapped(mem) \ {v})
          \/ \E w \in Page : w # v /\ Holds(space[p], d, w)
      <4>1. DOMAIN space = Proc /\ OwnInv(space, Mapped(mem)) /\ v \in Page /\ d \in Nat
        BY <1>3, <1>12
      <4> QED
        BY <1>13, <1>14, <4>1, OwnRemove
    <3> QED
      BY <2>1, <3>1
  <2> QED
    BY <1>2, <1>18, <2>2
<1>20. Phase(p, s, loading', dying', image')
  BY <1>1, <1>3, <1>7, <1>8 DEF Phase
<1> QED
  BY <1>1, <1>2, <1>11, <1>16, <1>17, <1>19, <1>20, SpaceFacts, SpaceStep

\* pd_destroy() releases the page of the directory.
LEMMA DestroyInv ==
    ASSUME SpaceInv, NEW p \in Proc, pd_destroy(p)
    PROVE  SpaceInv'
<1>1. /\ dying = p /\ dying' = Nobody /\ loading' = loading /\ image' = image
      /\ space[p].pt = <<>> /\ space' = [space EXCEPT ![p] = NoSpace]
  BY DEF pd_destroy
<1>2. PICK v \in space[p].base : mem' = release_page_from_heap(mem, v)
  BY DEF pd_destroy
<1>3. /\ Local(p, space[p]) /\ space[p] \in Space /\ Phase(p, space[p], loading, dying, image)
      /\ p # Nobody /\ loading = Nobody
      /\ DOMAIN space = Proc /\ Disjoint(space) /\ OwnInv(space, Mapped(mem))
      /\ Backed(mem, Frames(space))
  BY <1>1, SpaceFacts
<1>4. /\ ~space[p].live /\ space[p].kstack = {} /\ space[p].pglist = {}
      /\ space[p].base = {v} /\ v \in Page
  BY <1>1, <1>3 DEF Phase
<1>5. Holds(space[p], 0, v) /\ v \in Mapped(mem) /\ 0 \in Nat
  BY <1>3, <1>4 DEF Holds, OwnInv
<1>6. \A k, w : Holds(NoSpace, k, w) <=> Holds(space[p], k, w) /\ k # 0
  <2>1. \A k, w : Holds(space[p], k, w) => k = 0
    BY <1>1, <1>4 DEF Holds
  <2> QED
    BY <2>1, NoSpaceFacts
<1>7. Local(p, NoSpace) /\ NoSpace.pglist = {} /\ NoSpace.kstack = {} /\ ~NoSpace.live
  BY NoSpaceFacts DEF NoSpace
<1>8. Disjoint(space') /\ Frames(space') = Frames(space)
  <2>1. DOMAIN space = Proc /\ Disjoint(space) /\ NoSpace.pglist = space[p].pglist
    BY <1>3, <1>4, <1>7
  <2>2. LET e == [space EXCEPT ![p] = NoSpace]
        IN  Disjoint(e) /\ Frames(e) = Frames(space)
    BY <2>1, FramesChange
  <2> QED
    BY <1>1, <2>2
<1>9. Backed(mem', Frames(space'))
  BY <1>2, <1>3, <1>5, <1>8, ReleaseBacked
<1>10. Mapped(mem') = Mapped(mem) \ {v}
  <2>1. Sound(mem)
    BY <1>3 DEF Backed
  <2> QED
    BY <1>2, <1>5, <2>1, ReleaseSound
<1>11. OwnInv(space', Mapped(mem'))
  <2>1. \A w : Holds(space[p], 0, w) => w = v
    BY <1>3, <1>5, HoldsFacts
  <2>2. OwnInv([space EXCEPT ![p] = NoSpace], Mapped(mem) \ {v})
    <3>1. \/ OwnInv([space EXCEPT ![p] = NoSpace], Mapped(mem) \ {v})
          \/ \E w \in Page : w # v /\ Holds(space[p], 0, w)
      <4>1. DOMAIN space = Proc /\ OwnInv(space, Mapped(mem)) /\ v \in Page
        BY <1>3, <1>4
      <4>2. Holds(space[p], 0, v) /\ 0 \in Nat
        BY <1>5
      <4> QED
        BY <1>6, <4>1, <4>2, OwnRemove
    <3> QED
      BY <2>1, <3>1
  <2> QED
    BY <1>1, <1>10, <2>2
<1>12. Phase(p, NoSpace, loading', dying', image')
  BY <1>1, <1>3, <1>7 DEF Phase
<1>13. /\ loading' \in Proc \cup {Nobody} /\ dying' \in Proc \cup {Nobody}
       /\ loading' = Nobody \/ dying' = Nobody
       /\ image' \in {"elf", "notelf"}
       /\ \A q \in Proc \ {p} : q \notin {loading, dying, loading', dying'}
  BY <1>1, <1>3, SpaceFacts
<1> QED
  BY <1>1, <1>7, <1>8, <1>9, <1>11, <1>12, <1>13, SpaceStep
-----------------------------------------------------------------------------

\* A page of p that has a table gets a frame.
LEMMA AddToTable ==
    ASSUME NEW p \in Proc, NEW s, Local(p, s), NEW u \in Touched[p], s.upte[u] = NoFrame,
           HasTable(s, u[1]), NEW f \in Frame, NEW t \in Space,
           t.pt = s.pt, t.base = s.base, t.kstack = s.kstack, t.pglist = s.pglist \cup {f},
           t.upte = [s.upte EXCEPT ![u] = f]
    PROVE  Local(p, t) /\ \A k, v : Holds(t, k, v) <=> Holds(s, k, v)
<1>1. u \in UserPage
  BY Programs
<1>2. s.upte \in [UserPage -> Frame \cup {NoFrame}] /\ s.pglist \subseteq Frame
  BY DEF Local, Space
<1>3. \A w \in UserPage : t.upte[w] = IF w = u THEN f ELSE s.upte[w]
  BY <1>1, <1>2
<1>4. \A d : HasTable(t, d) <=> HasTable(s, d)
  BY DEF HasTable
<1>5. NoFrame \notin Frame
  BY DEF NoFrame, Frame
<1>6. ASSUME NEW g \in t.pglist
      PROVE  \E w \in Touched[p] : t.upte[w] = g /\ HasTable(t, w[1])
  <2>1. CASE g = f
    BY <1>1, <1>3, <1>4, <2>1
  <2>2. CASE g # f
    <3>1. PICK w \in Touched[p] : s.upte[w] = g /\ HasTable(s, w[1])
      BY <2>2 DEF Local
    <3>2. w # u /\ w \in UserPage
      BY <1>2, <1>5, <2>2, <3>1, Programs
    <3> QED
      BY <1>3, <1>4, <3>1, <3>2
  <2> QED
    BY <2>1, <2>2
<1>7. \A w \in UserPage : w[2] # 0 => t.upte[w] \in t.pglist \cup {NoFrame}
  BY <1>3 DEF Local
<1>8. Local(p, t)
  <2>1. /\ \A i, j \in 1..Len(t.pt) : t.pt[i].dir = t.pt[j].dir => i = j
        /\ \A i \in 1..Len(t.pt) : \E w \in Touched[p] : t.pt[i].dir = w[1]
    BY DEF Local
  <2>2. \A g \in t.pglist : \E w \in Touched[p] : t.upte[w] = g /\ HasTable(t, w[1])
    BY <1>6
  <2> QED
    BY <1>7, <2>1, <2>2 DEF Local
<1>9. \A k, v : Holds(t, k, v) <=> Holds(s, k, v)
  BY DEF Holds
<1> QED
  BY <1>8, <1>9

\* The memory s with frame f for page u and page v for its table is t.
Extended(s, u, f, v, t) ==
    /\ t \in Space
    /\ t.pt = <<[dir |-> u[1], page |-> v]>> \o s.pt
    /\ t.base = s.base /\ t.kstack = s.kstack /\ t.pglist = s.pglist \cup {f}
    /\ \A w \in UserPage : /\ w = u => t.upte[w] = f
                           /\ w # u /\ w[1] = u[1] /\ w[2] # 0 => t.upte[w] = NoFrame
                           /\ w # u /\ w[1] # u[1] => t.upte[w] = s.upte[w]

\* A page of p that has no table gets one, page v, and a frame.
LEMMA AddTable ==
    ASSUME NEW p \in Proc, NEW s, Local(p, s), NEW u \in Touched[p],
           ~HasTable(s, u[1]), NEW f \in Frame, NEW v \in Page, NEW t,
           Extended(s, u, f, v, t)
    PROVE  Local(p, t) /\ \A k, w : Holds(t, k, w) <=> Holds(s, k, w) \/ (k = u[1] + 2 /\ w = v)
<1>0. /\ t \in Space /\ t.pt = <<[dir |-> u[1], page |-> v]>> \o s.pt
      /\ t.base = s.base /\ t.kstack = s.kstack /\ t.pglist = s.pglist \cup {f}
      /\ \A w \in UserPage : /\ w = u => t.upte[w] = f
                             /\ w # u /\ w[1] = u[1] /\ w[2] # 0 => t.upte[w] = NoFrame
                             /\ w # u /\ w[1] # u[1] => t.upte[w] = s.upte[w]
  BY DEF Extended
<1> USE <1>0
<1> DEFINE e == [dir |-> u[1], page |-> v]
<1>1. u \in UserPage /\ u[1] \in Nat
  BY Programs
<1>2. e.dir = u[1] /\ e.page = v /\ e \in Table
  BY <1>1 DEF Table
<1>3. s.pt \in Seq(Table) /\ <<e>> \in Seq(Table)
  BY <1>2 DEF Local, Space
<1> HIDE DEF e
<1>4. /\ Len(t.pt) = Len(s.pt) + 1 /\ Len(s.pt) \in Nat /\ t.pt[1] = e
      /\ \A i \in 1..Len(s.pt) : t.pt[i + 1] = s.pt[i]
  <2>1. t.pt = <<e>> \o s.pt
    BY DEF e
  <2>2. Len(<<e>>) = 1 /\ <<e>>[1] = e /\ 1 \in 1..1
    OBVIOUS
  <2>3. Len(t.pt) = Len(s.pt) + 1 /\ Len(s.pt) \in Nat /\ t.pt[1] = e
    BY <1>3, <2>1, <2>2, ConcatFacts
  <2>4. \A i \in 1..Len(s.pt) : t.pt[1 + i] = s.pt[i]
    BY <1>3, <2>1, <2>2, ConcatFacts
  <2> QED
    BY <2>3, <2>4
<1>5. /\ 1 \in 1..Len(t.pt)
      /\ \A i \in 1..Len(t.pt) : i # 1 => i - 1 \in 1..Len(s.pt) /\ t.pt[i] = s.pt[i - 1]
      /\ \A i \in 1..Len(s.pt) : i + 1 \in 1..Len(t.pt) /\ i + 1 # 1 /\ t.pt[i + 1] = s.pt[i]
  <2>1. ASSUME NEW i \in 1..Len(t.pt), i # 1
        PROVE  i - 1 \in 1..Len(s.pt) /\ t.pt[i] = s.pt[i - 1]
    <3>1. i - 1 \in 1..Len(s.pt) /\ (i - 1) + 1 = i
      BY <1>4, <2>1
    <3> QED
      BY <1>4, <3>1
  <2> QED
    BY <1>4, <2>1
<1>6. \A i \in 1..Len(s.pt) : s.pt[i].dir # u[1]
  <2>1. DOMAIN s.pt = 1..Len(s.pt)
    BY <1>3
  <2> QED
    BY <2>1 DEF HasTable
<1>7. \A d : HasTable(t, d) <=> HasTable(s, d) \/ d = u[1]
  <2>1. DOMAIN s.pt = 1..Len(s.pt) /\ DOMAIN t.pt = 1..Len(t.pt)
    <3>1. t.pt \in Seq(Table)
      BY DEF Space
    <3> QED
      BY <1>3, <3>1
  <2> SUFFICES ASSUME NEW d PROVE HasTable(t, d) <=> HasTable(s, d) \/ d = u[1]
    OBVIOUS
  <2>2. ASSUME HasTable(t, d) PROVE HasTable(s, d) \/ d = u[1]
    <3>1. PICK i \in 1..Len(t.pt) : t.pt[i].dir = d
      BY <2>1, <2>2 DEF HasTable
    <3>2. CASE i = 1
      BY <1>2, <1>4, <3>1, <3>2
    <3>3. CASE i # 1
      BY <1>5, <2>1, <3>1, <3>3 DEF HasTable
    <3> QED
      BY <3>2, <3>3
  <2>3. ASSUME HasTable(s, d) PROVE HasTable(t, d)
    <3>1. PICK i \in 1..Len(s.pt) : s.pt[i].dir = d
      BY <2>1, <2>3 DEF HasTable
    <3> QED
      BY <1>5, <2>1, <3>1 DEF HasTable
  <2>4. HasTable(t, u[1])
    BY <1>2, <1>4, <1>5, <2>1 DEF HasTable
  <2> QED
    BY <2>2, <2>3, <2>4
<1>8. ASSUME NEW i \in 1..Len(t.pt), NEW j \in 1..Len(t.pt), t.pt[i].dir = t.pt[j].dir
      PROVE  i = j
  <2>1. CASE i = 1 /\ j = 1
    BY <2>1
  <2>2. CASE i = 1 /\ j # 1
    BY <1>2, <1>4, <1>5, <1>6, <1>8, <2>2
  <2>3. CASE i # 1 /\ j = 1
    BY <1>2, <1>4, <1>5, <1>6, <1>8, <2>3
  <2>4. CASE i # 1 /\ j # 1
    <3>1. i - 1 = j - 1
      <4>1. /\ i - 1 \in 1..Len(s.pt) /\ j - 1 \in 1..Len(s.pt)
            /\ s.pt[i - 1].dir = s.pt[j - 1].dir
        BY <1>5, <1>8, <2>4
      <4>2. \A x, y \in 1..Len(s.pt) : s.pt[x].dir = s.pt[y].dir => x = y
        BY DEF Local
      <4> QED
        BY <4>1, <4>2
    <3> QED
      BY <1>4, <3>1
  <2> QED
    BY <2>1, <2>2, <2>3, <2>4
<1>9. \A i \in 1..Len(t.pt) : \E w \in Touched[p] : t.pt[i].dir = w[1]
  BY <1>2, <1>4, <1>5 DEF Local
<1>10. ASSUME NEW g \in t.pglist
       PROVE  \E w \in Touched[p] : t.upte[w] = g /\ HasTable(t, w[1])
  <2>1. CASE g = f
    BY <1>1, <1>7, <2>1
  <2>2. CASE g # f
    <3>1. PICK w \in Touched[p] : s.upte[w] = g /\ HasTable(s, w[1])
      BY <2>2 DEF Local
    <3>2. w[1] # u[1] /\ w \in UserPage
      BY <3>1, Programs
    <3>3. t.upte[w] = s.upte[w]
      BY <3>2
    <3> QED
      BY <1>7, <3>1, <3>3
  <2> QED
    BY <2>1, <2>2
<1>11. ASSUME NEW w \in UserPage, w[2] # 0
       PROVE  t.upte[w] \in t.pglist \cup {NoFrame}
  <2>1. CASE w = u
    BY <2>1
  <2>2. CASE w # u /\ w[1] = u[1]
    BY <1>11, <2>2
  <2>3. CASE w # u /\ w[1] # u[1]
    BY <1>11, <2>3 DEF Local
  <2> QED
    BY <2>1, <2>2, <2>3
<1>12. Local(p, t)
  BY <1>8, <1>9, <1>10, <1>11 DEF Local
<1>13. ASSUME NEW k, NEW w
       PROVE  Holds(t, k, w) <=> Holds(s, k, w) \/ (k = u[1] + 2 /\ w = v)
  <2>1. ASSUME NEW i \in 1..Len(t.pt), k = t.pt[i].dir + 2 /\ w = t.pt[i].page
        PROVE  Holds(s, k, w) \/ (k = u[1] + 2 /\ w = v)
    <3>1. CASE i = 1
      BY <1>2, <1>4, <2>1, <3>1
    <3>2. CASE i # 1
      BY <1>5, <2>1, <3>2 DEF Holds
    <3> QED
      BY <3>1, <3>2
  <2>2. ASSUME NEW i \in 1..Len(s.pt), k = s.pt[i].dir + 2 /\ w = s.pt[i].page
        PROVE  Holds(t, k, w)
    BY <1>5, <2>2 DEF Holds
  <2>3. k = u[1] + 2 /\ w = v => Holds(t, k, w)
    BY <1>2, <1>4, <1>5 DEF Holds
  <2> QED
    BY <2>1, <2>2, <2>3 DEF Holds
<1> QED
  BY <1>12, <1>13

\* There is a frame for a user page that has none, and still one for the page of
\* its table if it has none either.
LEMMA FaultRoom ==
    ASSUME SpaceInv, EnoughMemory, NEW p \in Proc, NEW u \in Touched[p],
           space[p].upte[u] = NoFrame
    PROVE  LET f == get_page_frame(mem)
               m == set_page_frame_used(mem, f)
               F == Frames(space) \cup {f}
           IN  /\ f \in Frame /\ f \notin Frames(space)
               /\ Backed(m, F) /\ Mapped(m) = Mapped(mem)
               /\ (\A v \in Page : ~Holds(space[p], u[1] + 2, v)) =>
                     /\ Cardinality(Mapped(m)) + 1 < HEAP
                     /\ KERNEL + 1 + Cardinality(Mapped(m)) + Cardinality(F) < RAM
<1> DEFINE f == get_page_frame(mem)
           m == set_page_frame_used(mem, f)
           F == Frames(space) \cup {f}
<1>1. /\ Cardinality(Mapped(mem)) \in Nat
      /\ Cardinality(Mapped(mem)) <= Cardinality(PageNeed)
  BY PagesLeft
<1>2. /\ IsFiniteSet(Frames(space)) /\ Cardinality(Frames(space)) \in Nat
      /\ Cardinality(Frames(space)) < Cardinality(UserNeed)
  BY FramesLeft
<1>3. Cardinality(PageNeed) \in Nat /\ Cardinality(UserNeed) \in Nat
  BY NeedsFinite
<1>4. KERNEL + 1 + Cardinality(Mapped(mem)) + Cardinality(Frames(space)) < RAM
  BY <1>1, <1>2, <1>3, Sizes DEF EnoughMemory
<1>5. Backed(mem, Frames(space))
  BY SpaceFacts
<1>6. f \in Spare \ Frames(space) /\ Backed(m, F) /\ Mapped(m) = Mapped(mem)
  BY <1>4, <1>5, TakeBacked
<1>7. f \in Frame
  BY <1>6, SpareFrames
<1> HIDE DEF f, m
<1>8. Cardinality(F) = Cardinality(Frames(space)) + 1
  BY <1>2, <1>6, FS_AddElement
<1> HIDE DEF F
<1>9. ASSUME \A v \in Page : ~Holds(space[p], u[1] + 2, v)
      PROVE  /\ Cardinality(Mapped(m)) + 1 < HEAP
             /\ KERNEL + 1 + Cardinality(Mapped(m)) + Cardinality(F) < RAM
  <2>1. <<p, u[1] + 2>> \in {<<p, w[1] + 2>> : w \in Touched[p]}
    OBVIOUS
  <2>2. <<p, u[1] + 2>> \in PageNeed
    BY <2>1 DEF PageNeed
  <2>3. u[1] + 2 \in Nat
    BY Programs
  <2>4. Cardinality(Mapped(mem)) < Cardinality(PageNeed)
    BY <1>9, <2>2, <2>3, PagesLeft
  <2>5. Cardinality(Mapped(m)) = Cardinality(Mapped(mem))
    BY <1>6
  <2> QED
    BY <1>1, <1>2, <1>3, <1>8, <2>4, <2>5, Sizes DEF EnoughMemory
<1> QED
  BY <1>6, <1>7, <1>9 DEF f, m, F

\* A page fault gives p a frame, and a page for the table if there is none.
LEMMA FaultInv ==
    ASSUME SpaceInv, EnoughMemory, NEW p \in Proc, NEW u \in Touched[p], isr_PF_exc(p, u)
    PROVE  SpaceInv'
<1> DEFINE f == get_page_frame(mem)
           m == set_page_frame_used(mem, f)
           F == Frames(space) \cup {f}
           s == [space[p] EXCEPT !.pglist = @ \cup {f}]
<1>1. /\ loading' = loading /\ dying' = dying /\ image' = image
      /\ Runs(p) /\ space[p].upte[u] = NoFrame /\ image # "notelf"
  BY DEF isr_PF_exc, Copies
<1>2. pd_add_page(p, u, f)
  BY DEF isr_PF_exc
<1>3. /\ f \in Frame /\ f \notin Frames(space)
      /\ Backed(m, F) /\ Mapped(m) = Mapped(mem)
      /\ (\A v \in Page : ~Holds(space[p], u[1] + 2, v)) =>
            /\ Cardinality(Mapped(m)) + 1 < HEAP
            /\ KERNEL + 1 + Cardinality(Mapped(m)) + Cardinality(F) < RAM
  BY <1>1, FaultRoom
<1>4. /\ space[p] \in Space /\ Local(p, space[p]) /\ DOMAIN space = Proc
      /\ Phase(p, space[p], loading, dying, image) /\ Disjoint(space)
      /\ OwnInv(space, Mapped(mem))
  BY SpaceFacts
<1>5. p # dying /\ (space[p].live \/ p = loading)
  BY <1>1, SpaceFacts DEF Runs, Idle
<1>6. u \in UserPage /\ u[1] \in Nat
  BY Programs
<1>7. \/ /\ HasTable(s, u[1])
         /\ space' = [space EXCEPT ![p] = [s EXCEPT !.upte[u] = f]]
         /\ mem' = m
      \/ /\ ~HasTable(s, u[1])
         /\ \E g \in Garbage \cup {NoFrame} :
               space' = [space EXCEPT ![p] = [NewTable(s, u, FirstPage(m), g) EXCEPT !.upte[u] = f]]
         /\ mem' = get_page_from_heap(m)
  BY <1>2 DEF pd_add_page
<1> HIDE DEF f, m
<1>8. /\ s \in Space /\ s.live = space[p].live /\ s.base = space[p].base
      /\ s.kstack = space[p].kstack /\ s.pt = space[p].pt /\ s.upte = space[p].upte
      /\ s.pglist = space[p].pglist \cup {f}
  BY <1>3, <1>4 DEF Space
<1>9. \A d : HasTable(s, d) <=> HasTable(space[p], d)
  BY <1>8 DEF HasTable
<1> HIDE DEF s, F
\* What both cases have in common.
<1>10. ASSUME NEW t, Local(p, t), t.live = space[p].live, t.base = space[p].base,
              t.kstack = space[p].kstack, t.pglist = space[p].pglist \cup {f},
              space' = [space EXCEPT ![p] = t],
              OwnInv(space', Mapped(mem')), Backed(mem', F)
       PROVE  SpaceInv'
  <2>1. Phase(p, t, loading', dying', image')
    BY <1>1, <1>4, <1>5, <1>10 DEF Phase
  <2>2. Disjoint(space') /\ Frames(space') = F
    <3>1. Gains(space, p, t, f)
      BY <1>3, <1>4, <1>10 DEF Gains
    <3>2. LET e == [space EXCEPT ![p] = t]
          IN  Disjoint(e) /\ Frames(e) = Frames(space) \cup {f}
      BY <3>1, FramesAdd
    <3> QED
      BY <1>10, <3>2 DEF F
  <2> QED
    BY <1>1, <1>10, <2>1, <2>2, SpaceFacts, SpaceStep
<1>11. CASE /\ HasTable(s, u[1])
            /\ space' = [space EXCEPT ![p] = [s EXCEPT !.upte[u] = f]]
            /\ mem' = m
  <2> DEFINE t == [s EXCEPT !.upte[u] = f]
  <2>1. /\ t \in Space /\ t.live = space[p].live /\ t.base = space[p].base
        /\ t.kstack = space[p].kstack /\ t.pt = space[p].pt
        /\ t.upte = [space[p].upte EXCEPT ![u] = f] /\ t.pglist = space[p].pglist \cup {f}
    BY <1>3, <1>6, <1>8 DEF Space
  <2> HIDE DEF t
  <2>2. HasTable(space[p], u[1])
    BY <1>9, <1>11
  <2>3. Local(p, t) /\ \A k, v : Holds(t, k, v) <=> Holds(space[p], k, v)
    BY <1>1, <1>3, <1>4, <2>1, <2>2, AddToTable
  <2>4. OwnInv([space EXCEPT ![p] = t], Mapped(mem))
    BY <1>4, <2>3, OwnSame
  <2>5. OwnInv(space', Mapped(mem')) /\ Backed(mem', F) /\ space' = [space EXCEPT ![p] = t]
    BY <1>3, <1>11, <2>4 DEF t
  <2> QED
    BY <1>10, <2>1, <2>3, <2>5
<1>12. CASE /\ ~HasTable(s, u[1])
            /\ \E g \in Garbage \cup {NoFrame} :
                  space' = [space EXCEPT ![p] = [NewTable(s, u, FirstPage(m), g) EXCEPT !.upte[u] = f]]
            /\ mem' = get_page_from_heap(m)
  <2>1. PICK g \in Garbage \cup {NoFrame} :
           space' = [space EXCEPT ![p] = [NewTable(s, u, FirstPage(m), g) EXCEPT !.upte[u] = f]]
    BY <1>12
  <2> DEFINE v == FirstPage(m)
             t == [NewTable(s, u, v, g) EXCEPT !.upte[u] = f]
             e == [dir |-> u[1], page |-> v]
  <2>2. ~HasTable(space[p], u[1])
    BY <1>9, <1>12
  <2>3. \A w : ~Holds(space[p], u[1] + 2, w)
    <3>1. space[p].pt \in Seq(Table)
      BY <1>4 DEF Space
    <3>2. DOMAIN space[p].pt = 1..Len(space[p].pt)
      BY <3>1
    <3>3. \A i \in 1..Len(space[p].pt) : space[p].pt[i].dir \in Nat
      BY <3>1, TableFields
    <3>4. \A i \in 1..Len(space[p].pt) : space[p].pt[i].dir # u[1]
      BY <2>2, <3>2 DEF HasTable
    <3>5. \A i \in 1..Len(space[p].pt) : u[1] + 2 # space[p].pt[i].dir + 2
      BY <1>6, <3>3, <3>4
    <3>6. u[1] + 2 # 0 /\ u[1] + 2 # 1
      BY <1>6
    <3> QED
      BY <3>5, <3>6 DEF Holds
  <2>4. /\ Cardinality(Mapped(m)) + 1 < HEAP
        /\ KERNEL + 1 + Cardinality(Mapped(m)) + Cardinality(F) < RAM
    BY <1>3, <2>3
  <2>5. Sound(m)
    BY <1>3 DEF Backed
  <2>6. v \in Page \ Mapped(m) /\ Mapped(get_page_from_heap(m)) = Mapped(m) \cup {v}
    BY <2>4, <2>5, GetSound
  <2>7. Backed(get_page_from_heap(m), F)
    BY <1>3, <2>4, GetBacked
  <2>8. e \in Table /\ <<e>> \o space[p].pt \in Seq(Table)
    <3>1. e \in Table
      BY <1>6, <2>6 DEF Table
    <3>2. space[p].pt \in Seq(Table)
      BY <1>4 DEF Space
    <3> HIDE DEF e
    <3> QED
      BY <3>1, <3>2
  <2>9. g \in Frame \cup {NoFrame}
    BY Programs
  <2> DEFINE U == [w \in UserPage |-> IF w = u THEN f
                                      ELSE IF w[1] = u[1]
                                      THEN IF w[2] = 0 THEN g ELSE NoFrame
                                      ELSE space[p].upte[w]]
  <2>10. U \in [UserPage -> Frame \cup {NoFrame}]
    <3>1. space[p].upte \in [UserPage -> Frame \cup {NoFrame}]
      BY <1>4 DEF Space
    <3> QED
      BY <1>3, <2>9, <3>1
  <2>11. /\ t.live = space[p].live /\ t.base = space[p].base /\ t.kstack = space[p].kstack
         /\ t.pt = <<e>> \o space[p].pt /\ t.upte = U /\ t.pglist = space[p].pglist \cup {f}
         /\ t = [live |-> t.live, base |-> t.base, kstack |-> t.kstack, pt |-> t.pt,
                 upte |-> t.upte, pglist |-> t.pglist]
    <3> DEFINE V == [w \in UserPage |-> IF w[1] = u[1]
                                          THEN IF w[2] = 0 THEN g ELSE NoFrame
                                          ELSE s.upte[w]]
               r == [s EXCEPT !.pt = <<e>> \o @, !.upte = V]
    <3>1. NewTable(s, u, v, g) = r
      BY <1>8 DEF NewTable, Space
    <3>2. [V EXCEPT ![u] = f] = U
      BY <1>8
    <3> DEFINE A == <<e>> \o s.pt
    <3> HIDE DEF V, U, A
    <3>3. t = [[s EXCEPT !.pt = A, !.upte = V] EXCEPT !.upte[u] = f]
      BY <3>1 DEF A
    <3> HIDE DEF t
    <3>4. t = [live |-> s.live, base |-> s.base, kstack |-> s.kstack, pt |-> A,
               upte |-> U, pglist |-> s.pglist]
      BY <1>8, <3>2, <3>3 DEF Space
    <3> QED
      BY <1>8, <3>4 DEF A
  <2>12. t \in Space
    <3> HIDE DEF t, e, U
    <3>1. /\ space[p].live \in BOOLEAN /\ space[p].base \in SUBSET Page
          /\ space[p].kstack \in SUBSET Page /\ space[p].pglist \cup {f} \in SUBSET Frame
      BY <1>3, <1>4 DEF Space
    <3> QED
      BY <2>8, <2>10, <2>11, <3>1 DEF Space
  <2>13. \A w \in UserPage : /\ w = u => U[w] = f
                             /\ w # u /\ w[1] = u[1] /\ w[2] # 0 => U[w] = NoFrame
                             /\ w # u /\ w[1] # u[1] => U[w] = space[p].upte[w]
    OBVIOUS
  <2> HIDE DEF t, U, v, e
  <2>14. /\ Local(p, t)
         /\ \A k, w : Holds(t, k, w) <=> Holds(space[p], k, w) \/ (k = u[1] + 2 /\ w = v)
    <3>1. /\ t.pt = <<[dir |-> u[1], page |-> v]>> \o space[p].pt
          /\ t.base = space[p].base /\ t.kstack = space[p].kstack
          /\ t.pglist = space[p].pglist \cup {f}
      BY <2>11 DEF e
    <3>2. \A w \in UserPage : /\ w = u => t.upte[w] = f
                              /\ w # u /\ w[1] = u[1] /\ w[2] # 0 => t.upte[w] = NoFrame
                              /\ w # u /\ w[1] # u[1] => t.upte[w] = space[p].upte[w]
      BY <2>11, <2>13
    <3>3. Local(p, space[p]) /\ f \in Frame /\ v \in Page /\ ~HasTable(space[p], u[1])
      BY <1>3, <1>4, <2>2, <2>6
    <3>4. Extended(space[p], u, f, v, t)
      BY <2>12, <3>1, <3>2 DEF Extended
    <3> QED
      BY <3>3, <3>4, AddTable
  <2>15. OwnInv([space EXCEPT ![p] = t], Mapped(mem) \cup {v})
    <3>1. u[1] + 2 \in Nat /\ v \in Page /\ v \notin Mapped(mem)
      BY <1>3, <1>6, <2>6
    <3> QED
      BY <1>4, <2>14, <3>1, OwnAdd
  <2>16. OwnInv(space', Mapped(mem')) /\ Backed(mem', F) /\ space' = [space EXCEPT ![p] = t]
    BY <1>3, <1>12, <2>1, <2>6, <2>7, <2>15 DEF t, v
  <2> QED
    BY <1>10, <2>11, <2>14, <2>16
<1> QED
  BY <1>7, <1>11, <1>12
-----------------------------------------------------------------------------

\* The initial states: nobody has anything.
LEMMA SpaceInit ==
    ASSUME Init
    PROVE  SpaceInv
<1>1. /\ mem = init_mm /\ loading = Nobody /\ image = "elf" /\ dying = Nobody
      /\ space = [p \in Proc |-> NoSpace]
  BY DEF Init
<1>2. \A p \in Proc : space[p] = NoSpace
  BY <1>1
<1>3. \A p \in Proc : p # Nobody
  BY Programs
<1>4. NoSpace.pglist = {} /\ NoSpace.kstack = {} /\ NoSpace.live = FALSE
  BY DEF NoSpace
<1>5. \A p \in Proc : Local(p, space[p]) /\ Phase(p, space[p], loading, dying, image)
  <2> SUFFICES ASSUME NEW p \in Proc
               PROVE  Local(p, NoSpace) /\ Phase(p, NoSpace, Nobody, Nobody, "elf")
    BY <1>1, <1>2
  <2> QED
    BY <1>3, <1>4, NoSpaceFacts DEF Phase
<1>6. space \in [Proc -> Space]
  <2>1. \A p \in Proc : NoSpace \in Space
    BY NoSpaceFacts DEF Local
  <2> QED
    BY <1>1, <2>1
<1>7. \A p \in Proc, k \in Nat, v \in Page : ~Holds(space[p], k, v)
  BY <1>2, NoSpaceFacts
<1>8. Mapped(mem) = {}
  BY <1>1, InitSound
<1>9. OwnInv(space, Mapped(mem))
  BY <1>7, <1>8 DEF OwnInv
<1>10. Disjoint(space) /\ Frames(space) = {}
  <2>1. \A p \in Proc : space[p].pglist = {}
    BY <1>2, <1>4
  <2> QED
    BY <2>1 DEF Disjoint, Frames
<1>11. Backed(mem, Frames(space))
  BY <1>1, <1>10, InitBacked
<1> QED
  BY <1>1, <1>5, <1>6, <1>9, <1>10, <1>11 DEF SpaceInv

\* Every step keeps the invariant.
LEMMA SpaceNext ==
    ASSUME "badsegment" \notin Images, EnoughMemory, SpaceInv, [Next]_vars
    PROVE  SpaceInv'
<1>1. ASSUME NEW p \in Proc, NEW i \in Images, LoadBegin(p, i) PROVE SpaceInv'
  <2>1. i # "badsegment"
    OBVIOUS
  <2> QED
    BY <1>1, <2>1, LoadBeginInv
<1>2. ASSUME NEW p \in Proc, NEW u \in Touched[p], isr_PF_exc(p, u) PROVE SpaceInv'
  BY <1>2, FaultInv
<1>3. ASSUME NEW p \in Proc, LoadFail(p) PROVE SpaceInv'
  BY <1>3, LoadFailInv
<1>4. ASSUME NEW p \in Proc, LoadEnd(p) PROVE SpaceInv'
  BY <1>4, LoadEndInv
<1>5. ASSUME NEW p \in Proc, sys_exit(p) PROVE SpaceInv'
  BY <1>5, ExitInv
<1>6. ASSUME NEW p \in Proc, pd_destroy_table(p) PROVE SpaceInv'
  BY <1>6, DestroyTableInv
<1>7. ASSUME NEW p \in Proc, pd_destroy(p) PROVE SpaceInv'
  BY <1>7, DestroyInv
<1>8. CASE UNCHANGED vars
  <2>1. /\ mem' = mem /\ loading' = loading /\ image' = image
        /\ dying' = dying /\ space' = space
    BY <1>8 DEF vars
  <2> QED
    BY <2>1 DEF SpaceInv, Local, HasTable, Phase, OwnInv, Holds, Mapped, Disjoint, Backed,
                Sound, Backing, Frames, Apart, Has
<1> QED
  BY <1>1, <1>2, <1>3, <1>4, <1>5, <1>6, <1>7, <1>8 DEF Next

\* The inductive invariant holds after any history of execs, page faults and
\* exits, of any number of processes, if the files that exec() refuses are
\* refused before a segment is copied and the machine has the memory the
\* programs need.
THEOREM SpaceCorrect ==
    ASSUME "badsegment" \notin Images, EnoughMemory
    PROVE  Spec => []SpaceInv
<1>1. Init => SpaceInv
  BY SpaceInit
<1>2. SpaceInv /\ [Next]_vars => SpaceInv'
  BY SpaceNext
<1> QED
  BY <1>1, <1>2, PTL DEF Spec

\* The entries of the kernel's half are exactly the frames of the mapped pages.
LEMMA BackingIsRange ==
    ASSUME NEW m, Sound(m)
    PROVE  Range(m.kpte) \ {NoFrame} = Backing(m) /\ DOMAIN m.kpte = Page
<1>1. DOMAIN m.kpte = Page
  BY DEF Sound, Memory
<1> QED
  BY <1>1 DEF Range, Backing, Mapped

\* No frame is lost, and none is free that somebody has: mem_bitmap marks what
\* the machine, the kernel heap, the page heap and the page lists have.
THEOREM AccountedCorrect ==
    ASSUME "badsegment" \notin Images, EnoughMemory
    PROVE  Spec => []FramesAccounted
<1>1. ASSUME SpaceInv PROVE FramesAccounted
  <2>1. Backed(mem, Frames(space)) /\ Sound(mem)
    BY <1>1, SpaceFacts DEF Backed
  <2>2. /\ mem.kheap = {KERNEL}
        /\ mem.used = 0..KERNEL \cup RAM..(MAXPAGE - 1) \cup Frames(space) \cup Backing(mem)
    BY <2>1 DEF Backed
  <2>3. 0..KERNEL = 0..(KERNEL - 1) \cup {KERNEL}
    BY Sizes
  <2>4. Range(mem.kpte) \ {NoFrame} = Backing(mem)
    BY <2>1, BackingIsRange
  <2>5. mem.used = 0..(KERNEL - 1) \cup RAM..(MAXPAGE - 1) \cup mem.kheap
                     \cup Backing(mem) \cup Frames(space)
    BY <2>2, <2>3
  <2> QED
    BY <2>4, <2>5 DEF FramesAccounted, Frames
<1>2. SpaceInv => FramesAccounted
  BY <1>1
<1> QED
  BY <1>2, SpaceCorrect, PTL

\* No frame has two owners: it is in one page list, or backs one page of the
\* kernel, or is the kernel's own.
THEOREM NotSharedCorrect ==
    ASSUME "badsegment" \notin Images, EnoughMemory
    PROVE  Spec => []FramesNotShared
<1>1. ASSUME SpaceInv PROVE FramesNotShared
  <2>1. Backed(mem, Frames(space)) /\ Sound(mem) /\ Disjoint(space)
    BY <1>1, SpaceFacts DEF Backed
  <2>2. /\ mem.kheap = {KERNEL} /\ Frames(space) \subseteq Spare
        /\ \A v \in Mapped(mem) : mem.kpte[v] \in Spare \ Frames(space)
        /\ \A v, w \in Mapped(mem) : mem.kpte[v] = mem.kpte[w] => v = w
    BY <2>1 DEF Backed
  <2>3. Range(mem.kpte) \ {NoFrame} = Backing(mem)
    BY <2>1, BackingIsRange
  <2>4. Backing(mem) \subseteq Spare \ Frames(space)
    BY <2>2 DEF Backing
  <2>5. NoFrame \notin Spare /\ KERNEL \notin Spare /\ NoFrame # KERNEL
    BY SpareFrames, Sizes DEF NoFrame
  <2>6. Spare \cap 0..(KERNEL - 1) = {}
    BY Sizes DEF Spare
  <2>7. ASSUME NEW p \in Proc
        PROVE  space[p].pglist \cap (0..(KERNEL - 1) \cup mem.kheap \cup Range(mem.kpte)) = {}
    <3>1. space[p].pglist \subseteq Frames(space)
      BY DEF Frames
    <3> QED
      BY <2>2, <2>3, <2>4, <2>5, <2>6, <3>1
  <2>8. mem.kheap \cap Range(mem.kpte) = {}
    BY <2>2, <2>3, <2>4, <2>5
  <2>9. \A v, w \in Page : (mem.kpte[v] = mem.kpte[w] /\ mem.kpte[v] # NoFrame) => v = w
    BY <2>2 DEF Mapped
  <2> QED
    BY <2>1, <2>7, <2>8, <2>9 DEF FramesNotShared, Disjoint
<1>2. SpaceInv => FramesNotShared
  BY <1>1
<1> QED
  BY <1>2, SpaceCorrect, PTL

\* The list of free pages is exact, and a page is mapped if and only if it is the
\* directory, a table or the kernel stack of a process: exit gives back all of
\* them and no other.
THEOREM HeldCorrect ==
    ASSUME "badsegment" \notin Images, EnoughMemory
    PROVE  Spec => []PagesHeld
<1>1. ASSUME SpaceInv PROVE PagesHeld
  <2>1. Sound(mem) /\ OwnInv(space, Mapped(mem))
    BY <1>1, SpaceFacts DEF Backed
  <2>2. HeapListExact(mem)
    BY <2>1, SoundExact
  <2>3. ASSUME NEW p \in Proc
        PROVE  \A v : v \in HeapPages(p) <=> v \in Page /\ \E k \in Nat : Holds(space[p], k, v)
    <3>1. /\ Local(p, space[p]) /\ Phase(p, space[p], loading, dying, image)
          /\ space[p].pt \in Seq(Table)
      BY <1>1, SpaceFacts DEF Space
    <3>2. Range(space[p].pt) = {space[p].pt[i] : i \in 1..Len(space[p].pt)}
      BY <3>1 DEF Range
    <3>3. \A v : v \in HeapPages(p) <=> \/ v \in space[p].base \/ v \in space[p].kstack
                                        \/ \E i \in 1..Len(space[p].pt) : v = space[p].pt[i].page
      BY <3>2 DEF HeapPages
    <3>4. \A v : v \in HeapPages(p) => \E k : Holds(space[p], k, v)
      BY <3>3 DEF Holds
    <3>5. \A v, k : Holds(space[p], k, v) => v \in HeapPages(p)
      BY <3>3 DEF Holds
    <3>6. \A v, k : Holds(space[p], k, v) => v \in Page /\ k \in Nat
      BY <3>1, HoldsFacts
    <3> QED
      BY <3>4, <3>5, <3>6
  <2>4. ASSUME NEW v
        PROVE  v \in Mapped(mem) <=> v \in UNION {HeapPages(p) : p \in Proc}
    <3>1. v \in Mapped(mem) => v \in Page
      BY DEF Mapped
    <3>2. v \in Page => (v \in Mapped(mem) <=> \E p \in Proc, k \in Nat : Holds(space[p], k, v))
      BY <2>1 DEF OwnInv
    <3> QED
      BY <2>3, <3>1, <3>2
  <2>5. Mapped(mem) = UNION {HeapPages(p) : p \in Proc}
    BY <2>4
  <2> QED
    BY <2>2, <2>5 DEF PagesHeld, Mapped
<1>2. SpaceInv => PagesHeld
  BY <1>1
<1> QED
  BY <1>2, SpaceCorrect, PTL

\* A process translates no address to a frame that is not in its own page list,
\* the first entry of a table apart.
THEOREM OwnFramesCorrect ==
    ASSUME "badsegment" \notin Images, EnoughMemory
    PROVE  Spec => []OnlyOwnFrames
<1>1. SpaceInv => OnlyOwnFrames
  BY SpaceFacts DEF Local, OnlyOwnFrames
<1> QED
  BY <1>1, SpaceCorrect, PTL

=============================================================================
