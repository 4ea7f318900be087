--------------------------- MODULE KmallocProofs ---------------------------
(***************************************************************************)
(* Theorems about the heap of the kernel, for every size of heap, page,    *)
(* header and block, when no call is preempted inside of kmalloc() or      *)
(* kfree(): the chunks tile the heap and the used ones are the blocks.     *)
(***************************************************************************)
EXTENDS Kmalloc, TLAPS

Header == [size : 0..LIMIT, used : BOOLEAN]
Call == [pc : {"run", "search", "found", "merge", "join"}, at : Addr, n : Nat]
Block == [at : Addr, n : Nat]

TypeOK ==
    /\ hdr \in [Addr -> Header]
    /\ kern_heap \in PAGESIZE..LIMIT
    /\ live \subseteq Block
    /\ call \in [Callers -> Call]

\* One caller at a time is inside of a call.
OneCaller == \A p, q \in Callers : p # q => call[p].pc = "run" \/ call[q].pc = "run"

\* Where a caller is: at the chunk it looks at, has chosen or frees.
Sound(c) ==
    /\ c.pc = "run" => c.at = 0
    /\ c.pc # "run" => c.at \in Chunks
    /\ c.pc \in {"search", "found"} => c.n >= MINSIZE
    /\ c.pc = "found" => Fits(hdr, c.at, c.n)
    /\ c.pc \in {"merge", "join"} => ~hdr[c.at].used
    /\ c.pc = "join" => Mergeable(hdr, kern_heap, c.at)

CallsSound == \A p \in Callers : Sound(call[p])

HeapInv == TypeOK /\ OneCaller /\ CallsSound /\ HeapTiled /\ BlocksExact

-----------------------------------------------------------------------------
\* The constants are numbers in the order of the code's.
LEMMA ConstantFacts ==
    /\ HEADER \in Nat /\ HEADER > 0
    /\ MINSIZE \in Nat /\ MINSIZE > 0
    /\ PAGESIZE \in Nat /\ PAGESIZE > 0
    /\ LIMIT \in Nat /\ WORD \in Nat
    /\ MINSIZE <= PAGESIZE /\ PAGESIZE <= LIMIT /\ LIMIT < WORD
BY KmallocAssumption

\* ksbrk() makes the heap longer by at least a page.
LEMMA PagesFacts ==
    ASSUME NEW n \in Nat
    PROVE  Pages(n) \in Nat /\ Pages(n) >= PAGESIZE
<1>1. PAGESIZE \in Nat /\ PAGESIZE > 0
  BY ConstantFacts
<1>2. n \div PAGESIZE \in Nat
  BY <1>1
<1>3. PICK k \in Nat : k = n \div PAGESIZE
  BY <1>2
<1>4. PAGESIZE * (k + 1) \in Nat /\ PAGESIZE * (k + 1) >= PAGESIZE
  BY <1>1
<1> QED
  BY <1>3, <1>4 DEF Pages

\* realsize is at least KMALLOC_MINSIZE.
LEMMA RealFacts ==
    ASSUME NEW size \in Nat
    PROVE  Real(size) \in Nat /\ Real(size) >= MINSIZE
BY ConstantFacts DEF Real

\* What TypeOK says of one header.
LEMMA HeaderFacts ==
    ASSUME TypeOK, NEW a \in Addr
    PROVE  hdr[a].size \in 0..LIMIT /\ hdr[a].used \in BOOLEAN
BY DEF TypeOK, Header

\* The chunk behind another one is a chunk, and it begins behind it.
LEMMA NextFacts ==
    ASSUME TypeOK, HeapTiled, NEW a \in Chunks
    PROVE  /\ a \in Addr /\ hdr[a].size \in 0..LIMIT /\ hdr[a].size >= MINSIZE
           /\ a + hdr[a].size \in Nat /\ a + hdr[a].size > a
           /\ a + hdr[a].size <= kern_heap /\ kern_heap \in Nat
           /\ a + hdr[a].size < kern_heap => a + hdr[a].size \in Chunks
<1>1. a \in Addr /\ a \in Nat
  BY ConstantFacts DEF Chunks, Addr
<1>2. hdr[a].size \in 0..LIMIT /\ hdr[a].size \in Nat
  BY <1>1, HeaderFacts, ConstantFacts
<1>3. kern_heap \in Nat
  BY ConstantFacts DEF TypeOK
<1> QED
  BY <1>1, <1>2, <1>3, ConstantFacts DEF HeapTiled

-----------------------------------------------------------------------------
\* A change of the headers, as the lemmas below use it: the sizes and marks
\* of all chunks but those named are as before.
Kept(As) == \A b \in Addr \ As : hdr'[b] = hdr[b]

\* ksbrk(): the new chunk lies between the old and the new end of the heap.
LEMMA GrowTiled ==
    ASSUME TypeOK, HeapTiled, NEW n \in Nat, kern_heap + Pages(n) <= LIMIT,
           hdr' = ksbrk(hdr, kern_heap, n), kern_heap' = kern_heap + Pages(n)
    PROVE  /\ hdr' \in [Addr -> Header] /\ kern_heap' \in PAGESIZE..LIMIT
           /\ kern_heap \in Addr \ Chunks /\ Kept({kern_heap})
           /\ hdr'[kern_heap] = [size |-> Pages(n), used |-> FALSE]
           /\ Chunks' = Chunks \cup {kern_heap}
           /\ HeapTiled'
<1> DEFINE w == Pages(n)
<1>1. w \in Nat /\ w >= PAGESIZE /\ w >= MINSIZE /\ w > 0 /\ w <= LIMIT
  BY PagesFacts, ConstantFacts DEF TypeOK
<1>2. kern_heap \in Nat /\ kern_heap >= PAGESIZE /\ kern_heap' \in Nat
  BY <1>1, ConstantFacts DEF TypeOK
<1>3. kern_heap \in Addr
  BY <1>1, <1>2, ConstantFacts DEF Addr
<1>4. hdr' = [hdr EXCEPT ![kern_heap] = [size |-> w, used |-> FALSE]]
  BY DEF ksbrk
<1>5. [size |-> w, used |-> FALSE] \in Header
  BY <1>1, ConstantFacts DEF Header
<1> HIDE DEF w
<1>6. hdr' \in [Addr -> Header]
  BY <1>3, <1>4, <1>5 DEF TypeOK
<1>7. /\ hdr'[kern_heap] = [size |-> w, used |-> FALSE]
      /\ \A b \in Addr \ {kern_heap} : hdr'[b] = hdr[b]
  BY <1>3, <1>4 DEF TypeOK
<1>8. kern_heap \notin Chunks
  <2>1. \A a \in Chunks : a + hdr[a].size > a /\ a + hdr[a].size <= kern_heap /\ hdr[a].size \in Nat
    BY NextFacts, ConstantFacts
  <2> QED
    BY <2>1, <1>2
<1>9. Chunks' = Chunks \cup {kern_heap}
  <2>1. hdr'[kern_heap].size > 0
    BY <1>1, <1>7
  <2> QED
    BY <1>3, <1>7, <2>1 DEF Chunks
<1>10. \A a \in Chunks : /\ a \in Nat /\ a # kern_heap /\ hdr'[a].size = hdr[a].size
                         /\ hdr[a].size \in Nat /\ hdr[a].size >= MINSIZE
                         /\ a + hdr[a].size <= kern_heap
                         /\ a + hdr[a].size < kern_heap => a + hdr[a].size \in Chunks
  BY <1>7, <1>8, NextFacts DEF Addr, Chunks
<1>11. kern_heap' = kern_heap + w
  BY DEF w
<1>12. HeapTiled'
  <2>1. 0 \in Chunks'
    BY <1>9 DEF HeapTiled
  <2>2. ASSUME NEW a \in Chunks'
        PROVE  /\ hdr'[a].size >= MINSIZE
               /\ a + hdr'[a].size <= kern_heap'
               /\ a + hdr'[a].size < kern_heap' => a + hdr'[a].size \in Chunks'
    <3>1. CASE a = kern_heap
      BY <3>1, <1>1, <1>2, <1>7, <1>11
    <3>2. CASE a \in Chunks
      <4>1. a + hdr'[a].size <= kern_heap /\ a + hdr'[a].size \in Nat /\ hdr'[a].size >= MINSIZE
        BY <3>2, <1>10
      <4>2. a + hdr'[a].size = kern_heap \/ a + hdr'[a].size \in Chunks
        BY <3>2, <4>1, <1>10, <1>2
      <4> QED
        BY <4>1, <4>2, <1>1, <1>2, <1>9, <1>11
    <3> QED
      BY <3>1, <3>2, <1>9
  <2>3. ASSUME NEW a \in Chunks', NEW b \in Chunks', a < b
        PROVE  a + hdr'[a].size <= b
    <3>1. a # kern_heap
      BY <2>3, <1>2, <1>9, <1>10
    <3>2. a \in Chunks
      BY <3>1, <1>9
    <3>3. CASE b = kern_heap
      BY <3>2, <3>3, <1>10
    <3>4. CASE b \in Chunks
      BY <2>3, <3>2, <3>4, <1>10 DEF HeapTiled
    <3> QED
      BY <3>3, <3>4, <1>9
  <2> QED
    BY <2>1, <2>2, <2>3 DEF HeapTiled
<1> QED
  BY <1>1, <1>2, <1>3, <1>6, <1>7, <1>8, <1>9, <1>11, <1>12, ConstantFacts DEF Kept, w

\* The mark of a chunk does not change the tiling.
LEMMA MarkTiled ==
    ASSUME TypeOK, HeapTiled, NEW a \in Chunks, NEW u \in BOOLEAN,
           hdr' = [hdr EXCEPT ![a].used = u], UNCHANGED kern_heap
    PROVE  /\ hdr' \in [Addr -> Header]
           /\ Kept({a}) /\ hdr'[a] = [size |-> hdr[a].size, used |-> u]
           /\ Chunks' = Chunks
           /\ HeapTiled'
<1>1. a \in Addr /\ hdr[a] \in Header
  BY DEF TypeOK, Chunks
<1>2. [hdr[a] EXCEPT !.used = u] = [size |-> hdr[a].size, used |-> u]
  BY <1>1 DEF Header
<1>3. [size |-> hdr[a].size, used |-> u] \in Header
  BY <1>1 DEF Header
<1>4. hdr' = [hdr EXCEPT ![a] = [size |-> hdr[a].size, used |-> u]]
  BY <1>2
<1>5. hdr' \in [Addr -> Header]
  BY <1>1, <1>3, <1>4 DEF TypeOK
<1>6. hdr'[a] = [size |-> hdr[a].size, used |-> u] /\ Kept({a})
  BY <1>1, <1>4 DEF TypeOK, Kept
<1>7. \A b \in Addr : hdr'[b].size = hdr[b].size
  BY <1>6 DEF Kept
<1>8. Chunks' = Chunks
  BY <1>7 DEF Chunks
<1>9. HeapTiled'
  BY <1>7, <1>8 DEF HeapTiled, Chunks
<1> QED
  BY <1>5, <1>6, <1>8, <1>9

\* No remainder is taken of a number that fits.
LEMMA SmallMod ==
    ASSUME NEW v \in Nat, NEW m \in Nat, v < m
    PROVE  v % m = v
OBVIOUS

\* A chunk is split: the two parts take its place.
LEMMA SplitTiled ==
    ASSUME TypeOK, HeapTiled, NEW a \in Chunks, NEW n \in Nat,
           n >= MINSIZE, hdr[a].size >= n,
           ~((hdr[a].size - n) % WORD < MINSIZE), hdr' = Take(hdr, a, n), UNCHANGED kern_heap
    PROVE  /\ hdr' \in [Addr -> Header]
           /\ a + n \in Addr \ Chunks /\ Kept({a, a + n})
           /\ hdr'[a] = [size |-> n, used |-> TRUE] /\ ~hdr'[a + n].used
           /\ Chunks' = Chunks \cup {a + n}
           /\ HeapTiled'
<1> DEFINE s == hdr[a].size
           r == hdr[a].size - n
           c == a + n
<1>1. /\ a \in Addr /\ a \in Nat /\ s \in Nat /\ s <= LIMIT /\ a + s <= kern_heap
      /\ kern_heap \in Nat /\ kern_heap <= LIMIT
      /\ a + s < kern_heap => a + s \in Chunks
  BY NextFacts, ConstantFacts DEF Addr, TypeOK
<1>2. r \in Nat /\ r >= MINSIZE /\ r > 0 /\ n > 0 /\ n < s /\ r <= LIMIT /\ n <= LIMIT /\ s = n + r
  <2>1. r \in Nat /\ r <= LIMIT /\ s = n + r
    BY <1>1, ConstantFacts
  <2>2. r % WORD = r
    BY <2>1, SmallMod, ConstantFacts
  <2> QED
    BY <1>1, <2>1, <2>2, ConstantFacts
<1>3. c \in Nat /\ c > a /\ c < a + s /\ c + r = a + s /\ c \in Addr
  BY <1>1, <1>2, ConstantFacts DEF Addr
<1>4. [size |-> n, used |-> TRUE] \in Header /\ [size |-> r, used |-> FALSE] \in Header
  BY <1>2, ConstantFacts DEF Header
<1>5. hdr' = [hdr EXCEPT ![a] = [size |-> n, used |-> TRUE], ![c] = [size |-> r, used |-> FALSE]]
  <2>1. r % WORD = r
    BY <1>2, SmallMod, ConstantFacts
  <2> QED
    BY <2>1 DEF Take
<1>6. \A b \in Chunks : b \in Nat /\ b \in Addr /\ hdr[b].size \in Nat
  BY NextFacts, ConstantFacts DEF Addr
<1>7. \A b \in Chunks : a < b => a + s <= b
  BY DEF HeapTiled
<1>8. \A b \in Chunks : b < a => b + hdr[b].size <= a
  BY DEF HeapTiled
<1> HIDE DEF s, r, c
<1>9. c \notin Chunks
  BY <1>1, <1>3, <1>6, <1>7
<1>10. hdr' \in [Addr -> Header]
  BY <1>1, <1>3, <1>4, <1>5 DEF TypeOK
<1>11. /\ hdr'[a] = [size |-> n, used |-> TRUE] /\ hdr'[c] = [size |-> r, used |-> FALSE]
       /\ \A b \in Addr \ {a, c} : hdr'[b] = hdr[b]
  <2>1. a \in Addr /\ c \in Addr /\ a # c /\ hdr \in [Addr -> Header]
    BY <1>1, <1>3 DEF TypeOK
  <2> QED
    BY <2>1, <1>5, Zenon
<1>12. hdr'[a].size = n /\ hdr'[c].size = r /\ ~hdr'[c].used
  BY <1>11
<1>13. Chunks' = Chunks \cup {c}
  BY <1>1, <1>2, <1>3, <1>11, <1>12 DEF Chunks
<1>14. \A b \in Chunks \ {a} : hdr'[b].size = hdr[b].size
  BY <1>6, <1>9, <1>11
<1>15. HeapTiled'
  <2>1. 0 \in Chunks'
    BY <1>13 DEF HeapTiled
  <2>2. ASSUME NEW b \in Chunks'
        PROVE  /\ hdr'[b].size >= MINSIZE
               /\ b + hdr'[b].size <= kern_heap'
               /\ b + hdr'[b].size < kern_heap' => b + hdr'[b].size \in Chunks'
    <3>1. CASE b = a
      BY <3>1, <1>1, <1>3, <1>12, <1>13 DEF c
    <3>2. CASE b = c
      BY <3>2, <1>1, <1>2, <1>3, <1>12, <1>13
    <3>3. CASE b \in Chunks \ {a}
      <4>1. /\ hdr[b].size >= MINSIZE /\ b + hdr[b].size <= kern_heap
            /\ b + hdr[b].size < kern_heap => b + hdr[b].size \in Chunks
        BY <3>3, NextFacts
      <4> QED
        BY <3>3, <4>1, <1>13, <1>14
    <3> QED
      BY <3>1, <3>2, <3>3, <1>13
  <2>3. ASSUME NEW x \in Chunks', NEW y \in Chunks', x < y
        PROVE  x + hdr'[x].size <= y
    <3>1. CASE x = a /\ y = c
      BY <3>1, <1>1, <1>3, <1>12 DEF c
    <3>2. CASE x = a /\ y \in Chunks
      <4>1. a + s <= y /\ y \in Nat
        BY <3>2, <2>3, <1>6, <1>7
      <4>2. a + n <= y
        BY <4>1, <1>1, <1>2
      <4> QED
        BY <3>2, <4>2, <1>12
    <3>3. CASE x = c /\ y \in Chunks
      <4>1. y \in Nat
        BY <3>3, <1>6
      <4>2. a < y
        BY <3>3, <2>3, <4>1, <1>1, <1>3
      <4> QED
        BY <3>3, <4>2, <1>3, <1>7, <1>12
    <3>4. CASE x \in Chunks \ {a} /\ y = c
      <4>1. x < a
        BY <3>4, <2>3, <1>1, <1>3, <1>6, <1>7
      <4>2. x + hdr[x].size <= a /\ x \in Nat /\ hdr[x].size \in Nat
        BY <3>4, <4>1, <1>6, <1>8
      <4>3. x + hdr[x].size <= c
        BY <4>2, <1>1, <1>3
      <4> QED
        BY <3>4, <4>3, <1>14
    <3>5. CASE x \in Chunks \ {a} /\ y \in Chunks
      BY <3>5, <2>3, <1>14 DEF HeapTiled
    <3>6. x # c \/ y # c
      BY <2>3, <1>3
    <3> QED
      BY <3>1, <3>2, <3>3, <3>4, <3>5, <3>6, <1>13
  <2> QED
    BY <2>1, <2>2, <2>3 DEF HeapTiled
<1> QED
  BY <1>3, <1>9, <1>10, <1>11, <1>12, <1>13, <1>15 DEF Kept, c

\* A chunk absorbs the next one, which is inside of the heap: the others stay
\* as they were.
LEMMA MergeTiled ==
    ASSUME TypeOK, HeapTiled, NEW a \in Chunks, a + hdr[a].size < kern_heap,
           \A p \in Callers : call[p].at # a + hdr[a].size,
           hdr' = Forget(Join(hdr, a), a + hdr[a].size), UNCHANGED kern_heap
    PROVE  /\ hdr' \in [Addr -> Header]
           /\ a + hdr[a].size \in Chunks \ {a} /\ Kept({a, a + hdr[a].size})
           /\ hdr'[a].used = hdr[a].used
           /\ Chunks' = Chunks \ {a + hdr[a].size}
           /\ HeapTiled'
<1> DEFINE s == hdr[a].size
           c == a + hdr[a].size
           t == hdr[a + hdr[a].size].size
           u == hdr[a].used
<1>1. /\ a \in Addr /\ a \in Nat /\ s \in Nat /\ s > 0 /\ s >= MINSIZE
      /\ kern_heap \in Nat /\ kern_heap <= LIMIT
      /\ c \in Chunks /\ c > a /\ c \in Nat /\ c = a + s /\ u \in BOOLEAN
  BY NextFacts, HeaderFacts, ConstantFacts DEF Addr, TypeOK
<1>2. /\ c \in Addr /\ t \in Nat /\ t > 0 /\ c + t <= kern_heap
      /\ c + t < kern_heap => c + t \in Chunks
  BY <1>1, NextFacts, ConstantFacts
<1>3. s + t \in 0..LIMIT /\ (s + t) % WORD = s + t
  <2>1. s + t \in Nat /\ s + t <= LIMIT /\ s + t < WORD
    BY <1>1, <1>2, ConstantFacts
  <2>2. LIMIT \in Nat /\ WORD \in Nat
    BY ConstantFacts
  <2> HIDE DEF s, t
  <2> QED
    BY <2>1, <2>2, SmallMod
<1>4. hdr[a] \in Header /\ Blank \in Header
  BY <1>1, ConstantFacts DEF TypeOK, Header, Blank
<1>5. [hdr[a] EXCEPT !.size = s + t] = [size |-> s + t, used |-> u]
  BY <1>4 DEF Header
<1>6. hdr' = [hdr EXCEPT ![a] = [size |-> s + t, used |-> u], ![c] = Blank]
  <2>1. Join(hdr, a) = [hdr EXCEPT ![a] = [hdr[a] EXCEPT !.size = (s + t) % WORD]]
    BY DEF Join
  <2>2. hdr' = [Join(hdr, a) EXCEPT ![c] = Blank]
    BY DEF Forget
  <2> QED
    BY <2>1, <2>2, <1>3, <1>5
<1>7. [size |-> s + t, used |-> u] \in Header
  BY <1>1, <1>3 DEF Header
<1>8. \A b \in Chunks : b \in Nat /\ b \in Addr /\ hdr[b].size \in Nat /\ hdr[b].size > 0
  BY NextFacts, ConstantFacts DEF Addr
<1>9. \A b \in Chunks : a < b => c <= b
  BY DEF HeapTiled
<1>10. \A b \in Chunks : c < b => c + t <= b
  BY <1>1 DEF HeapTiled
<1>11. \A b \in Chunks : b < a => b + hdr[b].size <= a
  BY DEF HeapTiled
<1> HIDE DEF s, t, c, u
<1>12. hdr' \in [Addr -> Header]
  BY <1>1, <1>2, <1>4, <1>6, <1>7 DEF TypeOK
<1>13. /\ hdr'[a] = [size |-> s + t, used |-> u] /\ hdr'[c] = Blank
       /\ \A b \in Addr \ {a, c} : hdr'[b] = hdr[b]
  <2>1. a \in Addr /\ c \in Addr /\ a # c /\ hdr \in [Addr -> Header]
    BY <1>1, <1>2 DEF TypeOK
  <2> QED
    BY <2>1, <1>6, Zenon
<1>14. hdr'[a].size = s + t /\ hdr'[c].size = 0 /\ hdr'[a].used = u
  <2>1. hdr'[a].size = s + t /\ hdr'[a].used = u
    BY <1>13
  <2>2. hdr'[c].size = 0
    BY <1>13 DEF Blank
  <2> QED
    BY <2>1, <2>2
<1>15. Chunks' = Chunks \ {c}
  <2>1. hdr'[a].size > 0 /\ ~(hdr'[c].size > 0) /\ a # c
    BY <1>1, <1>2, <1>14
  <2> QED
    BY <1>1, <1>2, <1>13, <2>1 DEF Chunks
<1>16. \A b \in Chunks \ {a, c} : hdr'[b].size = hdr[b].size
  BY <1>8, <1>13
<1>17. \A b \in Chunks \ {a, c} : b + hdr[b].size # c
  <2> SUFFICES ASSUME NEW b \in Chunks \ {a, c}
               PROVE  b + hdr[b].size # c
    OBVIOUS
  <2>1. CASE b < a
    BY <2>1, <1>1, <1>8, <1>11
  <2>2. CASE b > a
    <3>1. b > c
      BY <2>2, <1>1, <1>8, <1>9
    <3> QED
      BY <3>1, <1>1, <1>8
  <2> QED
    BY <2>1, <2>2, <1>1, <1>8
<1>18. HeapTiled'
  <2>1. 0 \in Chunks'
    BY <1>1, <1>15 DEF HeapTiled
  <2>2. ASSUME NEW b \in Chunks'
        PROVE  /\ hdr'[b].size >= MINSIZE
               /\ b + hdr'[b].size <= kern_heap'
               /\ b + hdr'[b].size < kern_heap' => b + hdr'[b].size \in Chunks'
    <3>1. CASE b = a
      <4>1. b + hdr'[b].size = c + t /\ c + t # c /\ s + t >= MINSIZE
        BY <3>1, <1>1, <1>2, <1>14, ConstantFacts
      <4> QED
        BY <3>1, <4>1, <1>2, <1>14, <1>15
    <3>2. CASE b # a
      <4>1. b \in Chunks \ {a, c}
        BY <3>2, <1>15
      <4>2. /\ hdr[b].size >= MINSIZE /\ b + hdr[b].size <= kern_heap
            /\ b + hdr[b].size < kern_heap => b + hdr[b].size \in Chunks
        BY <4>1, NextFacts
      <4>3. hdr'[b].size = hdr[b].size /\ b + hdr[b].size # c
        BY <4>1, <1>16, <1>17
      <4> QED
        BY <4>2, <4>3, <1>15
    <3> QED
      BY <3>1, <3>2
  <2>3. ASSUME NEW x \in Chunks', NEW y \in Chunks', x < y
        PROVE  x + hdr'[x].size <= y
    <3>1. x \in Chunks /\ y \in Chunks /\ x # c /\ y # c
      BY <1>15
    <3>2. CASE x = a
      <4>1. c < y
        <5>1. c <= y /\ y \in Nat /\ y # c
          BY <2>3, <3>1, <3>2, <1>8, <1>9
        <5> QED
          BY <5>1, <1>1
      <4> QED
        <5>1. c + t <= y
          BY <3>1, <4>1, <1>10
        <5>2. a + (s + t) = c + t
          BY <1>1, <1>2
        <5> QED
          BY <3>2, <5>1, <5>2, <1>14
    <3>3. CASE x # a
      BY <2>3, <3>1, <3>3, <1>16 DEF HeapTiled
    <3> QED
      BY <3>2, <3>3
  <2> QED
    BY <2>1, <2>2, <2>3 DEF HeapTiled
<1>19. c \in Chunks \ {a}
  BY <1>1
<1>20. Kept({a, c}) /\ hdr'[a].used = u
  BY <1>13, <1>14, Zenon DEF Kept
<1> QED
  BY <1>12, <1>15, <1>18, <1>19, <1>20, Zenon DEF c, u

-----------------------------------------------------------------------------
\* Without preemption, whoever makes a step is the only one inside of a call.
LEMMA Alone ==
    ASSUME ~PREEMPT, NEW p \in Callers, Runs(p)
    PROVE  \A q \in Callers \ {p} : call[q].pc = "run"
BY DEF Runs

\* A step of p leaves the other callers outside of a call, so that only where
\* p is has to be looked at.
LEMMA CallStep ==
    ASSUME ~PREEMPT, TypeOK, CallsSound, NEW p \in Callers, NEW from, NEW to,
           At(p, from, to), to \in Call, Sound(call[p])'
    PROVE  call' \in [Callers -> Call] /\ OneCaller' /\ CallsSound'
<1>1. call' = [call EXCEPT ![p] = to] /\ call \in [Callers -> Call]
  BY DEF At, TypeOK
<1>2. call' \in [Callers -> Call]
  BY <1>1
<1>3. \A q \in Callers \ {p} : call'[q] = call[q]
  BY <1>1
<1>4. \A q \in Callers \ {p} : call[q].pc = "run"
  BY Alone DEF At
<1>5. \A q \in Callers \ {p} : call'[q].pc = "run" /\ call'[q].at = 0
  BY <1>3, <1>4 DEF CallsSound, Sound
<1>6. OneCaller'
  BY <1>5 DEF OneCaller
<1>7. CallsSound'
  BY <1>5 DEF CallsSound, Sound
<1> QED
  BY <1>2, <1>6, <1>7

\* Where p is inside of a call, by what the invariant says of it.
LEMMA PlaceFacts ==
    ASSUME TypeOK, CallsSound, NEW p \in Callers
    PROVE  /\ call[p] \in Call /\ call[p].at \in Addr /\ call[p].n \in Nat
           /\ Sound(call[p])
BY DEF TypeOK, CallsSound, Call

\* The heap starts as one free chunk.
LEMMA HeapInit == Init => HeapInv
<1> SUFFICES ASSUME Init
             PROVE  HeapInv
  OBVIOUS
<1> USE ConstantFacts
<1>1. 0 \in Addr /\ Blank \in Header /\ [size |-> PAGESIZE, used |-> FALSE] \in Header
  BY DEF Addr, Header, Blank
<1>2. Idle \in Call
  BY <1>1 DEF Idle, Call
<1>3. TypeOK
  BY <1>1, <1>2 DEF Init, TypeOK
<1>4. hdr[0] = [size |-> PAGESIZE, used |-> FALSE] /\ \A a \in Addr \ {0} : hdr[a] = Blank
  BY <1>1 DEF Init
<1>5. hdr[0].size = PAGESIZE /\ ~hdr[0].used /\ \A a \in Addr \ {0} : hdr[a].size = 0
  BY <1>4 DEF Blank
<1>6. Chunks = {0}
  BY <1>1, <1>5 DEF Chunks
<1>7. HeapTiled
  BY <1>5, <1>6 DEF HeapTiled, Init
<1>8. BlocksExact
  BY <1>5, <1>6 DEF BlocksExact, Init
<1>9. \A p \in Callers : call[p] = Idle
  BY DEF Init
<1>10. CallsSound /\ OneCaller
  BY <1>9 DEF CallsSound, OneCaller, Sound, Idle
<1> QED
  BY <1>3, <1>7, <1>8, <1>10 DEF HeapInv

-----------------------------------------------------------------------------
\* Steps that leave the heap alone: only where the caller is has to be sound.
LEMMA QuietStep ==
    ASSUME ~PREEMPT, HeapInv, NEW p \in Callers, NEW from, NEW to, At(p, from, to),
           to \in Call, Sound(to), UNCHANGED <<hdr, kern_heap, live>>
    PROVE  HeapInv'
<1>1. TypeOK /\ CallsSound /\ HeapTiled /\ BlocksExact
  BY DEF HeapInv
<1>2. Chunks' = Chunks
  BY DEF Chunks
<1>3. call'[p] = to
  BY <1>1 DEF At, TypeOK
<1>4. Sound(call[p])'
  BY <1>2, <1>3 DEF Sound
<1>5. call' \in [Callers -> Call] /\ OneCaller' /\ CallsSound'
  BY <1>1, <1>4, CallStep
<1>6. TypeOK' /\ HeapTiled' /\ BlocksExact'
  BY <1>1, <1>2, <1>5 DEF TypeOK, HeapTiled, BlocksExact
<1> QED
  BY <1>5, <1>6 DEF HeapInv

\* kmalloc() starts to search.
LEMMA EnterStep ==
    ASSUME ~PREEMPT, HeapInv, NEW p \in Callers, NEW size \in Sizes, kmalloc(p, size)
    PROVE  HeapInv'
<1> DEFINE to == [pc |-> "search", at |-> 0, n |-> Real(size)]
<1>1. Real(size) \in Nat /\ Real(size) >= MINSIZE
  BY RealFacts, KmallocAssumption
<1>2. 0 \in Addr /\ 0 \in Chunks
  BY DEF HeapInv, HeapTiled, Chunks
<1>3. to \in Call
  BY <1>1, <1>2 DEF Call
<1>4. Sound(to)
  BY <1>1, <1>2 DEF Sound
<1>5. At(p, "run", to) /\ UNCHANGED <<hdr, kern_heap, live>>
  BY DEF kmalloc
<1> HIDE DEF to
<1> QED
  BY <1>3, <1>4, <1>5, QuietStep

\* The search stops at a chunk that fits.
LEMMA FoundStep ==
    ASSUME ~PREEMPT, HeapInv, NEW p \in Callers, Found(p)
    PROVE  HeapInv'
<1> DEFINE to == [call[p] EXCEPT !.pc = "found"]
<1>1. call[p] \in Call /\ Sound(call[p]) /\ call[p].pc = "search"
  BY PlaceFacts DEF HeapInv, Found, At
<1>2. to \in Call /\ to.pc = "found" /\ to.at = call[p].at /\ to.n = call[p].n
  BY <1>1 DEF Call
<1>3. At(p, "search", to) /\ Fits(hdr, to.at, to.n) /\ UNCHANGED <<hdr, kern_heap, live>>
  BY <1>2 DEF Found
<1> HIDE DEF to
<1>4. Sound(to)
  BY <1>1, <1>2, <1>3 DEF Sound
<1> QED
  BY <1>2, <1>3, <1>4, QuietStep

\* kfree() looks at the chunk behind.
LEMMA TestStep ==
    ASSUME ~PREEMPT, HeapInv, NEW p \in Callers, Test(p)
    PROVE  HeapInv'
<1> DEFINE to == [call[p] EXCEPT !.pc = "join"]
<1>1. call[p] \in Call /\ Sound(call[p]) /\ call[p].pc = "merge" /\ UNCHANGED <<hdr, kern_heap, live>>
  BY PlaceFacts DEF HeapInv, Test, At
<1>2. CASE At(p, "merge", to) /\ Mergeable(hdr, kern_heap, call[p].at)
  <2>1. to \in Call /\ to.pc = "join" /\ to.at = call[p].at
    BY <1>1 DEF Call
  <2> HIDE DEF to
  <2>2. Sound(to)
    BY <1>1, <1>2, <2>1 DEF Sound
  <2> QED
    BY <1>1, <1>2, <2>1, <2>2, QuietStep
<1>3. CASE At(p, "merge", Idle)
  <2>1. 0 \in Addr
    BY ConstantFacts DEF Addr
  <2>2. Idle \in Call /\ Sound(Idle)
    BY <2>1 DEF Idle, Call, Sound
  <2> QED
    BY <1>1, <1>3, <2>2, QuietStep
<1> QED
  BY <1>2, <1>3 DEF Test

\* The search goes on, and may make the heap longer.
LEMMA SearchStep ==
    ASSUME ~PREEMPT, HeapInv, NEW p \in Callers, Search(p)
    PROVE  HeapInv'
<1> DEFINE a == call[p].at
           next == a + hdr[a].size
           n == call[p].n
           to == [call[p] EXCEPT !.at = next]
<1>1. TypeOK /\ CallsSound /\ HeapTiled /\ BlocksExact
  BY DEF HeapInv
<1>2. /\ call[p] \in Call /\ Sound(call[p]) /\ call[p].pc = "search" /\ n \in Nat
      /\ At(p, "search", to) /\ UNCHANGED live
  BY <1>1, PlaceFacts DEF Search, At
<1>3. a \in Chunks /\ n >= MINSIZE
  BY <1>2 DEF Sound
<1>4. call'[p] = to
  BY <1>1 DEF Search, At, TypeOK
<1>5. \/ next < kern_heap /\ UNCHANGED <<hdr, kern_heap>>
      \/ /\ next = kern_heap /\ kern_heap + Pages(n) <= LIMIT
         /\ hdr' = ksbrk(hdr, kern_heap, n) /\ kern_heap' = kern_heap + Pages(n)
  BY DEF Search
<1> HIDE DEF n
<1>6. ASSUME next \in Addr
      PROVE  to \in Call /\ to.pc = "search" /\ to.at = next /\ to.n = n
  BY <1>2, <1>6 DEF Call, n
<1>7. CASE next < kern_heap /\ UNCHANGED <<hdr, kern_heap>>
  <2>1. next \in Chunks /\ next \in Addr
    BY <1>1, <1>3, <1>7, NextFacts DEF Chunks
  <2>2. Sound(to)
    BY <1>3, <1>6, <2>1 DEF Sound
  <2> HIDE DEF to
  <2> QED
    BY <1>2, <1>6, <1>7, <2>1, <2>2, QuietStep
<1>8. CASE /\ next = kern_heap /\ kern_heap + Pages(n) <= LIMIT
           /\ hdr' = ksbrk(hdr, kern_heap, n) /\ kern_heap' = kern_heap + Pages(n)
  <2>1. /\ hdr' \in [Addr -> Header] /\ kern_heap' \in PAGESIZE..LIMIT
        /\ kern_heap \in Addr \ Chunks /\ Kept({kern_heap})
        /\ hdr'[kern_heap] = [size |-> Pages(n), used |-> FALSE]
        /\ Chunks' = Chunks \cup {kern_heap}
        /\ HeapTiled'
    BY <1>1, <1>2, <1>8, GrowTiled DEF n
  <2>2. to \in Call /\ to.pc = "search" /\ to.at = kern_heap /\ to.n = n
    BY <1>6, <1>8, <2>1
  <2>3. Sound(call[p])'
    BY <1>3, <1>4, <2>1, <2>2 DEF Sound
  <2> HIDE DEF to
  <2>4. call' \in [Callers -> Call] /\ OneCaller' /\ CallsSound'
    BY <1>1, <1>2, <2>2, <2>3, CallStep
  <2>5. TypeOK'
    BY <1>1, <1>2, <2>1, <2>4 DEF TypeOK
  <2>6. BlocksExact'
    <3>1. \A b \in live : b.at \in Chunks /\ b.at \in Addr \ {kern_heap}
      BY <1>1, <2>1 DEF BlocksExact, TypeOK, Block
    <3>2. \A b \in Chunks : hdr'[b] = hdr[b]
      BY <2>1 DEF Kept, Chunks
    <3>3. ~hdr'[kern_heap].used
      BY <2>1
    <3> QED
      BY <1>1, <1>2, <2>1, <3>1, <3>2, <3>3 DEF BlocksExact
  <2> QED
    BY <2>1, <2>4, <2>5, <2>6 DEF HeapInv
<1> QED
  BY <1>5, <1>7, <1>8

\* The chunk that was found is marked, and split if there is enough left: it
\* is as large as the block, and no other chunk has changed its mark.
LEMMA TakeFacts ==
    ASSUME TypeOK, HeapTiled, NEW a \in Chunks, NEW n \in Nat, n >= MINSIZE,
           Fits(hdr, a, n), hdr' = Take(hdr, a, n), UNCHANGED kern_heap
    PROVE  /\ hdr' \in [Addr -> Header] /\ HeapTiled'
           /\ a \in Chunks' /\ hdr'[a].used /\ hdr'[a].size >= n
           /\ \A b \in Chunks \ {a} : b \in Chunks' /\ hdr'[b] = hdr[b]
           /\ \A b \in Chunks' \ Chunks : ~hdr'[b].used
<1>1. a \in Addr /\ Chunks \subseteq Addr /\ hdr[a].size \in Nat /\ hdr[a].size >= n
  BY NextFacts, ConstantFacts DEF Chunks, Fits
<1>2. CASE (hdr[a].size - n) % WORD < MINSIZE
  <2>1. hdr' = [hdr EXCEPT ![a].used = TRUE]
    BY <1>2 DEF Take
  <2>2. /\ hdr' \in [Addr -> Header] /\ Kept({a}) /\ hdr'[a] = [size |-> hdr[a].size, used |-> TRUE]
        /\ Chunks' = Chunks /\ HeapTiled'
    BY <2>1, MarkTiled
  <2>3. hdr'[a].used /\ hdr'[a].size = hdr[a].size
    BY <2>2
  <2> QED
    BY <1>1, <2>2, <2>3 DEF Kept
<1>3. CASE ~((hdr[a].size - n) % WORD < MINSIZE)
  <2>1. /\ hdr' \in [Addr -> Header]
        /\ a + n \in Addr \ Chunks /\ Kept({a, a + n})
        /\ hdr'[a] = [size |-> n, used |-> TRUE] /\ ~hdr'[a + n].used
        /\ Chunks' = Chunks \cup {a + n}
        /\ HeapTiled'
    BY <1>1, <1>3, SplitTiled
  <2>2. hdr'[a].used /\ hdr'[a].size >= n
    BY <2>1
  <2> QED
    BY <1>1, <2>1, <2>2 DEF Kept
<1> QED
  BY <1>2, <1>3

\* The end of kmalloc(): one more block, in a chunk that nobody held.
LEMMA ReturnStep ==
    ASSUME ~PREEMPT, HeapInv, NEW p \in Callers, Return(p)
    PROVE  HeapInv'
<1> DEFINE a == call[p].at
           n == call[p].n
           new == [at |-> a, n |-> n]
<1>1. TypeOK /\ CallsSound /\ HeapTiled /\ BlocksExact
  BY DEF HeapInv
<1>2. /\ Sound(call[p]) /\ call[p].pc = "found" /\ a \in Addr /\ n \in Nat
      /\ At(p, "found", Idle) /\ UNCHANGED kern_heap
      /\ hdr' = Take(hdr, a, n) /\ live' = live \cup {new}
  BY <1>1, PlaceFacts DEF Return, At
<1>3. a \in Chunks /\ n >= MINSIZE /\ Fits(hdr, a, n)
  BY <1>2 DEF Sound
<1>4. new \in Block /\ new.at = a /\ new.n = n
  BY <1>2 DEF Block
<1> HIDE DEF a, n, new
<1>5. /\ hdr' \in [Addr -> Header] /\ HeapTiled'
      /\ a \in Chunks' /\ hdr'[a].used /\ hdr'[a].size >= n
      /\ \A b \in Chunks \ {a} : b \in Chunks' /\ hdr'[b] = hdr[b]
      /\ \A b \in Chunks' \ Chunks : ~hdr'[b].used
  BY <1>1, <1>2, <1>3, TakeFacts
<1>6. Idle \in Call /\ Sound(call[p])'
  <2>1. 0 \in Addr
    BY ConstantFacts DEF Addr
  <2>2. call'[p] = Idle
    BY <1>1, <1>2 DEF At, TypeOK
  <2> QED
    BY <2>1, <2>2 DEF Idle, Call, Sound
<1>7. call' \in [Callers -> Call] /\ OneCaller' /\ CallsSound'
  BY <1>1, <1>2, <1>6, CallStep
<1>8. TypeOK'
  BY <1>1, <1>2, <1>4, <1>5, <1>7 DEF TypeOK
<1>9. BlocksExact'
  <2>1. \A b \in live : b.at \in Chunks /\ hdr[b.at].used
    BY <1>1 DEF BlocksExact
  <2>2. ~hdr[a].used
    BY <1>3 DEF Fits
  <2>3. \A b \in live : b.at # a /\ hdr'[b.at] = hdr[b.at] /\ b.at \in Chunks'
    BY <2>1, <2>2, <1>5
  <2>4. {b \in Chunks' : hdr'[b].used} = {b \in Chunks : hdr[b].used} \cup {a}
    BY <1>3, <1>5
  <2>5. {b.at : b \in live'} = {b.at : b \in live} \cup {a}
    BY <1>2, <1>4
  <2>6. {b \in Chunks' : hdr'[b].used} = {b.at : b \in live'}
    BY <2>4, <2>5, <1>1 DEF BlocksExact
  <2>7. \A b \in live' : hdr'[b.at].size >= b.n
    BY <1>1, <1>2, <1>4, <1>5, <2>3 DEF BlocksExact
  <2>8. \A b, c \in live' : b.at = c.at => b = c
    BY <1>1, <1>2, <1>4, <2>3 DEF BlocksExact
  <2> QED
    BY <2>6, <2>7, <2>8 DEF BlocksExact
<1> QED
  BY <1>5, <1>7, <1>8, <1>9 DEF HeapInv

\* kfree() of a block: its chunk is nobody's.
LEMMA FreeStep ==
    ASSUME ~PREEMPT, HeapInv, NEW p \in Callers, NEW b \in live, kfree(p, b)
    PROVE  HeapInv'
<1> DEFINE a == b.at
           to == [pc |-> "merge", at |-> a, n |-> 0]
<1>1. TypeOK /\ CallsSound /\ HeapTiled /\ BlocksExact
  BY DEF HeapInv
<1>2. /\ At(p, "run", to) /\ hdr' = [hdr EXCEPT ![a].used = FALSE]
      /\ live' = live \ {b} /\ UNCHANGED kern_heap
  BY DEF kfree
<1>3. a \in Chunks /\ a \in Addr
  BY <1>1 DEF BlocksExact, TypeOK, Block
<1>4. to \in Call /\ to.pc = "merge" /\ to.at = a
  BY <1>3 DEF Call
<1> HIDE DEF to
<1>5. /\ hdr' \in [Addr -> Header] /\ Kept({a}) /\ hdr'[a] = [size |-> hdr[a].size, used |-> FALSE]
      /\ Chunks' = Chunks /\ HeapTiled'
  BY <1>1, <1>2, <1>3, MarkTiled
<1>6. ~hdr'[a].used /\ \A c \in Chunks \ {a} : hdr'[c] = hdr[c]
  BY <1>5 DEF Kept, Chunks
<1>7. Sound(call[p])'
  <2>1. call'[p] = to
    BY <1>1, <1>2 DEF At, TypeOK
  <2> QED
    BY <2>1, <1>3, <1>4, <1>5, <1>6 DEF Sound
<1>8. call' \in [Callers -> Call] /\ OneCaller' /\ CallsSound'
  BY <1>1, <1>2, <1>4, <1>7, CallStep
<1>9. TypeOK'
  BY <1>1, <1>2, <1>5, <1>8 DEF TypeOK
<1>10. BlocksExact'
  <2>1. \A c \in live : c # b => c.at # a
    BY <1>1 DEF BlocksExact
  <2>2. \A c \in live' : c.at \in Chunks \ {a}
    BY <1>1, <1>2, <2>1 DEF BlocksExact
  <2>3. {c \in Chunks' : hdr'[c].used} = {c \in Chunks : hdr[c].used} \ {a}
    BY <1>5, <1>6
  <2>4. {c.at : c \in live'} = {c.at : c \in live} \ {a}
    BY <1>2, <2>1
  <2>5. {c \in Chunks' : hdr'[c].used} = {c.at : c \in live'}
    BY <2>3, <2>4, <1>1 DEF BlocksExact
  <2>6. \A c \in live' : hdr'[c.at].size >= c.n
    BY <1>1, <1>2, <1>6, <2>2 DEF BlocksExact
  <2> QED
    BY <2>5, <2>6, <1>1, <1>2 DEF BlocksExact
<1> QED
  BY <1>5, <1>8, <1>9, <1>10 DEF HeapInv

\* kfree() joins a chunk with the free one behind it: no block is in either.
LEMMA MergeStep ==
    ASSUME ~PREEMPT, HeapInv, NEW p \in Callers, Merge(p)
    PROVE  HeapInv'
<1> DEFINE a == call[p].at
           c == a + hdr[a].size
           to == [call[p] EXCEPT !.pc = "merge"]
<1>1. TypeOK /\ CallsSound /\ HeapTiled /\ BlocksExact
  BY DEF HeapInv
<1>2. /\ Sound(call[p]) /\ call[p] \in Call /\ call[p].pc = "join"
      /\ At(p, "join", to) /\ UNCHANGED <<kern_heap, live>>
      /\ hdr' = Forget(Join(hdr, a), c)
  BY <1>1, PlaceFacts DEF Merge, At
<1>3. a \in Chunks /\ ~hdr[a].used /\ c < kern_heap /\ ~hdr[c].used
  BY <1>2 DEF Sound, Mergeable
<1>4. to \in Call /\ to.pc = "merge" /\ to.at = a
  BY <1>2 DEF Call
<1>5. \A q \in Callers : call[q].at # c
  <2>1. a \in Nat /\ c > a /\ c \in Nat /\ c # 0
    BY <1>1, <1>3, NextFacts DEF Addr
  <2>2. \A q \in Callers \ {p} : call[q].at = 0
    <3>1. \A q \in Callers \ {p} : call[q].pc = "run"
      BY <1>2, Alone DEF At
    <3> QED
      BY <3>1, <1>1 DEF CallsSound, Sound
  <2> QED
    BY <2>1, <2>2
<1> HIDE DEF a, to
<1>6. /\ hdr' \in [Addr -> Header] /\ c \in Chunks \ {a} /\ Kept({a, c})
      /\ hdr'[a].used = hdr[a].used /\ Chunks' = Chunks \ {c} /\ HeapTiled'
  BY <1>1, <1>2, <1>3, <1>5, MergeTiled
<1> HIDE DEF c
<1>7. Sound(call[p])'
  <2>1. call'[p] = to
    BY <1>1, <1>2 DEF At, TypeOK
  <2> QED
    BY <2>1, <1>3, <1>4, <1>6 DEF Sound
<1>8. call' \in [Callers -> Call] /\ OneCaller' /\ CallsSound'
  BY <1>1, <1>2, <1>4, <1>7, CallStep
<1>9. TypeOK'
  BY <1>1, <1>2, <1>6, <1>8 DEF TypeOK
<1>10. BlocksExact'
  <2>1. \A b \in Chunks \ {a, c} : hdr'[b] = hdr[b]
    BY <1>6 DEF Kept, Chunks
  <2>2. \A b \in live : b.at \in Chunks \ {a, c}
    BY <1>1, <1>3 DEF BlocksExact
  <2>3. {b \in Chunks' : hdr'[b].used} = {b \in Chunks : hdr[b].used}
    BY <1>3, <1>6, <2>1
  <2> QED
    BY <1>1, <1>2, <2>1, <2>2, <2>3 DEF BlocksExact
<1> QED
  BY <1>6, <1>8, <1>9, <1>10 DEF HeapInv

-----------------------------------------------------------------------------
\* Every step keeps the invariant.
LEMMA HeapStep == ASSUME ~PREEMPT PROVE HeapInv /\ [Next]_vars => HeapInv'
<1> SUFFICES ASSUME HeapInv, [Next]_vars
             PROVE  HeapInv'
  OBVIOUS
<1>1. ASSUME NEW p \in Callers, Step(p)
      PROVE  HeapInv'
  BY <1>1, EnterStep, FoundStep, SearchStep, ReturnStep, FreeStep, TestStep, MergeStep DEF Step
<1>2. CASE UNCHANGED vars
  <2>1. Chunks' = Chunks
    BY <1>2 DEF vars, Chunks
  <2>2. CallsSound'
    BY <1>2, <2>1 DEF HeapInv, vars, CallsSound, Sound
  <2>3. TypeOK' /\ OneCaller' /\ HeapTiled' /\ BlocksExact'
    BY <1>2, <2>1 DEF HeapInv, vars, TypeOK, OneCaller, HeapTiled, BlocksExact
  <2> QED
    BY <2>2, <2>3 DEF HeapInv
<1> QED
  BY <1>1, <1>2 DEF Next

\* The invariant holds throughout, when no call is preempted.
LEMMA HeapInvariant == ASSUME ~PREEMPT PROVE Spec => []HeapInv
<1>1. HeapInv /\ [Next]_vars => HeapInv'
  BY HeapStep
<1> QED
  BY <1>1, HeapInit, PTL DEF Spec

\* Headers, sizes, blocks and places stay in their types whatever is asked
\* for: in particular no size reaches the width of its field.
THEOREM TypeCorrect == ASSUME ~PREEMPT PROVE Spec => []TypeOK
<1>1. HeapInv => TypeOK
  BY DEF HeapInv
<1> QED
  BY <1>1, HeapInvariant, PTL

\* HeapTiled for a heap, pages, headers and requests of any size and any
\* number of callers: after every iteration of kmalloc() and kfree() the
\* chunks tile the heap.
THEOREM TilingCorrect == ASSUME ~PREEMPT PROVE Spec => []HeapTiled
<1>1. HeapInv => HeapTiled
  BY DEF HeapInv
<1> QED
  BY <1>1, HeapInvariant, PTL

\* BlocksExact likewise: kmalloc() never hands out a chunk that somebody holds
\* and kfree() never joins one to another.
THEOREM OwnershipCorrect == ASSUME ~PREEMPT PROVE Spec => []BlocksExact
<1>1. HeapInv => BlocksExact
  BY DEF HeapInv
<1> QED
  BY <1>1, HeapInvariant, PTL

\* The search of kmalloc() never stands where the code would PANIC: the chunk
\* it looks at has a size, and the next one is inside the heap or at its end.
NoPanic ==
    \A p \in Callers : call[p].pc = "search" =>
        LET a == call[p].at
        IN  hdr[a].size > 0 /\ a + hdr[a].size <= kern_heap

\* NoPanic holds throughout.
THEOREM SearchCorrect == ASSUME ~PREEMPT PROVE Spec => []NoPanic
<1>1. HeapInv => NoPanic
  <2> SUFFICES ASSUME HeapInv, NEW p \in Callers, call[p].pc = "search"
               PROVE  hdr[call[p].at].size > 0 /\ call[p].at + hdr[call[p].at].size <= kern_heap
    BY DEF NoPanic
  <2>1. call[p].at \in Chunks /\ HeapTiled
    BY DEF HeapInv, CallsSound, Sound
  <2> QED
    BY <2>1 DEF HeapTiled, Chunks
<1> QED
  BY <1>1, HeapInvariant, PTL

=============================================================================
